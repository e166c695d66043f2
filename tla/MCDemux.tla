------------------------------- MODULE MCDemux -------------------------------
(* Up to three packets, a receive buffer for one, every layout that the    *)
(* code tells apart: each kind alone, a reference before and behind media, *)
(* two references in a packet, two media in a packet.  The clock starts    *)
(* below 1 ms, where a reference reads 0.                                  *)
EXTENDS Demux

MCLayouts ==
  {<<"video">>, <<"audio">>, <<"other">>, <<"pcr", "video">>,
   <<"audio", "pcr", "pcr">>, <<"other", "video", "audio">>}
MCClocks == {299, 27000}
=============================================================================
