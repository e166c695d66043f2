-------------------------------- MODULE Demux --------------------------------
(***************************************************************************)
(* The front of the pipeline: the thread of mgmt_data that receives RTP    *)
(* packets from the UDP socket and puts them on the packet queue, and the  *)
(* thread of mgmt_m2ts_decoder that takes them off, publishes their clock  *)
(* reference and routes them to the video or the audio decoder.            *)
(*                                                                         *)
(* A packet is a number (the order of arrival, the identity of its         *)
(* buffer), the kinds of its transport stream cells, and the reading of    *)
(* the source's 27 MHz clock when it was sent.  Between two calls on pipes *)
(* the threads touch nothing that is shared, and a call on a pipe takes    *)
(* effect at one moment (SxQueueProofs), so a step ends with such a call.  *)
(* The sequence number of a packet is only logged and is left out.         *)
(*                                                                         *)
(* A definition whose comment begins with "Slip" is not part of the        *)
(* specification: put in the place of the one it is named after, it is a   *)
(* plausible mistake that breaks the property it names.                    *)
(***************************************************************************)
EXTENDS Naturals, Sequences, FiniteSets, SequencesExt

CONSTANTS
  Layouts,     \* the kinds of the cells of a packet: non-empty sequences
  Clocks,      \* the readings of the source's clock at which packets leave
  SocketSize,  \* packets the socket's receive buffer holds
  MaxPackets,  \* bound: packets received
  NoPacket

ASSUME DemuxAssumption ==
  /\ Layouts \subseteq Seq({"pcr", "video", "audio", "other"}) \ {<<>>}
  /\ Clocks \subseteq Nat
  /\ SocketSize \in Nat \ {0} /\ MaxPackets \in Nat

Packets == [num : 1 .. MaxPackets, cells : Layouts, ticks : Clocks]

ASSUME NoPacketAssumption == NoPacket \notin Packets

VARIABLES
  clock, socket,  \* the source's clock; the socket's receive buffer
  arrived,        \* how many packets the network brought
  received,       \* all that sx_udp_recv returned
  pkt,            \* the receive thread's packet (NoPacket: in sx_udp_recv)
  pkt_queue,      \* the pipe SX_VRDMA_PKT_QUEUE
  stage, desc,    \* the process thread: what it does next, and its packet
  video_pkt_queue, lpcm, pcr,     \* the pipes it puts on
  video_taken, lpcm_taken, pcr_taken,  \* what the other threads took off
  freed           \* numbers of the packets given back

rx      == <<clock, socket, arrived, received, pkt>>
pipes   == <<video_pkt_queue, lpcm, pcr>>
taken   == <<video_taken, lpcm_taken, pcr_taken>>
process == <<stage, desc>>
vars    == <<rx, pkt_queue, process, pipes, taken, freed>>

(* Milliseconds of the source's clock; 0 says that there is no reference.  *)
References == Nat \ {0}

TypeOK ==
  /\ clock \in Clocks \cup {0} /\ arrived \in 0 .. MaxPackets
  /\ socket \in Seq(Packets) /\ Len(socket) <= SocketSize
  /\ received \in Seq(Packets)
  /\ pkt \in Packets \cup {NoPacket}
  /\ pkt_queue \in Seq(Packets)
  /\ stage \in {"get", "reference", "route"}
  /\ desc \in Packets \cup {NoPacket}
  /\ stage = "get" <=> desc = NoPacket
  /\ video_pkt_queue \in Seq(Packets) /\ video_taken \in Seq(Packets)
  /\ lpcm \in Seq(Packets) /\ lpcm_taken \in Seq(Packets)
  /\ pcr \in Seq(References) /\ pcr_taken \in Seq(References)
  /\ freed \subseteq 1 .. MaxPackets

Init ==
  /\ clock = 0 /\ socket = <<>> /\ arrived = 0 /\ received = <<>>
  /\ pkt = NoPacket /\ pkt_queue = <<>>
  /\ stage = "get" /\ desc = NoPacket
  /\ video_pkt_queue = <<>> /\ lpcm = <<>> /\ pcr = <<>>
  /\ video_taken = <<>> /\ lpcm_taken = <<>> /\ pcr_taken = <<>>
  /\ freed = {}

-----------------------------------------------------------------------------
(* What is read from a packet.                                             *)

(* The source writes into the i-th cell, if it is a reference, its clock   *)
(* 1 ms per cell later: a base of 33 bits in units of 300 ticks, 6         *)
(* reserved bits that are ones, and an extension of 9 bits.                *)
PcrField(p, i) ==
  LET ticks == p.ticks + 27000 * (i - 1)
  IN  (ticks \div 300) * 2^15 + 63 * 2^9 + (ticks % 300)

(* Slip, ImplementsRouter: the reserved bits are taken for extension.      *)
Milliseconds_Reserved(f) == ((f \div 2^15) * 300 + (f % 2^15)) \div 27000

Milliseconds(f) == ((f \div 2^15) * 300 + (f % 2^9)) \div 27000

FirstCell(p, K) == SelectInSeq(p.cells, LAMBDA c : c \in K)

(* 0 when no cell of the packet is a reference.                            *)
PcrGet(p) ==
  LET i == FirstCell(p, {"pcr"})
  IN  IF i = 0 THEN 0 ELSE Milliseconds(PcrField(p, i))

PktType(p) ==
  LET i == FirstCell(p, {"video", "audio"})
  IN  IF i = 0 THEN "null" ELSE p.cells[i]

-----------------------------------------------------------------------------
(* The network, and the receive thread.                                    *)

(* A packet reaches the socket; packets that do not are as if never sent.  *)
Arrive ==
  /\ arrived < MaxPackets
  /\ Len(socket) < SocketSize
  /\ \E c \in Clocks, l \in Layouts :
       /\ c >= clock
       /\ clock' = c
       /\ arrived' = arrived + 1
       /\ socket' = Append(socket, [num |-> arrived + 1, cells |-> l, ticks |-> c])
  /\ UNCHANGED <<received, pkt, pkt_queue, process, pipes, taken, freed>>

(* sx_udp_recv returns.                                                    *)
Receive ==
  /\ pkt = NoPacket
  /\ socket # <<>>
  /\ pkt' = Head(socket)
  /\ socket' = Tail(socket)
  /\ received' = Append(received, Head(socket))
  /\ UNCHANGED <<clock, arrived, pkt_queue, process, pipes, taken, freed>>

PutPacket ==
  /\ pkt # NoPacket
  /\ pkt_queue' = Append(pkt_queue, pkt)
  /\ pkt' = NoPacket
  /\ UNCHANGED <<clock, socket, arrived, received, process, pipes, taken, freed>>

-----------------------------------------------------------------------------
(* The process thread.  When the packet queue is empty it sleeps.          *)
Get(next) ==
  /\ stage = "get"
  /\ pkt_queue # <<>>
  /\ desc' = Head(pkt_queue)
  /\ pkt_queue' = Tail(pkt_queue)
  /\ stage' = next
  /\ UNCHANGED <<rx, pipes, taken, freed>>

Continue(next) ==
  /\ stage' = next
  /\ desc' = IF next = "get" THEN NoPacket ELSE desc

(* The time 0 is not published.                                            *)
PutReference(next) ==
  /\ stage = "reference"
  /\ pcr' = IF PcrGet(desc) > 0 THEN Append(pcr, PcrGet(desc)) ELSE pcr
  /\ Continue(next)
  /\ UNCHANGED <<rx, pkt_queue, video_pkt_queue, lpcm, taken, freed>>

(* sx_desc_put: the descriptor and its data are given back.                *)
DescPut(p) == freed' = freed \cup {p.num}

(* Slip, OneOwner: the break of the case of video is missing.              *)
Switch_FallsThrough(p) ==
  /\ video_pkt_queue' =
       IF PktType(p) = "video" THEN Append(video_pkt_queue, p) ELSE video_pkt_queue
  /\ lpcm' = IF PktType(p) # "null" THEN Append(lpcm, p) ELSE lpcm
  /\ freed' = IF PktType(p) = "null" THEN freed \cup {p.num} ELSE freed

Switch(p) ==
  \/ /\ PktType(p) = "video"
     /\ video_pkt_queue' = Append(video_pkt_queue, p)
     /\ UNCHANGED <<lpcm, freed>>
  \/ /\ PktType(p) = "audio"
     /\ lpcm' = Append(lpcm, p)
     /\ UNCHANGED <<video_pkt_queue, freed>>
  \/ /\ PktType(p) = "null"
     /\ DescPut(p)
     /\ UNCHANGED <<video_pkt_queue, lpcm>>

Route(next) ==
  /\ stage = "route"
  /\ Switch(desc)
  /\ Continue(next)
  /\ UNCHANGED <<rx, pkt_queue, pcr, taken>>

(* Slip, ReferenceFirst: the packet is routed before its reference is read.*)
Process_RoutesFirst == Get("route") \/ Route("reference") \/ PutReference("get")

Process == Get("reference") \/ PutReference("route") \/ Route("get")

-----------------------------------------------------------------------------
(* The threads behind the pipes: video decoder, audio decoder and the      *)
(* thread of the video scheduler that reads the references.                *)
TakeVideo ==
  /\ video_pkt_queue # <<>>
  /\ video_taken' = Append(video_taken, Head(video_pkt_queue))
  /\ video_pkt_queue' = Tail(video_pkt_queue)
  /\ UNCHANGED <<rx, pkt_queue, process, lpcm, pcr, lpcm_taken, pcr_taken, freed>>

TakeAudio ==
  /\ lpcm # <<>>
  /\ lpcm_taken' = Append(lpcm_taken, Head(lpcm))
  /\ lpcm' = Tail(lpcm)
  /\ UNCHANGED <<rx, pkt_queue, process, video_pkt_queue, pcr, video_taken, pcr_taken, freed>>

TakeReference ==
  /\ pcr # <<>>
  /\ pcr_taken' = Append(pcr_taken, Head(pcr))
  /\ pcr' = Tail(pcr)
  /\ UNCHANGED <<rx, pkt_queue, process, video_pkt_queue, lpcm, video_taken, lpcm_taken, freed>>

Next ==
  \/ Arrive \/ Receive \/ PutPacket
  \/ Process
  \/ TakeVideo \/ TakeAudio \/ TakeReference

(* Every thread polls its pipe for ever and never waits for another; the   *)
(* network owes nothing.                                                   *)
Fairness ==
  /\ WF_vars(PutPacket) /\ WF_vars(Process)
  /\ WF_vars(TakeVideo) /\ WF_vars(TakeAudio) /\ WF_vars(TakeReference)

Spec == Init /\ [][Next]_vars /\ Fairness

-----------------------------------------------------------------------------
(* Every packet received is in exactly one place: in the hands of one of   *)
(* the two threads, on one pipe, with one decoder, or given back.  A       *)
(* second one would be a second owner that frees the same buffer again;    *)
(* none would be a leak.                                                   *)
Nums(s) == {s[i].num : i \in DOMAIN s}

Held(p) == IF p = NoPacket THEN {} ELSE {p.num}

Places ==
  <<Held(pkt), Nums(pkt_queue), Held(desc), Nums(video_pkt_queue),
    Nums(video_taken), Nums(lpcm), Nums(lpcm_taken), freed>>

OneOwner ==
  /\ TypeOK
  /\ \A n \in Nums(received) : \E i \in DOMAIN Places :
       /\ n \in Places[i]
       /\ \A j \in DOMAIN Places \ {i} : n \notin Places[j]

(* A packet is never ahead of the clock: when a decoder can have it, its   *)
(* own reference and those of all packets before it are published.         *)
ReferenceFirst ==
  \A n \in Nums(video_pkt_queue \o video_taken \o lpcm \o lpcm_taken) :
    Len(pcr_taken \o pcr) >=
      Cardinality({i \in DOMAIN received :
                     received[i].num <= n /\ PcrGet(received[i]) > 0})

(* What the two threads, the packet queue and the three pipes do together  *)
(* is what the router does: on each line, everything that was received for *)
(* it is taken by the thread behind it, in order and at last.              *)
R == INSTANCE Router WITH
       arrived <- received,
       delivered <- [video |-> video_taken, audio |-> lpcm_taken, reference |-> pcr_taken]

ImplementsRouter == R!Spec
=============================================================================
