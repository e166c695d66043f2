------------------------------ MODULE VideoSink ------------------------------
(***************************************************************************)
(* video_sink/src/sx_video_sink.c: the chain decoder, scheduler, renderer  *)
(* and clock of the pictures.  The clock is connected at start-up, the     *)
(* decoder to the scheduler and the scheduler to the renderer only when    *)
(* the decoder has reported the size of the picture, and that is looked    *)
(* for whenever a buffer is given to the decoder.                          *)
(*                                                                         *)
(* "Slip" marks a plausible mistake, as in IlClient.                       *)
(***************************************************************************)
EXTENDS IlClient

VARIABLES
  port_setting_changed,   \* the static of that name
  first_packet            \* the static of that name

sink == <<port_setting_changed, first_packet>>

video_decode    == <<"video_decode", 0>>
video_scheduler == <<"video_scheduler", 0>>
video_render    == <<"video_render", 0>>
video_clock     == <<"clock", 0>>

(* The array "tunnel".                                                     *)
DecodeTunnel == <<<<video_decode, 131>>, <<video_scheduler, 10>>>>
RenderTunnel == <<<<video_scheduler, 11>>, <<video_render, 90>>>>
ClockTunnel  == <<<<video_clock, 80>>, <<video_scheduler, 12>>>>

SinkInit == port_setting_changed = FALSE /\ first_packet = TRUE

(* The client, the core and the components; the clock is told to wait for  *)
(* the start time.                                                         *)
CreateVideo ==
  <<[do |-> "init client", k |-> 0], [do |-> "OMX_Init"]>> \o Insist
  \o ilclient_create_component(video_decode) \o Insist
  \o ilclient_create_component(video_render) \o Insist
  \o ilclient_create_component(video_clock) \o Insist
  \o Configure(video_clock) \o Insist
  \o ilclient_create_component(video_scheduler) \o Insist

(* The clock, the region of the display, the decoder and its format.       *)
StartVideo ==
  ilclient_setup_tunnel(ClockTunnel, FALSE) \o Insist
  \o ilclient_change_component_state(video_clock, Executing)
  \o Configure(video_render) \o Insist
  \o ilclient_change_component_state(video_decode, Idle)
  \o Configure(video_decode) \o Insist
  \o ilclient_enable_port_buffers(video_decode, 130) \o Insist
  \o ilclient_change_component_state(video_decode, Executing)

(* What ilclient_change_component_state returns is not looked at, here and *)
(* below; every other result is asserted.                                  *)
sx_video_sink_init == CreateVideo \o StartVideo

(* Slip, PictureComes: the renderer is never started.                      *)
Connect_NoRender ==
  ilclient_setup_tunnel(DecodeTunnel, FALSE) \o Insist
  \o ilclient_change_component_state(video_scheduler, Executing)
  \o ilclient_setup_tunnel(RenderTunnel, TRUE) \o Insist

(* Connect the picture's way; the second tunnel waits for the scheduler to *)
(* report in its turn.                                                     *)
Connect ==
  ilclient_setup_tunnel(DecodeTunnel, FALSE) \o Insist
  \o ilclient_change_component_state(video_scheduler, Executing)
  \o ilclient_setup_tunnel(RenderTunnel, TRUE) \o Insist
  \o ilclient_change_component_state(video_render, Executing)

(* sx_video_sink_buf_get, and the presenter's call of buf_set with the     *)
(* buffer.  Without a buffer the caller comes again.  In the program the   *)
(* packing thread gets the buffer and the presenter hands it over; the two *)
(* calls have only in_list in common.                                      *)
BufGet ==
  /\ At("present") /\ ilclient_get_input_buffer(video_decode)
  /\ todo' = <<[do |-> "settings"],
               [do |-> "submit", buf |-> Head(inList[video_decode])]>> \o todo
  /\ UNCHANGED <<core, lists, masked, related, ret, got, failed, late, sink, reports>>

(* The first half of sx_video_sink_buf_set.                                *)
Settings ==
  /\ At("settings")
  /\ LET i == Find(video_decode, SettingsChanged(131))
     IN  IF ~port_setting_changed /\ i # 0
         THEN /\ TakeEvent(video_decode, i)
              /\ port_setting_changed' = TRUE
              /\ todo' = Connect \o Rest
         ELSE todo' = Rest /\ UNCHANGED <<spare, events, port_setting_changed>>
  /\ UNCHANGED <<core, flags, masked, related, inList, ret, got, failed, late,
                 first_packet, reports>>

(* The second half.                                                        *)
Submit ==
  /\ At("submit")
  /\ first_packet' = FALSE
  /\ \/ OMX_EmptyThisBuffer(video_decode, Top.buf) /\ UNCHANGED failed
     \/ OMX_Refused /\ failed' = "assertion"
  /\ todo' = Rest
  /\ UNCHANGED <<client, ret, got, late, port_setting_changed>>
=============================================================================
