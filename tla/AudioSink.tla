------------------------------ MODULE AudioSink ------------------------------
(***************************************************************************)
(* audio_sink/src/sx_audio_sink.c: creating the renderer of the sound and  *)
(* its clock.  What the audio scheduler does with them is in               *)
(* AudioScheduler.  sx_audio_sink_init is called twice, by the audio       *)
(* decoder and by the audio scheduler: i tells the calls apart.            *)
(***************************************************************************)
EXTENDS IlClient

audio_render(i) == <<"audio_render", i>>
clock(i)        == <<"clock", i>>
AudioTunnel(i)  == <<<<clock(i), 80>>, <<audio_render(i), 101>>>>

(* The client, the core and the components.                                *)
CreateAudio(i) ==
  <<[do |-> "init client", k |-> i], [do |-> "OMX_Init"]>> \o Insist
  \o ilclient_create_component(audio_render(i)) \o Insist
  \o ilclient_create_component(clock(i)) \o Insist
  \o Configure(clock(i)) \o Insist

ConnectClock(i) ==
  ilclient_setup_tunnel(AudioTunnel(i), FALSE) \o Insist
  \o ilclient_change_component_state(clock(i), Executing)

(* The buffers of the port, the form of the samples, the reference clock.  *)
ConfigureRender(i) ==
  Configure(audio_render(i)) \o Insist
  \o Configure(audio_render(i)) \o Insist
  \o Configure(audio_render(i)) \o Insist

(* What is undone when the buffers cannot be had; the caller asserts that  *)
(* this has not happened.  The components end in the order of st->list.    *)
GiveUp(i) ==
  ilclient_change_component_state(audio_render(i), Loaded)
  \o ilclient_cleanup_components(audio_render(i))
  \o ilclient_cleanup_components(clock(i))
  \o <<[do |-> "OMX_Deinit"], [do |-> "destroy client", k |-> i]>>
  \o Return(-1)

(* The renderer is Idle since the tunnel was set up; asking again is       *)
(* answered with an error that counts as success.                          *)
EnableAudio(i) ==
  ilclient_change_component_state(audio_render(i), Idle)
  \o ilclient_enable_port_buffers(audio_render(i), 100)
  \o IfReturned(0,
       ilclient_change_component_state(audio_render(i), Executing) \o Return(0),
       GiveUp(i))

audioplay_create(i) ==
  CreateAudio(i) \o ConnectClock(i) \o ConfigureRender(i) \o EnableAudio(i)

(* The name of the destination is a constant that fits.                    *)
audioplay_set_dest(i) == Configure(audio_render(i)) \o Insist \o Return(0)

sx_audio_sink_init(i) ==
  audioplay_create(i) \o Insist \o audioplay_set_dest(i) \o Insist
=============================================================================
