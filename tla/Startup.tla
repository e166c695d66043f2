------------------------------- MODULE Startup -------------------------------
(***************************************************************************)
(* mgmt_sys/src/sx_mgmt_sys.c: the order in which the parts that use the   *)
(* hardware are started, and the program and the firmware together, from   *)
(* the first call to the picture on the screen.                            *)
(*                                                                         *)
(* mgmt_sys_init calls the initialisers one after the other on the main    *)
(* thread; afterwards only the video scheduler's presenter controls        *)
(* components, so that one stack is enough for both.                       *)
(***************************************************************************)
EXTENDS VideoSink, AudioSink

vars == <<core, client, program, sink>>

(* The components that the program creates.                                *)
Components ==
  {video_decode, video_scheduler, video_render, video_clock}
  \cup {audio_render(i) : i \in 1..2} \cup {clock(i) : i \in 1..2}

ASSUME ComponentsAssumption == Comps = Components

(* A list that the handler has cleaned has at most sixteen events, and a   *)
(* client at most four components; ilclient.c has 100 structures for each. *)
ASSUME EnoughEvents == NumEvents >= 64

(* The managers' initialisers that reach the hardware.                     *)
sx_mgmt_video_scheduler_init == sx_video_sink_init
sx_mgmt_audio_decoder_init   == sx_audio_sink_init(1)
sx_mgmt_audio_scheduler_init == sx_audio_sink_init(2)

Body(f) ==
  CASE f = "sx_mgmt_video_scheduler_init" -> sx_mgmt_video_scheduler_init
    [] f = "sx_mgmt_audio_decoder_init" -> sx_mgmt_audio_decoder_init
    [] f = "sx_mgmt_audio_scheduler_init" -> sx_mgmt_audio_scheduler_init

(* The calls of them, and the presenter among the threads that             *)
(* mgmt_sys_open starts.                                                   *)
mgmt_sys_init ==
  <<[do |-> "call", f |-> "sx_mgmt_video_scheduler_init"],
    [do |-> "call", f |-> "sx_mgmt_audio_decoder_init"],
    [do |-> "call", f |-> "sx_mgmt_audio_scheduler_init"]>>
mgmt_sys_open == <<[do |-> "present"]>>
main == mgmt_sys_init \o mgmt_sys_open

(* What is there after n calls, and after the picture's size was seen.     *)
Created(n) ==
  {c \in Comps : IF c[2] = 0 THEN n > 0 ELSE n > c[2]}
Joined(n, seen) ==
  {t \in {ClockTunnel} : n > 0} \cup {AudioTunnel(i) : i \in 1..(n - 1)}
  \cup {t \in {DecodeTunnel, RenderTunnel} : seen}
Serving(c) == c[1] \in {"video_decode", "audio_render"}
Whole(c, n, seen) ==
  LET ends == UNION {{t[1], t[2]} : t \in Joined(n, seen)}
  IN  {p \in ToSet(PortsOf(c)) : p \in Fed \/ <<c, p>> \in ends}
Wanted(c, n, seen) ==
  IF c \notin Created(n) THEN Absent
  ELSE IF c = video_render /\ ~seen THEN Loaded
  ELSE IF c = video_scheduler /\ ~seen THEN Idle
  ELSE Executing

Init == CoreInit /\ ClientInit /\ SinkInit /\ todo = main

Call ==
  /\ At("call")
  /\ todo' = Body(Top.f) \o Rest
  /\ UNCHANGED <<core, client, ret, got, failed, late, sink>>

Program ==
  \/ Call \/ Settings \/ Submit
  \/ ProgramStep /\ UNCHANGED sink
Timer == TimesOut /\ UNCHANGED sink
Stale == Startled /\ UNCHANGED sink
Firmware ==
  /\ \/ \E x \in pending : Answer(x) \/ ReportUnpopulated(x)
     \/ ReportSettings(video_decode, 131) \/ ReportSettings(video_scheduler, 11)
     \/ ReportCorrupt(video_decode)
     \/ EmptyBufferDone(video_decode)
  /\ UNCHANGED sink

Next == Program \/ Timer \/ Stale \/ Firmware \/ BufGet

(* The threads run, every command is answered, a wait with a limit ends    *)
(* and buffers come back.  The source may stop sending pictures.           *)
Spec ==
  /\ Init /\ [][Next]_vars
  /\ WF_vars(Program \/ Timer)
  /\ WF_vars((\E x \in pending : Answer(x)) /\ UNCHANGED sink)
  /\ WF_vars(EmptyBufferDone(video_decode) /\ UNCHANGED sink)

-----------------------------------------------------------------------------
TypeOK ==
  /\ coreInit \in 0..3 /\ nActiveHandles \in 0..Cardinality(Comps)
  /\ \A c \in Comps :
       /\ state[c] \in {Absent, Loaded, Idle, Executing}
       /\ enabled[c] \subseteq ToSet(PortsOf(c)) /\ supplied[c] \in 0..NumBuffers
       /\ Len(held[c]) + Len(inList[c]) <= NumBuffers
       /\ related[c] \in Comps \cup {None}
  /\ failures \in 0..MaxFailures /\ masked \subseteq Comps
  /\ ret \in -5..0 /\ late \in BOOLEAN

Did(f) ==
  CASE f.cmd = "StateSet" -> state[f.c] = f.n
    [] f.cmd = "PortEnable" -> f.n \in enabled[f.c]
    [] f.cmd = "PortDisable" -> f.n \notin enabled[f.c]

(* ilclient.h:878, "0 indicates success, either the command successfully   *)
(* completed or the OMX_ErrorSameState was returned": when waiting for a   *)
(* command returns success, the component has done what the command says.  *)
(* It has not when the answer of an earlier command was taken for this     *)
(* one's, which takes two refusals.                                        *)
AnsweredAlways ==
  [][At("check") /\ todo' = Rest /\ ret' = 0 => Did(Top)]_vars

(* The same as long as the firmware has refused no more than once: what a  *)
(* failed call leaves on a list is then never taken for another's answer.  *)
AnsweredTruly ==
  [][At("check") /\ todo' = Rest /\ ret' = 0 /\ failures <= 1 => Did(Top)]_vars

(* What the sleeping thread will look for when it wakes.                   *)
Awaited(c) ==
  LET f == todo[2]
  IN  CASE f.do = "check" ->
             \/ Find(c, Ends(f)) # 0
             \/ f.other # None /\ Find(f.other, CommandError) # 0
        [] f.do = "woken" -> Find(c, todo[3].wanted \cup AnyError) # 0
        [] OTHER -> inList[c] # <<>> \/ Find(c, CommandError) # 0

(* ilclient.c:1247: nobody sleeps on flags while the event it waits for is *)
(* on a list already, and a sleeper with a partner hears of its failure.   *)
NoLostWakeup ==
  At("suspend") /\ flags[Top.c] \cap Top.mask = {} => ~Awaited(Top.c)

(* ilclient.c:1454: the handler always finds a spare structure, however    *)
(* often the firmware repeats itself, because none is ever lost; and every *)
(* other part of the state has its type.                                   *)
PoolKept ==
  LET Listed(k) == UNION {{c} \X DOMAIN events[c] : c \in {d \in Comps : Owner(d) = k}}
  IN  /\ failed # "no spare event"
      /\ \A k \in Clients : spare[k] # 0 => spare[k] + Cardinality(Listed(k)) = NumEvents
      /\ TypeOK

(* sx_video_sink.c:114 and on: the program aborts only if the firmware     *)
(* refused something or let a wait time out; damaged data does not do it.  *)
AbortsForAReason == failed # "" => failures > 0 \/ late

(* Between two calls, or the presenter between two buffers.                *)
Resting == At("call") \/ At("present")

(* sx_mgmt_sys.c:64: a call that ends has set up all it was to set up; the *)
(* one thing a refusal can spoil unnoticed is one component's start.       *)
SetUpIsWhole ==
  Resting =>
    LET seen == port_setting_changed
        n    == coreInit
    IN  /\ tunnels = Joined(n, seen)
        /\ \A c \in Created(n) :
             /\ enabled[c] = Whole(c, n, seen)
             /\ Serving(c) => supplied[c] = NumBuffers
        /\ Cardinality({c \in Comps : state[c] # Wanted(c, n, seen)}) <= failures

(* ilclient.c:664: no answer of a call that ended well stays behind to be  *)
(* taken for the answer of a later command.                                *)
NothingLeftOver ==
  Resting =>
    /\ pending = {}
    /\ \A c \in Comps : \A i \in DOMAIN events[c] :
         events[c][i].e # "CmdComplete" /\ events[c][i].n2 # 1

(* ilclient.c:1240: every call ends, or aborts, even when the firmware     *)
(* refuses a command on which another one waits.                           *)
StartupEnds == []<>(failed # "" \/ Resting)

(* sx_video_sink.c:250: once the decoder has reported the picture's size,  *)
(* the picture gets to the screen, unless something was refused or a wait  *)
(* timed out, or the report is never looked for, because no further slice  *)
(* comes and the presenter stays where it is.                              *)
PictureComes ==
  Find(video_decode, SettingsChanged(131)) # 0
    ~> \/ failures > 0 \/ late \/ state[video_render] = Executing
       \/ [](At("present") /\ ~port_setting_changed)
=============================================================================
