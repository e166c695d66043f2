------------------------------ MODULE IlClient ------------------------------
(***************************************************************************)
(* libs/ilclient/ilclient.c: the library through which the program talks   *)
(* to the OpenMAX components.  The firmware reports events on a thread of  *)
(* its own, which calls ilclient_event_handler; the program sends commands *)
(* and waits for the events that answer them.                              *)
(*                                                                         *)
(* Between the two are, for each component, a list of events, a set of     *)
(* flags, and the fields "related" and "error_mask".  The list is only     *)
(* touched under event_sema, and each of those critical sections is one    *)
(* action here; everything else the two threads do interleaves.            *)
(*                                                                         *)
(* The program's thread is a stack machine.  Its stack "todo" holds the    *)
(* steps it has still to take, each a record whose field "do" says which   *)
(* action takes it, and "ret" is what the last call returned.  A function  *)
(* of the library is the sequence of its steps; one that calls others is   *)
(* put together from theirs.                                               *)
(*                                                                         *)
(* A definition whose comment begins with "Slip" is not part of the        *)
(* specification: put in the place of the one it is named after, it is a   *)
(* plausible mistake that breaks the property it names.                    *)
(***************************************************************************)
EXTENDS OmxCore

CONSTANTS
  NumEvents,   \* NUM_EVENTS: event structures of one client
  MaxReports   \* bound: reports of the firmware that answer no command

ASSUME EventsAssumption == NumEvents \in Nat \ {0} /\ MaxReports \in Nat

VARIABLES
  spare,     \* length of each client's event_list
  events,    \* each component's list, newest first
  flags,     \* each component's event flags that are set
  masked,    \* components whose error_mask has ILCLIENT_ERROR_UNPOPULATED
  related,   \* each component's "related", None if NULL
  inList,    \* each component's in_list
  todo,      \* steps the program's thread has still to take
  ret,       \* what the last call returned
  got,       \* "set", the flags the last wait consumed
  failed,    \* why the program aborted, "" while it runs
  late,      \* history: a wait timed out
  reports    \* reports so far

lists   == <<spare, events, flags>>
client  == <<lists, masked, related, inList, reports>>
program == <<todo, ret, got, failed, late>>

None == <<"none", 0>>
Event(e, n1, n2) == [e |-> e, n1 |-> n1, n2 |-> n2]
Complete(cmd, n) == {Event("CmdComplete", cmd, n)}
SettingsChanged(n) == {Event("PortSettingsChanged", "", n)}

(* Errors, and the errors that end a command: their nData2 is 1.           *)
ErrorsWith(n2s) ==
  {Event("Error", n1, n2) : n1 \in {"SameState", "InsufficientResources",
                                    "StreamCorrupt", "PortUnpopulated"}, n2 \in n2s}
AnyError == ErrorsWith({0, 1})
CommandError == ErrorsWith({1})

(* The clients, and the components of one.                                 *)
Clients == {c[2] : c \in Comps}
Owner(c) == c[2]

ClientInit ==
  /\ spare = [k \in Clients |-> 0] /\ events = [c \in Comps |-> <<>>]
  /\ flags = [c \in Comps |-> {}] /\ related = [c \in Comps |-> None]
  /\ masked = {} /\ inList = [c \in Comps |-> <<>>]
  /\ ret = 0 /\ got = {} /\ failed = "" /\ late = FALSE
  /\ reports = 0

-----------------------------------------------------------------------------
(* The list of a component.                                                *)

(* Position of the newest wanted event of c, 0 if there is none.           *)
Find(c, wanted) == SelectInSeq(events[c], LAMBDA x : x \in wanted)

(* Slip, PoolKept: the structure is not given back.                        *)
TakeEvent_Leak(c, i) ==
  /\ events' = [events EXCEPT ![c] = RemoveAt(@, i)]
  /\ UNCHANGED spare

(* An event leaves the list of c and is a spare again.                     *)
TakeEvent(c, i) ==
  /\ events' = [events EXCEPT ![c] = RemoveAt(@, i)]
  /\ spare' = [spare EXCEPT ![Owner(c)] = @ + 1]

(* Only the newest of equal events is kept.                                *)
Unique(s) ==
  LET kept[i \in 0..Len(s)] ==
        IF i = 0 THEN <<>>
        ELSE IF Contains(kept[i - 1], s[i]) THEN kept[i - 1]
        ELSE Append(kept[i - 1], s[i])
  IN  kept[Len(s)]

(* The flag that tells of an event, for the events that reach the program. *)
FlagOf(x) ==
  CASE x.e = "CmdComplete" /\ x.n1 = "StateSet" -> "STATE_CHANGED"
    [] x.e = "CmdComplete" /\ x.n1 = "PortDisable" -> "PORT_DISABLED"
    [] x.e = "CmdComplete" /\ x.n1 = "PortEnable" -> "PORT_ENABLED"
    [] x.e = "PortSettingsChanged" -> "PARAMETER_CHANGED"
    [] x.e = "Error" -> "ERROR"

(* Slip, StartupEnds: a failed command is told to its own component only.  *)
Tell_Own(c, x, ignored) ==
  IF ignored THEN flags ELSE [flags EXCEPT ![c] = @ \cup {FlagOf(x)}]

(* The component's own flag, unless the event is masked; and one that      *)
(* failed a command tells the component that waits for both.               *)
Tell(c, x, ignored) ==
  LET mine == IF ignored THEN flags ELSE [flags EXCEPT ![c] = @ \cup {FlagOf(x)}]
  IN  IF x.e = "Error" /\ x.n2 = 1 /\ related[c] # None
      THEN [mine EXCEPT ![related[c]] = @ \cup {"ERROR"}]
      ELSE mine

(* ilclient_event_handler: throw away what is on the list twice, then add  *)
(* the event and set its flag, unless it is masked.  The handler asserts   *)
(* that there is a spare structure, whether it needs one or not.  The      *)
(* program registers no callback that does anything.                       *)
Handler(c, x) ==
  LET kept   == Unique(events[c])
      freed  == spare[Owner(c)] + Len(events[c]) - Len(kept)
      ignore == x.e = "Error" /\ x.n1 = "PortUnpopulated" /\ c \in masked
  IN  /\ failed' = IF freed = 0 THEN "no spare event" ELSE failed
      /\ IF ignore \/ freed = 0
         THEN /\ events' = [events EXCEPT ![c] = kept]
              /\ spare' = [spare EXCEPT ![Owner(c)] = freed]
         ELSE /\ events' = [events EXCEPT ![c] = <<x>> \o kept]
              /\ spare' = [spare EXCEPT ![Owner(c)] = freed - 1]
      /\ flags' = IF freed = 0 THEN flags ELSE Tell(c, x, ignore)
      /\ UNCHANGED <<masked, related, inList, todo, ret, got, late>>

-----------------------------------------------------------------------------
(* Steps of the program.                                                   *)

Send(c, cmd, n)  == <<[do |-> "send", c |-> c, cmd |-> cmd, n |-> n]>>
RemoveEvent(c, wanted) == <<[do |-> "remove", c |-> c, wanted |-> wanted]>>
Relate(c, to)    == <<[do |-> "relate", c |-> c, to |-> to]>>
Mask(c, on)      == <<[do |-> "mask", c |-> c, on |-> on]>>
Suspend(c, mask, timeout) ==
  <<[do |-> "suspend", c |-> c, mask |-> mask, timeout |-> timeout]>>
Insist           == <<[do |-> "assert"]>>
Return(v)        == <<[do |-> "return", value |-> v]>>
IfReturned(v, yes, no) ==
  <<[do |-> "if returned", value |-> v, yes |-> yes, no |-> no]>>
IfState(c, s, yes, no) ==
  <<[do |-> "if state", c |-> c, s |-> s, yes |-> yes, no |-> no]>>
IfEnabled(c, n, yes, no) ==
  <<[do |-> "if enabled", c |-> c, n |-> n, yes |-> yes, no |-> no]>>
IfGot(flag, yes, no) ==
  <<[do |-> "if got", flag |-> flag, yes |-> yes, no |-> no]>>

(* Slip, NoLostWakeup: the other is not asked to tell of its failure.      *)
WaitDual_Apart(c, cmd, n, other) ==
  <<[do |-> "check", c |-> c, cmd |-> cmd, n |-> n, other |-> other]>>

(* ilclient_wait_for_command_complete_dual and its short form.             *)
WaitDual(c, cmd, n, other) ==
  Relate(other, c)
  \o <<[do |-> "check", c |-> c, cmd |-> cmd, n |-> n, other |-> other]>>
  \o Relate(other, None)
Wait(c, cmd, n) ==
  <<[do |-> "check", c |-> c, cmd |-> cmd, n |-> n, other |-> None]>>

(* ilclient_wait_for_event for an event or an error; timeout is FALSE for  *)
(* VCOS_EVENT_FLAGS_SUSPEND.                                               *)
WaitForEvent(c, wanted, flag, timeout) ==
  <<[do |-> "look", c |-> c, wanted |-> wanted, flag |-> flag, timeout |-> timeout]>>

ilclient_create_component(c) == <<[do |-> "create", c |-> c]>>

(* OMX_SetParameter or OMX_SetConfig; what is set is left out.             *)
Configure(c) == <<[do |-> "configure", c |-> c]>>

ilclient_change_component_state(c, s) ==
  Send(c, "StateSet", s) \o Wait(c, "StateSet", s)
  \o IfReturned(0, <<>>, RemoveEvent(c, AnyError) \o Return(-1))

ilclient_disable_port(c, n) ==
  Send(c, "PortDisable", n) \o Wait(c, "PortDisable", n) \o Insist

(* Slip, NothingLeftOver: the sink is not waited for.                      *)
ilclient_disable_tunnel_Source(t) ==
  LET a == t[1]  b == t[2]
  IN  Mask(a[1], TRUE) \o Mask(b[1], TRUE)
      \o Send(a[1], "PortDisable", a[2]) \o Send(b[1], "PortDisable", b[2])
      \o Wait(a[1], "PortDisable", a[2]) \o Insist
      \o Mask(a[1], FALSE) \o Mask(b[1], FALSE)

(* A tunnel is <<source end, sink end>>, an end <<component, port>>.       *)
ilclient_disable_tunnel(t) ==
  LET a == t[1]  b == t[2]
  IN  Mask(a[1], TRUE) \o Mask(b[1], TRUE)
      \o Send(a[1], "PortDisable", a[2]) \o Send(b[1], "PortDisable", b[2])
      \o Wait(a[1], "PortDisable", a[2]) \o Insist
      \o Wait(b[1], "PortDisable", b[2]) \o Insist
      \o Mask(a[1], FALSE) \o Mask(b[1], FALSE)

(* A sink that is Loaded enables its port at once and completes its change *)
(* to Idle with the source's port; else both ports complete together.      *)
ilclient_enable_tunnel(t) ==
  LET a == t[1]  b == t[2]
      On(e)   == Wait(e[1], "PortEnable", e[2])
      giveUp  == ilclient_disable_port(a[1], a[2])
      source  == On(a) \o IfReturned(0, <<>>,
                   ilclient_disable_port(b[1], b[2]) \o Return(-1))
      ofOther == On(a) \o ilclient_disable_port(b[1], b[2])
      toIdle  == Send(b[1], "StateSet", Idle) \o WaitDual(b[1], "StateSet", Idle, a[1])
                 \o IfReturned(0, source,
                      IfReturned(-2, ofOther, <<>>) \o giveUp \o Return(-1))
  IN  Send(a[1], "PortEnable", a[2]) \o Send(b[1], "PortEnable", b[2])
      \o IfState(b[1], {Loaded},
           On(b) \o IfReturned(0, toIdle, giveUp \o Return(-1)),
           On(b) \o IfReturned(0, source,
             giveUp
             \o WaitForEvent(a[1], Complete("PortEnable", a[2]), "PORT_ENABLED", FALSE)
             \o Return(-1)))

(* No component of the program has port streams to choose from.            *)
ilclient_setup_tunnel(t, timeout) ==
  LET a == t[1]  b == t[2]
      undo == <<[do |-> "unjoin", end |-> a], [do |-> "unjoin", end |-> b]>>
      join == <<[do |-> "join", a |-> a, b |-> b]>>
              \o IfReturned(0,
                   ilclient_enable_tunnel(t)
                   \o IfReturned(0, <<>>,
                        undo \o RemoveEvent(b[1], AnyError)
                        \o RemoveEvent(a[1], AnyError) \o Return(-5)),
                   undo \o Return(-5))
      reconnect == ilclient_disable_tunnel(t) \o join
      settings == IF timeout
                  THEN WaitForEvent(a[1], SettingsChanged(a[2]),
                                    "PARAMETER_CHANGED", TRUE)
                       \o IfReturned(0, reconnect, <<>>)
                  ELSE reconnect
  IN  IfState(a[1], {Loaded},
        ilclient_change_component_state(a[1], Idle)
        \o IfReturned(0, settings, Return(-2)),
        settings)

(* The buffers of c are at its one port that takes buffers.                *)
ilclient_disable_port_buffers(c, n) ==
  IfEnabled(c, n,
    Send(c, "PortDisable", n)
    \o <<[do |-> "drain", c |-> c, n |-> n, num |-> NumBuffers]>>, <<>>)

(* Slip, SetUpIsWhole: what OMX_UseBuffer refused is not noticed.          *)
ilclient_enable_port_buffers_Unchecked(c, n) ==
  Send(c, "PortEnable", n)
  \o <<[do |-> "supply", c |-> c, n |-> n, list |-> <<>>]>> \o Return(0)

ilclient_enable_port_buffers(c, n) ==
  LET supply  == Send(c, "PortEnable", n)
                 \o <<[do |-> "supply", c |-> c, n |-> n, list |-> <<>>]>>
      cleanup == ilclient_disable_port_buffers(c, n)
                 \o RemoveEvent(c, CommandError) \o Return(-1)
  IN  IfEnabled(c, n, Return(-1),
        IfState(c, {Idle, Executing},
          supply \o IfReturned(0, <<>>, cleanup), Return(-1)))

(* The oldest buffer that is back.                                         *)
ilclient_get_input_buffer(c) ==
  inList[c] # <<>> /\ inList' = [inList EXCEPT ![c] = Tail(@)]

(* Events back to the spares and handles back to the core, one component   *)
(* after the other.                                                        *)
ilclient_cleanup_components(c) ==
  <<[do |-> "return events", c |-> c], [do |-> "free handle", c |-> c]>>

-----------------------------------------------------------------------------
(* The actions of the program's thread, one for each kind of step.         *)

Top  == Head(todo)
Rest == Tail(todo)
At(what) == failed = "" /\ todo # <<>> /\ Top.do = what
Lower(c, flag) == [flags EXCEPT ![c] = @ \ {flag}]

SendCommand ==
  /\ At("send")
  /\ OMX_SendCommand(Top.c, Top.cmd, Top.n)
  /\ todo' = Rest
  /\ UNCHANGED <<client, ret, got, failed, late>>

(* Control that touches nothing but the stack: conditions on a result, on  *)
(* OMX_GetState, on bEnabled and on "set", returns and assertions.         *)
Decide(yes) == todo' = (IF yes THEN Top.yes ELSE Top.no) \o Rest
Branch ==
  /\ \/ At("if returned") /\ Decide(ret = Top.value) /\ UNCHANGED <<ret, failed>>
     \/ At("if state") /\ Decide(state[Top.c] \in Top.s) /\ UNCHANGED <<ret, failed>>
     \/ At("if enabled") /\ Decide(Enabling(Top.c, Top.n)) /\ UNCHANGED <<ret, failed>>
     \/ At("if got") /\ Decide(Top.flag \in got) /\ UNCHANGED <<ret, failed>>
     \/ At("return") /\ ret' = Top.value /\ todo' = Rest /\ UNCHANGED failed
     \/ /\ At("assert") /\ todo' = Rest /\ UNCHANGED ret
        /\ failed' = IF ret < 0 THEN "assertion" ELSE ""
  /\ UNCHANGED <<core, client, got, late>>

(* Taking an error off the list lowers the error flag; on the others, see  *)
(* Startled.                                                               *)
ilclient_remove_event ==
  /\ At("remove")
  /\ LET i == Find(Top.c, Top.wanted)
     IN  IF i = 0
         THEN ret' = -1 /\ UNCHANGED lists
         ELSE /\ ret' = 0 /\ TakeEvent(Top.c, i)
              /\ flags' = IF events[Top.c][i].e = "PortSettingsChanged"
                          THEN flags ELSE Lower(Top.c, FlagOf(events[Top.c][i]))
  /\ todo' = Rest
  /\ UNCHANGED <<core, masked, related, inList, got, failed, late, reports>>

SetRelated ==
  /\ At("relate")
  /\ related' = [related EXCEPT ![Top.c] = Top.to]
  /\ todo' = Rest
  /\ UNCHANGED <<core, lists, masked, inList, ret, got, failed, late, reports>>

SetErrorMask ==
  /\ At("mask")
  /\ masked' = IF Top.on THEN masked \cup {Top.c} ELSE masked \ {Top.c}
  /\ todo' = Rest
  /\ UNCHANGED <<core, lists, related, inList, ret, got, failed, late, reports>>

(* Slip, AnsweredTruly: every answer is a success.                         *)
Outcome_Success(x) == 0

(* The result of the event that ended a command.                           *)
Outcome(x) == IF x.e = "CmdComplete" \/ x.n1 = "SameState" THEN 0 ELSE -1

(* Slip, AbortsForAReason: an error that ends no command counts as well.   *)
Ends_AnyError(f) == Complete(f.cmd, f.n) \cup AnyError

(* Events that end the command of a "check": its answer or an error.       *)
Ends(f) == Complete(f.cmd, f.n) \cup CommandError

(* One turn of the loop: the answer, else an error of the other component, *)
(* which is left on its list, else sleep until a flag is set.              *)
ilclient_wait_for_command_complete_dual ==
  /\ At("check") /\ got' = {}
  /\ LET c == Top.c
         i == Find(c, Ends(Top))
         otherFailed == Top.other # None /\ Find(Top.other, CommandError) # 0
         answer == Event("CmdComplete", Top.cmd, Top.n)
     IN \/ /\ i # 0 /\ TakeEvent(c, i) /\ ret' = Outcome(events[c][i])
           /\ flags' = Lower(c, FlagOf(events[c][i]))
           /\ todo' = Rest
        \/ /\ i = 0 /\ otherFailed
           /\ ret' = -2 /\ todo' = Rest /\ UNCHANGED lists
        \/ /\ i = 0 /\ ~otherFailed
           /\ todo' = Suspend(c, {FlagOf(answer), "ERROR"}, FALSE) \o todo
           /\ UNCHANGED <<lists, ret>>
  /\ UNCHANGED <<core, masked, related, inList, failed, late, reports>>

(* vcos_event_flags_get with VCOS_OR_CONSUME.                              *)
Awake ==
  /\ At("suspend") /\ flags[Top.c] \cap Top.mask # {}
  /\ got' = flags[Top.c] \cap Top.mask
  /\ flags' = [flags EXCEPT ![Top.c] = @ \ Top.mask]
  /\ todo' = Rest
  /\ UNCHANGED <<core, spare, events, masked, related, inList, ret, failed, late,
                 reports>>

(* The flag of an answer that was found without sleeping stays set in the  *)
(* program, and some later sleep on it ends for nothing.  Here it is       *)
(* lowered when the answer is taken, and a sleep on a command's flag may   *)
(* end at any time, with that flag and whatever else is set.               *)
Startled ==
  /\ At("suspend")
  /\ LET stale == Top.mask \cap {"STATE_CHANGED", "PORT_ENABLED", "PORT_DISABLED"}
     IN  /\ stale \ flags[Top.c] # {}
         /\ got' = stale \cup (flags[Top.c] \cap Top.mask)
  /\ flags' = [flags EXCEPT ![Top.c] = @ \ Top.mask]
  /\ todo' = Rest
  /\ UNCHANGED <<core, spare, events, masked, related, inList, ret, failed, late,
                 reports>>

TimesOut ==
  /\ At("suspend") /\ Top.timeout /\ flags[Top.c] \cap Top.mask = {}
  /\ got' = {} /\ late' = TRUE /\ todo' = Rest
  /\ UNCHANGED <<core, client, ret, failed>>

(* ilclient_wait_for_event: remove_event, and when there is none, look for *)
(* an error before sleeping, since its flag may have been consumed.        *)
WaitLooks ==
  /\ At("look")
  /\ LET i == Find(Top.c, Top.wanted)
     IN  IF i # 0
         THEN TakeEvent(Top.c, i) /\ ret' = 0 /\ todo' = Rest
         ELSE /\ todo' = <<[do |-> "look for error", c |-> Top.c]>> \o todo
              /\ UNCHANGED <<spare, events, ret>>
  /\ UNCHANGED <<core, flags, masked, related, inList, got, failed, late, reports>>

WaitLooksForError ==
  /\ At("look for error")
  /\ LET w == Head(Rest)
     IN  IF Find(w.c, AnyError) # 0
         THEN flags' = Lower(w.c, "ERROR") /\ ret' = -2 /\ todo' = Tail(Rest)
         ELSE /\ todo' = Suspend(w.c, {w.flag, "ERROR"}, w.timeout)
                         \o <<[do |-> "woken", c |-> w.c]>> \o Rest
              /\ UNCHANGED <<flags, ret>>
  /\ UNCHANGED <<core, spare, events, masked, related, inList, got, failed, late,
                 reports>>

WaitWoken ==
  /\ At("woken") /\ got' = {}
  /\ ret' = CASE got = {} -> -1 [] "ERROR" \in got -> -2 [] OTHER -> ret
  /\ todo' = IF got = {} \/ "ERROR" \in got THEN Tail(Rest) ELSE Rest
  /\ UNCHANGED <<core, client, failed, late>>

(* ilclient_init and ilclient_destroy.                                     *)
InitClient ==
  /\ At("init client")
  /\ spare' = [spare EXCEPT ![Top.k] = NumEvents] /\ todo' = Rest
  /\ UNCHANGED <<core, events, flags, masked, related, inList, ret, got, failed, late,
                 reports>>

DestroyClient ==
  /\ At("destroy client")
  /\ spare' = [spare EXCEPT ![Top.k] = 0] /\ todo' = Rest
  /\ UNCHANGED <<core, events, flags, masked, related, inList, ret, got, failed, late,
                 reports>>

(* All ports of the new component are disabled, one after the other.       *)
CreateComponent ==
  /\ At("create")
  /\ LET ports == PortsOf(Top.c)
     IN \/ /\ OMX_GetHandle(Top.c)
           /\ todo' = FlattenSeq([i \in DOMAIN ports |->
                         ilclient_disable_port(Top.c, ports[i])]) \o Return(0) \o Rest
           /\ UNCHANGED ret
        \/ OMX_Refused /\ ret' = -1 /\ todo' = Rest
  /\ UNCHANGED <<client, got, failed, late>>

(* Calls of the core; those that can be refused return it.                 *)
CallCore ==
  /\ \/ At("OMX_Init") /\ OMX_Init /\ ret' = 0
     \/ At("join") /\ OMX_SetupTunnel(Top.a, Top.b) /\ ret' = 0
     \/ At("configure") /\ ret' = 0 /\ UNCHANGED core
     \/ At("OMX_Init") /\ coreInit = 0 /\ OMX_Refused /\ ret' = -1
     \/ (At("join") \/ At("configure")) /\ OMX_Refused /\ ret' = -1
     \/ At("OMX_Deinit") /\ OMX_Deinit /\ UNCHANGED ret
     \/ At("unjoin") /\ OMX_SetupNoTunnel(Top.end) /\ UNCHANGED ret
     \/ At("free handle") /\ OMX_FreeHandle(Top.c) /\ UNCHANGED ret
  /\ todo' = Rest
  /\ UNCHANGED <<client, got, failed, late>>

ilclient_return_events ==
  /\ At("return events")
  /\ spare' = [spare EXCEPT ![Owner(Top.c)] = @ + Len(events[Top.c])]
  /\ events' = [events EXCEPT ![Top.c] = <<>>]
  /\ todo' = Rest
  /\ UNCHANGED <<core, flags, masked, related, inList, ret, got, failed, late, reports>>

(* One more buffer for the port; OMX_UseBuffer fails when the port is no   *)
(* longer being enabled, and then the buffers so far must do.              *)
SupplyBuffer ==
  /\ At("supply")
  /\ LET queue == [Top EXCEPT !.do = "queue"]
         more  == Append(Top.list, Len(Top.list) + 1)
     IN \/ /\ Enabling(Top.c, Top.n) /\ OMX_UseBuffer(Top.c)
           /\ todo' = <<IF Len(more) = NumBuffers
                         THEN [queue EXCEPT !.list = more]
                         ELSE [Top EXCEPT !.list = more]>> \o Rest
        \/ /\ Enabling(Top.c, Top.n) => OMX_Refused
           /\ ~Enabling(Top.c, Top.n) => UNCHANGED core
           /\ todo' = <<queue>> \o Rest
  /\ UNCHANGED <<client, ret, got, failed, late>>

(* The buffers go to the front of in_list; then wait for the port.         *)
QueueBuffers ==
  /\ At("queue")
  /\ inList' = [inList EXCEPT ![Top.c] = Top.list \o @]
  /\ IF Len(Top.list) = NumBuffers
     THEN todo' = Wait(Top.c, "PortEnable", Top.n) \o Rest /\ UNCHANGED ret
     ELSE todo' = Rest /\ ret' = -1
  /\ UNCHANGED <<core, lists, masked, related, got, failed, late, reports>>

(* Free every buffer that is back.  While some are missing, sleep, then    *)
(* look whether the command was answered without them.                     *)
DrainBuffers ==
  /\ At("drain")
  /\ LET c == Top.c  n == Top.n
         num      == Top.num - Len(inList[c])
         again    == <<[Top EXCEPT !.num = num]>>
         answered == IfGot("PORT_DISABLED",
                       RemoveEvent(c, Complete("PortDisable", n))
                       \o IfReturned(0, <<>>, again),
                       again)
         woken    == IfGot("ERROR",
                       RemoveEvent(c, CommandError) \o IfReturned(0, <<>>, answered),
                       answered)
         mask     == {"PORT_DISABLED", "ERROR", "EMPTY_BUFFER_DONE"}
     IN  /\ OMX_FreeBuffer(c, Len(inList[c]))
         /\ inList' = [inList EXCEPT ![c] = <<>>]
         /\ todo' = (IF num > 0
                     THEN Suspend(c, mask, FALSE) \o woken
                     ELSE Wait(c, "PortDisable", n) \o Insist) \o Rest
  /\ UNCHANGED <<lists, masked, related, ret, got, failed, late, reports>>

ProgramStep ==
  \/ SendCommand \/ Branch \/ ilclient_remove_event \/ SetRelated \/ SetErrorMask
  \/ ilclient_wait_for_command_complete_dual \/ Awake \/ WaitLooks
  \/ WaitLooksForError \/ WaitWoken \/ InitClient \/ DestroyClient
  \/ CreateComponent \/ CallCore \/ ilclient_return_events \/ SupplyBuffer
  \/ QueueBuffers \/ DrainBuffers

-----------------------------------------------------------------------------
(* The firmware's thread.                                                  *)

Answer(x) ==
  /\ failed = "" /\ x \in pending
  /\ \/ Ready(x) /\ Perform(x) /\ Handler(x.c, Event("CmdComplete", x.cmd, x.n))
     \/ SameState(x) /\ Perform(x) /\ Handler(x.c, Event("Error", "SameState", 1))
     \/ /\ ~Cancelled(x) /\ Reject(x)
        /\ Handler(x.c, Event("Error", "InsufficientResources", 1))
  /\ UNCHANGED reports

(* The firmware reports something that answers no command.                 *)
Report(c, x) ==
  /\ failed = "" /\ reports < MaxReports /\ reports' = reports + 1
  /\ Handler(c, x)
  /\ UNCHANGED core

(* The decoder, once it has data, tells the size of the picture; so does   *)
(* the scheduler when the decoder feeds it.  It may do so again.           *)
ReportSettings(c, n) ==
  /\ state[c] = Executing
  /\ \/ c[1] = "video_decode" /\ n = 131 /\ held[c] # <<>>
     \/ c[1] = "video_scheduler" /\ n = 11 /\ 10 \in enabled[c]
  /\ Report(c, Event("PortSettingsChanged", "", n))

(* The data is damaged; no command ends.                                   *)
ReportCorrupt(c) ==
  /\ state[c] = Executing /\ held[c] # <<>>
  /\ Report(c, Event("Error", "StreamCorrupt", 0))

(* While a port of a tunnel is being disabled it may be found unpopulated. *)
ReportUnpopulated(x) ==
  /\ failed = "" /\ x \in pending
  /\ x.cmd = "PortDisable" /\ ~Enabling(x.c, x.n)
  /\ Handler(x.c, Event("Error", "PortUnpopulated", 0))
  /\ UNCHANGED <<core, reports>>

(* ilclient_empty_buffer_done, the callback that returns a buffer.         *)
EmptyBufferDone(c) ==
  /\ failed = "" /\ held[c] # <<>>
  /\ inList' = [inList EXCEPT ![c] = Append(@, Head(held[c]))]
  /\ flags' = [flags EXCEPT ![c] = @ \cup {"EMPTY_BUFFER_DONE"}]
  /\ held' = [held EXCEPT ![c] = Tail(@)]
  /\ UNCHANGED <<coreInit, nActiveHandles, state, enabled, pending, tunnels, supplied,
                 orphans, failures, spare, events, masked, related, program, reports>>
=============================================================================
