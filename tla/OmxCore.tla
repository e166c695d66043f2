------------------------------- MODULE OmxCore -------------------------------
(***************************************************************************)
(* libs/ilclient/ilcore.c, the OpenMAX calls of the program, and the       *)
(* firmware behind them: components with a state and ports, commands that  *)
(* are accepted at once and answered later, tunnels between ports.         *)
(*                                                                         *)
(* The firmware is external.  What it answers, and when it can, is taken   *)
(* from what ilclient.c waits for, in which order, and what it cleans up   *)
(* after an error.  A component is a pair of its name and the number of    *)
(* the client (ILCLIENT_T) it belongs to: the program has a clock in each. *)
(***************************************************************************)
EXTENDS Integers, Sequences, FiniteSets, SequencesExt

CONSTANTS
  Comps,        \* components the program creates
  NumBuffers,   \* nBufferCountActual of the ports fed by the client
  MaxFailures   \* bound: commands and calls the firmware refuses

ASSUME CoreAssumption ==
  NumBuffers \in Nat \ {0} /\ MaxFailures \in Nat

VARIABLES
  coreInit,       \* users of the core
  nActiveHandles, \* handles given out
  state,          \* OMX_STATETYPE of each component
  enabled,        \* ports of each component that are enabled
  pending,        \* commands accepted and not yet answered
  tunnels,        \* pairs of port ends that are connected
  supplied,       \* buffers each component was given with OMX_UseBuffer
  held,           \* buffers each component was given to empty
  orphans,        \* ports whose tunnel partner's PortEnable was refused
  failures        \* refusals so far

core == <<coreInit, nActiveHandles, state, enabled, pending, tunnels,
          supplied, held, orphans, failures>>

(* OMX_STATETYPE; Absent is a component without a handle.                  *)
Absent == 0
Loaded == 1
Idle == 2
Executing == 3

(* The ports of each kind of component, in the order of their numbers.     *)
PortsOf(c) ==
  CASE c[1] = "video_decode" -> <<130, 131>>
    [] c[1] = "video_render" -> <<90>>
    [] c[1] = "video_scheduler" -> <<10, 11, 12>>
    [] c[1] = "clock" -> <<80>>
    [] c[1] = "audio_render" -> <<100, 101>>

(* The ports whose buffers the client supplies.                            *)
Fed == {100, 130}

Command(c, cmd, n) == [c |-> c, cmd |-> cmd, n |-> n]
Partners(c, n) == {t[1] : t \in {u \in tunnels : u[2] = <<c, n>>}}
                  \cup {t[2] : t \in {u \in tunnels : u[1] = <<c, n>>}}

(* bEnabled of the port definition: it is set when the command is accepted.*)
Enabling(c, n) == n \in enabled[c] \/ Command(c, "PortEnable", n) \in pending

CoreInit ==
  /\ coreInit = 0 /\ nActiveHandles = 0
  /\ state = [c \in Comps |-> Absent] /\ enabled = [c \in Comps |-> {}]
  /\ pending = {} /\ tunnels = {} /\ orphans = {} /\ failures = 0
  /\ supplied = [c \in Comps |-> 0] /\ held = [c \in Comps |-> <<>>]

-----------------------------------------------------------------------------
(* The calls of ilcore.c.  Refusal is the firmware's, or malloc's.         *)

Refuse == failures < MaxFailures /\ failures' = failures + 1

OMX_Init ==
  /\ coreInit' = coreInit + 1
  /\ UNCHANGED <<nActiveHandles, state, enabled, pending, tunnels, supplied,
                 held, orphans, failures>>

OMX_Deinit ==
  /\ coreInit > 0 /\ coreInit' = coreInit - 1
  /\ UNCHANGED <<nActiveHandles, state, enabled, pending, tunnels, supplied,
                 held, orphans, failures>>

(* A new component is Loaded and has all its ports enabled.                *)
OMX_GetHandle(c) ==
  /\ nActiveHandles' = nActiveHandles + 1
  /\ state' = [state EXCEPT ![c] = Loaded]
  /\ enabled' = [enabled EXCEPT ![c] = ToSet(PortsOf(c))]
  /\ UNCHANGED <<coreInit, pending, tunnels, supplied, held, orphans, failures>>

OMX_FreeHandle(c) ==
  /\ nActiveHandles' = nActiveHandles - 1
  /\ state' = [state EXCEPT ![c] = Absent]
  /\ enabled' = [enabled EXCEPT ![c] = {}]
  /\ pending' = {x \in pending : x.c # c}
  /\ UNCHANGED <<coreInit, tunnels, supplied, held, orphans, failures>>

(* Ask the output, then the input; when the input refuses, the output is   *)
(* told to forget it.                                                      *)
OMX_SetupTunnel(source, sink) ==
  /\ tunnels' = tunnels \cup {<<source, sink>>}
  /\ UNCHANGED <<coreInit, nActiveHandles, state, enabled, pending, supplied,
                 held, orphans, failures>>

(* OMX_SetupTunnel with no other end.                                      *)
OMX_SetupNoTunnel(end) ==
  /\ tunnels' = {t \in tunnels : end \notin {t[1], t[2]}}
  /\ UNCHANGED <<coreInit, nActiveHandles, state, enabled, pending, supplied,
                 held, orphans, failures>>

(* A call that is refused changes nothing.                                 *)
OMX_Refused ==
  /\ Refuse
  /\ UNCHANGED <<coreInit, nActiveHandles, state, enabled, pending, tunnels,
                 supplied, held, orphans>>

(* Macros of the OpenMAX headers that call into the component.  A port     *)
(* that is disabled has done with its tunnel's failure.                    *)
OMX_SendCommand(c, cmd, n) ==
  /\ pending' = pending \cup {Command(c, cmd, n)}
  /\ orphans' = IF cmd = "PortDisable" THEN orphans \ {<<c, n>>} ELSE orphans
  /\ UNCHANGED <<coreInit, nActiveHandles, state, enabled, tunnels, supplied,
                 held, failures>>

OMX_UseBuffer(c) ==
  /\ supplied' = [supplied EXCEPT ![c] = @ + 1]
  /\ UNCHANGED <<coreInit, nActiveHandles, state, enabled, pending, tunnels,
                 held, orphans, failures>>

OMX_FreeBuffer(c, num) ==
  /\ supplied' = [supplied EXCEPT ![c] = @ - num]
  /\ UNCHANGED <<coreInit, nActiveHandles, state, enabled, pending, tunnels,
                 held, orphans, failures>>

OMX_EmptyThisBuffer(c, buf) ==
  /\ held' = [held EXCEPT ![c] = Append(@, buf)]
  /\ UNCHANGED <<coreInit, nActiveHandles, state, enabled, pending, tunnels,
                 supplied, orphans, failures>>

-----------------------------------------------------------------------------
(* What the firmware does with a command.                                  *)

(* A port can take its buffers through the tunnel when its partner takes   *)
(* part in the tunnel too.                                                 *)
PartnerReady(c, n) ==
  \E e \in Partners(c, n) :
    /\ Enabling(e[1], e[2])
    /\ state[e[1]] # Loaded \/ Command(e[1], "StateSet", Idle) \in pending

Cancelled(x) ==
  x.cmd = "PortEnable" /\ Command(x.c, "PortDisable", x.n) \in pending

(* The component can do what the command says.                             *)
Ready(x) ==
  \/ /\ x.cmd = "PortDisable" /\ Command(x.c, "PortEnable", x.n) \notin pending
     /\ x.n \in Fed => supplied[x.c] = 0
  \/ /\ x.cmd = "PortEnable"
     /\ \/ Cancelled(x) \/ state[x.c] = Loaded \/ PartnerReady(x.c, x.n)
        \/ x.n \in Fed /\ supplied[x.c] = NumBuffers
  \/ /\ x.cmd = "StateSet"
     /\ x.n = Idle => \A n \in enabled[x.c] : PartnerReady(x.c, n)

(* It is what the command says already.                                    *)
SameState(x) ==
  \/ x.cmd = "PortDisable" /\ ~Enabling(x.c, x.n)
  \/ x.cmd = "StateSet" /\ state[x.c] = x.n

Perform(x) ==
  /\ pending' = pending \ {x}
  /\ enabled' = [enabled EXCEPT ![x.c] =
       CASE x.cmd = "PortDisable" -> @ \ {x.n}
         [] x.cmd = "PortEnable" /\ ~Cancelled(x) -> @ \cup {x.n}
         [] OTHER -> @]
  /\ state' = IF x.cmd = "StateSet" THEN [state EXCEPT ![x.c] = x.n] ELSE state
  /\ UNCHANGED <<coreInit, nActiveHandles, tunnels, supplied, held, orphans,
                 failures>>

(* The command ends with an error: by the firmware's own decision, or      *)
(* because it needs a partner whose PortEnable ended that way.  A StateSet *)
(* goes on waiting for such a partner, which is why ilclient.c waits for   *)
(* both there.                                                             *)
Reject(x) ==
  /\ pending' = pending \ {x}
  /\ IF <<x.c, x.n>> \in orphans /\ x.cmd = "PortEnable"
     THEN UNCHANGED failures
     ELSE Refuse
  /\ orphans' = IF x.cmd = "PortEnable"
                THEN orphans \cup Partners(x.c, x.n)
                ELSE orphans
  /\ UNCHANGED <<coreInit, nActiveHandles, state, enabled, tunnels, supplied,
                 held>>
=============================================================================
