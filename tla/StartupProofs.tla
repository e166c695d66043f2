---------------------------- MODULE StartupProofs -----------------------------
(***************************************************************************)
(* Theorems about Startup: nobody sleeps on an event that is there, the    *)
(* pool of event structures never runs dry, the program aborts only for a  *)
(* reason, and what a call has set up is whole, with nothing left over.    *)
(*                                                                         *)
(* All of them follow from IInv (StartupMachine). Each kind of step of the *)
(* program has its lemma (Step...), which shows that IInv holds afterwards *)
(* for one of the states in Nexts; so have the firmware's steps, which     *)
(* leave the stack alone (HandlerKeeps to StepAnswer). The lemmas Do...    *)
(* connect them with the actions of the specification, and at the end each *)
(* property is read off the invariant.                                     *)
(***************************************************************************)
EXTENDS StartupMachine


(* Between two steps of the program's own text, the answers of the         *)
(* components that are waited for have set their flags.                    *)
(* A step that changes what others are told to do with an error.           *)
LEMMA StepRelate ==
  ASSUME NEW S, NEW f, NEW k, Facing(S, f, k), f.do = "relate",
         related' = [related EXCEPT ![f.c] = f.to], todo' = k, Going',
         UNCHANGED <<core, lists, masked, inList, ret, late, port_setting_changed>>
  PROVE  IInv'
<1> DEFINE c == f.c  o == f.to
<1>1. Text(k) /\ Heard(S) /\ Good(f, k, S) /\ Rel(S) /\ Common(S)
      /\ \A q, T : <<q, T>> \in Nexts(f, k, S) => Safe(q, T)
  BY DEF Facing, Rel
<1>2. c \in Comps /\ o \in Comps \cup {None}
  BY <1>1 DEF Good, GoodSync, GoodLost
<1>3. related' = [related EXCEPT ![c] = o] /\ related \in [Comps -> Comps \cup {None}]
  BY <1>1 DEF Common, Others
<1>4. Others'
  <2>1. Others /\ UNCHANGED <<masked, failures, orphans, late>>
    BY <1>1 DEF Common, core
  <2>2. related' \in [Comps -> Comps \cup {None}]
    <3> HIDE DEF c, o
    <3> QED
      BY <1>2, <1>3
  <2> QED
    BY <2>1, <2>2 DEF Others
<1>5. UNCHANGED <<coreInit, nActiveHandles, state, enabled, pending, tunnels, supplied, held,
                  orphans, failures, spare, events, flags>>
  BY DEF core, lists
<1>6. ASSUME NEW T, T.base = S.base, T.ret = S.ret PROVE Common(T)'
  <2>1. Handles(T)' /\ States' /\ Asked(T)'
    <3>1. Handles(S) /\ States /\ Asked(S) /\ pending' \subseteq pending
      BY <1>1, <1>5 DEF Common
    <3> QED
      BY <1>5, <1>6, <3>1, KeepHandles, KeepStates, KeepAsked
  <2>2. Buffers' /\ Lists(T)' /\ Result(T)'
    BY <1>1, <1>5, <1>6, KeepBuffers, KeepLists DEF Common, Result
  <2> QED
    BY <1>4, <2>1, <2>2 DEF Common
<1>7. CASE S.doom
  <2>1. <<k, S>> \in Nexts(f, k, S)
    BY <1>7 DEF Nexts, NextsLost
  <2>2. Rel(S)'
    <3>1. Common(S)'
      BY <1>6
    <3> QED
      BY <1>1, <1>5, <1>7, <3>1 DEF Rel, Blamed
  <2>3. Heard(S)'
    BY <1>1, HeardSame, <1>5
  <2> QED
    BY <1>1, <2>1, <2>2, <2>3, TextOnwards
<1>8. CASE ~S.doom
  <2> DEFINE h == Put(S.related, c, o)
             T == Sync(S.ret, S.sent, h, S.masked, S.base, S.world)
  <2>0. T = Sync(S.ret, S.sent, h, S.masked, S.base, S.world)
    OBVIOUS
  <2>1. <<k, T>> \in Nexts(f, k, S)
    BY <1>8 DEF Nexts, NextsSync
  <2> HIDE DEF T
  <2>2. /\ T.doom = FALSE /\ T.ret = S.ret /\ T.sent = S.sent /\ T.related = h
        /\ T.masked = S.masked /\ T.base = S.base /\ T.world = S.world
    BY <2>0 DEF Sync
  <2>3. InStep(S)
    BY <1>1, <1>8 DEF Rel
  <2>4. o # None => S.sent[c].cmd \in {"none", "PortEnable"}
    BY <1>1, <1>8 DEF Good, GoodSync
  <2>5. related' = h
    <3>1. related = S.related
      BY <2>3 DEF InStep, Copied
    <3> HIDE DEF c, o
    <3> QED
      BY <1>2, <1>3, <3>1 DEF h, Put
  <2>6. \A d \in Comps : h[d] = IF d = c THEN o ELSE S.related[d]
    BY DEF Put
  <2> HIDE DEF h, c, o
  <2>7. Copied(T)'
    BY <1>5, <2>2, <2>3, <2>5 DEF InStep, Copied
  <2>8. \A d \in Comps : Fits(T, d)'
    <3>1. ASSUME NEW d \in Comps PROVE Fits(T, d)'
      <4>1. Fits(S, d) /\ Mine(d)' = Mine(d)
        BY <1>5, <2>3 DEF InStep, Mine
      <4> QED
        BY <1>5, <2>2, <4>1, FitsSame
    <3> QED
      BY <3>1
  <2>9. Partnered(T)'
    BY <2>2, <2>3, <2>4, <2>6 DEF InStep, Partnered
  <2>10. Sendings(T)' /\ InHand(T)' /\ Unused(T)' /\ Excused(T)'
    BY <1>5, <2>2, <2>3 DEF InStep, Sendings, InHand, Unused, Excused, Suspects
  <2>11. Unborn(T)' /\ Silent(T)' /\ Covered(T)'
    BY <1>5, <2>2, <2>3 DEF InStep, Unborn, Silent, Covered
  <2>12. Common(T)'
    BY <1>6, <2>2
  <2>13. Rel(T)'
    BY <2>2, <2>7, <2>8, <2>9, <2>10, <2>11, <2>12 DEF Rel, InStep
  <2>14. Heard(T)'
    BY <1>1, <1>5, <1>8, <2>2 DEF Heard, Unreported
  <2> QED
    BY <1>1, <2>1, <2>13, <2>14, TextOnwards
<1> QED
  BY <1>7, <1>8

LEMMA StepMask ==
  ASSUME NEW S, NEW f, NEW k, Facing(S, f, k), f.do = "mask",
         masked' = (IF f.on THEN masked \cup {f.c} ELSE masked \ {f.c}), todo' = k,
         Going',
         UNCHANGED <<core, lists, related, inList, ret, late, port_setting_changed>>
  PROVE  IInv'
<1> DEFINE c == f.c
           m == IF f.on THEN S.masked \cup {c} ELSE S.masked \ {c}
           T == Sync(S.ret, S.sent, S.related, m, S.base, S.world)
<1>0. T = Sync(S.ret, S.sent, S.related, m, S.base, S.world)
  OBVIOUS
<1>1. Text(k) /\ Heard(S) /\ Good(f, k, S) /\ Rel(S) /\ Common(S)
      /\ \A q, U : <<q, U>> \in Nexts(f, k, S) => Safe(q, U)
  BY DEF Facing, Rel
<1>2. ~S.doom
  BY <1>1 DEF Good, GoodLost
<1>3. c \in Comps /\ S.sent[c] = NoCommand
  BY <1>1, <1>2 DEF Good, GoodSync
<1>4. <<k, T>> \in Nexts(f, k, S)
  BY <1>2 DEF Nexts, NextsSync
<1>5. InStep(S)
  BY <1>1, <1>2 DEF Rel
<1>6. masked' = m /\ m \subseteq Comps /\ \A d \in Comps : d # c /\ d \in S.masked => d \in m
  <2>1. masked = S.masked /\ masked \subseteq Comps
    BY <1>1, <1>5 DEF InStep, Copied, Common, Others
  <2> QED
    BY <1>3, <2>1
<1> HIDE DEF T, m, c
<1>7. /\ T.doom = FALSE /\ T.ret = S.ret /\ T.sent = S.sent /\ T.related = S.related
      /\ T.masked = m /\ T.base = S.base /\ T.world = S.world
  BY <1>0 DEF Sync
<1>8. UNCHANGED <<coreInit, nActiveHandles, state, enabled, pending, tunnels, supplied, held,
                  orphans, failures, spare, events, flags>>
  BY DEF core, lists
<1>9. Common(T)'
  <2>1. Handles(T)' /\ States' /\ Asked(T)'
    <3>1. Handles(S) /\ States /\ Asked(S) /\ pending' \subseteq pending
      BY <1>1, <1>8 DEF Common
    <3> QED
      BY <1>7, <1>8, <3>1, KeepHandles, KeepStates, KeepAsked
  <2>2. Buffers' /\ Lists(T)' /\ Result(T)'
    BY <1>1, <1>7, <1>8, KeepBuffers, KeepLists DEF Common, Result
  <2>3. Others'
    BY <1>1, <1>6, <1>8 DEF Common, Others
  <2> QED
    BY <2>1, <2>2, <2>3 DEF Common
<1>10. Copied(T)'
  BY <1>5, <1>6, <1>7, <1>8 DEF InStep, Copied
<1>11. \A d \in Comps : Fits(T, d)'
  <2>1. ASSUME NEW d \in Comps PROVE Fits(T, d)'
    <3>1. Fits(S, d) /\ Mine(d)' = Mine(d)
      BY <1>5, <1>8 DEF InStep, Mine
    <3> QED
      BY <1>7, <1>8, <3>1, FitsSame
  <2> QED
    BY <2>1
<1>12. Covered(T)'
  <2>1. NoCommand.cmd # "PortDisable"
    BY DEF NoCommand, Command
  <2> QED
    BY <1>3, <1>5, <1>6, <1>7, <2>1 DEF InStep, Covered
<1>13. Sendings(T)' /\ InHand(T)' /\ Unused(T)' /\ Excused(T)'
  BY <1>5, <1>7, <1>8 DEF InStep, Sendings, InHand, Unused, Excused, Suspects
<1>14. Unborn(T)' /\ Silent(T)' /\ Partnered(T)'
  BY <1>5, <1>7, <1>8 DEF InStep, Unborn, Silent, Partnered
<1>15. Rel(T)'
  BY <1>7, <1>9, <1>10, <1>11, <1>12, <1>13, <1>14 DEF Rel, InStep
<1>16. Heard(T)'
  BY <1>1, <1>2, <1>7, <1>8 DEF Heard, Unreported
<1> QED
  BY <1>1, <1>4, <1>15, <1>16, TextOnwards

LEMMA SomeCommand ==
  ASSUME NEW d, NEW what, NEW m, Typed(d, what, m), NEW y, y = Command(d, what, m)
  PROVE  y # NoCommand /\ y.c = d /\ y.cmd = what /\ y.n = m /\ IsCommand(y) /\ what # "none"
<1>1. y.c = d /\ y.cmd = what /\ y.n = m
  BY DEF Command
<1>2. what # "none"
  BY DEF Typed
<1>3. NoCommand.cmd = "none"
  BY DEF NoCommand, Command
<1>4. IsCommand(y)
  BY <1>1 DEF IsCommand
<1> QED
  BY <1>1, <1>2, <1>3, <1>4

LEMMA HarmlessAre ==
  ASSUME NEW c, NEW x \in Harmless(c)
  PROVE  /\ x.e = "PortSettingsChanged" \/ (x.e = "Error" /\ x.n1 = "StreamCorrupt")
         /\ x.e # "Error" \/ x.n2 # 1
<1>1. \/ \E n : x = NewSettings(n)
      \/ x = Corrupt
  BY DEF Harmless
<1>2. CASE \E n : x = NewSettings(n)
  <2>1. PICK n : x = NewSettings(n)
    BY <1>2
  <2>2. x.e = "PortSettingsChanged"
    BY <2>1 DEF NewSettings, Event
  <2> QED
    BY <2>2
<1>3. CASE x = Corrupt
  BY <1>3 DEF Corrupt, Event
<1> QED
  BY <1>1, <1>2, <1>3

LEMMA CommandsEnd ==
  ASSUME NEW c
  PROVE  CommandError \cap Harmless(c) = {}
<1>1. \A x \in CommandError : x.e = "Error" /\ x.n2 = 1
  BY DEF CommandError, ErrorsWith, Event
<1>2. \A x \in Harmless(c) : x.e # "Error" \/ x.n2 # 1
  BY HarmlessAre
<1> QED
  BY <1>1, <1>2

LEMMA CleanUnreported ==
  ASSUME NEW c, Clean(events[c], c)
  PROVE  Unreported(c)
BY CommandsEnd, CleanSees DEF Unreported

LEMMA StepSend ==
  ASSUME NEW S, NEW f, NEW k, Facing(S, f, k), f.do = "send",
         OMX_SendCommand(f.c, f.cmd, f.n), todo' = k, Going',
         UNCHANGED <<lists, masked, related, inList, ret, late, port_setting_changed>>
  PROVE  IInv'
<1> DEFINE c == f.c  cmd == f.cmd  n == f.n  x == Command(c, cmd, n)
<1>1. Text(k) /\ Heard(S) /\ Good(f, k, S) /\ Rel(S) /\ Common(S)
      /\ \A q, T : <<q, T>> \in Nexts(f, k, S) => Safe(q, T)
  BY DEF Facing, Rel
<1>2. c \in Comps /\ c \in S.base.alive /\ Typed(c, cmd, n)
  BY <1>1 DEF Good, GoodSync, GoodLost
<1>3. /\ pending' = pending \cup {x} /\ orphans' \subseteq orphans
      /\ UNCHANGED <<coreInit, nActiveHandles, state, enabled, tunnels, supplied, held,
                     failures, spare, events, flags>>
  BY DEF OMX_SendCommand, lists
<1> HIDE DEF c, cmd, n
<1>5. x = Command(c, cmd, n)
  OBVIOUS
<1> HIDE DEF x
<1>4. x # NoCommand /\ x.c = c /\ x.cmd = cmd /\ x.n = n /\ IsCommand(x) /\ cmd # "none"
  BY <1>2, <1>5, SomeCommand
<1>6. ASSUME NEW T, T.base = S.base, T.ret = S.ret PROVE Common(T)'
  <2>1. Handles(T)' /\ States'
    BY <1>1, <1>3, <1>6, KeepHandles, KeepStates DEF Common
  <2>2. Asked(T)'
    BY <1>1, <1>2, <1>3, <1>4, <1>6 DEF Common, Asked
  <2>3. Buffers' /\ Lists(T)' /\ Result(T)'
    <3>1. Lists(T)'
      BY <1>1, <1>6, KeepLists DEF Common
    <3> QED
      BY <1>1, <1>3, <1>6, <3>1, KeepBuffers DEF Common, Result
  <2>4. Others'
    BY <1>1, <1>3 DEF Common, Others
  <2> QED
    BY <2>1, <2>2, <2>3, <2>4 DEF Common
<1>7. CASE S.doom
  <2>1. <<k, S>> \in Nexts(f, k, S)
    BY <1>7 DEF Nexts, NextsLost
  <2>2. Rel(S)'
    <3>1. Common(S)'
      BY <1>6
    <3> QED
      BY <1>1, <1>3, <1>7, <3>1 DEF Rel, Blamed
  <2>3. Heard(S)'
    BY <1>1, HeardSame, <1>3
  <2> QED
    BY <1>1, <2>1, <2>2, <2>3, TextOnwards
<1>8. CASE ~S.doom
  <2> DEFINE g == Put(S.sent, c, x)
             T == Sync(S.ret, g, S.related, S.masked, S.base, S.world)
  <2>0. T = Sync(S.ret, g, S.related, S.masked, S.base, S.world)
    OBVIOUS
  <2>1. <<k, T>> \in Nexts(f, k, S)
    BY <1>8, <1>5 DEF Nexts, NextsSync, c, cmd, n
  <2> HIDE DEF T
  <2>2. /\ T.doom = FALSE /\ T.ret = S.ret /\ T.sent = g /\ T.related = S.related
        /\ T.masked = S.masked /\ T.base = S.base /\ T.world = S.world
    BY <2>0 DEF Sync
  <2>3. InStep(S)
    BY <1>1, <1>8 DEF Rel
  <2>4. /\ S.sent[c] = NoCommand /\ (S.related[c] # None => cmd = "PortEnable")
        /\ (cmd = "PortDisable" /\ n \notin S.world.enabled[c] => c \in S.masked)
    BY <1>1, <1>8 DEF Good, GoodSync, c, cmd, n
  <2>6. \A d \in Comps : g[d] = IF d = c THEN x ELSE S.sent[d]
    BY DEF Put
  <2> HIDE DEF g
  <2>5. Waiting(S, c) /\ Mine(c) = {} /\ Clean(events[c], c)
    <3>1. Fits(S, c)
      BY <1>2, <2>3 DEF InStep
    <3> QED
      BY <2>4, <3>1, QuietFits
  <2>7. Copied(T)'
    BY <1>3, <2>2, <2>3 DEF InStep, Copied
  <2>8. \A d \in Comps : Fits(T, d)'
    <3>1. ASSUME NEW d \in Comps, d # c PROVE Fits(T, d)'
      <4>1. Fits(S, d) /\ Mine(d)' = Mine(d)
        BY <1>3, <1>4, <2>3, <3>1 DEF InStep, Mine
      <4> QED
        BY <1>3, <2>2, <2>6, <3>1, <4>1, FitsSame
    <3>2. Fits(T, c)'
      <4>1. Mine(c)' = {x}
        BY <1>3, <1>4, <2>5 DEF Mine
      <4>2. T.sent[c] = x
        BY <1>2, <2>2, <2>6
      <4>3. Waiting(T, c)'
        BY <1>3, <1>4, <2>2, <2>5, <4>1, <4>2 DEF Waiting
      <4> QED
        BY <4>3 DEF Fits
    <3> QED
      BY <3>1, <3>2
  <2>9. Partnered(T)' /\ Covered(T)' /\ Sendings(T)'
    BY <1>4, <2>2, <2>3, <2>4, <2>6 DEF InStep, Partnered, Covered, Sendings
  <2>10. InHand(T)' /\ Unused(T)' /\ Unborn(T)'
    BY <1>3, <2>2, <2>3 DEF InStep, InHand, Unused, Unborn
  <2>11. Excused(T)'
    <3>1. Suspects(T)' \subseteq Suspects(S)
      <4>1. ~Sees(events[c], {Refusal})
        <5>1. {Refusal} \cap Harmless(c) = {}
          <6>1. Refusal.e = "Error" /\ Refusal.n2 = 1
            BY DEF Refusal, Event
          <6> QED
            BY <6>1, HarmlessAre
        <5> QED
          BY <2>5, <5>1, CleanSees
      <4> QED
        BY <1>3, <2>2, <2>6, <4>1 DEF Suspects
    <3>2. Suspects(S) \subseteq Suspects(T)'
      <4>1. NoCommand.cmd # "StateSet"
        BY DEF NoCommand, Command
      <4> QED
        BY <1>3, <2>2, <2>4, <2>6, <4>1 DEF Suspects
    <3> QED
      BY <1>3, <2>2, <2>3, <3>1, <3>2 DEF InStep, Excused
  <2>12. Silent(T)'
    BY <1>3, <2>2, <2>3, <2>4, <2>6 DEF InStep, Silent
  <2>13. Common(T)'
    BY <1>6, <2>2
  <2>14. Rel(T)'
    BY <2>2, <2>3, <2>7, <2>8, <2>9, <2>10, <2>11, <2>12, <2>13 DEF Rel, InStep
  <2>15. Heard(T)'
    <3>1. ASSUME NEW d \in Comps, T.sent[d] # NoCommand PROVE Unreported(d)'
      <4>1. CASE d = c
        BY <1>3, <2>5, <4>1, CleanUnreported DEF Unreported
      <4>2. CASE d # c
        BY <1>1, <1>3, <1>8, <2>2, <2>6, <3>1, <4>2 DEF Heard, Unreported
      <4> QED
        BY <4>1, <4>2
    <3> QED
      BY <2>2, <3>1 DEF Heard
  <2> QED
    BY <1>1, <2>1, <2>14, <2>15, TextOnwards
<1> QED
  BY <1>7, <1>8

(* An event that is taken off a list.                                      *)
LEMMA Taken ==
  ASSUME NEW S, Common(S), NEW c \in S.base.alive, NEW i \in 1 .. Len(events[c]),
         TakeEvent(c, i), flags' = [d \in Comps |-> flags'[d]]
  PROVE  /\ Lists(S)' /\ events'[c] = RemoveAt(events[c], i)
         /\ \A d \in Comps : d # c => events'[d] = events[d]
<1>1. /\ c \in Comps /\ Owner(c) \in S.base.clients /\ Few(events) /\ Owner(c) \in Clients
      /\ spare = Spares(events, S.base.clients)
  BY DEF Common, Handles, Lists, Clients, Owner
<1>2. /\ events = [d \in Comps |-> events[d]] /\ events[c] \in Seq(EventsOf(c))
      /\ \A d \in Comps : events[d] \in Seq(EventsOf(d)) /\ Len(events[d]) <= 16
  BY <1>1 DEF Few
<1>3. events' = [events EXCEPT ![c] = RemoveAt(events[c], i)]
      /\ spare' = [spare EXCEPT ![Owner(c)] = spare[Owner(c)] + 1]
  BY DEF TakeEvent
<1>4. /\ RemoveAt(events[c], i) \in Seq(EventsOf(c)) /\ Len(events[c]) \in Nat
      /\ Len(RemoveAt(events[c], i)) = Len(events[c]) - 1
  BY <1>2, Removed
<1>5. /\ events' = [d \in Comps |-> events'[d]] /\ events'[c] = RemoveAt(events[c], i)
      /\ \A d \in Comps : d # c => events'[d] = events[d]
  BY <1>1, <1>2, <1>3
<1>6. Few(events')
  <2>1. Len(events'[c]) <= 16
    BY <1>1, <1>2, <1>4, <1>5
  <2> QED
    BY <1>2, <1>4, <1>5, <2>1 DEF Few
<1> DEFINE z == spare[Owner(c)] + Len(events[c]) - Len(events'[c])
<1>7. /\ Spares(events', S.base.clients) = [spare EXCEPT ![Owner(c)] = z]
      /\ z = spare[Owner(c)] + 1
  <2>1. Len(events'[c]) = Len(events[c]) - 1
    BY <1>4, <1>5
  <2>2. spare[Owner(c)] \in Int
    <3>1. spare[Owner(c)] =
            NumEvents - Cardinality(Entries(events, OfOwner(Owner(c))))
      BY <1>1 DEF Spares
    <3>2. Cardinality(Entries(events, OfOwner(Owner(c)))) \in Nat
      <4> DEFINE D == OfOwner(Owner(c))
      <4>1. /\ Cardinality(Entries(events, D)) =
                 Cardinality(Entries(events, D \ {c})) + Len(events[c])
            /\ Cardinality(Entries(events, D \ {c})) \in Nat /\ Len(events[c]) \in Nat
        BY <1>1, EntriesSplit
      <4> HIDE DEF D
      <4>2. Cardinality(Entries(events, D)) \in Nat
        BY <4>1
      <4> QED
        BY <4>2 DEF D
    <3> QED
      BY <3>1, <3>2, EventsAssumption
  <2>3. z = spare[Owner(c)] + 1
    BY <1>4, <2>1, <2>2
  <2>4. z = Spares(events, S.base.clients)[Owner(c)] + Len(events[c]) - Len(events'[c])
    BY <1>1
  <2> DEFINE ev == events
             ew == events'
             clients == S.base.clients
  <2>5. /\ Few(ev) /\ Few(ew) /\ c \in Comps /\ Owner(c) \in clients
        /\ \A d \in Comps : d # c => ew[d] = ev[d]
        /\ z = Spares(ev, clients)[Owner(c)] + Len(ev[c]) - Len(ew[c])
    BY <1>1, <1>5, <1>6, <2>4
  <2> HIDE DEF z, ev, ew, clients
  <2>6. Moves(ev, ew, c, clients, z)
    BY <2>5 DEF Moves
  <2>7. Spares(ew, clients) = Replaced(Spares(ev, clients), Owner(c), z)
    BY <2>6, SparesChange
  <2> QED
    BY <1>1, <2>3, <2>7 DEF Replaced, ev, ew, clients
<1>8. spare' = Spares(events', S.base.clients)
  BY <1>3, <1>7
<1>9. Lists(S)'
  BY <1>6, <1>8 DEF Lists
<1> QED
  BY <1>5, <1>9

LEMMA ListsAre ==
  ASSUME NEW S, Common(S), NEW c \in Comps
  PROVE  events[c] \in Seq(EventsOf(c)) /\ Len(events[c]) \in Nat /\ Len(events[c]) <= 16
<1>1. events[c] \in Seq(EventsOf(c)) /\ Len(events[c]) <= 16
  BY DEF Common, Lists, Few
<1> QED
  BY <1>1, LenProperties

(* One that is taken off the list of a component that answers nothing.     *)
LEMMA QuietTake ==
  ASSUME NEW S, ~S.doom, Rel(S), NEW c \in S.base.alive, S.sent[c] = NoCommand,
         NEW i \in 1 .. Len(events[c]), TakeEvent(c, i),
         flags' = [d \in Comps |-> flags'[d]], \A d \in Comps : flags'[d] \subseteq flags[d],
         NEW T, T.doom = FALSE, Result(T)', T.sent = S.sent, T.related = S.related,
         T.masked = S.masked, T.base = S.base, T.world.hand = S.world.hand,
         T.world.state = S.world.state, T.world.enabled = S.world.enabled,
         T.world.tunnels = S.world.tunnels, T.world.supplied = S.world.supplied,
         T.world.spoiled = S.world.spoiled, T.world.seen = port_setting_changed',
         UNCHANGED <<core, masked, related, inList, late>>
  PROVE  Rel(T)'
<1>1. Common(S) /\ InStep(S) /\ c \in Comps
  BY DEF Rel, Common, Handles
<1>2. /\ Lists(S)' /\ events'[c] = RemoveAt(events[c], i)
      /\ \A d \in Comps : d # c => events'[d] = events[d]
  BY <1>1, Taken
<1>3. /\ UNCHANGED <<coreInit, nActiveHandles, state, enabled, pending, tunnels, supplied, held,
                     orphans, failures>>
  BY DEF core
<1>4. Common(T)'
  <2>1. Lists(T)'
    BY <1>2 DEF Lists
  <2> QED
    BY <1>1, <2>1, KeepCommon
<1>5. Waiting(S, c) /\ Clean(events[c], c)
  <2>1. Fits(S, c)
    BY <1>1 DEF InStep
  <2> QED
    BY <2>1, QuietFits
<1>6. Clean(events[c], c)'
  <2>1. events[c] \in Seq(EventsOf(c))
    BY <1>1, ListsAre
  <2> QED
    BY <1>2, <1>5, <2>1, CleanRemoved
<1>7. ASSUME NEW d \in Comps PROVE Fits(T, d)'
  <2>1. Mine(d)' = Mine(d) /\ Fits(S, d)
    BY <1>1, <1>3 DEF Mine, InStep
  <2>2. CASE d = c
    <3>1. Waiting(T, c)'
      BY <1>3, <1>5, <1>6, <2>1, <2>2 DEF Waiting
    <3> QED
      BY <2>2, <3>1 DEF Fits
  <2>3. CASE d # c
    BY <1>2, <1>3, <2>1, <2>3, FitsSame
  <2> QED
    BY <2>2, <2>3
<1>8. Copied(T)' /\ Sendings(T)' /\ InHand(T)' /\ Unused(T)'
  BY <1>1, <1>3 DEF InStep, Copied, Sendings, InHand, Unused
<1>9. Excused(T)'
  <2>1. Suspects(T)' = Suspects(S)
    <3>1. NoCommand.cmd # "StateSet"
      BY DEF NoCommand, Command
    <3> QED
      BY <1>2, <3>1 DEF Suspects
  <2> QED
    BY <1>1, <1>3, <2>1 DEF InStep, Excused
<1>10. Partnered(T)' /\ Covered(T)'
  BY <1>1 DEF InStep, Partnered, Covered
<1>11. Unborn(T)'
  BY <1>1, <1>2 DEF InStep, Unborn
<1>12. Silent(T)'
  <2>1. Silent(S)
    BY <1>1 DEF InStep
  <2> QED
    BY <1>2, <1>3, <2>1 DEF Silent
<1> QED
  BY <1>4, <1>7, <1>8, <1>9, <1>10, <1>11, <1>12 DEF Rel, InStep

LEMMA QuietHeard ==
  ASSUME NEW S, ~S.doom, Heard(S), NEW c, S.sent[c] = NoCommand, NEW T, ~T.doom,
         T.sent = S.sent, \A d \in Comps : d # c => events'[d] = events[d] /\ flags'[d] = flags[d]
  PROVE  Heard(T)'
BY DEF Heard, Unreported

LEMMA Lowered ==
  ASSUME NEW S, Common(S), NEW c \in Comps, NEW y, flags' = Lower(c, y)
  PROVE  /\ flags' = [d \in Comps |-> flags'[d]] /\ flags'[c] = flags[c] \ {y}
         /\ \A d \in Comps : flags'[d] \subseteq flags[d] /\ (d # c => flags'[d] = flags[d])
<1>1. flags = [d \in Comps |-> flags[d]]
  BY DEF Common, Lists
<1>2. flags' = [flags EXCEPT ![c] = flags[c] \ {y}]
  BY DEF Lower
<1> HIDE DEF Common
<1> QED
  BY <1>1, <1>2

LEMMA ErrorFlag ==
  ASSUME NEW x, x.e = "Error"
  PROVE  FlagOf(x) = "ERROR"
BY DEF FlagOf

LEMMA AliveAre ==
  ASSUME NEW S, Common(S)
  PROVE  S.base.alive \subseteq Comps
BY DEF Common, Handles

LEMMA FlagsAre ==
  ASSUME NEW S, Common(S), NEW c \in Comps, NEW y, flags' = flags \/ flags' = Lower(c, y)
  PROVE  /\ flags' = [d \in Comps |-> flags'[d]]
         /\ \A d \in Comps : flags'[d] \subseteq flags[d] /\ (d # c => flags'[d] = flags[d])
<1>1. CASE flags' = flags
  BY <1>1 DEF Common, Lists
<1>2. CASE flags' = Lower(c, y)
  BY <1>2, Lowered
<1> QED
  BY <1>1, <1>2

(* An event found while nothing is under way for its component.            *)
LEMMA QuietOnwards ==
  ASSUME NEW S, NEW f, NEW k, Facing(S, f, k), ~S.doom, Heard(S), NEW c \in S.base.alive,
         S.sent[c] = NoCommand, NEW i \in 1 .. Len(events[c]), TakeEvent(c, i), NEW y,
         flags' = flags \/ flags' = Lower(c, y), NEW q, Text(q), NEW r \in -5 .. 0, ret' = r,
         NEW w, NEW T, T = Sync(r, S.sent, S.related, S.masked, S.base, w),
         \/ w = S.world /\ UNCHANGED port_setting_changed
         \/ w = Sized(S.world) /\ port_setting_changed' = TRUE,
         <<q, T>> \in Nexts(f, k, S), todo' = q, Going',
         UNCHANGED <<core, masked, related, inList, late>>
  PROVE  IInv'
<1>1. /\ T.doom = FALSE /\ T.ret = r /\ T.sent = S.sent /\ T.related = S.related
      /\ T.masked = S.masked /\ T.base = S.base /\ T.world = w
  BY DEF Sync
<1>2. Rel(S) /\ Common(S) /\ InStep(S)
  BY DEF Facing, Rel
<1>3. c \in Comps
  BY <1>2, AliveAre
<1>4. /\ flags' = [d \in Comps |-> flags'[d]]
      /\ \A d \in Comps : flags'[d] \subseteq flags[d] /\ (d # c => flags'[d] = flags[d])
  BY <1>2, <1>3, FlagsAre
<1>5. /\ w.hand = S.world.hand /\ w.state = S.world.state /\ w.enabled = S.world.enabled
      /\ w.tunnels = S.world.tunnels /\ w.supplied = S.world.supplied
      /\ w.spoiled = S.world.spoiled /\ w.seen = port_setting_changed'
  <2>1. port_setting_changed = S.world.seen
    BY <1>2 DEF InStep, Copied
  <2>2. CASE w = S.world /\ UNCHANGED port_setting_changed
    BY <2>1, <2>2
  <2>3. CASE w = Sized(S.world) /\ port_setting_changed' = TRUE
    BY <2>3 DEF Sized, World
  <2> QED
    BY <2>2, <2>3
<1>6. Result(T)'
  BY <1>1, ResultIs
<1>7. Rel(T)'
  BY <1>1, <1>2, <1>4, <1>5, <1>6, QuietTake
<1>8. Heard(T)'
  <2>1. \A d \in Comps : d # c => events'[d] = events[d]
    BY <1>2, <1>4, Taken
  <2> QED
    BY <1>1, <1>4, <2>1, QuietHeard
<1>9. Safe(q, T)
  BY DEF Facing
<1> QED
  BY <1>7, <1>8, <1>9, TextOnwards

(* One that is found after an answer that was not the expected one.        *)
LEMMA LostTake ==
  ASSUME NEW S, NEW f, NEW k, Facing(S, f, k), S.doom, NEW c \in S.base.alive,
         NEW i \in 1 .. Len(events[c]), TakeEvent(c, i), NEW y,
         flags' = flags \/ flags' = Lower(c, y), NEW q, Text(q), NEW r \in -5 .. 0, ret' = r,
         <<q, Lost(r, None, S.base)>> \in Nexts(f, k, S), todo' = q, Going',
         UNCHANGED <<core, masked, related, inList, late>>
  PROVE  IInv'
<1> DEFINE T == Lost(r, None, S.base)
<1>0. T = Lost(r, None, S.base) /\ Safe(q, T)
  BY DEF Facing
<1> HIDE DEF T
<1>1. T.doom = TRUE /\ T.told = None
  BY <1>0 DEF Lost
<1>2. Common(S) /\ Blamed(S)
  BY DEF Facing, Rel
<1>3. c \in Comps
  BY <1>2, AliveAre
<1>4. Lists(S)'
  <2>1. flags' = [d \in Comps |-> flags'[d]]
    BY <1>2, <1>3, FlagsAre
  <2> QED
    BY <1>2, <2>1, Taken
<1>5. (failures > 0 \/ late = TRUE)'
  BY <1>2 DEF Blamed, core
<1>6. Rel(T)'
  BY <1>0, <1>2, <1>4, <1>5, LostRel
<1>7. Heard(T)'
  BY <1>1 DEF Heard
<1> QED
  BY <1>0, <1>6, <1>7, TextOnwards

LEMMA StepRemove ==
  ASSUME NEW S, NEW f, NEW k, Facing(S, f, k), f.do = "remove", NEW i, i = Find(f.c, f.wanted),
         i = 0 => ret' = -1 /\ UNCHANGED lists,
         i # 0 => /\ ret' = 0 /\ TakeEvent(f.c, i)
                  /\ flags' = IF events[f.c][i].e = "PortSettingsChanged" THEN flags
                              ELSE Lower(f.c, FlagOf(events[f.c][i])),
         todo' = k, Going',
         UNCHANGED <<core, masked, related, inList, late, port_setting_changed>>
  PROVE  IInv'
<1> DEFINE c == f.c
<1>1. Text(k) /\ Good(f, k, S) /\ Rel(S) /\ Common(S) /\ Heeded(S, f)
  BY DEF Facing, Rel
<1>2. c \in Comps /\ c \in S.base.alive
  BY <1>1 DEF Good, GoodSync, GoodLost
<1>3. /\ events[c] \in Seq(EventsOf(c)) /\ (i # 0 <=> Sees(events[c], f.wanted))
      /\ (i # 0 => i \in 1 .. Len(events[c]) /\ events[c][i] \in f.wanted)
  <2>1. events[c] \in Seq(EventsOf(c))
    BY <1>1, <1>2, ListsAre
  <2>2. i = Find(c, f.wanted)
    OBVIOUS
  <2> DEFINE wanted == f.wanted
  <2> HIDE DEF c, wanted
  <2>3. i = Find(c, wanted)
    BY <2>2 DEF wanted
  <2>4. /\ (i # 0 <=> Sees(events[c], wanted))
        /\ (i # 0 => i \in 1 .. Len(events[c]) /\ events[c][i] \in wanted)
    BY <2>1, <2>3, FindIs
  <2> QED
    BY <2>1, <2>4 DEF wanted
<1>4. i # 0 => TakeEvent(c, i) /\ (flags' = flags \/ flags' = Lower(c, FlagOf(events[c][i])))
  OBVIOUS
<1>5. CASE S.doom
  <2>1. S.told \in Comps \cup {None}
    BY <1>1, <1>5 DEF Rel, Blamed
  <2>2. CASE i = 0
    <3>1. <<k, Lost(-1, S.told, S.base)>> \in Nexts(f, k, S)
      BY <1>5 DEF Nexts, NextsLost
    <3>2. Heard(S)
      <4>1. ASSUME S.told # None, S.told = c, CommandError \subseteq f.wanted
            PROVE  Unreported(S.told)
        BY <1>3, <2>2, <4>1 DEF Unreported, Sees
      <4>2. S.told # None => Unreported(S.told) \/ (c = S.told /\ CommandError \subseteq f.wanted)
        BY <1>1, <1>5 DEF Heeded
      <4> QED
        BY <1>5, <4>1, <4>2 DEF Heard
    <3>3. ret' = -1 /\ UNCHANGED lists /\ -1 \in -5 .. 0
      BY <2>2
    <3> QED
      BY <1>1, <1>5, <2>1, <3>1, <3>2, <3>3, LostOnwards
  <2>3. CASE i # 0
    <3>1. <<k, Lost(0, None, S.base)>> \in Nexts(f, k, S)
      BY <1>5 DEF Nexts, NextsLost
    <3>2. ret' = 0 /\ 0 \in -5 .. 0
      BY <2>3
    <3> HIDE DEF c
    <3> QED
      BY <1>1, <1>2, <1>3, <1>4, <1>5, <2>3, <3>1, <3>2, LostTake
  <2> QED
    BY <2>2, <2>3
<1>6. CASE ~S.doom
  <2>0. S.sent[c] = NoCommand /\ f.wanted = AnyError /\ Heard(S)
    <3>1. S.sent[c] = NoCommand /\ f.wanted = AnyError
      BY <1>1, <1>6 DEF Good, GoodSync
    <3>2. Heard(S)
      BY <1>1, <1>6 DEF Heard, Heeded
    <3> QED
      BY <3>1, <3>2
  <2>1. \A r \in {0, -1} :
          <<k, Sync(r, S.sent, S.related, S.masked, S.base, S.world)>> \in Nexts(f, k, S)
    BY <1>6 DEF Nexts, NextsSync
  <2>2. CASE i = 0
    <3>1. <<k, Sync(-1, S.sent, S.related, S.masked, S.base, S.world)>> \in Nexts(f, k, S)
      BY <2>1
    <3>3. ret' = -1 /\ UNCHANGED lists /\ -1 \in -5 .. 0
      BY <2>2
    <3> QED
      BY <1>1, <1>6, <2>0, <3>1, <3>3, SyncOnwards
  <2>3. CASE i # 0
    <3> DEFINE T == Sync(0, S.sent, S.related, S.masked, S.base, S.world)
    <3>1. <<k, T>> \in Nexts(f, k, S)
      BY <2>1
    <3>2. ret' = 0 /\ 0 \in -5 .. 0
      BY <2>3
    <3>3. T = Sync(0, S.sent, S.related, S.masked, S.base, S.world)
      OBVIOUS
    <3> HIDE DEF c, T
    <3> QED
      BY <1>1, <1>2, <1>3, <1>4, <1>6, <2>0, <2>3, <3>1, <3>2, <3>3, QuietOnwards
  <2> QED
    BY <2>2, <2>3
<1> QED
  BY <1>5, <1>6

LEMMA StepSettings ==
  ASSUME NEW S, NEW f, NEW k, Facing(S, f, k), f.do = "settings", NEW i,
         i = Find(video_decode, SettingsChanged(131)),
         ~port_setting_changed /\ i # 0 =>
           TakeEvent(video_decode, i) /\ port_setting_changed' = TRUE /\ todo' = Connect \o k,
         ~(~port_setting_changed /\ i # 0) =>
           todo' = k /\ UNCHANGED <<spare, events, port_setting_changed>>,
         Going', UNCHANGED <<core, flags, masked, related, inList, ret, late>>
  PROVE  IInv'
<1> DEFINE c == video_decode
<1>1. Text(k) /\ Good(f, k, S) /\ Rel(S) /\ Common(S) /\ Heard(S)
  BY DEF Facing, Rel
<1>2. ~S.doom
  BY <1>1 DEF Good, GoodLost
<1>3. S.sent[c] = NoCommand /\ c \in Comps /\ InStep(S)
  <2>1. c \in Comps
    BY ComponentsAssumption DEF Components
  <2> QED
    BY <1>1, <1>2, <2>1 DEF Good, GoodSync, Rel
<1>4. ret = S.ret /\ ret \in -5 .. 0
  BY <1>1 DEF Common, Result
<1>5. CASE ~(~port_setting_changed /\ i # 0)
  <2>1. <<k, S>> \in Nexts(f, k, S)
    BY <1>2 DEF Nexts, NextsSync
  <2>2. todo' = k /\ UNCHANGED <<core, lists, masked, related, inList, ret, late, port_setting_changed>>
    BY <1>5 DEF lists
  <2> QED
    BY <1>1, <2>1, <2>2, StillOnwards
<1>6. CASE ~port_setting_changed /\ i # 0
  <2> DEFINE w == Sized(S.world)
             T == Sync(S.ret, S.sent, S.related, S.masked, S.base, w)
  <2>1. <<Connect \o k, T>> \in Nexts(f, k, S)
    <3>1. ~S.world.seen
      BY <1>3, <1>6 DEF InStep, Copied
    <3> QED
      BY <1>2, <3>1 DEF Nexts, NextsSync
  <2>2. i \in 1 .. Len(events[c])
    <3>1. events[c] \in Seq(EventsOf(c))
      BY <1>1, <1>3, ListsAre
    <3>2. i = Find(c, SettingsChanged(131))
      OBVIOUS
    <3> HIDE DEF c
    <3> QED
      BY <1>6, <3>1, <3>2, FindIs
  <2>3. c \in S.base.alive
    <3>1. ASSUME events[c] = <<>> PROVE FALSE
      BY <2>2, <3>1
    <3> QED
      BY <1>3, <3>1 DEF InStep, Unborn
  <2>4. Text(Connect \o k)
    BY <1>1, TextConnect, TextConcat
  <2> DEFINE q == Connect \o k
  <2>5. /\ T = Sync(S.ret, S.sent, S.related, S.masked, S.base, w) /\ ret' = S.ret
        /\ S.ret \in -5 .. 0 /\ w = Sized(S.world) /\ port_setting_changed' = TRUE
        /\ TakeEvent(c, i) /\ todo' = q /\ flags' = flags
    BY <1>4, <1>6
  <2> HIDE DEF c, T, w, q
  <2> QED
    BY <1>1, <1>2, <1>3, <2>1, <2>2, <2>3, <2>4, <2>5, QuietOnwards DEF q
<1> QED
  BY <1>5, <1>6

LEMMA EndsCommand ==
  ASSUME NEW c, NEW f, NEW e \in Ends(f)
  PROVE  /\ e \notin Harmless(c)
         /\ e = Told(f.cmd, f.n) \/ e \in CommandError
<1>1. e = Told(f.cmd, f.n) \/ e \in CommandError
  BY DEF Ends, Complete, Told
<1>2. CASE e = Told(f.cmd, f.n)
  <2>1. e.e = "CmdComplete"
    BY <1>2 DEF Told, Event
  <2> QED
    BY <1>2, <2>1, HarmlessAre
<1>3. CASE e \in CommandError
  BY <1>3, CommandsEnd
<1> QED
  BY <1>1, <1>2, <1>3

LEMMA OutcomeIs ==
  ASSUME NEW x
  PROVE  /\ Outcome(x) \in {0, -1} /\ Outcome(x) \in -5 .. 0
         /\ Outcome(SameStateError) = 0 /\ Outcome(Refusal) = -1
         /\ \A cmd, n : Outcome(Told(cmd, n)) = 0
<1>1. Outcome(x) \in {0, -1}
  BY DEF Outcome
<1>2. SameStateError.n1 = "SameState"
  BY DEF SameStateError, Event
<1>3. Outcome(SameStateError) = 0
  BY <1>2 DEF Outcome
<1>4. Refusal.e = "Error" /\ Refusal.n1 = "InsufficientResources"
  BY DEF Refusal, Event
<1>5. Outcome(Refusal) = -1
  BY <1>4 DEF Outcome
<1>6. ASSUME NEW cmd, NEW n PROVE Outcome(Told(cmd, n)) = 0
  <2>1. Told(cmd, n).e = "CmdComplete"
    BY DEF Told, Event
  <2> QED
    BY <2>1 DEF Outcome
<1>7. Outcome(x) \in -5 .. 0
  BY <1>1
<1> QED
  BY <1>1, <1>3, <1>5, <1>6, <1>7

LEMMA ToldIs ==
  ASSUME NEW cmd, NEW n
  PROVE  Told(cmd, n) \notin CommandError /\ Told(cmd, n) # SameStateError /\ Told(cmd, n) # Refusal
<1>1. Told(cmd, n).e = "CmdComplete"
  BY DEF Told, Event
<1>2. \A x \in CommandError : x.e = "Error"
  BY DEF CommandError, ErrorsWith, Event
<1>3. SameStateError.e = "Error" /\ Refusal.e = "Error"
  BY DEF SameStateError, Refusal, Event
<1> QED
  BY <1>1, <1>2, <1>3

(* The command of c is over, and the last of it was taken off the list.    *)
LEMMA OverRel ==
  ASSUME NEW S, ~S.doom, Rel(S), NEW c \in S.base.alive, Mine(c) = {},
         NEW i \in 1 .. Len(events[c]), TakeEvent(c, i), Clean(RemoveAt(events[c], i), c),
         NEW y, flags' = Lower(c, y), NEW w, NEW r \in -5 .. 0, ret' = r, NEW T,
         T = Sync(r, Put(S.sent, c, NoCommand), S.related, S.masked, S.base, w),
         w.seen = S.world.seen, w.hand = S.world.hand, w.tunnels = S.world.tunnels,
         w.supplied = S.world.supplied,
         \A d \in Comps : d # c => /\ w.state[d] = S.world.state[d]
                                   /\ w.enabled[d] = S.world.enabled[d],
         w.state[c] = state[c], w.enabled[c] = enabled[c],
         w.spoiled \subseteq Comps, w.spoiled \subseteq S.world.spoiled \cup Suspects(S),
         failures = 0 /\ "ERROR" \in flags[c] => c = video_decode \/ y = "ERROR",
         UNCHANGED <<core, masked, related, inList, late, port_setting_changed>>
  PROVE  Rel(T)'
<1>1. Common(S) /\ InStep(S) /\ c \in Comps
  BY AliveAre DEF Rel
<1> DEFINE g == Put(S.sent, c, NoCommand)
<1>2. /\ T.doom = FALSE /\ T.ret = r /\ T.sent = g /\ T.related = S.related
      /\ T.masked = S.masked /\ T.base = S.base /\ T.world = w
  BY DEF Sync
<1>3. \A d \in Comps : g[d] = IF d = c THEN NoCommand ELSE S.sent[d]
  BY DEF Put
<1>4. NoCommand.cmd = "none"
  BY DEF NoCommand, Command
<1> HIDE DEF g
<1>5. /\ flags' = [d \in Comps |-> flags'[d]] /\ flags'[c] = flags[c] \ {y}
      /\ \A d \in Comps : flags'[d] \subseteq flags[d] /\ (d # c => flags'[d] = flags[d])
  BY <1>1, Lowered
<1>6. /\ Lists(S)' /\ events'[c] = RemoveAt(events[c], i)
      /\ \A d \in Comps : d # c => events'[d] = events[d]
  BY <1>1, <1>5, Taken
<1>7. UNCHANGED <<coreInit, nActiveHandles, state, enabled, pending, tunnels, supplied, held,
                  orphans, failures>>
  BY DEF core
<1>8. Common(T)'
  <2>1. Lists(T)'
    BY <1>2, <1>6 DEF Lists
  <2>2. Result(T)'
    BY <1>2, ResultIs
  <2> QED
    BY <1>1, <1>2, <2>1, <2>2, KeepCommon
<1>9. ASSUME NEW d \in Comps PROVE Fits(T, d)'
  <2>1. Mine(d)' = Mine(d) /\ Fits(S, d)
    BY <1>1, <1>7 DEF Mine, InStep
  <2>2. CASE d = c
    <3>1. T.sent[c] = NoCommand /\ Clean(events[c], c)'
      BY <1>1, <1>2, <1>3, <1>6
    <3>2. Waiting(T, c)'
      BY <1>2, <1>7, <2>1, <2>2, <3>1 DEF Waiting
    <3> QED
      BY <2>2, <3>2 DEF Fits
  <2>3. CASE d # c
    BY <1>2, <1>3, <1>6, <1>7, <2>1, <2>3, FitsSame
  <2> QED
    BY <2>2, <2>3
<1>10. Copied(T)' /\ Unused(T)' /\ InHand(T)'
  BY <1>1, <1>2, <1>7 DEF InStep, Copied, Unused, InHand
<1>11. Sendings(T)' /\ Partnered(T)' /\ Covered(T)'
  BY <1>1, <1>2, <1>3, <1>4 DEF InStep, Sendings, Partnered, Covered
<1>12. Excused(T)'
  <2> DEFINE A == T.world.spoiled \cup Suspects(T)'
             B == S.world.spoiled \cup Suspects(S)
  <2>1. Suspects(T)' \subseteq Suspects(S)
    BY <1>2, <1>3, <1>4, <1>6 DEF Suspects
  <2>2. A \subseteq B /\ B \subseteq Comps /\ Cardinality(B) <= failures /\ failures \in Nat
    <3>1. failures \in Nat
      BY <1>1, FailuresNat DEF Common
    <3> QED
      BY <1>1, <1>2, <2>1, <3>1 DEF InStep, Excused, Suspects
  <2> HIDE DEF A, B
  <2>3. Cardinality(A) <= failures
    BY <2>2, CompsFinite, SmallerSet
  <2> QED
    BY <1>2, <1>7, <2>3 DEF Excused, A
<1>13. Unborn(T)'
  BY <1>1, <1>2, <1>6 DEF InStep, Unborn
<1>14. Silent(T)'
  <2>1. Silent(S)
    BY <1>1 DEF InStep
  <2>2. ASSUME failures = 0, NEW d \in Comps, d # video_decode, "ERROR" \in flags'[d]
        PROVE  T.sent[d] # NoCommand /\ One(events[d], d, {SameStateError})'
    <3>1. d # c
      BY <1>5, <2>2
    <3> QED
      BY <1>2, <1>3, <1>5, <1>6, <2>1, <2>2, <3>1 DEF Silent
  <2> QED
    BY <1>7, <2>2 DEF Silent
<1> QED
  BY <1>2, <1>8, <1>9, <1>10, <1>11, <1>12, <1>13, <1>14 DEF Rel, InStep

LEMMA OverHeard ==
  ASSUME NEW S, NEW c, \A d \in Comps : S.sent[d] # NoCommand => Unreported(d) \/ d = c,
         NEW T, ~T.doom, T.sent = Put(S.sent, c, NoCommand),
         \A d \in Comps : d # c => events'[d] = events[d] /\ flags'[d] = flags[d]
  PROVE  Heard(T)'
<1>1. \A d \in Comps : T.sent[d] = IF d = c THEN NoCommand ELSE S.sent[d]
  BY DEF Put
<1> QED
  BY <1>1 DEF Heard, Unreported

CheckRests(f, i, k) ==
  /\ TakeEvent(f.c, i) /\ flags' = Lower(f.c, FlagOf(events[f.c][i]))
  /\ ret' = Outcome(events[f.c][i]) /\ todo' = k
  /\ UNCHANGED <<core, masked, related, inList, late, port_setting_changed>>

(* What is known of the command that a step waits for.                     *)
LEMMA CheckFacts ==
  ASSUME NEW S, NEW f, NEW k, Facing(S, f, k), f.do = "check", ~S.doom, NEW c, c = f.c,
         NEW x, x = S.sent[c]
  PROVE  /\ c \in Comps /\ c \in S.base.alive /\ x = Command(c, f.cmd, f.n)
         /\ x # NoCommand /\ x.c = c /\ x.cmd = f.cmd /\ x.n = f.n /\ IsCommand(x)
         /\ Typed(c, f.cmd, f.n)
         /\ \A d \in Comps : S.sent[d] # NoCommand => Unreported(d) \/ d = c
         /\ f.other # None => /\ f.other \in Comps /\ f.other # c /\ S.related[f.other] = c
                              /\ S.sent[f.other].cmd = "PortEnable"
<1>1. Good(f, k, S) /\ Heeded(S, f)
  BY DEF Facing
<1>2. /\ c \in Comps /\ c \in S.base.alive /\ x = Command(c, f.cmd, f.n)
      /\ Typed(c, f.cmd, f.n)
      /\ f.other # None => /\ f.other \in Comps /\ f.other # c /\ S.related[f.other] = c
                           /\ S.sent[f.other].cmd = "PortEnable"
  BY <1>1 DEF Good, GoodSync
<1>3. \A d \in Comps : S.sent[d] # NoCommand => Unreported(d) \/ d = c
  BY <1>1 DEF Heeded
<1>4. x # NoCommand /\ x.c = c /\ x.cmd = f.cmd /\ x.n = f.n /\ IsCommand(x)
  BY <1>2, SomeCommand
<1> QED
  BY <1>2, <1>3, <1>4

(* The answer that was expected.                                           *)
LEMMA CheckDone ==
  ASSUME NEW S, NEW f, NEW k, Facing(S, f, k), f.do = "check", ~S.doom, Going',
         NEW i \in 1 .. Len(events[f.c]), CheckRests(f, i, k), events[f.c][i] \in Ends(f),
         Over(S, f.c)
  PROVE  IInv'
<1> DEFINE c == f.c  x == S.sent[c]  s == events[c]  w == After(S.world, x)
           T == Sync(0, Put(S.sent, c, NoCommand), S.related, S.masked, S.base, w)
<1>1. /\ TakeEvent(c, i) /\ flags' = Lower(c, FlagOf(s[i])) /\ ret' = Outcome(s[i])
      /\ todo' = k /\ UNCHANGED <<core, masked, related, inList, late, port_setting_changed>>
  BY DEF CheckRests
<1>2. <<k, T>> \in Nexts(f, k, S)
  BY DEF Nexts, NextsSync
<1>3. /\ x # NoCommand /\ Mine(c) = {} /\ One(s, c, Ended(x)) /\ state[c] = w.state[c]
      /\ enabled[c] = w.enabled[c]
  BY DEF Over
<1>4. s[i] \in Ends(f)
  OBVIOUS
<1>5. /\ Rel(S) /\ Common(S) /\ InStep(S) /\ Text(k)
      /\ \A q, U : <<q, U>> \in Nexts(f, k, S) => Safe(q, U)
  BY DEF Facing, Rel
<1>6. c = f.c /\ x = S.sent[c]
  OBVIOUS
<1>7. T = Sync(0, Put(S.sent, c, NoCommand), S.related, S.masked, S.base, w)
  OBVIOUS
<1>8. i \in 1 .. Len(s)
  OBVIOUS
<1> HIDE DEF T
<1>9. s \in Seq(EventsOf(c))
  <2>1. c \in Comps
    BY CheckFacts
  <2> QED
    BY <1>5, <2>1, ListsAre
<1> HIDE DEF c, x
<1>10. /\ c \in Comps /\ c \in S.base.alive /\ x.c = c
       /\ \A d \in Comps : S.sent[d] # NoCommand => Unreported(d) \/ d = c
  BY <1>6, CheckFacts
<1>11. /\ w.seen = S.world.seen /\ w.hand = S.world.hand /\ w.tunnels = S.world.tunnels
       /\ w.supplied = S.world.supplied /\ w.spoiled = S.world.spoiled
  BY DEF After, World
<1>12. \A d \in Comps : d # c => /\ w.state[d] = S.world.state[d]
                                 /\ w.enabled[d] = S.world.enabled[d]
  BY <1>10 DEF After, World, NewState, NewPorts, Put
<1> HIDE DEF s, w
<1>13. s[i] \notin Harmless(c)
  BY <1>4, EndsCommand
<1>14. s[i] \in Ended(x) /\ Clean(RemoveAt(s, i), c)
  BY <1>3, <1>8, <1>9, <1>13, OneRemoved
<1>15. ret' = 0 /\ 0 \in -5 .. 0
  BY <1>1, <1>14, OutcomeIs DEF Ended
<1>16. failures = 0 /\ "ERROR" \in flags[c] => c = video_decode \/ FlagOf(s[i]) = "ERROR"
  <2>1. ASSUME failures = 0, "ERROR" \in flags[c], c # video_decode
        PROVE  FlagOf(s[i]) = "ERROR"
    <3>1. One(s, c, {SameStateError})
      BY <1>5, <1>10, <2>1 DEF InStep, Silent, s
    <3>2. s[i] = SameStateError
      BY <1>8, <1>9, <1>13, <3>1, OneRemoved
    <3>3. SameStateError.e = "Error"
      BY DEF SameStateError, Event
    <3> QED
      BY <3>2, <3>3, ErrorFlag
  <2> QED
    BY <2>1
<1> DEFINE y == FlagOf(s[i])
<1>17. flags' = Lower(c, y) /\ (failures = 0 /\ "ERROR" \in flags[c] => c = video_decode \/ y = "ERROR")
  BY <1>1, <1>16
<1> HIDE DEF y
<1>18. w.spoiled \subseteq Comps /\ w.spoiled \subseteq S.world.spoiled \cup Suspects(S)
  BY <1>5, <1>11 DEF InStep, Excused
<1>19. Rel(T)'
  BY <1>1, <1>3, <1>5, <1>7, <1>8, <1>10, <1>11, <1>12, <1>14, <1>15, <1>17, <1>18, OverRel
     DEF s
<1>20. T.doom = FALSE /\ T.sent = Put(S.sent, c, NoCommand)
  BY <1>7 DEF Sync
<1>21. \A d \in Comps : d # c => events'[d] = events[d] /\ flags'[d] = flags[d]
  BY <1>1, <1>5, <1>8, <1>10, <1>17, Lowered, Taken DEF s
<1>22. Heard(T)'
  BY <1>10, <1>20, <1>21, OverHeard
<1> QED
  BY <1>1, <1>2, <1>5, <1>19, <1>22, TextOnwards

(* A refusal: of a change of state it is the caller that knows, and the    *)
(* program does not look; any other ends in an assertion.                  *)
LEMMA CheckRefused ==
  ASSUME NEW S, NEW f, NEW k, Facing(S, f, k), f.do = "check", ~S.doom, Going',
         NEW i \in 1 .. Len(events[f.c]), CheckRests(f, i, k), events[f.c][i] \in Ends(f),
         Refused(S, f.c)
  PROVE  IInv'
<1> DEFINE c == f.c  x == S.sent[c]  s == events[c]  w == Spoilt(S.world, c)
           T == Sync(-1, Put(S.sent, c, NoCommand), S.related, S.masked, S.base, w)
           U == Lost(-1, c, S.base)
<1>1. /\ TakeEvent(c, i) /\ flags' = Lower(c, FlagOf(s[i])) /\ ret' = Outcome(s[i])
      /\ todo' = k /\ UNCHANGED <<core, masked, related, inList, late, port_setting_changed>>
  BY DEF CheckRests
<1>2. IF f.cmd = "StateSet" /\ f.other = None THEN <<k, T>> \in Nexts(f, k, S)
      ELSE <<k, U>> \in Nexts(f, k, S)
  BY DEF Nexts, NextsSync
<1>3. /\ x # NoCommand /\ Mine(c) = {} /\ One(s, c, {Refusal}) /\ state[c] = S.world.state[c]
      /\ enabled[c] = S.world.enabled[c] /\ failures > 0
  BY DEF Refused
<1>4. s[i] \in Ends(f)
  OBVIOUS
<1>5. /\ Rel(S) /\ Common(S) /\ InStep(S) /\ Text(k)
      /\ \A q, V : <<q, V>> \in Nexts(f, k, S) => Safe(q, V)
  BY DEF Facing, Rel
<1>6. c = f.c /\ x = S.sent[c]
  OBVIOUS
<1>7. /\ T = Sync(-1, Put(S.sent, c, NoCommand), S.related, S.masked, S.base, w)
      /\ U = Lost(-1, c, S.base)
  OBVIOUS
<1>8. i \in 1 .. Len(s)
  OBVIOUS
<1> HIDE DEF T, U
<1>9. s \in Seq(EventsOf(c))
  <2>1. c \in Comps
    BY CheckFacts
  <2> QED
    BY <1>5, <2>1, ListsAre
<1> HIDE DEF c, x
<1>10. /\ c \in Comps /\ c \in S.base.alive /\ x.c = c /\ x.cmd = f.cmd
       /\ \A d \in Comps : S.sent[d] # NoCommand => Unreported(d) \/ d = c
  BY <1>6, CheckFacts
<1>11. /\ w.seen = S.world.seen /\ w.hand = S.world.hand /\ w.tunnels = S.world.tunnels
       /\ w.supplied = S.world.supplied /\ w.spoiled = S.world.spoiled \cup {c}
       /\ w.state = S.world.state /\ w.enabled = S.world.enabled
  BY DEF Spoilt, World
<1> HIDE DEF s, w
<1>13. s[i] \notin Harmless(c)
  BY <1>4, EndsCommand
<1>14. s[i] = Refusal /\ Clean(RemoveAt(s, i), c)
  BY <1>3, <1>8, <1>9, <1>13, OneRemoved
<1>15. ret' = -1 /\ -1 \in -5 .. 0
  BY <1>1, <1>14, OutcomeIs
<1> DEFINE y == FlagOf(s[i])
<1>17. flags' = Lower(c, y) /\ (failures = 0 /\ "ERROR" \in flags[c] => c = video_decode \/ y = "ERROR")
  BY <1>1, <1>3
<1> HIDE DEF y
<1>18. /\ Lists(S)' /\ events'[c] = RemoveAt(s, i)
       /\ \A d \in Comps : d # c => events'[d] = events[d] /\ flags'[d] = flags[d]
  <2>1. /\ flags' = [d \in Comps |-> flags'[d]]
        /\ \A d \in Comps : d # c => flags'[d] = flags[d]
    BY <1>5, <1>10, <1>17, Lowered
  <2> QED
    BY <1>1, <1>5, <1>8, <1>10, <2>1, Taken DEF s
<1>19. CASE f.cmd = "StateSet" /\ f.other = None
  <2>1. c \in Suspects(S)
    <3>1. Sees(s, {Refusal})
      BY <1>8, <1>14 DEF Sees
    <3> QED
      BY <1>6, <1>10, <1>19, <3>1 DEF Suspects, s
  <2>2. w.spoiled \subseteq Comps /\ w.spoiled \subseteq S.world.spoiled \cup Suspects(S)
    BY <1>5, <1>10, <1>11, <2>1 DEF InStep, Excused
  <2>3. Rel(T)'
    <3>1. \A d \in Comps : d # c => /\ w.state[d] = S.world.state[d]
                                    /\ w.enabled[d] = S.world.enabled[d]
      BY <1>11
    <3>2. w.state[c] = state[c] /\ w.enabled[c] = enabled[c]
      BY <1>3, <1>11
    <3> QED
      BY <1>1, <1>3, <1>5, <1>7, <1>8, <1>10, <1>11, <1>14, <1>15, <1>17, <2>2, <3>1, <3>2, OverRel
         DEF s
  <2>4. T.doom = FALSE /\ T.sent = Put(S.sent, c, NoCommand)
    BY <1>7 DEF Sync
  <2>5. Heard(T)'
    BY <1>10, <1>18, <2>4, OverHeard
  <2> QED
    BY <1>1, <1>2, <1>5, <1>19, <2>3, <2>5, TextOnwards
<1>20. CASE ~(f.cmd = "StateSet" /\ f.other = None)
  <2>1. Rel(U)'
    <3>1. (failures > 0 \/ late = TRUE)'
      BY <1>1, <1>3 DEF core
    <3>2. c \in Comps \cup {None}
      BY <1>10
    <3> QED
      BY <1>1, <1>5, <1>7, <1>15, <1>18, <3>1, <3>2, LostRel
  <2>2. Heard(U)'
    <3>1. U.doom = TRUE /\ U.told = c
      BY <1>7 DEF Lost
    <3>2. Unreported(c)'
      <4>1. ~Sees(RemoveAt(s, i), CommandError)
        BY <1>14, CommandsEnd, CleanSees
      <4> QED
        BY <1>18, <4>1 DEF Unreported
    <3> QED
      BY <3>1, <3>2 DEF Heard
  <2> QED
    BY <1>1, <1>2, <1>5, <1>20, <2>1, <2>2, TextOnwards
<1> QED
  BY <1>19, <1>20

(* The other component failed: it was refused the command it was sent.     *)
LEMMA CheckOther ==
  ASSUME NEW S, NEW f, NEW k, Facing(S, f, k), f.do = "check", ~S.doom, Going',
         f.other # None, Sees(events[f.other], CommandError), todo' = k, ret' = -2,
         UNCHANGED <<core, lists, masked, related, inList, late, port_setting_changed>>
  PROVE  IInv'
<1> DEFINE o == f.other  s == events[o]
           U == Lost(-2, None, S.base)
<1>1. <<k, U>> \in Nexts(f, k, S)
  BY DEF Nexts, NextsSync
<1>2. U = Lost(-2, None, S.base)
  OBVIOUS
<1> HIDE DEF U
<1>3. /\ Rel(S) /\ Common(S) /\ InStep(S) /\ Text(k)
      /\ \A q, V : <<q, V>> \in Nexts(f, k, S) => Safe(q, V)
  BY DEF Facing, Rel
<1>4. o \in Comps /\ S.sent[o].cmd = "PortEnable"
  BY CheckFacts
<1>5. Sees(s, CommandError)
  OBVIOUS
<1> HIDE DEF o
<1>6. failures > 0
  <2>1. Fits(S, o)
    BY <1>3, <1>4 DEF InStep
  <2>2. ~Clean(s, o)
    BY <1>5, CommandsEnd, CleanSees
  <2>3. CASE Over(S, o)
    <3>1. One(s, o, Ended(S.sent[o]))
      BY <2>3 DEF Over
    <3>2. Ended(S.sent[o]) = {Told(S.sent[o].cmd, S.sent[o].n)}
      BY <1>4 DEF Ended
    <3>3. PICK i \in 1 .. Len(s) : s[i] \in CommandError
      BY <1>5 DEF Sees
    <3>4. s \in Seq(EventsOf(o))
      BY <1>3, <1>4, ListsAre
    <3>5. s[i] \notin Harmless(o)
      BY <3>3, CommandsEnd
    <3> HIDE DEF s
    <3>6. s[i] \in Ended(S.sent[o])
      BY <3>1, <3>3, <3>4, <3>5, OneRemoved
    <3> QED
      BY <3>2, <3>3, <3>6, ToldIs
  <2> QED
    BY <2>1, <2>2, <2>3 DEF Fits, Waiting, Refused
<1>7. Rel(U)'
  <2>1. (failures > 0 \/ late = TRUE)' /\ Lists(S)'
    BY <1>3, <1>6, KeepLists DEF core, Common
  <2>2. -2 \in -5 .. 0 /\ None \in Comps \cup {None}
    OBVIOUS
  <2> QED
    BY <1>2, <1>3, <2>1, <2>2, LostRel
<1>8. Heard(U)'
  <2>1. U.doom = TRUE /\ U.told = None
    BY <1>2 DEF Lost
  <2> QED
    BY <2>1 DEF Heard
<1> QED
  BY <1>1, <1>3, <1>7, <1>8, TextOnwards

LEMMA TextTodo ==
  ASSUME NEW S, NEW f, NEW k, Facing(S, f, k), f.do \in {"check", "look"}
  PROVE  Text(<<f>> \o k)
<1>1. Text(k)
  BY DEF Facing
<1>2. Text(<<f>>)
  <2>1. f.do \notin Branches /\ f.do # "supply" /\ f.do # "call"
    BY DEF Branches
  <2>2. f.do \notin {"suspend", "look for error", "woken", "queue"}
    OBVIOUS
  <2> QED
    BY <2>1, <2>2, TextOne
<1> QED
  BY <1>1, <1>2, TextConcat

(* A sleep that begins.                                                    *)
LEMMA SleepOnwards ==
  ASSUME NEW S, NEW a, NEW q, a.do = "suspend", Text(q), q # <<>>, Safe(<<a>> \o q, S),
         Rel(S)', Heard(S)', Going', todo' = <<a>> \o q,
         S.doom => S.told = None \/ Head(q).do = "if got",
         (flags[a.c] \cap a.mask = {} => ~Overdue(a, q))'
  PROVE  IInv'
<1>1. IsSeq(q)
  BY TextIsSeq
<1> DEFINE p == <<a>> \o q
<1>2. p # <<>> /\ Head(p) = a /\ Tail(p) = q
  BY <1>1, SeqPush
<1> HIDE DEF p
<1>3. Heeded(S, a)'
  BY DEF Heard, Heeded
<1>4. Before(S, a, q)'
  BY DEF Before
<1>5. AtTop(S, p)' /\ Shaped(p)
  BY <1>2, <1>3, <1>4 DEF AtTop, Shaped
<1>6. todo' = p /\ Safe(p, S)
  BY DEF p
<1> QED
  BY <1>5, <1>6, Onwards

LEMMA AwaitsIs ==
  ASSUME NEW f
  PROVE  Awaits(f).do = "suspend" /\ Awaits(f).c = f.c
BY DEF Awaits, Asleep

LEMMA CheckSleeps ==
  ASSUME NEW S, NEW f, NEW k, Facing(S, f, k), f.do = "check", Going',
         ~Sees(events[f.c], Ends(f)),
         f.other # None => ~Sees(events[f.other], CommandError),
         todo' = <<Awaits(f)>> \o (<<f>> \o k),
         UNCHANGED <<core, lists, masked, related, inList, ret, late, port_setting_changed>>
  PROVE  IInv'
<1> DEFINE a == Awaits(f)  q == <<f>> \o k
<1>1. /\ Rel(S) /\ Common(S) /\ Good(f, k, S) /\ Heeded(S, f)
      /\ \A p, V : <<p, V>> \in Nexts(f, k, S) => Safe(p, V)
  BY DEF Facing, Rel
<1>2. a.do = "suspend" /\ a.c = f.c
  BY AwaitsIs
<1>3. Text(q) /\ q # <<>> /\ Head(q) = f
  <2>1. IsSeq(k)
    BY DEF Facing
  <2> QED
    BY <2>1, TextTodo, SeqPush
<1>4. ~Sees(events[f.c], CommandError)
  BY DEF Sees, Ends
<1>5. UNCHANGED <<events, flags, failures, late>>
  BY DEF lists, core
<1>6. todo' = <<a>> \o q
  OBVIOUS
<1>7. S.doom => <<<<a>> \o q, Lost(S.ret, None, S.base)>> \in Nexts(f, k, S)
  BY DEF Nexts, NextsLost
<1>8. ~S.doom => <<<<a>> \o q, S>> \in Nexts(f, k, S)
  BY DEF Nexts, NextsSync
<1> HIDE DEF a, q
<1>9. (flags[a.c] \cap a.mask = {} => ~Overdue(a, q))'
  <2>1. ~Overdue(a, q)'
    BY <1>2, <1>3, <1>5 DEF Overdue
  <2> QED
    BY <2>1
<1>10. CASE S.doom
  <2> DEFINE T == Lost(S.ret, None, S.base)
  <2>0. T = Lost(S.ret, None, S.base)
    OBVIOUS
  <2>1. T.doom = TRUE /\ T.told = None
    BY DEF Lost
  <2>2. Safe(<<a>> \o q, T)
    BY <1>1, <1>7, <1>10
  <2> HIDE DEF T
  <2>3. Rel(T)'
    <3>1. ret' = S.ret /\ S.ret \in -5 .. 0
      BY <1>1 DEF Common, Result
    <3>2. (failures > 0 \/ late = TRUE)' /\ Lists(S)'
      BY <1>1, <1>5, <1>10, KeepLists DEF Rel, Blamed, Common
    <3>3. None \in Comps \cup {None}
      OBVIOUS
    <3> QED
      BY <1>1, <2>0, <3>1, <3>2, <3>3, LostRel
  <2>4. Heard(T)'
    BY <2>1 DEF Heard
  <2> QED
    BY <1>2, <1>3, <1>6, <1>9, <2>1, <2>2, <2>3, <2>4, SleepOnwards
<1>11. CASE ~S.doom
  <2>1. Safe(<<a>> \o q, S)
    BY <1>1, <1>8, <1>11
  <2>2. Rel(S)'
    BY <1>1, StayRel
  <2>3. Heard(S)'
    <3>1. ASSUME NEW d \in Comps, S.sent[d] # NoCommand PROVE Unreported(d)'
      <4>1. Unreported(d) \/ d = f.c
        BY <1>1, <1>11, <3>1 DEF Heeded
      <4> QED
        BY <1>4, <1>5, <4>1 DEF Unreported
    <3> QED
      BY <1>11, <3>1 DEF Heard
  <2> QED
    BY <1>2, <1>3, <1>6, <1>9, <1>11, <2>1, <2>2, <2>3, SleepOnwards
<1> QED
  BY <1>10, <1>11

LEMMA StepCheck ==
  ASSUME NEW S, NEW f, NEW k, Facing(S, f, k), f.do = "check", Going',
         NEW i, i = Find(f.c, Ends(f)),
         \/ i # 0 /\ CheckRests(f, i, k)
         \/ /\ i = 0 /\ f.other # None /\ Find(f.other, CommandError) # 0
            /\ ret' = -2 /\ todo' = k
            /\ UNCHANGED <<core, lists, masked, related, inList, late, port_setting_changed>>
         \/ /\ i = 0 /\ ~(f.other # None /\ Find(f.other, CommandError) # 0)
            /\ todo' = <<Awaits(f)>> \o (<<f>> \o k)
            /\ UNCHANGED <<core, lists, masked, related, inList, ret, late, port_setting_changed>>
  PROVE  IInv'
<1> DEFINE c == f.c  Y == Ends(f)
<1>1. /\ Rel(S) /\ Common(S) /\ Good(f, k, S) /\ Text(k)
      /\ \A p, V : <<p, V>> \in Nexts(f, k, S) => Safe(p, V)
  BY DEF Facing, Rel
<1>2. c \in Comps /\ c \in S.base.alive /\ (S.doom => f.other = None)
      /\ (f.other # None => f.other \in Comps)
  BY <1>1 DEF Good, GoodSync, GoodLost
<1>3. /\ (i # 0 => i \in 1 .. Len(events[c]) /\ events[c][i] \in Y)
      /\ (i # 0 <=> Sees(events[c], Y))
  <2>1. events[c] \in Seq(EventsOf(c))
    BY <1>1, <1>2, ListsAre
  <2>2. i = Find(c, Y)
    OBVIOUS
  <2> HIDE DEF c, Y
  <2> QED
    BY <2>1, <2>2, FindIs
<1>4. f.other # None => (Find(f.other, CommandError) # 0 <=> Sees(events[f.other], CommandError))
  <2> DEFINE o == f.other
  <2>1. ASSUME o # None PROVE Find(o, CommandError) # 0 <=> Sees(events[o], CommandError)
    <3>1. o \in Comps
      BY <1>2, <2>1
    <3> HIDE DEF o
    <3>2. events[o] \in Seq(EventsOf(o))
      BY <1>1, <3>1, ListsAre
    <3> QED
      BY <3>2, FindIs
  <2> QED
    BY <2>1
<1>5. CASE i # 0 /\ CheckRests(f, i, k)
  <2>1. CASE S.doom
    <3> DEFINE e == events[c][i]
               r == Outcome(e)
    <3>1. /\ TakeEvent(c, i) /\ flags' = Lower(c, FlagOf(e)) /\ ret' = r
          /\ todo' = k /\ UNCHANGED <<core, masked, related, inList, late, port_setting_changed>>
      BY <1>5 DEF CheckRests
    <3> HIDE DEF e
    <3>2. r \in {0, -1} /\ r \in -5 .. 0
      BY OutcomeIs
    <3> HIDE DEF r
    <3>3. <<k, Lost(r, None, S.base)>> \in Nexts(f, k, S)
      BY <2>1, <3>2 DEF Nexts, NextsLost
    <3> HIDE DEF c
    <3> QED
      BY <1>1, <1>2, <1>3, <1>5, <2>1, <3>1, <3>2, <3>3, LostTake
  <2>2. CASE ~S.doom
    <3>1. Fits(S, c)
      BY <1>1, <1>2, <2>2 DEF Rel, InStep
    <3>2. ~Clean(events[c], c)
      BY <1>3, <1>5, EndsCommand DEF Clean
    <3>3. Over(S, c) \/ Refused(S, c)
      BY <3>1, <3>2 DEF Fits, Waiting
    <3> QED
      BY <1>3, <1>5, <2>2, <3>3, CheckDone, CheckRefused
  <2> QED
    BY <2>1, <2>2
<1>6. CASE /\ i = 0 /\ f.other # None /\ Find(f.other, CommandError) # 0
           /\ ret' = -2 /\ todo' = k
           /\ UNCHANGED <<core, lists, masked, related, inList, late, port_setting_changed>>
  BY <1>2, <1>4, <1>6, CheckOther
<1>7. CASE /\ i = 0 /\ ~(f.other # None /\ Find(f.other, CommandError) # 0)
           /\ todo' = <<Awaits(f)>> \o (<<f>> \o k)
           /\ UNCHANGED <<core, lists, masked, related, inList, ret, late, port_setting_changed>>
  BY <1>3, <1>4, <1>7, CheckSleeps
<1> QED
  BY <1>5, <1>6, <1>7

(* A sleep that ends, with a flag or for want of one.                      *)
SleepEnds(f, k) ==
  /\ todo' = k /\ UNCHANGED <<core, spare, events, masked, related, inList, ret, port_setting_changed>>
  /\ \/ /\ UNCHANGED late /\ flags' = [flags EXCEPT ![f.c] = @ \ f.mask]
        /\ got' # {} /\ flags[f.c] \cap f.mask \subseteq got'
        /\ "ERROR" \in got' => "ERROR" \in flags[f.c]
     \/ f.timeout /\ got' = {} /\ late' = TRUE /\ flags' = flags

LEMMA WokenRel ==
  ASSUME NEW S, Rel(S), NEW f, NEW k, SleepEnds(f, k)
  PROVE  /\ Rel(S)' /\ \A d \in Comps : d # f.c => flags'[d] = flags[d]
<1> DEFINE c == f.c  m == f.mask
<1>1. Common(S) /\ Lists(S) /\ flags = [d \in Comps |-> flags[d]]
  BY DEF Rel, Common, Lists
<1>2. /\ flags' = [flags EXCEPT ![c] = @ \ m] \/ flags' = flags
      /\ UNCHANGED <<coreInit, nActiveHandles, state, enabled, pending, tunnels, supplied, held,
                     orphans, failures, spare, events, masked, related, inList, ret,
                     port_setting_changed>>
      /\ UNCHANGED late \/ late' = TRUE
  BY DEF SleepEnds, core
<1>3. UNCHANGED core
  BY DEF SleepEnds
<1> HIDE DEF c, m
<1>4. /\ flags' = [d \in Comps |-> flags'[d]] /\ \A d \in Comps : flags'[d] \subseteq flags[d]
      /\ \A d \in Comps : d # c => flags'[d] = flags[d]
  BY <1>1, <1>2
<1>5. Lists(S)'
  BY <1>1, <1>2, <1>4 DEF Lists
<1>6. Common(S)'
  <2>1. Handles(S)' /\ States' /\ Asked(S)'
    <3>1. Handles(S) /\ States /\ Asked(S) /\ pending' \subseteq pending
      BY <1>1, <1>2 DEF Common
    <3> QED
      BY <1>2, <3>1, KeepHandles, KeepStates, KeepAsked
  <2>2. Buffers' /\ Result(S)'
    BY <1>1, <1>2, KeepBuffers DEF Common, Result
  <2>3. Others'
    BY <1>1, <1>2 DEF Common, Others
  <2> QED
    BY <1>5, <2>1, <2>2, <2>3 DEF Common
<1>7. CASE S.doom
  <2>1. Blamed(S)'
    BY <1>2, <1>7 DEF Rel, Blamed
  <2> QED
    BY <1>4, <1>6, <1>7, <2>1 DEF Rel, c
<1>8. CASE ~S.doom
  <2>1. InStep(S) /\ Silent(S)
    BY <1>8 DEF Rel, InStep
  <2>2. Silent(S)'
    BY <1>2, <1>4, <2>1, SilentLess
  <2>3. InStep(S)'
    BY <1>2, <1>3, <2>1, <2>2, KeepInStep
  <2> QED
    BY <1>4, <1>6, <1>8, <2>3 DEF Rel, c
<1> QED
  BY <1>7, <1>8

(* Where a sleep for an event of its own ends, the search goes on.         *)
LEMMA LookBelow ==
  ASSUME NEW S, ~S.doom, NEW k, Safe(k, S), Head(k).do = "woken"
  PROVE  LET w == Head(Tail(k))
         IN  /\ w.do = "look" /\ w.c \in Comps /\ w.c \in S.base.alive
             /\ S.sent[w.c] = NoCommand /\ w.c = video_scheduler
             /\ w.wanted = SettingsChanged(11)
<1> DEFINE f == Head(k)  q == Tail(k)  w == Head(q)
<1>1. /\ Good(f, q, S) /\ \A p, T : <<p, T>> \in Nexts(f, q, S) => Safe(p, T)
  BY SafeUnfold
<1>2. q # <<>> /\ w.do = "look"
  BY <1>1 DEF Good, GoodSync
<1>3. <<q, S>> \in Nexts(f, q, S)
  BY DEF Nexts, NextsSync
<1>4. Safe(q, S)
  BY <1>1, <1>3
<1>5. Good(w, Tail(q), S)
  BY <1>4, SafeUnfold
<1> HIDE DEF q
<1>6. /\ w.c \in Comps /\ w.c \in S.base.alive /\ S.sent[w.c] = NoCommand
      /\ w.c = video_scheduler /\ w.wanted = SettingsChanged(11)
  BY <1>2, <1>5 DEF Good, GoodSync
<1> QED
  BY <1>2, <1>6 DEF q

LEMMA StepSuspend ==
  ASSUME NEW S, NEW f, NEW k, Facing(S, f, k), f.do = "suspend", SleepEnds(f, k), Going'
  PROVE  IInv'
<1> DEFINE c == f.c  e == Head(k)
<1>1. /\ Rel(S) /\ Good(f, k, S) /\ Heeded(S, f) /\ Before(S, f, k) /\ Shaped(k) /\ k # <<>>
      /\ \A p, T : <<p, T>> \in Nexts(f, k, S) => Safe(p, T)
  BY DEF Facing
<1>2. <<k, S>> \in Nexts(f, k, S)
  BY DEF Nexts, NextsSync, NextsLost
<1>3. Rel(S)' /\ \A d \in Comps : d # c => flags'[d] = flags[d]
  BY <1>1, WokenRel
<1>4. UNCHANGED <<events, failures>> /\ todo' = k
  BY DEF SleepEnds, core
<1>5. Safe(k, S)
  BY <1>1, <1>2
<1>6. CASE S.doom /\ S.told = None
  <2>1. Heeded(S, e)'
    BY <1>6 DEF Heeded
  <2>2. e.do # "queue" /\ e.do # "suspend" /\ e.do # "look for error"
    BY <1>1, <1>6 DEF Good, GoodLost, Sleeps
  <2>3. Before(S, e, Tail(k))'
    BY <1>6, <2>2 DEF Before
  <2>4. AtTop(S, k)'
    BY <2>1, <2>3 DEF AtTop
  <2> QED
    BY <1>1, <1>3, <1>4, <1>5, <2>4, Onwards
<1>7. CASE S.doom /\ S.told # None
  <2>1. e.do = "if got"
    BY <1>1, <1>7 DEF Before
  <2>2. e.flag = "ERROR" /\ S.told = c /\ f = Asleep(c, DrainMask, FALSE)
    BY <1>1, <1>7, <2>1 DEF Good, GoodLost, Sleeps
  <2>3. "ERROR" \in f.mask /\ f.timeout = FALSE
    BY <2>2 DEF Asleep, DrainMask
  <2>4. Unreported(c)
    BY <1>1, <1>7, <2>2 DEF Heeded
  <2>5. Unreported(c)' \/ "ERROR" \in got'
    BY <1>4, <2>3, <2>4 DEF Unreported, SleepEnds
  <2>6. Heeded(S, e)'
    BY <1>7, <2>1, <2>2, <2>5 DEF Heeded
  <2>7. Before(S, e, Tail(k))'
    BY <1>7, <2>1 DEF Before
  <2>8. AtTop(S, k)'
    BY <2>6, <2>7 DEF AtTop
  <2> QED
    BY <1>1, <1>3, <1>4, <1>5, <2>8, Onwards
<1>8. CASE ~S.doom
  <2>1. Sleeps(f, k)
    BY <1>1, <1>8 DEF Good, GoodSync
  <2>2. \A d \in Comps : S.sent[d] # NoCommand => Unreported(d)
    BY <1>1, <1>8 DEF Heeded
  <2>3. \A d \in Comps : S.sent[d] # NoCommand => Unreported(d)' \/ d = c
    BY <1>3, <1>4, <2>2 DEF Unreported
  <2>4. CASE e.do = "check" /\ f = Awaits(e)
    <3>1. e.c = c
      BY <2>4 DEF Awaits, Asleep
    <3>2. Heeded(S, e)'
      BY <1>8, <2>3, <2>4, <3>1 DEF Heeded
    <3>3. Before(S, e, Tail(k))'
      BY <2>4 DEF Before
    <3>4. AtTop(S, k)'
      BY <3>2, <3>3 DEF AtTop
    <3> QED
      BY <1>1, <1>3, <1>4, <1>5, <3>4, Onwards
  <2>5. CASE e.do = "woken" /\ f = LooksFor(Head(Tail(k)))
    <3>1. c \in Comps /\ S.sent[c] = NoCommand /\ c = video_scheduler
      <4>1. c = Head(Tail(k)).c
        BY <2>5 DEF LooksFor, Asleep
      <4> QED
        BY <1>5, <1>8, <2>5, <4>1, LookBelow
    <3>2. Heeded(S, e)'
      BY <1>8, <2>3, <3>1 DEF Heeded
    <3>3. got' = {} => late' = TRUE
      BY DEF SleepEnds
    <3>4. "ERROR" \in got' => failures' > 0
      <4>1. "ERROR" \in got' => "ERROR" \in flags[c]
        BY DEF SleepEnds
      <4>2. video_scheduler # video_decode
        BY DEF video_scheduler, video_decode
      <4>3. Silent(S) /\ failures \in Nat
        BY <1>1, <1>8, FailuresNat DEF Rel, InStep, Common
      <4> HIDE DEF c
      <4>4. "ERROR" \in flags[c] => failures # 0
        BY <3>1, <4>2, <4>3 DEF Silent
      <4> QED
        BY <1>4, <4>1, <4>3, <4>4
    <3>5. Before(S, e, Tail(k))'
      BY <2>5, <3>3, <3>4 DEF Before
    <3>6. AtTop(S, k)'
      BY <3>2, <3>5 DEF AtTop
    <3> QED
      BY <1>1, <1>3, <1>4, <1>5, <3>6, Onwards
  <2> QED
    BY <2>1, <2>4, <2>5 DEF Sleeps
<1> QED
  BY <1>6, <1>7, <1>8

(* Looking for an event: it is there, or an error is looked for first.     *)
LooksBad(f) == f.do = "look for error"

LEMMA LookErrorIs ==
  ASSUME NEW f
  PROVE  LooksBad(LookError(f)) /\ LookError(f).do \notin {"suspend", "queue", "woken", "remove"}
         /\ LookError(f).c = f.c
BY DEF LooksBad, LookError

LEMMA LookOnwards ==
  ASSUME NEW T, NEW f, NEW q, Text(q), q # <<>>, Head(q) = f, Safe(<<LookError(f)>> \o q, T),
         Rel(T)', Heard(T)', T.doom => T.told = None, ~Sees(events[f.c], f.wanted)',
         todo' = <<LookError(f)>> \o q, Going'
  PROVE  IInv'
<1> DEFINE a == LookError(f)  p == <<a>> \o q
<1>1. LooksBad(a) /\ a.do \notin {"suspend", "queue", "woken", "remove"}
  BY LookErrorIs
<1>2. todo' = p /\ Safe(p, T)
  OBVIOUS
<1> HIDE DEF a
<1>3. p # <<>> /\ Head(p) = a /\ Tail(p) = q
  BY TextIsSeq, SeqPush
<1> HIDE DEF p
<1>4. Heeded(T, a)'
  BY DEF Heard, Heeded
<1>5. Before(T, a, q)'
  BY <1>1 DEF Before
<1>6. AtTop(T, p)'
  BY <1>3, <1>4, <1>5 DEF AtTop
<1>7. Shaped(p)
  <2>1. Head(p).do \in {"look for error", "queue", "supply", "woken"}
    BY <1>1, <1>3 DEF LooksBad
  <2> QED
    BY <1>3, <2>1 DEF Shaped
<1> QED
  BY <1>2, <1>6, <1>7, Onwards

LEMMA StepLook ==
  ASSUME NEW S, NEW f, NEW k, Facing(S, f, k), f.do = "look", Going',
         NEW i, i = Find(f.c, f.wanted),
         i # 0 => TakeEvent(f.c, i) /\ ret' = 0 /\ todo' = k,
         i = 0 => todo' = <<LookError(f)>> \o (<<f>> \o k) /\ UNCHANGED <<spare, events, ret>>,
         UNCHANGED <<core, flags, masked, related, inList, late, port_setting_changed>>
  PROVE  IInv'
<1> DEFINE c == f.c  Y == f.wanted
<1>1. /\ Rel(S) /\ Common(S) /\ Good(f, k, S) /\ Text(k) /\ Heard(S)
      /\ \A p, V : <<p, V>> \in Nexts(f, k, S) => Safe(p, V)
  BY DEF Facing, Rel
<1>2. c \in Comps /\ c \in S.base.alive /\ (~S.doom => S.sent[c] = NoCommand)
  BY <1>1 DEF Good, GoodSync, GoodLost
<1>3. /\ (i # 0 => i \in 1 .. Len(events[c]))
      /\ (i # 0 <=> Sees(events[c], Y))
  <2>1. events[c] \in Seq(EventsOf(c))
    BY <1>1, <1>2, ListsAre
  <2>2. i = Find(c, Y)
    OBVIOUS
  <2> HIDE DEF c, Y
  <2> QED
    BY <2>1, <2>2, FindIs
<1>4. CASE i # 0
  <2>1. TakeEvent(c, i) /\ ret' = 0 /\ todo' = k /\ i \in 1 .. Len(events[c]) /\ 0 \in -5 .. 0
        /\ flags' = flags
    BY <1>3, <1>4
  <2>2. CASE S.doom
    <3>1. <<k, Lost(0, None, S.base)>> \in Nexts(f, k, S)
      BY <2>2 DEF Nexts, NextsLost
    <3> HIDE DEF c
    <3> QED
      BY <1>1, <1>2, <2>1, <2>2, <3>1, LostTake
  <2>3. CASE ~S.doom
    <3> DEFINE w == S.world
               T == Sync(0, S.sent, S.related, S.masked, S.base, w)
    <3>1. <<k, T>> \in Nexts(f, k, S)
      BY <2>3 DEF Nexts, NextsSync
    <3>2. T = Sync(0, S.sent, S.related, S.masked, S.base, w) /\ w = S.world
          /\ S.sent[c] = NoCommand
      BY <1>2, <2>3
    <3> HIDE DEF T, w, c
    <3> QED
      BY <1>1, <1>2, <2>1, <2>3, <3>1, <3>2, QuietOnwards
  <2> QED
    BY <2>2, <2>3
<1>5. CASE i = 0
  <2> DEFINE q == <<f>> \o k
  <2>1. /\ todo' = <<LookError(f)>> \o q
        /\ UNCHANGED <<core, lists, masked, related, inList, ret, late, port_setting_changed>>
    BY <1>5 DEF lists
  <2>2. Text(q) /\ q # <<>> /\ Head(q) = f
    <3>1. IsSeq(k)
      BY DEF Facing
    <3> QED
      BY <3>1, TextTodo, SeqPush
  <2>3. UNCHANGED <<events, flags, failures>>
    BY <2>1 DEF lists, core
  <2>4. ~Sees(events[f.c], f.wanted)'
    BY <1>3, <1>5, <2>3
  <2>5. S.doom => <<<<LookError(f)>> \o q, Lost(S.ret, None, S.base)>> \in Nexts(f, k, S)
    BY DEF Nexts, NextsLost
  <2>6. ~S.doom => <<<<LookError(f)>> \o q, S>> \in Nexts(f, k, S)
    BY DEF Nexts, NextsSync
  <2> HIDE DEF q
  <2>7. CASE S.doom
    <3> DEFINE T == Lost(S.ret, None, S.base)
    <3>0. T = Lost(S.ret, None, S.base)
      OBVIOUS
    <3>1. T.doom = TRUE /\ T.told = None
      BY DEF Lost
    <3>2. Safe(<<LookError(f)>> \o q, T)
      BY <1>1, <2>5, <2>7
    <3> HIDE DEF T
    <3>3. Rel(T)'
      <4>1. ret' = S.ret /\ S.ret \in -5 .. 0
        BY <1>1, <1>5 DEF Common, Result
      <4>2. (failures > 0 \/ late = TRUE)' /\ Lists(S)'
        BY <1>1, <2>1, <2>3, <2>7, KeepLists DEF Rel, Blamed, Common
      <4>3. None \in Comps \cup {None}
        OBVIOUS
      <4> QED
        BY <1>1, <2>1, <3>0, <4>1, <4>2, <4>3, LostRel
    <3>4. Heard(T)'
      BY <3>1 DEF Heard
    <3> QED
      BY <2>1, <2>2, <2>4, <3>1, <3>2, <3>3, <3>4, LookOnwards
  <2>8. CASE ~S.doom
    <3>1. Safe(<<LookError(f)>> \o q, S)
      BY <1>1, <2>6, <2>8
    <3>2. Rel(S)'
      BY <1>1, <2>1, StayRel
    <3>3. Heard(S)'
      BY <1>1, <2>3, HeardSame
    <3> QED
      BY <2>1, <2>2, <2>4, <2>8, <3>1, <3>2, <3>3, LookOnwards
  <2> QED
    BY <2>7, <2>8
<1> QED
  BY <1>4, <1>5

(* Where it was not there, no error is either, unless a command was        *)
(* refused.                                                                *)
LEMMA LooksForIs ==
  ASSUME NEW w
  PROVE  /\ LooksFor(w).do = "suspend" /\ LooksFor(w).c = w.c
         /\ LooksFor(w).mask = {w.flag, "ERROR"} /\ Woken(w).do = "woken"
BY DEF LooksFor, Asleep, Woken

LEMMA LookUnder ==
  ASSUME NEW S, NEW w, NEW k, IsSeq(k), k # <<>>, Head(k) = w, w.do = "look",
         Safe(<<LooksFor(w)>> \o (<<Woken(w)>> \o k), S)
  PROVE  /\ w.c \in Comps
         /\ ~S.doom => S.sent[w.c] = NoCommand /\ w.c = video_scheduler
<1> DEFINE a == LooksFor(w)  e == Woken(w)  q == <<e>> \o k  p == <<a>> \o q
<1>1. a.do = "suspend" /\ e.do = "woken"
  BY LooksForIs
<1>2. Safe(p, S)
  OBVIOUS
<1> HIDE DEF a, e
<1>3. IsSeq(q) /\ q # <<>> /\ Head(q) = e /\ Tail(q) = k
  BY SeqPush
<1> HIDE DEF q
<1>4. Head(p) = a /\ Tail(p) = q
  BY <1>3, SeqPush
<1> HIDE DEF p
<1>5. Safe(q, S)
  <2>1. <<q, S>> \in Nexts(a, q, S)
    BY <1>1 DEF Nexts, NextsSync, NextsLost
  <2> QED
    BY <1>2, <1>4, <2>1, SafeUnfold
<1>6. Safe(k, S)
  <2>1. <<k, S>> \in Nexts(e, k, S)
    BY <1>1 DEF Nexts, NextsSync, NextsLost
  <2> QED
    BY <1>3, <1>5, <2>1, SafeUnfold
<1>7. Good(w, Tail(k), S)
  BY <1>6, SafeUnfold
<1>8. CASE S.doom
  BY <1>7, <1>8 DEF Good, GoodLost
<1>9. CASE ~S.doom
  BY <1>7, <1>9 DEF Good, GoodSync
<1> QED
  BY <1>8, <1>9

LEMMA NoErrorThere ==
  ASSUME NEW S, ~S.doom, Rel(S), S.sent[video_scheduler] = NoCommand
  PROVE  ~Sees(events[video_scheduler], AnyError)
<1> DEFINE c == video_scheduler
<1>1. Harmless(c) = {NewSettings(11)}
  BY DEF Harmless, video_scheduler, video_decode
<1>2. NewSettings(11).e = "PortSettingsChanged"
  BY DEF NewSettings, Event
<1>3. \A x \in AnyError : x.e = "Error"
  BY DEF AnyError, ErrorsWith, Event
<1>4. AnyError \cap Harmless(c) = {}
  BY <1>1, <1>2, <1>3
<1>5. c \in Comps
  BY ComponentsAssumption DEF Components
<1> HIDE DEF c
<1>6. Clean(events[c], c)
  BY <1>5, QuietFits DEF Rel, InStep, c
<1> QED
  BY <1>4, <1>6, CleanSees DEF c

LEMMA LooksBadIs ==
  ASSUME NEW f, NEW k, NEW S, LooksBad(f), Good(f, k, S)
  PROVE  /\ k # <<>> /\ Head(k).do = "look" /\ f = LookError(Head(k))
         /\ <<<<LooksFor(Head(k))>> \o (<<Woken(Head(k))>> \o k), S>> \in Nexts(f, k, S)
         /\ S.doom => <<Tail(k), Lost(-2, None, S.base)>> \in Nexts(f, k, S)
<1>1. CASE S.doom
  BY <1>1 DEF LooksBad, Good, GoodLost, Nexts, NextsLost
<1>2. CASE ~S.doom
  BY <1>2 DEF LooksBad, Good, GoodSync, Nexts, NextsSync
<1> QED
  BY <1>1, <1>2

LEMMA StepLookError ==
  ASSUME NEW S, NEW f, NEW k, Facing(S, f, k), LooksBad(f), Going', NEW w, w = Head(k),
         Find(w.c, AnyError) # 0 =>
           flags' = Lower(w.c, "ERROR") /\ ret' = -2 /\ todo' = Tail(k),
         Find(w.c, AnyError) = 0 =>
           /\ todo' = <<LooksFor(w)>> \o (<<Woken(w)>> \o k) /\ UNCHANGED <<flags, ret>>,
         UNCHANGED <<core, spare, events, masked, related, inList, late, port_setting_changed>>
  PROVE  IInv'
<1> DEFINE a == LooksFor(w)  e == Woken(w)  q == <<e>> \o k  p == <<a>> \o q
<1>1. /\ Rel(S) /\ Common(S) /\ Good(f, k, S) /\ IsSeq(k) /\ Before(S, f, k)
      /\ \A x, V : <<x, V>> \in Nexts(f, k, S) => Safe(x, V)
  BY DEF Facing, Rel
<1>2. Text(k) /\ Heard(S)
  BY DEF Facing, LooksBad
<1>3. /\ k # <<>> /\ w.do = "look" /\ <<p, S>> \in Nexts(f, k, S)
      /\ S.doom => <<Tail(k), Lost(-2, None, S.base)>> \in Nexts(f, k, S)
  BY <1>1, LooksBadIs
<1>4. Safe(p, S)
  BY <1>1, <1>3
<1>5. w.c \in Comps /\ (~S.doom => S.sent[w.c] = NoCommand /\ w.c = video_scheduler)
  BY <1>1, <1>3, <1>4, LookUnder
<1>6. Find(w.c, AnyError) # 0 <=> Sees(events[w.c], AnyError)
  <2> DEFINE c == w.c
  <2>1. c \in Comps
    BY <1>5
  <2> HIDE DEF c
  <2>2. events[c] \in Seq(EventsOf(c))
    BY <1>1, <2>1, ListsAre
  <2>3. Find(c, AnyError) # 0 <=> Sees(events[c], AnyError)
    BY <2>2, FindIs
  <2> QED
    BY <2>3 DEF c
<1>7. /\ a.do = "suspend" /\ a.c = w.c /\ a.mask = {w.flag, "ERROR"} /\ e.do = "woken"
  BY LooksForIs
<1>8. UNCHANGED failures
  BY DEF core
<1>9. CASE Find(w.c, AnyError) # 0
  <2>1. S.doom
    BY <1>1, <1>5, <1>6, <1>9, NoErrorThere
  <2> DEFINE T == Lost(-2, None, S.base)
  <2>2. T = Lost(-2, None, S.base) /\ T.doom = TRUE /\ T.told = None
    BY DEF Lost
  <2>3. Safe(Tail(k), T)
    BY <1>1, <1>3, <2>1
  <2> HIDE DEF T
  <2>4. Text(Tail(k))
    BY <1>2, <1>3, TextPop
  <2>5. Lists(S)'
    <3>1. flags' = [d \in Comps |-> flags'[d]]
      <4> DEFINE c == w.c
      <4>1. c \in Comps /\ flags' = Lower(c, "ERROR")
        BY <1>5, <1>9
      <4> HIDE DEF c
      <4> QED
        BY <1>1, <4>1, FlagsAre
    <3> QED
      BY <1>1, <3>1 DEF Common, Lists
  <2>6. Rel(T)'
    <3>1. ret' = -2 /\ -2 \in -5 .. 0 /\ (failures > 0 \/ late = TRUE)'
      BY <1>1, <1>8, <1>9, <2>1 DEF Rel, Blamed
    <3>2. None \in Comps \cup {None}
      OBVIOUS
    <3> DEFINE r == -2
    <3>3. ret' = r /\ r \in -5 .. 0 /\ T = Lost(r, None, S.base)
      BY <2>2, <3>1
    <3> HIDE DEF r
    <3> QED
      BY <1>1, <2>5, <3>1, <3>2, <3>3, LostRel
  <2>7. Heard(T)'
    BY <2>2 DEF Heard
  <2> QED
    BY <1>9, <2>3, <2>4, <2>6, <2>7, TextOnwards
<1>10. CASE Find(w.c, AnyError) = 0
  <2>1. todo' = p /\ UNCHANGED <<flags, ret, lists, events>>
    BY <1>10 DEF lists
  <2>2. Rel(S)'
    BY <1>1, <1>10, <2>1, StayRel
  <2>3. Heard(S)'
    BY <1>2, <2>1, HeardSame
  <2> HIDE DEF a, e
  <2>4. IsSeq(q) /\ q # <<>> /\ Head(q) = e /\ Tail(q) = k
    BY <1>1, SeqPush
  <2> HIDE DEF q
  <2>5. p # <<>> /\ Head(p) = a /\ Tail(p) = q
    BY <2>4, SeqPush
  <2> HIDE DEF p
  <2>6. Heeded(S, a)'
    BY <2>3 DEF Heard, Heeded
  <2>7. S.doom => S.told = None
    BY <1>1 DEF Before, LooksBad
  <2>8. Sees(events[w.c], w.wanted) => w.flag \in flags[w.c]
    BY <1>1 DEF Before, LooksBad
  <2>9. (flags[a.c] \cap a.mask = {} => ~Overdue(a, q))'
    <3>1. flags[a.c] \cap a.mask = {} => ~Overdue(a, q)
      <4>1. Overdue(a, q) => Sees(events[w.c], w.wanted)
        BY <1>6, <1>7, <1>10, <2>4 DEF Overdue, Sees
      <4> QED
        BY <1>7, <2>8, <4>1
    <3> QED
      BY <2>1, <3>1 DEF Overdue
  <2>10. Before(S, a, q)'
    BY <1>7, <2>7, <2>9 DEF Before
  <2>11. AtTop(S, p)'
    BY <2>5, <2>6, <2>10 DEF AtTop
  <2>12. Shaped(p)
    BY <1>2, <1>7, <2>4, <2>5 DEF Shaped
  <2> QED
    BY <1>4, <2>1, <2>2, <2>11, <2>12, Onwards
<1> QED
  BY <1>9, <1>10

(* What the core keeps when something was refused.                         *)
KeptCore ==
  UNCHANGED <<coreInit, nActiveHandles, state, enabled, pending, tunnels, supplied, held,
              orphans>>

LEMMA CommonMore ==
  ASSUME NEW S, NEW T, Common(S), T.base = S.base, KeptCore,
         failures' \in 0 .. MaxFailures, failures > 0 => failures' > 0,
         UNCHANGED <<lists, masked, related, inList, late>>, Result(T)'
  PROVE  Common(T)'
<1>1. UNCHANGED <<coreInit, nActiveHandles, state, enabled, pending, tunnels, supplied, held,
                  orphans>>
  BY DEF KeptCore
<1>2. Handles(T)' /\ States' /\ Asked(T)'
  <2>1. Handles(S) /\ States /\ Asked(S) /\ pending' \subseteq pending
    BY <1>1 DEF Common
  <2> QED
    BY <1>1, <2>1, KeepHandles, KeepStates, KeepAsked
<1>3. Buffers'
  BY <1>1, KeepBuffers DEF Common
<1>4. Others'
  BY <1>1 DEF Common, Others
<1>5. Lists(T)'
  BY KeepLists DEF Common
<1> QED
  BY <1>2, <1>3, <1>4, <1>5 DEF Common

(* From here on an answer is not the one that was expected.                *)
LEMMA FallOnwards ==
  ASSUME NEW S, NEW f, NEW k, Facing(S, f, k), NEW r \in -5 .. 0, NEW q, Text(q),
         <<q, Lost(r, None, S.base)>> \in Nexts(f, k, S), todo' = q, Going', ret' = r,
         KeptCore, failures' \in 0 .. MaxFailures, failures > 0 => failures' > 0,
         (failures > 0 \/ late = TRUE)',
         UNCHANGED <<lists, masked, related, inList, late>>
  PROVE  IInv'
<1> DEFINE T == Lost(r, None, S.base)
<1>1. T.doom = TRUE /\ T.told = None /\ T.ret = r /\ T.base = S.base
  BY DEF Lost
<1>2. Safe(q, T) /\ Common(S)
  BY DEF Facing, Rel
<1> HIDE DEF T
<1>3. Result(T)'
  BY <1>1, ResultIs
<1>4. Common(T)'
  BY <1>1, <1>2, <1>3, CommonMore
<1>5. Rel(T)'
  BY <1>1, <1>4 DEF Rel, Blamed
<1>6. Heard(T)'
  BY <1>1 DEF Heard
<1> QED
  BY <1>2, <1>5, <1>6, TextOnwards

LEMMA StepWoken ==
  ASSUME NEW S, NEW f, NEW k, Facing(S, f, k), f.do = "woken", Going',
         NEW r, r = (IF got = {} THEN -1 ELSE IF "ERROR" \in got THEN -2 ELSE ret),
         NEW q, q = (IF got = {} \/ "ERROR" \in got THEN Tail(k) ELSE k),
         ret' = r, todo' = q,
         UNCHANGED <<core, lists, masked, related, inList, late, port_setting_changed>>
  PROVE  IInv'
<1>1. /\ Rel(S) /\ Common(S) /\ Good(f, k, S) /\ Before(S, f, k) /\ Text(k) /\ Heard(S)
  BY DEF Facing, Rel
<1>2. k # <<>>
  <2>1. CASE S.doom
    BY <1>1, <2>1 DEF Good, GoodLost
  <2>2. CASE ~S.doom
    BY <1>1, <2>2 DEF Good, GoodSync
  <2> QED
    BY <2>1, <2>2
<1>3. Text(q)
  BY <1>1, <1>2, TextPop
<1>4. ret \in -5 .. 0 /\ ret = S.ret /\ failures \in 0 .. MaxFailures
  BY <1>1 DEF Common, Result, Others
<1>5. KeptCore /\ UNCHANGED failures
  BY DEF core, KeptCore
<1>6. CASE got = {} \/ "ERROR" \in got
  <2>1. r \in {-1, -2} /\ r \in -5 .. 0 /\ q = Tail(k)
    BY <1>6
  <2>2. <<q, Lost(r, None, S.base)>> \in Nexts(f, k, S)
    BY <2>1 DEF Nexts, NextsSync, NextsLost
  <2>3. (failures > 0 \/ late = TRUE)'
    BY <1>1, <1>5, <1>6 DEF Rel, Blamed, Before
  <2> QED
    BY <1>3, <1>4, <1>5, <2>1, <2>2, <2>3, FallOnwards
<1>7. CASE ~(got = {} \/ "ERROR" \in got)
  <2>1. q = k /\ ret' = ret
    BY <1>7
  <2>2. <<k, S>> \in Nexts(f, k, S)
    BY DEF Nexts, NextsSync, NextsLost
  <2> QED
    BY <1>1, <2>1, <2>2, StillOnwards
<1> QED
  BY <1>6, <1>7

(* What stays true of the world when a component gains something.          *)
Grown(S, T) ==
  /\ T.world.hand = S.world.hand /\ T.world.state = S.world.state
  /\ T.world.enabled = S.world.enabled /\ T.world.spoiled = S.world.spoiled
  /\ T.sent = S.sent /\ T.related = S.related /\ T.masked = S.masked
  /\ T.base.alive = S.base.alive

LEMMA GrownInStep ==
  ASSUME NEW S, NEW T, InStep(S), Grown(S, T), Copied(T)',
         UNCHANGED <<state, enabled, pending, supplied, held, failures, inList, events, flags>>
  PROVE  InStep(T)'
<1>1. /\ T.world.hand = S.world.hand /\ T.world.state = S.world.state
      /\ T.world.enabled = S.world.enabled /\ T.world.spoiled = S.world.spoiled
      /\ T.sent = S.sent /\ T.related = S.related /\ T.masked = S.masked
      /\ T.base.alive = S.base.alive
  BY DEF Grown
<1>2. ASSUME NEW c \in Comps PROVE Fits(T, c)'
  <2>1. Fits(S, c) /\ Mine(c)' = Mine(c)
    BY DEF InStep, Mine
  <2> QED
    BY <1>1, <2>1, FitsSame
<1>3. Sendings(T)' /\ InHand(T)' /\ Unused(T)'
  BY <1>1 DEF InStep, Sendings, InHand, Unused
<1>4. Excused(T)' /\ Partnered(T)' /\ Unborn(T)' /\ Covered(T)' /\ Silent(T)'
  BY <1>1 DEF InStep, Excused, Suspects, Partnered, Unborn, Covered, Silent
<1> QED
  BY <1>2, <1>3, <1>4 DEF InStep

(* A client's structures, all spare at first.                              *)
AsksClient(f) == f.do = "init client"
EndsClient(f) == f.do = "destroy client"

LEMMA SparesBegin ==
  ASSUME NEW ev, NEW clients, NEW j \in Clients, j \notin clients,
         \A c \in OfOwner(j) : ev[c] = <<>>
  PROVE  Spares(ev, clients \cup {j}) = Replaced(Spares(ev, clients), j, NumEvents)
<1> DEFINE A == Spares(ev, clients \cup {j})  B == Replaced(Spares(ev, clients), j, NumEvents)
<1>1. Cardinality(Entries(ev, OfOwner(j))) = 0
  <2>1. Entries(ev, OfOwner(j)) = {}
    BY DEF Entries
  <2> QED
    BY <2>1, FS_EmptySet
<1>2. A = [k \in Clients |-> A[k]] /\ B = [k \in Clients |-> B[k]]
  BY DEF Spares, Replaced
<1>3. A[j] = NumEvents
  <2>1. A[j] = NumEvents - Cardinality(Entries(ev, OfOwner(j)))
    BY DEF Spares
  <2> QED
    BY <1>1, <2>1, EventsAssumption
<1>4. B[j] = NumEvents
  BY DEF Spares, Replaced
<1>5. \A k \in Clients : k # j => A[k] = B[k]
  BY DEF Spares, Replaced
<1> HIDE DEF A, B
<1>6. A = B
  BY <1>2, <1>3, <1>4, <1>5
<1> QED
  BY <1>6 DEF A, B

LEMMA SparesEnd ==
  ASSUME NEW ev, NEW clients, NEW j \in Clients
  PROVE  Spares(ev, clients \ {j}) = Replaced(Spares(ev, clients), j, 0)
<1> DEFINE A == Spares(ev, clients \ {j})  B == Replaced(Spares(ev, clients), j, 0)
<1>1. A = [k \in Clients |-> A[k]] /\ B = [k \in Clients |-> B[k]]
  BY DEF Spares, Replaced
<1>2. A[j] = 0 /\ B[j] = 0
  BY DEF Spares, Replaced
<1>3. \A k \in Clients : k # j => A[k] = B[k]
  BY DEF Spares, Replaced
<1> HIDE DEF A, B
<1>4. A = B
  BY <1>1, <1>2, <1>3
<1> QED
  BY <1>4 DEF A, B

LEMMA SamePlace ==
  ASSUME UNCHANGED <<core, masked, related, inList, late>>, States, Buffers, Others
  PROVE  States' /\ Buffers' /\ Others'
<1>1. UNCHANGED <<coreInit, nActiveHandles, state, enabled, pending, tunnels, supplied, held,
                  orphans, failures>>
  BY DEF core
<1> QED
  BY <1>1, KeepStates, KeepBuffers, KeepOthers

LEMMA StepInitClient ==
  ASSUME NEW S, NEW f, NEW k, Facing(S, f, k), AsksClient(f), Going', todo' = k,
         spare' = [spare EXCEPT ![f.k] = NumEvents],
         UNCHANGED <<core, events, flags, masked, related, inList, ret, late,
                     port_setting_changed>>
  PROVE  IInv'
<1> DEFINE j == f.k  b == S.base
           e == Base(b.inits, b.clients \cup {j}, b.alive)
           T == Sync(S.ret, S.sent, S.related, S.masked, e, S.world)
<1>1. /\ Rel(S) /\ Common(S) /\ Good(f, k, S) /\ Text(k) /\ Heard(S)
      /\ \A p, V : <<p, V>> \in Nexts(f, k, S) => Safe(p, V)
  BY DEF Facing, Rel, AsksClient
<1>2. ~S.doom
  BY <1>1 DEF Good, GoodLost, AsksClient
<1>3. j \in Clients /\ j \notin b.clients
  BY <1>1, <1>2 DEF Good, GoodSync, AsksClient
<1>4. <<k, T>> \in Nexts(f, k, S)
  BY <1>2 DEF Nexts, NextsSync, AsksClient
<1>5. e.inits = b.inits /\ e.clients = b.clients \cup {j} /\ e.alive = b.alive
  BY DEF Base
<1> HIDE DEF e
<1>6. /\ T.doom = FALSE /\ T.sent = S.sent /\ T.related = S.related /\ T.masked = S.masked
      /\ T.base = e /\ T.world = S.world /\ T.ret = S.ret
  BY DEF Sync
<1> HIDE DEF T
<1>7. Handles(S) /\ States /\ Asked(S) /\ Buffers /\ Others /\ Lists(S) /\ Result(S)
      /\ InStep(S)
  BY <1>1, <1>2 DEF Common, Rel
<1>8. UNCHANGED <<coreInit, nActiveHandles, state, enabled, pending, tunnels, supplied, held,
                  orphans, failures>>
  BY DEF core
<1>9. Lists(T)'
  <2>1. \A c \in OfOwner(j) : events[c] = <<>>
    BY <1>3, <1>7 DEF Handles, InStep, Unborn, OfOwner
  <2> DEFINE ev == events  cl == b.clients
  <2>2. spare = Spares(ev, cl) /\ Few(ev) /\ flags = [c \in Comps |-> flags[c]]
    BY <1>7 DEF Lists
  <2>3. spare' = Replaced(spare, j, NumEvents)
    BY DEF Replaced
  <2> HIDE DEF ev, cl, j
  <2>4. Spares(ev, cl \cup {j}) = Replaced(Spares(ev, cl), j, NumEvents)
    BY <1>3, <2>1, SparesBegin DEF ev, cl
  <2> QED
    BY <1>5, <1>6, <2>2, <2>3, <2>4 DEF Lists, ev, cl
<1>10. Handles(T)' /\ Asked(T)' /\ Result(T)'
  BY <1>3, <1>5, <1>6, <1>7, <1>8 DEF Handles, Asked, Result
<1>11. Common(T)'
  BY <1>7, <1>9, <1>10, SamePlace DEF Common
<1>12. InStep(T)'
  <2>1. Copied(T)' /\ Grown(S, T)
    BY <1>5, <1>6, <1>7, <1>8 DEF Copied, InStep, Grown
  <2> QED
    BY <1>7, <1>8, <2>1, GrownInStep
<1>13. Rel(T)'
  BY <1>6, <1>11, <1>12 DEF Rel
<1>14. Heard(T)'
  <2>1. \A c : Unreported(c)' = Unreported(c)
    BY DEF Unreported
  <2> QED
    BY <1>1, <1>2, <1>6, <2>1 DEF Heard
<1>15. Safe(k, T)
  BY <1>1, <1>4
<1> QED
  BY <1>1, <1>13, <1>14, <1>15, TextOnwards

LEMMA StepDestroyClient ==
  ASSUME NEW S, NEW f, NEW k, Facing(S, f, k), EndsClient(f), Going', todo' = k,
         spare' = [spare EXCEPT ![f.k] = 0],
         UNCHANGED <<core, events, flags, masked, related, inList, ret, late,
                     port_setting_changed>>
  PROVE  IInv'
<1> DEFINE j == f.k  b == S.base
           e == Base(b.inits, b.clients \ {j}, b.alive)
           T == Lost(S.ret, S.told, e)
<1>1. /\ Rel(S) /\ Common(S) /\ Good(f, k, S) /\ Text(k) /\ Heard(S)
      /\ \A p, V : <<p, V>> \in Nexts(f, k, S) => Safe(p, V)
  BY DEF Facing, Rel, EndsClient
<1>2. S.doom
  BY <1>1 DEF Good, GoodSync, EndsClient
<1>3. j \in Clients /\ \A c \in b.alive : Owner(c) # j
  BY <1>1, <1>2 DEF Good, GoodLost, EndsClient
<1>4. <<k, T>> \in Nexts(f, k, S)
  BY <1>2 DEF Nexts, NextsLost, EndsClient
<1>5. e.inits = b.inits /\ e.clients = b.clients \ {j} /\ e.alive = b.alive
  BY DEF Base
<1> HIDE DEF e
<1>6. T.doom = TRUE /\ T.told = S.told /\ T.base = e /\ T.ret = S.ret
  BY DEF Lost
<1> HIDE DEF T
<1>7. Handles(S) /\ States /\ Asked(S) /\ Buffers /\ Others /\ Lists(S) /\ Result(S)
      /\ Blamed(S)
  BY <1>1, <1>2 DEF Common, Rel
<1>8. UNCHANGED <<coreInit, nActiveHandles, state, enabled, pending, tunnels, supplied, held,
                  orphans, failures>>
  BY DEF core
<1>9. Lists(T)'
  <2> DEFINE ev == events  cl == b.clients
  <2>2. spare = Spares(ev, cl) /\ Few(ev) /\ flags = [c \in Comps |-> flags[c]]
    BY <1>7 DEF Lists
  <2>3. spare' = Replaced(spare, j, 0)
    BY DEF Replaced
  <2> HIDE DEF ev, cl, j
  <2>4. Spares(ev, cl \ {j}) = Replaced(Spares(ev, cl), j, 0)
    BY <1>3, SparesEnd
  <2> QED
    BY <1>5, <1>6, <2>2, <2>3, <2>4 DEF Lists, ev, cl
<1>10. Handles(T)' /\ Asked(T)' /\ Result(T)'
  BY <1>3, <1>5, <1>6, <1>7, <1>8 DEF Handles, Asked, Result
<1>11. Common(T)'
  BY <1>7, <1>9, <1>10, SamePlace DEF Common
<1>12. Rel(T)'
  BY <1>6, <1>7, <1>8, <1>11 DEF Rel, Blamed
<1>13. Heard(T)'
  BY <1>1, <1>2, <1>6, HeardSame
<1>14. Safe(k, T)
  BY <1>1, <1>4
<1> QED
  BY <1>1, <1>12, <1>13, <1>14, TextOnwards

(* What a component leaves behind.                                         *)
GivesBack(f) == f.do = "return events"
GivesUp(f) == f.do = "free handle"

LEMMA SparesInt ==
  ASSUME NEW S, Common(S), NEW c \in S.base.alive
  PROVE  /\ c \in Comps /\ Owner(c) \in S.base.clients /\ Owner(c) \in Clients /\ Few(events)
         /\ spare[Owner(c)] \in Int /\ spare = Spares(events, S.base.clients)
         /\ events = [d \in Comps |-> events[d]] /\ events[c] \in Seq(EventsOf(c))
         /\ \A d \in Comps : events[d] \in Seq(EventsOf(d)) /\ Len(events[d]) <= 16
<1>1. /\ c \in Comps /\ Owner(c) \in S.base.clients /\ Few(events) /\ Owner(c) \in Clients
      /\ spare = Spares(events, S.base.clients)
  BY DEF Common, Handles, Lists, Clients, Owner
<1>2. spare[Owner(c)] \in Int
  <2>1. spare[Owner(c)] =
          NumEvents - Cardinality(Entries(events, OfOwner(Owner(c))))
    BY <1>1 DEF Spares
  <2>2. Cardinality(Entries(events, OfOwner(Owner(c)))) \in Nat
    <3> DEFINE D == OfOwner(Owner(c))
    <3>1. /\ Cardinality(Entries(events, D)) =
               Cardinality(Entries(events, D \ {c})) + Len(events[c])
          /\ Cardinality(Entries(events, D \ {c})) \in Nat /\ Len(events[c]) \in Nat
      BY <1>1, EntriesSplit
    <3> HIDE DEF D
    <3>2. Cardinality(Entries(events, D)) \in Nat
      BY <3>1
    <3> QED
      BY <3>2 DEF D
  <2> QED
    BY <2>1, <2>2, EventsAssumption
<1>3. /\ events = [d \in Comps |-> events[d]] /\ events[c] \in Seq(EventsOf(c))
      /\ \A d \in Comps : events[d] \in Seq(EventsOf(d)) /\ Len(events[d]) <= 16
  BY <1>1 DEF Few
<1> QED
  BY <1>1, <1>2, <1>3

LEMMA EmptyLen ==
  ASSUME NEW X, NEW s, s = <<>>
  PROVE  s \in Seq(X) /\ Len(s) = 0 /\ Len(s) <= 16
<1>1. s \in Seq(X) /\ Len(s) = 0
  BY EmptySeq
<1> QED
  BY <1>1

LEMMA GivenBack ==
  ASSUME NEW S, Common(S), NEW c \in S.base.alive,
         events' = [events EXCEPT ![c] = <<>>],
         spare' = [spare EXCEPT ![Owner(c)] = spare[Owner(c)] + Len(events[c])],
         flags' = flags
  PROVE  Lists(S)' /\ events'[c] = <<>> /\ \A d \in Comps : d # c => events'[d] = events[d]
<1>1. /\ c \in Comps /\ Owner(c) \in S.base.clients /\ Owner(c) \in Clients /\ Few(events)
      /\ spare[Owner(c)] \in Int /\ spare = Spares(events, S.base.clients)
      /\ events = [d \in Comps |-> events[d]] /\ events[c] \in Seq(EventsOf(c))
      /\ \A d \in Comps : events[d] \in Seq(EventsOf(d)) /\ Len(events[d]) <= 16
  BY SparesInt
<1>2. /\ events' = [d \in Comps |-> events'[d]] /\ events'[c] = <<>>
      /\ \A d \in Comps : d # c => events'[d] = events[d]
  BY <1>1
<1>3. events'[c] \in Seq(EventsOf(c)) /\ Len(events'[c]) = 0 /\ Len(events'[c]) <= 16
  BY <1>2, EmptyLen
<1>4. Few(events')
  BY <1>1, <1>2, <1>3 DEF Few
<1> DEFINE z == spare[Owner(c)] + Len(events[c])
           ev == events
           ew == events'
           clients == S.base.clients
<1>5. z = Spares(ev, clients)[Owner(c)] + Len(ev[c]) - Len(ew[c])
  <2>1. Len(events[c]) \in Nat
    BY <1>1, LenProperties
  <2>2. z = spare[Owner(c)] + Len(events[c]) - 0
    BY <1>1, <2>1
  <2> QED
    BY <1>1, <1>3, <2>2
<1>6. /\ Few(ev) /\ Few(ew) /\ c \in Comps /\ Owner(c) \in clients
      /\ \A d \in Comps : d # c => ew[d] = ev[d]
  BY <1>1, <1>2, <1>4
<1>7. spare' = Replaced(spare, Owner(c), z)
  BY DEF Replaced
<1> HIDE DEF z, ev, ew, clients
<1>8. Moves(ev, ew, c, clients, z)
  BY <1>5, <1>6 DEF Moves
<1>9. Spares(ew, clients) = Replaced(Spares(ev, clients), Owner(c), z)
  BY <1>8, SparesChange
<1>10. spare' = Spares(events', S.base.clients)
  BY <1>1, <1>7, <1>9 DEF ev, ew, clients
<1>11. flags' = [d \in Comps |-> flags'[d]]
  BY DEF Common, Lists
<1> QED
  BY <1>2, <1>4, <1>10, <1>11 DEF Lists

LEMMA StepReturnEvents ==
  ASSUME NEW S, NEW f, NEW k, Facing(S, f, k), GivesBack(f), Going', todo' = k,
         events' = [events EXCEPT ![f.c] = <<>>],
         spare' = [spare EXCEPT ![Owner(f.c)] = spare[Owner(f.c)] + Len(events[f.c])],
         UNCHANGED <<core, flags, masked, related, inList, ret, late, port_setting_changed>>
  PROVE  IInv'
<1> DEFINE c == f.c
<1>1. /\ Rel(S) /\ Common(S) /\ Good(f, k, S) /\ Text(k) /\ Heard(S)
      /\ \A p, V : <<p, V>> \in Nexts(f, k, S) => Safe(p, V)
  BY DEF Facing, Rel, GivesBack
<1>2. S.doom
  BY <1>1 DEF Good, GoodSync, GivesBack
<1>3. c \in S.base.alive
  BY <1>1, <1>2 DEF Good, GoodLost, GivesBack
<1>4. <<k, S>> \in Nexts(f, k, S)
  BY <1>2 DEF Nexts, NextsLost, GivesBack
<1>5. Lists(S)' /\ events'[c] = <<>> /\ \A d \in Comps : d # c => events'[d] = events[d]
  <2>1. /\ events' = [events EXCEPT ![c] = <<>>]
        /\ spare' = [spare EXCEPT ![Owner(c)] = spare[Owner(c)] + Len(events[c])]
    OBVIOUS
  <2> HIDE DEF c
  <2> QED
    BY <1>1, <1>3, <2>1, GivenBack
<1>6. Common(S)'
  <2>1. Result(S)'
    BY <1>1 DEF Common, Result
  <2> QED
    BY <1>1, <1>5, <2>1, KeepCommon
<1>7. Rel(S)'
  BY <1>1, <1>2, <1>6 DEF Rel, Blamed, core
<1>8. Heard(S)'
  <2>1. ASSUME NEW d \in Comps, Unreported(d) PROVE Unreported(d)'
    <3>1. CASE d = c
      <4>1. ~Sees(events'[d], CommandError)
        <5> DEFINE s == events'[d]
        <5>1. Len(s) = 0
          BY <1>5, <3>1, EmptyLen
        <5> HIDE DEF s
        <5> QED
          BY <5>1 DEF Sees, s
      <4> QED
        BY <4>1 DEF Unreported
    <3>2. CASE d # c
      <4>1. events'[d] = events[d] /\ flags'[d] = flags[d]
        BY <1>5, <3>2
      <4> QED
        BY <2>1, <4>1 DEF Unreported
    <3> QED
      BY <3>1, <3>2
  <2>2. S.told \in Comps \cup {None}
    BY <1>1, <1>2 DEF Rel, Blamed
  <2> QED
    BY <1>1, <1>2, <2>1, <2>2 DEF Heard
<1>9. Safe(k, S)
  BY <1>1, <1>4
<1> QED
  BY <1>1, <1>7, <1>8, <1>9, TextOnwards

LEMMA StepFreeHandle ==
  ASSUME NEW S, NEW f, NEW k, Facing(S, f, k), GivesUp(f), Going', todo' = k,
         OMX_FreeHandle(f.c),
         UNCHANGED <<lists, masked, related, inList, ret, late, port_setting_changed>>
  PROVE  IInv'
<1> DEFINE c == f.c  b == S.base
           e == Base(b.inits, b.clients, b.alive \ {c})
           T == Lost(S.ret, None, e)
<1>1. /\ Rel(S) /\ Common(S) /\ Good(f, k, S) /\ Text(k) /\ Heard(S)
      /\ \A p, V : <<p, V>> \in Nexts(f, k, S) => Safe(p, V)
  BY DEF Facing, Rel, GivesUp
<1>2. S.doom
  BY <1>1 DEF Good, GoodSync, GivesUp
<1>3. c \in Comps /\ c \in b.alive
  BY <1>1, <1>2 DEF Good, GoodLost, GivesUp
<1>4. <<k, T>> \in Nexts(f, k, S)
  BY <1>2 DEF Nexts, NextsLost, GivesUp
<1>5. e.inits = b.inits /\ e.clients = b.clients /\ e.alive = b.alive \ {c}
  BY DEF Base
<1>6. /\ nActiveHandles' = nActiveHandles - 1
      /\ state' = [state EXCEPT ![c] = Absent] /\ enabled' = [enabled EXCEPT ![c] = {}]
      /\ pending' = {x \in pending : x.c # c}
      /\ UNCHANGED <<coreInit, tunnels, supplied, held, orphans, failures>>
  BY DEF OMX_FreeHandle
<1> HIDE DEF c, e
<1>7. T.doom = TRUE /\ T.told = None /\ T.base = e /\ T.ret = S.ret
  BY DEF Lost
<1> HIDE DEF T
<1>8. Handles(S) /\ States /\ Asked(S) /\ Buffers /\ Others /\ Lists(S) /\ Result(S)
      /\ Blamed(S)
  BY <1>1, <1>2 DEF Common, Rel
<1>9. States'
  <2>1. state \in [Comps -> 0 .. 3] /\ enabled = [d \in Comps |-> enabled[d]]
        /\ \A d \in Comps : enabled[d] \subseteq ToSet(PortsOf(d))
    BY <1>8 DEF States
  <2>2. state' \in [Comps -> 0 .. 3] /\ enabled' = [d \in Comps |-> enabled'[d]]
    <3>1. Absent \in 0 .. 3
      BY DEF Absent
    <3>2. state' \in [Comps -> 0 .. 3]
      BY <1>3, <1>6, <2>1, <3>1
    <3>3. enabled' = [d \in Comps |-> enabled'[d]]
      BY <1>3, <1>6, <2>1
    <3> QED
      BY <3>2, <3>3
  <2>3. \A d \in Comps : enabled'[d] = (IF d = c THEN {} ELSE enabled[d])
    BY <1>3, <1>6, <2>1
  <2> QED
    BY <2>1, <2>2, <2>3 DEF States
<1>10. Handles(T)'
  <2>1. /\ coreInit = b.inits /\ coreInit \in 0 .. 3
        /\ b.alive = {d \in Comps : state[d] # Absent}
        /\ nActiveHandles = Cardinality(b.alive)
        /\ b.clients \subseteq Clients /\ \A d \in b.alive : Owner(d) \in b.clients
    BY <1>8 DEF Handles
  <2>2. \A d \in Comps : state'[d] = (IF d = c THEN Absent ELSE state[d])
    BY <1>3, <1>6, <1>8 DEF States
  <2>3. b.alive \ {c} = {d \in Comps : state'[d] # Absent}
    BY <2>1, <2>2
  <2>4. IsFiniteSet(b.alive)
    <3>1. b.alive \subseteq Comps
      BY <2>1
    <3> QED
      BY <3>1, CompsFinite, FS_Subset
  <2>5. Cardinality(b.alive \ {c}) = Cardinality(b.alive) - 1
    BY <1>3, <2>4, FS_RemoveElement
  <2> QED
    BY <1>5, <1>6, <1>7, <2>1, <2>3, <2>5 DEF Handles
<1>11. Asked(T)'
  BY <1>5, <1>6, <1>7, <1>8 DEF Asked
<1>12. Buffers' /\ Others' /\ Lists(T)' /\ Result(T)'
  <2>1. Buffers' /\ Others'
    BY <1>6, <1>8, KeepBuffers, KeepOthers
  <2>2. Lists(T)'
    BY <1>5, <1>7, <1>8 DEF Lists, lists
  <2>3. Result(T)'
    BY <1>7, <1>8 DEF Result
  <2> QED
    BY <2>1, <2>2, <2>3
<1>13. Rel(T)'
  <2>1. Common(T)'
    BY <1>9, <1>10, <1>11, <1>12 DEF Common
  <2> QED
    BY <1>6, <1>7, <1>8, <2>1 DEF Rel, Blamed
<1>14. Heard(T)'
  BY <1>7 DEF Heard
<1>15. Safe(k, T)
  BY <1>1, <1>4
<1> QED
  BY <1>1, <1>13, <1>14, <1>15, TextOnwards

(* Calls of the core.                                                      *)
LEMMA OneMore ==
  ASSUME NEW m \in Nat, NEW n \in 0 .. m, n < m
  PROVE  n + 1 \in 0 .. m /\ n + 1 > 0
OBVIOUS

LEMMA RefusedOnwards ==
  ASSUME NEW S, NEW f, NEW k, Facing(S, f, k), Text(k), NEW r \in -5 .. 0,
         <<k, Lost(r, None, S.base)>> \in Nexts(f, k, S), OMX_Refused, ret' = r, todo' = k,
         Going', UNCHANGED <<lists, masked, related, inList, late>>
  PROVE  IInv'
<1>1. failures \in 0 .. MaxFailures
  BY DEF Facing, Rel, Common, Others
<1>2. failures < MaxFailures /\ failures' = failures + 1 /\ KeptCore
  BY DEF OMX_Refused, Refuse, KeptCore
<1>3. failures' \in 0 .. MaxFailures /\ failures' > 0
  BY <1>1, <1>2, OneMore, CoreAssumption
<1> QED
  BY <1>2, <1>3, FallOnwards

LEMMA GrowOnwards ==
  ASSUME NEW S, NEW f, NEW k, Facing(S, f, k), ~S.doom, Heard(S), Text(k),
         NEW r \in -5 .. 0, ret' = r, NEW e, NEW w, NEW T,
         T = Sync(r, S.sent, S.related, S.masked, e, w),
         e.clients = S.base.clients, e.alive = S.base.alive,
         e.inits = coreInit', coreInit' \in 0 .. 3,
         w.seen = S.world.seen, w.hand = S.world.hand, w.state = S.world.state,
         w.enabled = S.world.enabled, w.spoiled = S.world.spoiled,
         w.supplied = S.world.supplied, w.tunnels = tunnels',
         <<k, T>> \in Nexts(f, k, S), todo' = k, Going',
         UNCHANGED <<nActiveHandles, state, enabled, pending, supplied, held, orphans,
                     failures, lists, masked, related, inList, late, port_setting_changed>>
  PROVE  IInv'
<1>1. /\ T.doom = FALSE /\ T.sent = S.sent /\ T.related = S.related /\ T.masked = S.masked
      /\ T.base = e /\ T.world = w /\ T.ret = r
  BY DEF Sync
<1>2. Safe(k, T)
  BY DEF Facing
<1>3. Handles(S) /\ States /\ Asked(S) /\ Buffers /\ Others /\ Lists(S) /\ InStep(S)
  BY DEF Facing, Rel, Common
<1>4. Handles(T)' /\ Asked(T)'
  BY <1>1, <1>3 DEF Handles, Asked
<1>5. States' /\ Buffers' /\ Others'
  BY <1>3, KeepStates, KeepBuffers, KeepOthers
<1>6. Lists(T)' /\ Result(T)'
  BY <1>1, <1>3, ResultIs DEF Lists, lists
<1>7. Common(T)'
  BY <1>4, <1>5, <1>6 DEF Common
<1>8. InStep(T)'
  <2>1. Grown(S, T) /\ Copied(T)'
    BY <1>1, <1>3 DEF Grown, Copied, InStep
  <2>2. UNCHANGED <<events, flags>>
    BY DEF lists
  <2> QED
    BY <1>3, <2>1, <2>2, GrownInStep
<1>9. Rel(T)'
  BY <1>1, <1>7, <1>8 DEF Rel
<1>10. Heard(T)'
  <2>1. \A c : Unreported(c)' = Unreported(c)
    BY DEF Unreported, lists
  <2> QED
    BY <1>1, <2>1 DEF Heard
<1> QED
  BY <1>2, <1>9, <1>10, TextOnwards

LEMMA StepCore ==
  ASSUME NEW S, NEW f, NEW k, Facing(S, f, k), todo' = k, Going',
         \/ f.do = "OMX_Init" /\ OMX_Init /\ ret' = 0
         \/ f.do = "join" /\ OMX_SetupTunnel(f.a, f.b) /\ ret' = 0
         \/ f.do = "configure" /\ ret' = 0 /\ UNCHANGED core,
         UNCHANGED <<lists, masked, related, inList, late, port_setting_changed>>
  PROVE  IInv'
<1> DEFINE b == S.base
<1>1. /\ Rel(S) /\ Common(S) /\ Good(f, k, S) /\ Text(k) /\ Heard(S)
  BY DEF Facing, Rel
<1>2. ~S.doom
  BY <1>1 DEF Good, GoodLost
<1>3. InStep(S) /\ coreInit = b.inits /\ coreInit \in 0 .. 3 /\ tunnels = S.world.tunnels
  BY <1>1, <1>2 DEF Rel, Common, Handles, InStep, Copied
<1>4. 0 \in -5 .. 0
  OBVIOUS
<1>5. CASE f.do = "OMX_Init" /\ OMX_Init /\ ret' = 0
  <2> DEFINE e == Base(b.inits + 1, b.clients, b.alive)  w == S.world
             T == Sync(0, S.sent, S.related, S.masked, e, w)
  <2>1. <<k, T>> \in Nexts(f, k, S)
    BY <1>2, <1>5 DEF Nexts, NextsSync
  <2>2. b.inits < 3
    BY <1>1, <1>2, <1>5 DEF Good, GoodSync
  <2>3. e.clients = b.clients /\ e.alive = b.alive /\ e.inits = b.inits + 1
    BY DEF Base
  <2>4. /\ coreInit' = coreInit + 1
        /\ UNCHANGED <<nActiveHandles, state, enabled, pending, tunnels, supplied, held,
                       orphans, failures>>
    BY <1>5 DEF OMX_Init
  <2> HIDE DEF e
  <2>5. e.inits = coreInit' /\ coreInit' \in 0 .. 3
    BY <1>3, <2>2, <2>3, <2>4
  <2>6. T = Sync(0, S.sent, S.related, S.masked, e, w) /\ w = S.world
    OBVIOUS
  <2> HIDE DEF T, w
  <2>7. w.tunnels = tunnels'
    BY <1>3, <2>4, <2>6
  <2> QED
    BY <1>1, <1>2, <1>4, <1>5, <2>1, <2>3, <2>4, <2>5, <2>6, <2>7, GrowOnwards
<1>6. CASE f.do = "join" /\ OMX_SetupTunnel(f.a, f.b) /\ ret' = 0
  <2> DEFINE e == b  w == Linked(S.world, f.a, f.b)
             T == Sync(0, S.sent, S.related, S.masked, e, w)
  <2>1. <<k, T>> \in Nexts(f, k, S)
    BY <1>2, <1>6 DEF Nexts, NextsSync
  <2>2. /\ w.seen = S.world.seen /\ w.hand = S.world.hand /\ w.state = S.world.state
        /\ w.enabled = S.world.enabled /\ w.spoiled = S.world.spoiled
        /\ w.supplied = S.world.supplied
        /\ w.tunnels = S.world.tunnels \cup {<<f.a, f.b>>}
    BY DEF Linked, World
  <2>4. /\ tunnels' = tunnels \cup {<<f.a, f.b>>}
        /\ UNCHANGED <<coreInit, nActiveHandles, state, enabled, pending, supplied, held,
                       orphans, failures>>
    BY <1>6 DEF OMX_SetupTunnel
  <2> HIDE DEF w
  <2>5. w.tunnels = tunnels'
    BY <1>3, <2>2, <2>4
  <2>6. T = Sync(0, S.sent, S.related, S.masked, e, w) /\ e.clients = b.clients
        /\ e.alive = b.alive /\ e.inits = coreInit' /\ coreInit' \in 0 .. 3
    BY <1>3, <2>4
  <2> HIDE DEF T, e
  <2> QED
    BY <1>1, <1>2, <1>4, <1>6, <2>1, <2>2, <2>4, <2>5, <2>6, GrowOnwards
<1>7. CASE f.do = "configure" /\ ret' = 0 /\ UNCHANGED core
  <2> DEFINE T == Sync(0, S.sent, S.related, S.masked, S.base, S.world)
  <2>1. <<k, T>> \in Nexts(f, k, S)
    BY <1>2, <1>7 DEF Nexts, NextsSync
  <2> QED
    BY <1>1, <1>2, <1>4, <1>7, <2>1, SyncOnwards
<1> QED
  BY <1>5, <1>6, <1>7

LEMMA StepCoreRefused ==
  ASSUME NEW S, NEW f, NEW k, Facing(S, f, k), f.do \in {"OMX_Init", "join", "configure", "create"},
         OMX_Refused, ret' = -1, todo' = k, Going',
         UNCHANGED <<lists, masked, related, inList, late>>
  PROVE  IInv'
<1>1. Good(f, k, S) /\ Text(k)
  BY DEF Facing
<1>2. ~S.doom
  BY <1>1 DEF Good, GoodLost
<1> DEFINE r == -1
<1>3. <<k, Lost(r, None, S.base)>> \in Nexts(f, k, S)
  BY <1>2 DEF Nexts, NextsSync
<1>4. r \in -5 .. 0 /\ ret' = r
  OBVIOUS
<1> HIDE DEF r
<1> QED
  BY <1>1, <1>3, <1>4, RefusedOnwards

LEMMA StepCoreEnds ==
  ASSUME NEW S, NEW f, NEW k, Facing(S, f, k), todo' = k, Going',
         \/ f.do = "OMX_Deinit" /\ OMX_Deinit
         \/ f.do = "unjoin" /\ OMX_SetupNoTunnel(f.end),
         UNCHANGED <<lists, masked, related, inList, ret, late, port_setting_changed>>
  PROVE  IInv'
<1> DEFINE b == S.base
<1>1. /\ Rel(S) /\ Common(S) /\ Good(f, k, S) /\ Text(k) /\ Heard(S)
      /\ \A p, V : <<p, V>> \in Nexts(f, k, S) => Safe(p, V)
  BY DEF Facing, Rel
<1>2. S.doom
  BY <1>1 DEF Good, GoodSync
<1>3. Handles(S) /\ States /\ Asked(S) /\ Buffers /\ Others /\ Lists(S) /\ Result(S)
      /\ Blamed(S)
  BY <1>1, <1>2 DEF Common, Rel
<1>4. PICK i : /\ <<k, Lost(S.ret, S.told, Base(i, b.clients, b.alive))>> \in Nexts(f, k, S)
                  \/ (i = b.inits /\ <<k, S>> \in Nexts(f, k, S))
               /\ i = coreInit' /\ coreInit' \in 0 .. 3
               /\ UNCHANGED <<nActiveHandles, state, enabled, pending, supplied, held,
                              orphans, failures>>
  <2>1. coreInit = b.inits /\ coreInit \in 0 .. 3
    BY <1>3 DEF Handles
  <2>2. CASE f.do = "OMX_Deinit" /\ OMX_Deinit
    <3>1. /\ coreInit' = coreInit - 1 /\ coreInit > 0
          /\ UNCHANGED <<nActiveHandles, state, enabled, pending, supplied, held,
                         orphans, failures>>
      BY <2>2 DEF OMX_Deinit
    <3>2. b.inits - 1 = coreInit' /\ coreInit' \in 0 .. 3
      BY <2>1, <3>1
    <3>3. <<k, Lost(S.ret, S.told, Base(b.inits - 1, b.clients, b.alive))>> \in Nexts(f, k, S)
      BY <1>2, <2>2 DEF Nexts, NextsLost
    <3> QED
      BY <3>1, <3>2, <3>3
  <2>3. CASE f.do = "unjoin" /\ OMX_SetupNoTunnel(f.end)
    <3>1. UNCHANGED <<coreInit, nActiveHandles, state, enabled, pending, supplied, held,
                      orphans, failures>>
      BY <2>3 DEF OMX_SetupNoTunnel
    <3>2. <<k, S>> \in Nexts(f, k, S)
      BY <1>2, <2>3 DEF Nexts, NextsLost
    <3> QED
      BY <2>1, <3>1, <3>2
  <2> QED
    BY <2>2, <2>3
<1>5. PICK T : /\ T.doom /\ T.told = S.told /\ T.ret = S.ret /\ T.base.inits = i
               /\ T.base.clients = b.clients /\ T.base.alive = b.alive
               /\ <<k, T>> \in Nexts(f, k, S)
  <2>1. CASE i = b.inits /\ <<k, S>> \in Nexts(f, k, S)
    BY <1>2, <2>1
  <2>2. CASE <<k, Lost(S.ret, S.told, Base(i, b.clients, b.alive))>> \in Nexts(f, k, S)
    <3> DEFINE T == Lost(S.ret, S.told, Base(i, b.clients, b.alive))
    <3>1. /\ T.doom /\ T.told = S.told /\ T.ret = S.ret /\ T.base.inits = i
          /\ T.base.clients = b.clients /\ T.base.alive = b.alive
      BY DEF Lost, Base
    <3> HIDE DEF T
    <3>2. <<k, T>> \in Nexts(f, k, S)
      BY <2>2 DEF T
    <3> QED
      BY <3>1, <3>2
  <2> QED
    BY <1>4, <2>1, <2>2
<1>6. Handles(T)' /\ Asked(T)'
  BY <1>3, <1>4, <1>5 DEF Handles, Asked
<1>7. States' /\ Buffers' /\ Others'
  BY <1>3, <1>4, KeepStates, KeepBuffers, KeepOthers
<1>8. Lists(T)' /\ Result(T)'
  BY <1>3, <1>5 DEF Lists, lists, Result
<1>9. Rel(T)'
  <2>1. Common(T)'
    BY <1>6, <1>7, <1>8 DEF Common
  <2> QED
    BY <1>3, <1>4, <1>5, <2>1 DEF Rel, Blamed
<1>10. Heard(T)'
  <2>1. \A c : Unreported(c)' = Unreported(c)
    BY DEF Unreported, lists
  <2> QED
    BY <1>1, <1>2, <1>5, <2>1 DEF Heard
<1>11. Safe(k, T)
  BY <1>1, <1>5
<1> QED
  BY <1>1, <1>9, <1>10, <1>11, TextOnwards

(* A new component.                                                        *)
LEMMA BornIs ==
  ASSUME NEW w, NEW c \in Comps, NEW v, v = Born(w, c)
  PROVE  /\ v.seen = w.seen /\ v.hand = w.hand /\ v.tunnels = w.tunnels
         /\ v.supplied = w.supplied /\ v.spoiled = w.spoiled
         /\ v.state[c] = Loaded /\ v.enabled[c] = ToSet(PortsOf(c))
         /\ \A d \in Comps : d # c => v.state[d] = w.state[d] /\ v.enabled[d] = w.enabled[d]
<1>1. /\ v.seen = w.seen /\ v.hand = w.hand /\ v.tunnels = w.tunnels
      /\ v.supplied = w.supplied /\ v.spoiled = w.spoiled
      /\ v.state = Put(w.state, c, Loaded) /\ v.enabled = Put(w.enabled, c, ToSet(PortsOf(c)))
  BY DEF Born, World
<1>2. \A g, x : Put(g, c, x)[c] = x /\ \A d \in Comps \ {c} : Put(g, c, x)[d] = g[d]
  BY PutGet
<1> QED
  BY <1>1, <1>2

LEMMA BornInStep ==
  ASSUME NEW S, NEW c \in Comps, InStep(S), S.sent[c] = NoCommand, c \notin S.base.alive,
         States, NEW T, T.sent = S.sent, T.related = S.related, T.masked = S.masked,
         T.base.alive = S.base.alive \cup {c}, T.world = Born(S.world, c),
         state' = [state EXCEPT ![c] = Loaded],
         enabled' = [enabled EXCEPT ![c] = ToSet(PortsOf(c))],
         UNCHANGED <<pending, tunnels, supplied, held, failures, inList, events, flags, masked,
                     related, port_setting_changed>>
  PROVE  InStep(T)'
<1> DEFINE v == T.world
<1>1. /\ v.seen = S.world.seen /\ v.hand = S.world.hand /\ v.tunnels = S.world.tunnels
      /\ v.supplied = S.world.supplied /\ v.spoiled = S.world.spoiled
      /\ v.state[c] = Loaded /\ v.enabled[c] = ToSet(PortsOf(c))
      /\ \A d \in Comps : d # c => /\ v.state[d] = S.world.state[d]
                                   /\ v.enabled[d] = S.world.enabled[d]
  BY BornIs
<1>2. /\ state'[c] = Loaded /\ enabled'[c] = ToSet(PortsOf(c))
      /\ \A d \in Comps : d # c => state'[d] = state[d] /\ enabled'[d] = enabled[d]
  BY DEF States
<1>3. \A d : Mine(d)' = Mine(d)
  BY DEF Mine
<1>4. ASSUME NEW d \in Comps PROVE Fits(T, d)'
  <2>1. Fits(S, d)
    BY DEF InStep
  <2>2. CASE d = c
    <3>1. Mine(c) = {} /\ Clean(events[c], c)
      BY <2>1, <2>2, QuietFits
    <3>2. Waiting(T, c)'
      BY <1>1, <1>2, <1>3, <3>1 DEF Waiting
    <3> QED
      BY <2>2, <3>2 DEF Fits
  <2>3. CASE d # c
    <3>1. /\ state'[d] = state[d] /\ enabled'[d] = enabled[d] /\ events'[d] = events[d]
          /\ T.world.state[d] = S.world.state[d] /\ T.world.enabled[d] = S.world.enabled[d]
          /\ T.sent[d] = S.sent[d]
      BY <1>1, <1>2, <2>3
    <3> QED
      BY <1>3, <2>1, <3>1, FitsSame
  <2> QED
    BY <2>2, <2>3
<1>5. Copied(T)' /\ Sendings(T)' /\ InHand(T)' /\ Unused(T)'
  BY <1>1 DEF InStep, Copied, Sendings, InHand, Unused
<1>6. Excused(T)' /\ Partnered(T)' /\ Unborn(T)' /\ Silent(T)'
  BY <1>1 DEF InStep, Excused, Suspects, Partnered, Unborn, Silent
<1>7. Covered(T)'
  <2>1. Covered(S) /\ NoCommand.cmd = "none"
    BY DEF InStep, NoCommand, Command
  <2> QED
    BY <1>1, <2>1 DEF Covered
<1> QED
  BY <1>4, <1>5, <1>6, <1>7 DEF InStep

LEMMA StepCreate ==
  ASSUME NEW S, NEW f, NEW k, Facing(S, f, k), f.do = "create", Going', OMX_GetHandle(f.c),
         todo' = FlattenSeq([i \in DOMAIN PortsOf(f.c) |->
                               ilclient_disable_port(f.c, PortsOf(f.c)[i])]) \o Return(0) \o k,
         UNCHANGED <<lists, masked, related, inList, ret, late, port_setting_changed>>
  PROVE  IInv'
<1> DEFINE c == f.c  b == S.base
           t == FlattenSeq([i \in DOMAIN PortsOf(c) |-> ilclient_disable_port(c, PortsOf(c)[i])])
           q == t \o Return(0) \o k
           w == Born(S.world, c)
           e == Base(b.inits, b.clients, b.alive \cup {c})
           T == Sync(S.ret, S.sent, S.related, S.masked, e, w)
<1>1. /\ Rel(S) /\ Common(S) /\ Good(f, k, S) /\ Text(k) /\ Heard(S)
      /\ \A p, V : <<p, V>> \in Nexts(f, k, S) => Safe(p, V)
  BY DEF Facing, Rel
<1>2. ~S.doom
  BY <1>1 DEF Good, GoodLost
<1>3. c \in Comps /\ c \notin b.alive /\ Owner(c) \in b.clients /\ S.sent[c] = NoCommand
  BY <1>1, <1>2 DEF Good, GoodSync
<1>4. <<q, T>> \in Nexts(f, k, S)
  BY <1>2 DEF Nexts, NextsSync
<1>5. Text(q)
  <2>1. Text(t)
    BY <1>3, TextAllPorts
  <2>2. Text(Return(0))
    BY TextSteps
  <2> HIDE DEF t
  <2>3. Text(t \o Return(0))
    BY <2>1, <2>2, TextConcat
  <2> QED
    BY <1>1, <2>3, TextConcat
<1>6. todo' = q
  OBVIOUS
<1> HIDE DEF q, t
<1>7. e.inits = b.inits /\ e.clients = b.clients /\ e.alive = b.alive \cup {c}
  BY DEF Base
<1>8. /\ nActiveHandles' = nActiveHandles + 1
      /\ state' = [state EXCEPT ![c] = Loaded]
      /\ enabled' = [enabled EXCEPT ![c] = ToSet(PortsOf(c))]
      /\ UNCHANGED <<coreInit, pending, tunnels, supplied, held, orphans, failures>>
  BY DEF OMX_GetHandle
<1>9. w = Born(S.world, c)
  OBVIOUS
<1> HIDE DEF e, w, c
<1>10. /\ T.doom = FALSE /\ T.sent = S.sent /\ T.related = S.related /\ T.masked = S.masked
       /\ T.base = e /\ T.world = w /\ T.ret = S.ret
  BY DEF Sync
<1>11. Safe(q, T)
  BY <1>1, <1>4
<1> HIDE DEF T
<1>12. Handles(S) /\ States /\ Asked(S) /\ Buffers /\ Others /\ Lists(S) /\ Result(S)
       /\ InStep(S)
  BY <1>1, <1>2 DEF Common, Rel
<1>13. /\ state'[c] = Loaded /\ enabled'[c] = ToSet(PortsOf(c))
       /\ \A d \in Comps : d # c => state'[d] = state[d] /\ enabled'[d] = enabled[d]
  BY <1>3, <1>8, <1>12 DEF States
<1>14. States'
  <2>1. state \in [Comps -> 0 .. 3] /\ enabled = [d \in Comps |-> enabled[d]]
        /\ \A d \in Comps : enabled[d] \subseteq ToSet(PortsOf(d))
    BY <1>12 DEF States
  <2>2. Loaded \in 0 .. 3
    BY DEF Loaded
  <2>3. state' \in [Comps -> 0 .. 3]
    BY <1>3, <1>8, <2>1, <2>2
  <2>4. enabled' = [d \in Comps |-> enabled'[d]]
    BY <1>3, <1>8, <2>1
  <2>5. \A d \in Comps : enabled'[d] \subseteq ToSet(PortsOf(d))
    BY <1>13, <2>1
  <2> QED
    BY <2>3, <2>4, <2>5 DEF States
<1>15. Handles(T)'
  <2>1. /\ coreInit = b.inits /\ coreInit \in 0 .. 3
        /\ b.alive = {d \in Comps : state[d] # Absent}
        /\ nActiveHandles = Cardinality(b.alive)
        /\ b.clients \subseteq Clients /\ \A d \in b.alive : Owner(d) \in b.clients
    BY <1>12 DEF Handles
  <2>2. b.alive \cup {c} = {d \in Comps : state'[d] # Absent}
    <3>1. Loaded # Absent
      BY DEF Loaded, Absent
    <3> QED
      BY <1>3, <1>13, <2>1, <3>1
  <2>3. IsFiniteSet(b.alive)
    <3>1. b.alive \subseteq Comps
      BY <2>1
    <3> QED
      BY <3>1, CompsFinite, FS_Subset
  <2>4. Cardinality(b.alive \cup {c}) = Cardinality(b.alive) + 1
    BY <1>3, <2>3, FS_AddElement
  <2> QED
    BY <1>3, <1>7, <1>8, <1>10, <2>1, <2>2, <2>4 DEF Handles
<1>16. Asked(T)'
  BY <1>7, <1>8, <1>10, <1>12 DEF Asked
<1>17. Buffers' /\ Others'
  BY <1>8, <1>12, KeepBuffers, KeepOthers
<1>18. Lists(T)' /\ Result(T)'
  BY <1>7, <1>10, <1>12 DEF Lists, lists, Result
<1>19. Common(T)'
  BY <1>14, <1>15, <1>16, <1>17, <1>18 DEF Common
<1>20. InStep(T)'
  <2>1. UNCHANGED <<events, flags>>
    BY DEF lists
  <2>2. T.base.alive = S.base.alive \cup {c} /\ T.world = Born(S.world, c)
    BY <1>7, <1>9, <1>10
  <2> QED
    BY <1>3, <1>8, <1>10, <1>12, <2>1, <2>2, BornInStep
<1>21. Rel(T)'
  BY <1>10, <1>19, <1>20 DEF Rel
<1>22. Heard(T)'
  <2>1. \A d : Unreported(d)' = Unreported(d)
    BY DEF Unreported, lists
  <2> QED
    BY <1>1, <1>2, <1>10, <2>1 DEF Heard
<1> QED
  BY <1>5, <1>6, <1>11, <1>21, <1>22, TextOnwards

(* Buffers for a port.                                                     *)
QueueNow(f) == [f EXCEPT !.do = "queue"]

LEMMA LessMore ==
  ASSUME NEW a \in Nat, NEW b \in Nat, NEW h \in Nat, NEW m \in Nat, NEW n \in Nat, m <= n
  PROVE  (a + b + h <= m => a + b + h <= n) /\ (a + b <= m => a + b <= n)
OBVIOUS

LEMMA RequestIs ==
  ASSUME NEW c, NEW n, NEW l, NEW f, f = [do |-> "supply", c |-> c, n |-> n, list |-> l],
         NEW m, NEW g
  PROVE  /\ g = [f EXCEPT !.do = "queue"] => g.c = c /\ g.n = n /\ g.list = l /\ g.do = "queue"
         /\ g = [f EXCEPT !.list = m] => g.c = c /\ g.n = n /\ g.list = m /\ g.do = "supply"
         /\ g = [[f EXCEPT !.do = "queue"] EXCEPT !.list = m] =>
              g.c = c /\ g.n = n /\ g.list = m /\ g.do = "queue"
<1>1. g = [f EXCEPT !.do = "queue"] => g.c = c /\ g.n = n /\ g.list = l /\ g.do = "queue"
  OBVIOUS
<1>2. g = [f EXCEPT !.list = m] => g.c = c /\ g.n = n /\ g.list = m /\ g.do = "supply"
  OBVIOUS
<1>3. g = [[f EXCEPT !.do = "queue"] EXCEPT !.list = m] =>
        g.c = c /\ g.n = n /\ g.list = m /\ g.do = "queue"
  OBVIOUS
<1> QED
  BY <1>1, <1>2, <1>3

LEMMA FilledIs ==
  ASSUME NEW c, NEW n, NEW l \in Seq(Nat), NEW f,
         f = [do |-> "supply", c |-> c, n |-> n, list |-> l], NEW g, g = Filled(f)
  PROVE  /\ g.c = c /\ Len(g.list) = Len(l) + 1
         /\ g.do = "supply" \/ g.do = "queue"
<1> DEFINE m == Full(l)
<1>1. Len(m) = Len(l) + 1
  BY LenProperties, AppendProperties DEF Full
<1>2. f.list = l
  OBVIOUS
<1>3. \/ g = [[f EXCEPT !.do = "queue"] EXCEPT !.list = m]
      \/ g = [f EXCEPT !.list = m]
  BY <1>2 DEF Filled
<1> HIDE DEF m
<1>4. g.c = c /\ g.list = m /\ (g.do = "supply" \/ g.do = "queue")
  BY <1>3, RequestIs
<1> QED
  BY <1>1, <1>4

LEMMA QueueNowIs ==
  ASSUME NEW c, NEW n, NEW l, NEW f, f = [do |-> "supply", c |-> c, n |-> n, list |-> l]
  PROVE  QueueNow(f).do = "queue" /\ QueueNow(f).c = c /\ QueueNow(f).list = l
BY RequestIs DEF QueueNow

LEMMA BeforeQueue ==
  ASSUME NEW T, NEW g, NEW k, IsSeq(k), Text(k), NEW p, p = <<g>> \o k,
         g.do = "supply" \/ g.do = "queue", Heard(T)',
         g.do = "queue" =>
           /\ held'[g.c] = <<>> /\ inList'[g.c] = <<>> /\ Len(g.list) <= supplied'[g.c]
           /\ ~T.doom /\ g.c = video_decode => T.world.hand = 0
  PROVE  AtTop(T, p)' /\ Shaped(p)
<1>1. p # <<>> /\ Head(p) = g /\ Tail(p) = k
  BY SeqPush
<1>2. Heeded(T, g)'
  BY DEF Heard, Heeded
<1>3. Before(T, g, k)'
  BY DEF Before
<1>4. AtTop(T, p)'
  BY <1>1, <1>2, <1>3 DEF AtTop
<1>5. Shaped(p)
  BY <1>1 DEF Shaped
<1> QED
  BY <1>4, <1>5

LEMMA SupplyFacts ==
  ASSUME NEW S, NEW f, NEW k, Facing(S, f, k), f.do = "supply", NEW c, c = f.c
  PROVE  /\ ~S.doom /\ c \in Comps /\ S.sent[c] = Command(c, "PortEnable", f.n)
         /\ S.sent[c] # NoCommand
         /\ S.world.supplied[c] = Len(f.list) /\ Len(f.list) < NumBuffers
         /\ f = [do |-> "supply", c |-> f.c, n |-> f.n, list |-> f.list]
         /\ f.list \in Seq(Nat)
         /\ supplied = S.world.supplied /\ supplied[c] < NumBuffers
         /\ held[c] = <<>> /\ inList[c] = <<>> /\ (c = video_decode => S.world.hand = 0)
<1>1. /\ Rel(S) /\ Good(f, k, S)
  BY DEF Facing
<1>2. ~S.doom
  BY <1>1 DEF Good, GoodLost
<1>3. /\ c \in Comps /\ S.sent[c] = Command(c, "PortEnable", f.n)
      /\ S.world.supplied[c] = Len(f.list) /\ Len(f.list) < NumBuffers
      /\ f = [do |-> "supply", c |-> f.c, n |-> f.n, list |-> f.list]
      /\ f.list \in Seq(Nat)
  BY <1>1, <1>2 DEF Good, GoodSync
<1>4. supplied = S.world.supplied /\ Unused(S)
  BY <1>1, <1>2 DEF Rel, InStep, Copied
<1>5. held[c] = <<>> /\ inList[c] = <<>> /\ (c = video_decode => S.world.hand = 0)
  BY <1>3, <1>4 DEF Unused
<1>6. S.sent[c] # NoCommand
  <2>1. Command(c, "PortEnable", f.n).cmd = "PortEnable" /\ NoCommand.cmd = "none"
    BY DEF Command, NoCommand
  <2> QED
    BY <1>3, <2>1
<1> QED
  BY <1>2, <1>3, <1>4, <1>5, <1>6

LEMMA GivenIs ==
  ASSUME NEW w, NEW c \in Comps, NEW v, v = Given(w, c)
  PROVE  /\ v.seen = w.seen /\ v.hand = w.hand /\ v.tunnels = w.tunnels
         /\ v.state = w.state /\ v.enabled = w.enabled /\ v.spoiled = w.spoiled
         /\ v.supplied = Put(w.supplied, c, w.supplied[c] + 1)
BY DEF Given, World

LEMMA StepSupplied ==
  ASSUME NEW S, NEW f, NEW k, Facing(S, f, k), f.do = "supply", Going', OMX_UseBuffer(f.c),
         todo' = <<Filled(f)>> \o k,
         UNCHANGED <<lists, masked, related, inList, ret, late, port_setting_changed>>
  PROVE  IInv'
<1> DEFINE c == f.c  g == Filled(f)  p == <<g>> \o k
           w == Given(S.world, c)
           T == Sync(S.ret, S.sent, S.related, S.masked, S.base, w)
<1>1. /\ Rel(S) /\ Common(S) /\ IsSeq(k) /\ Text(k) /\ Heard(S)
      /\ \A q, V : <<q, V>> \in Nexts(f, k, S) => Safe(q, V)
  BY DEF Facing, Rel
<1>2. /\ ~S.doom /\ c \in Comps /\ S.sent[c] = Command(c, "PortEnable", f.n)
      /\ S.world.supplied[c] = Len(f.list) /\ Len(f.list) < NumBuffers
      /\ f = [do |-> "supply", c |-> f.c, n |-> f.n, list |-> f.list]
      /\ f.list \in Seq(Nat)
      /\ supplied = S.world.supplied /\ supplied[c] < NumBuffers
      /\ held[c] = <<>> /\ inList[c] = <<>> /\ (c = video_decode => S.world.hand = 0)
  BY SupplyFacts
<1>3. <<p, T>> \in Nexts(f, k, S)
  BY <1>2 DEF Nexts, NextsSync
<1>4. /\ g.c = c /\ Len(g.list) = Len(f.list) + 1
      /\ g.do = "supply" \/ g.do = "queue"
  <2> DEFINE l == f.list  n == f.n
  <2>1. f = [do |-> "supply", c |-> c, n |-> n, list |-> l] /\ l \in Seq(Nat) /\ g = Filled(f)
    BY <1>2
  <2> HIDE DEF c, l, n, g
  <2>2. g.c = c /\ Len(g.list) = Len(l) + 1 /\ (g.do = "supply" \/ g.do = "queue")
    BY <2>1, FilledIs
  <2> QED
    BY <2>2 DEF l
<1>5. /\ supplied' = [supplied EXCEPT ![c] = supplied[c] + 1]
      /\ UNCHANGED <<coreInit, nActiveHandles, state, enabled, pending, tunnels, held, orphans,
                     failures>>
  BY DEF OMX_UseBuffer
<1>6. todo' = p
  OBVIOUS
<1> HIDE DEF c, g
<1>7. /\ w.seen = S.world.seen /\ w.hand = S.world.hand /\ w.tunnels = S.world.tunnels
      /\ w.state = S.world.state /\ w.enabled = S.world.enabled /\ w.spoiled = S.world.spoiled
      /\ w.supplied = Put(S.world.supplied, c, S.world.supplied[c] + 1)
  BY <1>2, GivenIs
<1> HIDE DEF w
<1>8. /\ T.doom = FALSE /\ T.sent = S.sent /\ T.related = S.related /\ T.masked = S.masked
      /\ T.base = S.base /\ T.world = w /\ T.ret = S.ret
  BY DEF Sync
<1> HIDE DEF T
<1>9. Handles(S) /\ States /\ Asked(S) /\ Buffers /\ Others /\ Lists(S) /\ Result(S)
      /\ InStep(S)
  BY <1>1, <1>2 DEF Common, Rel
<1>10. /\ supplied \in [Comps -> 0 .. NumBuffers] /\ supplied[c] \in 0 .. NumBuffers
       /\ supplied'[c] = supplied[c] + 1 /\ supplied'[c] \in 0 .. NumBuffers
       /\ \A d \in Comps : d # c => supplied'[d] = supplied[d]
  <2>1. supplied \in [Comps -> 0 .. NumBuffers] /\ supplied[c] \in 0 .. NumBuffers
    BY <1>2, <1>9 DEF Buffers
  <2>2. supplied'[c] = supplied[c] + 1 /\ \A d \in Comps : d # c => supplied'[d] = supplied[d]
    BY <1>2, <1>5, <2>1
  <2>3. supplied[c] + 1 \in 0 .. NumBuffers
    BY <1>2, <2>1, OneMore, CoreAssumption
  <2> QED
    BY <2>1, <2>2, <2>3
<1>11. supplied' \in [Comps -> 0 .. NumBuffers]
  BY <1>2, <1>5, <1>10
<1>12. \A d \in Comps : supplied[d] \in Nat /\ supplied'[d] \in Nat /\ supplied[d] <= supplied'[d]
  <2>1. ASSUME NEW d \in Comps
        PROVE supplied[d] \in Nat /\ supplied'[d] \in Nat /\ supplied[d] <= supplied'[d]
    <3>1. supplied[d] \in 0 .. NumBuffers
      BY <1>10
    <3>2. CASE d = c
      BY <1>10, <3>1, <3>2
    <3>3. CASE d # c
      BY <1>10, <3>1, <3>3
    <3> QED
      BY <3>2, <3>3
  <2> QED
    BY <2>1
<1>13. UNCHANGED <<held, inList, events, flags>>
  BY <1>5 DEF lists
<1>14. Buffers'
  <2>1. /\ held \in [Comps -> Seq(Nat)] /\ inList \in [Comps -> Seq(Nat)]
        /\ \A d \in Comps : Len(held[d]) + Len(inList[d]) <= supplied[d]
    BY <1>9 DEF Buffers
  <2>2. ASSUME NEW d \in Comps PROVE Len(held[d]) + Len(inList[d]) <= supplied'[d]
    <3>1. Len(held[d]) \in Nat /\ Len(inList[d]) \in Nat
      BY <2>1, LenProperties
    <3> QED
      BY <1>12, <2>1, <3>1, LessMore
  <2> QED
    BY <1>11, <1>13, <2>1, <2>2 DEF Buffers
<1>15. Common(T)'
  <2>1. Handles(T)' /\ Asked(T)'
    BY <1>5, <1>8, <1>9 DEF Handles, Asked
  <2>2. States' /\ Others' /\ Lists(T)' /\ Result(T)'
    BY <1>5, <1>8, <1>9, KeepStates, KeepOthers DEF Lists, lists, Result
  <2> QED
    BY <1>14, <2>1, <2>2 DEF Common
<1>16. Copied(T)'
  <2>1. supplied' = Put(supplied, c, supplied[c] + 1)
    BY <1>5, <1>10 DEF Put
  <2> QED
    BY <1>2, <1>5, <1>7, <1>8, <1>9, <2>1 DEF Copied, InStep
<1>17. InHand(T)' /\ Unused(T)'
  <2> DEFINE d == video_decode
  <2>1. d \in Comps
    BY ComponentsAssumption DEF Components
  <2>2. /\ S.world.hand \in Nat /\ Len(held[d]) + Len(inList[d]) + S.world.hand <= supplied[d]
    BY <1>9 DEF InStep, InHand
  <2>3. Len(held[d]) \in Nat /\ Len(inList[d]) \in Nat
    BY <1>9, <2>1, LenProperties DEF Buffers
  <2> HIDE DEF d
  <2>4. Len(held[d]) + Len(inList[d]) + S.world.hand <= supplied'[d]
    <3> DEFINE x == Len(held[d])  y == Len(inList[d])  z == S.world.hand
               m == supplied[d]  n == supplied'[d]
    <3>1. /\ x \in Nat /\ y \in Nat /\ z \in Nat /\ m \in Nat /\ n \in Nat
          /\ m <= n /\ x + y + z <= m
      BY <1>12, <2>1, <2>2, <2>3
    <3> HIDE DEF x, y, z, m, n
    <3>2. x + y + z <= n
      BY <3>1, LessMore
    <3> QED
      BY <3>2 DEF x, y, z, n
  <2>5. InHand(T)'
    BY <1>7, <1>8, <1>13, <2>2, <2>4 DEF InHand, d
  <2>6. \A x \in Comps : supplied'[x] < NumBuffers => supplied[x] < NumBuffers
    BY <1>12, CoreAssumption
  <2>7. Unused(T)'
    BY <1>7, <1>8, <1>9, <1>13, <2>1, <2>6 DEF Unused, InStep, d
  <2> QED
    BY <2>5, <2>7
<1>18. InStep(T)'
  <2>1. ASSUME NEW d \in Comps PROVE Fits(T, d)'
    <3>1. Fits(S, d) /\ Mine(d)' = Mine(d)
      BY <1>5, <1>9 DEF InStep, Mine
    <3> QED
      BY <1>5, <1>7, <1>8, <1>13, <3>1, FitsSame
  <2>2. Sendings(T)' /\ Excused(T)' /\ Partnered(T)' /\ Unborn(T)' /\ Silent(T)' /\ Covered(T)'
    BY <1>5, <1>7, <1>8, <1>9, <1>13
       DEF InStep, Sendings, Excused, Suspects, Partnered, Unborn, Silent, Covered
  <2> QED
    BY <1>16, <1>17, <2>1, <2>2 DEF InStep
<1>19. Rel(T)'
  BY <1>8, <1>15, <1>18 DEF Rel
<1>20. Heard(T)'
  BY <1>1, <1>2, <1>8, <1>13 DEF Heard, Unreported
<1>21. AtTop(T, p)' /\ Shaped(p)
  <2>1. held'[g.c] = <<>> /\ inList'[g.c] = <<>> /\ Len(g.list) <= supplied'[g.c]
    BY <1>2, <1>4, <1>10, <1>13
  <2>2. g.c = video_decode => T.world.hand = 0
    BY <1>2, <1>4, <1>7, <1>8
  <2> QED
    BY <1>1, <1>4, <1>20, <2>1, <2>2, BeforeQueue
<1> QED
  BY <1>1, <1>3, <1>6, <1>19, <1>21, Onwards

LEMMA AfterEnable ==
  ASSUME NEW w, NEW x, NEW c \in Comps, x.c = c, x.cmd = "PortEnable", NEW n, x.n = n
  PROVE  After(w, x).enabled[c] = w.enabled[c] \cup {n}
BY DEF After, World, NewPorts, Put

LEMMA StepShort ==
  ASSUME NEW S, NEW f, NEW k, Facing(S, f, k), f.do = "supply", Going',
         Enabling(f.c, f.n) => OMX_Refused, ~Enabling(f.c, f.n) => UNCHANGED core,
         todo' = <<QueueNow(f)>> \o k,
         UNCHANGED <<lists, masked, related, inList, ret, late, port_setting_changed>>
  PROVE  IInv'
<1> DEFINE c == f.c  n == f.n  l == f.list  g == QueueNow(f)  p == <<g>> \o k
           T == Lost(S.ret, c, S.base)
<1>1. /\ Rel(S) /\ Common(S) /\ IsSeq(k) /\ Text(k) /\ Heard(S)
      /\ \A q, V : <<q, V>> \in Nexts(f, k, S) => Safe(q, V)
  BY DEF Facing, Rel
<1>2. /\ ~S.doom /\ c \in Comps /\ S.sent[c] = Command(c, "PortEnable", n)
      /\ S.sent[c] # NoCommand
      /\ S.world.supplied[c] = Len(l) /\ Len(l) < NumBuffers
      /\ f = [do |-> "supply", c |-> c, n |-> n, list |-> l]
      /\ l \in Seq(Nat)
      /\ supplied = S.world.supplied /\ supplied[c] < NumBuffers
      /\ held[c] = <<>> /\ inList[c] = <<>> /\ (c = video_decode => S.world.hand = 0)
  BY SupplyFacts
<1>3. <<p, T>> \in Nexts(f, k, S)
  BY <1>2 DEF Nexts, NextsSync, QueueNow
<1>4. g.do = "queue" /\ g.c = c /\ g.list = l
  <2>1. f = [do |-> "supply", c |-> c, n |-> n, list |-> l]
    BY <1>2
  <2> HIDE DEF c, n, l
  <2> QED
    BY <2>1, QueueNowIs
<1>5. todo' = p
  OBVIOUS
<1>6. failures \in 0 .. MaxFailures /\ Fits(S, c) /\ States
  BY <1>1, <1>2 DEF Common, Others, Rel, InStep
<1>7. KeptCore /\ failures' \in 0 .. MaxFailures /\ failures' > 0
  <2>1. CASE Enabling(c, n)
    <3>1. failures < MaxFailures /\ failures' = failures + 1 /\ KeptCore
      BY <2>1 DEF OMX_Refused, Refuse, KeptCore
    <3> QED
      BY <1>6, <3>1, OneMore, CoreAssumption
  <2>2. CASE ~Enabling(c, n)
    <3>1. KeptCore /\ failures' = failures
      BY <2>2 DEF core, KeptCore
    <3>2. Command(c, "PortEnable", n) \notin pending /\ n \notin enabled[c]
      BY <2>2 DEF Enabling
    <3> DEFINE x == Command(c, "PortEnable", n)
    <3>3. x.c = c /\ x.cmd = "PortEnable" /\ x.n = n /\ S.sent[c] = x /\ S.sent[c] # NoCommand
          /\ x \notin pending
      BY <1>2, <3>2 DEF Command
    <3> HIDE DEF x, c, n
    <3>4. ~Waiting(S, c)
      BY <3>3 DEF Waiting, Mine
    <3>5. ~Over(S, c)
      <4>1. After(S.world, x).enabled[c] = S.world.enabled[c] \cup {n}
        <5>1. c \in Comps /\ x.c = c /\ x.cmd = "PortEnable" /\ x.n = n
          BY <1>2, <3>3
        <5> QED
          BY <5>1, AfterEnable
      <4> QED
        BY <3>2, <3>3, <4>1 DEF Over
    <3>6. failures > 0
      BY <1>6, <3>4, <3>5 DEF Fits, Refused
    <3> QED
      BY <1>6, <3>1, <3>6
  <2> QED
    BY <2>1, <2>2
<1> HIDE DEF c, n, l, g
<1>8. T.doom = TRUE /\ T.told = c /\ T.base = S.base /\ T.ret = S.ret
  BY DEF Lost
<1> HIDE DEF T
<1>9. Rel(T)'
  <2>1. Result(T)'
    BY <1>1, <1>8 DEF Common, Result
  <2>2. Common(T)'
    BY <1>1, <1>7, <1>8, <2>1, CommonMore
  <2> QED
    BY <1>2, <1>7, <1>8, <2>2 DEF Rel, Blamed
<1>10. Heard(T)'
  <2>1. Unreported(c)
    BY <1>1, <1>2 DEF Heard
  <2>2. Unreported(c)'
    BY <2>1 DEF Unreported, lists
  <2> QED
    BY <1>8, <2>2 DEF Heard
<1>11. AtTop(T, p)' /\ Shaped(p)
  <2>1. held'[g.c] = <<>> /\ inList'[g.c] = <<>>
    BY <1>2, <1>4, <1>7 DEF KeptCore
  <2>2. Len(g.list) <= supplied'[g.c]
    <3>1. g.list = l /\ supplied'[g.c] = Len(l) /\ Len(l) \in Nat
      BY <1>2, <1>4, <1>7, LenProperties DEF KeptCore
    <3> QED
      BY <3>1
  <2>3. ~T.doom /\ g.c = video_decode => T.world.hand = 0
    BY <1>8
  <2> QED
    BY <1>1, <1>4, <1>10, <2>1, <2>2, <2>3, BeforeQueue
<1> QED
  BY <1>1, <1>3, <1>5, <1>9, <1>11, Onwards

LEMMA QueuedBuffers ==
  ASSUME Buffers, NEW c \in Comps, NEW l \in Seq(Nat), held[c] = <<>>, inList[c] = <<>>,
         Len(l) <= supplied[c], inList' = [inList EXCEPT ![c] = l \o inList[c]],
         UNCHANGED <<held, supplied>>
  PROVE  Buffers' /\ inList'[c] = l /\ \A d \in Comps : d # c => inList'[d] = inList[d]
<1>1. /\ held \in [Comps -> Seq(Nat)] /\ inList \in [Comps -> Seq(Nat)]
      /\ supplied \in [Comps -> 0 .. NumBuffers]
      /\ \A d \in Comps : Len(held[d]) + Len(inList[d]) <= supplied[d]
  BY DEF Buffers
<1>2. l \o inList[c] = l
  BY ConcatEmptySeq
<1>3. inList'[c] = l /\ (\A d \in Comps : d # c => inList'[d] = inList[d])
      /\ inList' \in [Comps -> Seq(Nat)]
  BY <1>1, <1>2
<1>4. Len(held[c]) = 0 /\ Len(l) \in Nat
  BY EmptyLen, LenProperties
<1>5. Len(held[c]) + Len(l) <= supplied[c]
  <2> DEFINE x == Len(held[c])  y == Len(l)  m == supplied[c]
  <2>1. x = 0 /\ y \in Nat /\ y <= m
    BY <1>4
  <2> HIDE DEF x, y, m
  <2>2. x + y <= m
    BY <2>1
  <2> QED
    BY <2>2 DEF x, y, m
<1> QED
  BY <1>1, <1>3, <1>5 DEF Buffers

LEMMA StepQueue ==
  ASSUME NEW S, NEW f, NEW k, Facing(S, f, k), f.do = "queue", Going',
         inList' = [inList EXCEPT ![f.c] = f.list \o inList[f.c]],
         Len(f.list) = NumBuffers => todo' = Wait(f.c, "PortEnable", f.n) \o k /\ UNCHANGED ret,
         Len(f.list) # NumBuffers => todo' = k /\ ret' = -1,
         UNCHANGED <<core, lists, masked, related, late, port_setting_changed>>
  PROVE  IInv'
<1> DEFINE c == f.c  l == f.list
<1>1. /\ Rel(S) /\ Common(S) /\ Text(k) /\ Heard(S) /\ Good(f, k, S) /\ Before(S, f, k)
      /\ \A q, V : <<q, V>> \in Nexts(f, k, S) => Safe(q, V)
  BY DEF Facing, Rel
<1>2. /\ c \in Comps /\ l \in Seq(Nat)
      /\ ~S.doom => Len(l) = NumBuffers
      /\ S.doom => Len(l) < NumBuffers /\ S.told = c
  BY <1>1 DEF Good, GoodSync, GoodLost
<1>3. /\ held[c] = <<>> /\ inList[c] = <<>> /\ Len(l) <= supplied[c]
      /\ ~S.doom /\ c = video_decode => S.world.hand = 0
  BY <1>1 DEF Before
<1>4. Handles(S) /\ States /\ Asked(S) /\ Buffers /\ Others /\ Lists(S) /\ Result(S)
  BY <1>1 DEF Common
<1>5. UNCHANGED <<coreInit, nActiveHandles, state, enabled, pending, tunnels, supplied, held,
                  orphans, failures, events, flags>>
  BY DEF core, lists
<1>6. inList' = [inList EXCEPT ![c] = l \o inList[c]]
  OBVIOUS
<1>7. CASE S.doom
  <2> DEFINE r == -1
             T == Lost(r, S.told, S.base)
  <2>1. <<k, T>> \in Nexts(f, k, S)
    BY <1>7 DEF Nexts, NextsLost
  <2>2. Len(l) # NumBuffers
    <3> DEFINE x == Len(l)
    <3>1. x \in Nat /\ x < NumBuffers
      BY <1>2, <1>7, LenProperties
    <3> HIDE DEF x
    <3>2. x # NumBuffers
      BY <3>1, CoreAssumption
    <3> QED
      BY <3>2 DEF x
  <2>3. todo' = k /\ ret' = r /\ r \in -5 .. 0
    BY <2>2
  <2>4. T.doom = TRUE /\ T.told = S.told /\ T.base = S.base /\ T.ret = r
    BY DEF Lost
  <2> HIDE DEF T, r, c, l
  <2>5. Buffers'
    BY <1>2, <1>3, <1>4, <1>5, <1>6, QueuedBuffers
  <2>6. Handles(T)' /\ Asked(T)' /\ States' /\ Others'
    BY <1>4, <1>5, <2>4, KeepStates, KeepOthers DEF Handles, Asked
  <2>7. Lists(T)' /\ Result(T)'
    BY <1>4, <2>3, <2>4, ResultIs DEF Lists, lists
  <2>8. Rel(T)'
    <3>1. Common(T)'
      BY <2>5, <2>6, <2>7 DEF Common
    <3>2. Blamed(T)'
      BY <1>1, <1>5, <1>7, <2>4 DEF Rel, Blamed
    <3> QED
      BY <2>4, <3>1, <3>2 DEF Rel
  <2>9. Heard(T)'
    BY <1>1, <1>5, <1>7, <2>4 DEF Heard, Unreported
  <2> QED
    BY <1>1, <2>1, <2>3, <2>8, <2>9, TextOnwards
<1>8. CASE ~S.doom
  <2> DEFINE q == Wait(c, "PortEnable", f.n) \o k
  <2>1. <<q, S>> \in Nexts(f, k, S)
    BY <1>8 DEF Nexts, NextsSync
  <2>2. todo' = q /\ UNCHANGED ret
    BY <1>2, <1>8
  <2>3. Text(q)
    BY <1>1, TextSteps, TextConcat
  <2> HIDE DEF q, c, l
  <2>4. Buffers' /\ inList'[c] = l /\ \A d \in Comps : d # c => inList'[d] = inList[d]
    BY <1>2, <1>3, <1>4, <1>5, <1>6, QueuedBuffers
  <2>5. Handles(S)' /\ Asked(S)' /\ States' /\ Others'
    BY <1>4, <1>5, KeepStates, KeepOthers DEF Handles, Asked
  <2>6. Lists(S)' /\ Result(S)'
    BY <1>4, <2>2 DEF Lists, lists, Result
  <2>7. Common(S)'
    BY <2>4, <2>5, <2>6 DEF Common
  <2>8. InStep(S)
    BY <1>1, <1>8 DEF Rel
  <2>9. InHand(S)'
    <3>1. S.world.hand \in Nat /\ Len(held[video_decode]) + Len(inList[video_decode]) + S.world.hand
            <= supplied[video_decode]
      BY <2>8 DEF InStep, InHand
    <3>2. CASE c = video_decode
      <4> DEFINE x == Len(held[c])  y == Len(l)  z == S.world.hand  m == supplied[c]
      <4>1. x = 0 /\ y \in Nat /\ y <= m /\ z = 0
        BY <1>2, <1>3, <1>8, <3>2, EmptyLen, LenProperties
      <4> HIDE DEF x, y, z, m
      <4>2. x + y + z <= m
        BY <4>1
      <4> QED
        BY <1>5, <2>4, <3>1, <3>2, <4>2 DEF InHand, x, y, z, m
    <3>3. CASE c # video_decode
      <4>1. inList'[video_decode] = inList[video_decode]
        BY <2>4, <3>3, ComponentsAssumption DEF Components
      <4> QED
        BY <1>5, <3>1, <4>1 DEF InHand
    <3> QED
      BY <3>2, <3>3
  <2>10. Unused(S)'
    <3>1. ~(supplied[c] < NumBuffers)
      <4> DEFINE m == supplied[c]
      <4>1. m \in 0 .. NumBuffers /\ NumBuffers <= m
        BY <1>2, <1>3, <1>4, <1>8 DEF Buffers
      <4> HIDE DEF m
      <4>2. ~(m < NumBuffers)
        BY <4>1, CoreAssumption
      <4> QED
        BY <4>2 DEF m
    <3> QED
      BY <1>5, <2>4, <2>8, <3>1 DEF Unused, InStep
  <2>11. InStep(S)'
    <3>1. ASSUME NEW d \in Comps PROVE Fits(S, d)'
      <4>1. Fits(S, d) /\ Mine(d)' = Mine(d)
        BY <1>5, <2>8 DEF InStep, Mine
      <4> QED
        BY <1>5, <4>1, FitsSame
    <3>2. /\ Copied(S)' /\ Sendings(S)' /\ Excused(S)' /\ Partnered(S)' /\ Unborn(S)'
          /\ Silent(S)' /\ Covered(S)'
      BY <1>5, <2>8
         DEF InStep, Copied, Sendings, Excused, Suspects, Partnered, Unborn, Silent, Covered
    <3> QED
      BY <2>9, <2>10, <3>1, <3>2 DEF InStep
  <2>12. Rel(S)'
    BY <1>8, <2>7, <2>11 DEF Rel
  <2>13. Heard(S)'
    BY <1>1, <1>5, HeardSame
  <2> QED
    BY <1>1, <2>1, <2>2, <2>3, <2>12, <2>13, TextOnwards
<1> QED
  BY <1>7, <1>8

(* Freeing the buffers that are back.                                      *)
LEMMA DrainedBuffers ==
  ASSUME Buffers, NEW c \in Comps, supplied' = [supplied EXCEPT ![c] = supplied[c] - Len(inList[c])],
         inList' = [inList EXCEPT ![c] = <<>>], UNCHANGED held
  PROVE  Buffers' /\ inList'[c] = <<>>
<1>1. /\ held \in [Comps -> Seq(Nat)] /\ inList \in [Comps -> Seq(Nat)]
      /\ supplied \in [Comps -> 0 .. NumBuffers]
      /\ \A d \in Comps : Len(held[d]) + Len(inList[d]) <= supplied[d]
  BY DEF Buffers
<1>2. /\ inList'[c] = <<>> /\ supplied'[c] = supplied[c] - Len(inList[c])
      /\ \A d \in Comps : d # c => inList'[d] = inList[d] /\ supplied'[d] = supplied[d]
  BY <1>1
<1> DEFINE x == Len(held[c])  y == Len(inList[c])  m == supplied[c]
<1>3. x \in Nat /\ y \in Nat /\ m \in 0 .. NumBuffers /\ x + y <= m
  BY <1>1, LenProperties
<1>4. Len(inList'[c]) = 0 /\ inList'[c] \in Seq(Nat)
  BY <1>2, EmptyLen
<1>5. supplied'[c] = m - y
  BY <1>2
<1> HIDE DEF x, y, m
<1>6. m - y \in 0 .. NumBuffers /\ x + 0 <= m - y
  BY <1>3, CoreAssumption
<1>7. inList' \in [Comps -> Seq(Nat)]
  BY <1>1, <1>4
<1>8. supplied' \in [Comps -> 0 .. NumBuffers]
  <2>1. supplied' = [supplied EXCEPT ![c] = m - y]
    BY DEF m, y
  <2> QED
    BY <1>1, <1>6, <2>1
<1>9. Len(held[c]) + Len(inList'[c]) <= supplied'[c]
  BY <1>4, <1>5, <1>6 DEF x
<1>10. \A d \in Comps : Len(held[d]) + Len(inList'[d]) <= supplied'[d]
  BY <1>1, <1>2, <1>9
<1> QED
  BY <1>1, <1>2, <1>7, <1>8, <1>10 DEF Buffers

LEMMA DrainWokenIs ==
  ASSUME NEW f, NEW num, NEW k, IsSeq(k), NEW q, q = DrainWoken(f, num) \o k
  PROVE  AsksGot(Head(q)) /\ q # <<>>
<1> DEFINE y == RemoveEvent(f.c, CommandError) \o IfReturned(0, <<>>, Answered(f, num))
           n == Answered(f, num)
           e == [do |-> "if got", flag |-> "ERROR", yes |-> y, no |-> n]
<1>1. DrainWoken(f, num) = <<e>>
  BY DEF DrainWoken, IfGot
<1>2. AsksGot(e)
  BY DEF AsksGot
<1> HIDE DEF e
<1>3. Head(<<e>> \o k) = e /\ <<e>> \o k # <<>>
  BY SeqPush
<1> QED
  BY <1>1, <1>2, <1>3

LEMMA SleepsDrained ==
  ASSUME NEW S, NEW c, NEW q, AsksGot(Head(q)), q # <<>>, Text(q),
         NEW a, a = Asleep(c, DrainMask, FALSE), Safe(<<a>> \o q, S),
         Rel(S)', Heard(S)', Going', todo' = <<a>> \o q, inList'[c] = <<>>, Unreported(c)'
  PROVE  IInv'
<1>1. a.do = "suspend" /\ a.c = c /\ a.mask = DrainMask /\ "ERROR" \in a.mask
  BY DEF Asleep, DrainMask
<1>2. (flags[a.c] \cap a.mask = {} => ~Overdue(a, q))'
  <2>1. Head(q).do # "check" /\ Head(q).do # "woken"
    BY DEF AsksGot
  <2>2. Overdue(a, q)' => Sees(events'[c], CommandError)
    BY <1>1, <2>1 DEF Overdue
  <2>3. Overdue(a, q)' => "ERROR" \in flags'[c]
    BY <2>2 DEF Unreported
  <2> QED
    BY <1>1, <2>3
<1> QED
  BY <1>1, <1>2, SleepOnwards DEF AsksGot

LEMMA StepDrain ==
  ASSUME NEW S, NEW f, NEW k, Facing(S, f, k), f.do = "drain", Going',
         OMX_FreeBuffer(f.c, Len(inList[f.c])), inList' = [inList EXCEPT ![f.c] = <<>>],
         NEW num, num = f.num - Len(inList[f.c]),
         \/ todo' = <<Asleep(f.c, DrainMask, FALSE)>> \o (DrainWoken(f, num) \o k)
         \/ todo' = (Wait(f.c, "PortDisable", f.n) \o Insist) \o k,
         UNCHANGED <<lists, masked, related, ret, late, port_setting_changed>>
  PROVE  IInv'
<1> DEFINE c == f.c
<1>1. /\ Rel(S) /\ Common(S) /\ Text(k) /\ Heard(S) /\ Good(f, k, S) /\ IsSeq(k)
      /\ \A q, V : <<q, V>> \in Nexts(f, k, S) => Safe(q, V)
  BY DEF Facing, Rel
<1>2. S.doom
  BY <1>1 DEF Good, GoodSync
<1>3. /\ c \in Comps /\ S.told = c /\ f.num \in Int
      /\ f = [do |-> "drain", c |-> f.c, n |-> f.n, num |-> f.num]
  BY <1>1, <1>2 DEF Good, GoodLost
<1>4. Handles(S) /\ States /\ Asked(S) /\ Buffers /\ Others /\ Lists(S) /\ Result(S) /\ Blamed(S)
  BY <1>1, <1>2 DEF Common, Rel
<1>5. /\ supplied' = [supplied EXCEPT ![c] = supplied[c] - Len(inList[c])]
      /\ UNCHANGED <<coreInit, nActiveHandles, state, enabled, pending, tunnels, held,
                     orphans, failures>>
  BY DEF OMX_FreeBuffer
<1>6. Buffers' /\ inList'[c] = <<>>
  <2>1. inList' = [inList EXCEPT ![c] = <<>>]
    OBVIOUS
  <2> HIDE DEF c
  <2> QED
    BY <1>3, <1>4, <1>5, <2>1, DrainedBuffers
<1>7. Rel(S)'
  <2>1. Handles(S)' /\ Asked(S)' /\ States' /\ Others'
    BY <1>4, <1>5, KeepStates, KeepOthers DEF Handles, Asked
  <2>2. Lists(S)' /\ Result(S)'
    BY <1>4 DEF Lists, lists, Result
  <2>3. Common(S)'
    BY <1>6, <2>1, <2>2 DEF Common
  <2> QED
    BY <1>2, <1>4, <1>5, <2>3 DEF Rel, Blamed
<1>8. UNCHANGED <<events, flags>>
  BY DEF lists
<1>9. Heard(S)' /\ Unreported(c)'
  <2>1. c # None
    BY <1>3, ComponentsAssumption
       DEF Components, None, video_decode, video_scheduler, video_render, video_clock,
           audio_render, clock
  <2>2. Unreported(c)
    BY <1>1, <1>2, <1>3, <2>1 DEF Heard
  <2>3. Unreported(c)'
    BY <1>8, <2>2 DEF Unreported
  <2> QED
    BY <1>1, <1>2, <1>3, <2>3 DEF Heard
<1>10. CASE todo' = <<Asleep(f.c, DrainMask, FALSE)>> \o (DrainWoken(f, num) \o k)
  <2> DEFINE a == Asleep(c, DrainMask, FALSE)  q == DrainWoken(f, num) \o k
  <2>1. num \in Int
    <3>1. Len(inList[c]) \in Nat
      BY <1>3, <1>4, LenProperties DEF Buffers
    <3> QED
      BY <1>3, <3>1
  <2>2. <<<<a>> \o q, S>> \in Nexts(f, k, S)
    BY <1>2, <2>1 DEF Nexts, NextsLost
  <2>3. Text(q)
    <3>1. f = Drain(f.c, f.n, f.num)
      BY <1>3 DEF Drain
    <3>2. Text(DrainWoken(f, num))
      BY <3>1, TextDrainWoken
    <3> QED
      BY <1>1, <3>2, TextConcat
  <2>4. q = DrainWoken(f, num) \o k /\ a = Asleep(c, DrainMask, FALSE) /\ todo' = <<a>> \o q
    BY <1>10
  <2>5. AsksGot(Head(q)) /\ q # <<>>
    BY <1>1, DrainWokenIs
  <2> HIDE DEF a, q, c
  <2>6. Safe(<<a>> \o q, S)
    BY <1>1, <2>2
  <2> QED
    BY <1>6, <1>7, <1>9, <2>3, <2>4, <2>5, <2>6, SleepsDrained
<1>11. CASE todo' = (Wait(f.c, "PortDisable", f.n) \o Insist) \o k
  <2> DEFINE q == (Wait(f.c, "PortDisable", f.n) \o Insist) \o k
  <2>1. <<q, S>> \in Nexts(f, k, S)
    BY <1>2 DEF Nexts, NextsLost
  <2>2. Text(q)
    <3>1. Text(Wait(f.c, "PortDisable", f.n)) /\ Text(Insist)
      BY TextSteps
    <3>2. Text(Wait(f.c, "PortDisable", f.n) \o Insist)
      BY <3>1, TextConcat
    <3> QED
      BY <1>1, <3>2, TextConcat
  <2>3. todo' = q
    BY <1>11
  <2> HIDE DEF q
  <2>4. Safe(q, S)
    BY <1>1, <2>1
  <2> QED
    BY <1>7, <1>9, <2>2, <2>3, <2>4, TextOnwards
<1> QED
  BY <1>10, <1>11

(* A buffer goes to the decoder.                                           *)
LEMMA AppendedTo ==
  ASSUME NEW s, s \in Seq(Nat), NEW x \in Nat
  PROVE  Append(s, x) \in Seq(Nat) /\ Len(Append(s, x)) = Len(s) + 1
BY AppendProperties

LEMMA RoomFor ==
  ASSUME NEW a \in Nat, NEW b \in Nat, NEW m \in Int, a + b + 1 <= m
  PROVE  (a + 1) + b <= m /\ (a + 1) + b + 0 <= m
OBVIOUS

LEMMA InHandIs ==
  ASSUME NEW T, NEW h \in Nat, T.world.hand = h, NEW c, c = video_decode,
         (Len(held[c]) + Len(inList[c]) + h <= supplied[c])'
  PROVE  InHand(T)'
BY DEF InHand

LEMMA StepSubmit ==
  ASSUME NEW S, NEW f, NEW k, Facing(S, f, k), f.do = "submit", Going',
         OMX_EmptyThisBuffer(video_decode, f.buf), todo' = k,
         UNCHANGED <<lists, masked, related, inList, ret, late, port_setting_changed>>
  PROVE  IInv'
<1> DEFINE c == video_decode
           w == Holding(S.world, 0)
           T == Sync(S.ret, S.sent, S.related, S.masked, S.base, w)
<1>1. /\ Rel(S) /\ Common(S) /\ Text(k) /\ Heard(S) /\ Good(f, k, S)
      /\ \A q, V : <<q, V>> \in Nexts(f, k, S) => Safe(q, V)
  BY DEF Facing, Rel
<1>2. ~S.doom
  BY <1>1 DEF Good, GoodLost
<1>3. S.world.hand = 1 /\ f.buf \in Nat
  BY <1>1, <1>2 DEF Good, GoodSync
<1>4. Handles(S) /\ States /\ Asked(S) /\ Buffers /\ Others /\ Lists(S) /\ Result(S) /\ InStep(S)
  BY <1>1, <1>2 DEF Common, Rel
<1>5. <<k, T>> \in Nexts(f, k, S)
  BY <1>2 DEF Nexts, NextsSync
<1>6. c \in Comps
  BY ComponentsAssumption DEF Components
<1>7. /\ held' = [held EXCEPT ![c] = Append(held[c], f.buf)]
      /\ UNCHANGED <<coreInit, nActiveHandles, state, enabled, pending, tunnels, supplied,
                     orphans, failures>>
  BY DEF OMX_EmptyThisBuffer
<1>8. /\ w.hand = 0 /\ w.seen = S.world.seen /\ w.state = S.world.state
      /\ w.enabled = S.world.enabled /\ w.spoiled = S.world.spoiled
      /\ w.supplied = S.world.supplied /\ w.tunnels = S.world.tunnels
  BY DEF Holding, World
<1> HIDE DEF w, c
<1>9. /\ T.doom = FALSE /\ T.sent = S.sent /\ T.related = S.related /\ T.masked = S.masked
      /\ T.base = S.base /\ T.world = w /\ T.ret = S.ret
  BY DEF Sync
<1> HIDE DEF T
<1>10. Handles(T)' /\ States' /\ Asked(T)' /\ Others' /\ Lists(T)' /\ Result(T)'
  <2>1. Handles(T)' /\ Asked(T)'
    BY <1>4, <1>7, <1>9 DEF Handles, Asked
  <2>2. States' /\ Others'
    BY <1>4, <1>7, KeepStates, KeepOthers
  <2>3. Lists(T)' /\ Result(T)'
    BY <1>4, <1>9 DEF Lists, lists, Result
  <2> QED
    BY <2>1, <2>2, <2>3
<1>11. /\ held'[c] \in Seq(Nat) /\ Len(held'[c]) = Len(held[c]) + 1
       /\ Len(held[c]) \in Nat /\ Len(inList[c]) \in Nat /\ supplied[c] \in Int
  <2>1. /\ held \in [Comps -> Seq(Nat)] /\ inList \in [Comps -> Seq(Nat)]
        /\ supplied \in [Comps -> 0 .. NumBuffers]
    BY <1>4 DEF Buffers
  <2>2. held[c] \in Seq(Nat) /\ inList[c] \in Seq(Nat) /\ supplied[c] \in 0 .. NumBuffers
    BY <1>6, <2>1
  <2>3. held'[c] = Append(held[c], f.buf)
    BY <1>6, <1>7, <2>1
  <2>4. supplied[c] \in Int
    BY <2>2, CoreAssumption
  <2> QED
    BY <1>3, <2>2, <2>3, <2>4, AppendedTo, LenProperties
<1>12. /\ Len(held'[c]) + Len(inList[c]) <= supplied[c]
       /\ Len(held'[c]) + Len(inList[c]) + 0 <= supplied[c]
  <2>1. Len(held[c]) + Len(inList[c]) + 1 <= supplied[c]
    BY <1>3, <1>4 DEF InStep, InHand, c
  <2> QED
    BY <1>11, <2>1, RoomFor
<1>13. Buffers'
  <2>1. /\ held \in [Comps -> Seq(Nat)] /\ inList \in [Comps -> Seq(Nat)]
        /\ supplied \in [Comps -> 0 .. NumBuffers]
        /\ \A d \in Comps : Len(held[d]) + Len(inList[d]) <= supplied[d]
    BY <1>4 DEF Buffers
  <2>2. \A d \in Comps : d # c => held'[d] = held[d]
    BY <1>7, <2>1
  <2>3. held' \in [Comps -> Seq(Nat)]
    BY <1>6, <1>7, <1>11, <2>1, <2>2
  <2>4. \A d \in Comps : Len(held'[d]) + Len(inList[d]) <= supplied[d]
    BY <1>12, <2>1, <2>2
  <2> QED
    BY <1>7, <2>1, <2>3, <2>4 DEF Buffers
<1>14. Common(T)'
  BY <1>10, <1>13 DEF Common
<1>15. InStep(T)'
  <2>1. UNCHANGED <<events, flags>>
    BY DEF lists
  <2>2. ASSUME NEW d \in Comps PROVE Fits(T, d)'
    <3>1. Fits(S, d) /\ Mine(d)' = Mine(d)
      BY <1>4, <1>7 DEF InStep, Mine
    <3> QED
      BY <1>7, <1>8, <1>9, <2>1, <3>1, FitsSame
  <2>3. Sendings(T)' /\ Copied(T)'
    BY <1>4, <1>7, <1>8, <1>9 DEF InStep, Sendings, Copied
  <2>4. InHand(T)'
    <3>1. T.world.hand = 0 /\ UNCHANGED <<inList, supplied>> /\ 0 \in Nat
      BY <1>7, <1>8, <1>9
    <3>2. (Len(held[c]) + Len(inList[c]) + 0 <= supplied[c])'
      BY <1>12, <3>1
    <3>3. c = video_decode
      BY DEF c
    <3> QED
      BY <3>1, <3>2, <3>3, InHandIs
  <2>5. ~(supplied[c] < NumBuffers)
    BY <1>3, <1>4 DEF InStep, Unused, c
  <2>6. \A d \in Comps : d # c => held'[d] = held[d]
    BY <1>4, <1>7 DEF Buffers
  <2>7. \A d \in Comps : supplied[d] < NumBuffers => held'[d] = <<>> /\ inList[d] = <<>>
    BY <1>4, <2>5, <2>6 DEF InStep, Unused
  <2>8. Unused(T)'
    BY <1>7, <1>8, <1>9, <2>7 DEF Unused
  <2>9. Excused(T)' /\ Partnered(T)' /\ Unborn(T)' /\ Covered(T)' /\ Silent(T)'
    BY <1>4, <1>7, <1>8, <1>9, <2>1
       DEF InStep, Excused, Suspects, Partnered, Unborn, Covered, Silent
  <2> QED
    BY <2>2, <2>3, <2>4, <2>8, <2>9 DEF InStep
<1>16. Rel(T)'
  BY <1>9, <1>14, <1>15 DEF Rel
<1>17. Heard(T)'
  <2>1. \A d : Unreported(d)' = Unreported(d)
    BY DEF Unreported, lists
  <2> QED
    BY <1>1, <1>2, <1>9, <2>1 DEF Heard
<1> QED
  BY <1>1, <1>5, <1>16, <1>17, TextOnwards

(* OMX_EmptyThisBuffer is refused.                                         *)
LEMMA StepSubmitRefused ==
  ASSUME NEW S, Common(S), OMX_Refused, failed' = "assertion",
         UNCHANGED <<lists, masked, related, inList, ret, late>>
  PROVE  IInv'
<1>1. failures \in 0 .. MaxFailures /\ Result(S)
  BY DEF Common, Others
<1>2. failures < MaxFailures /\ failures' = failures + 1 /\ KeptCore
  BY DEF OMX_Refused, Refuse, KeptCore
<1>3. failures' \in 0 .. MaxFailures /\ failures' > 0
  BY <1>1, <1>2, OneMore, CoreAssumption
<1>4. Result(S)'
  BY <1>1 DEF Result
<1>5. Common(S)'
  BY <1>2, <1>3, <1>4, CommonMore
<1>6. ~Going'
  BY DEF Going
<1> QED
  BY <1>3, <1>5, <1>6 DEF IInv

(* A buffer for the presenter.                                             *)
LEMMA TailOf ==
  ASSUME NEW s \in Seq(Nat), s # <<>>
  PROVE  Tail(s) \in Seq(Nat) /\ Head(s) \in Nat /\ Len(Tail(s)) + 1 = Len(s) /\ Len(s) \in Nat
         /\ Len(Tail(s)) \in Nat
BY HeadTailProperties, LenProperties, EmptySeq

LEMMA RoomStays ==
  ASSUME NEW a \in Nat, NEW b \in Nat, NEW d \in Nat, NEW h \in Nat, NEW m \in Int,
         d + 1 = b, a + b <= m, a + b + 0 <= m
  PROVE  a + d <= m /\ a + d + 1 <= m
OBVIOUS

LEMMA GetSafe ==
  ASSUME NEW S, Rested(S), S.base.inits = 3, NEW x \in Nat, NEW T,
         T = Sync(S.ret, S.sent, S.related, S.masked, S.base, Holding(S.world, 1))
  PROVE  /\ Safe(<<Look>> \o (<<Handed(x)>> \o <<Present>>), T)
         /\ ~S.doom /\ S.world.hand = 0 /\ S.ret \in -5 .. 0
<1>1. PICK n \in 0 .. 3, seen \in BOOLEAN : S \in Near(Based(n), SetUp(n, seen, 0))
  BY DEF Rested
<1>2. PICK r \in -5 .. 0, w \in Variants(SetUp(n, seen, 0)) : S = Calm(r, Based(n), w)
  BY <1>1 DEF Near
<1>3. S = Sync(r, Quiet, Unrelated, {}, Based(n), w)
  BY <1>2 DEF Calm
<1>4. /\ S.ret = r /\ S.sent = Quiet /\ S.related = Unrelated /\ S.masked = {}
      /\ S.base = Based(n) /\ S.world = w /\ ~S.doom
  BY <1>3 DEF Sync
<1>5. n = 3
  BY <1>4 DEF Based, Base
<1>6. Holding(w, 1) \in Variants(SetUp(3, seen, 1))
  BY <1>5, HoldingIs
<1>7. T = Calm(r, Based(3), Holding(w, 1))
  BY <1>4, <1>5 DEF Calm
<1>8. T \in Near(Based(3), SetUp(3, seen, 1))
  BY <1>6, <1>7 DEF Near
<1>9. w.hand = 0
  BY DEF Variants, SetUp, World
<1> QED
  BY <1>4, <1>8, <1>9, PresentSafe

LEMMA StepBufGet ==
  ASSUME NEW S, NEW f, NEW k, Facing(S, f, k), f.do = "present", Going',
         NEW s, s = inList[video_decode], s # <<>>,
         inList' = [inList EXCEPT ![video_decode] = Tail(s)],
         todo' = <<Look, Handed(Head(s))>> \o todo,
         UNCHANGED <<core, lists, masked, related, ret, late, port_setting_changed>>
  PROVE  IInv'
<1> DEFINE c == video_decode
           w == Holding(S.world, 1)
           T == Sync(S.ret, S.sent, S.related, S.masked, S.base, w)
           x == Head(s)
           q == <<Look>> \o (<<Handed(x)>> \o <<Present>>)
<1>1. /\ Rel(S) /\ Common(S) /\ Text(k) /\ Heard(S) /\ Good(f, k, S) /\ IsSeq(k)
      /\ todo = <<f>> \o k
  BY DEF Facing, Rel
<1>2. ~S.doom
  BY <1>1 DEF Good, GoodLost
<1>3. Rested(S) /\ S.base.inits = 3 /\ k = <<>> /\ f = Present
  BY <1>1, <1>2 DEF Good, GoodSync, Present
<1>4. Handles(S) /\ States /\ Asked(S) /\ Buffers /\ Others /\ Lists(S) /\ Result(S) /\ InStep(S)
  BY <1>1, <1>2 DEF Common, Rel
<1>5. c \in Comps
  BY ComponentsAssumption DEF Components
<1>6. /\ held \in [Comps -> Seq(Nat)] /\ inList \in [Comps -> Seq(Nat)]
      /\ supplied \in [Comps -> 0 .. NumBuffers]
      /\ \A d \in Comps : Len(held[d]) + Len(inList[d]) <= supplied[d]
  BY <1>4 DEF Buffers
<1>7. s \in Seq(Nat) /\ held[c] \in Seq(Nat)
  BY <1>5, <1>6
<1>8. /\ Tail(s) \in Seq(Nat) /\ x \in Nat /\ Len(Tail(s)) + 1 = Len(s) /\ Len(s) \in Nat
      /\ Len(Tail(s)) \in Nat /\ Len(held[c]) \in Nat
  BY <1>7, TailOf, LenProperties
<1>9. Safe(q, T) /\ S.world.hand = 0
  BY <1>3, <1>8, GetSafe
<1>10. todo' = q
  <2>1. todo = <<Present>>
    <3>1. <<f>> \o <<>> = <<f>>
      BY SeqNothing, OneIsSeq DEF IsSeq
    <3> QED
      BY <1>1, <1>3, <3>1
  <2> DEFINE a == Look  b == Handed(x)
  <2>2. <<a, b>> = <<a>> \o <<b>>
    <3> HIDE DEF a, b
    <3> QED
      BY TwoTogether
  <2>3. IsSeq(<<a>>) /\ IsSeq(<<b>>) /\ IsSeq(<<Present>>)
    <3> HIDE DEF a, b
    <3> QED
      BY OneIsSeq
  <2>4. (<<a>> \o <<b>>) \o <<Present>> = <<a>> \o (<<b>> \o <<Present>>)
    <3> HIDE DEF a, b
    <3> QED
      BY <2>3, SeqAssociates
  <2> QED
    BY <2>1, <2>2, <2>4
<1>11. Text(q)
  <2>1. Text(<<Look>>) /\ Text(<<Handed(x)>>) /\ Text(<<Present>>)
    BY TextOne DEF Look, Handed, Present, Branches
  <2>2. Text(<<Handed(x)>> \o <<Present>>)
    BY <2>1, TextConcat
  <2> QED
    BY <2>1, <2>2, TextConcat
<1>12. /\ w.hand = 1 /\ w.seen = S.world.seen /\ w.state = S.world.state
       /\ w.enabled = S.world.enabled /\ w.spoiled = S.world.spoiled
       /\ w.supplied = S.world.supplied /\ w.tunnels = S.world.tunnels
  BY DEF Holding, World
<1> HIDE DEF w, c, q, x
<1>13. /\ T.doom = FALSE /\ T.sent = S.sent /\ T.related = S.related /\ T.masked = S.masked
       /\ T.base = S.base /\ T.world = w /\ T.ret = S.ret
  BY DEF Sync
<1> HIDE DEF T
<1>14. UNCHANGED <<coreInit, nActiveHandles, state, enabled, pending, tunnels, supplied, held,
                   orphans, failures, events, flags>>
  BY DEF core, lists
<1>15. /\ inList' \in [Comps -> Seq(Nat)] /\ inList'[c] = Tail(s)
       /\ \A d \in Comps : d # c => inList'[d] = inList[d]
  BY <1>5, <1>6, <1>8 DEF c
<1>16. /\ Len(held[c]) + Len(inList'[c]) <= supplied[c]
       /\ Len(held[c]) + Len(inList'[c]) + 1 <= supplied[c]
  <2>1. supplied[c] \in Int
    <3>1. supplied[c] \in 0 .. NumBuffers
      BY <1>5, <1>6
    <3> QED
      BY <3>1, CoreAssumption
  <2>2. Len(held[c]) + Len(s) <= supplied[c] /\ Len(held[c]) + Len(s) + 0 <= supplied[c]
    BY <1>5, <1>6, <1>8 DEF c
  <2> QED
    BY <1>8, <1>15, <2>1, <2>2, RoomStays
<1>17. Buffers'
  <2>1. \A d \in Comps : Len(held[d]) + Len(inList'[d]) <= supplied[d]
    BY <1>6, <1>15, <1>16
  <2> QED
    BY <1>6, <1>14, <1>15, <2>1 DEF Buffers
<1>18. Common(T)'
  <2>1. Handles(T)' /\ Asked(T)'
    BY <1>4, <1>13, <1>14 DEF Handles, Asked
  <2>2. States' /\ Others'
    BY <1>4, <1>14, KeepStates, KeepOthers
  <2>3. Lists(T)' /\ Result(T)'
    BY <1>4, <1>13 DEF Lists, lists, Result
  <2> QED
    BY <1>17, <2>1, <2>2, <2>3 DEF Common
<1>19. InStep(T)'
  <2>1. ASSUME NEW d \in Comps PROVE Fits(T, d)'
    <3>1. Fits(S, d) /\ Mine(d)' = Mine(d)
      BY <1>4, <1>14 DEF InStep, Mine
    <3> QED
      BY <1>12, <1>13, <1>14, <3>1, FitsSame
  <2>2. Sendings(T)' /\ Copied(T)'
    BY <1>4, <1>12, <1>13, <1>14 DEF InStep, Sendings, Copied
  <2>3. InHand(T)'
    <3>1. T.world.hand = 1 /\ UNCHANGED <<held, supplied>> /\ 1 \in Nat
      BY <1>12, <1>13, <1>14
    <3>2. (Len(held[c]) + Len(inList[c]) + 1 <= supplied[c])'
      BY <1>16, <3>1
    <3>3. c = video_decode
      BY DEF c
    <3> QED
      BY <3>1, <3>2, <3>3, InHandIs
  <2>4. supplied[c] < NumBuffers => s = <<>>
    BY <1>4, <1>5 DEF InStep, Unused, c
  <2>5. ~(supplied[c] < NumBuffers)
    BY <2>4
  <2>6. \A d \in Comps : supplied[d] < NumBuffers => held[d] = <<>> /\ inList'[d] = <<>>
    BY <1>4, <1>15, <2>5 DEF InStep, Unused
  <2>7. Unused(T)'
    BY <1>12, <1>13, <1>14, <2>5, <2>6 DEF Unused, c
  <2>8. Excused(T)' /\ Partnered(T)' /\ Unborn(T)' /\ Covered(T)' /\ Silent(T)'
    BY <1>4, <1>12, <1>13, <1>14
       DEF InStep, Excused, Suspects, Partnered, Unborn, Covered, Silent
  <2> QED
    BY <2>1, <2>2, <2>3, <2>7, <2>8 DEF InStep
<1>20. Rel(T)'
  BY <1>13, <1>18, <1>19 DEF Rel
<1>21. Heard(T)'
  <2>1. \A d : Unreported(d)' = Unreported(d)
    BY <1>14 DEF Unreported
  <2> QED
    BY <1>1, <1>2, <1>13, <2>1 DEF Heard
<1> QED
  BY <1>9, <1>10, <1>11, <1>20, <1>21, TextOnwards

(* What the handler does.                                                  *)
Ignored(c, x) == x.e = "Error" /\ x.n1 = "PortUnpopulated" /\ c \in masked
Kept(c) == Unique(events[c])
Freed(c) == spare[Owner(c)] + Len(events[c]) - Len(Kept(c))
Added(c, x) == IF Ignored(c, x) THEN Kept(c) ELSE <<x>> \o Kept(c)
Spared(c, x) == IF Ignored(c, x) THEN Freed(c) ELSE Freed(c) - 1

LEMMA HandlerIs ==
  ASSUME NEW c, NEW x, Handler(c, x), Freed(c) # 0
  PROVE  /\ failed' = failed
         /\ events' = Replaced(events, c, Added(c, x))
         /\ spare' = Replaced(spare, Owner(c), Spared(c, x))
         /\ flags' = Tell(c, x, Ignored(c, x))
         /\ UNCHANGED <<masked, related, inList, todo, ret, got, late>>
<1>1. /\ failed' = IF Freed(c) = 0 THEN "no spare event" ELSE failed
      /\ IF Ignored(c, x) \/ Freed(c) = 0
         THEN /\ events' = [events EXCEPT ![c] = Kept(c)]
              /\ spare' = [spare EXCEPT ![Owner(c)] = Freed(c)]
         ELSE /\ events' = [events EXCEPT ![c] = <<x>> \o Kept(c)]
              /\ spare' = [spare EXCEPT ![Owner(c)] = Freed(c) - 1]
      /\ flags' = IF Freed(c) = 0 THEN flags ELSE Tell(c, x, Ignored(c, x))
      /\ UNCHANGED <<masked, related, inList, todo, ret, got, late>>
  BY Zenon DEF Handler, Ignored, Kept, Freed
<1>2. failed' = failed /\ flags' = Tell(c, x, Ignored(c, x))
  BY <1>1, Zenon
<1>3. CASE Ignored(c, x)
  <2>1. events' = [events EXCEPT ![c] = Kept(c)] /\ spare' = [spare EXCEPT ![Owner(c)] = Freed(c)]
    BY <1>1, <1>3, Zenon
  <2> QED
    BY <1>1, <1>2, <1>3, <2>1, Zenon DEF Replaced, Added, Spared
<1>4. CASE ~Ignored(c, x)
  <2>1. /\ events' = [events EXCEPT ![c] = <<x>> \o Kept(c)]
        /\ spare' = [spare EXCEPT ![Owner(c)] = Freed(c) - 1]
    BY <1>1, <1>4, Zenon
  <2> QED
    BY <1>1, <1>2, <1>4, <2>1, Zenon DEF Replaced, Added, Spared
<1> QED
  BY <1>3, <1>4

LEMMA EnoughSpares ==
  ASSUME NEW x \in Int, NEW n \in Nat, n <= 15, x >= NumEvents - 48 - n
  PROVE  x # 0
BY EnoughEvents, EventsAssumption

LEMMA ReplacedAt ==
  ASSUME NEW g, NEW h, NEW c \in Comps, NEW y, h = Replaced(g, c, y),
         g = [d \in Comps |-> g[d]]
  PROVE  h = [d \in Comps |-> h[d]] /\ h[c] = y /\ \A d \in Comps : d # c => h[d] = g[d]
BY DEF Replaced

LEMMA FewReplaced ==
  ASSUME NEW ev, NEW ew, NEW c \in Comps, NEW y, Few(ev), ew = Replaced(ev, c, y),
         y \in Seq(EventsOf(c)), Len(y) <= 16
  PROVE  Few(ew) /\ ew[c] = y /\ \A d \in Comps : d # c => ew[d] = ev[d]
<1>1. ev = [d \in Comps |-> ev[d]]
  BY DEF Few
<1>2. ew = [d \in Comps |-> ew[d]] /\ ew[c] = y /\ \A d \in Comps : d # c => ew[d] = ev[d]
  BY <1>1, ReplacedAt
<1> QED
  BY <1>2 DEF Few

LEMMA TwoReplaced ==
  ASSUME NEW g, NEW c \in Clients, NEW x, NEW y, NEW h, h = Replaced(Replaced(g, c, x), c, y)
  PROVE  h = Replaced(g, c, y)
BY DEF Replaced

LEMMA OneAfter ==
  ASSUME NEW n \in Nat, n <= 15
  PROVE  n <= 16 /\ n + 1 <= 16
OBVIOUS

(* The handler always finds a spare, and what it makes of the lists.       *)
LEMMA HandlerKeeps ==
  ASSUME NEW S, Lists(S), NEW c \in Comps, Owner(c) \in S.base.clients,
         NEW x \in EventsOf(c)
  PROVE  /\ Freed(c) # 0
         /\ events' = Replaced(events, c, Added(c, x)) => Few(events')
         /\ events' = Replaced(events, c, Added(c, x))
              /\ spare' = Replaced(spare, Owner(c), Spared(c, x))
              => spare' = Spares(events', S.base.clients)
         /\ Kept(c) \in Seq(EventsOf(c)) /\ Len(Kept(c)) <= 15
<1> DEFINE s == events[c]  u == Kept(c)  E == EventsOf(c)  b == S.base.clients
           e0 == Replaced(events, c, u)
           e1 == Replaced(events, c, <<x>> \o u)
           r == Freed(c)
<1>1. Few(events) /\ spare = Spares(events, b)
  BY DEF Lists
<1>2. s \in Seq(E) /\ events = [d \in Comps |-> events[d]]
  BY <1>1 DEF Few
<1>3. u \in Seq(E) /\ Distinct(u)
  <2> HIDE DEF E
  <2> QED
    BY <1>2, UniqueFacts DEF Kept
<1>4. Len(u) \in Nat /\ Len(u) <= 15
  BY <1>3, DistinctIsShort
<1>5. <<x>> \o u \in Seq(E) /\ Len(<<x>> \o u) = Len(u) + 1
  <2> HIDE DEF E, u
  <2>1. x \in E
    BY DEF E
  <2> QED
    BY <1>3, <2>1, Pushed
<1>6. Len(u) <= 16 /\ Len(<<x>> \o u) <= 16
  BY <1>4, <1>5, OneAfter
<1>7. Few(e0) /\ e0[c] = u /\ \A d \in Comps : d # c => e0[d] = events[d]
  <2> HIDE DEF u
  <2> QED
    BY <1>1, <1>3, <1>6, FewReplaced
<1>8. Few(e1) /\ e1[c] = <<x>> \o u /\ \A d \in Comps : d # c => e1[d] = events[d]
  <2> DEFINE v == <<x>> \o u
  <2>1. v \in Seq(EventsOf(c)) /\ Len(v) <= 16 /\ e1 = Replaced(events, c, v)
    BY <1>5, <1>6
  <2> HIDE DEF v, e1, u
  <2>2. Few(e1) /\ e1[c] = v /\ \A d \in Comps : d # c => e1[d] = events[d]
    BY <1>1, <2>1, FewReplaced
  <2> QED
    BY <2>2 DEF v
<1>9. r = Spares(events, b)[Owner(c)] + Len(s) - Len(u)
  BY <1>1 DEF Freed
<1> HIDE DEF s, u, e0, e1, r, E
<1>10. Moves(events, e0, c, b, r)
  BY <1>1, <1>7, <1>9 DEF Moves, s
<1>11. /\ Spares(e0, b) = Replaced(spare, Owner(c), r) /\ r >= NumEvents - 48 - Len(u)
       /\ r \in Int /\ Len(s) \in Nat
  BY <1>1, <1>7, <1>10, SparesChange DEF s
<1>12. r # 0
  BY <1>4, <1>11, EnoughSpares
<1>13. Moves(e0, e1, c, b, r - 1)
  <2>1. Owner(c) \in Clients
    BY DEF Owner, Clients
  <2>2. Spares(e0, b)[Owner(c)] = r
    <3>1. spare = [i \in Clients |-> spare[i]]
      BY <1>1 DEF Spares
    <3> QED
      BY <1>11, <2>1, <3>1 DEF Replaced
  <2>3. r - 1 = Spares(e0, b)[Owner(c)] + Len(e0[c]) - Len(e1[c])
    BY <1>4, <1>5, <1>7, <1>8, <1>11, <2>2
  <2> QED
    BY <1>7, <1>8, <2>3 DEF Moves
<1>14. Spares(e1, b) = Replaced(spare, Owner(c), r - 1)
  <2>1. Owner(c) \in Clients
    BY DEF Owner, Clients
  <2>2. Spares(e1, b) = Replaced(Spares(e0, b), Owner(c), r - 1)
    BY <1>13, SparesChange
  <2> QED
    BY <1>11, <2>1, <2>2, TwoReplaced
<1>15. CASE Ignored(c, x)
  <2>1. Added(c, x) = u /\ Spared(c, x) = r
    BY <1>15 DEF Added, Spared, u, r
  <2> QED
    BY <1>3, <1>4, <1>7, <1>11, <1>12, <2>1 DEF e0, u, E, r
<1>16. CASE ~Ignored(c, x)
  <2>1. Added(c, x) = <<x>> \o u /\ Spared(c, x) = r - 1
    BY <1>16 DEF Added, Spared, u, r
  <2> QED
    BY <1>3, <1>4, <1>8, <1>12, <1>14, <2>1 DEF e1, u, E, r
<1> QED
  BY <1>15, <1>16

(* What a step of the firmware tells, it tells with a flag.                *)
Announced(d, x) ==
  /\ FlagOf(x) \in flags'[d]
  /\ x.e = "Error" /\ x.n2 = 1 /\ related[d] # None => "ERROR" \in flags'[related[d]]
Heralds ==
  /\ \A d \in Comps : flags[d] \subseteq flags'[d]
  /\ \A d \in Comps : \A Y : Sees(events'[d], Y) =>
       Sees(events[d], Y) \/ \E x \in Y : Announced(d, x)
  /\ \A d \in Comps : inList'[d] # <<>> => inList[d] # <<>> \/ "EMPTY_BUFFER_DONE" \in flags'[d]
  /\ \A d \in Comps : held[d] = <<>> => held'[d] = <<>> /\ inList'[d] = inList[d]

LEMMA CommandErrorsAre ==
  ASSUME NEW x \in CommandError
  PROVE  x.e = "Error" /\ x.n2 = 1 /\ FlagOf(x) = "ERROR"
<1>1. x.e = "Error" /\ x.n2 = 1
  BY DEF CommandError, ErrorsWith, Event
<1> QED
  BY <1>1, ErrorFlag

LEMMA AnyErrorsAre ==
  ASSUME NEW x \in AnyError
  PROVE  FlagOf(x) = "ERROR"
<1>1. x.e = "Error"
  BY DEF AnyError, ErrorsWith, Event
<1> QED
  BY <1>1, ErrorFlag

LEMMA UnreportedMore ==
  ASSUME Heralds, NEW d \in Comps, Unreported(d)
  PROVE  Unreported(d)'
<1>1. ASSUME Sees(events'[d], CommandError)
      PROVE  "ERROR" \in flags'[d]
  <2>1. CASE Sees(events[d], CommandError)
    BY <2>1 DEF Unreported, Heralds
  <2>2. CASE \E x \in CommandError : Announced(d, x)
    BY <2>2, CommandErrorsAre DEF Announced
  <2> QED
    BY <1>1, <2>1, <2>2 DEF Heralds
<1> QED
  BY <1>1 DEF Unreported

LEMMA HeededMore ==
  ASSUME NEW S, NEW f, Heeded(S, f), Rel(S), Heralds, UNCHANGED got
  PROVE  Heeded(S, f)'
<1>1. CASE S.doom
  <2>1. S.told \in Comps \cup {None}
    BY <1>1 DEF Rel, Blamed
  <2>2. S.told # None /\ Unreported(S.told) => Unreported(S.told)'
    <3> DEFINE d == S.told
    <3>1. d \in Comps \/ d = None
      BY <2>1
    <3> HIDE DEF d
    <3>2. d # None /\ Unreported(d) => Unreported(d)'
      BY <3>1, UnreportedMore
    <3> QED
      BY <3>2 DEF d
  <2> QED
    BY <1>1, <2>2 DEF Heeded
<1>2. CASE ~S.doom
  <2>1. \A d \in Comps : Unreported(d) => Unreported(d)'
    BY UnreportedMore
  <2> QED
    BY <1>2, <2>1 DEF Heeded
<1> QED
  BY <1>1, <1>2

LEMMA EndsTold ==
  ASSUME NEW w, NEW x \in Ends(w)
  PROVE  FlagOf(x) \in Awaits(w).mask /\ "ERROR" \in Awaits(w).mask
<1>1. Awaits(w).mask = {FlagOf(Event("CmdComplete", w.cmd, w.n)), "ERROR"}
  BY DEF Awaits, Asleep
<1>2. x = Event("CmdComplete", w.cmd, w.n) \/ x \in CommandError
  BY DEF Ends, Complete
<1> QED
  BY <1>1, <1>2, CommandErrorsAre

(* The look that a thread that has slept goes back to.                     *)
LEMMA WantsBelow ==
  ASSUME NEW S, NEW k, Safe(k, S), Head(k).do = "woken"
  PROVE  Head(Tail(k)).c \in Comps /\ Wants(Head(Tail(k)))
<1> DEFINE f == Head(k)  q == Tail(k)  w == Head(q)
<1>1. /\ Good(f, q, S) /\ \A p, T : <<p, T>> \in Nexts(f, q, S) => Safe(p, T)
  BY SafeUnfold
<1>2. w.do = "look"
  BY <1>1 DEF Good, GoodSync, GoodLost
<1>3. <<q, S>> \in Nexts(f, q, S)
  BY DEF Nexts, NextsSync, NextsLost
<1>4. Safe(q, S)
  BY <1>1, <1>3
<1>5. Good(w, Tail(q), S)
  BY <1>4, SafeUnfold
<1> HIDE DEF q
<1> QED
  BY <1>2, <1>5 DEF Good, GoodSync, GoodLost, q

LEMMA WantsUnder ==
  ASSUME NEW S, NEW w, NEW k, IsSeq(k), k # <<>>, Head(k) = w,
         Safe(<<LooksFor(w)>> \o (<<Woken(w)>> \o k), S)
  PROVE  w.c \in Comps /\ Wants(w)
<1> DEFINE a == LooksFor(w)  e == Woken(w)  q == <<e>> \o k  p == <<a>> \o q
<1>1. a.do = "suspend" /\ e.do = "woken"
  BY LooksForIs
<1>2. Safe(p, S)
  OBVIOUS
<1> HIDE DEF a, e
<1>3. IsSeq(q) /\ q # <<>> /\ Head(q) = e /\ Tail(q) = k
  BY SeqPush
<1> HIDE DEF q
<1>4. Head(p) = a /\ Tail(p) = q
  BY <1>3, SeqPush
<1> HIDE DEF p
<1>5. \A r, T : <<r, T>> \in Nexts(a, q, S) => Safe(r, T)
  BY <1>2, <1>4, SafeUnfold
<1>6. <<q, S>> \in Nexts(a, q, S)
  BY <1>1 DEF Nexts, NextsSync, NextsLost
<1>7. Safe(q, S)
  BY <1>5, <1>6
<1> QED
  BY <1>1, <1>3, <1>7, WantsBelow

LEMMA AskedOf ==
  ASSUME NEW S, S.doom, NEW k, Safe(k, S), AsksGot(Head(k)), Head(k).flag = "ERROR"
  PROVE  S.told \in Comps
<1> DEFINE f == Head(k)  q == Tail(k)  y == f.yes \o q
           e == [do |-> "remove", c |-> S.told, wanted |-> CommandError]
<1>1. /\ IsSeq(k) /\ k # <<>> /\ Good(f, q, S)
      /\ \A p, T : <<p, T>> \in Nexts(f, q, S) => Safe(p, T)
  BY SafeUnfold
<1>2. IsSeq(q)
  BY <1>1, SeqPop
<1>3. \E t : IsSeq(t) /\ f.yes = <<e>> \o t
  BY <1>1 DEF Good, GoodLost, AsksGot, RemoveEvent
<1>4. <<y, S>> \in Nexts(f, q, S)
  BY DEF Nexts, NextsLost, AsksGot
<1>5. Safe(y, S)
  BY <1>1, <1>4
<1>6. e.do = "remove" /\ e.c = S.told
  OBVIOUS
<1> HIDE DEF e, q, f
<1>7. Head(y) = e
  BY <1>2, <1>3, HeadOf
<1> HIDE DEF y
<1>8. Good(e, Tail(y), S)
  BY <1>5, <1>7, SafeUnfold
<1>9. e.c \in Comps
  BY <1>6, <1>8 DEF Good, GoodLost
<1> QED
  BY <1>6, <1>9

(* What a sleeping thread waits for still wakes it.                        *)
Woke(f) == flags'[f.c] \cap f.mask # {}

LEMMA CheckMore ==
  ASSUME NEW S, NEW f, NEW k, Safe(k, S), Good(f, k, S), f.do = "suspend", Rel(S), Heralds,
         Head(k).do = "check", NEW w, w = Head(k), f = Awaits(w),
         flags[f.c] \cap f.mask = {} => ~Overdue(f, k), ~Woke(f)
  PROVE  ~Overdue(f, k)'
<1> DEFINE c == f.c  o == w.other
<1>1. Good(w, Tail(k), S)
  BY SafeUnfold
<1>2. w.c \in Comps /\ c = w.c
  <2>1. w.c \in Comps
    BY <1>1 DEF Good, GoodSync, GoodLost
  <2> QED
    BY <2>1, AwaitsIs
<1>3. o # None => ~S.doom /\ o \in Comps /\ S.related[o] = c
  <2>1. CASE S.doom
    BY <1>1, <2>1 DEF Good, GoodLost
  <2>2. CASE ~S.doom
    <3>1. o # None => o \in Comps
      BY <1>1, <2>2 DEF Good, GoodSync
    <3>2. o # None => S.related[o] = c
      BY <2>2 DEF Good, GoodSync
    <3> QED
      BY <2>2, <3>1, <3>2
  <2> QED
    BY <2>1, <2>2
<1>4. o # None => related[o] = c
  BY <1>3 DEF Rel, InStep, Copied
<1>5. flags[c] \subseteq flags'[c]
  BY <1>2 DEF Heralds
<1>6. c # None
  BY <1>2, ComponentsAssumption
     DEF Components, None, video_decode, video_scheduler, video_render, video_clock,
         audio_render, clock
<1>7. "ERROR" \in f.mask /\ \A x \in Ends(w) : FlagOf(x) \in f.mask
  <2>1. \A x \in Ends(w) : FlagOf(x) \in f.mask
    BY EndsTold
  <2>2. f.mask = {FlagOf(Event("CmdComplete", w.cmd, w.n)), "ERROR"}
    BY DEF Awaits, Asleep
  <2> QED
    BY <2>1, <2>2
<1> HIDE DEF c, o
<1>8. flags'[c] \cap f.mask = {}
  BY DEF Woke, c
<1>9. ~Overdue(f, k)
  BY <1>5, <1>8 DEF c
<1>10. ~Sees(events[c], Ends(w)) /\ (o # None => ~Sees(events[o], CommandError))
  BY <1>9 DEF Overdue, c, o
<1>11. ~Sees(events'[c], Ends(w))
  <2>1. \A x \in Ends(w) : ~Announced(c, x)
    BY <1>7, <1>8 DEF Announced
  <2> DEFINE Y == Ends(w)
  <2> HIDE DEF Y
  <2>2. Sees(events'[c], Y) => Sees(events[c], Y) \/ \E x \in Y : Announced(c, x)
    BY <1>2 DEF Heralds
  <2> QED
    BY <1>10, <2>1, <2>2 DEF Y
<1>12. o # None => ~Sees(events'[o], CommandError)
  <2> SUFFICES ASSUME o # None PROVE ~Sees(events'[o], CommandError)
    OBVIOUS
  <2>1. o \in Comps /\ related[o] = c
    BY <1>3, <1>4
  <2>2. \A x \in CommandError : ~Announced(o, x)
    <3>1. "ERROR" \notin flags'[c]
      BY <1>7, <1>8
    <3>2. \A x \in CommandError : x.e = "Error" /\ x.n2 = 1
      BY CommandErrorsAre
    <3> QED
      BY <1>6, <2>1, <3>1, <3>2 DEF Announced
  <2>3. Sees(events'[o], CommandError) =>
          Sees(events[o], CommandError) \/ \E x \in CommandError : Announced(o, x)
    BY <2>1 DEF Heralds
  <2> QED
    BY <1>10, <2>2, <2>3
<1> QED
  BY <1>11, <1>12 DEF Overdue, c, o

LEMMA WokenMore ==
  ASSUME NEW S, NEW f, NEW k, Safe(k, S), Heralds,
         Head(k).do = "woken", NEW w, w = Head(Tail(k)), f = LooksFor(w),
         flags[f.c] \cap f.mask = {} => ~Overdue(f, k), ~Woke(f)
  PROVE  ~Overdue(f, k)'
<1> DEFINE c == f.c  Y == w.wanted \cup AnyError
<1>1. w.c \in Comps /\ Wants(w)
  BY WantsBelow
<1>2. c = w.c /\ f.mask = {w.flag, "ERROR"}
  BY LooksForIs
<1>3. \A x \in Y : FlagOf(x) \in f.mask
  BY <1>1, <1>2, AnyErrorsAre DEF Wants
<1>4. c \in Comps /\ flags[c] \subseteq flags'[c]
  BY <1>1, <1>2 DEF Heralds
<1> HIDE DEF c, Y
<1>5. flags'[c] \cap f.mask = {}
  BY DEF Woke, c
<1>6. ~Overdue(f, k)
  BY <1>4, <1>5 DEF c
<1>7. ~Sees(events[c], Y)
  BY <1>6 DEF Overdue, c, Y
<1>8. \A x \in Y : ~Announced(c, x)
  BY <1>3, <1>5 DEF Announced
<1>9. Sees(events'[c], Y) => Sees(events[c], Y) \/ \E x \in Y : Announced(c, x)
  BY <1>4 DEF Heralds
<1>10. ~Sees(events'[c], Y)
  BY <1>7, <1>8, <1>9
<1> QED
  BY <1>10 DEF Overdue, c, Y

LEMMA DrainMore ==
  ASSUME NEW S, NEW f, NEW k, f.c \in Comps, Heralds, AsksGot(Head(k)),
         f.mask = DrainMask,
         flags[f.c] \cap f.mask = {} => ~Overdue(f, k), ~Woke(f)
  PROVE  ~Overdue(f, k)'
<1> DEFINE c == f.c
<1>1. Head(k).do # "check" /\ Head(k).do # "woken"
  BY DEF AsksGot
<1>2. "ERROR" \in f.mask /\ "EMPTY_BUFFER_DONE" \in f.mask
  BY DEF DrainMask
<1>3. flags[c] \subseteq flags'[c]
  BY DEF Heralds
<1>4. c \in Comps
  OBVIOUS
<1> HIDE DEF c
<1>5. flags'[c] \cap f.mask = {}
  BY DEF Woke, c
<1>6. ~Overdue(f, k)
  BY <1>3, <1>5 DEF c
<1>7. inList[c] = <<>> /\ ~Sees(events[c], CommandError)
  BY <1>1, <1>6 DEF Overdue, c
<1>8. ~Sees(events'[c], CommandError)
  <2>1. \A x \in CommandError : ~Announced(c, x)
    BY <1>2, <1>5, CommandErrorsAre DEF Announced
  <2>2. Sees(events'[c], CommandError) =>
          Sees(events[c], CommandError) \/ \E x \in CommandError : Announced(c, x)
    BY <1>4 DEF Heralds
  <2> QED
    BY <1>7, <2>1, <2>2
<1>9. inList'[c] = <<>>
  BY <1>2, <1>4, <1>5, <1>7 DEF Heralds
<1> QED
  BY <1>1, <1>8, <1>9 DEF Overdue, c

LEMMA SleepMore ==
  ASSUME NEW S, NEW f, NEW k, Facing(S, f, k), f.do = "suspend", Heralds, ~Woke(f)
  PROVE  ~Overdue(f, k)'
<1>1. /\ Good(f, k, S) /\ Rel(S) /\ Before(S, f, k)
      /\ \A p, T : <<p, T>> \in Nexts(f, k, S) => Safe(p, T)
  BY DEF Facing
<1>2. Safe(k, S)
  <2>1. <<k, S>> \in Nexts(f, k, S)
    BY DEF Nexts, NextsSync, NextsLost
  <2> QED
    BY <1>1, <2>1
<1>3. flags[f.c] \cap f.mask = {} => ~Overdue(f, k)
  BY <1>1 DEF Before
<1>4. \/ Sleeps(f, k)
      \/ S.doom /\ AsksGot(Head(k)) /\ Head(k).flag = "ERROR" /\ S.told = f.c
           /\ f = Asleep(f.c, DrainMask, FALSE)
  <2>1. CASE S.doom
    BY <1>1, <2>1 DEF Good, GoodLost, AsksGot
  <2>2. CASE ~S.doom
    BY <1>1, <2>2 DEF Good, GoodSync
  <2> QED
    BY <2>1, <2>2
<1>5. CASE S.doom /\ AsksGot(Head(k)) /\ Head(k).flag = "ERROR" /\ S.told = f.c
           /\ f = Asleep(f.c, DrainMask, FALSE)
  <2>1. f.c \in Comps
    BY <1>2, <1>5, AskedOf
  <2>2. f.mask = DrainMask
    BY <1>5 DEF Asleep
  <2> QED
    BY <1>3, <1>5, <2>1, <2>2, DrainMore
<1>6. CASE Head(k).do = "check" /\ f = Awaits(Head(k))
  <2> DEFINE w == Head(k)
  <2>1. w = Head(k)
    OBVIOUS
  <2> HIDE DEF w
  <2> QED
    BY <1>1, <1>2, <1>3, <1>6, <2>1, CheckMore
<1>7. CASE Head(k).do = "woken" /\ f = LooksFor(Head(Tail(k)))
  <2> DEFINE w == Head(Tail(k))
  <2>1. w = Head(Tail(k))
    OBVIOUS
  <2> HIDE DEF w
  <2> QED
    BY <1>2, <1>3, <1>7, <2>1, WokenMore
<1> QED
  BY <1>4, <1>5, <1>6, <1>7 DEF Sleeps

LEMMA FlagRaised ==
  ASSUME NEW S, NEW f, NEW k, Facing(S, f, k), LooksBad(f), Heralds,
         Sees(events'[Head(k).c], Head(k).wanted)
  PROVE  Head(k).flag \in flags'[Head(k).c]
<1> DEFINE w == Head(k)  c == w.c  Y == w.wanted
<1>1. /\ Good(f, k, S) /\ Before(S, f, k) /\ IsSeq(k)
      /\ \A p, T : <<p, T>> \in Nexts(f, k, S) => Safe(p, T)
  BY DEF Facing
<1>2. k # <<>>
  BY <1>1 DEF Good, GoodSync, GoodLost, LooksBad
<1>3. Safe(<<LooksFor(w)>> \o (<<Woken(w)>> \o k), S)
  <2> DEFINE q == <<LooksFor(w)>> \o (<<Woken(w)>> \o k)
  <2>1. <<q, S>> \in Nexts(f, k, S)
    BY DEF Nexts, NextsSync, NextsLost, LooksBad
  <2> HIDE DEF q
  <2>2. Safe(q, S)
    BY <1>1, <2>1
  <2> QED
    BY <2>2 DEF q
<1>4. w = Head(k)
  OBVIOUS
<1>5. Sees(events[c], Y) => w.flag \in flags[c]
  BY <1>1 DEF Before, LooksBad
<1>6. Sees(events'[c], Y)
  OBVIOUS
<1> HIDE DEF w
<1>7. c \in Comps /\ Wants(w)
  BY <1>1, <1>2, <1>3, <1>4, WantsUnder
<1>8. \A x \in Y : FlagOf(x) = w.flag
  BY <1>7 DEF Wants
<1> HIDE DEF c, Y
<1>9. Sees(events[c], Y) \/ \E x \in Y : Announced(c, x)
  BY <1>6, <1>7 DEF Heralds
<1>10. w.flag \in flags'[c]
  BY <1>5, <1>7, <1>8, <1>9 DEF Heralds, Announced
<1> QED
  BY <1>4, <1>10 DEF c

LEMMA QueueMore ==
  ASSUME NEW S, NEW f, NEW k, Facing(S, f, k), f.do = "queue", Heralds, Buffers, Buffers',
         UNCHANGED supplied
  PROVE  /\ held'[f.c] = <<>> /\ inList'[f.c] = <<>> /\ Len(f.list) <= supplied'[f.c]
         /\ ~S.doom /\ f.c = video_decode => S.world.hand = 0
<1>1. Good(f, k, S) /\ Before(S, f, k)
  BY DEF Facing
<1>2. f.c \in Comps
  BY <1>1 DEF Good, GoodSync, GoodLost
<1>3. /\ held[f.c] = <<>> /\ inList[f.c] = <<>> /\ Len(f.list) <= supplied[f.c]
      /\ ~S.doom /\ f.c = video_decode => S.world.hand = 0
  BY <1>1 DEF Before
<1> QED
  BY <1>2, <1>3 DEF Heralds

LEMMA BeforeMore ==
  ASSUME NEW S, NEW f, NEW k, Facing(S, f, k), Heralds, Buffers, Buffers',
         UNCHANGED <<supplied, got, late>>, failures > 0 => failures' > 0
  PROVE  Before(S, f, k)'
<1>1. Before(S, f, k)
  BY DEF Facing
<1>2. CASE LooksBad(f)
  <2>1. S.doom => S.told = None
    BY <1>1, <1>2 DEF Before, LooksBad
  <2>2. Sees(events'[Head(k).c], Head(k).wanted) => Head(k).flag \in flags'[Head(k).c]
    BY <1>2, FlagRaised
  <2> QED
    BY <1>2, <2>1, <2>2 DEF Before, LooksBad
<1>3. CASE f.do = "queue"
  <2>1. /\ held'[f.c] = <<>> /\ inList'[f.c] = <<>> /\ Len(f.list) <= supplied'[f.c]
        /\ ~S.doom /\ f.c = video_decode => S.world.hand = 0
    BY <1>3, QueueMore
  <2> QED
    BY <1>3, <2>1 DEF Before
<1>4. CASE f.do = "suspend"
  <2>1. S.doom /\ Head(k).do # "if got" => S.told = None
    BY <1>1, <1>4 DEF Before
  <2>2. flags'[f.c] \cap f.mask = {} => ~Overdue(f, k)'
    BY <1>4, SleepMore DEF Woke
  <2> QED
    BY <1>4, <2>1, <2>2 DEF Before
<1>5. CASE f.do = "woken"
  <2>1. ~S.doom => (got = {} => late = TRUE) /\ ("ERROR" \in got => failures > 0)
    BY <1>1, <1>5 DEF Before
  <2>2. ~S.doom => (got' = {} => late' = TRUE) /\ ("ERROR" \in got' => failures' > 0)
    BY <2>1
  <2> QED
    BY <1>5, <2>2 DEF Before
<1>6. CASE ~LooksBad(f) /\ f.do \notin {"queue", "suspend", "woken"}
  BY <1>6 DEF Before, LooksBad
<1> QED
  BY <1>2, <1>3, <1>4, <1>5, <1>6

(* What the firmware does leaves the program where it is.                  *)
LEMMA FirmwareOnwards ==
  ASSUME NEW S, Sound(S), NEW f, NEW k, Facing(S, f, k), Going', todo' = todo, Rel(S)', Heralds,
         UNCHANGED <<supplied, got, late>>, failures > 0 => failures' > 0
  PROVE  IInv'
<1>1. /\ Rel(S) /\ Heeded(S, f) /\ todo = <<f>> \o k /\ IsSeq(k)
  BY DEF Facing
<1>2. Buffers /\ Buffers'
  BY <1>1 DEF Rel, Common
<1>3. Before(S, f, k)'
  BY <1>2, BeforeMore
<1>4. Heeded(S, f)'
  BY <1>1, HeededMore
<1>5. Head(todo) = f /\ Tail(todo) = k
  BY <1>1, SeqPush
<1>6. AtTop(S, todo)'
  BY <1>3, <1>4, <1>5 DEF AtTop
<1>7. Safe(todo, S) /\ Shaped(todo)
  BY DEF Sound
<1>8. Safe(todo', S) /\ Shaped(todo')
  BY <1>7
<1> DEFINE p == todo
<1>9. todo' = p /\ Safe(p, S) /\ Shaped(p) /\ p = todo
  BY <1>7
<1>10. Sound(S)'
  BY <1>6, <1>8 DEF Sound
<1> QED
  BY <1>10 DEF IInv

LEMMA TellIs ==
  ASSUME flags = [d \in Comps |-> flags[d]], NEW c \in Comps,
         related \in [Comps -> Comps \cup {None}], NEW x, flags' = Tell(c, x, Ignored(c, x))
  PROVE  /\ flags' = [d \in Comps |-> flags'[d]]
         /\ \A d \in Comps : flags[d] \subseteq flags'[d]
         /\ ~Ignored(c, x) => FlagOf(x) \in flags'[c]
         /\ x.e = "Error" /\ x.n2 = 1 /\ related[c] # None => "ERROR" \in flags'[related[c]]
         /\ \A d \in Comps : \A y \in flags'[d] :
              \/ y \in flags[d]
              \/ d = c /\ ~Ignored(c, x) /\ y = FlagOf(x)
              \/ x.e = "Error" /\ x.n2 = 1 /\ related[c] # None /\ d = related[c]
<1> DEFINE g == IF Ignored(c, x) THEN flags ELSE [flags EXCEPT ![c] = @ \cup {FlagOf(x)}]
           o == related[c]
<1>1. flags' = IF x.e = "Error" /\ x.n2 = 1 /\ o # None
               THEN [g EXCEPT ![o] = @ \cup {"ERROR"}] ELSE g
  BY DEF Tell
<1>2. o \in Comps \cup {None}
  OBVIOUS
<1>3. /\ g = [d \in Comps |-> g[d]] /\ \A d \in Comps : flags[d] \subseteq g[d]
      /\ ~Ignored(c, x) => FlagOf(x) \in g[c]
      /\ \A d \in Comps : \A y \in g[d] :
           y \in flags[d] \/ (d = c /\ ~Ignored(c, x) /\ y = FlagOf(x))
  <2>1. CASE Ignored(c, x)
    BY <2>1
  <2>2. CASE ~Ignored(c, x)
    <3> DEFINE m == FlagOf(x)
    <3>1. g = [flags EXCEPT ![c] = flags[c] \cup {m}]
      BY <2>2
    <3> HIDE DEF g, m
    <3>2. g[c] = flags[c] \cup {m} /\ \A d \in Comps : d # c => g[d] = flags[d]
      BY <3>1
    <3>3. g = [d \in Comps |-> g[d]]
      BY <3>1
    <3> QED
      BY <2>2, <3>2, <3>3 DEF m
  <2> QED
    BY <2>1, <2>2
<1> HIDE DEF g
<1>4. CASE x.e = "Error" /\ x.n2 = 1 /\ o # None
  <2>1. flags' = [g EXCEPT ![o] = g[o] \cup {"ERROR"}] /\ o \in Comps
    BY <1>1, <1>2, <1>4
  <2> HIDE DEF o
  <2>2. /\ flags'[o] = g[o] \cup {"ERROR"} /\ flags' = [d \in Comps |-> flags'[d]]
        /\ \A d \in Comps : d # o => flags'[d] = g[d]
    BY <1>3, <2>1
  <2>3. \A d \in Comps : g[d] \subseteq flags'[d]
    BY <2>2
  <2>4. \A d \in Comps : \A y \in flags'[d] : y \in g[d] \/ d = o
    BY <2>2
  <2>5. \A d \in Comps : flags[d] \subseteq flags'[d]
    BY <1>3, <2>3
  <2>6. ~Ignored(c, x) => FlagOf(x) \in flags'[c]
    BY <1>3, <2>3
  <2>7. "ERROR" \in flags'[o]
    BY <2>2
  <2>8. \A d \in Comps : \A y \in flags'[d] :
              \/ y \in flags[d]
              \/ d = c /\ ~Ignored(c, x) /\ y = FlagOf(x)
              \/ d = o
    BY <1>3, <2>4
  <2> QED
    BY <1>4, <2>2, <2>5, <2>6, <2>7, <2>8 DEF o
<1>5. CASE ~(x.e = "Error" /\ x.n2 = 1 /\ o # None)
  BY <1>1, <1>3, <1>5
<1> QED
  BY <1>4, <1>5

LEMMA HandlerFacts ==
  ASSUME NEW S, Common(S), NEW c \in S.base.alive, NEW x \in EventsOf(c), Handler(c, x)
  PROVE  /\ failed' = failed /\ c \in Comps /\ related \in [Comps -> Comps \cup {None}]
         /\ UNCHANGED <<masked, related, inList, todo, ret, got, late>>
         /\ Lists(S)' /\ events'[c] = Added(c, x)
         /\ \A d \in Comps : d # c => events'[d] = events[d]
         /\ flags = [d \in Comps |-> flags[d]] /\ flags' = Tell(c, x, Ignored(c, x))
         /\ Kept(c) \in Seq(EventsOf(c)) /\ events[c] \in Seq(EventsOf(c))
<1>1. /\ Lists(S) /\ c \in Comps /\ Owner(c) \in S.base.clients
      /\ related \in [Comps -> Comps \cup {None}]
  BY DEF Common, Handles, Others
<1>2. Freed(c) # 0
  BY <1>1, HandlerKeeps
<1>3. /\ failed' = failed
      /\ events' = Replaced(events, c, Added(c, x))
      /\ spare' = Replaced(spare, Owner(c), Spared(c, x))
      /\ flags' = Tell(c, x, Ignored(c, x))
      /\ UNCHANGED <<masked, related, inList, todo, ret, got, late>>
  BY <1>2, HandlerIs
<1>4. /\ Few(events') /\ spare' = Spares(events', S.base.clients)
      /\ Kept(c) \in Seq(EventsOf(c))
  BY <1>1, <1>3, HandlerKeeps
<1>5. flags = [d \in Comps |-> flags[d]] /\ Few(events)
  BY <1>1 DEF Lists
<1>6. flags' = [d \in Comps |-> flags'[d]]
  BY <1>1, <1>3, <1>5, TellIs
<1>7. Lists(S)'
  BY <1>4, <1>6 DEF Lists
<1>8. events = [d \in Comps |-> events[d]] /\ events[c] \in Seq(EventsOf(c))
  BY <1>1, <1>5 DEF Few
<1>9. events'[c] = Added(c, x) /\ \A d \in Comps : d # c => events'[d] = events[d]
  <2> DEFINE y == Added(c, x)
  <2>1. events' = [events EXCEPT ![c] = y]
    BY <1>3 DEF Replaced
  <2> HIDE DEF y
  <2>2. events'[c] = y /\ \A d \in Comps : d # c => events'[d] = events[d]
    BY <1>1, <1>8, <2>1
  <2> QED
    BY <2>2 DEF y
<1> QED
  BY <1>1, <1>3, <1>4, <1>5, <1>7, <1>8, <1>9

LEMMA AddedSees ==
  ASSUME NEW c, NEW T, events[c] \in Seq(T), Kept(c) \in Seq(T), NEW x \in T, NEW Y
  PROVE  Sees(Added(c, x), Y) <=> (~Ignored(c, x) /\ x \in Y) \/ Sees(events[c], Y)
<1>1. Sees(Kept(c), Y) <=> Sees(events[c], Y)
  BY UniqueSees DEF Kept
<1>2. Sees(<<x>> \o Kept(c), Y) <=> x \in Y \/ Sees(Kept(c), Y)
  BY PushSees
<1> QED
  BY <1>1, <1>2 DEF Added

LEMMA HandlerHeralds ==
  ASSUME NEW S, Common(S), NEW c \in S.base.alive, NEW x \in EventsOf(c), Handler(c, x),
         UNCHANGED held
  PROVE  Heralds
<1> DEFINE T == EventsOf(c)
<1>1. /\ c \in Comps /\ related \in [Comps -> Comps \cup {None}] /\ UNCHANGED inList
      /\ events'[c] = Added(c, x) /\ \A d \in Comps : d # c => events'[d] = events[d]
      /\ flags = [d \in Comps |-> flags[d]] /\ flags' = Tell(c, x, Ignored(c, x))
      /\ Kept(c) \in Seq(T) /\ events[c] \in Seq(T)
  BY HandlerFacts
<1>2. /\ \A d \in Comps : flags[d] \subseteq flags'[d]
      /\ ~Ignored(c, x) => FlagOf(x) \in flags'[c]
      /\ x.e = "Error" /\ x.n2 = 1 /\ related[c] # None => "ERROR" \in flags'[related[c]]
  BY <1>1, TellIs
<1>3. ~Ignored(c, x) => Announced(c, x)
  BY <1>2 DEF Announced
<1>4. x \in T
  OBVIOUS
<1> HIDE DEF T
<1>5. ASSUME NEW d \in Comps, NEW Y, Sees(events'[d], Y)
      PROVE  Sees(events[d], Y) \/ \E e \in Y : Announced(d, e)
  <2>1. CASE d # c
    BY <1>1, <1>5, <2>1
  <2>2. CASE d = c
    <3>1. Sees(Added(c, x), Y)
      BY <1>1, <1>5, <2>2
    <3>2. (~Ignored(c, x) /\ x \in Y) \/ Sees(events[c], Y)
      BY <1>1, <1>4, <3>1, AddedSees
    <3> QED
      BY <1>3, <2>2, <3>2
  <2> QED
    BY <2>1, <2>2
<1> QED
  BY <1>1, <1>2, <1>5 DEF Heralds

(* An event that ends no command changes nothing else.                     *)
Passing(c, x) ==
  Ignored(c, x) \/ (x \in Harmless(c) /\ (FlagOf(x) = "ERROR" => c = video_decode))

LEMMA PassingAdded ==
  ASSUME NEW c, NEW T, events[c] \in Seq(T), Kept(c) \in Seq(T), NEW x \in T, Passing(c, x)
  PROVE  /\ Clean(events[c], c) => Clean(Added(c, x), c)
         /\ \A Y : One(events[c], c, Y) => One(Added(c, x), c, Y)
<1> DEFINE s == events[c]  u == Kept(c)
<1>1. Clean(s, c) => Clean(u, c)
  BY UniqueClean DEF Kept
<1>2. \A Y : One(s, c, Y) => One(u, c, Y)
  BY UniqueOne DEF Kept
<1> HIDE DEF s, u
<1>3. CASE Ignored(c, x)
  BY <1>1, <1>2, <1>3 DEF Added, s, u
<1>4. CASE ~Ignored(c, x) /\ x \in Harmless(c)
  <2>1. u \in Seq(T)
    BY DEF u
  <2>2. Clean(u, c) => Clean(<<x>> \o u, c)
    BY <1>4, <2>1, PushClean
  <2>3. \A Y : One(u, c, Y) => One(<<x>> \o u, c, Y)
    BY <1>4, <2>1, PushHarmless
  <2> QED
    BY <1>1, <1>2, <1>4, <2>2, <2>3 DEF Added, s, u
<1> QED
  BY <1>3, <1>4 DEF Passing

LEMMA RefusalIs == Refusal.e = "Error" /\ Refusal.n1 = "InsufficientResources" /\ Refusal.n2 = 1
BY DEF Refusal, Event

LEMMA SameStateIs ==
  SameStateError.e = "Error" /\ SameStateError.n1 = "SameState" /\ SameStateError.n2 = 1
BY DEF SameStateError, Event

LEMMA PassingFits ==
  ASSUME NEW S, NEW c \in Comps, Fits(S, c), UNCHANGED <<state, enabled, failures, pending>>,
         Clean(events[c], c) => Clean(events'[c], c),
         \A Y : One(events[c], c, Y) => One(events'[c], c, Y)
  PROVE  Fits(S, c)'
<1>1. Mine(c)' = Mine(c)
  BY DEF Mine
<1>2. CASE Waiting(S, c)
  BY <1>1, <1>2 DEF Fits, Waiting
<1>3. CASE Over(S, c)
  BY <1>1, <1>3 DEF Fits, Over
<1>4. CASE Refused(S, c)
  BY <1>1, <1>4 DEF Fits, Refused
<1> QED
  BY <1>2, <1>3, <1>4 DEF Fits

LEMMA PassingRel ==
  ASSUME NEW S, Rel(S), NEW c \in S.base.alive, NEW x \in EventsOf(c), Handler(c, x),
         x.e = "Error" => x.n2 # 1, ~S.doom => Passing(c, x),
         UNCHANGED <<core, port_setting_changed>>
  PROVE  Rel(S)'
<1> DEFINE T == EventsOf(c)
<1>1. Common(S)
  BY DEF Rel
<1>2. /\ c \in Comps /\ UNCHANGED <<masked, related, inList, ret, late>>
      /\ related \in [Comps -> Comps \cup {None}]
      /\ Lists(S)' /\ events'[c] = Added(c, x) /\ \A d \in Comps : d # c => events'[d] = events[d]
      /\ flags = [d \in Comps |-> flags[d]] /\ flags' = Tell(c, x, Ignored(c, x))
      /\ Kept(c) \in Seq(T) /\ events[c] \in Seq(T) /\ x \in T
  BY <1>1, HandlerFacts
<1>3. UNCHANGED <<coreInit, nActiveHandles, state, enabled, pending, tunnels, supplied, held,
                  orphans, failures>>
  BY DEF core
<1>4. Common(S)'
  <2>1. Result(S)'
    BY <1>1, <1>2 DEF Common, Result
  <2> QED
    BY <1>1, <1>2, <2>1, KeepCommon
<1>5. CASE S.doom
  BY <1>2, <1>3, <1>4, <1>5 DEF Rel, Blamed
<1>6. CASE ~S.doom
  <2>1. InStep(S) /\ Passing(c, x)
    BY <1>6 DEF Rel
  <2>2. /\ Clean(events[c], c) => Clean(events'[c], c)
        /\ \A Y : One(events[c], c, Y) => One(events'[c], c, Y)
    <3> HIDE DEF T
    <3> QED
      BY <1>2, <2>1, PassingAdded
  <2>3. ASSUME NEW d \in Comps PROVE Fits(S, d)'
    <3>1. Fits(S, d) /\ Mine(d)' = Mine(d)
      BY <1>3, <2>1 DEF InStep, Mine
    <3>2. CASE d = c
      BY <1>3, <2>2, <3>1, <3>2, PassingFits
    <3>3. CASE d # c
      BY <1>2, <1>3, <3>1, <3>3, FitsSame
    <3> QED
      BY <3>2, <3>3
  <2>4. Copied(S)' /\ Sendings(S)' /\ InHand(S)' /\ Unused(S)'
    BY <1>2, <1>3, <2>1 DEF InStep, Copied, Sendings, InHand, Unused
  <2>5. Partnered(S)' /\ Covered(S)'
    BY <1>2, <1>3, <2>1 DEF InStep, Partnered, Covered
  <2>6. Unborn(S)'
    <3>1. \A d \in Comps : d \notin S.base.alive => d # c
      OBVIOUS
    <3> QED
      BY <1>2, <2>1, <3>1 DEF InStep, Unborn
  <2>7. Excused(S)'
    <3>1. \A d \in Comps : Sees(events'[d], {Refusal}) => Sees(events[d], {Refusal})
      <4>1. x \notin {Refusal}
        BY RefusalIs
      <4>2. Sees(Added(c, x), {Refusal}) => Sees(events[c], {Refusal})
        <5> HIDE DEF T
        <5> QED
          BY <1>2, <4>1, AddedSees
      <4> QED
        BY <1>2, <4>2
    <3>2. Suspects(S)' \subseteq Suspects(S)
      BY <3>1 DEF Suspects
    <3>3. failures \in Nat
      BY <1>1, CoreAssumption DEF Common, Others
    <3>4. /\ S.world.spoiled \subseteq Comps
          /\ Cardinality(S.world.spoiled \cup Suspects(S)) <= failures
      BY <2>1 DEF InStep, Excused
    <3> DEFINE A == S.world.spoiled \cup Suspects(S)'  B == S.world.spoiled \cup Suspects(S)
    <3>5. A \subseteq B /\ B \subseteq Comps
      BY <3>2, <3>4 DEF Suspects
    <3>6. Cardinality(A) <= failures
      <4>1. Cardinality(B) <= failures
        BY <3>4
      <4> HIDE DEF A, B
      <4> QED
        BY <3>3, <3>5, <4>1, SmallerSet
    <3> QED
      BY <1>3, <3>4, <3>6 DEF Excused
  <2>8. Silent(S)'
    <3> SUFFICES ASSUME failures = 0, NEW d \in Comps, d # video_decode, "ERROR" \in flags'[d]
                 PROVE  S.sent[d] # NoCommand /\ One(events'[d], d, {SameStateError})
      BY <1>3 DEF Silent
    <3>1. "ERROR" \in flags[d]
      <4>1. \/ "ERROR" \in flags[d]
            \/ d = c /\ ~Ignored(c, x) /\ "ERROR" = FlagOf(x)
            \/ x.e = "Error" /\ x.n2 = 1 /\ related[c] # None /\ d = related[c]
        BY <1>2, TellIs
      <4> QED
        BY <2>1, <4>1 DEF Passing
    <3>2. S.sent[d] # NoCommand /\ One(events[d], d, {SameStateError})
      BY <2>1, <3>1 DEF InStep, Silent
    <3> QED
      BY <1>2, <2>2, <3>2
  <2>9. InStep(S)'
    BY <2>3, <2>4, <2>5, <2>6, <2>7, <2>8 DEF InStep
  <2> QED
    BY <1>4, <1>6, <2>9 DEF Rel
<1> QED
  BY <1>5, <1>6

LEMMA StepReport ==
  ASSUME NEW S, Sound(S), NEW f, NEW k, Facing(S, f, k), NEW c \in S.base.alive,
         NEW x \in EventsOf(c), Handler(c, x),
         x.e = "Error" => x.n2 # 1, ~S.doom => Passing(c, x),
         UNCHANGED <<core, port_setting_changed>>
  PROVE  IInv'
<1>1. Rel(S) /\ Common(S) /\ Going
  BY DEF Facing, Rel
<1>2. Rel(S)'
  BY <1>1, PassingRel
<1>3. /\ failed' = failed /\ UNCHANGED <<todo, got, late>>
  BY <1>1, HandlerFacts
<1>4. UNCHANGED <<held, supplied, failures>>
  BY DEF core
<1>5. Heralds
  BY <1>1, <1>4, HandlerHeralds
<1>6. Going'
  BY <1>1, <1>3 DEF Going
<1> QED
  BY <1>2, <1>3, <1>4, <1>5, <1>6, FirmwareOnwards

LEMMA NewSettingsIs ==
  ASSUME NEW n, NEW x, x = NewSettings(n)
  PROVE  x.e = "PortSettingsChanged"
BY DEF NewSettings, Event

LEMMA NewSettingsFlag ==
  ASSUME NEW x, x.e = "PortSettingsChanged"
  PROVE  FlagOf(x) = "PARAMETER_CHANGED"
BY DEF FlagOf

LEMMA ReportIs ==
  ASSUME NEW c, NEW n, ReportSettings(c, n)
  PROVE  state[c] = Executing /\ Handler(c, NewSettings(n)) /\ UNCHANGED core
BY Zenon DEF ReportSettings, Report, NewSettings

LEMMA WorksIsAlive ==
  ASSUME NEW S, Common(S), NEW c \in Comps, state[c] = Executing
  PROVE  c \in S.base.alive
BY DEF Common, Handles, Executing, Absent

LEMMA StepReportSettings ==
  ASSUME NEW S, Sound(S), NEW f, NEW k, Facing(S, f, k), NEW c, NEW n, ReportSettings(c, n),
         (c = video_decode /\ n = 131) \/ (c = video_scheduler /\ n = 11),
         UNCHANGED port_setting_changed
  PROVE  IInv'
<1> DEFINE x == NewSettings(n)
<1>1. state[c] = Executing /\ Handler(c, x) /\ UNCHANGED core
  BY ReportIs
<1>2. c \in Comps
  BY ComponentsAssumption DEF Components
<1>3. c \in S.base.alive
  BY <1>1, <1>2, WorksIsAlive DEF Facing, Rel
<1>4. x \in Harmless(c)
  <2>1. video_scheduler # video_decode
    BY DEF video_scheduler, video_decode
  <2>2. Harmless(video_decode) = {NewSettings(131), Corrupt}
    BY DEF Harmless
  <2>3. Harmless(video_scheduler) = {NewSettings(11)}
    BY <2>1 DEF Harmless
  <2> QED
    BY <2>2, <2>3
<1>5. x.e = "PortSettingsChanged"
  BY NewSettingsIs
<1> HIDE DEF x
<1>6. x \in EventsOf(c)
  BY <1>4 DEF EventsOf
<1>7. Passing(c, x)
  BY <1>4, <1>5, NewSettingsFlag DEF Passing
<1> QED
  BY <1>1, <1>3, <1>5, <1>6, <1>7, StepReport

LEMMA CorruptIs ==
  ASSUME NEW c, ReportCorrupt(c)
  PROVE  state[c] = Executing /\ Handler(c, Corrupt) /\ UNCHANGED core
BY Zenon DEF ReportCorrupt, Report, Corrupt

LEMMA StepReportCorrupt ==
  ASSUME NEW S, Sound(S), NEW f, NEW k, Facing(S, f, k), ReportCorrupt(video_decode),
         UNCHANGED port_setting_changed
  PROVE  IInv'
<1> DEFINE c == video_decode  x == Corrupt
<1>1. state[c] = Executing /\ Handler(c, x) /\ UNCHANGED core
  BY CorruptIs
<1>2. c \in Comps
  BY ComponentsAssumption DEF Components
<1>3. c \in S.base.alive
  <2> HIDE DEF c
  <2> QED
    BY <1>1, <1>2, WorksIsAlive DEF Facing, Rel
<1>4. x \in Harmless(c)
  BY DEF Harmless
<1>5. x.n2 = 0
  BY DEF Corrupt, Event
<1>6. c = video_decode
  OBVIOUS
<1> HIDE DEF x, c
<1>7. x \in EventsOf(c)
  BY <1>4 DEF EventsOf
<1>8. Passing(c, x)
  BY <1>4, <1>6 DEF Passing
<1>9. x.e = "Error" => x.n2 # 1
  BY <1>5
<1> QED
  BY <1>1, <1>3, <1>7, <1>8, <1>9, StepReport

LEMMA UnpopulatedIs ==
  ASSUME NEW x, ReportUnpopulated(x)
  PROVE  /\ x \in pending /\ x.cmd = "PortDisable" /\ ~Enabling(x.c, x.n)
         /\ Handler(x.c, Unpopulated) /\ UNCHANGED core
BY Zenon DEF ReportUnpopulated, Unpopulated

LEMMA PendingIs ==
  ASSUME NEW S, Rel(S), NEW x \in pending
  PROVE  /\ x.c \in S.base.alive /\ x.c \in Comps /\ IsCommand(x)
         /\ ~S.doom => /\ Waiting(S, x.c) /\ x = S.sent[x.c] /\ Mine(x.c) = {x} /\ x # NoCommand
                       /\ InStep(S)
<1> DEFINE c == x.c
<1>1. c \in S.base.alive /\ c \in Comps /\ IsCommand(x)
  BY AliveAre DEF Rel, Common, Asked
<1>2. x \in Mine(c)
  BY DEF Mine
<1>3. ~S.doom => Fits(S, c) /\ InStep(S)
  BY <1>1 DEF Rel, InStep
<1> HIDE DEF c
<1>4. ~S.doom => Waiting(S, c)
  BY <1>2, <1>3 DEF Fits, Over, Refused
<1>5. ~S.doom => Mine(c) = {x} /\ x = S.sent[c] /\ x # NoCommand
  BY <1>2, <1>4 DEF Waiting
<1> QED
  BY <1>1, <1>3, <1>4, <1>5 DEF c

LEMMA StepReportUnpopulated ==
  ASSUME NEW S, Sound(S), NEW f, NEW k, Facing(S, f, k), NEW y, ReportUnpopulated(y),
         UNCHANGED port_setting_changed
  PROVE  IInv'
<1> DEFINE c == y.c  x == Unpopulated
<1>1. /\ y \in pending /\ y.cmd = "PortDisable" /\ ~Enabling(c, y.n)
      /\ Handler(c, x) /\ UNCHANGED core
  BY UnpopulatedIs
<1>2. Rel(S)
  BY DEF Facing
<1>3. /\ c \in S.base.alive /\ c \in Comps
      /\ ~S.doom => Waiting(S, c) /\ y = S.sent[c] /\ InStep(S)
  BY <1>1, <1>2, PendingIs
<1>4. x.e = "Error" /\ x.n1 = "PortUnpopulated" /\ x.n2 = 0
  BY DEF Unpopulated, Event
<1>5. x \in EventsOf(c)
  BY DEF EventsOf
<1> HIDE DEF c, x
<1>6. ~S.doom => Passing(c, x)
  <2> SUFFICES ASSUME ~S.doom PROVE Passing(c, x)
    OBVIOUS
  <2>1. y.n \notin S.world.enabled[c]
    BY <1>1, <1>3 DEF Waiting, Enabling
  <2>2. c \in S.masked
    BY <1>1, <1>3, <2>1 DEF InStep, Covered
  <2>3. c \in masked
    BY <1>3, <2>2 DEF InStep, Copied
  <2> QED
    BY <1>4, <2>3 DEF Passing, Ignored
<1>7. x.e = "Error" => x.n2 # 1
  BY <1>4
<1> QED
  BY <1>1, <1>3, <1>5, <1>6, <1>7, StepReport

LEMMA PassOver ==
  ASSUME NEW h \in Seq(Nat), NEW i \in Seq(Nat), h # <<>>
  PROVE  /\ Tail(h) \in Seq(Nat) /\ Append(i, Head(h)) \in Seq(Nat)
         /\ Len(Tail(h)) \in Nat /\ Len(Append(i, Head(h))) \in Nat
         /\ Len(Tail(h)) + Len(Append(i, Head(h))) = Len(h) + Len(i)
         /\ Len(h) \in Nat /\ Len(i) \in Nat
<1>1. Head(h) \in Nat /\ Tail(h) \in Seq(Nat) /\ Len(Tail(h)) = Len(h) - 1 /\ Len(h) \in Nat
  BY HeadTailProperties, LenProperties
<1>2. Append(i, Head(h)) \in Seq(Nat) /\ Len(Append(i, Head(h))) = Len(i) + 1 /\ Len(i) \in Nat
  BY <1>1, AppendProperties, LenProperties
<1> QED
  BY <1>1, <1>2, LenProperties

LEMMA EmptiedIs ==
  ASSUME NEW c \in Comps, EmptyBufferDone(c), Buffers, NEW S, Lists(S)
  PROVE  /\ failed' = failed /\ held[c] # <<>>
         /\ UNCHANGED <<coreInit, nActiveHandles, state, enabled, pending, tunnels, supplied,
                        orphans, failures, spare, events, masked, related, todo, ret, got, late>>
         /\ held'[c] = Tail(held[c]) /\ inList'[c] = Append(inList[c], Head(held[c]))
         /\ flags'[c] = flags[c] \cup {"EMPTY_BUFFER_DONE"}
         /\ \A d \in Comps : d # c => /\ held'[d] = held[d] /\ inList'[d] = inList[d]
                                      /\ flags'[d] = flags[d]
         /\ held' \in [Comps -> Seq(Nat)] /\ inList' \in [Comps -> Seq(Nat)]
         /\ flags' = [d \in Comps |-> flags'[d]]
         /\ Len(held'[c]) + Len(inList'[c]) = Len(held[c]) + Len(inList[c])
<1>1. /\ failed' = failed /\ held[c] # <<>>
      /\ UNCHANGED <<coreInit, nActiveHandles, state, enabled, pending, tunnels, supplied,
                     orphans, failures, spare, events, masked, related, todo, ret, got, late>>
      /\ inList' = Replaced(inList, c, Append(inList[c], Head(held[c])))
      /\ flags' = Replaced(flags, c, flags[c] \cup {"EMPTY_BUFFER_DONE"})
      /\ held' = Replaced(held, c, Tail(held[c]))
  BY Zenon DEF EmptyBufferDone, program, Replaced
<1>2. /\ held \in [Comps -> Seq(Nat)] /\ inList \in [Comps -> Seq(Nat)]
      /\ flags = [d \in Comps |-> flags[d]]
  BY DEF Buffers, Lists
<1>3. held[c] \in Seq(Nat) /\ inList[c] \in Seq(Nat)
  BY <1>2
<1> DEFINE h == held[c]  i == inList[c]  t == Tail(h)  a == Append(i, Head(h))
           x == flags[c] \cup {"EMPTY_BUFFER_DONE"}
<1>4. t \in Seq(Nat) /\ a \in Seq(Nat) /\ Len(t) + Len(a) = Len(h) + Len(i)
  BY <1>1, <1>3, PassOver
<1>5. /\ inList' = [inList EXCEPT ![c] = a] /\ flags' = [flags EXCEPT ![c] = x]
      /\ held' = [held EXCEPT ![c] = t]
  BY <1>1 DEF Replaced
<1> HIDE DEF t, a, x
<1>6. /\ held'[c] = t /\ inList'[c] = a /\ flags'[c] = x
      /\ \A d \in Comps : d # c => /\ held'[d] = held[d] /\ inList'[d] = inList[d]
                                   /\ flags'[d] = flags[d]
  BY <1>2, <1>5
<1>7. /\ held' \in [Comps -> Seq(Nat)] /\ inList' \in [Comps -> Seq(Nat)]
      /\ flags' = [d \in Comps |-> flags'[d]]
  BY <1>2, <1>4, <1>5
<1> QED
  BY <1>1, <1>4, <1>6, <1>7 DEF t, a, x

LEMMA EmptiedInStep ==
  ASSUME NEW S, InStep(S), NEW c, c = video_decode, c \in Comps, Buffers,
         UNCHANGED <<state, enabled, pending, tunnels, supplied, failures, events, masked, related,
                     port_setting_changed>>,
         held[c] # <<>>, Len(held'[c]) + Len(inList'[c]) = Len(held[c]) + Len(inList[c]),
         \A d \in Comps : d # c => /\ held'[d] = held[d] /\ inList'[d] = inList[d]
                                   /\ flags'[d] = flags[d]
  PROVE  InStep(S)'
<1>1. ASSUME NEW d \in Comps PROVE Fits(S, d)'
  <2>1. Fits(S, d) /\ Mine(d)' = Mine(d)
    BY DEF InStep, Mine
  <2> QED
    BY <2>1, FitsSame
<1>2. Copied(S)' /\ Sendings(S)'
  BY DEF InStep, Copied, Sendings
<1>3. InHand(S)'
  BY DEF InStep, InHand
<1>4. Unused(S)'
  <2>1. ~(supplied[c] < NumBuffers)
    BY DEF InStep, Unused
  <2>2. \A d \in Comps : supplied[d] < NumBuffers => held'[d] = <<>> /\ inList'[d] = <<>>
    BY <2>1 DEF InStep, Unused
  <2> QED
    BY <2>1, <2>2 DEF Unused
<1>5. Excused(S)' /\ Partnered(S)' /\ Unborn(S)' /\ Covered(S)'
  BY DEF InStep, Excused, Suspects, Partnered, Unborn, Covered
<1>6. Silent(S)'
  BY DEF InStep, Silent
<1> QED
  BY <1>1, <1>2, <1>3, <1>4, <1>5, <1>6 DEF InStep

LEMMA StepEmptyBufferDone ==
  ASSUME NEW S, Sound(S), NEW f, NEW k, Facing(S, f, k), EmptyBufferDone(video_decode),
         UNCHANGED port_setting_changed
  PROVE  IInv'
<1> DEFINE c == video_decode
<1>1. c \in Comps
  BY ComponentsAssumption DEF Components
<1>2. Rel(S) /\ Common(S) /\ Going /\ Buffers /\ Lists(S)
  BY DEF Facing, Rel, Common
<1>3. c = video_decode /\ EmptyBufferDone(c)
  OBVIOUS
<1> HIDE DEF c
<1>4. /\ failed' = failed /\ held[c] # <<>>
      /\ UNCHANGED <<coreInit, nActiveHandles, state, enabled, pending, tunnels, supplied,
                     orphans, failures, spare, events, masked, related, todo, ret, got, late>>
      /\ held'[c] = Tail(held[c]) /\ inList'[c] = Append(inList[c], Head(held[c]))
      /\ flags'[c] = flags[c] \cup {"EMPTY_BUFFER_DONE"}
      /\ \A d \in Comps : d # c => /\ held'[d] = held[d] /\ inList'[d] = inList[d]
                                   /\ flags'[d] = flags[d]
      /\ held' \in [Comps -> Seq(Nat)] /\ inList' \in [Comps -> Seq(Nat)]
      /\ flags' = [d \in Comps |-> flags'[d]]
      /\ Len(held'[c]) + Len(inList'[c]) = Len(held[c]) + Len(inList[c])
  BY <1>1, <1>2, <1>3, EmptiedIs
<1>5. Common(S)'
  <2>1. Handles(S)' /\ States' /\ Asked(S)' /\ Others' /\ Result(S)'
    <3>1. Handles(S) /\ States /\ Asked(S) /\ Others /\ Result(S)
      BY <1>2 DEF Common
    <3>2. Handles(S)' /\ States' /\ Result(S)'
      BY <1>4, <3>1 DEF Handles, States, Result
    <3>3. Asked(S)' /\ Others'
      BY <1>4, <3>1 DEF Asked, Others
    <3> QED
      BY <3>2, <3>3
  <2>2. Lists(S)'
    BY <1>2, <1>4 DEF Lists
  <2>3. Buffers'
    BY <1>2, <1>4 DEF Buffers
  <2> QED
    BY <2>1, <2>2, <2>3 DEF Common
<1>6. Rel(S)'
  <2>1. CASE S.doom
    BY <1>2, <1>4, <1>5, <2>1 DEF Rel, Blamed
  <2>2. CASE ~S.doom
    <3>1. InStep(S)
      BY <1>2, <2>2 DEF Rel
    <3>2. InStep(S)'
      BY <1>1, <1>2, <1>3, <1>4, <3>1, EmptiedInStep
    <3> QED
      BY <1>5, <2>2, <3>2 DEF Rel
  <2> QED
    BY <2>1, <2>2
<1>7. Heralds
  <2>1. \A d \in Comps : flags[d] \subseteq flags'[d]
    BY <1>4
  <2>2. \A d \in Comps : inList'[d] # <<>> => inList[d] # <<>> \/ "EMPTY_BUFFER_DONE" \in flags'[d]
    BY <1>4
  <2>3. \A d \in Comps : held[d] = <<>> => held'[d] = <<>> /\ inList'[d] = inList[d]
    BY <1>4
  <2> QED
    BY <1>4, <2>1, <2>2, <2>3 DEF Heralds
<1>8. Going'
  BY <1>2, <1>4 DEF Going
<1> QED
  BY <1>4, <1>6, <1>7, <1>8, FirmwareOnwards

LEMMA AnswerIs ==
  ASSUME NEW x, Answer(x)
  PROVE  /\ x \in pending
         /\ \/ Perform(x) /\ Handler(x.c, Told(x.cmd, x.n))
            \/ SameState(x) /\ Perform(x) /\ Handler(x.c, SameStateError)
            \/ Reject(x) /\ Handler(x.c, Refusal)
BY Zenon DEF Answer, Told, SameStateError, Refusal

LEMMA PerformIs ==
  ASSUME NEW x, Perform(x), NEW c \in Comps, c = x.c, States, Typed(c, x.cmd, x.n)
  PROVE  /\ pending' = pending \ {x}
         /\ UNCHANGED <<coreInit, nActiveHandles, tunnels, supplied, held, orphans, failures>>
         /\ state'[c] = IF x.cmd = "StateSet" THEN x.n ELSE state[c]
         /\ x.cmd = "StateSet" => state'[c] # Absent
         /\ x.cmd = "PortDisable" => enabled'[c] = enabled[c] \ {x.n}
         /\ x.cmd = "PortEnable" /\ ~Cancelled(x) => enabled'[c] = enabled[c] \cup {x.n}
         /\ x.cmd = "StateSet" => enabled'[c] = enabled[c]
         /\ \A d \in Comps : d # c => state'[d] = state[d] /\ enabled'[d] = enabled[d]
         /\ States'
<1>1. /\ pending' = pending \ {x}
      /\ UNCHANGED <<coreInit, nActiveHandles, tunnels, supplied, held, orphans, failures>>
  BY DEF Perform
<1>2. state \in [Comps -> 0 .. 3] /\ enabled = [d \in Comps |-> enabled[d]]
  BY DEF States
<1>3. /\ state'[c] = IF x.cmd = "StateSet" THEN x.n ELSE state[c]
      /\ x.cmd = "StateSet" => state'[c] # Absent
      /\ state' \in [Comps -> 0 .. 3] /\ \A d \in Comps : d # c => state'[d] = state[d]
  <2>1. CASE x.cmd = "StateSet"
    <3>1. state' = [state EXCEPT ![c] = x.n]
      BY <2>1 DEF Perform
    <3>2. x.n \in 1 .. 3
      BY <2>1 DEF Typed, Loaded, Idle, Executing
    <3> DEFINE n == x.n
    <3>3. n \in 1 .. 3 /\ state' = [state EXCEPT ![c] = n]
      BY <3>1, <3>2
    <3> HIDE DEF n
    <3>4. /\ state'[c] = n /\ state'[c] # Absent /\ state' \in [Comps -> 0 .. 3]
          /\ \A d \in Comps : d # c => state'[d] = state[d]
      BY <1>2, <3>3 DEF Absent
    <3> QED
      BY <2>1, <3>4 DEF n
  <2>2. CASE x.cmd # "StateSet"
    BY <1>2, <2>2 DEF Perform
  <2> QED
    BY <2>1, <2>2
<1>4. \E s : /\ enabled' = [enabled EXCEPT ![c] = s]
             /\ x.cmd = "PortDisable" => s = enabled[c] \ {x.n}
             /\ x.cmd = "PortEnable" /\ ~Cancelled(x) => s = enabled[c] \cup {x.n}
             /\ x.cmd \notin {"PortDisable", "PortEnable"} => s = enabled[c]
             /\ x.cmd = "PortEnable" /\ Cancelled(x) => s = enabled[c]
  BY DEF Perform
<1>5. PICK s : /\ enabled' = [enabled EXCEPT ![c] = s]
               /\ x.cmd = "PortDisable" => s = enabled[c] \ {x.n}
               /\ x.cmd = "PortEnable" /\ ~Cancelled(x) => s = enabled[c] \cup {x.n}
               /\ x.cmd \notin {"PortDisable", "PortEnable"} => s = enabled[c]
               /\ x.cmd = "PortEnable" /\ Cancelled(x) => s = enabled[c]
  BY <1>4
<1>6. enabled[c] \subseteq ToSet(PortsOf(c))
  BY DEF States
<1>7. x.cmd = "PortEnable" => x.n \in ToSet(PortsOf(c))
  BY DEF Typed
<1>8. s \subseteq ToSet(PortsOf(c))
  <2>1. CASE x.cmd = "PortEnable"
    BY <1>5, <1>6, <1>7, <2>1
  <2>2. CASE x.cmd # "PortEnable"
    BY <1>5, <1>6, <2>2
  <2> QED
    BY <2>1, <2>2
<1>9. /\ enabled'[c] = s /\ \A d \in Comps : d # c => enabled'[d] = enabled[d]
      /\ enabled' = [d \in Comps |-> enabled'[d]]
  BY <1>2, <1>5
<1>10. States'
  BY <1>3, <1>8, <1>9 DEF States
<1> QED
  BY <1>1, <1>3, <1>5, <1>9, <1>10

LEMMA RejectIs ==
  ASSUME NEW x, Reject(x), Others
  PROVE  /\ pending' = pending \ {x}
         /\ UNCHANGED <<coreInit, nActiveHandles, state, enabled, tunnels, supplied, held>>
         /\ failures' \in 0 .. MaxFailures /\ failures' > 0
         /\ x.cmd # "PortEnable" => failures' = failures + 1
         /\ failures' = failures \/ failures' = failures + 1
<1>1. /\ pending' = pending \ {x}
      /\ UNCHANGED <<coreInit, nActiveHandles, state, enabled, tunnels, supplied, held>>
  BY DEF Reject
<1>2. failures \in 0 .. MaxFailures /\ MaxFailures \in Nat /\ (orphans # {} => failures > 0)
  BY CoreAssumption DEF Others
<1>3. CASE <<x.c, x.n>> \in orphans /\ x.cmd = "PortEnable"
  BY <1>1, <1>2, <1>3 DEF Reject
<1>4. CASE ~(<<x.c, x.n>> \in orphans /\ x.cmd = "PortEnable")
  <2>1. failures < MaxFailures /\ failures' = failures + 1
    BY <1>4 DEF Reject, Refuse
  <2> QED
    BY <1>1, <1>2, <2>1
<1> QED
  BY <1>3, <1>4

LEMMA AnswerTold ==
  ASSUME NEW c, NEW x, Typed(c, x.cmd, x.n), NEW y, y = Told(x.cmd, x.n)
  PROVE  /\ y \in EventsOf(c) /\ y.e = "CmdComplete" /\ y.n1 # "PortUnpopulated"
         /\ FlagOf(y) # "ERROR" /\ y # Refusal
<1>1. y.e = "CmdComplete" /\ y.n1 = x.cmd
  BY DEF Told, Event
<1>2. x.cmd \in {"StateSet", "PortEnable", "PortDisable"}
  BY DEF Typed
<1>3. y \in EventsOf(c)
  BY DEF EventsOf, Typed
<1>4. y # Refusal
  BY <1>1, RefusalIs
<1>5. FlagOf(y) # "ERROR"
  BY <1>1, <1>2 DEF FlagOf
<1>6. y.n1 # "PortUnpopulated"
  BY <1>1, <1>2
<1> QED
  BY <1>1, <1>3, <1>4, <1>5, <1>6

(* One command ends with the event y.                                      *)
EndsWith(x, c, y) ==
  /\ c = x.c /\ x \in pending /\ pending' = pending \ {x}
  /\ y \in EventsOf(c) /\ y.n1 # "PortUnpopulated" /\ Handler(c, y)
  /\ UNCHANGED <<coreInit, nActiveHandles, tunnels, supplied, held, port_setting_changed>>

LEMMA EndsFacts ==
  ASSUME NEW S, Rel(S), NEW x, NEW c, NEW y, EndsWith(x, c, y)
  PROVE  /\ c \in S.base.alive /\ c \in Comps /\ IsCommand(x) /\ x = Command(c, x.cmd, x.n)
         /\ failed' = failed /\ related \in [Comps -> Comps \cup {None}]
         /\ UNCHANGED <<masked, related, inList, todo, ret, got, late>>
         /\ Lists(S)' /\ events'[c] = <<y>> \o Kept(c)
         /\ \A Y : Sees(events'[c], Y) => y \in Y \/ Sees(events[c], Y)
         /\ \A Y : Clean(events[c], c) /\ y \in Y => One(events'[c], c, Y)
         /\ Mine(c)' = Mine(c) \ {x} /\ \A d \in Comps : d # c => Mine(d)' = Mine(d)
         /\ Heralds
<1>1. x \in pending /\ c = x.c /\ y \in EventsOf(c) /\ Handler(c, y) /\ UNCHANGED held
      /\ y.n1 # "PortUnpopulated" /\ pending' = pending \ {x}
  BY DEF EndsWith
<1>2. c \in S.base.alive /\ c \in Comps /\ IsCommand(x) /\ Common(S)
  BY <1>1, PendingIs DEF Rel
<1>3. /\ failed' = failed /\ related \in [Comps -> Comps \cup {None}]
      /\ UNCHANGED <<masked, related, inList, todo, ret, got, late>>
      /\ Lists(S)' /\ events'[c] = Added(c, y)
      /\ \A d \in Comps : d # c => events'[d] = events[d]
      /\ flags = [d \in Comps |-> flags[d]] /\ flags' = Tell(c, y, Ignored(c, y))
      /\ Kept(c) \in Seq(EventsOf(c)) /\ events[c] \in Seq(EventsOf(c))
  BY <1>1, <1>2, HandlerFacts
<1>4. ~Ignored(c, y)
  BY <1>1 DEF Ignored
<1>5. events'[c] = <<y>> \o Kept(c)
  BY <1>3, <1>4 DEF Added
<1>7. Heralds
  BY <1>1, <1>2, HandlerHeralds
<1> DEFINE T == EventsOf(c)
<1>8. y \in T /\ Kept(c) \in Seq(T) /\ events[c] \in Seq(T)
  BY <1>1, <1>3
<1> HIDE DEF T
<1>9. ASSUME NEW Y, Sees(events'[c], Y) PROVE y \in Y \/ Sees(events[c], Y)
  BY <1>3, <1>8, <1>9, AddedSees
<1>10. ASSUME NEW Y, Clean(events[c], c), y \in Y PROVE One(events'[c], c, Y)
  <2> DEFINE u == Kept(c)
  <2>1. Clean(u, c) /\ u \in Seq(T)
    BY <1>8, <1>10, UniqueClean DEF Kept
  <2> HIDE DEF u
  <2>2. One(<<y>> \o u, c, Y)
    BY <1>8, <1>10, <2>1, PushOne
  <2> QED
    BY <1>5, <2>2 DEF u
<1>11. Mine(c)' = Mine(c) \ {x} /\ \A d \in Comps : d # c => Mine(d)' = Mine(d)
  BY <1>1 DEF Mine
<1>12. x = Command(c, x.cmd, x.n)
  BY <1>1, <1>2 DEF IsCommand
<1> QED
  BY <1>2, <1>3, <1>5, <1>7, <1>9, <1>10, <1>11, <1>12

LEMMA EndsOthers ==
  ASSUME NEW S, Rel(S), NEW x, NEW c, NEW y, EndsWith(x, c, y)
  PROVE  c \in Comps /\ \A d \in Comps : d # c => events'[d] = events[d]
<1>1. x \in pending /\ y \in EventsOf(c) /\ Handler(c, y) /\ Common(S) /\ c = x.c
  BY DEF EndsWith, Rel
<1>2. c \in S.base.alive /\ c \in Comps
  BY <1>1, PendingIs
<1> QED
  BY <1>1, <1>2, HandlerFacts

LEMMA EndsRaises ==
  ASSUME NEW S, Rel(S), NEW x, NEW c, NEW y, EndsWith(x, c, y), NEW d \in Comps,
         NEW z, z \in flags'[d], z \notin flags[d]
  PROVE  (d = c /\ z = FlagOf(y)) \/ (y.e = "Error" /\ related[c] # None)
<1>1. x \in pending /\ y \in EventsOf(c) /\ Handler(c, y) /\ Common(S) /\ c = x.c
  BY DEF EndsWith, Rel
<1>2. c \in S.base.alive /\ c \in Comps
  BY <1>1, PendingIs
<1>3. /\ related \in [Comps -> Comps \cup {None}]
      /\ flags = [e \in Comps |-> flags[e]] /\ flags' = Tell(c, y, Ignored(c, y))
  BY <1>1, <1>2, HandlerFacts
<1> QED
  BY <1>2, <1>3, TellIs

LEMMA EndsCommon ==
  ASSUME NEW S, Rel(S), NEW x, NEW c, NEW y, EndsWith(x, c, y), States', Others',
         \A d \in Comps : state'[d] = Absent <=> state[d] = Absent
  PROVE  Common(S)'
<1>1. Common(S)
  BY DEF Rel
<1>2. /\ UNCHANGED <<inList, ret>> /\ Lists(S)'
  BY EndsFacts
<1>3. UNCHANGED <<coreInit, nActiveHandles, supplied, held>> /\ pending' \subseteq pending
  BY DEF EndsWith
<1>4. Handles(S)'
  <2>1. Handles(S)
    BY <1>1 DEF Common
  <2>2. {d \in Comps : state'[d] # Absent} = {d \in Comps : state[d] # Absent}
    OBVIOUS
  <2> QED
    BY <1>3, <2>1, <2>2 DEF Handles
<1>5. Asked(S)'
  BY <1>1, <1>3, KeepAsked DEF Common
<1>6. Buffers' /\ Result(S)'
  BY <1>1, <1>2, <1>3, KeepBuffers DEF Common, Result
<1> QED
  BY <1>2, <1>4, <1>5, <1>6 DEF Common

LEMMA EndsInStep ==
  ASSUME NEW S, Rel(S), ~S.doom, NEW x, NEW c, NEW y, EndsWith(x, c, y), Fits(S, c)',
         Excused(S)', Silent(S)', failures > 0 => failures' > 0,
         \A d \in Comps : d # c => state'[d] = state[d] /\ enabled'[d] = enabled[d]
  PROVE  InStep(S)'
<1>1. InStep(S)
  BY DEF Rel
<1>2. /\ c \in S.base.alive /\ c \in Comps
      /\ UNCHANGED <<masked, related, inList>>
      /\ \A d \in Comps : d # c => events'[d] = events[d]
  <2>1. c \in S.base.alive /\ UNCHANGED <<masked, related, inList>>
    BY EndsFacts
  <2> QED
    BY <2>1, EndsOthers
<1>8. \A d \in Comps : d # c => Mine(d)' = Mine(d)
  BY DEF Mine, EndsWith
<1>3. UNCHANGED <<tunnels, supplied, held, port_setting_changed>>
  BY DEF EndsWith
<1>4. ASSUME NEW d \in Comps PROVE Fits(S, d)'
  <2>1. CASE d = c
    BY <2>1
  <2>2. CASE d # c
    <3>1. Fits(S, d)
      BY <1>1 DEF InStep
    <3> QED
      BY <1>2, <1>8, <2>2, <3>1, FitsSame
  <2> QED
    BY <2>1, <2>2
<1>5. Copied(S)' /\ Sendings(S)' /\ InHand(S)' /\ Unused(S)'
  BY <1>1, <1>2, <1>3 DEF InStep, Copied, Sendings, InHand, Unused
<1>6. Partnered(S)' /\ Covered(S)'
  BY <1>1, <1>2 DEF InStep, Partnered, Covered
<1>7. Unborn(S)'
  BY <1>1, <1>2 DEF InStep, Unborn
<1> QED
  BY <1>4, <1>5, <1>6, <1>7 DEF InStep

LEMMA EndsSees ==
  ASSUME NEW S, Rel(S), NEW x, NEW c, NEW y, EndsWith(x, c, y), NEW Y, y \notin Y
  PROVE  \A d \in Comps : Sees(events'[d], Y) => Sees(events[d], Y)
<1>1. c \in Comps /\ \A d \in Comps : d # c => events'[d] = events[d]
  BY EndsOthers
<1>2. Sees(events'[c], Y) => y \in Y \/ Sees(events[c], Y)
  BY EndsFacts
<1> QED
  BY <1>1, <1>2

LEMMA EndsOne ==
  ASSUME NEW S, Rel(S), NEW x, NEW c, NEW y, EndsWith(x, c, y), NEW Y, y \in Y,
         Clean(events[c], c)
  PROVE  One(events'[c], c, Y)
BY EndsFacts

LEMMA EndsMine ==
  ASSUME NEW S, Rel(S), NEW x, NEW c, NEW y, EndsWith(x, c, y), Mine(c) = {x}
  PROVE  Mine(c)' = {}
BY DEF Mine, EndsWith

LEMMA AfterSet ==
  ASSUME NEW w, NEW x, x.cmd = "StateSet", NEW c \in Comps, x.c = c,
         NEW v, v = After(w, x)
  PROVE  v.state[c] = x.n /\ v.enabled[c] = w.enabled[c]
BY DEF After, World, NewState, NewPorts, Put

LEMMA AfterOn ==
  ASSUME NEW w, NEW x, x.cmd = "PortEnable", NEW c \in Comps, x.c = c,
         NEW v, v = After(w, x)
  PROVE  /\ v.state[c] = w.state[c]
         /\ v.enabled[c] = w.enabled[c] \cup {x.n}
BY DEF After, World, NewState, NewPorts, Put

LEMMA AfterOff ==
  ASSUME NEW w, NEW x, x.cmd = "PortDisable", NEW c \in Comps, x.c = c,
         NEW v, v = After(w, x)
  PROVE  /\ v.state[c] = w.state[c]
         /\ v.enabled[c] = w.enabled[c] \ {x.n}
BY DEF After, World, NewState, NewPorts, Put

(* A command that was performed, or had been already.                      *)
LEMMA PerformedOver ==
  ASSUME NEW S, Rel(S), ~S.doom, NEW x, NEW c, NEW y, EndsWith(x, c, y), Perform(x),
         y \in Ended(x)
  PROVE  Over(S, c)'
<1>1. /\ c \in Comps /\ Waiting(S, c) /\ x = S.sent[c] /\ Mine(c) = {x} /\ x # NoCommand
      /\ c = x.c /\ IsCommand(x)
  BY PendingIs DEF EndsWith
<1>2. Mine(c)' = {}
  BY <1>1, EndsMine
<1>3. One(events'[c], c, Ended(x))
  BY <1>1, EndsOne DEF Waiting
<1>4. state[c] = S.world.state[c] /\ enabled[c] = S.world.enabled[c]
  BY <1>1 DEF Waiting
<1>5. ~Cancelled(x) \/ x.cmd # "PortEnable"
  <2> SUFFICES ASSUME Cancelled(x), x.cmd = "PortEnable" PROVE FALSE
    OBVIOUS
  <2> DEFINE z == Command(x.c, "PortDisable", x.n)
  <2>1. z \in pending /\ z.c = c /\ z.cmd = "PortDisable"
    BY <1>1 DEF Cancelled, Command
  <2> HIDE DEF z
  <2>2. z \in Mine(c)
    BY <2>1 DEF Mine
  <2> QED
    BY <1>1, <2>1, <2>2
<1>6. Typed(c, x.cmd, x.n) /\ States
  BY <1>1 DEF IsCommand, Rel, Common
<1>7. x.cmd \in {"StateSet", "PortEnable", "PortDisable"}
  BY <1>6 DEF Typed
<1> DEFINE w == S.world  v == After(w, x)
<1>8. w.state[c] = state[c] /\ w.enabled[c] = enabled[c]
  BY <1>4
<1>14. v = After(w, x)
  OBVIOUS
<1> HIDE DEF w, v
<1>9. ASSUME x.cmd = "StateSet" PROVE state'[c] = v.state[c] /\ enabled'[c] = v.enabled[c]
  <2>1. state'[c] = x.n /\ enabled'[c] = enabled[c]
    BY <1>1, <1>6, <1>9, PerformIs
  <2>2. v.state[c] = x.n /\ v.enabled[c] = w.enabled[c]
    <3>1. c \in Comps /\ x.c = c /\ x.cmd = "StateSet"
      BY <1>1, <1>9
    <3> QED
      BY <1>14, <3>1, AfterSet
  <2> QED
    BY <1>8, <2>1, <2>2
<1>10. ASSUME x.cmd = "PortEnable" PROVE state'[c] = v.state[c] /\ enabled'[c] = v.enabled[c]
  <2>1. state'[c] = state[c] /\ enabled'[c] = enabled[c] \cup {x.n}
    BY <1>1, <1>5, <1>6, <1>10, PerformIs
  <2>2. v.state[c] = w.state[c] /\ v.enabled[c] = w.enabled[c] \cup {x.n}
    <3>1. c \in Comps /\ x.c = c /\ x.cmd = "PortEnable"
      BY <1>1, <1>10
    <3> QED
      BY <1>14, <3>1, AfterOn
  <2> QED
    BY <1>8, <2>1, <2>2
<1>11. ASSUME x.cmd = "PortDisable" PROVE state'[c] = v.state[c] /\ enabled'[c] = v.enabled[c]
  <2>1. state'[c] = state[c] /\ enabled'[c] = enabled[c] \ {x.n}
    BY <1>1, <1>6, <1>11, PerformIs
  <2>2. v.state[c] = w.state[c] /\ v.enabled[c] = w.enabled[c] \ {x.n}
    <3>1. c \in Comps /\ x.c = c /\ x.cmd = "PortDisable"
      BY <1>1, <1>11
    <3> QED
      BY <1>14, <3>1, AfterOff
  <2> QED
    BY <1>8, <2>1, <2>2
<1>12. S.sent[c] # NoCommand /\ One(events'[c], c, Ended(S.sent[c]))
  BY <1>1, <1>3
<1>13. state'[c] = After(S.world, S.sent[c]).state[c]
       /\ enabled'[c] = After(S.world, S.sent[c]).enabled[c]
  BY <1>1, <1>7, <1>9, <1>10, <1>11 DEF v, w
<1> QED
  BY <1>2, <1>12, <1>13 DEF Over

LEMMA RejectedRefused ==
  ASSUME NEW S, Rel(S), ~S.doom, NEW x, NEW c, EndsWith(x, c, Refusal), Reject(x)
  PROVE  Refused(S, c)'
<1>1. /\ c \in Comps /\ Waiting(S, c) /\ x = S.sent[c] /\ Mine(c) = {x} /\ x # NoCommand
  BY PendingIs DEF EndsWith
<1>2. Mine(c)' = {}
  BY <1>1, EndsMine
<1>3. One(events'[c], c, {Refusal})
  BY <1>1, EndsOne DEF Waiting
<1>4. state[c] = S.world.state[c] /\ enabled[c] = S.world.enabled[c]
  BY <1>1 DEF Waiting
<1>5. Others
  BY DEF Rel, Common
<1>6. UNCHANGED <<state, enabled>> /\ failures' > 0
  BY <1>5, RejectIs
<1> QED
  BY <1>1, <1>2, <1>3, <1>4, <1>6 DEF Refused

LEMMA EndedAre ==
  ASSUME NEW x, NEW c, Typed(c, x.cmd, x.n), NEW y \in Ended(x)
  PROVE  /\ y \in EventsOf(c) /\ y.n1 # "PortUnpopulated" /\ y # Refusal
         /\ y.e = "Error" \/ FlagOf(y) = "ERROR" => x.cmd # "PortEnable" /\ y = SameStateError
<1>1. CASE y = Told(x.cmd, x.n)
  BY <1>1, AnswerTold
<1>2. CASE y # Told(x.cmd, x.n)
  <2>1. x.cmd # "PortEnable" /\ y = SameStateError
    BY <1>2 DEF Ended
  <2>2. y.n1 = "SameState"
    BY <2>1, SameStateIs
  <2>3. y \in EventsOf(c)
    BY <2>1 DEF EventsOf
  <2>4. y # Refusal
    BY <2>2, RefusalIs
  <2> QED
    BY <2>1, <2>2, <2>3, <2>4
<1> QED
  BY <1>1, <1>2

LEMMA SameStateMatters ==
  ASSUME NEW c
  PROVE  SameStateError \notin Harmless(c) /\ Refusal \notin Harmless(c)
<1>1. \A z \in Harmless(c) : z.n2 # 1 \/ z.e # "Error"
  <2>1. Corrupt.n2 = 0
    BY DEF Corrupt, Event
  <2>2. NewSettings(131).e # "Error" /\ NewSettings(11).e # "Error"
    BY NewSettingsIs
  <2> QED
    BY <2>1, <2>2 DEF Harmless
<1> QED
  BY <1>1, SameStateIs, RefusalIs

LEMMA CleanNotOne ==
  ASSUME NEW s, NEW c, Clean(s, c)
  PROVE  ~One(s, c, {SameStateError}) /\ ~One(s, c, {Refusal})
BY SameStateMatters DEF Clean, One

LEMMA PerformedSilent ==
  ASSUME NEW S, Rel(S), ~S.doom, NEW x, NEW c, NEW y, EndsWith(x, c, y), y \in Ended(x),
         UNCHANGED failures
  PROVE  Silent(S)'
<1>1. /\ c \in Comps /\ Waiting(S, c) /\ x = S.sent[c] /\ x # NoCommand
      /\ c = x.c /\ IsCommand(x) /\ InStep(S)
  BY PendingIs DEF EndsWith
<1>2. Typed(c, x.cmd, x.n) /\ Clean(events[c], c)
  BY <1>1 DEF IsCommand, Waiting
<1>3. y.e = "Error" \/ FlagOf(y) = "ERROR" => x.cmd # "PortEnable" /\ y = SameStateError
  BY <1>2, EndedAre
<1>4. related[c] # None => x.cmd = "PortEnable"
  <2>1. related[c] # None => x.cmd \in {"none", "PortEnable"}
    BY <1>1 DEF InStep, Partnered, Copied
  <2>2. x.cmd # "none"
    BY <1>2 DEF Typed
  <2> QED
    BY <2>1, <2>2
<1> SUFFICES ASSUME failures' = 0, NEW d \in Comps, d # video_decode, "ERROR" \in flags'[d]
             PROVE  S.sent[d] # NoCommand /\ One(events'[d], d, {SameStateError})
  BY DEF Silent
<1>5. CASE "ERROR" \in flags[d]
  <2>1. S.sent[d] # NoCommand /\ One(events[d], d, {SameStateError})
    BY <1>1, <1>5 DEF InStep, Silent
  <2>2. d # c
    BY <1>2, <2>1, CleanNotOne
  <2>3. events'[d] = events[d]
    BY <2>2, EndsOthers
  <2> QED
    BY <2>1, <2>3
<1>6. CASE "ERROR" \notin flags[d]
  <2>1. (d = c /\ "ERROR" = FlagOf(y)) \/ (y.e = "Error" /\ related[c] # None)
    BY <1>6, EndsRaises
  <2>2. d = c /\ y \in {SameStateError}
    BY <1>3, <1>4, <2>1
  <2>3. One(events'[c], c, {SameStateError})
    BY <1>2, <2>2, EndsOne
  <2> QED
    BY <1>1, <2>2, <2>3
<1> QED
  BY <1>5, <1>6

LEMMA PerformedExcused ==
  ASSUME NEW S, Rel(S), ~S.doom, NEW x, NEW c, NEW y, EndsWith(x, c, y), y # Refusal,
         UNCHANGED failures
  PROVE  Excused(S)'
<1>1. Excused(S) /\ failures \in Nat
  BY CoreAssumption DEF Rel, InStep, Common, Others
<1>2. y \notin {Refusal}
  OBVIOUS
<1>3. \A d \in Comps : Sees(events'[d], {Refusal}) => Sees(events[d], {Refusal})
  BY <1>2, EndsSees
<1>4. Suspects(S)' \subseteq Suspects(S)
  BY <1>3 DEF Suspects
<1> DEFINE A == S.world.spoiled \cup Suspects(S)'  B == S.world.spoiled \cup Suspects(S)
<1>5. A \subseteq B /\ B \subseteq Comps /\ Cardinality(B) <= failures
  BY <1>1, <1>4 DEF Suspects, Excused
<1> HIDE DEF A, B
<1>6. Cardinality(A) <= failures
  BY <1>1, <1>5, SmallerSet
<1> QED
  BY <1>1, <1>6 DEF Excused, A

LEMMA PerformedRel ==
  ASSUME NEW S, Rel(S), NEW x, NEW c, NEW y, EndsWith(x, c, y), Perform(x), y \in Ended(x)
  PROVE  Rel(S)' /\ UNCHANGED <<supplied, failures>>
<1>1. /\ c \in S.base.alive /\ c \in Comps /\ c = x.c /\ IsCommand(x)
  BY PendingIs DEF EndsWith
<1>2. Typed(c, x.cmd, x.n) /\ States /\ Others /\ Handles(S)
  BY <1>1 DEF IsCommand, Rel, Common
<1>3. /\ UNCHANGED <<orphans, failures, supplied>> /\ States'
      /\ \A d \in Comps : d # c => state'[d] = state[d] /\ enabled'[d] = enabled[d]
  BY <1>1, <1>2, PerformIs
<1>4. state'[c] # Absent /\ state[c] # Absent
  <2>1. state[c] # Absent
    BY <1>1, <1>2 DEF Handles
  <2>2. x.cmd = "StateSet" => state'[c] # Absent
    BY <1>1, <1>2, PerformIs
  <2>3. x.cmd # "StateSet" => state'[c] = state[c]
    BY DEF Perform
  <2> QED
    BY <2>1, <2>2, <2>3
<1>5. UNCHANGED <<masked, related, late>>
  BY EndsFacts
<1>6. Others'
  BY <1>2, <1>3, <1>5, KeepOthers
<1>7. Common(S)'
  <2>1. \A d \in Comps : state'[d] = Absent <=> state[d] = Absent
    BY <1>3, <1>4
  <2> QED
    BY <1>3, <1>6, <2>1, EndsCommon
<1>8. CASE S.doom
  BY <1>3, <1>5, <1>7, <1>8 DEF Rel, Blamed
<1>9. CASE ~S.doom
  <2>1. Fits(S, c)'
    BY <1>9, PerformedOver DEF Fits
  <2>2. Silent(S)'
    BY <1>3, <1>9, PerformedSilent
  <2>3. y # Refusal
    BY <1>2, EndedAre
  <2>4. Excused(S)'
    BY <1>3, <1>9, <2>3, PerformedExcused
  <2>5. InStep(S)'
    BY <1>3, <1>9, <2>1, <2>2, <2>4, EndsInStep
  <2> QED
    BY <1>3, <1>7, <1>9, <2>5 DEF Rel
<1> QED
  BY <1>3, <1>8, <1>9

LEMMA OneAdded ==
  ASSUME NEW A, NEW B, NEW c, NEW n \in Nat, B \subseteq Comps, c \in Comps, A \subseteq B \cup {c},
         Cardinality(B) <= n
  PROVE  Cardinality(A) <= n + 1
<1>0. B \in SUBSET Comps
  OBVIOUS
<1>1. IsFiniteSet(B)
  BY <1>0, CompsFinite, FS_Subset
<1>2. IsFiniteSet(B \cup {c}) /\ Cardinality(B \cup {c}) <= n + 1
  BY <1>1, CountOne
<1> DEFINE D == B \cup {c}
<1>3. A \subseteq D /\ D \subseteq Comps /\ Cardinality(D) <= n + 1 /\ n + 1 \in Nat
  BY <1>2
<1> HIDE DEF D
<1> QED
  BY <1>3, SmallerSet

LEMMA RejectedExcused ==
  ASSUME NEW S, Rel(S), ~S.doom, NEW x, NEW c, EndsWith(x, c, Refusal), Reject(x)
  PROVE  Excused(S)'
<1>1. /\ c \in Comps /\ x = S.sent[c] /\ c = x.c /\ InStep(S)
  BY PendingIs DEF EndsWith
<1>2. Excused(S) /\ failures \in Nat /\ Others
  BY <1>1, CoreAssumption DEF Rel, InStep, Common, Others
<1>3. failures' = failures \/ failures' = failures + 1
  BY <1>2, RejectIs
<1>4. x.cmd # "PortEnable" => failures' = failures + 1
  BY <1>2, RejectIs
<1> DEFINE A == S.world.spoiled \cup Suspects(S)'  B == S.world.spoiled \cup Suspects(S)
<1>5. \A d \in Comps : d # c => events'[d] = events[d]
  BY EndsOthers
<1>6. B \subseteq Comps /\ Cardinality(B) <= failures
  BY <1>2 DEF Suspects, Excused
<1>7. CASE x.cmd = "StateSet"
  <2>1. A \subseteq B \cup {c}
    BY <1>5 DEF Suspects
  <2>2. failures' = failures + 1
    BY <1>4, <1>7
  <2> HIDE DEF A, B
  <2> DEFINE n == failures
  <2>4. /\ n \in Nat /\ B \subseteq Comps /\ c \in Comps /\ A \subseteq B \cup {c}
        /\ Cardinality(B) <= n
    BY <1>1, <1>2, <1>6, <2>1
  <2> HIDE DEF n
  <2>5. Cardinality(A) <= n + 1
    BY <2>4, OneAdded
  <2>3. Cardinality(A) <= failures + 1
    BY <2>5 DEF n
  <2> QED
    BY <1>2, <2>2, <2>3 DEF Excused, A
<1>8. CASE x.cmd # "StateSet"
  <2>1. A \subseteq B
    BY <1>1, <1>5, <1>8 DEF Suspects
  <2> HIDE DEF A, B
  <2>2. Cardinality(A) <= failures
    BY <1>2, <1>6, <2>1, SmallerSet
  <2> DEFINE m == Cardinality(A)
  <2>3. A \subseteq Comps
    BY <1>6, <2>1
  <2>4. m \in Nat
    <3>1. IsFiniteSet(A)
      BY <2>3, CompsFinite, FS_Subset
    <3> QED
      BY <3>1, FS_CardinalityType
  <2>5. m <= failures'
    <3> HIDE DEF m
    <3>1. m <= failures
      BY <2>2 DEF m
    <3> QED
      BY <1>2, <1>3, <2>4, <3>1
  <2> QED
    BY <1>2, <2>5 DEF Excused, A
<1> QED
  BY <1>7, <1>8

LEMMA RejectedRel ==
  ASSUME NEW S, Rel(S), NEW x, NEW c, EndsWith(x, c, Refusal), Reject(x)
  PROVE  Rel(S)' /\ UNCHANGED supplied /\ failures' > 0
<1>1. States /\ Others
  BY DEF Rel, Common
<1>2. /\ UNCHANGED <<state, enabled, supplied>>
      /\ failures' \in 0 .. MaxFailures /\ failures' > 0
  BY <1>1, RejectIs
<1>3. UNCHANGED <<masked, related, late>>
  BY EndsFacts
<1>4. States' /\ Others'
  BY <1>1, <1>2, <1>3, KeepStates DEF Others
<1>5. Common(S)'
  <2>1. \A d \in Comps : state'[d] = Absent <=> state[d] = Absent
    BY <1>2
  <2> QED
    BY <1>4, <2>1, EndsCommon
<1>6. CASE S.doom
  <2>1. S.told \in Comps \cup {None}
    BY <1>6 DEF Rel, Blamed
  <2> QED
    BY <1>2, <1>5, <1>6, <2>1 DEF Rel, Blamed
<1>7. CASE ~S.doom
  <2>1. Fits(S, c)'
    BY <1>7, RejectedRefused DEF Fits
  <2>2. Silent(S)'
    BY <1>2 DEF Silent
  <2>3. Excused(S)'
    BY <1>7, RejectedExcused
  <2>5. \A d \in Comps : d # c => state'[d] = state[d] /\ enabled'[d] = enabled[d]
    BY <1>2
  <2>4. InStep(S)'
    BY <1>2, <2>5, <1>7, <2>1, <2>2, <2>3, EndsInStep
  <2> QED
    BY <1>2, <1>5, <1>7, <2>4 DEF Rel
<1> QED
  BY <1>2, <1>6, <1>7

LEMMA StepEnds ==
  ASSUME NEW S, Sound(S), NEW f, NEW k, Facing(S, f, k), NEW x, NEW c, NEW y,
         EndsWith(x, c, y), Rel(S)', UNCHANGED supplied, failures > 0 => failures' > 0
  PROVE  IInv'
<1>1. Rel(S) /\ Going
  BY DEF Facing
<1>2. failed' = failed /\ UNCHANGED <<todo, got, late>> /\ Heralds
  BY <1>1, EndsFacts
<1>3. Going'
  BY <1>1, <1>2 DEF Going
<1> QED
  BY <1>2, <1>3, FirmwareOnwards

LEMMA StepAnswer ==
  ASSUME NEW S, Sound(S), NEW f, NEW k, Facing(S, f, k), NEW x, Answer(x),
         UNCHANGED port_setting_changed
  PROVE  IInv'
<1> DEFINE c == x.c
<1>1. Rel(S) /\ x \in pending
  BY AnswerIs DEF Facing
<1>2. c \in Comps /\ Typed(c, x.cmd, x.n)
  BY <1>1, PendingIs DEF IsCommand
<1>3. c = x.c
  OBVIOUS
<1>4. \/ Perform(x) /\ Handler(c, Told(x.cmd, x.n))
      \/ SameState(x) /\ Perform(x) /\ Handler(c, SameStateError)
      \/ Reject(x) /\ Handler(c, Refusal)
  BY AnswerIs
<1> HIDE DEF c
<1>5. ASSUME NEW y \in Ended(x), Perform(x), Handler(c, y) PROVE IInv'
  <2>1. /\ pending' = pending \ {x}
        /\ UNCHANGED <<coreInit, nActiveHandles, tunnels, supplied, held, failures>>
    BY <1>5 DEF Perform
  <2>2. y \in EventsOf(c) /\ y.n1 # "PortUnpopulated"
    BY <1>2, EndedAre
  <2>3. EndsWith(x, c, y)
    BY <1>1, <1>3, <1>5, <2>1, <2>2 DEF EndsWith
  <2>4. Rel(S)'
    BY <1>1, <1>5, <2>3, PerformedRel
  <2> QED
    BY <2>1, <2>3, <2>4, StepEnds
<1>6. CASE Perform(x) /\ Handler(c, Told(x.cmd, x.n))
  <2>1. Told(x.cmd, x.n) \in Ended(x)
    BY DEF Ended
  <2> QED
    BY <1>5, <1>6, <2>1
<1>7. CASE SameState(x) /\ Perform(x) /\ Handler(c, SameStateError)
  <2>1. x.cmd # "PortEnable"
    BY <1>7 DEF SameState
  <2>2. SameStateError \in Ended(x)
    BY <2>1 DEF Ended
  <2> QED
    BY <1>5, <1>7, <2>2
<1>8. CASE Reject(x) /\ Handler(c, Refusal)
  <2>1. /\ pending' = pending \ {x}
        /\ UNCHANGED <<coreInit, nActiveHandles, tunnels, supplied, held>>
    BY <1>8 DEF Reject
  <2>2. Refusal \in EventsOf(c) /\ Refusal.n1 # "PortUnpopulated"
    BY RefusalIs DEF EventsOf
  <2>3. EndsWith(x, c, Refusal)
    BY <1>1, <1>3, <1>8, <2>1, <2>2 DEF EndsWith
  <2>4. Rel(S)' /\ failures' > 0
    BY <1>1, <1>8, <2>3, RejectedRel
  <2> QED
    BY <2>1, <2>3, <2>4, StepEnds
<1> QED
  BY <1>4, <1>6, <1>7, <1>8

(* The initial state.                                                      *)
LEMMA InitIs ==
  ASSUME Init
  PROVE  Going /\ CoreInit /\ todo = main /\ port_setting_changed = FALSE
BY Zenon DEF Init, ClientInit, SinkInit, Going

LEMMA InitLists ==
  ASSUME Init
  PROVE  /\ spare = [k \in Clients |-> 0] /\ events = [c \in Comps |-> <<>>]
         /\ flags = [c \in Comps |-> {}] /\ related = [c \in Comps |-> None]
         /\ masked = {} /\ inList = [c \in Comps |-> <<>>] /\ ret = 0 /\ late = FALSE
<1>1. ClientInit
  BY Zenon DEF Init
<1> QED
  BY <1>1, Zenon DEF ClientInit

LEMMA InitCore ==
  ASSUME Init
  PROVE  /\ coreInit = 0 /\ nActiveHandles = 0
         /\ state = [c \in Comps |-> Absent] /\ enabled = [c \in Comps |-> {}]
         /\ pending = {} /\ tunnels = {} /\ orphans = {} /\ failures = 0
         /\ supplied = [c \in Comps |-> 0] /\ held = [c \in Comps |-> <<>>]
BY InitIs DEF CoreInit

LEMMA BasedNothing == Based(0) = Base(0, {}, {})
<1>1. Created(0) = {}
  <2>1. Created(0) = {c \in Comps : c[2] < 0}
    BY CreatedIs
  <2>2. \A c \in Comps : ~(c[2] < 0)
    <3> SUFFICES ASSUME NEW c \in Comps PROVE ~(c[2] < 0)
      OBVIOUS
    <3>1. c[2] \in 0 .. 2
      BY Kinds
    <3> QED
      BY <3>1
  <2> QED
    BY <2>1, <2>2
<1>2. {k \in 0 .. 2 : k < 0} = {}
  OBVIOUS
<1> QED
  BY <1>1, <1>2 DEF Based

LEMMA JoinedNothing ==
  ASSUME NEW no \in BOOLEAN, ~no
  PROVE  Joined(0, no) = {}
<1>1. 1 .. (0 - 1) = {}
  OBVIOUS
<1>2. {t \in {ClockTunnel} : 0 > 0} = {}
  OBVIOUS
<1> QED
  BY <1>1, <1>2 DEF Joined

LEMMA SetUpNothing ==
  ASSUME NEW no \in BOOLEAN, ~no
  PROVE  LET v == SetUp(0, no, 0)
         IN  /\ v.state = [c \in Comps |-> Absent] /\ v.enabled = [c \in Comps |-> {}]
             /\ v.supplied = [c \in Comps |-> 0] /\ v.tunnels = {} /\ v.seen = no
             /\ v.hand = 0 /\ v.spoiled = {}
<1> DEFINE v == SetUp(0, no, 0)
<1>1. /\ v.state = [c \in Comps |-> v.state[c]] /\ v.enabled = [c \in Comps |-> v.enabled[c]]
      /\ v.supplied = [c \in Comps |-> v.supplied[c]] /\ v.tunnels = {} /\ v.seen = no
      /\ v.hand = 0 /\ v.spoiled = {}
  BY JoinedNothing DEF SetUp, World
<1>2. ASSUME NEW c \in Comps
      PROVE  v.state[c] = Absent /\ v.enabled[c] = {} /\ v.supplied[c] = 0
  <2>1. c[2] \in 0 .. 2
    BY Kinds
  <2>2. ~(c[2] < 0)
    BY <2>1
  <2> QED
    BY <2>2, SetUpAt
<1> HIDE DEF v
<1> QED
  BY <1>1, <1>2 DEF v

LEMMA SparesNothing ==
  ASSUME NEW ev
  PROVE  Spares(ev, {}) = [k \in Clients |-> 0]
BY DEF Spares

LEMMA NothingUnborn ==
  ASSUME NEW c
  PROVE  <<>> \in Seq(EventsOf(c)) /\ Len(<<>>) = 0 /\ ~Sees(<<>>, EventsOf(c))
BY DEF Sees

(* The program's text, at a moment when no event is on a list.             *)
LEMMA TextFirst ==
  ASSUME NEW S, NEW p, Text(p), Heard(S)
  PROVE  AtTop(S, p) /\ Shaped(p)
<1>1. Shaped(p)
  BY DEF Shaped
<1>2. ASSUME p # <<>>
      PROVE  Heeded(S, Head(p)) /\ Before(S, Head(p), Tail(p))
  <2>1. Head(p).do \notin {"suspend", "look for error", "woken", "queue"}
    BY <1>2, TextPop
  <2>2. Before(S, Head(p), Tail(p))
    BY <2>1 DEF Before
  <2>3. Heeded(S, Head(p))
    BY DEF Heard, Heeded
  <2> QED
    BY <2>2, <2>3
<1> QED
  BY <1>1, <1>2 DEF AtTop

LEMMA NoneHandled ==
  ASSUME NEW D, D = {}
  PROVE  Cardinality(D) = 0
BY FS_EmptySet

LEMMA InitCommon ==
  ASSUME Init, NEW S, S.base = Base(0, {}, {}), S.ret = 0
  PROVE  Common(S)
<1>1. S.base.inits = 0 /\ S.base.clients = {} /\ S.base.alive = {}
  BY DEF Base
<1>2. Handles(S)
  <2>1. Cardinality(S.base.alive) = 0
    <3> DEFINE D == S.base.alive
    <3>1. D = {}
      BY <1>1
    <3> HIDE DEF D
    <3>2. Cardinality(D) = 0
      BY <3>1, NoneHandled
    <3> QED
      BY <3>2 DEF D
  <2>2. coreInit = 0 /\ nActiveHandles = 0 /\ state = [c \in Comps |-> Absent]
    BY InitCore
  <2>3. {c \in Comps : state[c] # Absent} = {}
    BY <2>2
  <2> QED
    BY <1>1, <2>1, <2>2, <2>3 DEF Handles
<1>3. States
  BY InitCore DEF States, Absent
<1>4. Asked(S)
  BY InitCore DEF Asked
<1>5. Buffers
  <2>1. NumBuffers \in Nat
    BY CoreAssumption
  <2>2. /\ held = [c \in Comps |-> <<>>] /\ inList = [c \in Comps |-> <<>>]
        /\ supplied = [c \in Comps |-> 0]
    BY InitCore, InitLists
  <2> QED
    BY <2>1, <2>2 DEF Buffers
<1>6. Others
  <2>1. MaxFailures \in Nat
    BY CoreAssumption
  <2>2. /\ masked = {} /\ related = [c \in Comps |-> None] /\ failures = 0 /\ late = FALSE
        /\ orphans = {}
    BY InitCore, InitLists
  <2>3. failures \in 0 .. MaxFailures
    BY <2>1, <2>2
  <2>4. related \in [Comps -> Comps \cup {None}]
    BY <2>2
  <2> QED
    BY <2>2, <2>3, <2>4 DEF Others
<1>7. Lists(S)
  <2>1. Few(events)
    <3>1. events = [c \in Comps |-> <<>>]
      BY InitLists
    <3> QED
      BY <3>1, NothingUnborn DEF Few
  <2> QED
    BY <1>1, <2>1, InitLists, SparesNothing DEF Lists
<1>8. Result(S)
  BY InitLists DEF Result
<1> QED
  BY <1>2, <1>3, <1>4, <1>5, <1>6, <1>7, <1>8 DEF Common

LEMMA NoCommandIs == NoCommand.cmd = "none"
BY DEF NoCommand, Command

LEMMA InitInStep ==
  ASSUME Init, NEW S, S.sent = Quiet, S.related = Unrelated, S.masked = {},
         S.base = Base(0, {}, {}),
         S.world.state = [c \in Comps |-> Absent], S.world.enabled = [c \in Comps |-> {}],
         S.world.supplied = [c \in Comps |-> 0], S.world.tunnels = {}, S.world.seen = FALSE,
         S.world.hand = 0, S.world.spoiled = {}
  PROVE  InStep(S)
<1>1. \A c \in Comps : S.sent[c] = NoCommand /\ S.related[c] = None
  BY DEF Quiet, Unrelated
<1>2. Copied(S)
  BY InitIs, InitCore, InitLists DEF Copied, Unrelated
<1>3. Sendings(S)
  BY <1>1 DEF Sendings
<1>4. ASSUME NEW c \in Comps PROVE Fits(S, c) /\ ~Sees(events[c], {Refusal}) /\ events[c] = <<>>
  <2>1. events[c] = <<>> /\ Mine(c) = {} /\ state[c] = Absent /\ enabled[c] = {}
    BY InitCore, InitLists DEF Mine
  <2>2. Clean(events[c], c) /\ ~Sees(events[c], {Refusal})
    BY <2>1 DEF Clean, Sees
  <2> QED
    BY <1>1, <2>1, <2>2 DEF Fits, Waiting
<1>5. InHand(S)
  <2>1. held[video_decode] = <<>> /\ inList[video_decode] = <<>> /\ supplied[video_decode] = 0
    BY InitCore, InitLists, OfVideo
  <2> QED
    BY <2>1 DEF InHand
<1>6. Unused(S)
  BY InitCore, InitLists DEF Unused
<1>7. Excused(S)
  <2>1. Suspects(S) = {}
    BY <1>4 DEF Suspects
  <2>2. S.world.spoiled \cup Suspects(S) = {}
    BY <2>1
  <2> DEFINE D == S.world.spoiled \cup Suspects(S)
  <2> HIDE DEF D
  <2>3. Cardinality(D) = 0
    BY <2>2, NoneHandled DEF D
  <2> QED
    BY <2>3, InitCore DEF Excused, D
<1>8. Partnered(S) /\ Unborn(S) /\ Silent(S)
  <2>1. \A c \in Comps : flags[c] = {}
    BY InitLists
  <2> QED
    BY <1>1, <1>4, <2>1 DEF Partnered, Unborn, Silent
<1>9. Covered(S)
  BY <1>1, NoCommandIs DEF Covered
<1> QED
  BY <1>2, <1>3, <1>4, <1>5, <1>6, <1>7, <1>8, <1>9 DEF InStep

LEMMA InitInv ==
  ASSUME Init
  PROVE  IInv
<1> DEFINE no == Is(FALSE)
           v == SetUp(0, no, 0)
           w == World(v.seen, v.hand, v.state, v.enabled, v.tunnels, v.supplied, {})
           S == Calm(0, Based(0), w)
<1>1. no \in BOOLEAN /\ ~no /\ no = FALSE
  BY DEF Is
<1> HIDE DEF no
<1>2. /\ v.state = [c \in Comps |-> Absent] /\ v.enabled = [c \in Comps |-> {}]
      /\ v.supplied = [c \in Comps |-> 0] /\ v.tunnels = {} /\ v.seen = no
      /\ v.hand = 0 /\ v.spoiled = {}
  BY <1>1, SetUpNothing
<1>3. w \in Variants(v)
  <2>1. v.state \in [Comps -> 0 .. 3]
    BY <1>2 DEF Absent
  <2>2. Like(v.state, v.state, {})
    BY DEF Like
  <2> HIDE DEF v
  <2> QED
    BY <2>1, <2>2, VariantOf
<1>4. S \in Near(Based(0), v)
  <2> HIDE DEF v, w
  <2> QED
    BY <1>3 DEF Near
<1>5. Safe(main, S)
  <2> HIDE DEF S
  <2> QED
    BY <1>1, <1>4, MainSafe
<1>6. /\ w.state = [c \in Comps |-> Absent] /\ w.enabled = [c \in Comps |-> {}]
      /\ w.supplied = [c \in Comps |-> 0] /\ w.tunnels = {} /\ w.seen = FALSE
      /\ w.hand = 0 /\ w.spoiled = {}
  <2> HIDE DEF v
  <2> QED
    BY <1>1, <1>2 DEF World
<1> HIDE DEF v, w
<1>7. /\ S.doom = FALSE /\ S.ret = 0 /\ S.sent = Quiet /\ S.related = Unrelated
      /\ S.masked = {} /\ S.base = Base(0, {}, {}) /\ S.world = w
  BY BasedNothing DEF Calm, Sync
<1> HIDE DEF S
<1>8. Common(S) /\ InStep(S)
  BY <1>6, <1>7, InitCommon, InitInStep
<1>9. Rel(S)
  BY <1>7, <1>8 DEF Rel
<1>10. Heard(S)
  BY <1>7 DEF Heard, Quiet
<1>11. AtTop(S, main) /\ Shaped(main)
  BY <1>10, TextMain, TextFirst
<1>12. Sound(S)
  BY <1>5, <1>9, <1>11, InitIs DEF Sound
<1> QED
  BY <1>12, InitIs DEF IInv

(* The steps of the program.                                               *)
LEMMA AtIs ==
  ASSUME NEW what, At(what)
  PROVE  Going /\ todo # <<>> /\ Top.do = what
BY Zenon DEF At, Going

LEMMA StillGoing ==
  ASSUME Going, UNCHANGED failed
  PROVE  Going'
BY Zenon DEF Going

LEMMA FacingIs ==
  ASSUME NEW S, NEW f, NEW k, Facing(S, f, k)
  PROVE  Going /\ Top = f /\ Rest = k /\ todo = <<f>> \o k /\ IsSeq(k)
BY Zenon DEF Facing

LEMMA DoSend ==
  ASSUME NEW S, NEW f, NEW k, Facing(S, f, k), UNCHANGED port_setting_changed, SendCommand
  PROVE  IInv'
<1>1. At("send") /\ OMX_SendCommand(f.c, f.cmd, f.n) /\ todo' = k /\ UNCHANGED <<client, ret, got, failed, late>>
  BY FacingIs DEF SendCommand
<1>2. f.do = "send" /\ Going'
  BY <1>1, AtIs, StillGoing, FacingIs
<1>3. UNCHANGED <<lists, masked, related, inList, ret, late, port_setting_changed>>
  BY <1>1 DEF client
<1> QED
  BY <1>1, <1>2, <1>3, StepSend

LEMMA DoRemove ==
  ASSUME NEW S, NEW f, NEW k, Facing(S, f, k), UNCHANGED port_setting_changed,
         ilclient_remove_event
  PROVE  IInv'
<1> DEFINE i == Find(f.c, f.wanted)
<1>0. Top = f /\ Rest = k
  BY FacingIs
<1>1. /\ At("remove") /\ todo' = k
      /\ UNCHANGED <<core, masked, related, inList, got, failed, late, reports>>
      /\ i = 0 => ret' = -1 /\ UNCHANGED lists
      /\ i # 0 => /\ ret' = 0 /\ TakeEvent(f.c, i)
                  /\ flags' = IF events[f.c][i].e = "PortSettingsChanged" THEN flags
                              ELSE Lower(f.c, FlagOf(events[f.c][i]))
  <2>1. CASE i = 0
    BY <1>0, <2>1, Zenon DEF ilclient_remove_event
  <2>2. CASE i # 0
    BY <1>0, <2>2, Zenon DEF ilclient_remove_event
  <2> QED
    BY <2>1, <2>2
<1>2. f.do = "remove" /\ Going'
  BY <1>1, AtIs, StillGoing, FacingIs
<1> HIDE DEF i
<1>3. i = Find(f.c, f.wanted)
  BY DEF i
<1> QED
  BY <1>1, <1>2, <1>3, StepRemove

LEMMA DoRelate ==
  ASSUME NEW S, NEW f, NEW k, Facing(S, f, k), UNCHANGED port_setting_changed, SetRelated
  PROVE  IInv'
<1>1. /\ At("relate") /\ todo' = k /\ related' = [related EXCEPT ![f.c] = f.to]
      /\ UNCHANGED <<core, lists, masked, inList, ret, got, failed, late, reports>>
  BY FacingIs DEF SetRelated
<1>2. f.do = "relate" /\ Going'
  BY <1>1, AtIs, StillGoing, FacingIs
<1> QED
  BY <1>1, <1>2, StepRelate

LEMMA DoMask ==
  ASSUME NEW S, NEW f, NEW k, Facing(S, f, k), UNCHANGED port_setting_changed, SetErrorMask
  PROVE  IInv'
<1>1. /\ At("mask") /\ todo' = k
      /\ masked' = (IF f.on THEN masked \cup {f.c} ELSE masked \ {f.c})
      /\ UNCHANGED <<core, lists, related, inList, ret, got, failed, late, reports>>
  <2>1. Top = f /\ Rest = k
    BY FacingIs
  <2> QED
    BY <2>1, Zenon DEF SetErrorMask
<1>2. f.do = "mask" /\ Going'
  BY <1>1, AtIs, StillGoing, FacingIs
<1> QED
  BY <1>1, <1>2, StepMask

LEMMA DoCheck ==
  ASSUME NEW S, NEW f, NEW k, Facing(S, f, k), UNCHANGED port_setting_changed,
         ilclient_wait_for_command_complete_dual
  PROVE  IInv'
<1> DEFINE i == Find(f.c, Ends(f))
           over == f.other # None /\ Find(f.other, CommandError) # 0
<1>1. /\ At("check")
      /\ UNCHANGED <<core, masked, related, inList, failed, late, reports>>
      /\ \/ /\ i # 0 /\ TakeEvent(f.c, i) /\ ret' = Outcome(events[f.c][i])
            /\ flags' = Lower(f.c, FlagOf(events[f.c][i])) /\ todo' = k
         \/ i = 0 /\ over /\ ret' = -2 /\ todo' = k /\ UNCHANGED lists
         \/ /\ i = 0 /\ ~over /\ UNCHANGED <<lists, ret>>
            /\ todo' = Suspend(f.c, {FlagOf(Event("CmdComplete", f.cmd, f.n)), "ERROR"}, FALSE)
                       \o todo
  BY FacingIs DEF ilclient_wait_for_command_complete_dual
<1>2. f.do = "check" /\ Going' /\ todo = <<f>> \o k
  BY <1>1, AtIs, StillGoing, FacingIs
<1>3. Suspend(f.c, {FlagOf(Event("CmdComplete", f.cmd, f.n)), "ERROR"}, FALSE) = <<Awaits(f)>>
  BY DEF Suspend, Awaits, Asleep
<1> HIDE DEF i
<1>4. i = Find(f.c, Ends(f))
  BY DEF i
<1>5. \/ i # 0 /\ CheckRests(f, i, k)
      \/ /\ i = 0 /\ over /\ ret' = -2 /\ todo' = k
         /\ UNCHANGED <<core, lists, masked, related, inList, late, port_setting_changed>>
      \/ /\ i = 0 /\ ~over /\ todo' = <<Awaits(f)>> \o (<<f>> \o k)
         /\ UNCHANGED <<core, lists, masked, related, inList, ret, late, port_setting_changed>>
  BY <1>1, <1>2, <1>3 DEF CheckRests
<1> QED
  BY <1>2, <1>4, <1>5, StepCheck

LEMMA DoAwake ==
  ASSUME NEW S, NEW f, NEW k, Facing(S, f, k), UNCHANGED port_setting_changed, Awake
  PROVE  IInv'
<1>1. /\ At("suspend") /\ todo' = k
      /\ flags[f.c] \cap f.mask # {} /\ got' = flags[f.c] \cap f.mask
      /\ flags' = [flags EXCEPT ![f.c] = @ \ f.mask]
      /\ UNCHANGED <<core, spare, events, masked, related, inList, ret, failed, late, reports>>
  BY FacingIs DEF Awake
<1>2. f.do = "suspend" /\ Going'
  BY <1>1, AtIs, StillGoing, FacingIs
<1>3. SleepEnds(f, k)
  BY <1>1 DEF SleepEnds
<1> QED
  BY <1>2, <1>3, StepSuspend

LEMMA DoStartled ==
  ASSUME NEW S, NEW f, NEW k, Facing(S, f, k), UNCHANGED port_setting_changed, Startled
  PROVE  IInv'
<1> DEFINE stale == f.mask \cap {"STATE_CHANGED", "PORT_ENABLED", "PORT_DISABLED"}
<1>1. /\ At("suspend") /\ todo' = k
      /\ stale \ flags[f.c] # {} /\ got' = stale \cup (flags[f.c] \cap f.mask)
      /\ flags' = [flags EXCEPT ![f.c] = @ \ f.mask]
      /\ UNCHANGED <<core, spare, events, masked, related, inList, ret, failed, late, reports>>
  BY FacingIs DEF Startled
<1>2. f.do = "suspend" /\ Going'
  BY <1>1, AtIs, StillGoing, FacingIs
<1>3. "ERROR" \notin stale
  OBVIOUS
<1> HIDE DEF stale
<1>4. SleepEnds(f, k)
  BY <1>1, <1>3 DEF SleepEnds
<1> QED
  BY <1>2, <1>4, StepSuspend

LEMMA DoTimesOut ==
  ASSUME NEW S, NEW f, NEW k, Facing(S, f, k), UNCHANGED port_setting_changed, TimesOut
  PROVE  IInv'
<1>1. /\ At("suspend") /\ todo' = k /\ f.timeout /\ got' = {} /\ late' = TRUE
      /\ UNCHANGED <<core, client, ret, failed>>
  BY FacingIs DEF TimesOut
<1>2. f.do = "suspend" /\ Going'
  BY <1>1, AtIs, StillGoing, FacingIs
<1>3. SleepEnds(f, k)
  BY <1>1 DEF SleepEnds, client, lists
<1> QED
  BY <1>2, <1>3, StepSuspend

LEMMA DoLook ==
  ASSUME NEW S, NEW f, NEW k, Facing(S, f, k), UNCHANGED port_setting_changed, WaitLooks
  PROVE  IInv'
<1> DEFINE i == Find(f.c, f.wanted)
<1>0. Top = f /\ Rest = k
  BY FacingIs
<1>1. /\ At("look")
      /\ i # 0 => TakeEvent(f.c, i) /\ ret' = 0 /\ todo' = k
      /\ i = 0 => todo' = <<LookError(f)>> \o todo /\ UNCHANGED <<spare, events, ret>>
      /\ UNCHANGED <<core, flags, masked, related, inList, got, failed, late, reports>>
  <2>1. CASE i = 0
    BY <1>0, <2>1, Zenon DEF WaitLooks, LookError
  <2>2. CASE i # 0
    BY <1>0, <2>2, Zenon DEF WaitLooks
  <2> QED
    BY <2>1, <2>2
<1>2. f.do = "look" /\ Going' /\ todo = <<f>> \o k
  BY <1>1, AtIs, StillGoing, FacingIs
<1> HIDE DEF i
<1>3. i = Find(f.c, f.wanted)
  BY DEF i
<1> QED
  BY <1>1, <1>2, <1>3, StepLook

LEMMA DoLookError ==
  ASSUME NEW S, NEW f, NEW k, Facing(S, f, k), UNCHANGED port_setting_changed, WaitLooksForError
  PROVE  IInv'
<1> DEFINE w == Head(k)
<1>0. Top = f /\ Rest = k
  BY FacingIs
<1>1. /\ At("look for error")
      /\ Find(w.c, AnyError) # 0 =>
           flags' = Lower(w.c, "ERROR") /\ ret' = -2 /\ todo' = Tail(k)
      /\ Find(w.c, AnyError) = 0 =>
           /\ todo' = Suspend(w.c, {w.flag, "ERROR"}, w.timeout) \o <<Woken(w)>> \o k
           /\ UNCHANGED <<flags, ret>>
      /\ UNCHANGED <<core, spare, events, masked, related, inList, got, failed, late, reports>>
  <2>1. CASE Find(w.c, AnyError) = 0
    BY <1>0, <2>1, Zenon DEF WaitLooksForError, Woken
  <2>2. CASE Find(w.c, AnyError) # 0
    BY <1>0, <2>2, Zenon DEF WaitLooksForError
  <2> QED
    BY <2>1, <2>2
<1>2. LooksBad(f)
  BY <1>0, <1>1, AtIs, Zenon DEF LooksBad
<1>3. Going'
  <2>1. UNCHANGED failed
    BY <1>1
  <2> QED
    BY <2>1, StillGoing, FacingIs
<1>4. Suspend(w.c, {w.flag, "ERROR"}, w.timeout) \o <<Woken(w)>> \o k
        = <<LooksFor(w)>> \o (<<Woken(w)>> \o k)
  <2> DEFINE e == LooksFor(w)  t == <<Woken(w)>>
  <2>1. Suspend(w.c, {w.flag, "ERROR"}, w.timeout) = <<e>>
    BY DEF Suspend, LooksFor, Asleep
  <2>2. IsSeq(t) /\ IsSeq(k)
    BY OneIsSeq, FacingIs
  <2> HIDE DEF e, t
  <2>3. (<<e>> \o t) \o k = <<e>> \o (t \o k)
    BY <2>2, PushAssociates
  <2> QED
    BY <2>1, <2>3 DEF t, e
<1> HIDE DEF w
<1>5. w = Head(k)
  BY DEF w
<1> QED
  BY <1>1, <1>2, <1>3, <1>4, <1>5, StepLookError

LEMMA DoWoken ==
  ASSUME NEW S, NEW f, NEW k, Facing(S, f, k), UNCHANGED port_setting_changed, WaitWoken
  PROVE  IInv'
<1>0. Top = f /\ Rest = k
  BY FacingIs
<1> DEFINE r == IF got = {} THEN -1 ELSE IF "ERROR" \in got THEN -2 ELSE ret
           q == IF got = {} \/ "ERROR" \in got THEN Tail(k) ELSE k
<1>1. At("woken") /\ todo' = q /\ UNCHANGED <<core, client, failed, late>>
  BY <1>0, Zenon DEF WaitWoken
<1>2. ret' = CASE got = {} -> -1 [] "ERROR" \in got -> -2 [] OTHER -> ret
  BY Zenon DEF WaitWoken
<1>3. ret' = r
  <2>1. got = {} => "ERROR" \notin got
    OBVIOUS
  <2>2. CASE got = {}
    BY <1>2, <2>1, <2>2
  <2>3. CASE got # {} /\ "ERROR" \in got
    BY <1>2, <2>3
  <2>4. CASE got # {} /\ "ERROR" \notin got
    BY <1>2, <2>4
  <2> QED
    BY <2>2, <2>3, <2>4
<1>4. f.do = "woken" /\ Going'
  BY <1>0, <1>1, AtIs, StillGoing
<1>5. UNCHANGED <<core, lists, masked, related, inList, late, port_setting_changed>>
  BY <1>1 DEF client
<1> HIDE DEF r, q
<1>6. /\ r = (IF got = {} THEN -1 ELSE IF "ERROR" \in got THEN -2 ELSE ret)
      /\ q = (IF got = {} \/ "ERROR" \in got THEN Tail(k) ELSE k)
  BY DEF r, q
<1> QED
  BY <1>1, <1>3, <1>4, <1>5, <1>6, StepWoken

LEMMA DoInitClient ==
  ASSUME NEW S, NEW f, NEW k, Facing(S, f, k), UNCHANGED port_setting_changed, InitClient
  PROVE  IInv'
<1>0. Top = f /\ Rest = k
  BY FacingIs
<1>1. At("init client")
  BY Zenon DEF InitClient
<1>2. /\ spare' = [spare EXCEPT ![f.k] = NumEvents] /\ todo' = k
      /\ UNCHANGED <<core, events, flags, masked, related, inList, ret, got, failed, late, reports>>
  BY <1>0, Zenon DEF InitClient
<1>3. AsksClient(f)
  BY <1>0, <1>1, AtIs, Zenon DEF AsksClient
<1>4. Going'
  BY <1>2, StillGoing, FacingIs
<1> QED
  BY <1>2, <1>3, <1>4, StepInitClient

LEMMA DoDestroyClient ==
  ASSUME NEW S, NEW f, NEW k, Facing(S, f, k), UNCHANGED port_setting_changed, DestroyClient
  PROVE  IInv'
<1>0. Top = f /\ Rest = k
  BY FacingIs
<1>1. At("destroy client")
  BY Zenon DEF DestroyClient
<1>2. /\ spare' = [spare EXCEPT ![f.k] = 0] /\ todo' = k
      /\ UNCHANGED <<core, events, flags, masked, related, inList, ret, got, failed, late, reports>>
  BY <1>0, Zenon DEF DestroyClient
<1>3. EndsClient(f)
  BY <1>0, <1>1, AtIs, Zenon DEF EndsClient
<1>4. Going'
  BY <1>2, StillGoing, FacingIs
<1> QED
  BY <1>2, <1>3, <1>4, StepDestroyClient

LEMMA DoReturnEvents ==
  ASSUME NEW S, NEW f, NEW k, Facing(S, f, k), UNCHANGED port_setting_changed,
         ilclient_return_events
  PROVE  IInv'
<1>0. Top = f /\ Rest = k
  BY FacingIs
<1>1. At("return events")
  BY Zenon DEF ilclient_return_events
<1>2. /\ spare' = [spare EXCEPT ![Owner(f.c)] = spare[Owner(f.c)] + Len(events[f.c])]
      /\ events' = [events EXCEPT ![f.c] = <<>>] /\ todo' = k
      /\ UNCHANGED <<core, flags, masked, related, inList, ret, got, failed, late, reports>>
  BY <1>0, Zenon DEF ilclient_return_events
<1>3. GivesBack(f)
  BY <1>0, <1>1, AtIs, Zenon DEF GivesBack
<1>4. Going'
  BY <1>2, StillGoing, FacingIs
<1> QED
  BY <1>2, <1>3, <1>4, StepReturnEvents

LEMMA DoCreate ==
  ASSUME NEW S, NEW f, NEW k, Facing(S, f, k), UNCHANGED port_setting_changed, CreateComponent
  PROVE  IInv'
<1>0. Top = f /\ Rest = k
  BY FacingIs
<1> DEFINE q == FlattenSeq([i \in DOMAIN PortsOf(f.c) |->
                               ilclient_disable_port(f.c, PortsOf(f.c)[i])]) \o Return(0) \o k
<1>1. /\ At("create") /\ UNCHANGED <<client, got, failed, late>>
      /\ \/ OMX_GetHandle(f.c) /\ todo' = q /\ UNCHANGED ret
         \/ OMX_Refused /\ ret' = -1 /\ todo' = k
  BY <1>0, Zenon DEF CreateComponent
<1>2. f.do = "create" /\ Going'
  BY <1>0, <1>1, AtIs, StillGoing
<1>3. UNCHANGED <<lists, masked, related, inList, late, port_setting_changed>>
  BY <1>1 DEF client
<1>4. CASE OMX_GetHandle(f.c) /\ todo' = q /\ UNCHANGED ret
  BY <1>2, <1>3, <1>4, StepCreate
<1>5. CASE OMX_Refused /\ ret' = -1 /\ todo' = k
  <2> HIDE DEF q
  <2> QED
    BY <1>2, <1>3, <1>5, StepCoreRefused
<1> QED
  BY <1>1, <1>4, <1>5

LEMMA DoCore ==
  ASSUME NEW S, NEW f, NEW k, Facing(S, f, k), UNCHANGED port_setting_changed, CallCore
  PROVE  IInv'
<1>0. Top = f /\ Rest = k
  BY FacingIs
<1>1. todo' = k /\ UNCHANGED <<client, got, failed, late>>
  BY <1>0, Zenon DEF CallCore
<1>2. UNCHANGED <<lists, masked, related, inList, late, port_setting_changed>>
  BY <1>1 DEF client
<1>3. Going'
  BY <1>1, StillGoing, FacingIs
<1>4. \/ f.do = "OMX_Init" /\ OMX_Init /\ ret' = 0
      \/ f.do = "join" /\ OMX_SetupTunnel(f.a, f.b) /\ ret' = 0
      \/ f.do = "configure" /\ ret' = 0 /\ UNCHANGED core
      \/ f.do \in {"OMX_Init", "join", "configure"} /\ OMX_Refused /\ ret' = -1
      \/ f.do = "OMX_Deinit" /\ OMX_Deinit /\ UNCHANGED ret
      \/ f.do = "unjoin" /\ OMX_SetupNoTunnel(f.end) /\ UNCHANGED ret
      \/ GivesUp(f) /\ OMX_FreeHandle(f.c) /\ UNCHANGED ret
  <2>1. \A what : At(what) => f.do = what
    BY <1>0, AtIs
  <2> QED
    BY <1>0, <2>1, Zenon DEF CallCore, GivesUp
<1>5. CASE \/ f.do = "OMX_Init" /\ OMX_Init /\ ret' = 0
           \/ f.do = "join" /\ OMX_SetupTunnel(f.a, f.b) /\ ret' = 0
           \/ f.do = "configure" /\ ret' = 0 /\ UNCHANGED core
  BY <1>1, <1>2, <1>3, <1>5, StepCore
<1>6. CASE f.do \in {"OMX_Init", "join", "configure"} /\ OMX_Refused /\ ret' = -1
  BY <1>1, <1>2, <1>3, <1>6, StepCoreRefused
<1>7. CASE \/ f.do = "OMX_Deinit" /\ OMX_Deinit /\ UNCHANGED ret
           \/ f.do = "unjoin" /\ OMX_SetupNoTunnel(f.end) /\ UNCHANGED ret
  BY <1>1, <1>2, <1>3, <1>7, StepCoreEnds
<1>8. CASE GivesUp(f) /\ OMX_FreeHandle(f.c) /\ UNCHANGED ret
  BY <1>1, <1>2, <1>3, <1>8, StepFreeHandle
<1> QED
  BY <1>4, <1>5, <1>6, <1>7, <1>8

LEMMA DoSupply ==
  ASSUME NEW S, NEW f, NEW k, Facing(S, f, k), UNCHANGED port_setting_changed, SupplyBuffer
  PROVE  IInv'
<1>0. Top = f /\ Rest = k
  BY FacingIs
<1>1. /\ At("supply") /\ UNCHANGED <<client, ret, got, failed, late>>
      /\ \/ OMX_UseBuffer(f.c) /\ todo' = <<Filled(f)>> \o k
         \/ /\ Enabling(f.c, f.n) => OMX_Refused
            /\ ~Enabling(f.c, f.n) => UNCHANGED core
            /\ todo' = <<QueueNow(f)>> \o k
  BY <1>0 DEF SupplyBuffer, Filled, Full, QueueNow
<1>2. f.do = "supply" /\ Going'
  BY <1>0, <1>1, AtIs, StillGoing
<1>3. UNCHANGED <<lists, masked, related, inList, ret, late, port_setting_changed>>
  BY <1>1 DEF client
<1>4. CASE OMX_UseBuffer(f.c) /\ todo' = <<Filled(f)>> \o k
  BY <1>2, <1>3, <1>4, StepSupplied
<1>5. CASE /\ Enabling(f.c, f.n) => OMX_Refused
           /\ ~Enabling(f.c, f.n) => UNCHANGED core
           /\ todo' = <<QueueNow(f)>> \o k
  BY <1>2, <1>3, <1>5, StepShort
<1> QED
  BY <1>1, <1>4, <1>5

LEMMA DoQueue ==
  ASSUME NEW S, NEW f, NEW k, Facing(S, f, k), UNCHANGED port_setting_changed, QueueBuffers
  PROVE  IInv'
<1>0. Top = f /\ Rest = k
  BY FacingIs
<1>1. /\ At("queue") /\ inList' = [inList EXCEPT ![f.c] = f.list \o inList[f.c]]
      /\ Len(f.list) = NumBuffers => todo' = Wait(f.c, "PortEnable", f.n) \o k /\ UNCHANGED ret
      /\ Len(f.list) # NumBuffers => todo' = k /\ ret' = -1
      /\ UNCHANGED <<core, lists, masked, related, got, failed, late, reports>>
  <2>1. CASE Len(f.list) = NumBuffers
    BY <1>0, <2>1, Zenon DEF QueueBuffers
  <2>2. CASE Len(f.list) # NumBuffers
    BY <1>0, <2>2, Zenon DEF QueueBuffers
  <2> QED
    BY <2>1, <2>2
<1>2. f.do = "queue" /\ Going'
  BY <1>0, <1>1, AtIs, StillGoing
<1> QED
  BY <1>1, <1>2, StepQueue

LEMMA DoDrain ==
  ASSUME NEW S, NEW f, NEW k, Facing(S, f, k), UNCHANGED port_setting_changed, DrainBuffers
  PROVE  IInv'
<1>0. Top = f /\ Rest = k
  BY FacingIs
<1> DEFINE num == f.num - Len(inList[f.c])
           long == Asleep(f.c, DrainMask, FALSE)
           over == Wait(f.c, "PortDisable", f.n) \o Insist
<1>1. /\ At("drain") /\ OMX_FreeBuffer(f.c, Len(inList[f.c]))
      /\ inList' = [inList EXCEPT ![f.c] = <<>>]
      /\ UNCHANGED <<lists, masked, related, ret, got, failed, late, reports>>
  BY <1>0, Zenon DEF DrainBuffers
<1>2. \/ todo' = (<<long>> \o DrainWoken(f, num)) \o k
      \/ todo' = over \o k
  BY <1>0, Zenon DEF DrainBuffers, DrainWoken, Answered, Again, Suspend, Asleep, DrainMask
<1>3. (<<long>> \o DrainWoken(f, num)) \o k = <<long>> \o (DrainWoken(f, num) \o k)
  <2> DEFINE t == DrainWoken(f, num)
  <2>1. IsSeq(t)
    BY OneIsSeq DEF DrainWoken, IfGot
  <2>2. IsSeq(k)
    BY FacingIs
  <2> HIDE DEF t, long
  <2> QED
    BY <2>1, <2>2, PushAssociates DEF t
<1>4. f.do = "drain" /\ Going'
  BY <1>0, <1>1, AtIs, StillGoing
<1> HIDE DEF num
<1>5. num = f.num - Len(inList[f.c])
  BY DEF num
<1>6. \/ todo' = <<Asleep(f.c, DrainMask, FALSE)>> \o (DrainWoken(f, num) \o k)
      \/ todo' = (Wait(f.c, "PortDisable", f.n) \o Insist) \o k
  BY <1>2, <1>3
<1> HIDE DEF long, over
<1> QED
  BY <1>1, <1>4, <1>5, <1>6, StepDrain

LEMMA DoBranch ==
  ASSUME NEW S, NEW f, NEW k, Facing(S, f, k), UNCHANGED port_setting_changed, Branch
  PROVE  IInv'
<1>0. Top = f /\ Rest = k
  BY FacingIs
<1>1. UNCHANGED <<core, client, got, late>>
  BY Zenon DEF Branch
<1>2. UNCHANGED <<core, lists, masked, related, inList, got, late, port_setting_changed>>
  BY <1>1 DEF client
<1>3. \A what : At(what) => f.do = what
  BY <1>0, AtIs
<1>5. UNCHANGED failed => Going'
  BY StillGoing, FacingIs
<1>6. CASE At("if returned") /\ Decide(ret = f.value) /\ UNCHANGED <<ret, failed>>
  <2> DEFINE q == IF ret = f.value THEN f.yes ELSE f.no
  <2>0. todo' = q \o k
    BY <1>0, <1>6, Zenon DEF Decide
  <2>1. Going' /\ f.do = "if returned" /\ UNCHANGED ret
    BY <1>3, <1>5, <1>6, Zenon
  <2> HIDE DEF q
  <2>2. q = IF ret = f.value THEN f.yes ELSE f.no
    BY DEF q
  <2> QED
    BY <1>2, <2>0, <2>1, <2>2, StepIfReturned
<1>7. CASE At("if state") /\ Decide(state[f.c] \in f.s) /\ UNCHANGED <<ret, failed>>
  <2> DEFINE q == IF state[f.c] \in f.s THEN f.yes ELSE f.no
  <2>0. todo' = q \o k
    BY <1>0, <1>7, Zenon DEF Decide
  <2>1. Going' /\ f.do = "if state" /\ UNCHANGED ret
    BY <1>3, <1>5, <1>7, Zenon
  <2> HIDE DEF q
  <2>2. q = IF state[f.c] \in f.s THEN f.yes ELSE f.no
    BY DEF q
  <2> QED
    BY <1>2, <2>0, <2>1, <2>2, StepIfState
<1>8. CASE At("if enabled") /\ Decide(Enabling(f.c, f.n)) /\ UNCHANGED <<ret, failed>>
  <2> DEFINE q == IF Enabling(f.c, f.n) THEN f.yes ELSE f.no
  <2>0. todo' = q \o k
    BY <1>0, <1>8, Zenon DEF Decide
  <2>1. Going' /\ f.do = "if enabled" /\ UNCHANGED ret
    BY <1>3, <1>5, <1>8, Zenon
  <2> HIDE DEF q
  <2>2. q = IF Enabling(f.c, f.n) THEN f.yes ELSE f.no
    BY DEF q
  <2> QED
    BY <1>2, <2>0, <2>1, <2>2, StepIfEnabled
<1>9. CASE At("if got") /\ Decide(f.flag \in got) /\ UNCHANGED <<ret, failed>>
  <2> DEFINE q == IF f.flag \in got THEN f.yes ELSE f.no
  <2>0. todo' = q \o k
    BY <1>0, <1>9, Zenon DEF Decide
  <2>1. Going' /\ AsksGot(f) /\ UNCHANGED ret
    BY <1>3, <1>5, <1>9, Zenon DEF AsksGot
  <2> HIDE DEF q
  <2>2. q = IF f.flag \in got THEN f.yes ELSE f.no
    BY DEF q
  <2> QED
    BY <1>2, <2>0, <2>1, <2>2, StepIfGot
<1>10. CASE At("return") /\ ret' = f.value /\ todo' = k /\ UNCHANGED failed
  <2>1. f.do = "return" /\ Going'
    BY <1>3, <1>5, <1>10
  <2> QED
    BY <1>2, <1>10, <2>1, StepReturn
<1>11. CASE /\ At("assert") /\ todo' = k /\ UNCHANGED ret
            /\ failed' = IF ret < 0 THEN "assertion" ELSE ""
  <2>1. f.do = "assert"
    BY <1>3, <1>11
  <2>2. /\ ret >= 0 => Going'
        /\ ret < 0 => ~Going' /\ failed' = "assertion"
    <3>1. CASE ret < 0
      <4>1. failed' = "assertion"
        BY <1>11, <3>1, Zenon
      <4>2. ~Going'
        BY <4>1 DEF Going
      <4>3. ~(ret >= 0)
        <5>1. ret \in -5 .. 0
          BY DEF Facing, Rel, Common, Result
        <5> QED
          BY <3>1, <5>1
      <4> QED
        BY <4>1, <4>2, <4>3
    <3>2. CASE ~(ret < 0)
      <4>1. failed' = ""
        BY <1>11, <3>2, Zenon
      <4>2. Going'
        BY <4>1, Zenon DEF Going
      <4> QED
        BY <3>2, <4>2, Zenon
    <3> QED
      BY <3>1, <3>2, Zenon
  <2> QED
    BY <1>2, <1>11, <2>1, <2>2, StepAssert
<1> QED
  BY <1>0, <1>6, <1>7, <1>8, <1>9, <1>10, <1>11, Zenon DEF Branch

LEMMA DoCall ==
  ASSUME NEW S, NEW f, NEW k, Facing(S, f, k), Call
  PROVE  IInv'
<1>1. At("call")
  BY DEF Call
<1>2. f.do = "call"
  BY <1>1, AtIs, FacingIs
<1> QED
  BY <1>2, StepCall

LEMMA DoSettings ==
  ASSUME NEW S, NEW f, NEW k, Facing(S, f, k), Settings
  PROVE  IInv'
<1>0. Top = f /\ Rest = k
  BY FacingIs
<1> DEFINE i == Find(video_decode, SettingsChanged(131))
           now == ~port_setting_changed /\ i # 0
<1>1. /\ At("settings")
      /\ now => TakeEvent(video_decode, i) /\ port_setting_changed' = TRUE /\ todo' = Connect \o k
      /\ ~now => todo' = k /\ UNCHANGED <<spare, events, port_setting_changed>>
      /\ UNCHANGED <<core, flags, masked, related, inList, ret, got, failed, late,
                     first_packet, reports>>
  <2>1. CASE now
    BY <1>0, <2>1, Zenon DEF Settings
  <2>2. CASE ~now
    BY <1>0, <2>2, Zenon DEF Settings
  <2> QED
    BY <2>1, <2>2
<1>2. f.do = "settings" /\ Going'
  BY <1>0, <1>1, AtIs, StillGoing
<1> HIDE DEF i
<1>3. i = Find(video_decode, SettingsChanged(131))
  BY DEF i
<1> QED
  BY <1>1, <1>2, <1>3, StepSettings

LEMMA DoSubmit ==
  ASSUME NEW S, NEW f, NEW k, Facing(S, f, k), Submit
  PROVE  IInv'
<1>0. Top = f /\ Rest = k
  BY FacingIs
<1>1. /\ At("submit") /\ todo' = k
      /\ \/ OMX_EmptyThisBuffer(video_decode, f.buf) /\ UNCHANGED failed
         \/ OMX_Refused /\ failed' = "assertion"
      /\ UNCHANGED <<client, ret, got, late, port_setting_changed>>
  BY <1>0, Zenon DEF Submit
<1>2. UNCHANGED <<lists, masked, related, inList, ret, late, port_setting_changed>>
  BY <1>1 DEF client
<1>3. f.do = "submit" /\ (UNCHANGED failed => Going')
  BY <1>0, <1>1, AtIs, StillGoing
<1>4. CASE OMX_EmptyThisBuffer(video_decode, f.buf) /\ UNCHANGED failed
  BY <1>1, <1>2, <1>3, <1>4, StepSubmit
<1>5. CASE OMX_Refused /\ failed' = "assertion"
  <2>1. Common(S)
    BY DEF Facing, Rel
  <2> QED
    BY <1>2, <1>5, <2>1, StepSubmitRefused
<1> QED
  BY <1>1, <1>4, <1>5

LEMMA DoBufGet ==
  ASSUME NEW S, NEW f, NEW k, Facing(S, f, k), BufGet
  PROVE  IInv'
<1> DEFINE s == inList[video_decode]
<1>1. /\ At("present") /\ s # <<>> /\ inList' = [inList EXCEPT ![video_decode] = Tail(s)]
      /\ todo' = <<Look, Handed(Head(s))>> \o todo
      /\ UNCHANGED <<core, lists, masked, related, ret, got, failed, late, sink, reports>>
  BY DEF BufGet, ilclient_get_input_buffer, Look, Handed
<1>2. f.do = "present" /\ Going'
  BY <1>1, AtIs, StillGoing, FacingIs
<1>3. UNCHANGED port_setting_changed
  BY <1>1 DEF sink
<1> HIDE DEF s
<1>4. s = inList[video_decode]
  BY DEF s
<1> QED
  BY <1>1, <1>2, <1>3, <1>4, StepBufGet

LEMMA DoProgramStep ==
  ASSUME NEW S, NEW f, NEW k, Facing(S, f, k), UNCHANGED port_setting_changed, ProgramStep
  PROVE  IInv'
<1>1. CASE SendCommand \/ Branch \/ ilclient_remove_event \/ SetRelated \/ SetErrorMask
  BY <1>1, DoSend, DoBranch, DoRemove, DoRelate, DoMask
<1>2. CASE ilclient_wait_for_command_complete_dual \/ Awake \/ WaitLooks
  BY <1>2, DoCheck, DoAwake, DoLook
<1>3. CASE WaitLooksForError \/ WaitWoken \/ InitClient \/ DestroyClient
  BY <1>3, DoLookError, DoWoken, DoInitClient, DoDestroyClient
<1>4. CASE CreateComponent \/ CallCore \/ ilclient_return_events
  BY <1>4, DoCreate, DoCore, DoReturnEvents
<1>5. CASE SupplyBuffer \/ QueueBuffers \/ DrainBuffers
  BY <1>5, DoSupply, DoQueue, DoDrain
<1> QED
  BY <1>1, <1>2, <1>3, <1>4, <1>5 DEF ProgramStep

LEMMA DoFirmware ==
  ASSUME NEW S, Sound(S), NEW f, NEW k, Facing(S, f, k), Firmware
  PROVE  IInv'
<1>1. UNCHANGED port_setting_changed
  BY DEF Firmware, sink
<1>2. ASSUME NEW x, Answer(x) PROVE IInv'
  BY <1>1, <1>2, StepAnswer
<1>3. ASSUME NEW x, ReportUnpopulated(x) PROVE IInv'
  BY <1>1, <1>3, StepReportUnpopulated
<1>4. CASE ReportSettings(video_decode, 131)
  BY <1>1, <1>4, StepReportSettings
<1>5. CASE ReportSettings(video_scheduler, 11)
  BY <1>1, <1>5, StepReportSettings
<1>6. CASE ReportCorrupt(video_decode)
  BY <1>1, <1>6, StepReportCorrupt
<1>7. CASE EmptyBufferDone(video_decode)
  BY <1>1, <1>7, StepEmptyBufferDone
<1> QED
  BY <1>2, <1>3, <1>4, <1>5, <1>6, <1>7 DEF Firmware

LEMMA DoProgram ==
  ASSUME NEW S, NEW f, NEW k, Facing(S, f, k), Program
  PROVE  IInv'
<1>1. CASE Call \/ Settings \/ Submit
  BY <1>1, DoCall, DoSettings, DoSubmit
<1>2. CASE ProgramStep /\ UNCHANGED sink
  BY <1>2, DoProgramStep DEF sink
<1> QED
  BY <1>1, <1>2 DEF Program

LEMMA DoNext ==
  ASSUME NEW S, Sound(S), NEW f, NEW k, Facing(S, f, k), Next
  PROVE  IInv'
<1>1. CASE Program
  BY <1>1, DoProgram
<1>2. CASE Timer
  BY <1>2, DoTimesOut DEF Timer, sink
<1>3. CASE Stale
  BY <1>3, DoStartled DEF Stale, sink
<1>4. CASE Firmware
  BY <1>4, DoFirmware
<1>5. CASE BufGet
  BY <1>5, DoBufGet
<1> QED
  BY <1>1, <1>2, <1>3, <1>4, <1>5 DEF Next

(* Nothing moves after an assertion has failed.                            *)
LEMMA ProgramStepGoing ==
  ASSUME ProgramStep
  PROVE  Going
<1>1. ASSUME NEW what, At(what) PROVE Going
  BY <1>1, AtIs
<1>2. CASE SendCommand \/ ilclient_remove_event \/ SetRelated \/ SetErrorMask
  BY <1>1, <1>2, Zenon DEF SendCommand, ilclient_remove_event, SetRelated, SetErrorMask
<1>3. CASE Branch
  BY <1>1, <1>3, Zenon DEF Branch
<1>4. CASE ilclient_wait_for_command_complete_dual
  BY <1>1, <1>4, Zenon DEF ilclient_wait_for_command_complete_dual
<1>5. CASE Awake \/ WaitLooks \/ WaitLooksForError \/ WaitWoken
  BY <1>1, <1>5, Zenon DEF Awake, WaitLooks, WaitLooksForError, WaitWoken
<1>6. CASE InitClient \/ DestroyClient \/ CreateComponent \/ ilclient_return_events
  BY <1>1, <1>6, Zenon DEF InitClient, DestroyClient, CreateComponent, ilclient_return_events
<1>7. CASE CallCore
  BY <1>1, <1>7, Zenon DEF CallCore
<1>8. CASE SupplyBuffer \/ QueueBuffers \/ DrainBuffers
  BY <1>1, <1>8, Zenon DEF SupplyBuffer, QueueBuffers, DrainBuffers
<1> QED
  BY <1>2, <1>3, <1>4, <1>5, <1>6, <1>7, <1>8, Zenon DEF ProgramStep

LEMMA NextGoing ==
  ASSUME Next
  PROVE  Going
<1>1. ASSUME NEW what, At(what) PROVE Going
  BY <1>1, AtIs
<1>2. CASE Program
  <2>1. CASE Call \/ Settings \/ Submit
    BY <1>1, <2>1, Zenon DEF Call, Settings, Submit
  <2> QED
    BY <1>2, <2>1, ProgramStepGoing DEF Program
<1>3. CASE Timer \/ Stale \/ BufGet
  BY <1>1, <1>3, Zenon DEF Timer, TimesOut, Stale, Startled, BufGet
<1>4. CASE Firmware
  BY <1>4, Zenon DEF Firmware, Answer, ReportUnpopulated, ReportSettings, ReportCorrupt, Report,
                     EmptyBufferDone, Going
<1> QED
  BY <1>2, <1>3, <1>4 DEF Next

LEMMA StayTop ==
  ASSUME NEW S, NEW p, AtTop(S, p), UNCHANGED <<lists, inList, held, supplied, got, late, failures>>
  PROVE  AtTop(S, p)'
<1>1. UNCHANGED <<events, flags, inList, held, supplied, got, late, failures>>
  BY DEF lists
<1>2. \A c : Unreported(c)' = Unreported(c)
  BY <1>1 DEF Unreported
<1>3. ASSUME NEW f, NEW k, Heeded(S, f) PROVE Heeded(S, f)'
  BY <1>1, <1>2, <1>3 DEF Heeded
<1>4. ASSUME NEW f, NEW k, Before(S, f, k) PROVE Before(S, f, k)'
  BY <1>1, <1>4 DEF Before, Overdue
<1> QED
  BY <1>3, <1>4 DEF AtTop

LEMMA StutterInv ==
  ASSUME IInv, UNCHANGED vars
  PROVE  IInv'
<1>1. UNCHANGED <<core, lists, masked, related, inList, todo, ret, got, failed, late,
                  port_setting_changed>>
  BY DEF vars, client, program, sink
<1>2. UNCHANGED <<held, supplied, failures>>
  BY <1>1 DEF core
<1>3. CASE Going
  <2>1. PICK S : Sound(S)
    BY <1>3 DEF IInv
  <2>2. Safe(todo, S) /\ Rel(S) /\ AtTop(S, todo) /\ Shaped(todo)
    BY <2>1 DEF Sound
  <2>3. Rel(S)'
    BY <1>1, <2>2, StayRel
  <2>4. \A p : AtTop(S, p) => AtTop(S, p)'
    BY <1>1, <1>2, StayTop
  <2>5. AtTop(S, todo)'
    BY <1>1, <2>2, <2>4 DEF AtTop
  <2>6. Sound(S)'
    BY <1>1, <2>2, <2>3, <2>5 DEF Sound
  <2>7. Going'
    BY <1>1, <1>3, StillGoing
  <2> QED
    BY <2>6, <2>7 DEF IInv
<1>4. CASE ~Going
  <2>1. failed = "assertion" /\ (failures > 0 \/ late = TRUE)
    BY <1>4 DEF IInv
  <2>2. PICK S : Common(S)
    BY <1>4 DEF IInv
  <2>3. Lists(S)' /\ Result(S)'
    <3>1. Lists(S) /\ Result(S)
      BY <2>2 DEF Common
    <3>2. Result(S)'
      BY <1>1, <3>1 DEF Result
    <3> QED
      BY <1>1, <3>1, <3>2, KeepLists
  <2>4. Common(S)'
    BY <1>1, <2>2, <2>3, KeepCommon
  <2>5. ~Going'
    BY <1>1, <1>4, Zenon DEF Going
  <2> QED
    BY <1>1, <1>2, <2>1, <2>4, <2>5 DEF IInv
<1> QED
  BY <1>3, <1>4

LEMMA NextInv ==
  ASSUME IInv, Next
  PROVE  IInv'
<1>1. Going
  BY NextGoing
<1>2. PICK S : Sound(S)
  BY <1>1 DEF IInv
<1>3. todo # <<>>
  BY <1>2, SafeUnfold DEF Sound
<1>4. PICK f, k : Facing(S, f, k)
  BY <1>1, <1>2, <1>3, Face
<1> QED
  BY <1>2, <1>4, DoNext

(* What the invariant says of the properties.                              *)
LEMMA AbortsInv ==
  ASSUME IInv
  PROVE  AbortsForAReason
<1>1. CASE Going
  BY <1>1, Zenon DEF AbortsForAReason, Going
<1>2. CASE ~Going
  <2>1. failures > 0 \/ late = TRUE
    BY <1>2, Zenon DEF IInv
  <2> QED
    BY <2>1, Zenon DEF AbortsForAReason
<1> QED
  BY <1>1, <1>2

LEMMA NeverShort ==
  ASSUME IInv
  PROVE  failed # "no spare event"
<1>1. CASE Going
  BY <1>1, Zenon DEF Going
<1>2. CASE ~Going
  <2>1. failed = "assertion"
    BY <1>2, Zenon DEF IInv
  <2> QED
    BY <2>1, Zenon
<1> QED
  BY <1>1, <1>2

LEMMA CommonInv ==
  ASSUME IInv
  PROVE  \E S : Common(S)
<1>1. CASE Going
  BY <1>1 DEF IInv, Sound, Rel
<1>2. CASE ~Going
  BY <1>2 DEF IInv
<1> QED
  BY <1>1, <1>2

LEMMA TypeInv ==
  ASSUME NEW S, Common(S)
  PROVE  TypeOK
<1>1. nActiveHandles \in 0 .. Cardinality(Comps)
  <2> DEFINE D == S.base.alive
  <2>1. D \subseteq Comps /\ nActiveHandles = Cardinality(D)
    BY AliveAre DEF Common, Handles
  <2> HIDE DEF D
  <2>2. /\ Cardinality(D) \in Nat /\ Cardinality(Comps) \in Nat
        /\ Cardinality(D) <= Cardinality(Comps)
    BY <2>1, CompsFinite, FS_Subset, FS_CardinalityType
  <2> QED
    BY <2>1, <2>2
<1>2. coreInit \in 0 .. 3
  BY DEF Common, Handles
<1>3. ASSUME NEW c \in Comps
      PROVE  /\ state[c] \in {Absent, Loaded, Idle, Executing}
             /\ enabled[c] \subseteq ToSet(PortsOf(c)) /\ supplied[c] \in 0 .. NumBuffers
             /\ Len(held[c]) + Len(inList[c]) <= NumBuffers
             /\ related[c] \in Comps \cup {None}
  <2>1. state[c] \in 0 .. 3 /\ enabled[c] \subseteq ToSet(PortsOf(c))
    BY DEF Common, States
  <2>2. /\ held[c] \in Seq(Nat) /\ inList[c] \in Seq(Nat) /\ supplied[c] \in 0 .. NumBuffers
        /\ Len(held[c]) + Len(inList[c]) <= supplied[c]
    BY DEF Common, Buffers
  <2>3. related[c] \in Comps \cup {None}
    BY DEF Common, Others
  <2>4. state[c] \in {Absent, Loaded, Idle, Executing}
    BY <2>1 DEF Absent, Loaded, Idle, Executing
  <2>5. Len(held[c]) + Len(inList[c]) <= NumBuffers
    <3> DEFINE a == Len(held[c])  b == Len(inList[c])  n == supplied[c]
    <3>1. a \in Nat /\ b \in Nat /\ a + b <= n /\ n \in 0 .. NumBuffers /\ NumBuffers \in Nat
      BY <2>2, LenProperties, CoreAssumption
    <3> HIDE DEF a, b, n
    <3>2. a + b <= NumBuffers
      BY <3>1
    <3> QED
      BY <3>2 DEF a, b
  <2> QED
    BY <2>1, <2>2, <2>3, <2>4, <2>5
<1>4. failures \in 0 .. MaxFailures /\ masked \subseteq Comps /\ late \in BOOLEAN
  BY DEF Common, Others
<1>5. ret \in -5 .. 0
  BY DEF Common, Result
<1> QED
  BY <1>1, <1>2, <1>3, <1>4, <1>5 DEF TypeOK

LEMMA CountsInv ==
  ASSUME NEW S, Common(S), NEW k \in Clients, spare[k] # 0
  PROVE  spare[k] + Cardinality(Entries(events, OfOwner(k))) = NumEvents
<1> DEFINE n == Cardinality(Entries(events, OfOwner(k)))
<1>1. spare = Spares(events, S.base.clients) /\ Few(events)
  BY DEF Common, Lists
<1>2. spare[k] = IF k \in S.base.clients THEN NumEvents - n ELSE 0
  BY <1>1 DEF Spares
<1>3. n \in Int
  <2>1. PICK c \in Comps : k = Owner(c)
    BY DEF Clients, Owner
  <2> DEFINE D == OfOwner(k)
  <2>2. /\ IsFiniteSet(D \ {c}) /\ Cardinality(D \ {c}) \in Nat /\ Cardinality(D \ {c}) <= 3
    BY <2>1, CountOthers
  <2>3. IsFiniteSet(Entries(events, D))
    <3>1. IsFiniteSet(Entries(events, D \ {c}))
      <4>1. D \ {c} \in SUBSET Comps
        BY DEF OfOwner
      <4> HIDE DEF D
      <4> QED
        BY <1>1, <2>2, <4>1, CountEntries
    <3>2. IsFiniteSet(Entries(events, {c}))
      <4>1. IsFiniteSet({c}) /\ Cardinality({c}) = 1
        BY FS_Singleton
      <4>2. {c} \in SUBSET Comps /\ Cardinality({c}) <= 3
        BY <4>1
      <4> QED
        BY <1>1, <4>1, <4>2, CountEntries
    <3>3. Entries(events, D) = Entries(events, D \ {c}) \cup Entries(events, {c})
      <4>1. c \in D
        BY <2>1 DEF OfOwner
      <4> HIDE DEF D
      <4> QED
        BY <4>1 DEF Entries
    <3> QED
      BY <3>1, <3>2, <3>3, FS_Union
  <2> QED
    BY <2>3, FS_CardinalityType
<1> HIDE DEF n
<1>4. spare[k] + n = NumEvents
  BY <1>2, <1>3, EventsAssumption
<1> QED
  BY <1>4 DEF n

LEMMA PoolInv ==
  ASSUME IInv
  PROVE  PoolKept
<1>1. PICK S : Common(S)
  BY CommonInv
<1>2. TypeOK
  BY <1>1, TypeInv
<1>3. ASSUME NEW k \in Clients, spare[k] # 0
      PROVE  spare[k] + Cardinality(UNION {{c} \X DOMAIN events[c] :
                                             c \in {d \in Comps : Owner(d) = k}}) = NumEvents
  <2>1. spare[k] + Cardinality(Entries(events, OfOwner(k))) = NumEvents
    BY <1>1, <1>3, CountsInv
  <2> QED
    BY <2>1, Zenon DEF Entries, OfOwner
<1> QED
  BY <1>2, <1>3, NeverShort, Zenon DEF PoolKept

(* Who sleeps, and on whom it waits.                                       *)
LEMMA SleeperKnown ==
  ASSUME NEW S, NEW f, NEW k, Facing(S, f, k), f.do = "suspend"
  PROVE  /\ f.c \in Comps /\ k # <<>>
         /\ Head(k).do = "check" => Head(k).c = f.c /\ Head(k).other \in Comps \cup {None}
         /\ Head(k).do = "woken" => Tail(k) # <<>>
<1> DEFINE e == Head(k)  q == Tail(k)
<1>1. /\ Good(f, k, S) /\ \A p, T : <<p, T>> \in Nexts(f, k, S) => Safe(p, T)
  BY Zenon DEF Facing
<1>2. <<k, S>> \in Nexts(f, k, S)
  <2>1. CASE S.doom
    BY <2>1 DEF Nexts, NextsLost
  <2>2. CASE ~S.doom
    BY <2>2 DEF Nexts, NextsSync
  <2> QED
    BY <2>1, <2>2
<1>3. Safe(k, S)
  BY <1>1, <1>2
<1>4. /\ k # <<>> /\ Good(e, q, S) /\ \A p, T : <<p, T>> \in Nexts(e, q, S) => Safe(p, T)
  BY <1>3, SafeUnfold
<1>5. \/ e.do = "check" /\ f = Awaits(e)
      \/ /\ e.do = "woken" /\ q # <<>> /\ Head(q).do = "look" /\ f = LooksFor(Head(q))
      \/ S.doom /\ AsksGot(e) /\ e.flag = "ERROR" /\ S.told = f.c
  <2>1. CASE S.doom
    <3>1. GoodLost(f, k, S)
      BY <1>1, <2>1 DEF Good
    <3>2. \/ Sleeps(f, k)
          \/ AsksGot(e) /\ e.flag = "ERROR" /\ S.told = f.c
      BY <3>1, Zenon DEF GoodLost, AsksGot
    <3> QED
      BY <2>1, <3>2, Zenon DEF Sleeps
  <2>2. CASE ~S.doom
    <3>1. GoodSync(f, k, S)
      BY <1>1, <2>2 DEF Good
    <3>2. Sleeps(f, k)
      BY <3>1 DEF GoodSync
    <3> QED
      BY <3>2 DEF Sleeps
  <2> QED
    BY <2>1, <2>2
<1> HIDE DEF e, q
<1>6. CASE e.do = "check" /\ f = Awaits(e)
  <2>1. e.c \in Comps /\ e.other \in Comps \cup {None}
    <3>1. CASE S.doom
      BY <1>4, <1>6, <3>1 DEF Good, GoodLost
    <3>2. CASE ~S.doom
      BY <1>4, <1>6, <3>2 DEF Good, GoodSync
    <3> QED
      BY <3>1, <3>2
  <2>2. f.c = e.c
    BY <1>6, AwaitsIs
  <2> QED
    BY <1>4, <1>6, <2>1, <2>2 DEF e
<1>7. CASE /\ e.do = "woken" /\ q # <<>> /\ Head(q).do = "look" /\ f = LooksFor(Head(q))
  <2> DEFINE w == Head(q)
  <2>1. <<q, S>> \in Nexts(e, q, S)
    <3>1. CASE S.doom
      BY <1>7, <3>1 DEF Nexts, NextsLost
    <3>2. CASE ~S.doom
      BY <1>7, <3>2 DEF Nexts, NextsSync
    <3> QED
      BY <3>1, <3>2
  <2>2. Good(w, Tail(q), S)
    BY <1>4, <2>1, SafeUnfold
  <2>3. w.do = "look" /\ f.c = w.c
    BY <1>7, LooksForIs
  <2> HIDE DEF w
  <2>4. w.c \in Comps
    <3>1. CASE S.doom
      BY <2>2, <2>3, <3>1 DEF Good, GoodLost
    <3>2. CASE ~S.doom
      BY <2>2, <2>3, <3>2 DEF Good, GoodSync
    <3> QED
      BY <3>1, <3>2
  <2> QED
    BY <1>4, <1>7, <2>3, <2>4 DEF e, q
<1>8. CASE S.doom /\ AsksGot(e) /\ e.flag = "ERROR" /\ S.told = f.c
  <2> DEFINE y == [do |-> "remove", c |-> S.told, wanted |-> CommandError]
  <2>1. PICK t : IsSeq(t) /\ e.yes = RemoveEvent(S.told, CommandError) \o t
    <3>1. GoodLost(e, q, S)
      BY <1>4, <1>8 DEF Good
    <3> QED
      BY <1>8, <3>1 DEF GoodLost, AsksGot
  <2>2. <<e.yes \o q, S>> \in Nexts(e, q, S)
    BY <1>8 DEF Nexts, NextsLost, AsksGot
  <2>3. Safe(e.yes \o q, S)
    BY <1>4, <2>2
  <2>4. IsSeq(q)
    <3>1. IsSeq(k)
      BY <1>3, SafeUnfold
    <3> QED
      BY <1>4, <3>1, SeqPop DEF q
  <2>5. e.yes = <<y>> \o t
    BY <2>1 DEF RemoveEvent
  <2>6. y.do = "remove" /\ y.c = S.told
    OBVIOUS
  <2> HIDE DEF y
  <2>7. Head(e.yes \o q) = y
    BY <2>1, <2>4, <2>5, HeadOf
  <2>8. Good(y, Tail(e.yes \o q), S)
    BY <2>3, <2>7, SafeUnfold
  <2>9. f.c \in Comps
    BY <1>8, <2>6, <2>8 DEF Good, GoodLost
  <2>10. e.do # "check" /\ e.do # "woken"
    <3>1. e.do = "if got"
      BY <1>8, Zenon DEF AsksGot
    <3> QED
      BY <3>1, Zenon
  <2> QED
    BY <1>4, <2>9, <2>10 DEF e
<1> QED
  BY <1>5, <1>6, <1>7, <1>8

LEMMA OnList ==
  ASSUME NEW S, Common(S), NEW c \in Comps, NEW Y
  PROVE  Find(c, Y) # 0 <=> Sees(events[c], Y)
<1>1. events[c] \in Seq(EventsOf(c))
  BY ListsAre
<1> QED
  BY <1>1, FindIs

LEMMA SecondThird ==
  ASSUME NEW f, NEW k, IsSeq(k), k # <<>>
  PROVE  /\ (<<f>> \o k)[2] = Head(k)
         /\ Tail(k) # <<>> => (<<f>> \o k)[3] = Head(Tail(k))
<1> DEFINE p == <<f>> \o k  q == Tail(k)
<1>1. Len(k) \in Nat /\ \A i \in 1 .. Len(k) : p[i + 1] = k[i]
  BY SeqPush
<1> HIDE DEF p
<1>2. PICK X : k \in Seq(X)
  BY DEF IsSeq
<1>3. /\ Head(k) = k[1] /\ Len(k) > 0 /\ q \in Seq(X) /\ Len(q) = Len(k) - 1
      /\ \A i \in 1 .. Len(k) - 1 : q[i] = k[i + 1]
  BY <1>2, HeadTailProperties, LenProperties, EmptySeq
<1> HIDE DEF q
<1>4. p[2] = Head(k)
  <2>1. 1 \in 1 .. Len(k) /\ 1 + 1 = 2
    BY <1>1, <1>3
  <2> QED
    BY <1>1, <1>3, <2>1
<1>5. ASSUME q # <<>> PROVE p[3] = Head(q)
  <2>1. Head(q) = q[1] /\ Len(q) > 0
    BY <1>3, <1>5, HeadTailProperties, LenProperties, EmptySeq
  <2>2. 1 \in 1 .. Len(k) - 1 /\ 2 \in 1 .. Len(k) /\ 1 + 1 = 2 /\ 2 + 1 = 3
    BY <1>1, <1>3, <2>1
  <2>3. q[1] = k[2] /\ p[3] = k[2]
    BY <1>1, <1>3, <2>2
  <2> QED
    BY <2>1, <2>3
<1> QED
  BY <1>4, <1>5 DEF p, q

LEMMA AwaitedCheck ==
  ASSUME NEW c, NEW e, todo[2] = e, e.do = "check", Awaited(c)
  PROVE  Find(c, Ends(e)) # 0 \/ (e.other # None /\ Find(e.other, CommandError) # 0)
<1>1. e.do # "woken"
  OBVIOUS
<1> QED
  BY <1>1, Zenon DEF Awaited

LEMMA WakeupInv ==
  ASSUME IInv
  PROVE  NoLostWakeup
<1> SUFFICES ASSUME At("suspend"), flags[Top.c] \cap Top.mask = {}, Awaited(Top.c)
             PROVE  FALSE
  BY DEF NoLostWakeup
<1>1. Going /\ todo # <<>> /\ Top.do = "suspend"
  BY AtIs
<1>2. PICK S : Sound(S)
  BY <1>1 DEF IInv
<1>3. PICK f, k : Facing(S, f, k)
  BY <1>1, <1>2, Face
<1>4. Top = f /\ todo = <<f>> \o k /\ IsSeq(k) /\ f.do = "suspend"
  BY <1>1, <1>3, FacingIs
<1>5. /\ f.c \in Comps /\ k # <<>>
      /\ Head(k).do = "check" => Head(k).c = f.c /\ Head(k).other \in Comps \cup {None}
      /\ Head(k).do = "woken" => Tail(k) # <<>>
  BY <1>3, <1>4, SleeperKnown
<1>6. Before(S, f, k) /\ Common(S)
  BY <1>3, Zenon DEF Facing, Rel
<1>7. ~Overdue(f, k)
  BY <1>4, <1>6, Zenon DEF Before
<1>8. todo[2] = Head(k) /\ (Tail(k) # <<>> => todo[3] = Head(Tail(k)))
  BY <1>4, <1>5, SecondThird
<1> DEFINE c == f.c  e == Head(k)
<1>9. c \in Comps /\ \A Y : Find(c, Y) # 0 <=> Sees(events[c], Y)
  <2>1. c \in Comps
    BY <1>5
  <2> HIDE DEF c
  <2> QED
    BY <1>6, <2>1, OnList
<1>10. Awaited(c)
  BY <1>4
<1>11. CASE e.do = "check"
  <2> DEFINE d == e.other
  <2>1. Find(c, Ends(e)) # 0 \/ (d # None /\ Find(d, CommandError) # 0)
    <3> HIDE DEF c, e
    <3>1. todo[2] = e
      BY <1>8 DEF e
    <3> QED
      BY <1>10, <1>11, <3>1, AwaitedCheck
  <2>2. ~Sees(events[c], Ends(e)) /\ ~(d # None /\ Sees(events[d], CommandError))
    BY <1>7, <1>11 DEF Overdue
  <2>3. d # None => d \in Comps
    BY <1>5, <1>11
  <2> HIDE DEF d
  <2>4. d # None => (Find(d, CommandError) # 0 <=> Sees(events[d], CommandError))
    BY <1>6, <2>3, OnList
  <2> QED
    BY <1>9, <2>1, <2>2, <2>4
<1>12. CASE e.do = "woken"
  <2>1. Find(c, Head(Tail(k)).wanted \cup AnyError) # 0
    BY <1>5, <1>8, <1>10, <1>12 DEF Awaited
  <2>2. ~Sees(events[c], Head(Tail(k)).wanted \cup AnyError)
    BY <1>7, <1>12 DEF Overdue
  <2> QED
    BY <1>9, <2>1, <2>2
<1>13. CASE e.do # "check" /\ e.do # "woken"
  <2>1. inList[c] # <<>> \/ Find(c, CommandError) # 0
    BY <1>8, <1>10, <1>13 DEF Awaited
  <2>2. ~(inList[c] # <<>> \/ Sees(events[c], CommandError))
    BY <1>7, <1>13 DEF Overdue
  <2> QED
    BY <1>9, <2>1, <2>2
<1> QED
  BY <1>11, <1>12, <1>13

(* Between two calls nothing is under way.                                 *)
LEMMA RestingIs ==
  ASSUME IInv, Resting
  PROVE  \E S : Rel(S) /\ ~S.doom /\ Rested(S)
<1>1. Going /\ todo # <<>> /\ Top.do \in {"call", "present"}
  BY AtIs DEF Resting
<1>2. PICK S : Sound(S)
  BY <1>1 DEF IInv
<1>3. PICK f, k : Facing(S, f, k)
  BY <1>1, <1>2, Face
<1>4. f.do \in {"call", "present"}
  BY <1>1, <1>3, FacingIs
<1>5. Good(f, k, S) /\ Rel(S)
  BY <1>3, Zenon DEF Facing
<1>6. ~S.doom
  BY <1>4, <1>5 DEF Good, GoodLost
<1>7. Rested(S)
  BY <1>4, <1>5, <1>6 DEF Good, GoodSync
<1> QED
  BY <1>5, <1>6, <1>7

LEMMA RestedIs ==
  ASSUME NEW S, Rested(S)
  PROVE  \E n \in 0 .. 3, seen \in BOOLEAN :
           /\ S.sent = Quiet /\ S.base = Based(n) /\ S.world \in Variants(SetUp(n, seen, 0))
<1>1. PICK n \in 0 .. 3, seen \in BOOLEAN : S \in Near(Based(n), SetUp(n, seen, 0))
  BY DEF Rested
<1> DEFINE v == SetUp(n, seen, 0)
<1> HIDE DEF v
<1>2. PICK r \in -5 .. 0, w \in Variants(v) : S = Calm(r, Based(n), w)
  BY <1>1 DEF Near, v
<1>3. S.sent = Quiet /\ S.base = Based(n) /\ S.world = w
  BY <1>2 DEF Calm, Sync
<1> QED
  BY <1>2, <1>3 DEF v

LEMMA QuietNow ==
  ASSUME NEW S, Rel(S), ~S.doom, S.sent = Quiet, NEW c \in Comps
  PROVE  /\ Mine(c) = {} /\ Clean(events[c], c)
         /\ state[c] = S.world.state[c] /\ enabled[c] = S.world.enabled[c]
<1>1. Fits(S, c)
  BY DEF Rel, InStep
<1>2. S.sent[c] = NoCommand
  BY DEF Quiet
<1> QED
  BY <1>1, <1>2, QuietFits

LEMMA SettingsNumber ==
  ASSUME NEW n, NEW x, x = NewSettings(n)
  PROVE  x.e = "PortSettingsChanged" /\ x.n2 = n
BY DEF NewSettings, Event

LEMMA HarmlessNumber ==
  ASSUME NEW c, NEW x \in Harmless(c)
  PROVE  x.n2 # 1 /\ x.e # "CmdComplete"
<1>1. x = NewSettings(131) \/ x = NewSettings(11) \/ x = Corrupt
  BY DEF Harmless
<1>2. CASE x = Corrupt
  BY <1>2 DEF Corrupt, Event
<1>3. CASE x = NewSettings(131)
  BY <1>3, SettingsNumber
<1>4. CASE x = NewSettings(11)
  BY <1>4, SettingsNumber
<1> QED
  BY <1>1, <1>2, <1>3, <1>4

LEMMA NothingInv ==
  ASSUME IInv
  PROVE  NothingLeftOver
<1> SUFFICES ASSUME Resting
             PROVE  /\ pending = {}
                    /\ \A c \in Comps : \A i \in DOMAIN events[c] :
                         events[c][i].e # "CmdComplete" /\ events[c][i].n2 # 1
  BY DEF NothingLeftOver
<1>1. PICK S : Rel(S) /\ ~S.doom /\ Rested(S)
  BY RestingIs
<1>2. S.sent = Quiet
  BY <1>1, RestedIs
<1>3. Common(S)
  BY <1>1 DEF Rel
<1>4. \A x \in pending : x.c \in Comps
  BY <1>3, AliveAre DEF Common, Asked
<1>5. pending = {}
  <2> SUFFICES ASSUME NEW x \in pending PROVE FALSE
    OBVIOUS
  <2> DEFINE c == x.c
  <2>1. c \in Comps
    BY <1>4
  <2>2. x \in Mine(c)
    BY DEF Mine
  <2> HIDE DEF c
  <2>3. Mine(c) = {}
    BY <1>1, <1>2, <2>1, QuietNow
  <2> QED
    BY <2>2, <2>3
<1>6. ASSUME NEW c \in Comps, NEW i \in DOMAIN events[c]
      PROVE  events[c][i].e # "CmdComplete" /\ events[c][i].n2 # 1
  <2>1. Clean(events[c], c) /\ events[c] \in Seq(EventsOf(c))
    BY <1>1, <1>2, <1>3, QuietNow, ListsAre
  <2>2. i \in 1 .. Len(events[c])
    BY <1>6, <2>1, LenProperties
  <2>3. events[c][i] \in Harmless(c)
    BY <2>1, <2>2 DEF Clean
  <2> QED
    BY <2>3, HarmlessNumber
<1> QED
  BY <1>5, <1>6

LEMMA WholeInv ==
  ASSUME IInv
  PROVE  SetUpIsWhole
<1> SUFFICES ASSUME Resting
             PROVE  /\ tunnels = Joined(coreInit, port_setting_changed)
                    /\ \A c \in Created(coreInit) :
                         /\ enabled[c] = Whole(c, coreInit, port_setting_changed)
                         /\ Serving(c) => supplied[c] = NumBuffers
                    /\ Cardinality({c \in Comps :
                         state[c] # Wanted(c, coreInit, port_setting_changed)}) <= failures
  BY DEF SetUpIsWhole
<1>1. PICK S : Rel(S) /\ ~S.doom /\ Rested(S)
  BY RestingIs
<1>2. PICK n \in 0 .. 3, seen \in BOOLEAN :
        /\ S.sent = Quiet /\ S.base = Based(n) /\ S.world \in Variants(SetUp(n, seen, 0))
  BY <1>1, RestedIs
<1> DEFINE v == SetUp(n, seen, 0)  w == S.world
<1>3. /\ v.seen = seen /\ v.tunnels = Joined(n, seen)
      /\ v.state = [c \in Comps |-> Wanted(c, n, seen)]
      /\ v.enabled = [c \in Comps |-> Whole1(c, n, seen)]
      /\ v.supplied = [c \in Comps |-> IF c \in Created(n) /\ Serving(c) THEN NumBuffers ELSE 0]
  BY DEF SetUp, World
<1> HIDE DEF v
<1>4. /\ w.seen = v.seen /\ w.enabled = v.enabled /\ w.tunnels = v.tunnels
      /\ w.supplied = v.supplied /\ Like(w.state, v.state, w.spoiled)
  BY <1>2, VariantIs DEF v
<1> HIDE DEF w
<1>5. Common(S) /\ InStep(S)
  BY <1>1 DEF Rel
<1>6. coreInit = n
  BY <1>2, <1>5 DEF Common, Handles, Based, Base
<1>7. port_setting_changed = w.seen /\ tunnels = w.tunnels /\ supplied = w.supplied
  BY <1>5 DEF InStep, Copied, w
<1>8. port_setting_changed = seen
  BY <1>3, <1>4, <1>7
<1>9. tunnels = Joined(n, seen)
  BY <1>3, <1>4, <1>7
<1>10. ASSUME NEW c \in Comps PROVE state[c] = w.state[c] /\ enabled[c] = w.enabled[c]
  BY <1>1, <1>2, QuietNow DEF w
<1>11. ASSUME NEW c \in Created(n)
       PROVE  enabled[c] = Whole(c, n, seen) /\ (Serving(c) => supplied[c] = NumBuffers)
  <2>1. c \in Comps
    BY <1>11 DEF Created
  <2>2. v.enabled[c] = Whole(c, n, seen)
    BY <1>3, <1>11, <2>1 DEF Whole1
  <2>3. Serving(c) => v.supplied[c] = NumBuffers
    BY <1>3, <1>11, <2>1
  <2> QED
    BY <1>4, <1>7, <1>10, <2>1, <2>2, <2>3
<1>12. Cardinality({c \in Comps : state[c] # Wanted(c, n, seen)}) <= failures
  <2> DEFINE A == {c \in Comps : state[c] # Wanted(c, n, seen)}
             B == w.spoiled \cup Suspects(S)
  <2>1. A \subseteq B
    <3> SUFFICES ASSUME NEW c \in Comps, state[c] # Wanted(c, n, seen) PROVE c \in w.spoiled
      OBVIOUS
    <3>1. state[c] = w.state[c] /\ v.state[c] = Wanted(c, n, seen)
      BY <1>3, <1>10
    <3> QED
      BY <1>4, <3>1 DEF Like
  <2>2. B \subseteq Comps /\ Cardinality(B) <= failures
    BY <1>5 DEF InStep, Excused, Suspects, w
  <2>3. failures \in Nat
    BY <1>5, FailuresNat DEF Common
  <2> HIDE DEF A, B
  <2>4. Cardinality(A) <= failures
    BY <2>1, <2>2, <2>3, SmallerSet
  <2> QED
    BY <2>4 DEF A
<1> QED
  BY <1>6, <1>8, <1>9, <1>11, <1>12

(* IInv is inductive: it holds at the start, and every step of the         *)
(* program, of its timer and of the firmware keeps it.                     *)
THEOREM StartupInvariant == Spec => []IInv
<1>1. Init => IInv
  BY InitInv
<1>2. IInv /\ [Next]_vars => IInv'
  BY NextInv, StutterInv
<1> QED
  BY <1>1, <1>2, PTL DEF Spec

(* Nobody sleeps on flags while the event it waits for is on a list        *)
(* already: ilclient.c:1247 registers for the flags, looks, and sleeps.    *)
THEOREM NoWakeupIsLost == Spec => []NoLostWakeup
<1>1. IInv => NoLostWakeup
  BY WakeupInv
<1> QED
  BY <1>1, StartupInvariant, PTL

(* The handler of ilclient.c:1454 never finds the list of spare structures *)
(* empty, no structure is ever lost, and the state keeps its type.         *)
THEOREM PoolIsKept == Spec => []PoolKept
<1>1. IInv => PoolKept
  BY PoolInv
<1> QED
  BY <1>1, StartupInvariant, PTL

(* The assertions of sx_video_sink.c:114 and on fail only after a refusal  *)
(* or a wait that timed out.                                               *)
THEOREM AbortsAreJustified == Spec => []AbortsForAReason
<1>1. IInv => AbortsForAReason
  BY AbortsInv
<1> QED
  BY <1>1, StartupInvariant, PTL

(* A call of sx_mgmt_sys.c:64 that has ended has connected and enabled all *)
(* it was to connect and enable, and started all components but as many as *)
(* commands were refused.                                                  *)
THEOREM SetUpIsComplete == Spec => []SetUpIsWhole
<1>1. IInv => SetUpIsWhole
  BY WholeInv
<1> QED
  BY <1>1, StartupInvariant, PTL

(* When a call has ended no command is under way, and no answer is on a    *)
(* list that ilclient.c:664 could take for the answer of a later command.  *)
THEOREM NoAnswerIsLeft == Spec => []NothingLeftOver
<1>1. IInv => NothingLeftOver
  BY NothingInv
<1> QED
  BY <1>1, StartupInvariant, PTL
===============================================================================
