---------------------------- MODULE StartupMachine ----------------------------
(***************************************************************************)
(* The program of Startup taken by itself: a stack of steps and what it    *)
(* relies on. A state S of this module is what the program knows: while    *)
(* everything was answered as expected, which command of each component is *)
(* under way, who is related to whom, whose errors are masked and what     *)
(* world it has built; after an answer that was not, only the clients and  *)
(* the handles it has still to give back and the component whose error has *)
(* not been read (S.doom, S.told).                                         *)
(*                                                                         *)
(* Nexts(f, k, S) is what the step f before the rest k may leave, whatever *)
(* the firmware does; Good(f, k, S) is what the step needs. Safe(p, S)     *)
(* says that from the stack p no step is ever taken that is not good. It   *)
(* is the greatest set of that kind, so that a stack is safe when its      *)
(* first step is good and every outcome is safe (SafeFold), and what is    *)
(* safe stays safe (SafeUnfold).                                           *)
(*                                                                         *)
(* Runs(P, p, Q) is the rule for one piece of text: from a state in P the  *)
(* piece p ends in a state of Q. Each library call of IlClient has its     *)
(* rule, then each part of VideoSink and AudioSink, then main (MainSafe),  *)
(* and the presenter's loop (RestSafe, HandedSafe). Then comes the shape   *)
(* of the text.                                                            *)
(*                                                                         *)
(* The last part ties S to the variables. Common(S) holds always: who is   *)
(* there, what is on the lists, how many buffers and structures there are. *)
(* InStep(S) is for a program that knows of every command whether it is    *)
(* under way, answered (After) or refused; Blamed(S) is for one that is    *)
(* giving up, and says why. Rel(S) puts them together. Heeded and Before   *)
(* are about the step to be taken next: an error that is on a list has its *)
(* flag up or is about to be read, and who goes to sleep has not missed    *)
(* what it waits for. IInv, the invariant of StartupProofs, says that the  *)
(* stack is safe for some S and the variables are as S says.               *)
(***************************************************************************)
EXTENDS Startup, SequenceLemmas


IsSeq(p) == \E X : p \in Seq(X)

LEMMA SeqMeet ==
  ASSUME NEW p, NEW q, IsSeq(p), IsSeq(q)
  PROVE  \E X : p \in Seq(X) /\ q \in Seq(X)
<1>1. PICK X : p \in Seq(X)
  BY DEF IsSeq
<1>2. PICK Y : q \in Seq(Y)
  BY DEF IsSeq
<1>3. X \subseteq X \cup Y /\ Y \subseteq X \cup Y
  OBVIOUS
<1>4. p \in Seq(X \cup Y) /\ q \in Seq(X \cup Y)
  BY <1>1, <1>2, <1>3, SeqMonotonic
<1> QED
  BY <1>4

LEMMA SeqConcat ==
  ASSUME NEW p, NEW q, IsSeq(p), IsSeq(q)
  PROVE  IsSeq(p \o q)
<1>1. PICK X : p \in Seq(X) /\ q \in Seq(X)
  BY SeqMeet
<1>2. p \o q \in Seq(X)
  BY <1>1, ConcatProperties
<1> QED
  BY <1>2 DEF IsSeq

LEMMA SeqAssociates ==
  ASSUME NEW p, NEW q, NEW r, IsSeq(p), IsSeq(q), IsSeq(r)
  PROVE  (p \o q) \o r = p \o (q \o r)
<1>1. PICK X : p \in Seq(X) /\ q \in Seq(X)
  BY SeqMeet
<1>2. PICK Y : r \in Seq(Y)
  BY DEF IsSeq
<1>3. X \subseteq X \cup Y /\ Y \subseteq X \cup Y
  OBVIOUS
<1>4. p \in Seq(X \cup Y) /\ q \in Seq(X \cup Y) /\ r \in Seq(X \cup Y)
  BY <1>1, <1>2, <1>3, SeqMonotonic
<1> QED
  BY <1>4, ConcatAssociative

LEMMA SeqNothing ==
  ASSUME NEW p, IsSeq(p)
  PROVE  IsSeq(<<>>) /\ <<>> \o p = p /\ p \o <<>> = p
<1>1. PICK X : p \in Seq(X)
  BY DEF IsSeq
<1>2. <<>> \in Seq(X)
  BY EmptySeq
<1> QED
  BY <1>1, <1>2, ConcatEmptySeq DEF IsSeq

LEMMA SeqPush ==
  ASSUME NEW s, NEW k, IsSeq(k)
  PROVE  /\ IsSeq(<<s>>) /\ IsSeq(<<s>> \o k) /\ <<s>> \o k # <<>>
         /\ Head(<<s>> \o k) = s /\ Tail(<<s>> \o k) = k
         /\ Len(<<s>> \o k) = Len(k) + 1 /\ Len(k) \in Nat
         /\ \A i \in 1 .. Len(k) : (<<s>> \o k)[i + 1] = k[i]
<1>1. PICK Y : k \in Seq(Y)
  BY DEF IsSeq
<1> DEFINE X == Y \cup {s}
           p == <<s>> \o k
<1>2. k \in Seq(X) /\ <<s>> \in Seq(X) /\ Len(<<s>>) = 1 /\ <<s>>[1] = s
  <2>1. Y \subseteq X
    OBVIOUS
  <2>2. k \in Seq(X)
    BY <1>1, <2>1, SeqMonotonic
  <2> QED
    BY <2>2
<1> HIDE DEF X
<1>3. /\ p \in Seq(X) /\ Len(p) = 1 + Len(k) /\ Len(k) \in Nat
      /\ \A i \in 1 .. 1 + Len(k) : p[i] = IF i <= 1 THEN <<s>>[i] ELSE k[i - 1]
  BY <1>2, ConcatProperties, LenProperties
<1>4. p[1] = s /\ \A i \in 1 .. Len(k) : p[i + 1] = k[i]
  BY <1>2, <1>3
<1> HIDE DEF p
<1>5. p # <<>> /\ Head(p) = p[1]
  BY <1>3
<1>6. /\ Tail(p) \in Seq(X) /\ Len(Tail(p)) = Len(k)
      /\ \A i \in 1 .. Len(k) : Tail(p)[i] = p[i + 1]
  BY <1>3, <1>5, HeadTailProperties
<1>7. Tail(p) = k
  BY <1>2, <1>4, <1>6, SeqEqual
<1> QED
  BY <1>2, <1>3, <1>4, <1>5, <1>7 DEF IsSeq, p

IsKept(g, s, n) ==
  g = [i \in 0 .. n |-> IF i = 0 THEN <<>>
                        ELSE IF Contains(g[i - 1], s[i]) THEN g[i - 1]
                        ELSE Append(g[i - 1], s[i])]

LEMMA KeptExists ==
  ASSUME NEW T, NEW s \in Seq(T)
  PROVE  \E g \in [0 .. Len(s) -> Seq(T)] : IsKept(g, s, Len(s))
<1> DEFINE n == Len(s)
           E(m) == \E g \in [0 .. m -> Seq(T)] : IsKept(g, s, m)
           N == {m \in Nat : m <= n => E(m)}
<1>0. n \in Nat /\ \A i \in 1 .. n : s[i] \in T
  BY LenProperties, ElementOfSeq
<1> HIDE DEF n
<1>1. 0 \in N
  <2> DEFINE g == [i \in 0 .. 0 |-> <<>>]
  <2>1. g \in [0 .. 0 -> Seq(T)] /\ IsKept(g, s, 0)
    BY EmptySeq DEF IsKept
  <2> QED
    BY <2>1
<1>2. ASSUME NEW m \in N PROVE m + 1 \in N
  <2> SUFFICES ASSUME m + 1 <= n PROVE E(m + 1)
    OBVIOUS
  <2>1. m \in Nat /\ m <= n /\ s[m + 1] \in T
    BY <1>0
  <2>2. PICK g \in [0 .. m -> Seq(T)] : IsKept(g, s, m)
    BY <2>1
  <2> DEFINE next == IF Contains(g[m], s[m + 1]) THEN g[m] ELSE Append(g[m], s[m + 1])
             f == [i \in 0 .. m + 1 |-> IF i = m + 1 THEN next ELSE g[i]]
  <2>3. g[m] \in Seq(T) /\ next \in Seq(T)
    BY <2>1, AppendProperties
  <2>4. \A i \in 0 .. m : g[i] = IF i = 0 THEN <<>>
                        ELSE IF Contains(g[i - 1], s[i]) THEN g[i - 1]
                        ELSE Append(g[i - 1], s[i])
    BY <2>2 DEF IsKept
  <2>5. f \in [0 .. m + 1 -> Seq(T)]
    BY <2>1, <2>3
  <2>6. ASSUME NEW i \in 0 .. m + 1
        PROVE  f[i] = IF i = 0 THEN <<>>
                        ELSE IF Contains(f[i - 1], s[i]) THEN f[i - 1]
                        ELSE Append(f[i - 1], s[i])
    <3>1. CASE i = m + 1
      <4>1. f[i] = next /\ f[i - 1] = g[m] /\ i # 0
        BY <2>1, <3>1
      <4> QED
        BY <3>1, <4>1
    <3>2. CASE i \in 0 .. m
      <4>1. f[i] = g[i] /\ (i # 0 => f[i - 1] = g[i - 1])
        BY <2>1, <3>2
      <4> QED
        BY <2>4, <3>2, <4>1
    <3> QED
      BY <2>1, <3>1, <3>2
  <2> HIDE DEF f
  <2>7. IsKept(f, s, m + 1)
    BY <2>5, <2>6 DEF IsKept
  <2> QED
    BY <2>5, <2>7
<1> HIDE DEF E
<1>3. N = Nat
  BY <1>1, <1>2, NumberInduction
<1> QED
  BY <1>0, <1>3 DEF E, n

(* What a sequence without repetition of the elements of s is.             *)
Distinct(u) == \A i, j \in 1 .. Len(u) : u[i] = u[j] => i = j

LEMMA ContainsIs ==
  ASSUME NEW s, NEW x
  PROVE  Contains(s, x) <=> \E i \in 1 .. Len(s) : s[i] = x
BY DEF Contains

IsUnique(u, T, s, m) ==
  /\ u \in Seq(T) /\ Distinct(u) /\ Len(u) <= m
  /\ \A x : Contains(u, x) <=> \E i \in 1 .. m : s[i] = x

LEMMA UniqueMore ==
  ASSUME NEW T, NEW s, NEW m \in Nat, NEW u, IsUnique(u, T, s, m), s[m + 1] \in T
  PROVE  IsUnique(IF Contains(u, s[m + 1]) THEN u ELSE Append(u, s[m + 1]), T, s, m + 1)
<1> DEFINE e == s[m + 1]  v == Append(u, e)
<1>1. u \in Seq(T) /\ Len(u) \in Nat /\ Len(u) <= m /\ Distinct(u)
  BY LenProperties DEF IsUnique
<1>2. \A x : (\E i \in 1 .. m + 1 : s[i] = x) <=> x = e \/ \E i \in 1 .. m : s[i] = x
  OBVIOUS
<1>3. \A x : (\E i \in 1 .. m + 1 : s[i] = x) <=> x = e \/ Contains(u, x)
  BY <1>2 DEF IsUnique
<1>4. CASE Contains(u, e)
  <2>1. \A x : Contains(u, x) <=> \E i \in 1 .. m + 1 : s[i] = x
    BY <1>3, <1>4
  <2> QED
    BY <1>1, <1>4, <2>1 DEF IsUnique
<1>5. CASE ~ Contains(u, e)
  <2>1. /\ v \in Seq(T) /\ Len(v) = Len(u) + 1 /\ v[Len(u) + 1] = e
        /\ \A i \in 1 .. Len(u) : v[i] = u[i]
    BY <1>1, AppendProperties
  <2> HIDE DEF v
  <2>2. \A i \in 1 .. Len(u) : u[i] # e
    BY <1>5, ContainsIs
  <2> HIDE DEF e
  <2>3. ASSUME NEW i \in 1 .. Len(v), NEW j \in 1 .. Len(v), v[i] = v[j]
        PROVE  i = j
    <3>1. \A h \in 1 .. Len(v) : h \in 1 .. Len(u) \/ h = Len(u) + 1
      BY <1>1, <2>1
    <3> QED
      BY <1>1, <2>1, <2>2, <2>3, <3>1 DEF Distinct
  <2>4. ASSUME NEW x PROVE Contains(v, x) <=> x = e \/ Contains(u, x)
    <3>1. (\E i \in 1 .. Len(v) : v[i] = x) <=> x = e \/ \E i \in 1 .. Len(u) : u[i] = x
      BY <1>1, <2>1
    <3> QED
      BY <3>1, ContainsIs
  <2>5. Len(v) <= m + 1
    BY <1>1, <2>1
  <2>6. Distinct(v)
    BY <2>3 DEF Distinct
  <2>7. \A x : Contains(v, x) <=> \E i \in 1 .. m + 1 : s[i] = x
    BY <1>3, <2>4 DEF e
  <2> QED
    BY <1>5, <2>1, <2>5, <2>6, <2>7 DEF IsUnique, e, v
<1> QED
  BY <1>4, <1>5

LEMMA KeptFacts ==
  ASSUME NEW T, NEW s \in Seq(T), NEW g, IsKept(g, s, Len(s))
  PROVE  IsUnique(g[Len(s)], T, s, Len(s))
<1> DEFINE n == Len(s)
           N == {m \in Nat : m <= n => IsUnique(g[m], T, s, m)}
<1>0. n \in Nat /\ \A i \in 1 .. n : s[i] \in T
  BY LenProperties, ElementOfSeq
<1>1. \A i \in 0 .. n : g[i] = IF i = 0 THEN <<>>
                        ELSE IF Contains(g[i - 1], s[i]) THEN g[i - 1]
                        ELSE Append(g[i - 1], s[i])
  BY DEF IsKept
<1> HIDE DEF n
<1>2. 0 \in N
  <2>1. g[0] = <<>>
    BY <1>0, <1>1
  <2>2. <<>> \in Seq(T) /\ Len(<<>>) = 0
    BY EmptySeq
  <2>3. \A x : ~ Contains(<<>>, x)
    BY <2>2, ContainsIs
  <2>4. Distinct(<<>>)
    BY <2>2 DEF Distinct
  <2>5. IsUnique(g[0], T, s, 0)
    BY <2>1, <2>2, <2>3, <2>4 DEF IsUnique
  <2> QED
    BY <2>5
<1>3. ASSUME NEW m \in N PROVE m + 1 \in N
  <2> SUFFICES ASSUME m + 1 <= n PROVE IsUnique(g[m + 1], T, s, m + 1)
    OBVIOUS
  <2>1. m \in Nat /\ m <= n /\ s[m + 1] \in T /\ IsUnique(g[m], T, s, m)
    BY <1>0
  <2>2. g[m + 1] = IF Contains(g[m], s[m + 1]) THEN g[m] ELSE Append(g[m], s[m + 1])
    <3>1. m + 1 \in 0 .. n /\ m + 1 # 0 /\ m + 1 - 1 = m
      BY <1>0, <2>1
    <3> QED
      BY <1>1, <3>1
  <2> QED
    BY <2>1, <2>2, UniqueMore
<1> DEFINE W == N
<1> HIDE DEF N
<1>4. N = Nat
  <2>1. N \subseteq Nat
    BY DEF N
  <2> QED
    BY <1>2, <1>3, <2>1, NumberInduction
<1>5. n \in N /\ n <= n
  BY <1>0, <1>4
<1> QED
  BY <1>5 DEF n, N

(* The list without duplicates has the same events, each once.             *)
LEMMA UniqueFacts ==
  ASSUME NEW T, NEW s \in Seq(T)
  PROVE  /\ Unique(s) \in Seq(T) /\ Distinct(Unique(s)) /\ Len(Unique(s)) <= Len(s)
         /\ \A x : Contains(Unique(s), x) <=> Contains(s, x)
<1> DEFINE G == CHOOSE g : IsKept(g, s, Len(s))
<1>1. IsKept(G, s, Len(s))
  BY KeptExists
<1>2. Unique(s) = G[Len(s)]
  BY DEF Unique, IsKept
<1> HIDE DEF G
<1>3. IsUnique(G[Len(s)], T, s, Len(s))
  BY <1>1, KeptFacts
<1>4. \A x : Contains(Unique(s), x) <=> Contains(s, x)
  BY <1>2, <1>3, ContainsIs DEF IsUnique
<1> QED
  BY <1>2, <1>3, <1>4 DEF IsUnique

NoCommand == Command(None, "none", 0)
Put(g, c, x) == [d \in Comps |-> IF d = c THEN x ELSE g[d]]

(* What a command makes of the states and of the enabled ports.            *)
NewState(g, x) == IF x.cmd = "StateSet" THEN Put(g, x.c, x.n) ELSE g
NewPorts(g, x) ==
  IF x.cmd = "PortEnable" THEN Put(g, x.c, g[x.c] \cup {x.n})
  ELSE IF x.cmd = "PortDisable" THEN Put(g, x.c, g[x.c] \ {x.n})
  ELSE g

World(seen, hand, st, en, tu, su, sp) ==
  [seen |-> seen, hand |-> hand, state |-> st, enabled |-> en, tunnels |-> tu,
   supplied |-> su, spoiled |-> sp]
After(w, x) ==
  World(w.seen, w.hand, NewState(w.state, x), NewPorts(w.enabled, x), w.tunnels,
        w.supplied, w.spoiled)
Spoilt(w, c) ==
  World(w.seen, w.hand, w.state, w.enabled, w.tunnels, w.supplied, w.spoiled \cup {c})
Linked(w, a, b) ==
  World(w.seen, w.hand, w.state, w.enabled, w.tunnels \cup {<<a, b>>}, w.supplied,
        w.spoiled)
Given(w, c) ==
  World(w.seen, w.hand, w.state, w.enabled, w.tunnels,
        Put(w.supplied, c, w.supplied[c] + 1), w.spoiled)
Born(w, c) ==
  World(w.seen, w.hand, Put(w.state, c, Loaded), Put(w.enabled, c, ToSet(PortsOf(c))),
        w.tunnels, w.supplied, w.spoiled)
Sized(w) ==
  World(TRUE, w.hand, w.state, w.enabled, w.tunnels, w.supplied, w.spoiled)
Holding(w, n) ==
  World(w.seen, n, w.state, w.enabled, w.tunnels, w.supplied, w.spoiled)

Base(inits, clients, alive) == [inits |-> inits, clients |-> clients, alive |-> alive]

Sync(r, g, h, m, b, w) ==
  [doom |-> FALSE, ret |-> r, sent |-> g, related |-> h, masked |-> m, base |-> b,
   world |-> w]
Lost(r, j, b) == [doom |-> TRUE, ret |-> r, told |-> j, base |-> b]

(* Whether a step that the stack begins with may be taken.                 *)
Typed(c, cmd, n) ==
  \/ cmd = "StateSet" /\ n \in {Loaded, Idle, Executing}
  \/ cmd \in {"PortEnable", "PortDisable"} /\ n \in ToSet(PortsOf(c))

(* Nothing under way.                                                      *)
Quiet == [c \in Comps |-> NoCommand]
Unrelated == [c \in Comps |-> None]
Calm(r, b, w) == Sync(r, Quiet, Unrelated, {}, b, w)

(* A world like v, but for components whose start was refused.             *)
Variants(v) ==
  {w \in {World(v.seen, v.hand, st, v.enabled, v.tunnels, v.supplied, sp) :
             st \in [Comps -> 0 .. 3], sp \in SUBSET Comps} :
     \A c \in Comps :
       \/ w.state[c] = v.state[c]
       \/ c \in w.spoiled /\ w.state[c] = Idle /\ v.state[c] = Executing}
Near(b, v) == {Calm(r, b, w) : r \in -5 .. 0, w \in Variants(v)}

(* After n calls.                                                          *)
Whole1(c, n, seen) == IF c \in Created(n) THEN Whole(c, n, seen) ELSE {}
Based(n) == Base(n, {k \in 0 .. 2 : k < n}, Created(n))
SetUp(n, seen, hand) ==
  World(seen, hand, [c \in Comps |-> Wanted(c, n, seen)],
        [c \in Comps |-> Whole1(c, n, seen)], Joined(n, seen),
        [c \in Comps |-> IF c \in Created(n) /\ Serving(c) THEN NumBuffers ELSE 0], {})
Rested(S) ==
  \E n \in 0 .. 3, seen \in BOOLEAN :
    (seen => n = 3) /\ S \in Near(Based(n), SetUp(n, seen, 0))

Asleep(c, flags_, timeout) ==
  [do |-> "suspend", c |-> c, mask |-> flags_, timeout |-> timeout]
Awaits(f) ==
  Asleep(f.c, {FlagOf(Event("CmdComplete", f.cmd, f.n)), "ERROR"}, FALSE)
LooksFor(f) == Asleep(f.c, {f.flag, "ERROR"}, f.timeout)
Woken(f) == [do |-> "woken", c |-> f.c]
LookError(f) == [do |-> "look for error", c |-> f.c]

(* The steps of a drain after the sleep.                                   *)
Again(f, num) == <<[f EXCEPT !.num = num]>>
Answered(f, num) ==
  IfGot("PORT_DISABLED",
    RemoveEvent(f.c, Complete("PortDisable", f.n)) \o IfReturned(0, <<>>, Again(f, num)),
    Again(f, num))
DrainWoken(f, num) ==
  IfGot("ERROR",
    RemoveEvent(f.c, CommandError) \o IfReturned(0, <<>>, Answered(f, num)),
    Answered(f, num))
DrainMask == {"PORT_DISABLED", "ERROR", "EMPTY_BUFFER_DONE"}

Full(list) == Append(list, Len(list) + 1)
Filled(f) ==
  IF Len(Full(f.list)) = NumBuffers THEN [[f EXCEPT !.do = "queue"] EXCEPT !.list = Full(f.list)]
  ELSE [f EXCEPT !.list = Full(f.list)]

NextsSync(f, k, S) ==
  CASE f.do = "call" -> {<<Body(f.f) \o k, S>>}
    [] f.do = "present" -> {}
    [] f.do = "settings" ->
         {<<k, S>>}
         \cup {<<Connect \o k, Sync(S.ret, S.sent, S.related, S.masked, S.base, Sized(S.world))>>
               : x \in {y \in {1} : ~S.world.seen}}
    [] f.do = "submit" ->
         {<<k, Sync(S.ret, S.sent, S.related, S.masked, S.base, Holding(S.world, 0))>>}
    [] f.do = "send" ->
         {<<k, Sync(S.ret, Put(S.sent, f.c, Command(f.c, f.cmd, f.n)), S.related, S.masked,
                    S.base, S.world)>>}
    [] f.do = "if returned" -> {<<(IF S.ret = f.value THEN f.yes ELSE f.no) \o k, S>>}
    [] f.do = "if state" ->
         {<<(IF S.world.state[f.c] \in f.s THEN f.yes ELSE f.no) \o k, S>>}
    [] f.do = "if enabled" ->
         {<<(IF f.n \in S.world.enabled[f.c] THEN f.yes ELSE f.no) \o k, S>>}
    [] f.do = "return" ->
         {<<k, Sync(f.value, S.sent, S.related, S.masked, S.base, S.world)>>}
    [] f.do = "assert" -> {x \in {<<k, S>>} : S.ret >= 0}
    [] f.do = "remove" ->
         {<<k, Sync(r, S.sent, S.related, S.masked, S.base, S.world)>> : r \in {0, -1}}
    [] f.do = "relate" ->
         {<<k, Sync(S.ret, S.sent, Put(S.related, f.c, f.to), S.masked, S.base, S.world)>>}
    [] f.do = "mask" ->
         {<<k, Sync(S.ret, S.sent, S.related,
                    IF f.on THEN S.masked \cup {f.c} ELSE S.masked \ {f.c}, S.base, S.world)>>}
    [] f.do = "check" ->
         {<<<<Awaits(f)>> \o (<<f>> \o k), S>>,
          <<k, Sync(0, Put(S.sent, f.c, NoCommand), S.related, S.masked, S.base,
                    After(S.world, S.sent[f.c]))>>,
          IF f.cmd = "StateSet" /\ f.other = None
          THEN <<k, Sync(-1, Put(S.sent, f.c, NoCommand), S.related, S.masked, S.base,
                         Spoilt(S.world, f.c))>>
          ELSE <<k, Lost(-1, f.c, S.base)>>,
          <<k, IF f.other = None THEN Sync(0, Put(S.sent, f.c, NoCommand), S.related, S.masked, S.base,
                    After(S.world, S.sent[f.c])) ELSE Lost(-2, None, S.base)>>}
    [] f.do = "suspend" -> {<<k, S>>}
    [] f.do = "look" ->
         {<<k, Sync(0, S.sent, S.related, S.masked, S.base, S.world)>>,
          <<<<LookError(f)>> \o (<<f>> \o k), S>>}
    [] f.do = "look for error" -> {<<<<LooksFor(Head(k))>> \o (<<Woken(Head(k))>> \o k), S>>}
    [] f.do = "woken" -> {<<k, S>>, <<Tail(k), Lost(-1, None, S.base)>>, <<Tail(k), Lost(-2, None, S.base)>>}
    [] f.do = "init client" ->
         {<<k, Sync(S.ret, S.sent, S.related, S.masked,
                    Base(S.base.inits, S.base.clients \cup {f.k}, S.base.alive), S.world)>>}
    [] f.do = "create" ->
         {<<FlattenSeq([i \in DOMAIN PortsOf(f.c) |-> ilclient_disable_port(f.c, PortsOf(f.c)[i])])
              \o Return(0) \o k,
            Sync(S.ret, S.sent, S.related, S.masked,
                 Base(S.base.inits, S.base.clients, S.base.alive \cup {f.c}), Born(S.world, f.c))>>,
          <<k, Lost(-1, None, S.base)>>}
    [] f.do = "OMX_Init" ->
         {<<k, Sync(0, S.sent, S.related, S.masked,
                    Base(S.base.inits + 1, S.base.clients, S.base.alive), S.world)>>,
          <<k, Lost(-1, None, S.base)>>}
    [] f.do = "join" ->
         {<<k, Sync(0, S.sent, S.related, S.masked, S.base, Linked(S.world, f.a, f.b))>>,
          <<k, Lost(-1, None, S.base)>>}
    [] f.do = "configure" ->
         {<<k, Sync(0, S.sent, S.related, S.masked, S.base, S.world)>>,
          <<k, Lost(-1, None, S.base)>>}
    [] f.do = "supply" ->
         {<<<<Filled(f)>> \o k,
            Sync(S.ret, S.sent, S.related, S.masked, S.base, Given(S.world, f.c))>>,
          <<<<[f EXCEPT !.do = "queue"]>> \o k, Lost(S.ret, f.c, S.base)>>}
    [] f.do = "queue" -> {<<Wait(f.c, "PortEnable", f.n) \o k, S>>}

(* The shapes of a sleep.                                                  *)
Sleeps(f, k) ==
  /\ IsSeq(k) /\ k # <<>>
  /\ \/ Head(k).do = "check" /\ f = Awaits(Head(k))
     \/ /\ Head(k).do = "woken" /\ Tail(k) # <<>> /\ Head(Tail(k)).do = "look"
        /\ f = LooksFor(Head(Tail(k))) /\ Head(k) = Woken(Head(Tail(k)))
Wants(f) ==
  \A x \in f.wanted : x.e \in {"CmdComplete", "PortSettingsChanged"} /\ FlagOf(x) = f.flag

GoodSync(f, k, S) ==
  LET here  == f.c \in Comps /\ f.c \in S.base.alive
      quiet == S.sent[f.c] = NoCommand
  IN
  CASE f.do = "call" -> Rested(S)
    [] f.do = "present" -> Rested(S) /\ S.base.inits = 3 /\ k = <<>> /\ f = [do |-> "present"]
    [] f.do = "settings" -> S.sent[video_decode] = NoCommand
    [] f.do = "submit" -> S.world.hand = 1 /\ f.buf \in Nat
    [] f.do = "send" ->
         /\ here /\ quiet /\ Typed(f.c, f.cmd, f.n)
         /\ S.related[f.c] # None => f.cmd = "PortEnable"
         /\ f.cmd = "PortDisable" /\ f.n \notin S.world.enabled[f.c] => f.c \in S.masked
    [] f.do = "if returned" -> TRUE
    [] f.do = "if state" -> f.c \in Comps /\ S.sent[f.c].cmd # "StateSet"
    [] f.do = "if enabled" -> f.c \in Comps /\ quiet
    [] f.do = "return" -> f.value \in -5 .. 0
    [] f.do = "assert" -> S.ret >= 0 \/ S.world.spoiled # {}
    [] f.do = "remove" -> here /\ quiet /\ f.wanted = AnyError
    [] f.do = "relate" ->
         /\ f.c \in Comps /\ f.to \in Comps \cup {None}
         /\ f.to # None => S.sent[f.c].cmd \in {"none", "PortEnable"}
    [] f.do = "mask" -> f.c \in Comps /\ quiet
    [] f.do = "check" ->
         /\ here /\ Typed(f.c, f.cmd, f.n) /\ S.sent[f.c] = Command(f.c, f.cmd, f.n)
         /\ f.other # None =>
              /\ f.other \in Comps /\ f.other # f.c /\ S.related[f.other] = f.c
              /\ S.sent[f.other].cmd = "PortEnable"
    [] f.do = "suspend" ->
         /\ Sleeps(f, k)
         /\ Head(k).do = "check" /\ Head(k).other # None => S.related[Head(k).other] = f.c
    [] f.do = "look" ->
         here /\ quiet /\ Wants(f) /\ f.c = video_scheduler /\ f.wanted = SettingsChanged(11)
    [] f.do = "look for error" -> k # <<>> /\ Head(k).do = "look" /\ f = LookError(Head(k))
    [] f.do = "woken" -> k # <<>> /\ Head(k).do = "look" /\ f = Woken(Head(k))
    [] f.do = "init client" -> f.k \in Clients /\ f.k \notin S.base.clients
    [] f.do = "create" ->
         f.c \in Comps /\ f.c \notin S.base.alive /\ Owner(f.c) \in S.base.clients /\ quiet
    [] f.do = "OMX_Init" -> S.base.inits < 3
    [] f.do = "join" -> TRUE
    [] f.do = "configure" -> TRUE
    [] f.do = "supply" ->
         /\ here /\ f.n \in Fed /\ S.sent[f.c] = Command(f.c, "PortEnable", f.n)
         /\ S.world.supplied[f.c] = Len(f.list) /\ Len(f.list) < NumBuffers
         /\ f = [do |-> "supply", c |-> f.c, n |-> f.n, list |-> f.list] /\ f.list \in Seq(Nat)
    [] f.do = "queue" ->
         /\ here /\ S.sent[f.c] = Command(f.c, "PortEnable", f.n)
         /\ Len(f.list) = NumBuffers /\ f.list \in Seq(Nat)
    [] OTHER -> FALSE

NextsLost(f, k, S) ==
  LET b == S.base  j == S.told IN
  CASE f.do = "send" -> {<<k, S>>}
    [] f.do = "relate" -> {<<k, S>>}
    [] f.do = "unjoin" -> {<<k, S>>}
    [] f.do = "return events" -> {<<k, S>>}
    [] f.do = "if returned" -> {<<(IF S.ret = f.value THEN f.yes ELSE f.no) \o k, S>>}
    [] f.do = "if enabled" -> {<<f.yes \o k, S>>, <<f.no \o k, S>>}
    [] f.do = "if got" -> {<<f.yes \o k, S>>, <<f.no \o k, S>>}
    [] f.do = "return" -> {<<k, Lost(f.value, j, b)>>}
    [] f.do = "assert" -> {x \in {<<k, S>>} : S.ret >= 0}
    [] f.do = "remove" -> {<<k, Lost(0, None, b)>>, <<k, Lost(-1, j, b)>>}
    [] f.do = "check" ->
         {<<<<Awaits(f)>> \o (<<f>> \o k), Lost(S.ret, None, b)>>,
          <<k, Lost(0, None, b)>>, <<k, Lost(-1, None, b)>>}
    [] f.do = "suspend" -> {<<k, S>>}
    [] f.do = "look" ->
         {<<k, Lost(0, None, b)>>, <<<<LookError(f)>> \o (<<f>> \o k), Lost(S.ret, None, b)>>}
    [] f.do = "look for error" ->
         {<<Tail(k), Lost(-2, None, b)>>, <<<<LooksFor(Head(k))>> \o (<<Woken(Head(k))>> \o k), S>>}
    [] f.do = "woken" ->
         {<<k, S>>, <<Tail(k), Lost(-1, None, b)>>, <<Tail(k), Lost(-2, None, b)>>}
    [] f.do = "free handle" ->
         {<<k, Lost(S.ret, None, Base(b.inits, b.clients, b.alive \ {f.c}))>>}
    [] f.do = "destroy client" ->
         {<<k, Lost(S.ret, j, Base(b.inits, b.clients \ {f.k}, b.alive))>>}
    [] f.do = "OMX_Deinit" -> {<<k, Lost(S.ret, j, Base(b.inits - 1, b.clients, b.alive))>>}
    [] f.do = "queue" -> {<<k, Lost(-1, j, b)>>}
    [] f.do = "drain" ->
         {<<<<Asleep(f.c, DrainMask, FALSE)>> \o (DrainWoken(f, num) \o k), S>> : num \in Int}
         \cup {<<(Wait(f.c, "PortDisable", f.n) \o Insist) \o k, S>>}

GoodLost(f, k, S) ==
  LET here == f.c \in Comps /\ f.c \in S.base.alive
  IN
  CASE f.do = "send" -> here /\ Typed(f.c, f.cmd, f.n)
    [] f.do = "relate" -> f.c \in Comps /\ f.to = None
    [] f.do = "unjoin" -> TRUE
    [] f.do = "return events" -> here
    [] f.do = "if returned" -> TRUE
    [] f.do = "if enabled" -> TRUE
    [] f.do = "if got" ->
         f.flag = "ERROR" => \E q : IsSeq(q) /\ f.yes = RemoveEvent(S.told, CommandError) \o q
    [] f.do = "return" -> f.value \in -5 .. 0
    [] f.do = "assert" -> TRUE
    [] f.do = "remove" -> here
    [] f.do = "check" -> here /\ Typed(f.c, f.cmd, f.n) /\ f.other = None
    [] f.do = "suspend" ->
         /\ IsSeq(k) /\ k # <<>>
         /\ \/ Sleeps(f, k) /\ (Head(k).do = "check" => Head(k).other = None)
            \/ /\ Head(k).do = "if got" /\ Head(k).flag = "ERROR"
               /\ S.told = f.c /\ f = Asleep(f.c, DrainMask, FALSE)
    [] f.do = "look" -> here /\ Wants(f)
    [] f.do = "look for error" -> k # <<>> /\ Head(k).do = "look" /\ f = LookError(Head(k))
    [] f.do = "woken" -> k # <<>> /\ Head(k).do = "look" /\ f = Woken(Head(k))
    [] f.do = "free handle" -> here
    [] f.do = "destroy client" ->
         f.k \in Clients /\ \A c \in S.base.alive : Owner(c) # f.k
    [] f.do = "OMX_Deinit" -> S.base.inits > 0
    [] f.do = "queue" -> f.c \in Comps /\ Len(f.list) < NumBuffers /\ f.list \in Seq(Nat) /\ S.told = f.c
    [] f.do = "drain" -> here /\ S.told = f.c /\ f.num \in Int
          /\ f = [do |-> "drain", c |-> f.c, n |-> f.n, num |-> f.num] /\ f.n \in ToSet(PortsOf(f.c))
    [] OTHER -> FALSE

Good(f, k, S) == IF S.doom THEN GoodLost(f, k, S) ELSE GoodSync(f, k, S)
Nexts(f, k, S) == IF S.doom THEN NextsLost(f, k, S) ELSE NextsSync(f, k, S)

(* A set of stacks and states that the steps do not leave.                 *)
Closed(R) ==
  \A x \in R : /\ IsSeq(x[1]) /\ x[1] # <<>>
               /\ Good(Head(x[1]), Tail(x[1]), x[2])
               /\ Nexts(Head(x[1]), Tail(x[1]), x[2]) \subseteq R
Safe(p, S) == \E R : Closed(R) /\ <<p, S>> \in R

Good1(x) == /\ IsSeq(x[1]) /\ x[1] # <<>>
               /\ Good(Head(x[1]), Tail(x[1]), x[2])
Nexts1(x) == Nexts(Head(x[1]), Tail(x[1]), x[2])

LEMMA Coinduction ==
  ASSUME NEW X, NEW Y,
         \A x \in X : Good1(x) /\ Nexts1(x) \subseteq X \cup Y,
         \A y \in Y : y = <<y[1], y[2]>> /\ Safe(y[1], y[2])
  PROVE  \A p, S : <<p, S>> \in X => Safe(p, S)
<1> DEFINE C(y) == CHOOSE R : Closed(R) /\ y \in R
           R == X \cup UNION {C(y) : y \in Y}
<1>1. ASSUME NEW y \in Y PROVE Closed(C(y)) /\ y \in C(y)
  BY DEF Safe
<1>2. Y \subseteq UNION {C(y) : y \in Y}
  BY <1>1
<1> HIDE DEF C
<1>3. ASSUME NEW x \in R PROVE Good1(x) /\ Nexts1(x) \subseteq R
  <2>1. CASE x \in X
    BY <1>2, <2>1
  <2>2. CASE x \notin X
    <3>1. PICK y \in Y : x \in C(y)
      BY <2>2
    <3>2. Good1(x) /\ Nexts1(x) \subseteq C(y)
      BY <1>1, <3>1 DEF Closed, Good1, Nexts1
    <3> QED
      BY <3>2
  <2> QED
    BY <2>1, <2>2
<1> HIDE DEF R
<1>4. Closed(R)
  BY <1>3 DEF Closed, Good1, Nexts1
<1>5. X \subseteq R
  BY DEF R
<1> QED
  BY <1>4, <1>5 DEF Safe

(* What a safe stack is safe for.                                          *)
LEMMA SafeUnfold ==
  ASSUME NEW p, NEW S, Safe(p, S)
  PROVE  /\ IsSeq(p) /\ p # <<>> /\ Good(Head(p), Tail(p), S)
         /\ \A q, T : <<q, T>> \in Nexts(Head(p), Tail(p), S) => Safe(q, T)
<1>1. PICK R : Closed(R) /\ <<p, S>> \in R
  BY DEF Safe
<1> DEFINE x == <<p, S>>
<1>2. x[1] = p /\ x[2] = S /\ x \in R
  BY <1>1
<1> HIDE DEF x
<1>3. /\ IsSeq(p) /\ p # <<>> /\ Good(Head(p), Tail(p), S)
      /\ Nexts(Head(p), Tail(p), S) \subseteq R
  BY <1>1, <1>2 DEF Closed
<1> QED
  BY <1>1, <1>3 DEF Safe

LEMMA SafeFold ==
  ASSUME NEW f, NEW k, NEW S, IsSeq(k), Good(f, k, S), NEW Y, Nexts(f, k, S) \subseteq Y,
         \A y \in Y : y = <<y[1], y[2]>> /\ Safe(y[1], y[2])
  PROVE  Safe(<<f>> \o k, S)
<1> DEFINE x == <<<<f>> \o k, S>>
           X == {x}
<1>1. /\ IsSeq(<<f>> \o k) /\ <<f>> \o k # <<>> /\ Head(<<f>> \o k) = f
      /\ Tail(<<f>> \o k) = k
  BY SeqPush
<1>2. x[1] = <<f>> \o k /\ x[2] = S
  OBVIOUS
<1> HIDE DEF x
<1>3. Good1(x) /\ Nexts1(x) \subseteq X \cup Y
  BY <1>1, <1>2 DEF Good1, Nexts1
<1>4. <<<<f>> \o k, S>> \in X
  BY DEF x
<1>5. \A y \in X : Good1(y) /\ Nexts1(y) \subseteq X \cup Y
  BY <1>3
<1> HIDE DEF X
<1>6. \A p, T : <<p, T>> \in X => Safe(p, T)
  BY <1>5, Coinduction
<1> QED
  BY <1>4, <1>6

Runs(P, p, Q) ==
  /\ IsSeq(p)
  /\ \A S \in P : \A k : IsSeq(k) /\ (\A T \in Q : Safe(k, T)) => Safe(p \o k, S)

LEMMA RunSeq ==
  ASSUME NEW P, NEW U, NEW Q, NEW p, NEW q, Runs(P, p, U), Runs(U, q, Q)
  PROVE  Runs(P, p \o q, Q)
<1>1. IsSeq(p) /\ IsSeq(q) /\ IsSeq(p \o q)
  BY SeqConcat DEF Runs
<1>2. ASSUME NEW S \in P, NEW k, IsSeq(k), \A T \in Q : Safe(k, T)
      PROVE  Safe((p \o q) \o k, S)
  <2>1. \A T \in U : Safe(q \o k, T)
    BY <1>2 DEF Runs
  <2>2. IsSeq(q \o k)
    BY <1>1, <1>2, SeqConcat
  <2>3. Safe(p \o (q \o k), S)
    BY <2>1, <2>2 DEF Runs
  <2>4. (p \o q) \o k = p \o (q \o k)
    BY <1>1, <1>2, SeqAssociates
  <2> QED
    BY <2>3, <2>4
<1> QED
  BY <1>1, <1>2 DEF Runs

LEMMA RunWeaken ==
  ASSUME NEW P, NEW U, NEW V, NEW Q, NEW p, Runs(U, p, V), P \subseteq U, V \subseteq Q
  PROVE  Runs(P, p, Q)
BY DEF Runs

LEMMA RunMore ==
  ASSUME NEW P, NEW V, NEW Q, NEW p, Runs(P, p, V), V \subseteq Q
  PROVE  Runs(P, p, Q)
BY DEF Runs

LEMMA RunLess ==
  ASSUME NEW P, NEW U, NEW Q, NEW p, Runs(U, p, Q), P \subseteq U
  PROVE  Runs(P, p, Q)
BY DEF Runs

LEMMA RunEach ==
  ASSUME NEW P, NEW Q, NEW p, IsSeq(p), \A S \in P : Runs({S}, p, Q)
  PROVE  Runs(P, p, Q)
BY DEF Runs

LEMMA RunBoth ==
  ASSUME NEW P, NEW U, NEW Q, NEW p, Runs(P, p, Q), Runs(U, p, Q)
  PROVE  Runs(P \cup U, p, Q)
BY DEF Runs

LEMMA RunNothing ==
  ASSUME NEW Q
  PROVE  Runs(Q, <<>>, Q)
<1>1. IsSeq(<<>>) /\ \A k : IsSeq(k) => <<>> \o k = k
  <2>1. <<>> \in Seq({})
    BY EmptySeq
  <2> QED
    BY <2>1, SeqNothing DEF IsSeq
<1> QED
  BY <1>1 DEF Runs

LEMMA RunStep ==
  ASSUME NEW f, NEW S, NEW Q,
         \A k : IsSeq(k) => /\ Good(f, k, S)
                            /\ \A x \in Nexts(f, k, S) : \E T \in Q : x = <<k, T>>
  PROVE  Runs({S}, <<f>>, Q)
<1>1. ASSUME NEW k, IsSeq(k), \A T \in Q : Safe(k, T)
      PROVE  Safe(<<f>> \o k, S)
  <2> DEFINE Y == {<<k, T>> : T \in Q}
  <2>1. Nexts(f, k, S) \subseteq Y
    BY <1>1
  <2>2. ASSUME NEW y \in Y PROVE y = <<y[1], y[2]>> /\ Safe(y[1], y[2])
    BY <1>1
  <2> HIDE DEF Y
  <2> QED
    BY <1>1, <2>1, <2>2, SafeFold
<1>2. IsSeq(<<f>>)
  <2>1. <<>> \in Seq({})
    BY EmptySeq
  <2> QED
    BY <2>1, SeqPush DEF IsSeq
<1> QED
  BY <1>1, <1>2 DEF Runs

LEMMA RunInto ==
  ASSUME NEW f, NEW S, NEW Q, NEW q, NEW T, Runs({T}, q, Q),
         \A k : IsSeq(k) => Good(f, k, S) /\ Nexts(f, k, S) = {<<q \o k, T>>}
  PROVE  Runs({S}, <<f>>, Q)
<1>1. ASSUME NEW k, IsSeq(k), \A U \in Q : Safe(k, U)
      PROVE  Safe(<<f>> \o k, S)
  <2>1. Safe(q \o k, T)
    BY <1>1 DEF Runs
  <2> DEFINE y == <<q \o k, T>>  Y == {y}
  <2>2. y = <<y[1], y[2]>> /\ Safe(y[1], y[2])
    BY <2>1
  <2>3. Good(f, k, S) /\ Nexts(f, k, S) \subseteq Y
    BY <1>1
  <2> HIDE DEF y
  <2>4. \A z \in Y : z = <<z[1], z[2]>> /\ Safe(z[1], z[2])
    BY <2>2
  <2> HIDE DEF Y
  <2> QED
    BY <1>1, <2>3, <2>4, SafeFold
<1>2. IsSeq(<<f>>)
  <2>1. <<>> \in Seq({})
    BY EmptySeq
  <2> QED
    BY <2>1, SeqPush DEF IsSeq
<1> QED
  BY <1>1, <1>2 DEF Runs

LEMMA RunIntoEither ==
  ASSUME NEW f, NEW S, NEW Q, NEW q, NEW u, Runs({S}, q, Q), Runs({S}, u, Q),
         \A k : IsSeq(k) => /\ Good(f, k, S)
                            /\ Nexts(f, k, S) = {<<q \o k, S>>, <<u \o k, S>>}
  PROVE  Runs({S}, <<f>>, Q)
<1>1. ASSUME NEW k, IsSeq(k), \A U \in Q : Safe(k, U)
      PROVE  Safe(<<f>> \o k, S)
  <2>1. Safe(q \o k, S) /\ Safe(u \o k, S)
    BY <1>1 DEF Runs
  <2> DEFINE y == <<q \o k, S>>  z == <<u \o k, S>>  Y == {y, z}
  <2>2. /\ y = <<y[1], y[2]>> /\ Safe(y[1], y[2])
        /\ z = <<z[1], z[2]>> /\ Safe(z[1], z[2])
    BY <2>1
  <2>3. Good(f, k, S) /\ Nexts(f, k, S) \subseteq Y
    BY <1>1
  <2> HIDE DEF y, z
  <2>4. \A x \in Y : x = <<x[1], x[2]>> /\ Safe(x[1], x[2])
    BY <2>2
  <2> HIDE DEF Y
  <2> QED
    BY <1>1, <2>3, <2>4, SafeFold
<1>2. IsSeq(<<f>>)
  <2>1. <<>> \in Seq({})
    BY EmptySeq
  <2> QED
    BY <2>1, SeqPush DEF IsSeq
<1> QED
  BY <1>1, <1>2 DEF Runs

LEMMA RunSend ==
  ASSUME NEW r, NEW g, NEW h, NEW m, NEW b, NEW w, NEW c \in Comps, NEW cmd, NEW n,
         c \in b.alive, g[c] = NoCommand, Typed(c, cmd, n),
         h[c] # None => cmd = "PortEnable",
         cmd = "PortDisable" /\ n \notin w.enabled[c] => c \in m
  PROVE  Runs({Sync(r, g, h, m, b, w)}, Send(c, cmd, n),
              {Sync(r, Put(g, c, Command(c, cmd, n)), h, m, b, w)})
<1> DEFINE f == [do |-> "send", c |-> c, cmd |-> cmd, n |-> n]
           S == Sync(r, g, h, m, b, w)
           T == Sync(r, Put(g, c, Command(c, cmd, n)), h, m, b, w)
<1>1. \A k : Good(f, k, S) /\ Nexts(f, k, S) = {<<k, T>>}
  BY DEF Good, GoodSync, Nexts, NextsSync, Sync
<1> QED
  BY <1>1, RunStep DEF Send

LEMMA RunRelate ==
  ASSUME NEW r, NEW g, NEW h, NEW m, NEW b, NEW w, NEW c \in Comps,
         NEW to \in Comps \cup {None}, to # None => g[c].cmd \in {"none", "PortEnable"}
  PROVE  Runs({Sync(r, g, h, m, b, w)}, Relate(c, to), {Sync(r, g, Put(h, c, to), m, b, w)})
<1> DEFINE f == [do |-> "relate", c |-> c, to |-> to]
           S == Sync(r, g, h, m, b, w)
           T == Sync(r, g, Put(h, c, to), m, b, w)
<1>1. \A k : Good(f, k, S) /\ Nexts(f, k, S) = {<<k, T>>}
  BY DEF Good, GoodSync, Nexts, NextsSync, Sync
<1> QED
  BY <1>1, RunStep DEF Relate

LEMMA RunMask ==
  ASSUME NEW r, NEW g, NEW h, NEW m, NEW b, NEW w, NEW c \in Comps, NEW on \in BOOLEAN,
         g[c] = NoCommand
  PROVE  Runs({Sync(r, g, h, m, b, w)}, Mask(c, on),
              {Sync(r, g, h, IF on THEN m \cup {c} ELSE m \ {c}, b, w)})
<1> DEFINE f == [do |-> "mask", c |-> c, on |-> on]
           S == Sync(r, g, h, m, b, w)
           T == Sync(r, g, h, IF on THEN m \cup {c} ELSE m \ {c}, b, w)
<1>1. \A k : Good(f, k, S) /\ Nexts(f, k, S) = {<<k, T>>}
  BY DEF Good, GoodSync, Nexts, NextsSync, Sync
<1> QED
  BY <1>1, RunStep DEF Mask

LEMMA RunMaskOn ==
  ASSUME NEW r, NEW g, NEW h, NEW m, NEW b, NEW w, NEW c \in Comps, g[c] = NoCommand
  PROVE  /\ Runs({Sync(r, g, h, m, b, w)}, Mask(c, TRUE), {Sync(r, g, h, m \cup {c}, b, w)})
         /\ Runs({Sync(r, g, h, m, b, w)}, Mask(c, FALSE), {Sync(r, g, h, m \ {c}, b, w)})
<1>1. /\ Runs({Sync(r, g, h, m, b, w)}, Mask(c, TRUE),
              {Sync(r, g, h, IF TRUE THEN m \cup {c} ELSE m \ {c}, b, w)})
      /\ Runs({Sync(r, g, h, m, b, w)}, Mask(c, FALSE),
              {Sync(r, g, h, IF FALSE THEN m \cup {c} ELSE m \ {c}, b, w)})
  BY RunMask
<1> QED
  BY <1>1

LEMMA RunReturn ==
  ASSUME NEW r, NEW g, NEW h, NEW m, NEW b, NEW w, NEW v \in -5 .. 0
  PROVE  Runs({Sync(r, g, h, m, b, w)}, Return(v), {Sync(v, g, h, m, b, w)})
<1> DEFINE f == [do |-> "return", value |-> v]
           S == Sync(r, g, h, m, b, w)
           T == Sync(v, g, h, m, b, w)
<1>1. \A k : Good(f, k, S) /\ Nexts(f, k, S) = {<<k, T>>}
  BY DEF Good, GoodSync, Nexts, NextsSync, Sync
<1> QED
  BY <1>1, RunStep DEF Return

LEMMA RunInsist ==
  ASSUME NEW r, NEW g, NEW h, NEW m, NEW b, NEW w, r >= 0
  PROVE  Runs({Sync(r, g, h, m, b, w)}, Insist, {Sync(r, g, h, m, b, w)})
<1> DEFINE f == [do |-> "assert"]
           S == Sync(r, g, h, m, b, w)
<1>1. \A k : Good(f, k, S) /\ Nexts(f, k, S) = {<<k, S>>}
  BY DEF Good, GoodSync, Nexts, NextsSync, Sync
<1> QED
  BY <1>1, RunStep DEF Insist

LEMMA RunInsistSpoilt ==
  ASSUME NEW r, NEW g, NEW h, NEW m, NEW b, NEW w, NEW Q, ~ (r >= 0), w.spoiled # {}
  PROVE  Runs({Sync(r, g, h, m, b, w)}, Insist, Q)
<1> DEFINE f == [do |-> "assert"]
           S == Sync(r, g, h, m, b, w)
<1>1. \A k : Good(f, k, S) /\ Nexts(f, k, S) = {}
  BY DEF Good, GoodSync, Nexts, NextsSync, Sync
<1> QED
  BY <1>1, RunStep DEF Insist

LEMMA RunIfReturned ==
  ASSUME NEW S, NEW v, NEW yes, NEW no, NEW Q,
         Runs({S}, IF S.ret = v THEN yes ELSE no, Q), S.doom \in BOOLEAN
  PROVE  Runs({S}, IfReturned(v, yes, no), Q)
<1> DEFINE f == [do |-> "if returned", value |-> v, yes |-> yes, no |-> no]
           q == IF S.ret = v THEN yes ELSE no
<1>1. \A k : Good(f, k, S) /\ Nexts(f, k, S) = {<<q \o k, S>>}
  BY DEF Good, GoodSync, GoodLost, Nexts, NextsSync, NextsLost
<1> HIDE DEF q
<1>2. Runs({S}, q, Q)
  BY DEF q
<1> QED
  BY <1>1, <1>2, RunInto DEF IfReturned

LEMMA RunIfState ==
  ASSUME NEW r, NEW g, NEW h, NEW m, NEW b, NEW w, NEW c \in Comps, NEW s, NEW yes, NEW no,
         NEW Q, g[c].cmd # "StateSet",
         Runs({Sync(r, g, h, m, b, w)}, IF w.state[c] \in s THEN yes ELSE no, Q)
  PROVE  Runs({Sync(r, g, h, m, b, w)}, IfState(c, s, yes, no), Q)
<1> DEFINE f == [do |-> "if state", c |-> c, s |-> s, yes |-> yes, no |-> no]
           q == IF w.state[c] \in s THEN yes ELSE no
           S == Sync(r, g, h, m, b, w)
<1>1. \A k : Good(f, k, S) /\ Nexts(f, k, S) = {<<q \o k, S>>}
  BY DEF Good, GoodSync, Nexts, NextsSync, Sync
<1> HIDE DEF q
<1>2. Runs({S}, q, Q)
  BY DEF q
<1> QED
  BY <1>1, <1>2, RunInto DEF IfState

LEMMA RunIfEnabled ==
  ASSUME NEW r, NEW g, NEW h, NEW m, NEW b, NEW w, NEW c \in Comps, NEW n, NEW yes, NEW no,
         NEW Q, g[c] = NoCommand,
         Runs({Sync(r, g, h, m, b, w)}, IF n \in w.enabled[c] THEN yes ELSE no, Q)
  PROVE  Runs({Sync(r, g, h, m, b, w)}, IfEnabled(c, n, yes, no), Q)
<1> DEFINE f == [do |-> "if enabled", c |-> c, n |-> n, yes |-> yes, no |-> no]
           q == IF n \in w.enabled[c] THEN yes ELSE no
           S == Sync(r, g, h, m, b, w)
<1>1. \A k : Good(f, k, S) /\ Nexts(f, k, S) = {<<q \o k, S>>}
  BY DEF Good, GoodSync, Nexts, NextsSync, Sync
<1> HIDE DEF q
<1>2. Runs({S}, q, Q)
  BY DEF q
<1> QED
  BY <1>1, <1>2, RunInto DEF IfEnabled

LEMMA RunRemove ==
  ASSUME NEW r, NEW g, NEW h, NEW m, NEW b, NEW w, NEW c \in Comps, c \in b.alive,
         g[c] = NoCommand
  PROVE  Runs({Sync(r, g, h, m, b, w)}, RemoveEvent(c, AnyError),
              {Sync(0, g, h, m, b, w), Sync(-1, g, h, m, b, w)})
<1> DEFINE f == [do |-> "remove", c |-> c, wanted |-> AnyError]
           S == Sync(r, g, h, m, b, w)
<1>1. \A k : /\ Good(f, k, S)
             /\ Nexts(f, k, S) = {<<k, Sync(0, g, h, m, b, w)>>, <<k, Sync(-1, g, h, m, b, w)>>}
  BY DEF Good, GoodSync, Nexts, NextsSync, Sync
<1> QED
  BY <1>1, RunStep DEF RemoveEvent

LEMMA RunConfigure ==
  ASSUME NEW r, NEW g, NEW h, NEW m, NEW b, NEW w, NEW c
  PROVE  Runs({Sync(r, g, h, m, b, w)}, Configure(c),
              {Sync(0, g, h, m, b, w), Lost(-1, None, b)})
<1> DEFINE f == [do |-> "configure", c |-> c]
           S == Sync(r, g, h, m, b, w)
<1>1. \A k : /\ Good(f, k, S)
             /\ Nexts(f, k, S) = {<<k, Sync(0, g, h, m, b, w)>>, <<k, Lost(-1, None, b)>>}
  BY DEF Good, GoodSync, Nexts, NextsSync, Sync
<1> QED
  BY <1>1, RunStep DEF Configure

LEMMA RunJoin ==
  ASSUME NEW r, NEW g, NEW h, NEW m, NEW b, NEW w, NEW x, NEW y
  PROVE  Runs({Sync(r, g, h, m, b, w)}, <<[do |-> "join", a |-> x, b |-> y]>>,
              {Sync(0, g, h, m, b, Linked(w, x, y)), Lost(-1, None, b)})
<1> DEFINE f == [do |-> "join", a |-> x, b |-> y]
           S == Sync(r, g, h, m, b, w)
<1>1. \A k : /\ Good(f, k, S)
             /\ Nexts(f, k, S) = {<<k, Sync(0, g, h, m, b, Linked(w, x, y))>>,
                                  <<k, Lost(-1, None, b)>>}
  BY DEF Good, GoodSync, Nexts, NextsSync, Sync
<1> QED
  BY <1>1, RunStep

LEMMA RunOMXInit ==
  ASSUME NEW r, NEW g, NEW h, NEW m, NEW b, NEW w, b.inits < 3
  PROVE  Runs({Sync(r, g, h, m, b, w)}, <<[do |-> "OMX_Init"]>>,
              {Sync(0, g, h, m, Base(b.inits + 1, b.clients, b.alive), w), Lost(-1, None, b)})
<1> DEFINE f == [do |-> "OMX_Init"]
           S == Sync(r, g, h, m, b, w)
<1>1. \A k : /\ Good(f, k, S)
             /\ Nexts(f, k, S) = {<<k, Sync(0, g, h, m, Base(b.inits + 1, b.clients, b.alive), w)>>,
                                  <<k, Lost(-1, None, b)>>}
  BY DEF Good, GoodSync, Nexts, NextsSync, Sync
<1> QED
  BY <1>1, RunStep

LEMMA RunInitClient ==
  ASSUME NEW r, NEW g, NEW h, NEW m, NEW b, NEW w, NEW n \in Clients, n \notin b.clients
  PROVE  Runs({Sync(r, g, h, m, b, w)}, <<[do |-> "init client", k |-> n]>>,
              {Sync(r, g, h, m, Base(b.inits, b.clients \cup {n}, b.alive), w)})
<1> DEFINE f == [do |-> "init client", k |-> n]
           S == Sync(r, g, h, m, b, w)
           T == Sync(r, g, h, m, Base(b.inits, b.clients \cup {n}, b.alive), w)
<1>1. \A k : Good(f, k, S) /\ Nexts(f, k, S) = {<<k, T>>}
  BY DEF Good, GoodSync, Nexts, NextsSync, Sync
<1> QED
  BY <1>1, RunStep

(* A safe continuation makes a pair.                                       *)
LEMMA OneIsSeq == ASSUME NEW f PROVE IsSeq(<<f>>)
<1>1. <<>> \in Seq({})
  BY EmptySeq
<1> QED
  BY <1>1, SeqPush DEF IsSeq

(* Steps that end in a wait for an event: the wait's head may come round.  *)
LEMMA RunWaiting ==
  ASSUME NEW f, NEW S, NEW T, NEW Q,
         \A k : IsSeq(k) =>
           /\ Good(f, k, S) /\ Good(f, k, T)
           /\ Good(Awaits(f), <<f>> \o k, T)
           /\ Nexts(Awaits(f), <<f>> \o k, T) = {<<<<f>> \o k, T>>}
           /\ Nexts(f, k, S) \subseteq
                {<<<<Awaits(f)>> \o (<<f>> \o k), T>>} \cup {<<k, U>> : U \in Q}
           /\ Nexts(f, k, T) \subseteq
                {<<<<Awaits(f)>> \o (<<f>> \o k), T>>} \cup {<<k, U>> : U \in Q}
  PROVE  Runs({S}, <<f>>, Q)
<1>1. ASSUME NEW k, IsSeq(k), \A U \in Q : Safe(k, U)
      PROVE  Safe(<<f>> \o k, S)
  <2> DEFINE p == <<f>> \o k  q == <<Awaits(f)>> \o p
             x == <<p, S>>  y == <<p, T>>  z == <<q, T>>
             X == {x, y, z}
             Y == {<<k, U>> : U \in Q}
  <2>1. IsSeq(p) /\ p # <<>> /\ Head(p) = f /\ Tail(p) = k
    BY <1>1, SeqPush
  <2>2. IsSeq(q) /\ q # <<>> /\ Head(q) = Awaits(f) /\ Tail(q) = p
    BY <2>1, SeqPush
  <2>3. \A u \in Y : u = <<u[1], u[2]>> /\ Safe(u[1], u[2])
    BY <1>1
  <2>4. /\ Good(f, k, S) /\ Good(f, k, T) /\ Good(Awaits(f), p, T)
        /\ Nexts(Awaits(f), p, T) = {y}
        /\ Nexts(f, k, S) \subseteq {z} \cup Y
        /\ Nexts(f, k, T) \subseteq {z} \cup Y
    BY <1>1
  <2>5. x[1] = p /\ x[2] = S /\ y[1] = p /\ y[2] = T /\ z[1] = q /\ z[2] = T
    OBVIOUS
  <2> HIDE DEF p, q, Y, x, y, z
  <2>6. \A u \in X : Good1(u) /\ Nexts1(u) \subseteq X \cup Y
    BY <2>1, <2>2, <2>4, <2>5 DEF Good1, Nexts1
  <2> HIDE DEF X
  <2>7. \A u, V : <<u, V>> \in X => Safe(u, V)
    BY <2>3, <2>6, Coinduction
  <2>8. <<p, S>> \in X
    BY DEF X, x
  <2> QED
    BY <2>7, <2>8 DEF p
<1> QED
  BY <1>1, OneIsSeq DEF Runs

LEMMA RunWaitDual ==
  ASSUME NEW r, NEW g, NEW h, NEW m, NEW b, NEW w, NEW c \in Comps, NEW cmd, NEW n,
         NEW other, c \in b.alive, Typed(c, cmd, n), g[c] = Command(c, cmd, n),
         other # None => /\ other \in Comps /\ other # c /\ h[other] = c
                         /\ g[other].cmd = "PortEnable",
         NEW Q,
         Sync(0, Put(g, c, NoCommand), h, m, b, After(w, g[c])) \in Q,
         IF cmd = "StateSet" /\ other = None
         THEN Sync(-1, Put(g, c, NoCommand), h, m, b, Spoilt(w, c)) \in Q
         ELSE Lost(-1, c, b) \in Q,
         other # None => Lost(-2, None, b) \in Q
  PROVE  Runs({Sync(r, g, h, m, b, w)},
              <<[do |-> "check", c |-> c, cmd |-> cmd, n |-> n, other |-> other]>>, Q)
<1> DEFINE f == [do |-> "check", c |-> c, cmd |-> cmd, n |-> n, other |-> other]
           S == Sync(r, g, h, m, b, w)
<1>1. ASSUME NEW k, IsSeq(k)
      PROVE  /\ Good(f, k, S)
             /\ Good(Awaits(f), <<f>> \o k, S)
             /\ Nexts(Awaits(f), <<f>> \o k, S) = {<<<<f>> \o k, S>>}
             /\ Nexts(f, k, S) \subseteq
                  {<<<<Awaits(f)>> \o (<<f>> \o k), S>>} \cup {<<k, U>> : U \in Q}
  <2>1. Good(f, k, S)
    BY DEF Good, GoodSync, Sync
  <2>2. /\ IsSeq(<<f>> \o k) /\ <<f>> \o k # <<>> /\ Head(<<f>> \o k) = f
        /\ Tail(<<f>> \o k) = k
    BY <1>1, SeqPush
  <2>3. Good(Awaits(f), <<f>> \o k, S)
    <3>1. Awaits(f).do = "suspend" /\ Awaits(f).c = c /\ f.do = "check" /\ f.other = other
      BY DEF Awaits, Asleep
    <3>2. S.related = h /\ ~ S.doom
      BY DEF Sync
    <3> HIDE DEF f, S
    <3>3. Sleeps(Awaits(f), <<f>> \o k)
      BY <2>2, <3>1 DEF Sleeps
    <3> QED
      BY <2>2, <3>1, <3>2, <3>3 DEF Good, GoodSync
  <2>4. Nexts(Awaits(f), <<f>> \o k, S) = {<<<<f>> \o k, S>>}
    BY DEF Nexts, NextsSync, Sync, Awaits, Asleep
  <2>5. Nexts(f, k, S) = {<<<<Awaits(f)>> \o (<<f>> \o k), S>>,
          <<k, Sync(0, Put(g, c, NoCommand), h, m, b, After(w, g[c]))>>,
          IF cmd = "StateSet" /\ other = None
          THEN <<k, Sync(-1, Put(g, c, NoCommand), h, m, b, Spoilt(w, c))>>
          ELSE <<k, Lost(-1, c, b)>>,
          <<k, IF other = None THEN Sync(0, Put(g, c, NoCommand), h, m, b, After(w, g[c]))
               ELSE Lost(-2, None, b)>>}
    BY DEF Nexts, NextsSync, Sync
  <2>6. Nexts(f, k, S) \subseteq
                  {<<<<Awaits(f)>> \o (<<f>> \o k), S>>} \cup {<<k, U>> : U \in Q}
    BY <2>5
  <2> QED
    BY <2>1, <2>3, <2>4, <2>6
<1> QED
  BY <1>1, RunWaiting

LEMMA RunWaitLost ==
  ASSUME NEW r, NEW j, NEW b, NEW c \in Comps, NEW cmd, NEW n,
         c \in b.alive, Typed(c, cmd, n)
  PROVE  Runs({Lost(r, j, b)}, Wait(c, cmd, n), {Lost(0, None, b), Lost(-1, None, b)})
<1> DEFINE f == [do |-> "check", c |-> c, cmd |-> cmd, n |-> n, other |-> None]
           S == Lost(r, j, b)
           T == Lost(r, None, b)
           Q == {Lost(0, None, b), Lost(-1, None, b)}
<1>1. ASSUME NEW k, IsSeq(k)
      PROVE  /\ Good(f, k, S) /\ Good(f, k, T)
             /\ Good(Awaits(f), <<f>> \o k, T)
             /\ Nexts(Awaits(f), <<f>> \o k, T) = {<<<<f>> \o k, T>>}
             /\ Nexts(f, k, S) \subseteq
                  {<<<<Awaits(f)>> \o (<<f>> \o k), T>>} \cup {<<k, U>> : U \in Q}
             /\ Nexts(f, k, T) \subseteq
                  {<<<<Awaits(f)>> \o (<<f>> \o k), T>>} \cup {<<k, U>> : U \in Q}
  <2>1. Good(f, k, S) /\ Good(f, k, T)
    BY DEF Good, GoodLost, Lost
  <2>2. /\ IsSeq(<<f>> \o k) /\ <<f>> \o k # <<>> /\ Head(<<f>> \o k) = f
        /\ Tail(<<f>> \o k) = k
    BY <1>1, SeqPush
  <2>3. Good(Awaits(f), <<f>> \o k, T)
    <3>1. Awaits(f).do = "suspend" /\ Awaits(f).c = c /\ f.do = "check" /\ f.other = None
      BY DEF Awaits, Asleep
    <3>2. T.doom
      BY DEF Lost
    <3> HIDE DEF f, T
    <3>3. Sleeps(Awaits(f), <<f>> \o k)
      BY <2>2, <3>1 DEF Sleeps
    <3> QED
      BY <2>2, <3>1, <3>2, <3>3 DEF Good, GoodLost
  <2>4. Nexts(Awaits(f), <<f>> \o k, T) = {<<<<f>> \o k, T>>}
    BY DEF Nexts, NextsLost, Lost, Awaits, Asleep
  <2>5. /\ Nexts(f, k, S) = {<<<<Awaits(f)>> \o (<<f>> \o k), T>>,
              <<k, Lost(0, None, b)>>, <<k, Lost(-1, None, b)>>}
        /\ Nexts(f, k, T) = {<<<<Awaits(f)>> \o (<<f>> \o k), T>>,
              <<k, Lost(0, None, b)>>, <<k, Lost(-1, None, b)>>}
    BY DEF Nexts, NextsLost, Lost
  <2> QED
    BY <2>1, <2>3, <2>4, <2>5
<1> HIDE DEF f, S, T, Q
<1>2. Runs({S}, <<f>>, Q)
  BY <1>1, RunWaiting
<1> QED
  BY <1>2 DEF f, S, Q, Wait

(* The same when the work is lost already.                                 *)
LEMMA RunSendLost ==
  ASSUME NEW r, NEW j, NEW b, NEW c \in Comps, NEW cmd, NEW n,
         c \in b.alive, Typed(c, cmd, n)
  PROVE  Runs({Lost(r, j, b)}, Send(c, cmd, n), {Lost(r, j, b)})
<1> DEFINE f == [do |-> "send", c |-> c, cmd |-> cmd, n |-> n]  S == Lost(r, j, b)
<1>1. \A k : Good(f, k, S) /\ Nexts(f, k, S) = {<<k, S>>}
  BY DEF Good, GoodLost, Nexts, NextsLost, Lost
<1> QED
  BY <1>1, RunStep DEF Send

LEMMA RunRelateLost ==
  ASSUME NEW r, NEW j, NEW b, NEW c \in Comps
  PROVE  Runs({Lost(r, j, b)}, Relate(c, None), {Lost(r, j, b)})
<1> DEFINE f == [do |-> "relate", c |-> c, to |-> None]  S == Lost(r, j, b)
<1>1. \A k : Good(f, k, S) /\ Nexts(f, k, S) = {<<k, S>>}
  BY DEF Good, GoodLost, Nexts, NextsLost, Lost
<1> QED
  BY <1>1, RunStep DEF Relate

LEMMA RunUnjoin ==
  ASSUME NEW r, NEW j, NEW b, NEW end
  PROVE  Runs({Lost(r, j, b)}, <<[do |-> "unjoin", end |-> end]>>, {Lost(r, j, b)})
<1> DEFINE f == [do |-> "unjoin", end |-> end]  S == Lost(r, j, b)
<1>1. \A k : Good(f, k, S) /\ Nexts(f, k, S) = {<<k, S>>}
  BY DEF Good, GoodLost, Nexts, NextsLost, Lost
<1> QED
  BY <1>1, RunStep

LEMMA RunReturnEvents ==
  ASSUME NEW r, NEW j, NEW b, NEW c \in Comps, c \in b.alive
  PROVE  Runs({Lost(r, j, b)}, <<[do |-> "return events", c |-> c]>>, {Lost(r, j, b)})
<1> DEFINE f == [do |-> "return events", c |-> c]  S == Lost(r, j, b)
<1>1. \A k : Good(f, k, S) /\ Nexts(f, k, S) = {<<k, S>>}
  BY DEF Good, GoodLost, Nexts, NextsLost, Lost
<1> QED
  BY <1>1, RunStep

LEMMA RunFreeHandle ==
  ASSUME NEW r, NEW j, NEW b, NEW c \in Comps, c \in b.alive
  PROVE  Runs({Lost(r, j, b)}, <<[do |-> "free handle", c |-> c]>>,
              {Lost(r, None, Base(b.inits, b.clients, b.alive \ {c}))})
<1> DEFINE f == [do |-> "free handle", c |-> c]  S == Lost(r, j, b)
           T == Lost(r, None, Base(b.inits, b.clients, b.alive \ {c}))
<1>1. \A k : Good(f, k, S) /\ Nexts(f, k, S) = {<<k, T>>}
  BY DEF Good, GoodLost, Nexts, NextsLost, Lost
<1> QED
  BY <1>1, RunStep

LEMMA RunDestroyClient ==
  ASSUME NEW r, NEW j, NEW b, NEW n \in Clients, \A c \in b.alive : Owner(c) # n
  PROVE  Runs({Lost(r, j, b)}, <<[do |-> "destroy client", k |-> n]>>,
              {Lost(r, j, Base(b.inits, b.clients \ {n}, b.alive))})
<1> DEFINE f == [do |-> "destroy client", k |-> n]  S == Lost(r, j, b)
           T == Lost(r, j, Base(b.inits, b.clients \ {n}, b.alive))
<1>1. \A k : Good(f, k, S) /\ Nexts(f, k, S) = {<<k, T>>}
  BY DEF Good, GoodLost, Nexts, NextsLost, Lost
<1> QED
  BY <1>1, RunStep

LEMMA RunOMXDeinit ==
  ASSUME NEW r, NEW j, NEW b, b.inits > 0
  PROVE  Runs({Lost(r, j, b)}, <<[do |-> "OMX_Deinit"]>>,
              {Lost(r, j, Base(b.inits - 1, b.clients, b.alive))})
<1> DEFINE f == [do |-> "OMX_Deinit"]  S == Lost(r, j, b)
           T == Lost(r, j, Base(b.inits - 1, b.clients, b.alive))
<1>1. \A k : Good(f, k, S) /\ Nexts(f, k, S) = {<<k, T>>}
  BY DEF Good, GoodLost, Nexts, NextsLost, Lost
<1> QED
  BY <1>1, RunStep

LEMMA RunReturnLost ==
  ASSUME NEW r, NEW j, NEW b, NEW v \in -5 .. 0
  PROVE  Runs({Lost(r, j, b)}, Return(v), {Lost(v, j, b)})
<1> DEFINE f == [do |-> "return", value |-> v]  S == Lost(r, j, b)  T == Lost(v, j, b)
<1>1. \A k : Good(f, k, S) /\ Nexts(f, k, S) = {<<k, T>>}
  BY DEF Good, GoodLost, Nexts, NextsLost, Lost
<1> QED
  BY <1>1, RunStep DEF Return

LEMMA RunInsistLost ==
  ASSUME NEW r, NEW j, NEW b
  PROVE  Runs({Lost(r, j, b)}, Insist, {S \in {Lost(r, j, b)} : r >= 0})
<1> DEFINE f == [do |-> "assert"]  S == Lost(r, j, b)
<1>1. \A k : Good(f, k, S) /\ Nexts(f, k, S) = {x \in {<<k, S>>} : r >= 0}
  BY DEF Good, GoodLost, Nexts, NextsLost, Lost
<1> QED
  BY <1>1, RunStep DEF Insist

LEMMA RunRemoveLost ==
  ASSUME NEW r, NEW j, NEW b, NEW c \in Comps, c \in b.alive, NEW wanted
  PROVE  Runs({Lost(r, j, b)}, RemoveEvent(c, wanted), {Lost(0, None, b), Lost(-1, j, b)})
<1> DEFINE f == [do |-> "remove", c |-> c, wanted |-> wanted]  S == Lost(r, j, b)
<1>1. \A k : Good(f, k, S) /\ Nexts(f, k, S) = {<<k, Lost(0, None, b)>>, <<k, Lost(-1, j, b)>>}
  BY DEF Good, GoodLost, Nexts, NextsLost, Lost
<1> QED
  BY <1>1, RunStep DEF RemoveEvent

LEMMA RunIfEnabledLost ==
  ASSUME NEW r, NEW j, NEW b, NEW c, NEW n, NEW yes, NEW no, NEW Q,
         Runs({Lost(r, j, b)}, yes, Q), Runs({Lost(r, j, b)}, no, Q)
  PROVE  Runs({Lost(r, j, b)}, IfEnabled(c, n, yes, no), Q)
<1> DEFINE f == [do |-> "if enabled", c |-> c, n |-> n, yes |-> yes, no |-> no]
           S == Lost(r, j, b)
<1>1. \A k : Good(f, k, S) /\ Nexts(f, k, S) = {<<yes \o k, S>>, <<no \o k, S>>}
  BY DEF Good, GoodLost, Nexts, NextsLost, Lost
<1> HIDE DEF f, S
<1>2. Runs({S}, <<f>>, Q)
  BY <1>1, RunIntoEither DEF S
<1> QED
  BY <1>2 DEF IfEnabled, f, S

LEMMA RunQueueLost ==
  ASSUME NEW r, NEW b, NEW c \in Comps, NEW n, NEW list \in Seq(Nat), Len(list) < NumBuffers
  PROVE  Runs({Lost(r, c, b)}, <<[do |-> "queue", c |-> c, n |-> n, list |-> list]>>,
              {Lost(-1, c, b)})
<1> DEFINE f == [do |-> "queue", c |-> c, n |-> n, list |-> list]  S == Lost(r, c, b)
           T == Lost(-1, c, b)
<1>1. \A k : Good(f, k, S) /\ Nexts(f, k, S) = {<<k, T>>}
  BY DEF Good, GoodLost, Nexts, NextsLost, Lost
<1> QED
  BY <1>1, RunStep

(* A wait for an event: it may come round any number of times.             *)
LEMMA RunLooking ==
  ASSUME NEW f, NEW S, NEW T, NEW Q, f.do = "look",
         S.doom = T.doom, T.doom \in BOOLEAN, NEW b, T.base = b,
         Lost(-1, None, b) \in Q, Lost(-2, None, b) \in Q,
         \A k : /\ Good(f, k, S) /\ Good(f, k, T)
                /\ Nexts(f, k, S) \subseteq
                     {<<<<LookError(f)>> \o (<<f>> \o k), T>>} \cup {<<k, U>> : U \in Q}
                /\ Nexts(f, k, T) \subseteq
                     {<<<<LookError(f)>> \o (<<f>> \o k), T>>} \cup {<<k, U>> : U \in Q}
  PROVE  Runs({S}, <<f>>, Q)
<1>1. ASSUME NEW k, IsSeq(k), \A U \in Q : Safe(k, U)
      PROVE  Safe(<<f>> \o k, S)
  <2> DEFINE p1 == <<f>> \o k  p2 == <<LookError(f)>> \o p1
             p3 == <<Woken(f)>> \o p1  p4 == <<LooksFor(f)>> \o p3
             x0 == <<p1, S>>
             x1 == <<p1, T>>  x2 == <<p2, T>>  x3 == <<p3, T>>  x4 == <<p4, T>>
             X == {x0, x1, x2, x3, x4}
             Y == {<<k, U>> : U \in Q}
  <2>1. IsSeq(p1) /\ p1 # <<>> /\ Head(p1) = f /\ Tail(p1) = k
    BY <1>1, SeqPush
  <2>2. IsSeq(p2) /\ p2 # <<>> /\ Head(p2) = LookError(f) /\ Tail(p2) = p1
    BY <2>1, SeqPush
  <2>3. IsSeq(p3) /\ p3 # <<>> /\ Head(p3) = Woken(f) /\ Tail(p3) = p1
    BY <2>1, SeqPush
  <2>4. IsSeq(p4) /\ p4 # <<>> /\ Head(p4) = LooksFor(f) /\ Tail(p4) = p3
    BY <2>3, SeqPush
  <2>5. \A u \in Y : u = <<u[1], u[2]>> /\ Safe(u[1], u[2])
    BY <1>1
  <2>6. /\ x0[1] = p1 /\ x0[2] = S /\ x1[1] = p1 /\ x1[2] = T /\ x2[1] = p2 /\ x2[2] = T
        /\ x3[1] = p3 /\ x3[2] = T /\ x4[1] = p4 /\ x4[2] = T
    OBVIOUS
  <2>7. /\ Good(f, k, S) /\ Good(f, k, T)
        /\ Nexts(f, k, S) \subseteq {x2} \cup Y /\ Nexts(f, k, T) \subseteq {x2} \cup Y
    BY <1>1
  <2>8. /\ LookError(f).do = "look for error" /\ Woken(f).do = "woken"
        /\ LooksFor(f).do = "suspend"
    BY DEF LookError, Woken, LooksFor, Asleep
  <2>9. <<k, Lost(-1, None, b)>> \in Y /\ <<k, Lost(-2, None, b)>> \in Y
    OBVIOUS
  <2> HIDE DEF p1, p2, p3, p4, Y
  <2>10. Good(LookError(f), p1, T) /\ Nexts(LookError(f), p1, T) \subseteq {x4} \cup Y
    <3>1. Good(LookError(f), p1, T)
      BY <2>1, <2>8 DEF Good, GoodLost, GoodSync
    <3>2. CASE T.doom
      <4>1. Nexts(LookError(f), p1, T) = {<<k, Lost(-2, None, b)>>, <<p4, T>>}
        BY <2>1, <2>8, <3>2 DEF Nexts, NextsLost, p3, p4
      <4> QED
        BY <3>1, <4>1, <2>9
    <3>3. CASE ~ T.doom
      <4>1. Nexts(LookError(f), p1, T) = {<<p4, T>>}
        BY <2>1, <2>8, <3>3 DEF Nexts, NextsSync, p3, p4
      <4> QED
        BY <3>1, <4>1
    <3> QED
      BY <3>2, <3>3
  <2>11. Good(Woken(f), p1, T) /\ Nexts(Woken(f), p1, T) \subseteq {x1} \cup Y
    <3>1. Good(Woken(f), p1, T)
      BY <2>1, <2>8 DEF Good, GoodLost, GoodSync
    <3>2. Nexts(Woken(f), p1, T)
            = {<<p1, T>>, <<k, Lost(-1, None, b)>>, <<k, Lost(-2, None, b)>>}
      BY <2>1, <2>8 DEF Nexts, NextsLost, NextsSync
    <3> QED
      BY <3>1, <3>2, <2>9
  <2>12. Good(LooksFor(f), p3, T) /\ Nexts(LooksFor(f), p3, T) \subseteq {x3}
    <3>1. Sleeps(LooksFor(f), p3) /\ Head(p3).do # "check"
      BY <2>1, <2>3, <2>8 DEF Sleeps
    <3>2. Good(LooksFor(f), p3, T)
      BY <2>3, <2>8, <3>1 DEF Good, GoodLost, GoodSync
    <3>3. Nexts(LooksFor(f), p3, T) = {<<p3, T>>}
      BY <2>8 DEF Nexts, NextsLost, NextsSync
    <3> QED
      BY <3>2, <3>3
  <2> HIDE DEF x0, x1, x2, x3, x4
  <2>13. \A u \in X : Good1(u) /\ Nexts1(u) \subseteq X \cup Y
    BY <2>1, <2>2, <2>3, <2>4, <2>6, <2>7, <2>10, <2>11, <2>12 DEF Good1, Nexts1
  <2> HIDE DEF X
  <2>14. \A u, V : <<u, V>> \in X => Safe(u, V)
    BY <2>5, <2>13, Coinduction
  <2>15. <<p1, S>> \in X
    BY DEF X, x0
  <2> QED
    BY <2>14, <2>15 DEF p1
<1> QED
  BY <1>1, OneIsSeq DEF Runs

LEMMA RunLookLost ==
  ASSUME NEW r, NEW j, NEW b, NEW c \in Comps, c \in b.alive, NEW wanted, NEW flag,
         NEW timeout,
         \A x \in wanted : x.e \in {"CmdComplete", "PortSettingsChanged"} /\ FlagOf(x) = flag
  PROVE  Runs({Lost(r, j, b)}, WaitForEvent(c, wanted, flag, timeout),
              {Lost(0, None, b), Lost(-1, None, b), Lost(-2, None, b)})
<1> DEFINE f == [do |-> "look", c |-> c, wanted |-> wanted, flag |-> flag, timeout |-> timeout]
           S == Lost(r, j, b)  T == Lost(r, None, b)
           Q == {Lost(0, None, b), Lost(-1, None, b), Lost(-2, None, b)}
<1>1. \A k : Good(f, k, S) /\ Good(f, k, T)
  BY DEF Good, GoodLost, Lost, Wants
<1>2. \A k : /\ Nexts(f, k, S) = {<<k, Lost(0, None, b)>>, <<<<LookError(f)>> \o (<<f>> \o k), T>>}
             /\ Nexts(f, k, T) = {<<k, Lost(0, None, b)>>, <<<<LookError(f)>> \o (<<f>> \o k), T>>}
  BY DEF Nexts, NextsLost, Lost
<1>3. S.doom = T.doom /\ T.doom \in BOOLEAN /\ T.base = b /\ f.do = "look"
  BY DEF Lost
<1> HIDE DEF f, S, T
<1>4. \A k : /\ Nexts(f, k, S) \subseteq
                     {<<<<LookError(f)>> \o (<<f>> \o k), T>>} \cup {<<k, U>> : U \in Q}
             /\ Nexts(f, k, T) \subseteq
                     {<<<<LookError(f)>> \o (<<f>> \o k), T>>} \cup {<<k, U>> : U \in Q}
  BY <1>2
<1>5. Lost(-1, None, b) \in Q /\ Lost(-2, None, b) \in Q
  OBVIOUS
<1> HIDE DEF Q
<1>6. Runs({S}, <<f>>, Q)
  BY <1>1, <1>3, <1>4, <1>5, RunLooking
<1> QED
  BY <1>6 DEF f, S, Q, WaitForEvent

LEMMA RunLook ==
  ASSUME NEW r, NEW g, NEW h, NEW m, NEW b, NEW w, video_scheduler \in Comps,
         video_scheduler \in b.alive, g[video_scheduler] = NoCommand, NEW timeout
  PROVE  Runs({Sync(r, g, h, m, b, w)},
              WaitForEvent(video_scheduler, SettingsChanged(11), "PARAMETER_CHANGED", timeout),
              {Sync(0, g, h, m, b, w), Lost(-1, None, b), Lost(-2, None, b)})
<1> DEFINE f == [do |-> "look", c |-> video_scheduler, wanted |-> SettingsChanged(11),
                 flag |-> "PARAMETER_CHANGED", timeout |-> timeout]
           S == Sync(r, g, h, m, b, w)
           Q == {Sync(0, g, h, m, b, w), Lost(-1, None, b), Lost(-2, None, b)}
<1>1. \A x \in SettingsChanged(11) :
        x.e \in {"CmdComplete", "PortSettingsChanged"} /\ FlagOf(x) = "PARAMETER_CHANGED"
  <2> SUFFICES ASSUME NEW x \in SettingsChanged(11)
               PROVE  x.e = "PortSettingsChanged" /\ FlagOf(x) = "PARAMETER_CHANGED"
    OBVIOUS
  <2>0. x = Event("PortSettingsChanged", "", 11)
    BY DEF SettingsChanged
  <2>1. x.e = "PortSettingsChanged"
    BY <2>0 DEF Event
  <2> QED
    BY <2>1 DEF FlagOf
<1>2. \A k : Good(f, k, S)
  BY <1>1 DEF Good, GoodSync, Sync, Wants
<1>3. \A k : Nexts(f, k, S) = {<<k, Sync(0, g, h, m, b, w)>>, <<<<LookError(f)>> \o (<<f>> \o k), S>>}
  BY DEF Nexts, NextsSync, Sync
<1>4. S.doom \in BOOLEAN /\ S.base = b /\ f.do = "look"
  BY DEF Sync
<1> HIDE DEF f, S
<1>5. \A k : Nexts(f, k, S) \subseteq
                     {<<<<LookError(f)>> \o (<<f>> \o k), S>>} \cup {<<k, U>> : U \in Q}
  BY <1>3
<1>6. Lost(-1, None, b) \in Q /\ Lost(-2, None, b) \in Q
  OBVIOUS
<1> HIDE DEF Q
<1>7. Runs({S}, <<f>>, Q)
  BY <1>2, <1>4, <1>5, <1>6, RunLooking
<1> QED
  BY <1>7 DEF f, S, Q, WaitForEvent

Supplied(w, c, n) ==
  World(w.seen, w.hand, w.state, w.enabled, w.tunnels, Put(w.supplied, c, n), w.spoiled)
Supply(c, n, list) == [do |-> "supply", c |-> c, n |-> n, list |-> list]
Queue(c, n, list) == [do |-> "queue", c |-> c, n |-> n, list |-> list]

LEMMA RunQueue ==
  ASSUME NEW r, NEW g, NEW h, NEW m, NEW b, NEW w, NEW c \in Comps, NEW n \in ToSet(PortsOf(c)),
         c \in b.alive, g[c] = Command(c, "PortEnable", n),
         NEW list \in Seq(Nat), Len(list) = NumBuffers
  PROVE  Runs({Sync(r, g, h, m, b, w)}, <<Queue(c, n, list)>>,
              {Sync(0, Put(g, c, NoCommand), h, m, b, After(w, g[c])), Lost(-1, c, b)})
<1> DEFINE f == Queue(c, n, list)  S == Sync(r, g, h, m, b, w)
           Q == {Sync(0, Put(g, c, NoCommand), h, m, b, After(w, g[c])), Lost(-1, c, b)}
<1>1. \A k : Good(f, k, S) /\ Nexts(f, k, S) = {<<Wait(c, "PortEnable", n) \o k, S>>}
  BY DEF Good, GoodSync, Nexts, NextsSync, Sync, Queue
<1>2. Runs({S}, Wait(c, "PortEnable", n), Q)
  <2>1. Typed(c, "PortEnable", n)
    BY DEF Typed
  <2> QED
    BY <2>1, RunWaitDual DEF Wait
<1> HIDE DEF f, S, Q
<1>3. Runs({S}, <<f>>, Q)
  BY <1>1, <1>2, RunInto
<1> QED
  BY <1>3 DEF f, S, Q

LEMMA RunSupply ==
  ASSUME NEW r, NEW g, NEW h, NEW m, NEW b, NEW w, NEW c \in Comps,
         NEW n \in ToSet(PortsOf(c)) \cap Fed,
         c \in b.alive, g[c] = Command(c, "PortEnable", n), w.supplied[c] = 0
  PROVE  Runs({Sync(r, g, h, m, b, w)}, <<Supply(c, n, <<>>)>>,
              {Sync(0, Put(g, c, NoCommand), h, m, b,
                    After(Supplied(w, c, NumBuffers), g[c])), Lost(-1, c, b)})
<1> DEFINE S(i) == IF i = 0 THEN Sync(r, g, h, m, b, w)
                   ELSE Sync(r, g, h, m, b, Supplied(w, c, i))
           Q == {Sync(0, Put(g, c, NoCommand), h, m, b,
                      After(Supplied(w, c, NumBuffers), g[c])), Lost(-1, c, b)}
           L == {list \in Seq(Nat) : Len(list) < NumBuffers}
<1>0. NumBuffers \in Nat /\ NumBuffers # 0 /\ <<>> \in Seq(Nat) /\ Len(<<>>) = 0
  BY CoreAssumption, EmptySeq
<1>1. ASSUME NEW k, IsSeq(k), \A U \in Q : Safe(k, U)
      PROVE  Safe(<<Supply(c, n, <<>>)>> \o k, S(0))
  <2> DEFINE p(list) == <<Supply(c, n, list)>> \o k
             q(list) == <<Queue(c, n, list)>> \o k
             x(list) == <<p(list), S(Len(list))>>
             X == {x(list) : list \in L}
             Y == {<<q(list), S(NumBuffers)>> : list \in {v \in Seq(Nat) : Len(v) = NumBuffers}}
                  \cup {<<q(list), Lost(r, c, b)>> : list \in L}
  <2>1. ASSUME NEW list \in Seq(Nat), Len(list) = NumBuffers
        PROVE  Safe(q(list), S(NumBuffers))
    <3>1. Runs({S(NumBuffers)}, <<Queue(c, n, list)>>, Q)
      BY <1>0, <2>1, RunQueue
    <3> QED
      BY <1>1, <3>1 DEF Runs
  <2>2. ASSUME NEW list \in L
        PROVE  Safe(q(list), Lost(r, c, b))
    <3>1. Runs({Lost(r, c, b)}, <<Queue(c, n, list)>>, {Lost(-1, c, b)})
      BY RunQueueLost DEF Queue
    <3> QED
      BY <1>1, <3>1 DEF Runs
  <2>3. ASSUME NEW y \in Y PROVE y = <<y[1], y[2]>> /\ Safe(y[1], y[2])
    <3>1. CASE \E list \in {v \in Seq(Nat) : Len(v) = NumBuffers} : y = <<q(list), S(NumBuffers)>>
      BY <2>1, <3>1
    <3>2. CASE \E list \in L : y = <<q(list), Lost(r, c, b)>>
      BY <2>2, <3>2
    <3> QED
      BY <3>1, <3>2
  <2>4. ASSUME NEW list \in L
        PROVE  /\ Good(Supply(c, n, list), k, S(Len(list)))
               /\ Nexts(Supply(c, n, list), k, S(Len(list))) \subseteq X \cup Y
    <3> DEFINE f == Supply(c, n, list)  i == Len(list)  T == S(i)  more == Full(list)
    <3>1. i \in Nat /\ i < NumBuffers /\ more \in Seq(Nat) /\ Len(more) = i + 1
      BY LenProperties, AppendProperties DEF Full
    <3>2. /\ ~ T.doom /\ T.ret = r /\ T.sent = g /\ T.related = h /\ T.masked = m /\ T.base = b
          /\ T.world.supplied[c] = i
      BY <3>1 DEF Sync, Supplied, World, Put
    <3>3. Sync(T.ret, T.sent, T.related, T.masked, T.base, Given(T.world, c)) = S(i + 1)
      <4>1. Given(T.world, c) = Supplied(w, c, i + 1)
        <5>1. CASE i = 0
          <6>1. T.world = w
            BY <5>1 DEF Sync
          <6> QED
            BY <5>1, <6>1 DEF Given, Supplied, World
        <5>2. CASE i # 0
          <6>1. T.world = Supplied(w, c, i)
            BY <5>2 DEF Sync
          <6>2. Put(Put(w.supplied, c, i), c, i + 1) = Put(w.supplied, c, i + 1)
            BY DEF Put
          <6>3. Put(w.supplied, c, i)[c] = i
            BY DEF Put
          <6> QED
            BY <6>1, <6>2, <6>3 DEF Given, Supplied, World
        <5> QED
          BY <5>1, <5>2
      <4> QED
        BY <3>1, <3>2, <4>1
    <3> HIDE DEF T, S
    <3>4. Good(f, k, T)
      BY <3>1, <3>2 DEF Good, GoodSync, Supply
    <3>5. Nexts(f, k, T) = {<<<<Filled(f)>> \o k, S(i + 1)>>,
                            <<<<[f EXCEPT !.do = "queue"]>> \o k, Lost(r, c, b)>>}
      BY <3>2, <3>3 DEF Nexts, NextsSync, Supply
    <3>6. [f EXCEPT !.do = "queue"] = Queue(c, n, list)
      BY DEF Supply, Queue
    <3>7. Filled(f) = IF i + 1 = NumBuffers THEN Queue(c, n, more) ELSE Supply(c, n, more)
      <4>1. f.list = list /\ Full(f.list) = more
        BY DEF Supply
      <4>2. [Queue(c, n, list) EXCEPT !.list = more] = Queue(c, n, more)
        BY DEF Queue
      <4>3. [f EXCEPT !.list = more] = Supply(c, n, more)
        BY DEF Supply
      <4> HIDE DEF more, f
      <4> QED
        BY <3>1, <3>6, <4>1, <4>2, <4>3 DEF Filled
    <3>8. <<<<[f EXCEPT !.do = "queue"]>> \o k, Lost(r, c, b)>> \in Y
      BY <3>6
    <3>9. <<<<Filled(f)>> \o k, S(i + 1)>> \in X \cup Y
      <4>1. CASE i + 1 = NumBuffers
        BY <3>1, <3>7, <4>1
      <4>2. CASE i + 1 # NumBuffers
        <5>1. more \in L
          BY <1>0, <3>1, <4>2
        <5> QED
          BY <3>1, <3>7, <4>2, <5>1
      <4> QED
        BY <4>1, <4>2
    <3> HIDE DEF f, X, Y
    <3> QED
      BY <3>4, <3>5, <3>8, <3>9 DEF f, T
  <2>5. ASSUME NEW u \in X PROVE Good1(u) /\ Nexts1(u) \subseteq X \cup Y
    <3>1. PICK list \in L : u = x(list)
      OBVIOUS
    <3>2. u[1] = p(list) /\ u[2] = S(Len(list))
      BY <3>1
    <3>3. IsSeq(p(list)) /\ p(list) # <<>> /\ Head(p(list)) = Supply(c, n, list) /\ Tail(p(list)) = k
      BY <1>1, SeqPush
    <3> HIDE DEF p, S, X, Y
    <3> QED
      BY <2>4, <3>2, <3>3 DEF Good1, Nexts1
  <2>6. <<>> \in L
    BY <1>0
  <2>8. x(<<>>) \in X
    <3> HIDE DEF x
    <3> QED
      BY <2>6
  <2> HIDE DEF X, Y, L
  <2>7. \A u, V : <<u, V>> \in X => Safe(u, V)
    BY <2>3, <2>5, Coinduction
  <2> QED
    BY <1>0, <2>7, <2>8
<1> QED
  BY <1>1, OneIsSeq DEF Runs

Drain(c, n, num) == [do |-> "drain", c |-> c, n |-> n, num |-> num]

LEMMA OnePair ==
  ASSUME NEW p, NEW S, IsSeq(p), p # <<>>, Good(Head(p), Tail(p), S)
  PROVE  Good1(<<p, S>>) /\ Nexts1(<<p, S>>) = Nexts(Head(p), Tail(p), S)
<1> DEFINE x == <<p, S>>
<1>1. x[1] = p /\ x[2] = S
  OBVIOUS
<1> HIDE DEF x
<1>2. Good1(x) /\ Nexts1(x) = Nexts(Head(p), Tail(p), S)
  BY <1>1 DEF Good1, Nexts1
<1> QED
  BY <1>2 DEF x

(* The drain of a port: it may come round any number of times.             *)
LEMMA RunDrain ==
  ASSUME NEW r, NEW b, NEW c \in Comps, NEW n \in ToSet(PortsOf(c)), c \in b.alive,
         NEW num0 \in Int
  PROVE  Runs({Lost(r, c, b)}, <<Drain(c, n, num0)>>, {Lost(0, None, b)})
<1>1. ASSUME NEW k, IsSeq(k), Safe(k, Lost(0, None, b))
      PROVE  Safe(<<Drain(c, n, num0)>> \o k, Lost(r, c, b))
  <2> DEFINE S == Lost(r, c, b)
             T == Lost(-1, c, b)
             again(num)    == <<Drain(c, n, num)>>
             takePort      == [do |-> "remove", c |-> c, wanted |-> Complete("PortDisable", n)]
             takeError     == [do |-> "remove", c |-> c, wanted |-> CommandError]
             ifPort(num)   == [do |-> "if returned", value |-> 0, yes |-> <<>>, no |-> again(num)]
             gotPort(num)  == [do |-> "if got", flag |-> "PORT_DISABLED",
                               yes |-> <<takePort>> \o <<ifPort(num)>>, no |-> again(num)]
             ifError(num)  == [do |-> "if returned", value |-> 0, yes |-> <<>>,
                               no |-> <<gotPort(num)>>]
             gotError(num) == [do |-> "if got", flag |-> "ERROR",
                               yes |-> <<takeError>> \o <<ifError(num)>>, no |-> <<gotPort(num)>>]
             sleep         == Asleep(c, DrainMask, FALSE)
             p1(num) == <<Drain(c, n, num)>> \o k
             p2(num) == <<sleep>> \o (<<gotError(num)>> \o k)
             p3(num) == <<gotError(num)>> \o k
             p4(num) == <<takeError>> \o (<<ifError(num)>> \o k)
             p5(num) == <<ifError(num)>> \o k
             p6(num) == <<gotPort(num)>> \o k
             p7(num) == <<takePort>> \o (<<ifPort(num)>> \o k)
             p8(num) == <<ifPort(num)>> \o k
             O == Lost(0, None, b)
             V == {S, T}
             W == {O, T}
             X1 == {<<p1(num), U>> : num \in Int, U \in V}
             X2 == {<<p2(num), U>> : num \in Int, U \in V}
             X3 == {<<p3(num), U>> : num \in Int, U \in V}
             X4 == {<<p4(num), U>> : num \in Int, U \in V}
             X5 == {<<p5(num), U>> : num \in Int, U \in W}
             X6 == {<<p6(num), U>> : num \in Int, U \in V}
             X7 == {<<p7(num), U>> : num \in Int, U \in V}
             X8 == {<<p8(num), U>> : num \in Int, U \in W}
             X == X1 \cup X2 \cup X3 \cup X4 \cup X5 \cup X6 \cup X7 \cup X8
             q == (Wait(c, "PortDisable", n) \o Insist) \o k
             Y == {<<k, O>>} \cup {<<q, U>> : U \in V}
  <2>1. /\ S.doom /\ S.base = b /\ S.told = c /\ T.doom /\ T.base = b /\ T.told = c /\ T.ret = -1
        /\ O.doom /\ O.ret = 0 /\ O.base = b
    BY DEF Lost
  <2>2. \A U \in V : Safe(q, U)
    <3>1. ASSUME NEW v PROVE Runs({Lost(v, c, b)}, Wait(c, "PortDisable", n) \o Insist, {O})
      <4>1. Typed(c, "PortDisable", n)
        BY DEF Typed
      <4>2. Runs({Lost(v, c, b)}, Wait(c, "PortDisable", n), {Lost(0, None, b), Lost(-1, None, b)})
        BY <4>1, RunWaitLost
      <4>3. Runs({Lost(0, None, b)}, Insist, {O}) /\ Runs({Lost(-1, None, b)}, Insist, {O})
        <5>1. /\ Runs({Lost(0, None, b)}, Insist, {U \in {Lost(0, None, b)} : 0 >= 0})
              /\ Runs({Lost(-1, None, b)}, Insist, {U \in {Lost(-1, None, b)} : -1 >= 0})
          BY RunInsistLost
        <5>2. /\ {U \in {Lost(0, None, b)} : 0 >= 0} \subseteq {O}
              /\ {U \in {Lost(-1, None, b)} : -1 >= 0} \subseteq {O}
          OBVIOUS
        <5> HIDE DEF O
        <5> QED
          BY <5>1, <5>2, RunWeaken
      <4>4. Runs({Lost(0, None, b)} \cup {Lost(-1, None, b)}, Insist, {O})
        BY <4>3, RunBoth
      <4>5. {Lost(0, None, b)} \cup {Lost(-1, None, b)} = {Lost(0, None, b), Lost(-1, None, b)}
        OBVIOUS
      <4> QED
        BY <4>2, <4>4, <4>5, RunSeq
    <3>2. ASSUME NEW v PROVE Safe(q, Lost(v, c, b))
      BY <1>1, <3>1 DEF Runs
    <3> QED
      BY <3>2
  <2>3. \A y \in Y : y = <<y[1], y[2]>> /\ Safe(y[1], y[2])
    <3> HIDE DEF q, O, V
    <3>1. Safe(k, O)
      BY <1>1 DEF O
    <3> QED
      BY <2>2, <3>1
  <2> HIDE DEF q, S, T, O
  <2>4. IsSeq(<<>>) /\ <<>> \o k = k
    <3>1. <<>> \in Seq({})
      BY EmptySeq
    <3> QED
      BY <1>1, <3>1, SeqNothing DEF IsSeq
  <2>5. \A f, g : (<<f>> \o <<g>>) \o k = <<f>> \o (<<g>> \o k)
    <3> SUFFICES ASSUME NEW f, NEW g PROVE (<<f>> \o <<g>>) \o k = <<f>> \o (<<g>> \o k)
      OBVIOUS
    <3>1. IsSeq(<<f>>) /\ IsSeq(<<g>>)
      BY OneIsSeq
    <3> QED
      BY <1>1, <3>1, SeqAssociates
  <2>6. \A f, u : IsSeq(u) => /\ IsSeq(<<f>> \o u) /\ <<f>> \o u # <<>>
                              /\ Head(<<f>> \o u) = f /\ Tail(<<f>> \o u) = u
    BY SeqPush
  <2>7. ASSUME NEW num \in Int, NEW U \in V
        PROVE  /\ Good(Drain(c, n, num), k, U)
               /\ Nexts(Drain(c, n, num), k, U) \subseteq X \cup Y
    <3>1. U.doom /\ U.base = b /\ U.told = c
      BY <2>1
    <3>2. Good(Drain(c, n, num), k, U)
      BY <3>1 DEF Good, GoodLost, Drain
    <3>3. \A v : DrainWoken(Drain(c, n, num), v) = <<gotError(v)>>
      <4>1. \A v : Again(Drain(c, n, num), v) = again(v)
        BY DEF Again, Drain
      <4>2. \A v : Answered(Drain(c, n, num), v) = <<gotPort(v)>>
        <5> HIDE DEF again
        <5> QED
          BY <4>1 DEF Answered, IfGot, RemoveEvent, IfReturned, Drain
      <4> HIDE DEF gotPort
      <4> QED
        BY <4>2 DEF DrainWoken, IfGot, RemoveEvent, IfReturned, Drain
    <3>4. Nexts(Drain(c, n, num), k, U)
            = {<<<<sleep>> \o (DrainWoken(Drain(c, n, num), v) \o k), U>> : v \in Int} \cup {<<q, U>>}
      BY <3>1 DEF Nexts, NextsLost, Drain, q
    <3>5. Nexts(Drain(c, n, num), k, U) = {<<p2(v), U>> : v \in Int} \cup {<<q, U>>}
      <4> HIDE DEF gotError, sleep
      <4> QED
        BY <3>3, <3>4
    <3>6. \A v \in Int : <<p2(v), U>> \in X2
      <4> HIDE DEF p2, V
      <4> QED
        OBVIOUS
    <3>7. <<q, U>> \in Y
      <4> HIDE DEF V
      <4> QED
        OBVIOUS
    <3> HIDE DEF p2, X1, X2, X3, X4, X5, X6, X7, X8, Y
    <3> QED
      BY <3>2, <3>5, <3>6, <3>7
  <2>8. ASSUME NEW num \in Int, NEW U \in V
        PROVE  /\ Good(sleep, p3(num), U) /\ Nexts(sleep, p3(num), U) = {<<p3(num), U>>}
               /\ Good(gotError(num), k, U)
               /\ Nexts(gotError(num), k, U) = {<<p4(num), U>>, <<p6(num), U>>}
               /\ Good(takeError, <<ifError(num)>> \o k, U)
               /\ Nexts(takeError, <<ifError(num)>> \o k, U) = {<<p5(num), O>>, <<p5(num), T>>}
               /\ Good(gotPort(num), k, U)
               /\ Nexts(gotPort(num), k, U) = {<<p7(num), U>>, <<p1(num), U>>}
               /\ Good(takePort, <<ifPort(num)>> \o k, U)
               /\ Nexts(takePort, <<ifPort(num)>> \o k, U) = {<<p8(num), O>>, <<p8(num), T>>}
    <3>1. U.doom /\ U.base = b /\ U.told = c
      BY <2>1
    <3>2. Good(sleep, p3(num), U) /\ Nexts(sleep, p3(num), U) = {<<p3(num), U>>}
      <4>1. IsSeq(p3(num)) /\ p3(num) # <<>> /\ Head(p3(num)) = gotError(num)
        BY <1>1, <2>6
      <4>2. gotError(num).do = "if got" /\ gotError(num).flag = "ERROR"
        OBVIOUS
      <4>3. sleep.do = "suspend" /\ sleep.c = c
        BY DEF Asleep
      <4> HIDE DEF p3, gotError
      <4> QED
        BY <3>1, <4>1, <4>2, <4>3 DEF Good, GoodLost, Nexts, NextsLost
    <3>3. /\ Good(gotError(num), k, U)
          /\ Nexts(gotError(num), k, U) = {<<p4(num), U>>, <<p6(num), U>>}
      <4>1. IsSeq(<<ifError(num)>>)
        BY OneIsSeq
      <4>2. Good(gotError(num), k, U)
        <5>1. /\ gotError(num).do = "if got"
              /\ gotError(num).yes = RemoveEvent(U.told, CommandError) \o <<ifError(num)>>
          BY <3>1 DEF RemoveEvent
        <5> HIDE DEF gotError
        <5> QED
          BY <3>1, <4>1, <5>1 DEF Good, GoodLost
      <4>3. (<<takeError>> \o <<ifError(num)>>) \o k = p4(num)
        BY <2>5
      <4> HIDE DEF takeError, ifError, gotPort
      <4> QED
        BY <3>1, <4>2, <4>3 DEF Nexts, NextsLost
    <3>4. /\ Good(takeError, <<ifError(num)>> \o k, U)
          /\ Nexts(takeError, <<ifError(num)>> \o k, U) = {<<p5(num), O>>, <<p5(num), T>>}
      <4> HIDE DEF ifError
      <4> QED
        BY <3>1 DEF Good, GoodLost, Nexts, NextsLost, O, T
    <3>5. /\ Good(gotPort(num), k, U)
          /\ Nexts(gotPort(num), k, U) = {<<p7(num), U>>, <<p1(num), U>>}
      <4>1. (<<takePort>> \o <<ifPort(num)>>) \o k = p7(num)
        BY <2>5
      <4> HIDE DEF takePort, ifPort
      <4> QED
        BY <3>1, <4>1 DEF Good, GoodLost, Nexts, NextsLost
    <3>6. /\ Good(takePort, <<ifPort(num)>> \o k, U)
          /\ Nexts(takePort, <<ifPort(num)>> \o k, U) = {<<p8(num), O>>, <<p8(num), T>>}
      <4> HIDE DEF ifPort
      <4> QED
        BY <3>1 DEF Good, GoodLost, Nexts, NextsLost, O, T
    <3> HIDE DEF gotError, takeError, gotPort, takePort, ifError, ifPort, p1, p3, p4, p5, p6, p7, p8, sleep
    <3> QED
      BY <3>2, <3>3, <3>4, <3>5, <3>6
  <2>9. ASSUME NEW num \in Int
        PROVE  /\ Good(ifError(num), k, O) /\ Nexts(ifError(num), k, O) = {<<k, O>>}
               /\ Good(ifError(num), k, T) /\ Nexts(ifError(num), k, T) = {<<p6(num), T>>}
               /\ Good(ifPort(num), k, O) /\ Nexts(ifPort(num), k, O) = {<<k, O>>}
               /\ Good(ifPort(num), k, T) /\ Nexts(ifPort(num), k, T) = {<<p1(num), T>>}
    <3>1. /\ Good(ifError(num), k, O) /\ Nexts(ifError(num), k, O) = {<<k, O>>}
          /\ Good(ifError(num), k, T) /\ Nexts(ifError(num), k, T) = {<<p6(num), T>>}
      <4> HIDE DEF gotPort
      <4> QED
        BY <2>1, <2>4 DEF Good, GoodLost, Nexts, NextsLost
    <3>2. /\ Good(ifPort(num), k, O) /\ Nexts(ifPort(num), k, O) = {<<k, O>>}
          /\ Good(ifPort(num), k, T) /\ Nexts(ifPort(num), k, T) = {<<p1(num), T>>}
      BY <2>1, <2>4 DEF Good, GoodLost, Nexts, NextsLost
    <3> QED
      BY <3>1, <3>2
  <2>10. ASSUME NEW num \in Int
         PROVE /\ IsSeq(p1(num)) /\ p1(num) # <<>> /\ IsSeq(p2(num)) /\ p2(num) # <<>>
               /\ IsSeq(p3(num)) /\ p3(num) # <<>> /\ IsSeq(p4(num)) /\ p4(num) # <<>>
               /\ IsSeq(p5(num)) /\ p5(num) # <<>> /\ IsSeq(p6(num)) /\ p6(num) # <<>>
               /\ IsSeq(p7(num)) /\ p7(num) # <<>> /\ IsSeq(p8(num)) /\ p8(num) # <<>>
               /\ Head(p1(num)) = Drain(c, n, num) /\ Tail(p1(num)) = k
               /\ Head(p2(num)) = sleep /\ Tail(p2(num)) = p3(num)
               /\ Head(p3(num)) = gotError(num) /\ Tail(p3(num)) = k
               /\ Head(p4(num)) = takeError /\ Tail(p4(num)) = <<ifError(num)>> \o k
               /\ Head(p5(num)) = ifError(num) /\ Tail(p5(num)) = k
               /\ Head(p6(num)) = gotPort(num) /\ Tail(p6(num)) = k
               /\ Head(p7(num)) = takePort /\ Tail(p7(num)) = <<ifPort(num)>> \o k
               /\ Head(p8(num)) = ifPort(num) /\ Tail(p8(num)) = k
    <3> HIDE DEF gotError, takeError, gotPort, takePort, ifError, ifPort, sleep
    <3> QED
      BY <1>1, <2>6
  <2>11. p1(num0) = <<Drain(c, n, num0)>> \o k
    OBVIOUS
  <2>12. S \in V /\ T \in V
    OBVIOUS
  <2> HIDE DEF gotError, takeError, gotPort, takePort, ifError, ifPort, sleep, p1, p2, p3, p4, p5, p6, p7, p8, V, W
  <2>13. ASSUME NEW num \in Int, NEW U \in V
         PROVE  /\ <<p1(num), U>> \in X1 /\ <<p2(num), U>> \in X2 /\ <<p3(num), U>> \in X3
                /\ <<p4(num), U>> \in X4 /\ <<p6(num), U>> \in X6 /\ <<p7(num), U>> \in X7
    OBVIOUS
  <2>18. ASSUME NEW num \in Int
         PROVE  /\ <<p5(num), O>> \in X5 /\ <<p5(num), T>> \in X5
                /\ <<p8(num), O>> \in X8 /\ <<p8(num), T>> \in X8
    <3>1. O \in W /\ T \in W
      BY DEF W
    <3> HIDE DEF W
    <3> QED
      BY <3>1
  <2>14. <<k, O>> \in Y
    OBVIOUS
  <2>19. X1 \cup X2 \cup X3 \cup X4 \cup X5 \cup X6 \cup X7 \cup X8 = X
    OBVIOUS
  <2>20. /\ \A u \in X1 : \E num \in Int, U \in V : u = <<p1(num), U>>
         /\ \A u \in X2 : \E num \in Int, U \in V : u = <<p2(num), U>>
         /\ \A u \in X3 : \E num \in Int, U \in V : u = <<p3(num), U>>
         /\ \A u \in X4 : \E num \in Int, U \in V : u = <<p4(num), U>>
    OBVIOUS
  <2>21. /\ \A u \in X6 : \E num \in Int, U \in V : u = <<p6(num), U>>
         /\ \A u \in X7 : \E num \in Int, U \in V : u = <<p7(num), U>>
    OBVIOUS
  <2>22. ASSUME NEW u \in X5
         PROVE  \E num \in Int : u = <<p5(num), O>> \/ u = <<p5(num), T>>
    <3>1. PICK num \in Int, U \in W : u = <<p5(num), U>>
      OBVIOUS
    <3>2. U = O \/ U = T
      BY DEF W
    <3> QED
      BY <3>1, <3>2
  <2>23. ASSUME NEW u \in X8
         PROVE  \E num \in Int : u = <<p8(num), O>> \/ u = <<p8(num), T>>
    <3>1. PICK num \in Int, U \in W : u = <<p8(num), U>>
      OBVIOUS
    <3>2. U = O \/ U = T
      BY DEF W
    <3> QED
      BY <3>1, <3>2
  <2> HIDE DEF X1, X2, X3, X4, X5, X6, X7, X8, X, Y
  <2>15. ASSUME NEW u \in X PROVE Good1(u) /\ Nexts1(u) \subseteq X \cup Y
    <3> DEFINE Fine(v) == Good1(v) /\ Nexts1(v) \subseteq X \cup Y
    <3>2. ASSUME NEW num \in Int, NEW U \in V PROVE Fine(<<p1(num), U>>)
      <4>0. IsSeq(p1(num)) /\ p1(num) # <<>> /\ Head(p1(num)) = Drain(c, n, num) /\ Tail(p1(num)) = k
        BY <2>10
      <4>1. Nexts1(<<p1(num), U>>) = Nexts(Drain(c, n, num), k, U) /\ Good1(<<p1(num), U>>)
        BY <2>7, <4>0, OnePair
      <4> QED
        BY <2>7, <4>1
    <3>3. ASSUME NEW num \in Int, NEW U \in V PROVE Fine(<<p2(num), U>>)
      <4>0. IsSeq(p2(num)) /\ p2(num) # <<>> /\ Head(p2(num)) = sleep /\ Tail(p2(num)) = p3(num)
        BY <2>10
      <4>2. Good(sleep, p3(num), U) /\ Nexts(sleep, p3(num), U) = {<<p3(num), U>>}
        BY <2>8
      <4>3. Good(Head(p2(num)), Tail(p2(num)), U)
        BY <4>0, <4>2
      <4>1. Nexts1(<<p2(num), U>>) = {<<p3(num), U>>} /\ Good1(<<p2(num), U>>)
        BY <4>0, <4>2, <4>3, OnePair
      <4> QED
        BY <2>13, <2>19, <4>1
    <3>4. ASSUME NEW num \in Int, NEW U \in V PROVE Fine(<<p3(num), U>>)
      <4>0. IsSeq(p3(num)) /\ p3(num) # <<>> /\ Head(p3(num)) = gotError(num) /\ Tail(p3(num)) = k
        BY <2>10
      <4>2. Good(gotError(num), k, U) /\ Nexts(gotError(num), k, U) = {<<p4(num), U>>, <<p6(num), U>>}
        BY <2>8
      <4>3. Good(Head(p3(num)), Tail(p3(num)), U)
        BY <4>0, <4>2
      <4>1. Nexts1(<<p3(num), U>>) = {<<p4(num), U>>, <<p6(num), U>>} /\ Good1(<<p3(num), U>>)
        BY <4>0, <4>2, <4>3, OnePair
      <4> QED
        BY <2>13, <2>19, <4>1
    <3>5. ASSUME NEW num \in Int, NEW U \in V PROVE Fine(<<p4(num), U>>)
      <4>0. IsSeq(p4(num)) /\ p4(num) # <<>> /\ Head(p4(num)) = takeError /\ Tail(p4(num)) = <<ifError(num)>> \o k
        BY <2>10
      <4>2. Good(takeError, <<ifError(num)>> \o k, U) /\ Nexts(takeError, <<ifError(num)>> \o k, U) = {<<p5(num), O>>, <<p5(num), T>>}
        BY <2>8
      <4>3. Good(Head(p4(num)), Tail(p4(num)), U)
        BY <4>0, <4>2
      <4>1. Nexts1(<<p4(num), U>>) = {<<p5(num), O>>, <<p5(num), T>>} /\ Good1(<<p4(num), U>>)
        BY <4>0, <4>2, <4>3, OnePair
      <4> QED
        BY <2>18, <2>19, <4>1
    <3>6. ASSUME NEW num \in Int, NEW U \in V PROVE Fine(<<p6(num), U>>)
      <4>0. IsSeq(p6(num)) /\ p6(num) # <<>> /\ Head(p6(num)) = gotPort(num) /\ Tail(p6(num)) = k
        BY <2>10
      <4>2. Good(gotPort(num), k, U) /\ Nexts(gotPort(num), k, U) = {<<p7(num), U>>, <<p1(num), U>>}
        BY <2>8
      <4>3. Good(Head(p6(num)), Tail(p6(num)), U)
        BY <4>0, <4>2
      <4>1. Nexts1(<<p6(num), U>>) = {<<p7(num), U>>, <<p1(num), U>>} /\ Good1(<<p6(num), U>>)
        BY <4>0, <4>2, <4>3, OnePair
      <4> QED
        BY <2>13, <2>19, <4>1
    <3>7. ASSUME NEW num \in Int, NEW U \in V PROVE Fine(<<p7(num), U>>)
      <4>0. IsSeq(p7(num)) /\ p7(num) # <<>> /\ Head(p7(num)) = takePort /\ Tail(p7(num)) = <<ifPort(num)>> \o k
        BY <2>10
      <4>2. Good(takePort, <<ifPort(num)>> \o k, U) /\ Nexts(takePort, <<ifPort(num)>> \o k, U) = {<<p8(num), O>>, <<p8(num), T>>}
        BY <2>8
      <4>3. Good(Head(p7(num)), Tail(p7(num)), U)
        BY <4>0, <4>2
      <4>1. Nexts1(<<p7(num), U>>) = {<<p8(num), O>>, <<p8(num), T>>} /\ Good1(<<p7(num), U>>)
        BY <4>0, <4>2, <4>3, OnePair
      <4> QED
        BY <2>18, <2>19, <4>1
    <3>8. ASSUME NEW num \in Int PROVE Fine(<<p5(num), O>>) /\ Fine(<<p5(num), T>>)
      <4>0. IsSeq(p5(num)) /\ p5(num) # <<>> /\ Head(p5(num)) = ifError(num) /\ Tail(p5(num)) = k
        BY <2>10
      <4>2. Good(ifError(num), k, O) /\ Nexts(ifError(num), k, O) = {<<k, O>>}
        BY <2>9
      <4>3. Good(ifError(num), k, T) /\ Nexts(ifError(num), k, T) = {<<p6(num), T>>}
        BY <2>9
      <4>4. Good(Head(p5(num)), Tail(p5(num)), O) /\ Good(Head(p5(num)), Tail(p5(num)), T)
        BY <4>0, <4>2, <4>3
      <4>1. /\ Nexts1(<<p5(num), O>>) = {<<k, O>>} /\ Good1(<<p5(num), O>>)
            /\ Nexts1(<<p5(num), T>>) = {<<p6(num), T>>} /\ Good1(<<p5(num), T>>)
        BY <4>0, <4>2, <4>3, <4>4, OnePair
      <4> QED
        BY <2>12, <2>13, <2>14, <2>19, <4>1
    <3>9. ASSUME NEW num \in Int PROVE Fine(<<p8(num), O>>) /\ Fine(<<p8(num), T>>)
      <4>0. IsSeq(p8(num)) /\ p8(num) # <<>> /\ Head(p8(num)) = ifPort(num) /\ Tail(p8(num)) = k
        BY <2>10
      <4>2. Good(ifPort(num), k, O) /\ Nexts(ifPort(num), k, O) = {<<k, O>>}
        BY <2>9
      <4>3. Good(ifPort(num), k, T) /\ Nexts(ifPort(num), k, T) = {<<p1(num), T>>}
        BY <2>9
      <4>4. Good(Head(p8(num)), Tail(p8(num)), O) /\ Good(Head(p8(num)), Tail(p8(num)), T)
        BY <4>0, <4>2, <4>3
      <4>1. /\ Nexts1(<<p8(num), O>>) = {<<k, O>>} /\ Good1(<<p8(num), O>>)
            /\ Nexts1(<<p8(num), T>>) = {<<p1(num), T>>} /\ Good1(<<p8(num), T>>)
        BY <4>0, <4>2, <4>3, <4>4, OnePair
      <4> QED
        BY <2>12, <2>13, <2>14, <2>19, <4>1
    <3> HIDE DEF Fine
    <3>10. (u \in X1 \/ u \in X2 \/ u \in X3) => Fine(u)
      BY <2>20, <3>2, <3>3, <3>4
    <3>11. (u \in X4 \/ u \in X6 \/ u \in X7) => Fine(u)
      BY <2>20, <2>21, <3>5, <3>6, <3>7
    <3>12. (u \in X5 \/ u \in X8) => Fine(u)
      BY <2>22, <2>23, <3>8, <3>9
    <3>13. Fine(u)
      BY <2>19, <3>10, <3>11, <3>12
    <3> QED
      BY <3>13 DEF Fine
  <2>16. <<p1(num0), S>> \in X
    <3>1. <<p1(num0), S>> \in X1
      BY <2>12, <2>13
    <3> QED
      BY <2>19, <3>1
  <2>17. \A u, v : <<u, v>> \in X => Safe(u, v)
    BY <2>3, <2>15, Coinduction
  <2> QED
    BY <2>11, <2>16, <2>17 DEF S
<1> QED
  BY <1>1, OneIsSeq DEF Runs

LEMMA PutGet ==
  ASSUME NEW g, NEW c \in Comps, NEW x
  PROVE  Put(g, c, x)[c] = x /\ \A d \in Comps \ {c} : Put(g, c, x)[d] = g[d]
BY DEF Put

LEMMA PutAgain ==
  ASSUME NEW g, NEW c, NEW x, NEW y
  PROVE  Put(Put(g, c, x), c, y) = Put(g, c, y)
BY DEF Put

LEMMA PutSwap ==
  ASSUME NEW g, NEW c, NEW x, NEW d, NEW y, c # d
  PROVE  Put(Put(g, c, x), d, y) = Put(Put(g, d, y), c, x)
BY DEF Put

LEMMA QuietAgain ==
  ASSUME NEW c, NEW x
  PROVE  /\ Put(Put(Quiet, c, x), c, NoCommand) = Quiet
         /\ Put(Put(Unrelated, c, x), c, None) = Unrelated
         /\ \A d \in Comps : Quiet[d] = NoCommand /\ Unrelated[d] = None
BY DEF Put, Quiet, Unrelated

Losing(b) == {Lost(r, j, b) : r \in -5 .. 0, j \in Comps \cup {None}}
Failing(b) == {Lost(r, j, b) : r \in -5 .. -1, j \in Comps \cup {None}}

LEMMA Losses ==
  ASSUME NEW b, NEW r \in -5 .. 0, NEW j \in Comps \cup {None}
  PROVE  Lost(r, j, b) \in Losing(b) /\ (r < 0 => Lost(r, j, b) \in Failing(b))
<1>1. r < 0 => r \in -5 .. -1
  OBVIOUS
<1> QED
  BY <1>1 DEF Losing, Failing

LEMMA LostEach ==
  ASSUME NEW b, NEW p, NEW Q, IsSeq(p),
         \A r \in -5 .. 0, j \in Comps \cup {None} : Runs({Lost(r, j, b)}, p, Q)
  PROVE  Runs(Losing(b), p, Q) /\ Runs(Failing(b), p, Q)
<1>1. Failing(b) \subseteq Losing(b)
  <2>1. \A r \in -5 .. -1 : r \in -5 .. 0
    OBVIOUS
  <2> QED
    BY <2>1 DEF Failing, Losing
<1>2. Runs(Losing(b), p, Q)
  <2>1. \A S \in Losing(b) : Runs({S}, p, Q)
    BY DEF Losing
  <2> QED
    BY <2>1, RunEach
<1> QED
  BY <1>1, <1>2, RunWeaken

LEMMA LostReturn ==
  ASSUME NEW b, NEW v \in -5 .. -1
  PROVE  Runs(Losing(b), Return(v), Failing(b)) /\ Runs(Failing(b), Return(v), Failing(b))
<1>1. v \in -5 .. 0 /\ v < 0 /\ IsSeq(Return(v))
  BY OneIsSeq DEF Return
<1>2. ASSUME NEW r \in -5 .. 0, NEW j \in Comps \cup {None}
      PROVE  Runs({Lost(r, j, b)}, Return(v), Failing(b))
  <2>1. Runs({Lost(r, j, b)}, Return(v), {Lost(v, j, b)})
    BY <1>1, RunReturnLost
  <2>2. {Lost(v, j, b)} \subseteq Failing(b)
    BY <1>1, Losses
  <2> QED
    BY <2>1, <2>2, RunWeaken
<1> QED
  BY <1>1, <1>2, LostEach

LEMMA LostUnjoin ==
  ASSUME NEW b, NEW end
  PROVE  /\ Runs(Losing(b), <<[do |-> "unjoin", end |-> end]>>, Losing(b))
         /\ Runs(Failing(b), <<[do |-> "unjoin", end |-> end]>>, Losing(b))
<1>1. ASSUME NEW r \in -5 .. 0, NEW j \in Comps \cup {None}
      PROVE  Runs({Lost(r, j, b)}, <<[do |-> "unjoin", end |-> end]>>, Losing(b))
  <2>1. Runs({Lost(r, j, b)}, <<[do |-> "unjoin", end |-> end]>>, {Lost(r, j, b)})
    BY RunUnjoin
  <2>2. {Lost(r, j, b)} \subseteq Losing(b)
    BY Losses
  <2> QED
    BY <2>1, <2>2, RunWeaken
<1>2. IsSeq(<<[do |-> "unjoin", end |-> end]>>)
  BY OneIsSeq
<1> QED
  BY <1>1, <1>2, LostEach

LEMMA LostRemove ==
  ASSUME NEW b, NEW c \in Comps, c \in b.alive, NEW wanted
  PROVE  /\ Runs(Losing(b), RemoveEvent(c, wanted), Losing(b))
         /\ Runs(Failing(b), RemoveEvent(c, wanted), Losing(b))
<1>1. ASSUME NEW r \in -5 .. 0, NEW j \in Comps \cup {None}
      PROVE  Runs({Lost(r, j, b)}, RemoveEvent(c, wanted), Losing(b))
  <2>1. Runs({Lost(r, j, b)}, RemoveEvent(c, wanted), {Lost(0, None, b), Lost(-1, j, b)})
    BY RunRemoveLost
  <2>2. {Lost(0, None, b), Lost(-1, j, b)} \subseteq Losing(b)
    BY Losses
  <2> QED
    BY <2>1, <2>2, RunWeaken
<1>2. IsSeq(RemoveEvent(c, wanted))
  BY OneIsSeq DEF RemoveEvent
<1> QED
  BY <1>1, <1>2, LostEach

LEMMA LostLook ==
  ASSUME NEW b, NEW c \in Comps, c \in b.alive, NEW n
  PROVE  Runs(Losing(b), WaitForEvent(c, Complete("PortEnable", n), "PORT_ENABLED", FALSE), Losing(b))
<1> DEFINE p == WaitForEvent(c, Complete("PortEnable", n), "PORT_ENABLED", FALSE)
<1>1. ASSUME NEW x \in Complete("PortEnable", n)
      PROVE  x.e \in {"CmdComplete", "PortSettingsChanged"} /\ FlagOf(x) = "PORT_ENABLED"
  <2>1. x = Event("CmdComplete", "PortEnable", n)
    BY DEF Complete
  <2>2. x.e = "CmdComplete" /\ x.n1 = "PortEnable"
    BY <2>1 DEF Event
  <2> QED
    BY <2>2 DEF FlagOf
<1>2. ASSUME NEW r \in -5 .. 0, NEW j \in Comps \cup {None}
      PROVE  Runs({Lost(r, j, b)}, p, Losing(b))
  <2>1. Runs({Lost(r, j, b)}, p, {Lost(0, None, b), Lost(-1, None, b), Lost(-2, None, b)})
    BY <1>1, RunLookLost
  <2>2. {Lost(0, None, b), Lost(-1, None, b), Lost(-2, None, b)} \subseteq Losing(b)
    BY Losses
  <2> QED
    BY <2>1, <2>2, RunMore
<1>3. IsSeq(p)
  BY OneIsSeq DEF WaitForEvent
<1> QED
  BY <1>2, <1>3, LostEach

LEMMA LostInsist ==
  ASSUME NEW b
  PROVE  /\ Runs({Lost(0, None, b), Lost(-1, None, b)}, Insist, {Lost(0, None, b)})
         /\ \A Q : Runs(Failing(b), Insist, Q)
<1>1. ASSUME NEW r \in -5 .. -1, NEW j, NEW Q PROVE Runs({Lost(r, j, b)}, Insist, Q)
  <2> DEFINE E == {S \in {Lost(r, j, b)} : r >= 0}
  <2>1. Runs({Lost(r, j, b)}, Insist, E)
    BY RunInsistLost
  <2>2. E \subseteq Q
    OBVIOUS
  <2> HIDE DEF E
  <2> QED
    BY <2>1, <2>2, RunMore
<1>2. Runs({Lost(0, None, b)}, Insist, {Lost(0, None, b)})
  <2>1. Runs({Lost(0, None, b)}, Insist, {S \in {Lost(0, None, b)} : 0 >= 0})
    BY RunInsistLost
  <2>2. {S \in {Lost(0, None, b)} : 0 >= 0} \subseteq {Lost(0, None, b)}
    OBVIOUS
  <2> QED
    BY <2>1, <2>2, RunWeaken
<1>3. Runs({Lost(-1, None, b)}, Insist, {Lost(0, None, b)})
  BY <1>1
<1>4. Runs({Lost(0, None, b)} \cup {Lost(-1, None, b)}, Insist, {Lost(0, None, b)})
  BY <1>2, <1>3, RunBoth
<1>5. {Lost(0, None, b)} \cup {Lost(-1, None, b)} = {Lost(0, None, b), Lost(-1, None, b)}
  OBVIOUS
<1>6. IsSeq(Insist)
  BY OneIsSeq DEF Insist
<1>7. ASSUME NEW Q PROVE Runs(Failing(b), Insist, Q)
  <2>1. \A S \in Failing(b) : Runs({S}, Insist, Q)
    BY <1>1 DEF Failing
  <2> QED
    BY <1>6, <2>1, RunEach
<1> QED
  BY <1>4, <1>5, <1>7

(* Disabling a port when the work is lost.                                 *)
LEMMA LostDisablePort ==
  ASSUME NEW b, NEW c \in Comps, c \in b.alive, NEW n \in ToSet(PortsOf(c))
  PROVE  /\ Runs(Losing(b), ilclient_disable_port(c, n), Losing(b))
         /\ Runs(Failing(b), ilclient_disable_port(c, n), Losing(b))
<1> DEFINE p == ilclient_disable_port(c, n)
<1>1. Typed(c, "PortDisable", n)
  BY DEF Typed
<1>2. ASSUME NEW r \in -5 .. 0, NEW j \in Comps \cup {None}
      PROVE  Runs({Lost(r, j, b)}, p, Losing(b))
  <2>1. Runs({Lost(r, j, b)}, Send(c, "PortDisable", n), {Lost(r, j, b)})
    BY <1>1, RunSendLost
  <2>2. Runs({Lost(r, j, b)}, Wait(c, "PortDisable", n), {Lost(0, None, b), Lost(-1, None, b)})
    BY <1>1, RunWaitLost
  <2>3. Runs({Lost(r, j, b)}, Send(c, "PortDisable", n) \o Wait(c, "PortDisable", n),
             {Lost(0, None, b), Lost(-1, None, b)})
    BY <2>1, <2>2, RunSeq
  <2>4. Runs({Lost(r, j, b)}, p, {Lost(0, None, b)})
    BY <2>3, LostInsist, RunSeq DEF ilclient_disable_port
  <2>5. {Lost(0, None, b)} \subseteq Losing(b)
    BY Losses
  <2> QED
    BY <2>4, <2>5, RunWeaken
<1>3. IsSeq(p)
  BY <1>2 DEF Runs
<1> QED
  BY <1>2, <1>3, LostEach

(* A command to a component that waits for none, and the wait.             *)
LEMMA CalmSend ==
  ASSUME NEW r, NEW m, NEW b, NEW w, NEW c \in Comps, NEW cmd, NEW n, c \in b.alive,
         Typed(c, cmd, n), cmd = "PortDisable" /\ n \notin w.enabled[c] => c \in m
  PROVE  Runs({Sync(r, Quiet, Unrelated, m, b, w)}, Send(c, cmd, n) \o Wait(c, cmd, n),
              {Sync(0, Quiet, Unrelated, m, b, After(w, Command(c, cmd, n)))}
              \cup (IF cmd = "StateSet"
                    THEN {Sync(-1, Quiet, Unrelated, m, b, Spoilt(w, c))}
                    ELSE {Lost(-1, c, b)}))
<1> DEFINE x == Command(c, cmd, n)  g == Put(Quiet, c, x)
           Q == {Sync(0, Quiet, Unrelated, m, b, After(w, x))}
              \cup (IF cmd = "StateSet"
                    THEN {Sync(-1, Quiet, Unrelated, m, b, Spoilt(w, c))}
                    ELSE {Lost(-1, c, b)})
<1>1. Runs({Sync(r, Quiet, Unrelated, m, b, w)}, Send(c, cmd, n),
           {Sync(r, g, Unrelated, m, b, w)})
  BY QuietAgain, RunSend
<1>2. g[c] = x /\ Put(g, c, NoCommand) = Quiet
  BY PutGet, QuietAgain
<1> HIDE DEF g
<1>3. /\ Sync(0, Put(g, c, NoCommand), Unrelated, m, b, After(w, g[c])) \in Q
      /\ IF cmd = "StateSet" THEN Sync(-1, Put(g, c, NoCommand), Unrelated, m, b, Spoilt(w, c)) \in Q
         ELSE Lost(-1, c, b) \in Q
  BY <1>2
<1> HIDE DEF Q
<1>4. Runs({Sync(r, g, Unrelated, m, b, w)}, Wait(c, cmd, n), Q)
  BY <1>2, <1>3, RunWaitDual DEF Wait
<1>5. Runs({Sync(r, Quiet, Unrelated, m, b, w)}, Send(c, cmd, n) \o Wait(c, cmd, n), Q)
  BY <1>1, <1>4, RunSeq
<1> QED
  BY <1>5 DEF Q

LEMMA RunChangeState ==
  ASSUME NEW r, NEW b, NEW w, NEW c \in Comps, NEW s \in {Loaded, Idle, Executing}, c \in b.alive
  PROVE  Runs({Calm(r, b, w)}, ilclient_change_component_state(c, s),
              {Calm(0, b, After(w, Command(c, "StateSet", s))), Calm(-1, b, Spoilt(w, c))})
<1> DEFINE S0 == Calm(0, b, After(w, Command(c, "StateSet", s)))
           S1 == Calm(-1, b, Spoilt(w, c))
           fix == RemoveEvent(c, AnyError) \o Return(-1)
<1>1. Runs({Calm(r, b, w)}, Send(c, "StateSet", s) \o Wait(c, "StateSet", s), {S0} \cup {S1})
  BY CalmSend DEF Calm, Typed
<1>2. Runs({S1}, fix, {S1})
  <2>1. Runs({S1}, RemoveEvent(c, AnyError), {Calm(0, b, Spoilt(w, c)), Calm(-1, b, Spoilt(w, c))})
    BY RunRemove, QuietAgain DEF Calm
  <2>2. /\ Runs({Calm(0, b, Spoilt(w, c))}, Return(-1), {S1})
        /\ Runs({Calm(-1, b, Spoilt(w, c))}, Return(-1), {S1})
    <3>1. -1 \in -5 .. 0
      OBVIOUS
    <3> QED
      BY <3>1, RunReturn DEF Calm
  <2>3. Runs({Calm(0, b, Spoilt(w, c))} \cup {Calm(-1, b, Spoilt(w, c))}, Return(-1), {S1})
    BY <2>2, RunBoth
  <2>4. {Calm(0, b, Spoilt(w, c))} \cup {Calm(-1, b, Spoilt(w, c))}
          = {Calm(0, b, Spoilt(w, c)), Calm(-1, b, Spoilt(w, c))}
    OBVIOUS
  <2> QED
    BY <2>1, <2>3, <2>4, RunSeq
<1>3. S0.ret = 0 /\ S1.ret = -1 /\ S0.doom \in BOOLEAN /\ S1.doom \in BOOLEAN
  BY DEF Calm, Sync
<1> DEFINE Q == {S0, S1}
<1>4. Runs({S0}, IfReturned(0, <<>>, fix), Q)
  <2>1. Runs({S0}, <<>>, Q)
    <3>1. Runs({S0}, <<>>, {S0})
      BY RunNothing
    <3> QED
      BY <3>1, RunWeaken
  <2> QED
    BY <1>3, <2>1, RunIfReturned
<1>5. Runs({S1}, IfReturned(0, <<>>, fix), Q)
  <2>1. Runs({S1}, fix, Q)
    BY <1>2, RunWeaken
  <2> QED
    BY <1>3, <2>1, RunIfReturned
<1>6. Runs({S0} \cup {S1}, IfReturned(0, <<>>, fix), Q)
  BY <1>4, <1>5, RunBoth
<1> QED
  BY <1>1, <1>6, RunSeq DEF ilclient_change_component_state

(* Off: the port, when it is known to be on.                               *)
LEMMA RunDisablePort ==
  ASSUME NEW r, NEW b, NEW w, NEW c \in Comps, NEW n \in ToSet(PortsOf(c)), c \in b.alive,
         n \in w.enabled[c]
  PROVE  Runs({Calm(r, b, w)}, ilclient_disable_port(c, n),
              {Calm(0, b, After(w, Command(c, "PortDisable", n)))})
<1> DEFINE S0 == Calm(0, b, After(w, Command(c, "PortDisable", n)))
<1>1. Runs({Calm(r, b, w)}, Send(c, "PortDisable", n) \o Wait(c, "PortDisable", n),
           {S0} \cup {Lost(-1, c, b)})
  BY CalmSend DEF Calm, Typed
<1>2. Runs({S0}, Insist, {S0})
  BY RunInsist DEF Calm
<1>3. Runs({Lost(-1, c, b)}, Insist, {S0})
  <2>1. {Lost(-1, c, b)} \subseteq Failing(b)
    BY Losses
  <2>2. Runs(Failing(b), Insist, {S0})
    BY LostInsist
  <2> QED
    BY <2>1, <2>2, RunWeaken
<1>4. Runs({S0} \cup {Lost(-1, c, b)}, Insist, {S0})
  BY <1>2, <1>3, RunBoth
<1> QED
  BY <1>1, <1>4, RunSeq DEF ilclient_disable_port

(* Both ends of a tunnel off, whether they were on or not.                 *)
Off(w, x, y) ==
  After(After(w, Command(x[1], "PortDisable", x[2])), Command(y[1], "PortDisable", y[2]))

LEMMA RunDisableTunnel ==
  ASSUME NEW r, NEW b, NEW w, NEW x \in Comps \X Int, NEW y \in Comps \X Int,
         x[1] # y[1], x[1] \in b.alive, y[1] \in b.alive,
         x[2] \in ToSet(PortsOf(x[1])), y[2] \in ToSet(PortsOf(y[1]))
  PROVE  Runs({Calm(r, b, w)}, ilclient_disable_tunnel(<<x, y>>), {Calm(0, b, Off(w, x, y))})
<1> DEFINE c == x[1]  d == y[1]
           X == Command(c, "PortDisable", x[2])  Y == Command(d, "PortDisable", y[2])
           m == {c, d}
           g1 == Put(Quiet, c, X)  g2 == Put(g1, d, Y)  g3 == Put(Quiet, d, Y)
           w1 == After(w, X)  w2 == After(w1, Y)
           h == Unrelated
           St(v, g, mm, ww) == Sync(v, g, h, mm, b, ww)
<1>1. /\ Put(g1, d, Y) = g2 /\ g2[c] = X /\ Put(g2, c, NoCommand) = g3
      /\ g3[d] = Y /\ Put(g3, d, NoCommand) = Quiet /\ Quiet[c] = NoCommand
      /\ Quiet[d] = NoCommand /\ g1[d] = NoCommand /\ h[c] = None /\ h[d] = None
  BY PutGet, PutSwap, PutAgain, QuietAgain
<1>2. Typed(c, "PortDisable", x[2]) /\ Typed(d, "PortDisable", y[2]) /\ c \in Comps /\ d \in Comps
  BY DEF Typed
<1> HIDE DEF g1, g2, g3, h, X, Y, w1, w2
<1>3. Runs({Calm(r, b, w)}, Mask(c, TRUE), {St(r, Quiet, {c}, w)})
  <2>1. {} \cup {c} = {c}
    OBVIOUS
  <2>2. Runs({St(r, Quiet, {}, w)}, Mask(c, TRUE), {St(r, Quiet, {} \cup {c}, w)})
    BY <1>1, <1>2, RunMaskOn
  <2> QED
    BY <2>1, <2>2 DEF Calm, h
<1>4. Runs({St(r, Quiet, {c}, w)}, Mask(d, TRUE), {St(r, Quiet, m, w)})
  <2>1. {c} \cup {d} = m
    OBVIOUS
  <2>2. Runs({St(r, Quiet, {c}, w)}, Mask(d, TRUE), {St(r, Quiet, {c} \cup {d}, w)})
    BY <1>1, <1>2, RunMaskOn
  <2> QED
    BY <2>1, <2>2
<1>5. Runs({St(r, Quiet, m, w)}, Send(c, "PortDisable", x[2]), {St(r, g1, m, w)})
  BY <1>1, <1>2, RunSend DEF g1, X
<1>6. Runs({St(r, g1, m, w)}, Send(d, "PortDisable", y[2]), {St(r, g2, m, w)})
  BY <1>1, <1>2, RunSend DEF g2, Y
<1>7. Runs({St(r, g2, m, w)}, Wait(c, "PortDisable", x[2]) , {St(0, g3, m, w1)} \cup {Lost(-1, c, b)})
  <2> DEFINE Q == {St(0, g3, m, w1)} \cup {Lost(-1, c, b)}
  <2>1. Sync(0, Put(g2, c, NoCommand), h, m, b, After(w, g2[c])) \in Q /\ Lost(-1, c, b) \in Q
    BY <1>1 DEF w1
  <2> HIDE DEF Q
  <2>2. Runs({St(r, g2, m, w)}, Wait(c, "PortDisable", x[2]), Q)
    BY <1>1, <1>2, <2>1, RunWaitDual DEF Wait, X
  <2> QED
    BY <2>2 DEF Q
<1>8. Runs({St(0, g3, m, w1)} \cup {Lost(-1, c, b)}, Insist, {St(0, g3, m, w1)})
  <2>1. Runs({St(0, g3, m, w1)}, Insist, {St(0, g3, m, w1)})
    BY RunInsist
  <2>2. {Lost(-1, c, b)} \subseteq Failing(b)
    BY Losses
  <2>3. Runs({Lost(-1, c, b)}, Insist, {St(0, g3, m, w1)})
    BY <2>2, LostInsist, RunLess
  <2> QED
    BY <2>1, <2>3, RunBoth
<1>9. Runs({St(0, g3, m, w1)}, Wait(d, "PortDisable", y[2]) , {St(0, Quiet, m, w2)} \cup {Lost(-1, d, b)})
  <2> DEFINE Q == {St(0, Quiet, m, w2)} \cup {Lost(-1, d, b)}
  <2>1. Sync(0, Put(g3, d, NoCommand), h, m, b, After(w1, g3[d])) \in Q /\ Lost(-1, d, b) \in Q
    BY <1>1 DEF w2
  <2> HIDE DEF Q
  <2>2. Runs({St(0, g3, m, w1)}, Wait(d, "PortDisable", y[2]), Q)
    BY <1>1, <1>2, <2>1, RunWaitDual DEF Wait, Y
  <2> QED
    BY <2>2 DEF Q
<1>10. Runs({St(0, Quiet, m, w2)} \cup {Lost(-1, d, b)}, Insist, {St(0, Quiet, m, w2)})
  <2>1. Runs({St(0, Quiet, m, w2)}, Insist, {St(0, Quiet, m, w2)})
    BY RunInsist
  <2>2. {Lost(-1, d, b)} \subseteq Failing(b)
    BY <1>2, Losses
  <2>3. Runs({Lost(-1, d, b)}, Insist, {St(0, Quiet, m, w2)})
    BY <2>2, LostInsist, RunLess
  <2> QED
    BY <2>1, <2>3, RunBoth
<1>11. Runs({St(0, Quiet, m, w2)}, Mask(c, FALSE), {St(0, Quiet, m \ {c}, w2)})
  BY <1>1, <1>2, RunMaskOn
<1>12. Runs({St(0, Quiet, m \ {c}, w2)}, Mask(d, FALSE), {St(0, Quiet, {}, w2)})
  <2>1. (m \ {c}) \ {d} = {}
    OBVIOUS
  <2>2. Runs({St(0, Quiet, m \ {c}, w2)}, Mask(d, FALSE), {St(0, Quiet, (m \ {c}) \ {d}, w2)})
    <3> HIDE DEF m
    <3> QED
      BY <1>1, <1>2, RunMaskOn
  <2> QED
    BY <2>1, <2>2
<1>13. w2 = Off(w, x, y) /\ St(0, Quiet, {}, w2) = Calm(0, b, w2)
  BY DEF w2, w1, X, Y, Off, Calm, h
<1> HIDE DEF St, m
<1> DEFINE p1 == Mask(c, TRUE) \o Mask(d, TRUE)
           p2 == Send(c, "PortDisable", x[2]) \o Send(d, "PortDisable", y[2])
<1>18. Runs({Calm(r, b, w)}, Mask(c, TRUE) \o Mask(d, TRUE), {St(r, Quiet, m, w)})
  BY <1>3, <1>4, RunSeq
<1>14. Runs({Calm(r, b, w)}, Mask(c, TRUE) \o Mask(d, TRUE) \o Send(c, "PortDisable", x[2])
              \o Send(d, "PortDisable", y[2]), {St(r, g2, m, w)})
  <2>1. Runs({Calm(r, b, w)}, Mask(c, TRUE) \o Mask(d, TRUE) \o Send(c, "PortDisable", x[2]),
             {St(r, g1, m, w)})
    <3> DEFINE q1 == Mask(c, TRUE) \o Mask(d, TRUE)  q2 == Send(c, "PortDisable", x[2])
    <3>1. Runs({Calm(r, b, w)}, q1, {St(r, Quiet, m, w)}) /\ Runs({St(r, Quiet, m, w)}, q2, {St(r, g1, m, w)})
      BY <1>18, <1>5
    <3> HIDE DEF q1, q2
    <3>2. Runs({Calm(r, b, w)}, q1 \o q2, {St(r, g1, m, w)})
      BY <3>1, RunSeq
    <3> QED
      BY <3>2 DEF q1, q2
  <2> QED
    BY <2>1, <1>6, RunSeq
<1>15. Runs({Calm(r, b, w)}, Mask(c, TRUE) \o Mask(d, TRUE) \o Send(c, "PortDisable", x[2])
              \o Send(d, "PortDisable", y[2]) \o Wait(c, "PortDisable", x[2]) \o Insist,
            {St(0, g3, m, w1)})
  BY <1>14, <1>7, <1>8, RunSeq
<1>16. Runs({Calm(r, b, w)}, Mask(c, TRUE) \o Mask(d, TRUE) \o Send(c, "PortDisable", x[2])
              \o Send(d, "PortDisable", y[2]) \o Wait(c, "PortDisable", x[2]) \o Insist
              \o Wait(d, "PortDisable", y[2]) \o Insist,
            {St(0, Quiet, m, w2)})
  BY <1>15, <1>9, <1>10, RunSeq
<1>17. Runs({Calm(r, b, w)}, Mask(c, TRUE) \o Mask(d, TRUE) \o Send(c, "PortDisable", x[2])
              \o Send(d, "PortDisable", y[2]) \o Wait(c, "PortDisable", x[2]) \o Insist
              \o Wait(d, "PortDisable", y[2]) \o Insist \o Mask(c, FALSE) \o Mask(d, FALSE),
            {St(0, Quiet, {}, w2)})
  BY <1>16, <1>11, <1>12, RunSeq
<1> QED
  BY <1>13, <1>17 DEF ilclient_disable_tunnel

(* Conditions when the work is lost.                                       *)
LEMMA LostIf ==
  ASSUME NEW b, NEW v, NEW yes, NEW no, NEW Q, Runs(Losing(b), yes, Q), Runs(Losing(b), no, Q)
  PROVE  Runs(Losing(b), IfReturned(v, yes, no), Q) /\ Runs(Failing(b), IfReturned(v, yes, no), Q)
<1>1. ASSUME NEW r \in -5 .. 0, NEW j \in Comps \cup {None}
      PROVE  Runs({Lost(r, j, b)}, IfReturned(v, yes, no), Q)
  <2>1. {Lost(r, j, b)} \subseteq Losing(b)
    BY Losses
  <2>2. Runs({Lost(r, j, b)}, yes, Q) /\ Runs({Lost(r, j, b)}, no, Q)
    BY <2>1, RunLess
  <2>3. Lost(r, j, b).doom \in BOOLEAN
    BY DEF Lost
  <2>4. Runs({Lost(r, j, b)}, IF Lost(r, j, b).ret = v THEN yes ELSE no, Q)
    BY <2>2
  <2> QED
    BY <2>3, <2>4, RunIfReturned
<1>2. IsSeq(IfReturned(v, yes, no))
  BY OneIsSeq DEF IfReturned
<1> QED
  BY <1>1, <1>2, LostEach

LEMMA FailIf ==
  ASSUME NEW b, NEW yes, NEW no, NEW Q, Runs(Failing(b), no, Q)
  PROVE  Runs(Failing(b), IfReturned(0, yes, no), Q)
<1>1. ASSUME NEW S \in Failing(b)
      PROVE  Runs({S}, IfReturned(0, yes, no), Q)
  <2>1. PICK r \in -5 .. -1, j \in Comps \cup {None} : S = Lost(r, j, b)
    BY DEF Failing
  <2>2. S.doom \in BOOLEAN /\ S.ret = r
    BY <2>1 DEF Lost
  <2>3. S.ret # 0
    BY <2>2
  <2>4. Runs({S}, no, Q)
    BY <1>1, RunLess
  <2>5. Runs({S}, IF S.ret = 0 THEN yes ELSE no, Q)
    BY <2>3, <2>4
  <2> QED
    BY <2>2, <2>5, RunIfReturned
<1>2. IsSeq(IfReturned(0, yes, no))
  BY OneIsSeq DEF IfReturned
<1> QED
  BY <1>1, <1>2, RunEach

LEMMA LostNothing ==
  ASSUME NEW b
  PROVE  /\ Runs(Losing(b), <<>>, Losing(b)) /\ Runs(Failing(b), <<>>, Losing(b))
         /\ Failing(b) \subseteq Losing(b)
<1>1. Failing(b) \subseteq Losing(b)
  <2>1. \A r \in -5 .. -1 : r \in -5 .. 0
    OBVIOUS
  <2> QED
    BY <2>1 DEF Failing, Losing
<1>2. Runs(Losing(b), <<>>, Losing(b))
  BY RunNothing
<1> QED
  BY <1>1, <1>2, RunLess

(* A result that is a success: what is done otherwise does not matter.     *)
LEMMA CalmIf ==
  ASSUME NEW g, NEW h, NEW m, NEW b, NEW w, NEW yes, NEW no, NEW Q, Runs({Sync(0, g, h, m, b, w)}, yes, Q)
  PROVE  Runs({Sync(0, g, h, m, b, w)}, IfReturned(0, yes, no), Q)
<1> DEFINE S == Sync(0, g, h, m, b, w)
<1>1. S.doom \in BOOLEAN /\ S.ret = 0
  BY DEF Sync
<1>2. Runs({S}, IF S.ret = 0 THEN yes ELSE no, Q)
  BY <1>1
<1> HIDE DEF S
<1>3. Runs({S}, IfReturned(0, yes, no), Q)
  BY <1>1, <1>2, RunIfReturned
<1> QED
  BY <1>3 DEF S

LEMMA LostWait ==
  ASSUME NEW b, NEW c \in Comps, c \in b.alive, NEW cmd, NEW n, Typed(c, cmd, n)
  PROVE  /\ Runs(Losing(b), Wait(c, cmd, n), Losing(b)) /\ Runs(Losing(b), Send(c, cmd, n), Losing(b))
         /\ Runs(Losing(b), Relate(c, None), Losing(b))
<1>1. ASSUME NEW r \in -5 .. 0, NEW j \in Comps \cup {None}
      PROVE  /\ Runs({Lost(r, j, b)}, Wait(c, cmd, n), Losing(b))
             /\ Runs({Lost(r, j, b)}, Send(c, cmd, n), Losing(b))
             /\ Runs({Lost(r, j, b)}, Relate(c, None), Losing(b))
  <2>1. Runs({Lost(r, j, b)}, Wait(c, cmd, n), {Lost(0, None, b), Lost(-1, None, b)})
    BY RunWaitLost
  <2>2. {Lost(0, None, b), Lost(-1, None, b)} \subseteq Losing(b) /\ {Lost(r, j, b)} \subseteq Losing(b)
    BY Losses
  <2>3. Runs({Lost(r, j, b)}, Send(c, cmd, n), {Lost(r, j, b)})
    BY RunSendLost
  <2>4. Runs({Lost(r, j, b)}, Relate(c, None), {Lost(r, j, b)})
    BY RunRelateLost
  <2> QED
    BY <2>1, <2>2, <2>3, <2>4, RunMore
<1>2. IsSeq(Wait(c, cmd, n)) /\ IsSeq(Send(c, cmd, n)) /\ IsSeq(Relate(c, None))
  BY OneIsSeq DEF Wait, Send, Relate
<1> QED
  BY <1>1, <1>2, LostEach

(* The second half of enabling a tunnel: the source's port.                *)
LEMMA RunSource ==
  ASSUME NEW b, NEW w, NEW c \in Comps, NEW d \in Comps, c \in b.alive, d \in b.alive,
         NEW n \in ToSet(PortsOf(c)), NEW k \in ToSet(PortsOf(d)), NEW r
  PROVE  Runs({Sync(r, Put(Quiet, c, Command(c, "PortEnable", n)), Unrelated, {}, b, w)},
              Wait(c, "PortEnable", n)
              \o IfReturned(0, <<>>, ilclient_disable_port(d, k) \o Return(-1)),
              {Calm(0, b, After(w, Command(c, "PortEnable", n)))} \cup Failing(b))
<1> DEFINE A == Command(c, "PortEnable", n)  g == Put(Quiet, c, A)
           S == Calm(0, b, After(w, A))
           Q == {S} \cup Failing(b)
           no == ilclient_disable_port(d, k) \o Return(-1)
<1>1. g[c] = A /\ Put(g, c, NoCommand) = Quiet
  BY PutGet, QuietAgain
<1>2. Typed(c, "PortEnable", n) /\ Lost(-1, c, b) \in Failing(b)
  BY Losses DEF Typed
<1> HIDE DEF g
<1>3. Sync(0, Put(g, c, NoCommand), Unrelated, {}, b, After(w, g[c])) \in Q /\ Lost(-1, c, b) \in Q
  BY <1>1, <1>2 DEF Calm
<1> HIDE DEF Q
<1>4. Runs({Sync(r, g, Unrelated, {}, b, w)}, Wait(c, "PortEnable", n), Q)
  BY <1>1, <1>2, <1>3, RunWaitDual DEF Wait
<1>5. Runs({S}, IfReturned(0, <<>>, no), Q)
  <2>1. Runs({S}, <<>>, {S}) /\ {S} \subseteq Q
    BY RunNothing DEF Q
  <2>2. Runs({S}, <<>>, Q)
    BY <2>1, RunMore
  <2> QED
    BY <2>2, CalmIf DEF Calm
<1>6. Runs(Failing(b), IfReturned(0, <<>>, no), Q)
  <2>1. Runs(Failing(b), no, Failing(b))
    <3>1. Runs(Failing(b), ilclient_disable_port(d, k), Losing(b))
      BY LostDisablePort
    <3>2. Runs(Losing(b), Return(-1), Failing(b))
      BY LostReturn
    <3> QED
      BY <3>1, <3>2, RunSeq
  <2>2. Failing(b) \subseteq Q
    BY DEF Q
  <2>3. Runs(Failing(b), no, Q)
    BY <2>1, <2>2, RunMore
  <2> QED
    BY <2>3, FailIf
<1>7. Runs(Q, IfReturned(0, <<>>, no), Q)
  BY <1>5, <1>6, RunBoth DEF Q
<1> QED
  BY <1>4, <1>7, RunSeq DEF g, Q

LEMMA LostGiveUp ==
  ASSUME NEW b, NEW c \in Comps, c \in b.alive, NEW n \in ToSet(PortsOf(c))
  PROVE  /\ Runs(Losing(b), ilclient_disable_port(c, n) \o Return(-1), Failing(b))
         /\ Runs(Failing(b), ilclient_disable_port(c, n) \o Return(-1), Failing(b))
<1>1. /\ Runs(Losing(b), ilclient_disable_port(c, n), Losing(b))
      /\ Runs(Failing(b), ilclient_disable_port(c, n), Losing(b))
  BY LostDisablePort
<1>2. Runs(Losing(b), Return(-1), Failing(b))
  BY LostReturn
<1> QED
  BY <1>1, <1>2, RunSeq

(* The sink's change to Idle, on which the source's port waits.            *)
LEMMA RunToIdle ==
  ASSUME NEW b, NEW w, NEW c \in Comps, NEW d \in Comps, c # d, c \in b.alive, d \in b.alive,
         NEW n \in ToSet(PortsOf(c)), NEW k \in ToSet(PortsOf(d)), NEW r
  PROVE  LET A       == Command(c, "PortEnable", n)
             source  == Wait(c, "PortEnable", n)
                        \o IfReturned(0, <<>>, ilclient_disable_port(d, k) \o Return(-1))
             ofOther == Wait(c, "PortEnable", n) \o ilclient_disable_port(d, k)
             giveUp  == ilclient_disable_port(c, n)
         IN  Runs({Sync(r, Put(Quiet, c, A), Unrelated, {}, b, w)},
                  Send(d, "StateSet", Idle) \o WaitDual(d, "StateSet", Idle, c)
                  \o IfReturned(0, source,
                       IfReturned(-2, ofOther, <<>>) \o giveUp \o Return(-1)),
                  {Calm(0, b, After(After(w, Command(d, "StateSet", Idle)), A))} \cup Failing(b))
<1> DEFINE A == Command(c, "PortEnable", n)  I == Command(d, "StateSet", Idle)
           g == Put(Quiet, c, A)  g1 == Put(g, d, I)
           h == Unrelated  h1 == Put(h, c, d)
           w1 == After(w, I)
           St(v, gg, hh, ww) == Sync(v, gg, hh, {}, b, ww)
           Q == {Calm(0, b, After(w1, A))} \cup Failing(b)
           source == Wait(c, "PortEnable", n)
                        \o IfReturned(0, <<>>, ilclient_disable_port(d, k) \o Return(-1))
           ofOther == Wait(c, "PortEnable", n) \o ilclient_disable_port(d, k)
           giveUp == ilclient_disable_port(c, n)
           no == IfReturned(-2, ofOther, <<>>) \o giveUp \o Return(-1)
           check == <<[do |-> "check", c |-> d, cmd |-> "StateSet", n |-> Idle, other |-> c]>>
<1>1. /\ g[d] = NoCommand /\ h[d] = None /\ g1[c] = A /\ g1[d] = I /\ Put(g1, d, NoCommand) = g
      /\ h1[c] = d /\ Put(h1, c, None) = h /\ A.cmd = "PortEnable"
  <2>1. g[d] = NoCommand /\ h[d] = None /\ g1[c] = A /\ g1[d] = I /\ h1[c] = d
    BY PutGet, QuietAgain
  <2>2. Put(g1, d, NoCommand) = g
    BY DEF Put, Quiet
  <2>3. Put(h1, c, None) = h
    BY QuietAgain
  <2> QED
    BY <2>1, <2>2, <2>3 DEF Command
<1>2. Typed(d, "StateSet", Idle) /\ Typed(c, "PortEnable", n)
  BY DEF Typed
<1>3. Runs({St(r, g, h, w)}, Send(d, "StateSet", Idle), {St(r, g1, h, w)})
  <2> HIDE DEF g, h
  <2> QED
    BY <1>1, <1>2, RunSend
<1>4. Runs({St(r, g1, h, w)}, Relate(c, d), {St(r, g1, h1, w)})
  <2> HIDE DEF g1, h
  <2> QED
    BY <1>1, RunRelate
<1> DEFINE P == {St(0, g, h1, w1), Lost(-1, d, b), Lost(-2, None, b)}
<1>5. Runs({St(r, g1, h1, w)}, check, P)
  <2> HIDE DEF g, g1, h, h1
  <2>1. /\ Sync(0, Put(g1, d, NoCommand), h1, {}, b, After(w, g1[d])) \in P
        /\ Lost(-1, d, b) \in P /\ Lost(-2, None, b) \in P
    BY <1>1
  <2>2. c # None
    <3> SUFFICES None \notin Comps
      OBVIOUS
    <3> QED
      BY ComponentsAssumption DEF Components, None, video_decode, video_scheduler, video_render, video_clock, audio_render, clock
  <2> HIDE DEF P
  <2> QED
    BY <1>1, <1>2, <2>1, <2>2, RunWaitDual
<1> DEFINE L == {Lost(-1, d, b), Lost(-2, None, b)}
<1>6. L \subseteq Failing(b)
  BY Losses
<1>7. Runs(P, Relate(c, None), {St(0, g, h, w1)} \cup Failing(b))
  <2> DEFINE V == {St(0, g, h, w1)} \cup Failing(b)
  <2>1. Runs({St(0, g, h1, w1)}, Relate(c, None), {St(0, g, h, w1)})
    <3> HIDE DEF g, h, h1
    <3> QED
      BY <1>1, RunRelate
  <2>2. /\ Runs({Lost(-1, d, b)}, Relate(c, None), {Lost(-1, d, b)})
        /\ Runs({Lost(-2, None, b)}, Relate(c, None), {Lost(-2, None, b)})
    BY RunRelateLost
  <2>3. {St(0, g, h, w1)} \subseteq V /\ {Lost(-1, d, b)} \subseteq V /\ {Lost(-2, None, b)} \subseteq V
    BY <1>6
  <2> HIDE DEF V
  <2>4. /\ Runs({St(0, g, h1, w1)}, Relate(c, None), V) /\ Runs({Lost(-1, d, b)}, Relate(c, None), V)
        /\ Runs({Lost(-2, None, b)}, Relate(c, None), V)
    BY <2>1, <2>2, <2>3, RunMore
  <2>5. \A S \in P : Runs({S}, Relate(c, None), V)
    BY <2>4
  <2>6. IsSeq(Relate(c, None))
    BY OneIsSeq DEF Relate
  <2> HIDE DEF P
  <2>7. Runs(P, Relate(c, None), V)
    BY <2>5, <2>6, RunEach
  <2> QED
    BY <2>7 DEF V
<1>8. Runs({St(0, g, h, w1)}, IfReturned(0, source, no), Q)
  <2>1. Runs({St(0, g, h, w1)}, source, Q)
    BY RunSource
  <2> HIDE DEF source, no, Q, g, h, w1
  <2> QED
    BY <2>1, CalmIf
<1>9. Runs(Failing(b), IfReturned(0, source, no), Q)
  <2>1. Runs(Losing(b), ofOther, Losing(b))
    <3>1. Runs(Losing(b), Wait(c, "PortEnable", n), Losing(b))
      BY <1>2, LostWait
    <3>2. Runs(Losing(b), ilclient_disable_port(d, k), Losing(b))
      BY LostDisablePort
    <3> QED
      BY <3>1, <3>2, RunSeq
  <2>2. Runs(Failing(b), IfReturned(-2, ofOther, <<>>), Losing(b))
    <3> HIDE DEF ofOther
    <3> QED
      BY <2>1, LostNothing, LostIf
  <2>3. Runs(Losing(b), giveUp, Losing(b)) /\ Runs(Losing(b), Return(-1), Failing(b))
    BY LostDisablePort, LostReturn
  <2>4. Runs(Failing(b), no, Failing(b))
    <3> HIDE DEF giveUp, ofOther
    <3>1. Runs(Failing(b), IfReturned(-2, ofOther, <<>>) \o giveUp, Losing(b))
      BY <2>2, <2>3, RunSeq
    <3> QED
      BY <3>1, <2>3, RunSeq
  <2>5. Failing(b) \subseteq Q
    OBVIOUS
  <2> HIDE DEF no, source, Q
  <2>6. Runs(Failing(b), no, Q)
    BY <2>4, <2>5, RunMore
  <2> QED
    BY <2>6, FailIf
<1>10. Runs({St(0, g, h, w1)} \cup Failing(b), IfReturned(0, source, no), Q)
  <2> HIDE DEF source, no, Q, St
  <2> QED
    BY <1>8, <1>9, RunBoth
<1> DEFINE p == Send(d, "StateSet", Idle) \o (Relate(c, d) \o check \o Relate(c, None))
                \o IfReturned(0, source, no)
<1>11. Runs({St(r, g, h, w)}, p, Q)
  <2> HIDE DEF St, P, Q, source, no, check, g, h, g1, h1
  <2>1. Runs({St(r, g1, h, w)}, Relate(c, d) \o check, P)
    BY <1>4, <1>5, RunSeq
  <2>2. Runs({St(r, g1, h, w)}, Relate(c, d) \o check \o Relate(c, None), {St(0, g, h, w1)} \cup Failing(b))
    BY <2>1, <1>7, RunSeq
  <2>3. Runs({St(r, g, h, w)}, Send(d, "StateSet", Idle) \o (Relate(c, d) \o check \o Relate(c, None)),
             {St(0, g, h, w1)} \cup Failing(b))
    BY <1>3, <2>2, RunSeq
  <2> QED
    BY <2>3, <1>10, RunSeq
<1> QED
  BY <1>11 DEF WaitDual

On(w, x, y) ==
  LET A == Command(x[1], "PortEnable", x[2])
      B == Command(y[1], "PortEnable", y[2])
      I == Command(y[1], "StateSet", Idle)
  IN  IF w.state[y[1]] = Loaded THEN After(After(After(w, B), I), A)
      ELSE After(After(w, B), A)

LEMMA RunEnableTunnel ==
  ASSUME NEW r, NEW b, NEW w, NEW x \in Comps \X Int, NEW y \in Comps \X Int,
         x[1] # y[1], x[1] \in b.alive, y[1] \in b.alive,
         x[2] \in ToSet(PortsOf(x[1])), y[2] \in ToSet(PortsOf(y[1]))
  PROVE  Runs({Calm(r, b, w)}, ilclient_enable_tunnel(<<x, y>>),
              {Calm(0, b, On(w, x, y))} \cup Failing(b))
<1> DEFINE c == x[1]  d == y[1]  n == x[2]  k == y[2]
           A == Command(c, "PortEnable", n)  B == Command(d, "PortEnable", k)
           I == Command(d, "StateSet", Idle)
           g1 == Put(Quiet, c, A)  g2 == Put(g1, d, B)
           h == Unrelated
           w1 == After(w, B)
           St(v, gg, ww) == Sync(v, gg, h, {}, b, ww)
           Q == {Calm(0, b, On(w, x, y))} \cup Failing(b)
           giveUp == ilclient_disable_port(c, n)
           source == Wait(c, "PortEnable", n)
                        \o IfReturned(0, <<>>, ilclient_disable_port(d, k) \o Return(-1))
           ofOther == Wait(c, "PortEnable", n) \o ilclient_disable_port(d, k)
           toIdle == Send(d, "StateSet", Idle) \o WaitDual(d, "StateSet", Idle, c)
                     \o IfReturned(0, source,
                          IfReturned(-2, ofOther, <<>>) \o giveUp \o Return(-1))
           look == WaitForEvent(c, Complete("PortEnable", n), "PORT_ENABLED", FALSE)
           on == Wait(d, "PortEnable", k)
           no1 == giveUp \o Return(-1)
           no2 == giveUp \o look \o Return(-1)
           yes == on \o IfReturned(0, toIdle, no1)
           no == on \o IfReturned(0, source, no2)
<1>1. /\ Quiet[c] = NoCommand /\ h[c] = None /\ h[d] = None /\ g1[d] = NoCommand /\ g2[d] = B
      /\ Put(g2, d, NoCommand) = g1 /\ B.cmd = "PortEnable"
  <2>1. Put(g2, d, NoCommand) = g1
    BY DEF Put, Quiet
  <2> QED
    BY <2>1, PutGet, QuietAgain DEF Command
<1>2. /\ Typed(d, "PortEnable", k) /\ Typed(c, "PortEnable", n) /\ c \in Comps /\ d \in Comps
      /\ Lost(-1, d, b) \in Failing(b)
  BY Losses DEF Typed
<1>3. Runs({Calm(r, b, w)}, Send(c, "PortEnable", n), {St(r, g1, w)})
  <2> HIDE DEF h
  <2> QED
    BY <1>1, <1>2, RunSend DEF Calm, h
<1>4. Runs({St(r, g1, w)}, Send(d, "PortEnable", k), {St(r, g2, w)})
  <2> HIDE DEF h, g1
  <2> QED
    BY <1>1, <1>2, RunSend
<1> DEFINE P == {St(0, g1, w1)} \cup Failing(b)
<1>5. Runs({St(r, g2, w)}, on, P)
  <2> HIDE DEF g2, h, g1
  <2>1. Sync(0, Put(g2, d, NoCommand), h, {}, b, After(w, g2[d])) \in P /\ Lost(-1, d, b) \in P
    BY <1>1, <1>2
  <2> HIDE DEF P
  <2> QED
    BY <1>1, <1>2, <2>1, RunWaitDual DEF Wait
<1>6. /\ Runs(Failing(b), no1, Failing(b)) /\ Runs(Failing(b), no2, Failing(b))
  <2>1. Runs(Failing(b), no1, Failing(b))
    BY <1>2, LostGiveUp
  <2>2. Runs(Failing(b), giveUp, Losing(b)) /\ Runs(Losing(b), look, Losing(b)) /\ Runs(Losing(b), Return(-1), Failing(b))
    <3>1. Runs(Failing(b), giveUp, Losing(b))
      BY <1>2, LostDisablePort
    <3>2. Runs(Losing(b), look, Losing(b))
      BY <1>2, LostLook
    <3>3. Runs(Losing(b), Return(-1), Failing(b))
      BY LostReturn
    <3> QED
      BY <3>1, <3>2, <3>3
  <2>3. Runs(Failing(b), giveUp \o look, Losing(b))
    <3> HIDE DEF giveUp, look
    <3> QED
      BY <2>2, RunSeq
  <2>4. Runs(Failing(b), no2, Failing(b))
    <3> HIDE DEF giveUp, look
    <3> QED
      BY <2>2, <2>3, RunSeq
  <2> QED
    BY <2>1, <2>4
<1>7. Failing(b) \subseteq Q
  OBVIOUS
<1>8. ASSUME w.state[d] = Loaded PROVE Runs({St(r, g2, w)}, yes, Q)
  <2>1. On(w, x, y) = After(After(w1, I), A)
    BY <1>8 DEF On
  <2>2. Runs({St(0, g1, w1)}, toIdle, Q)
    <3>1. Runs({St(0, g1, w1)}, toIdle, {Calm(0, b, After(After(w1, I), A))} \cup Failing(b))
      <4> HIDE DEF w1
      <4> QED
        BY <1>2, RunToIdle
    <3> QED
      BY <2>1, <3>1
  <2> HIDE DEF Q, no1, toIdle, on, g1, g2, h, w1
  <2>3. Runs(Failing(b), IfReturned(0, toIdle, no1), Q)
    <3>1. Runs(Failing(b), no1, Q)
      BY <1>6, <1>7, RunMore
    <3> QED
      BY <3>1, FailIf
  <2>4. Runs({St(0, g1, w1)}, IfReturned(0, toIdle, no1), Q)
    BY <2>2, CalmIf
  <2>5. Runs(P, IfReturned(0, toIdle, no1), Q)
    BY <2>3, <2>4, RunBoth
  <2> HIDE DEF St, P
  <2> QED
    BY <1>5, <2>5, RunSeq
<1>9. ASSUME w.state[d] # Loaded PROVE Runs({St(r, g2, w)}, no, Q)
  <2>1. On(w, x, y) = After(w1, A)
    BY <1>9 DEF On
  <2>2. Runs({St(0, g1, w1)}, source, Q)
    <3>1. Runs({St(0, g1, w1)}, source, {Calm(0, b, After(w1, A))} \cup Failing(b))
      <4> HIDE DEF w1
      <4> QED
        BY <1>2, RunSource
    <3> QED
      BY <2>1, <3>1
  <2> HIDE DEF Q, no2, source, on, g1, g2, h, w1
  <2>3. Runs(Failing(b), IfReturned(0, source, no2), Q)
    <3>1. Runs(Failing(b), no2, Q)
      BY <1>6, <1>7, RunMore
    <3> QED
      BY <3>1, FailIf
  <2>4. Runs({St(0, g1, w1)}, IfReturned(0, source, no2), Q)
    BY <2>2, CalmIf
  <2>5. Runs(P, IfReturned(0, source, no2), Q)
    BY <2>3, <2>4, RunBoth
  <2> HIDE DEF St, P
  <2> QED
    BY <1>5, <2>5, RunSeq
<1>10. Runs({St(r, g2, w)}, IfState(d, {Loaded}, yes, no), Q)
  <2> HIDE DEF yes, no, Q
  <2>1. Runs({St(r, g2, w)}, IF w.state[d] \in {Loaded} THEN yes ELSE no, Q)
    BY <1>8, <1>9
  <2>2. g2[d].cmd # "StateSet"
    BY <1>1
  <2> HIDE DEF g2, h
  <2> QED
    BY <1>2, <2>1, <2>2, RunIfState
<1> DEFINE p == Send(c, "PortEnable", n) \o Send(d, "PortEnable", k) \o IfState(d, {Loaded}, yes, no)
<1>11. Runs({Calm(r, b, w)}, p, Q)
  <2> HIDE DEF St, Q, yes, no, g1, g2
  <2>1. Runs({Calm(r, b, w)}, Send(c, "PortEnable", n) \o Send(d, "PortEnable", k), {St(r, g2, w)})
    BY <1>3, <1>4, RunSeq
  <2> QED
    BY <2>1, <1>10, RunSeq
<1>12. ilclient_enable_tunnel(<<x, y>>) = p
  BY DEF ilclient_enable_tunnel
<1> QED
  BY <1>11, <1>12

LEMMA RunPair ==
  ASSUME NEW f, NEW g, NEW P, NEW U, NEW Q, Runs(P, <<f>>, U), Runs(U, <<g>>, Q)
  PROVE  Runs(P, <<f, g>>, Q)
<1>1. Runs(P, <<f>> \o <<g>>, Q)
  BY RunSeq
<1>2. <<f>> \o <<g>> = <<f, g>>
  <2> DEFINE T == {f, g}  s == <<f>> \o <<g>>  t == <<f, g>>
  <2>1. <<f>> \in Seq(T) /\ <<g>> \in Seq(T) /\ Len(<<f>>) = 1 /\ Len(<<g>>) = 1
        /\ <<f>>[1] = f /\ <<g>>[1] = g
    OBVIOUS
  <2>2. /\ s \in Seq(T) /\ Len(s) = 1 + 1
        /\ \A i \in 1 .. 1 + 1 : s[i] = IF i <= 1 THEN <<f>>[i] ELSE <<g>>[i - 1]
    BY <2>1, ConcatProperties
  <2>3. t \in Seq(T) /\ Len(t) = 2 /\ t[1] = f /\ t[2] = g
    OBVIOUS
  <2>4. s[1] = f /\ s[2] = g
    BY <2>1, <2>2
  <2> HIDE DEF s, t, T
  <2>5. \A i \in 1 .. Len(s) : s[i] = t[i]
    <3>1. \A i \in 1 .. Len(s) : i = 1 \/ i = 2
      BY <2>2
    <3> QED
      BY <2>3, <2>4, <3>1
  <2>6. s = t
    BY <2>2, <2>3, <2>5, SeqEqual
  <2> QED
    BY <2>6 DEF s, t
<1> QED
  BY <1>1, <1>2

(* The ends are connected, and their ports enabled.                        *)
Joint(w, x, y) == On(Linked(Off(w, x, y), x, y), x, y)

LEMMA RunReconnect ==
  ASSUME NEW r, NEW b, NEW w, NEW x \in Comps \X Int, NEW y \in Comps \X Int,
         x[1] # y[1], x[1] \in b.alive, y[1] \in b.alive,
         x[2] \in ToSet(PortsOf(x[1])), y[2] \in ToSet(PortsOf(y[1]))
  PROVE  LET undo == <<[do |-> "unjoin", end |-> x], [do |-> "unjoin", end |-> y]>>
             join == <<[do |-> "join", a |-> x, b |-> y]>>
                     \o IfReturned(0,
                          ilclient_enable_tunnel(<<x, y>>)
                          \o IfReturned(0, <<>>,
                               undo \o RemoveEvent(y[1], AnyError)
                               \o RemoveEvent(x[1], AnyError) \o Return(-5)),
                          undo \o Return(-5))
         IN  Runs({Calm(r, b, w)}, ilclient_disable_tunnel(<<x, y>>) \o join,
                  {Calm(0, b, Joint(w, x, y))} \cup Failing(b))
<1> DEFINE undo == <<[do |-> "unjoin", end |-> x], [do |-> "unjoin", end |-> y]>>
           j == <<[do |-> "join", a |-> x, b |-> y]>>
           no1 == undo \o RemoveEvent(y[1], AnyError) \o RemoveEvent(x[1], AnyError) \o Return(-5)
           no2 == undo \o Return(-5)
           en == ilclient_enable_tunnel(<<x, y>>)
           yes == en \o IfReturned(0, <<>>, no1)
           w1 == Off(w, x, y)  w2 == Linked(w1, x, y)  w3 == On(w2, x, y)
           Q == {Calm(0, b, w3)} \cup Failing(b)
           P == {Calm(0, b, w2)} \cup Failing(b)
           off == ilclient_disable_tunnel(<<x, y>>)
<1>1. Runs({Calm(r, b, w)}, off, {Calm(0, b, w1)})
  BY RunDisableTunnel
<1>2. Runs({Calm(0, b, w1)}, j, P)
  <2>1. Runs({Calm(0, b, w1)}, j, {Calm(0, b, w2), Lost(-1, None, b)})
    <3> HIDE DEF w1
    <3> QED
      BY RunJoin DEF Calm
  <2>2. {Calm(0, b, w2), Lost(-1, None, b)} \subseteq P
    BY Losses
  <2> HIDE DEF P, w2
  <2> QED
    BY <2>1, <2>2, RunMore
<1>3. Runs(Losing(b), undo, Losing(b)) /\ Runs(Failing(b), undo, Losing(b))
  BY LostUnjoin, RunPair
<1>4. Runs(Failing(b), no1, Failing(b)) /\ Runs(Failing(b), no2, Failing(b))
  <2>1. /\ Runs(Losing(b), RemoveEvent(y[1], AnyError), Losing(b))
        /\ Runs(Losing(b), RemoveEvent(x[1], AnyError), Losing(b))
        /\ Runs(Losing(b), Return(-5), Failing(b))
    <3>1. x[1] \in Comps /\ y[1] \in Comps
      OBVIOUS
    <3> QED
      BY <3>1, LostRemove, LostReturn
  <2> HIDE DEF undo
  <2>2. Runs(Failing(b), undo \o RemoveEvent(y[1], AnyError), Losing(b))
    BY <1>3, <2>1, RunSeq
  <2>3. Runs(Failing(b), undo \o RemoveEvent(y[1], AnyError) \o RemoveEvent(x[1], AnyError), Losing(b))
    BY <2>1, <2>2, RunSeq
  <2>4. Runs(Failing(b), no1, Failing(b))
    BY <2>1, <2>3, RunSeq
  <2>5. Runs(Failing(b), no2, Failing(b))
    BY <1>3, <2>1, RunSeq
  <2> QED
    BY <2>4, <2>5
<1>5. Failing(b) \subseteq Q
  OBVIOUS
<1>6. Runs({Calm(0, b, w2)}, en, Q)
  <2> HIDE DEF w2
  <2> QED
    BY RunEnableTunnel
<1>7. Runs(Q, IfReturned(0, <<>>, no1), Q)
  <2>1. Runs({Calm(0, b, w3)}, <<>>, Q)
    <3>1. Runs({Calm(0, b, w3)}, <<>>, {Calm(0, b, w3)}) /\ {Calm(0, b, w3)} \subseteq Q
      BY RunNothing
    <3> HIDE DEF w3, Q
    <3> QED
      BY <3>1, RunMore
  <2> HIDE DEF no1, w3
  <2>2. Runs({Calm(0, b, w3)}, IfReturned(0, <<>>, no1), Q)
    <3> HIDE DEF Q
    <3> QED
      BY <2>1, CalmIf DEF Calm
  <2>3. Runs(Failing(b), IfReturned(0, <<>>, no1), Q)
    <3> HIDE DEF Q
    <3>1. Runs(Failing(b), no1, Q)
      BY <1>4, <1>5, RunMore
    <3> QED
      BY <3>1, FailIf
  <2> QED
    BY <2>2, <2>3, RunBoth
<1>8. Runs({Calm(0, b, w2)}, yes, Q)
  <2> HIDE DEF en, no1, Q, w2
  <2> QED
    BY <1>6, <1>7, RunSeq
<1>9. Runs(P, IfReturned(0, yes, no2), Q)
  <2> HIDE DEF yes, no2, Q, w2
  <2>1. Runs({Calm(0, b, w2)}, IfReturned(0, yes, no2), Q)
    BY <1>8, CalmIf DEF Calm
  <2>2. Runs(Failing(b), no2, Q)
    BY <1>4, <1>5, RunMore
  <2>3. Runs(Failing(b), IfReturned(0, yes, no2), Q)
    BY <2>2, FailIf
  <2> QED
    BY <2>1, <2>3, RunBoth
<1>10. Runs({Calm(0, b, w1)}, j \o IfReturned(0, yes, no2), Q)
  <2> HIDE DEF j, yes, no2, P, Q
  <2> QED
    BY <1>2, <1>9, RunSeq
<1>11. Runs({Calm(r, b, w)}, off \o (j \o IfReturned(0, yes, no2)), Q)
  <2> HIDE DEF j, yes, no2, Q, off
  <2> QED
    BY <1>1, <1>10, RunSeq
<1> QED
  BY <1>11 DEF Joint

(* A result that is no success ends the program when one is insisted on.   *)
LEMMA RunInsistEither ==
  ASSUME NEW b, NEW w
  PROVE  Runs({Calm(0, b, w)} \cup Failing(b), Insist, {Calm(0, b, w)})
<1>1. Runs({Calm(0, b, w)}, Insist, {Calm(0, b, w)})
  BY RunInsist DEF Calm
<1>2. Runs(Failing(b), Insist, {Calm(0, b, w)})
  BY LostInsist
<1> QED
  BY <1>1, <1>2, RunBoth

(* What ilclient_setup_tunnel does, from the source end's state on.        *)
LEMMA SetupParts ==
  ASSUME NEW x, NEW y
  PROVE  LET undo == <<[do |-> "unjoin", end |-> x], [do |-> "unjoin", end |-> y]>>
             join == <<[do |-> "join", a |-> x, b |-> y]>>
                     \o IfReturned(0,
                          ilclient_enable_tunnel(<<x, y>>)
                          \o IfReturned(0, <<>>,
                               undo \o RemoveEvent(y[1], AnyError)
                               \o RemoveEvent(x[1], AnyError) \o Return(-5)),
                          undo \o Return(-5))
             reconnect == ilclient_disable_tunnel(<<x, y>>) \o join
             settings == WaitForEvent(x[1], SettingsChanged(x[2]), "PARAMETER_CHANGED", TRUE)
                         \o IfReturned(0, reconnect, <<>>)
         IN  /\ ilclient_setup_tunnel(<<x, y>>, FALSE)
                  = IfState(x[1], {Loaded},
                      ilclient_change_component_state(x[1], Idle)
                      \o IfReturned(0, reconnect, Return(-2)),
                      reconnect)
             /\ ilclient_setup_tunnel(<<x, y>>, TRUE)
                  = IfState(x[1], {Loaded},
                      ilclient_change_component_state(x[1], Idle)
                      \o IfReturned(0, settings, Return(-2)),
                      settings)
BY DEF ilclient_setup_tunnel

Joinable(b, x, y) ==
  /\ x \in Comps \X Int /\ y \in Comps \X Int
  /\ x[1] # y[1] /\ x[1] \in b.alive /\ y[1] \in b.alive
  /\ x[2] \in ToSet(PortsOf(x[1])) /\ y[2] \in ToSet(PortsOf(y[1]))

LEMMA RunSetupTunnel ==
  ASSUME NEW r, NEW b, NEW w, NEW x, NEW y, Joinable(b, x, y)
  PROVE  /\ w.state[x[1]] # Loaded =>
              Runs({Calm(r, b, w)}, ilclient_setup_tunnel(<<x, y>>, FALSE) \o Insist,
                   {Calm(0, b, Joint(w, x, y))})
         /\ w.state[x[1]] = Loaded =>
              Runs({Calm(r, b, w)}, ilclient_setup_tunnel(<<x, y>>, FALSE) \o Insist,
                   {Calm(0, b, Joint(After(w, Command(x[1], "StateSet", Idle)), x, y))})
         /\ w.state[x[1]] # Loaded /\ x = <<video_scheduler, 11>> =>
              Runs({Calm(r, b, w)}, ilclient_setup_tunnel(<<x, y>>, TRUE) \o Insist,
                   {Calm(0, b, Joint(w, x, y))})
<1> DEFINE undo == <<[do |-> "unjoin", end |-> x], [do |-> "unjoin", end |-> y]>>
           join == <<[do |-> "join", a |-> x, b |-> y]>>
                     \o IfReturned(0,
                          ilclient_enable_tunnel(<<x, y>>)
                          \o IfReturned(0, <<>>,
                               undo \o RemoveEvent(y[1], AnyError)
                               \o RemoveEvent(x[1], AnyError) \o Return(-5)),
                          undo \o Return(-5))
           reconnect == ilclient_disable_tunnel(<<x, y>>) \o join
           look == WaitForEvent(x[1], SettingsChanged(x[2]), "PARAMETER_CHANGED", TRUE)
           settings == look \o IfReturned(0, reconnect, <<>>)
           change == ilclient_change_component_state(x[1], Idle)
           yes1 == change \o IfReturned(0, reconnect, Return(-2))
           yes2 == change \o IfReturned(0, settings, Return(-2))
           c == x[1]
<1>1. /\ ilclient_setup_tunnel(<<x, y>>, FALSE) = IfState(c, {Loaded}, yes1, reconnect)
      /\ ilclient_setup_tunnel(<<x, y>>, TRUE) = IfState(c, {Loaded}, yes2, settings)
  BY SetupParts
<1>2. \A v, rr : Runs({Calm(rr, b, v)}, reconnect, {Calm(0, b, Joint(v, x, y))} \cup Failing(b))
  BY RunReconnect DEF Joinable
<1>3. c \in Comps /\ c \in b.alive /\ Quiet[c].cmd # "StateSet"
  BY DEF Joinable, Quiet, NoCommand, Command
<1> HIDE DEF reconnect
<1>4. ASSUME w.state[c] # Loaded
      PROVE  Runs({Calm(r, b, w)}, ilclient_setup_tunnel(<<x, y>>, FALSE) \o Insist,
                   {Calm(0, b, Joint(w, x, y))})
  <2> DEFINE Q == {Calm(0, b, Joint(w, x, y))} \cup Failing(b)
  <2> HIDE DEF yes1, Q
  <2>1. Runs({Calm(r, b, w)}, reconnect, Q)
    BY <1>2 DEF Q
  <2>2. Runs({Calm(r, b, w)}, IF w.state[c] \in {Loaded} THEN yes1 ELSE reconnect, Q)
    BY <1>4, <2>1
  <2>3. Runs({Calm(r, b, w)}, IfState(c, {Loaded}, yes1, reconnect), Q)
    BY <1>3, <2>2, RunIfState DEF Calm
  <2>4. Runs(Q, Insist, {Calm(0, b, Joint(w, x, y))})
    BY RunInsistEither DEF Q
  <2> QED
    BY <1>1, <2>3, <2>4, RunSeq
<1>5. ASSUME w.state[c] = Loaded
      PROVE  Runs({Calm(r, b, w)}, ilclient_setup_tunnel(<<x, y>>, FALSE) \o Insist,
                   {Calm(0, b, Joint(After(w, Command(c, "StateSet", Idle)), x, y))})
  <2> DEFINE w1 == After(w, Command(c, "StateSet", Idle))
             U == {Calm(0, b, Joint(w1, x, y))} \cup Failing(b)
             sp == Calm(-2, b, Spoilt(w, c))
             Q == U \cup {sp}
             no == Return(-2)
  <2>1. Runs({Calm(r, b, w)}, change, {Calm(0, b, w1)} \cup {Calm(-1, b, Spoilt(w, c))})
    <3>1. Idle \in {Loaded, Idle, Executing}
      OBVIOUS
    <3>2. Runs({Calm(r, b, w)}, change, {Calm(0, b, w1), Calm(-1, b, Spoilt(w, c))})
      BY <1>3, <3>1, RunChangeState
    <3>3. {Calm(0, b, w1), Calm(-1, b, Spoilt(w, c))} = {Calm(0, b, w1)} \cup {Calm(-1, b, Spoilt(w, c))}
      OBVIOUS
    <3> QED
      BY <3>2, <3>3
  <2>2. Runs({Calm(0, b, w1)}, IfReturned(0, reconnect, no), Q)
    <3> HIDE DEF w1, no
    <3>1. Runs({Calm(0, b, w1)}, reconnect, U) /\ U \subseteq Q
      BY <1>2
    <3> HIDE DEF U, Q
    <3>2. Runs({Calm(0, b, w1)}, reconnect, Q)
      BY <3>1, RunMore
    <3> QED
      BY <3>2, CalmIf DEF Calm
  <2>3. Runs({Calm(-1, b, Spoilt(w, c))}, IfReturned(0, reconnect, no), Q)
    <3> DEFINE S == Calm(-1, b, Spoilt(w, c))
    <3>1. S.ret # 0 /\ S.doom \in BOOLEAN
      BY DEF Calm, Sync
    <3>2. Runs({S}, no, {sp})
      <4>1. -2 \in -5 .. 0
        OBVIOUS
      <4> QED
        BY <4>1, RunReturn DEF Calm
    <3>3. {sp} \subseteq Q
      OBVIOUS
    <3> HIDE DEF S, sp, Q, no
    <3>4. Runs({S}, no, Q)
      BY <3>2, <3>3, RunMore
    <3>5. Runs({S}, IF S.ret = 0 THEN reconnect ELSE no, Q)
      BY <3>1, <3>4
    <3>6. Runs({S}, IfReturned(0, reconnect, no), Q)
      BY <3>1, <3>5, RunIfReturned
    <3> QED
      BY <3>6 DEF S
  <2>4. Runs({Calm(r, b, w)}, yes1, Q)
    <3> HIDE DEF Q, w1, no, change
    <3>1. Runs({Calm(0, b, w1)} \cup {Calm(-1, b, Spoilt(w, c))}, IfReturned(0, reconnect, no), Q)
      BY <2>2, <2>3, RunBoth
    <3> QED
      BY <2>1, <3>1, RunSeq DEF no
  <2>5. Runs({Calm(r, b, w)}, IfState(c, {Loaded}, yes1, reconnect), Q)
    <3> HIDE DEF Q, yes1
    <3>1. Runs({Calm(r, b, w)}, IF w.state[c] \in {Loaded} THEN yes1 ELSE reconnect, Q)
      BY <1>5, <2>4
    <3> QED
      BY <1>3, <3>1, RunIfState DEF Calm
  <2>6. Runs(Q, Insist, {Calm(0, b, Joint(w1, x, y))})
    <3>1. Runs({sp}, Insist, {Calm(0, b, Joint(w1, x, y))})
      <4>1. Spoilt(w, c).spoiled # {}
        BY DEF Spoilt, World
      <4> QED
        BY <4>1, RunInsistSpoilt DEF Calm
    <3>2. Runs(U, Insist, {Calm(0, b, Joint(w1, x, y))})
      BY RunInsistEither
    <3> HIDE DEF U, sp
    <3> QED
      BY <3>1, <3>2, RunBoth
  <2> HIDE DEF Q, w1, yes1
  <2>7. Runs({Calm(r, b, w)}, ilclient_setup_tunnel(<<x, y>>, FALSE) \o Insist, {Calm(0, b, Joint(w1, x, y))})
    BY <1>1, <2>5, <2>6, RunSeq
  <2> QED
    BY <2>7 DEF w1
<1>6. ASSUME w.state[c] # Loaded, x = <<video_scheduler, 11>>
      PROVE  Runs({Calm(r, b, w)}, ilclient_setup_tunnel(<<x, y>>, TRUE) \o Insist,
                   {Calm(0, b, Joint(w, x, y))})
  <2> DEFINE U == {Calm(0, b, w), Lost(-1, None, b), Lost(-2, None, b)}
             Q == {Calm(0, b, Joint(w, x, y))} \cup Failing(b)
  <2>1. Runs({Calm(r, b, w)}, look, U)
    <3>1. c = video_scheduler /\ x[2] = 11
      BY <1>6
    <3>2. Quiet[c] = NoCommand
      BY <1>3 DEF Quiet
    <3> QED
      BY <1>3, <3>1, <3>2, RunLook DEF Calm
  <2>2. Runs({Calm(0, b, w)}, IfReturned(0, reconnect, <<>>), Q)
    <3>1. Runs({Calm(0, b, w)}, reconnect, Q)
      BY <1>2
    <3> HIDE DEF Q
    <3> QED
      BY <3>1, CalmIf DEF Calm
  <2>3. Runs(Failing(b), IfReturned(0, reconnect, <<>>), Q)
    <3>1. Runs(Failing(b), <<>>, Failing(b)) /\ Failing(b) \subseteq Q
      BY RunNothing
    <3> HIDE DEF Q
    <3>2. Runs(Failing(b), <<>>, Q)
      BY <3>1, RunMore
    <3> QED
      BY <3>2, FailIf
  <2>4. Runs(U, IfReturned(0, reconnect, <<>>), Q)
    <3> DEFINE V == {Calm(0, b, w)} \cup Failing(b)
    <3>1. U \subseteq V
      BY Losses
    <3>2. Runs(V, IfReturned(0, reconnect, <<>>), Q)
      <4> HIDE DEF Q
      <4> QED
        BY <2>2, <2>3, RunBoth
    <3> HIDE DEF U, V, Q
    <3> QED
      BY <3>1, <3>2, RunLess
  <2>5. Runs({Calm(r, b, w)}, settings, Q)
    <3> HIDE DEF U, Q, look
    <3> QED
      BY <2>1, <2>4, RunSeq
  <2>6. Runs({Calm(r, b, w)}, IfState(c, {Loaded}, yes2, settings), Q)
    <3> HIDE DEF Q, yes2, settings
    <3>1. Runs({Calm(r, b, w)}, IF w.state[c] \in {Loaded} THEN yes2 ELSE settings, Q)
      BY <1>6, <2>5
    <3> QED
      BY <1>3, <3>1, RunIfState DEF Calm
  <2>7. Runs(Q, Insist, {Calm(0, b, Joint(w, x, y))})
    BY RunInsistEither
  <2> HIDE DEF Q, yes2, settings
  <2> QED
    BY <1>1, <2>6, <2>7, RunSeq
<1> QED
  BY <1>4, <1>5, <1>6

LEMMA RunCleanup ==
  ASSUME NEW b, NEW c \in Comps, c \in b.alive, NEW n \in ToSet(PortsOf(c))
  PROVE  Runs({Lost(-1, c, b)},
              ilclient_disable_port_buffers(c, n) \o RemoveEvent(c, CommandError) \o Return(-1),
              Failing(b))
<1> DEFINE S == Lost(-1, c, b)
           yes == Send(c, "PortDisable", n) \o <<Drain(c, n, NumBuffers)>>
<1>1. Runs({S}, yes, Losing(b))
  <2>1. Typed(c, "PortDisable", n)
    BY DEF Typed
  <2>2. Runs({S}, Send(c, "PortDisable", n), {S})
    BY <2>1, RunSendLost
  <2>3. Runs({S}, <<Drain(c, n, NumBuffers)>>, {Lost(0, None, b)})
    BY RunDrain, CoreAssumption
  <2>4. {Lost(0, None, b)} \subseteq Losing(b)
    BY Losses
  <2>5. Runs({S}, yes, {Lost(0, None, b)})
    <3> HIDE DEF S
    <3> QED
      BY <2>2, <2>3, RunSeq
  <2> QED
    BY <2>4, <2>5, RunMore
<1>2. Runs({S}, <<>>, Losing(b))
  <2>1. {S} \subseteq Losing(b)
    BY Losses
  <2> QED
    BY <2>1, LostNothing, RunLess
<1>3. Runs({S}, ilclient_disable_port_buffers(c, n), Losing(b))
  <2>1. Runs({S}, IfEnabled(c, n, yes, <<>>), Losing(b))
    <3> HIDE DEF yes
    <3> QED
      BY <1>1, <1>2, RunIfEnabledLost
  <2> QED
    BY <2>1 DEF ilclient_disable_port_buffers, Drain
<1>4. Runs(Losing(b), RemoveEvent(c, CommandError), Losing(b)) /\ Runs(Losing(b), Return(-1), Failing(b))
  BY LostRemove, LostReturn
<1>5. Runs({S}, ilclient_disable_port_buffers(c, n) \o RemoveEvent(c, CommandError), Losing(b))
  BY <1>3, <1>4, RunSeq
<1> QED
  BY <1>4, <1>5, RunSeq

(* The port and its buffers.                                               *)
LEMMA RunEnablePortBuffers ==
  ASSUME NEW r, NEW b, NEW w, NEW c \in Comps, c \in b.alive, NEW n \in ToSet(PortsOf(c)) \cap Fed,
         n \notin w.enabled[c], w.supplied[c] = 0
  PROVE  /\ w.state[c] \in {Idle, Executing} =>
              Runs({Calm(r, b, w)}, ilclient_enable_port_buffers(c, n),
                   {Calm(0, b, After(Supplied(w, c, NumBuffers), Command(c, "PortEnable", n)))}
                   \cup Failing(b))
         /\ w.state[c] \notin {Idle, Executing} =>
              Runs({Calm(r, b, w)}, ilclient_enable_port_buffers(c, n), {Calm(-1, b, w)})
<1> DEFINE A == Command(c, "PortEnable", n)  g == Put(Quiet, c, A)
           done == Calm(0, b, After(Supplied(w, c, NumBuffers), A))
           Q == {done} \cup Failing(b)
           S == Calm(r, b, w)
           supply == Send(c, "PortEnable", n) \o <<Supply(c, n, <<>>)>>
           cleanup == ilclient_disable_port_buffers(c, n) \o RemoveEvent(c, CommandError) \o Return(-1)
           all == supply \o IfReturned(0, <<>>, cleanup)
           back == Return(-1)
           choice == IfState(c, {Idle, Executing}, all, back)
<1>1. g[c] = A /\ Put(g, c, NoCommand) = Quiet /\ Quiet[c] = NoCommand /\ Quiet[c].cmd # "StateSet"
      /\ Unrelated[c] = None
  BY PutGet, QuietAgain DEF NoCommand, Command
<1>2. Typed(c, "PortEnable", n) /\ Lost(-1, c, b) \in Failing(b)
  BY Losses DEF Typed
<1>3. Runs({S}, supply, {done} \cup {Lost(-1, c, b)})
  <2> DEFINE S1 == Sync(r, g, Unrelated, {}, b, w)
  <2> HIDE DEF g
  <2>1. Runs({S}, Send(c, "PortEnable", n), {S1})
    BY <1>1, <1>2, RunSend DEF Calm, g
  <2>2. Runs({S1}, <<Supply(c, n, <<>>)>>,
             {Sync(0, Put(g, c, NoCommand), Unrelated, {}, b, After(Supplied(w, c, NumBuffers), g[c])),
              Lost(-1, c, b)})
    BY <1>1, RunSupply
  <2>3. {Sync(0, Put(g, c, NoCommand), Unrelated, {}, b, After(Supplied(w, c, NumBuffers), g[c])),
              Lost(-1, c, b)} = {done} \cup {Lost(-1, c, b)}
    BY <1>1 DEF Calm
  <2> HIDE DEF S1, done, S
  <2> QED
    BY <2>1, <2>2, <2>3, RunSeq
<1>4. Runs({done} \cup {Lost(-1, c, b)}, IfReturned(0, <<>>, cleanup), Q)
  <2>1. Runs({done}, IfReturned(0, <<>>, cleanup), Q)
    <3>1. Runs({done}, <<>>, {done}) /\ {done} \subseteq Q
      BY RunNothing
    <3>2. Runs({done}, <<>>, Q)
      <4> HIDE DEF done, Q
      <4> QED
        BY <3>1, RunMore
    <3> HIDE DEF cleanup, Q
    <3> QED
      BY <3>2, CalmIf DEF Calm
  <2>2. Runs({Lost(-1, c, b)}, IfReturned(0, <<>>, cleanup), Q)
    <3> DEFINE L == Lost(-1, c, b)
    <3>1. L.ret # 0 /\ L.doom \in BOOLEAN
      BY DEF Lost
    <3>2. Runs({L}, cleanup, Failing(b)) /\ Failing(b) \subseteq Q
      BY RunCleanup
    <3> HIDE DEF L, cleanup, Q
    <3>3. Runs({L}, cleanup, Q)
      BY <3>2, RunMore
    <3>4. Runs({L}, IF L.ret = 0 THEN <<>> ELSE cleanup, Q)
      BY <3>1, <3>3
    <3>5. Runs({L}, IfReturned(0, <<>>, cleanup), Q)
      BY <3>1, <3>4, RunIfReturned
    <3> QED
      BY <3>5 DEF L
  <2> HIDE DEF done, cleanup, Q
  <2> QED
    BY <2>1, <2>2, RunBoth
<1>5. Runs({S}, all, Q)
  <2> HIDE DEF S, supply, done, cleanup, Q
  <2> QED
    BY <1>3, <1>4, RunSeq
<1>6. Runs({S}, back, {Calm(-1, b, w)})
  <2>1. -1 \in -5 .. 0
    OBVIOUS
  <2> QED
    BY <2>1, RunReturn DEF Calm
<1>7. ilclient_enable_port_buffers(c, n) = IfEnabled(c, n, back, choice)
  BY DEF ilclient_enable_port_buffers, Supply
<1> HIDE DEF all, back
<1>8. ASSUME NEW R, Runs({S}, choice, R) PROVE Runs({S}, ilclient_enable_port_buffers(c, n), R)
  <2> HIDE DEF choice
  <2>1. Runs({S}, IF n \in w.enabled[c] THEN back ELSE choice, R)
    BY <1>8
  <2>2. Runs({S}, IfEnabled(c, n, back, choice), R)
    BY <1>1, <2>1, RunIfEnabled DEF Calm
  <2> QED
    BY <1>7, <2>2
<1>9. ASSUME NEW R, Runs({S}, IF w.state[c] \in {Idle, Executing} THEN all ELSE back, R)
      PROVE  Runs({S}, choice, R)
  BY <1>1, <1>9, RunIfState DEF Calm
<1>10. ASSUME w.state[c] \in {Idle, Executing} PROVE Runs({S}, ilclient_enable_port_buffers(c, n), Q)
  <2> HIDE DEF Q, choice, S
  <2>1. Runs({S}, IF w.state[c] \in {Idle, Executing} THEN all ELSE back, Q)
    BY <1>5, <1>10
  <2> QED
    BY <1>8, <1>9, <2>1
<1>11. ASSUME w.state[c] \notin {Idle, Executing}
       PROVE Runs({S}, ilclient_enable_port_buffers(c, n), {Calm(-1, b, w)})
  <2> HIDE DEF choice, S
  <2>1. Runs({S}, IF w.state[c] \in {Idle, Executing} THEN all ELSE back, {Calm(-1, b, w)})
    BY <1>6, <1>11
  <2> QED
    BY <1>8, <1>9, <2>1
<1> QED
  BY <1>10, <1>11

LEMMA RunIntoOr ==
  ASSUME NEW f, NEW S, NEW Q, NEW q, NEW T, NEW U \in Q, Runs({T}, q, Q),
         \A k : IsSeq(k) => Good(f, k, S) /\ Nexts(f, k, S) = {<<q \o k, T>>, <<k, U>>}
  PROVE  Runs({S}, <<f>>, Q)
<1>1. ASSUME NEW k, IsSeq(k), \A V \in Q : Safe(k, V)
      PROVE  Safe(<<f>> \o k, S)
  <2>1. Safe(q \o k, T) /\ Safe(k, U)
    BY <1>1 DEF Runs
  <2> DEFINE y == <<q \o k, T>>  z == <<k, U>>  Y == {y, z}
  <2>2. /\ y = <<y[1], y[2]>> /\ Safe(y[1], y[2])
        /\ z = <<z[1], z[2]>> /\ Safe(z[1], z[2])
    BY <2>1
  <2>3. Good(f, k, S) /\ Nexts(f, k, S) \subseteq Y
    BY <1>1
  <2> HIDE DEF y, z
  <2>4. \A x \in Y : x = <<x[1], x[2]>> /\ Safe(x[1], x[2])
    BY <2>2
  <2> HIDE DEF Y
  <2> QED
    BY <1>1, <2>3, <2>4, SafeFold
<1>2. IsSeq(<<f>>)
  BY OneIsSeq
<1> QED
  BY <1>1, <1>2 DEF Runs

(* What the ports of a new component make together.                        *)
LEMMA TwoTogether ==
  ASSUME NEW f, NEW g
  PROVE  <<f>> \o <<g>> = <<f, g>>
<1> DEFINE T == {f, g}  s == <<f>> \o <<g>>  t == <<f, g>>
<1>1. /\ <<f>> \in Seq(T) /\ <<g>> \in Seq(T) /\ Len(<<f>>) = 1 /\ Len(<<g>>) = 1
      /\ <<f>>[1] = f /\ <<g>>[1] = g
  OBVIOUS
<1>2. /\ s \in Seq(T) /\ Len(s) = 1 + 1
      /\ \A i \in 1 .. 1 + 1 : s[i] = IF i <= 1 THEN <<f>>[i] ELSE <<g>>[i - 1]
  BY <1>1, ConcatProperties
<1>3. t \in Seq(T) /\ Len(t) = 2 /\ t[1] = f /\ t[2] = g
  OBVIOUS
<1>4. s[1] = f /\ s[2] = g
  BY <1>1, <1>2
<1> HIDE DEF s, t, T
<1>5. \A i \in 1 .. Len(s) : s[i] = t[i]
  <2>1. \A i \in 1 .. Len(s) : i = 1 \/ i = 2
    BY <1>2
  <2> QED
    BY <1>3, <1>4, <2>1
<1>6. s = t
  BY <1>2, <1>3, <1>5, SeqEqual
<1> QED
  BY <1>6 DEF s, t

LEMMA ThreeTogether ==
  ASSUME NEW f, NEW g, NEW h
  PROVE  <<f, g>> \o <<h>> = <<f, g, h>>
<1> DEFINE T == {f, g, h}  s == <<f, g>> \o <<h>>  t == <<f, g, h>>
<1>1. /\ <<f, g>> \in Seq(T) /\ <<h>> \in Seq(T) /\ Len(<<f, g>>) = 2 /\ Len(<<h>>) = 1
      /\ <<f, g>>[1] = f /\ <<f, g>>[2] = g /\ <<h>>[1] = h
  OBVIOUS
<1>2. /\ s \in Seq(T) /\ Len(s) = 2 + 1
      /\ \A i \in 1 .. 2 + 1 : s[i] = IF i <= 2 THEN <<f, g>>[i] ELSE <<h>>[i - 2]
  BY <1>1, ConcatProperties
<1>3. t \in Seq(T) /\ Len(t) = 3 /\ t[1] = f /\ t[2] = g /\ t[3] = h
  OBVIOUS
<1>4. s[1] = f /\ s[2] = g /\ s[3] = h
  BY <1>1, <1>2
<1> HIDE DEF s, t, T
<1>5. \A i \in 1 .. Len(s) : s[i] = t[i]
  <2>1. \A i \in 1 .. Len(s) : i = 1 \/ i = 2 \/ i = 3
    BY <1>2
  <2> QED
    BY <1>3, <1>4, <2>1
<1>6. s = t
  BY <1>2, <1>3, <1>5, SeqEqual
<1> QED
  BY <1>6 DEF s, t

LEMMA FlattenTwo ==
  ASSUME NEW T, NEW x \in Seq(T), NEW y \in Seq(T)
  PROVE  FlattenSeq(<<x, y>>) = x \o y
<1>1. <<x>> \in Seq(Seq(T)) /\ <<y>> \in Seq(Seq(T))
  OBVIOUS
<1>2. FlattenSeq(<<x>>) = x /\ FlattenSeq(<<y>>) = y
  BY FlattenOne
<1>3. FlattenSeq(<<x>> \o <<y>>) = FlattenSeq(<<x>>) \o FlattenSeq(<<y>>)
  BY <1>1, FlattenConcat
<1>4. <<x>> \o <<y>> = <<x, y>>
  BY TwoTogether
<1> QED
  BY <1>2, <1>3, <1>4, Zenon

Chain(x, y, z) == x \o y \o z

LEMMA FlattenThree ==
  ASSUME NEW T, NEW x \in Seq(T), NEW y \in Seq(T), NEW z \in Seq(T)
  PROVE  FlattenSeq(<<x, y, z>>) = Chain(x, y, z)
<1>1. <<x, y>> \in Seq(Seq(T)) /\ <<z>> \in Seq(Seq(T))
  OBVIOUS
<1>2. FlattenSeq(<<x, y>>) = x \o y /\ FlattenSeq(<<z>>) = z
  BY FlattenOne, FlattenTwo
<1>3. FlattenSeq(<<x, y>> \o <<z>>) = FlattenSeq(<<x, y>>) \o FlattenSeq(<<z>>)
  BY <1>1, FlattenConcat
<1>4. <<x, y>> \o <<z>> = <<x, y, z>>
  BY ThreeTogether
<1> QED
  BY <1>2, <1>3, <1>4 DEF Chain

AllOff(c) ==
  FlattenSeq([i \in DOMAIN PortsOf(c) |-> ilclient_disable_port(c, PortsOf(c)[i])])

LEMMA FlattenPorts ==
  ASSUME NEW c, \A n : IsSeq(ilclient_disable_port(c, n))
  PROVE  /\ \A n1 : PortsOf(c) = <<n1>> => AllOff(c) = ilclient_disable_port(c, n1)
         /\ \A n1, n2 : PortsOf(c) = <<n1, n2>> =>
              AllOff(c) = ilclient_disable_port(c, n1) \o ilclient_disable_port(c, n2)
         /\ \A n1, n2, n3 : PortsOf(c) = <<n1, n2, n3>> =>
              AllOff(c) = Chain(ilclient_disable_port(c, n1), ilclient_disable_port(c, n2),
                                ilclient_disable_port(c, n3))
<1> DEFINE D(n) == ilclient_disable_port(c, n)
<1>1. ASSUME NEW n1, NEW n2, NEW n3
      PROVE  \E T : D(n1) \in Seq(T) /\ D(n2) \in Seq(T) /\ D(n3) \in Seq(T)
  <2>1. PICK A : D(n1) \in Seq(A) /\ D(n2) \in Seq(A)
    BY SeqMeet
  <2>2. PICK B : D(n2) \in Seq(B) /\ D(n3) \in Seq(B)
    BY SeqMeet
  <2> DEFINE T == A \cup B
  <2>3. D(n1) \in Seq(T) /\ D(n2) \in Seq(T) /\ D(n3) \in Seq(T)
    <3> HIDE DEF D
    <3> QED
      BY <2>1, <2>2
  <2> QED
    BY <2>3
<1> HIDE DEF D
<1>2. ASSUME NEW n1, NEW n2, NEW n3
      PROVE  /\ FlattenSeq(<<D(n1)>>) = D(n1)
             /\ FlattenSeq(<<D(n1), D(n2)>>) = D(n1) \o D(n2)
             /\ FlattenSeq(<<D(n1), D(n2), D(n3)>>) = Chain(D(n1), D(n2), D(n3))
  <2>1. PICK T : D(n1) \in Seq(T) /\ D(n2) \in Seq(T) /\ D(n3) \in Seq(T)
    BY <1>1
  <2>2. FlattenSeq(<<D(n1)>>) = D(n1)
    BY <2>1, FlattenOne
  <2>3. FlattenSeq(<<D(n1), D(n2)>>) = D(n1) \o D(n2)
    BY <2>1, FlattenTwo, Zenon
  <2>4. FlattenSeq(<<D(n1), D(n2), D(n3)>>) = Chain(D(n1), D(n2), D(n3))
    BY <2>1, FlattenThree, Zenon
  <2> QED
    BY <2>2, <2>3, <2>4
<1>4. ASSUME NEW n1, PortsOf(c) = <<n1>> PROVE AllOff(c) = D(n1)
  <2>1. [i \in DOMAIN PortsOf(c) |-> D(PortsOf(c)[i])] = <<D(n1)>>
    BY <1>4
  <2>2. AllOff(c) = FlattenSeq(<<D(n1)>>)
    BY <2>1 DEF AllOff, D
  <2> QED
    BY <1>2, <2>2, Zenon
<1>5. ASSUME NEW n1, NEW n2, PortsOf(c) = <<n1, n2>> PROVE AllOff(c) = D(n1) \o D(n2)
  <2>1. [i \in DOMAIN PortsOf(c) |-> D(PortsOf(c)[i])] = <<D(n1), D(n2)>>
    BY <1>5
  <2>2. AllOff(c) = FlattenSeq(<<D(n1), D(n2)>>)
    BY <2>1 DEF AllOff, D
  <2> QED
    BY <1>2, <2>2, Zenon
<1>6. ASSUME NEW n1, NEW n2, NEW n3, PortsOf(c) = <<n1, n2, n3>>
      PROVE  AllOff(c) = Chain(D(n1), D(n2), D(n3))
  <2>1. [i \in DOMAIN PortsOf(c) |-> D(PortsOf(c)[i])] = <<D(n1), D(n2), D(n3)>>
    BY <1>6
  <2>2. AllOff(c) = FlattenSeq(<<D(n1), D(n2), D(n3)>>)
    BY <2>1 DEF AllOff, D
  <2> QED
    BY <1>2, <2>2, Zenon
<1> QED
  BY <1>4, <1>5, <1>6 DEF D

(* A component with some of its ports still on.                            *)
Have(w, c, P) ==
  World(w.seen, w.hand, Put(w.state, c, Loaded), Put(w.enabled, c, P), w.tunnels,
        w.supplied, w.spoiled)

LEMMA RunOff ==
  ASSUME NEW r, NEW b, NEW w, NEW c \in Comps, NEW P, c \in b.alive, NEW n \in ToSet(PortsOf(c)),
         n \in P
  PROVE  Runs({Calm(r, b, Have(w, c, P))}, ilclient_disable_port(c, n),
              {Calm(0, b, Have(w, c, P \ {n}))})
<1> DEFINE v == Have(w, c, P)  x == Command(c, "PortDisable", n)
<1>1. v.enabled[c] = P
  <2>1. v.enabled = Put(w.enabled, c, P)
    BY DEF Have, World
  <2> QED
    BY <2>1 DEF Put
<1>2. After(v, x) = Have(w, c, P \ {n})
  <2>1. x.cmd = "PortDisable" /\ x.c = c /\ x.n = n
    BY DEF Command
  <2>2. NewState(v.state, x) = Put(w.state, c, Loaded)
    BY <2>1 DEF NewState, Have, World
  <2>3. NewPorts(v.enabled, x) = Put(v.enabled, c, P \ {n})
    BY <1>1, <2>1 DEF NewPorts
  <2>4. Put(v.enabled, c, P \ {n}) = Put(w.enabled, c, P \ {n})
    BY PutAgain DEF Have, World
  <2> QED
    BY <2>2, <2>3, <2>4 DEF After, Have, World
<1> HIDE DEF v
<1>3. Runs({Calm(r, b, v)}, ilclient_disable_port(c, n), {Calm(0, b, After(v, x))})
  BY <1>1, RunDisablePort
<1> QED
  BY <1>2, <1>3 DEF v

LEMMA RunAllOff ==
  ASSUME NEW r, NEW b, NEW w, NEW c \in Comps, c \in b.alive
  PROVE  Runs({Calm(r, b, Have(w, c, ToSet(PortsOf(c))))}, AllOff(c) \o Return(0),
              {Calm(0, b, Have(w, c, {}))})
<1> DEFINE S(rr, P) == Calm(rr, b, Have(w, c, P))
           D(n) == ilclient_disable_port(c, n)
<1>1. \A rr, P, n : n \in ToSet(PortsOf(c)) /\ n \in P => Runs({S(rr, P)}, D(n), {S(0, P \ {n})})
  BY RunOff
<1>2. \A n : IsSeq(D(n))
  BY OneIsSeq, SeqConcat DEF ilclient_disable_port, Send, Wait, Insist
<1> HIDE DEF D, S
<1>3. Runs({S(r, ToSet(PortsOf(c)))}, AllOff(c), {S(0, {})})
  <2>1. ASSUME NEW n1, PortsOf(c) = <<n1>> PROVE Runs({S(r, ToSet(PortsOf(c)))}, AllOff(c), {S(0, {})})
    <3>1. ToSet(PortsOf(c)) = {n1} /\ {n1} \ {n1} = {}
      BY <2>1 DEF ToSet
    <3>2. AllOff(c) = D(n1)
      BY <1>2, <2>1, FlattenPorts DEF D
    <3>3. Runs({S(r, {n1})}, D(n1), {S(0, {n1} \ {n1})})
      BY <1>1, <3>1
    <3> QED
      BY <3>1, <3>2, <3>3
  <2>2. ASSUME NEW n1, NEW n2, n1 # n2, PortsOf(c) = <<n1, n2>>
        PROVE  Runs({S(r, ToSet(PortsOf(c)))}, AllOff(c), {S(0, {})})
    <3> DEFINE P == ToSet(PortsOf(c))
    <3>1. P = {n1, n2} /\ n1 \in P /\ n2 \in P \ {n1} /\ (P \ {n1}) \ {n2} = {}
      BY <2>2 DEF ToSet
    <3> HIDE DEF P
    <3>2. AllOff(c) = D(n1) \o D(n2)
      BY <1>2, <2>2, FlattenPorts DEF D
    <3>3. Runs({S(r, P)}, D(n1), {S(0, P \ {n1})})
      BY <1>1, <3>1 DEF P
    <3>4. Runs({S(0, P \ {n1})}, D(n2), {S(0, (P \ {n1}) \ {n2})})
      BY <1>1, <3>1 DEF P
    <3>5. Runs({S(r, P)}, D(n1) \o D(n2), {S(0, (P \ {n1}) \ {n2})})
      BY <3>3, <3>4, RunSeq
    <3> QED
      BY <3>1, <3>2, <3>5 DEF P
  <2>3. ASSUME NEW n1, NEW n2, NEW n3, n1 # n2, n1 # n3, n2 # n3, PortsOf(c) = <<n1, n2, n3>>
        PROVE  Runs({S(r, ToSet(PortsOf(c)))}, AllOff(c), {S(0, {})})
    <3> DEFINE P == ToSet(PortsOf(c))  P1 == P \ {n1}  P2 == P1 \ {n2}
    <3>1. P = {n1, n2, n3} /\ n1 \in P /\ n2 \in P1 /\ n3 \in P2 /\ P2 \ {n3} = {} /\ n2 \in P /\ n3 \in P
      BY <2>3 DEF ToSet
    <3> HIDE DEF P
    <3>2. AllOff(c) = Chain(D(n1), D(n2), D(n3))
      BY <1>2, <2>3, FlattenPorts DEF D
    <3>3. Runs({S(r, P)}, D(n1), {S(0, P1)})
      BY <1>1, <3>1 DEF P
    <3>4. Runs({S(0, P1)}, D(n2), {S(0, P2)})
      <4> HIDE DEF P1
      <4>1. Runs({S(0, P1)}, D(n2), {S(0, P1 \ {n2})})
        BY <1>1, <3>1 DEF P
      <4> QED
        BY <4>1
    <3>5. Runs({S(0, P2)}, D(n3), {S(0, {})})
      <4> HIDE DEF P2
      <4>1. Runs({S(0, P2)}, D(n3), {S(0, P2 \ {n3})})
        BY <1>1, <3>1 DEF P
      <4> QED
        BY <4>1, <3>1
    <3> HIDE DEF P1, P2
    <3>6. Runs({S(r, P)}, D(n1) \o D(n2), {S(0, P2)})
      BY <3>3, <3>4, RunSeq
    <3>7. Runs({S(r, P)}, D(n1) \o D(n2) \o D(n3), {S(0, {})})
      BY <3>5, <3>6, RunSeq
    <3> QED
      BY <3>2, <3>7 DEF P, Chain
  <2>4. \/ PortsOf(c) = <<130, 131>> \/ PortsOf(c) = <<90>> \/ PortsOf(c) = <<10, 11, 12>>
        \/ PortsOf(c) = <<80>> \/ PortsOf(c) = <<100, 101>>
    BY ComponentsAssumption DEF Components, PortsOf, video_decode, video_scheduler, video_render,
         video_clock, audio_render, clock
  <2> QED
    BY <2>1, <2>2, <2>3, <2>4
<1>4. Runs({S(0, {})}, Return(0), {S(0, {})})
  <2>1. 0 \in -5 .. 0
    OBVIOUS
  <2> QED
    BY <2>1, RunReturn DEF S, Calm
<1>5. Runs({S(r, ToSet(PortsOf(c)))}, AllOff(c) \o Return(0), {S(0, {})})
  BY <1>3, <1>4, RunSeq
<1> QED
  BY <1>5 DEF S

Peopled(b, c) == Base(b.inits, b.clients, b.alive \cup {c})

LEMMA RunCreate ==
  ASSUME NEW r, NEW b, NEW w, NEW c \in Comps, c \notin b.alive, Owner(c) \in b.clients
  PROVE  Runs({Calm(r, b, w)}, ilclient_create_component(c) \o Insist,
              {Calm(0, Peopled(b, c), Have(w, c, {}))})
<1> DEFINE f == [do |-> "create", c |-> c]
           S == Calm(r, b, w)
           T == Calm(r, Peopled(b, c), Born(w, c))
           D == Calm(0, Peopled(b, c), Have(w, c, {}))
           L == Lost(-1, None, b)
           Q == {D} \cup {L}
           q == AllOff(c) \o Return(0)
<1>1. Runs({T}, q, Q)
  <2>1. Born(w, c) = Have(w, c, ToSet(PortsOf(c)))
    BY DEF Born, Have
  <2>2. c \in Peopled(b, c).alive
    BY DEF Peopled, Base
  <2>3. Runs({T}, q, {D})
    BY <2>1, <2>2, RunAllOff
  <2>4. {D} \subseteq Q
    OBVIOUS
  <2> HIDE DEF T, D, L, q
  <2> QED
    BY <2>3, <2>4, RunMore
<1>2. ASSUME NEW k PROVE Good(f, k, S) /\ Nexts(f, k, S) = {<<q \o k, T>>, <<k, L>>}
  <2>1. Quiet[c] = NoCommand
    BY DEF Quiet
  <2>2. Good(f, k, S)
    BY <2>1 DEF Good, GoodSync, Calm, Sync
  <2>3. Nexts(f, k, S) = {<<q \o k, T>>, <<k, L>>}
    BY DEF Nexts, NextsSync, Calm, Sync, AllOff, Peopled
  <2> QED
    BY <2>2, <2>3
<1>3. Runs({S}, <<f>>, Q)
  <2>1. L \in Q
    OBVIOUS
  <2> HIDE DEF f, S, Q, q, T, L
  <2> QED
    BY <1>1, <1>2, <2>1, RunIntoOr
<1>4. Runs(Q, Insist, {D})
  <2>1. Runs({D}, Insist, {D})
    BY RunInsist DEF Calm
  <2>2. Runs({L}, Insist, {D})
    <3>1. {L} \subseteq Failing(b)
      BY Losses
    <3>2. Runs(Failing(b), Insist, {D})
      BY LostInsist
    <3> QED
      BY <3>1, <3>2, RunLess
  <2> HIDE DEF D, L
  <2> QED
    BY <2>1, <2>2, RunBoth
<1>5. Runs({S}, <<f>> \o Insist, {D})
  <2> HIDE DEF f, S, Q, D
  <2> QED
    BY <1>3, <1>4, RunSeq
<1> QED
  BY <1>5 DEF ilclient_create_component

(* States that differ from the ones meant only where a start was refused.  *)
Like(st, vs, sp) ==
  \A c \in Comps : st[c] = vs[c] \/ (c \in sp /\ st[c] = Idle /\ vs[c] = Executing)

LEMMA VariantIs ==
  ASSUME NEW v, NEW w \in Variants(v)
  PROVE  /\ w = World(v.seen, v.hand, w.state, v.enabled, v.tunnels, v.supplied, w.spoiled)
         /\ w.state \in [Comps -> 0 .. 3] /\ w.spoiled \in SUBSET Comps
         /\ w.seen = v.seen /\ w.hand = v.hand /\ w.enabled = v.enabled
         /\ w.tunnels = v.tunnels /\ w.supplied = v.supplied
         /\ Like(w.state, v.state, w.spoiled)
<1>1. PICK st \in [Comps -> 0 .. 3], sp \in SUBSET Comps :
        w = World(v.seen, v.hand, st, v.enabled, v.tunnels, v.supplied, sp)
  BY DEF Variants
<1>2. /\ w.state = st /\ w.spoiled = sp /\ w.seen = v.seen /\ w.hand = v.hand
      /\ w.enabled = v.enabled /\ w.tunnels = v.tunnels /\ w.supplied = v.supplied
  BY <1>1 DEF World
<1>3. Like(w.state, v.state, w.spoiled)
  BY DEF Variants, Like
<1> QED
  BY <1>1, <1>2, <1>3

LEMMA VariantOf ==
  ASSUME NEW v, NEW st \in [Comps -> 0 .. 3], NEW sp \in SUBSET Comps, Like(st, v.state, sp)
  PROVE  World(v.seen, v.hand, st, v.enabled, v.tunnels, v.supplied, sp) \in Variants(v)
<1> DEFINE w == World(v.seen, v.hand, st, v.enabled, v.tunnels, v.supplied, sp)
<1>1. w.state = st /\ w.spoiled = sp
  BY DEF World
<1>2. w \in {World(v.seen, v.hand, s, v.enabled, v.tunnels, v.supplied, p) :
               s \in [Comps -> 0 .. 3], p \in SUBSET Comps}
  OBVIOUS
<1>3. \A c \in Comps : \/ w.state[c] = v.state[c]
                       \/ c \in w.spoiled /\ w.state[c] = Idle /\ v.state[c] = Executing
  BY <1>1 DEF Like
<1> HIDE DEF w
<1> QED
  BY <1>2, <1>3 DEF Variants, w

(* Worlds with another state of one component, and with other ports on.    *)
State(w, c, s) ==
  World(w.seen, w.hand, Put(w.state, c, s), w.enabled, w.tunnels, w.supplied, w.spoiled)

LEMMA StateIs ==
  ASSUME NEW w, NEW c, NEW s PROVE After(w, Command(c, "StateSet", s)) = State(w, c, s)
BY DEF After, State, NewState, NewPorts, Command

LEMMA PutState ==
  ASSUME NEW st \in [Comps -> 0 .. 3], NEW c \in Comps, NEW s \in 0 .. 3
  PROVE  Put(st, c, s) \in [Comps -> 0 .. 3]
BY DEF Put

LEMMA LikePut ==
  ASSUME NEW st, NEW vs, NEW sp, Like(st, vs, sp), NEW c \in Comps, NEW s
  PROVE  /\ Like(Put(st, c, s), Put(vs, c, s), sp)
         /\ vs[c] = Idle => st[c] = Idle /\ \A x \in {Idle, Executing} : Like(st, Put(vs, c, x), sp \cup {c})
<1>1. vs[c] = Idle => st[c] = Idle
  BY DEF Like, Idle, Executing
<1>2. Like(Put(st, c, s), Put(vs, c, s), sp)
  BY DEF Like, Put
<1>3. ASSUME vs[c] = Idle, NEW x \in {Idle, Executing} PROVE Like(st, Put(vs, c, x), sp \cup {c})
  <2> SUFFICES ASSUME NEW d \in Comps
               PROVE  \/ st[d] = Put(vs, c, x)[d]
                      \/ d \in sp \cup {c} /\ st[d] = Idle /\ Put(vs, c, x)[d] = Executing
    BY DEF Like
  <2>1. CASE d = c
    BY <1>1, <1>3, <2>1 DEF Put
  <2>2. CASE d # c
    <3>1. Put(vs, c, x)[d] = vs[d]
      BY <2>2 DEF Put
    <3> QED
      BY <3>1 DEF Like
  <2> QED
    BY <2>1, <2>2
<1> QED
  BY <1>1, <1>2, <1>3

LEMMA VariantState ==
  ASSUME NEW v, NEW w \in Variants(v), NEW c \in Comps, NEW s \in 0 .. 3
  PROVE  /\ State(w, c, s) \in Variants(State(v, c, s))
         /\ v.state[c] = Idle => \A x \in {Idle, Executing} : Spoilt(w, c) \in Variants(State(v, c, x))
<1>1. /\ w.state \in [Comps -> 0 .. 3] /\ w.spoiled \in SUBSET Comps
      /\ w.seen = v.seen /\ w.hand = v.hand /\ w.enabled = v.enabled
      /\ w.tunnels = v.tunnels /\ w.supplied = v.supplied
      /\ Like(w.state, v.state, w.spoiled)
  BY VariantIs
<1>2. State(w, c, s) \in Variants(State(v, c, s))
  <2> DEFINE V == State(v, c, s)  st == Put(w.state, c, s)
  <2>1. /\ V.seen = v.seen /\ V.hand = v.hand /\ V.enabled = v.enabled /\ V.tunnels = v.tunnels
        /\ V.supplied = v.supplied /\ V.state = Put(v.state, c, s)
    BY DEF State, World
  <2>2. st \in [Comps -> 0 .. 3] /\ Like(st, V.state, w.spoiled)
    <3>1. st \in [Comps -> 0 .. 3]
      BY <1>1, PutState
    <3>2. Like(Put(w.state, c, s), Put(v.state, c, s), w.spoiled)
      BY <1>1, LikePut
    <3> QED
      BY <2>1, <3>1, <3>2
  <2>3. State(w, c, s) = World(V.seen, V.hand, st, V.enabled, V.tunnels, V.supplied, w.spoiled)
    BY <1>1, <2>1 DEF State
  <2> HIDE DEF V, st
  <2>4. World(V.seen, V.hand, st, V.enabled, V.tunnels, V.supplied, w.spoiled) \in Variants(V)
    BY <1>1, <2>2, VariantOf
  <2> QED
    BY <2>3, <2>4 DEF V
<1>3. ASSUME v.state[c] = Idle, NEW x \in {Idle, Executing}
      PROVE  Spoilt(w, c) \in Variants(State(v, c, x))
  <2> DEFINE V == State(v, c, x)  sp == w.spoiled \cup {c}
  <2>1. /\ V.seen = v.seen /\ V.hand = v.hand /\ V.enabled = v.enabled /\ V.tunnels = v.tunnels
        /\ V.supplied = v.supplied /\ V.state = Put(v.state, c, x)
    BY DEF State, World
  <2>2. Like(w.state, V.state, sp) /\ sp \in SUBSET Comps
    BY <1>1, <1>3, <2>1, LikePut
  <2>3. Spoilt(w, c) = World(V.seen, V.hand, w.state, V.enabled, V.tunnels, V.supplied, sp)
    BY <1>1, <2>1 DEF Spoilt
  <2> HIDE DEF V, sp
  <2>4. World(V.seen, V.hand, w.state, V.enabled, V.tunnels, V.supplied, sp) \in Variants(V)
    BY <1>1, <2>2, VariantOf
  <2> QED
    BY <2>3, <2>4 DEF V
<1> QED
  BY <1>2, <1>3

(* The same world but for one component's ports, tunnels and buffers.      *)
With(w, en, tu, su) == World(w.seen, w.hand, w.state, en, tu, su, w.spoiled)

LEMMA VariantWith ==
  ASSUME NEW v, NEW w \in Variants(v), NEW en, NEW tu, NEW su
  PROVE  With(w, en, tu, su) \in Variants(With(v, en, tu, su))
<1>1. /\ w.state \in [Comps -> 0 .. 3] /\ w.spoiled \in SUBSET Comps
      /\ w.seen = v.seen /\ w.hand = v.hand
      /\ Like(w.state, v.state, w.spoiled)
  BY VariantIs
<1> DEFINE V == With(v, en, tu, su)
<1>2. /\ V.seen = v.seen /\ V.hand = v.hand /\ V.enabled = en /\ V.tunnels = tu
      /\ V.supplied = su /\ V.state = v.state
  BY DEF With, World
<1>3. With(w, en, tu, su) = World(V.seen, V.hand, w.state, V.enabled, V.tunnels, V.supplied, w.spoiled)
  BY <1>1, <1>2 DEF With
<1> HIDE DEF V
<1>4. World(V.seen, V.hand, w.state, V.enabled, V.tunnels, V.supplied, w.spoiled) \in Variants(V)
  BY <1>1, <1>2, VariantOf
<1> QED
  BY <1>3, <1>4 DEF V

LEMMA HaveIs ==
  ASSUME NEW w, NEW c, NEW P
  PROVE  Have(w, c, P) = With(State(w, c, Loaded), Put(w.enabled, c, P), w.tunnels, w.supplied)
BY DEF Have, With, State, World

LEMMA VariantHave ==
  ASSUME NEW v, NEW w \in Variants(v), NEW c \in Comps, NEW P
  PROVE  Have(w, c, P) \in Variants(Have(v, c, P))
<1>1. State(w, c, Loaded) \in Variants(State(v, c, Loaded))
  BY VariantState DEF Loaded
<1>2. w.enabled = v.enabled /\ w.tunnels = v.tunnels /\ w.supplied = v.supplied
  BY VariantIs
<1>3. With(State(w, c, Loaded), Put(w.enabled, c, P), w.tunnels, w.supplied)
        \in Variants(With(State(v, c, Loaded), Put(w.enabled, c, P), w.tunnels, w.supplied))
  BY <1>1, VariantWith
<1> QED
  BY <1>2, <1>3, HaveIs

(* What is there after two ends were connected.                            *)
Ports(g, x, y) == Put(Put(g, x[1], g[x[1]] \cup {x[2]}), y[1], g[y[1]] \cup {y[2]})

LEMMA JointIs ==
  ASSUME NEW w, NEW x, NEW y, x[1] \in Comps, y[1] \in Comps, x[1] # y[1]
  PROVE  Joint(w, x, y) =
           With(IF w.state[y[1]] = Loaded THEN State(w, y[1], Idle) ELSE w,
                Ports(w.enabled, x, y), w.tunnels \cup {<<x, y>>}, w.supplied)
<1> DEFINE u == Linked(Off(w, x, y), x, y)
           c == x[1]  d == y[1]
           X == Command(c, "PortDisable", x[2])  Y == Command(d, "PortDisable", y[2])
           A == Command(c, "PortEnable", x[2])  B == Command(d, "PortEnable", y[2])
           I == Command(d, "StateSet", Idle)
           off == Put(Put(w.enabled, c, w.enabled[c] \ {x[2]}), d, w.enabled[d] \ {y[2]})
           St(st, en) == World(w.seen, w.hand, st, en, w.tunnels \cup {<<x, y>>}, w.supplied, w.spoiled)
<1>1. /\ \A g : NewState(g, X) = g /\ NewState(g, Y) = g /\ NewState(g, A) = g /\ NewState(g, B) = g
      /\ \A g : NewState(g, I) = Put(g, d, Idle) /\ NewPorts(g, I) = g
      /\ \A g : NewPorts(g, X) = Put(g, c, g[c] \ {x[2]}) /\ NewPorts(g, Y) = Put(g, d, g[d] \ {y[2]})
      /\ \A g : NewPorts(g, A) = Put(g, c, g[c] \cup {x[2]}) /\ NewPorts(g, B) = Put(g, d, g[d] \cup {y[2]})
  BY DEF NewState, NewPorts, Command
<1> DEFINE off1 == Put(w.enabled, c, w.enabled[c] \ {x[2]})
<1>2. NewPorts(w.enabled, X) = off1 /\ NewPorts(off1, Y) = off
  <2>1. off1[d] = w.enabled[d]
    BY PutGet
  <2> HIDE DEF X, Y
  <2>2. NewPorts(w.enabled, X) = off1
    BY <1>1
  <2>3. NewPorts(off1, Y) = Put(off1, d, off1[d] \ {y[2]})
    <3> HIDE DEF off1
    <3> QED
      BY <1>1
  <2> QED
    BY <2>1, <2>2, <2>3
<1> DEFINE on1 == Put(off, d, off[d] \cup {y[2]})
<1>3. NewPorts(off, B) = on1 /\ NewPorts(on1, A) = Ports(w.enabled, x, y)
  <2>1. off[d] = w.enabled[d] \ {y[2]} /\ off[c] = w.enabled[c] \ {x[2]}
    <3>1. off1[c] = w.enabled[c] \ {x[2]}
      BY DEF Put
    <3>2. off = Put(off1, d, w.enabled[d] \ {y[2]})
      OBVIOUS
    <3> HIDE DEF off1, off
    <3>3. off[d] = w.enabled[d] \ {y[2]} /\ off[c] = off1[c]
      BY <3>2 DEF Put
    <3> QED
      BY <3>1, <3>3
  <2>2. on1[c] = off[c]
    <3> HIDE DEF off
    <3> QED
      BY PutGet
  <2>3. NewPorts(off, B) = on1 /\ NewPorts(on1, A) = Put(on1, c, on1[c] \cup {x[2]})
    <3> HIDE DEF A, B, off
    <3>1. NewPorts(off, B) = on1
      BY <1>1
    <3> HIDE DEF on1
    <3> QED
      BY <1>1, <3>1
  <2>4. /\ on1[c] \cup {x[2]} = w.enabled[c] \cup {x[2]}
        /\ off[d] \cup {y[2]} = w.enabled[d] \cup {y[2]}
    BY <2>1, <2>2
  <2>5. Put(on1, c, w.enabled[c] \cup {x[2]}) = Ports(w.enabled, x, y)
    <3>1. on1 = Put(off, d, w.enabled[d] \cup {y[2]})
      BY <2>4
    <3> DEFINE p == w.enabled[c] \cup {x[2]}  q == w.enabled[d] \cup {y[2]}
               p0 == w.enabled[c] \ {x[2]}  q0 == w.enabled[d] \ {y[2]}
    <3>2. off = Put(Put(w.enabled, c, p0), d, q0)
      OBVIOUS
    <3> HIDE DEF p, q, p0, q0
    <3>3. Put(Put(Put(Put(w.enabled, c, p0), d, q0), d, q), c, p) = Put(Put(w.enabled, c, p), d, q)
      BY DEF Put
    <3> QED
      BY <3>1, <3>2, <3>3 DEF Ports, p, q
  <2> QED
    BY <2>3, <2>4, <2>5
<1> HIDE DEF off1, on1
<1> HIDE DEF X, Y, A, B, I, off
<1>4. u = St(w.state, off)
  BY <1>1, <1>2 DEF Linked, Off, After, World, X, Y
<1>5. u.state = w.state
  BY <1>4 DEF World
<1>9. ASSUME NEW st, NEW en, NEW z
      PROVE  After(St(st, en), z) = St(NewState(st, z), NewPorts(en, z))
  BY DEF After, World
<1> HIDE DEF St
<1>6. After(After(u, B), A) = St(w.state, Ports(w.enabled, x, y))
  <2>1. After(u, B) = St(w.state, on1)
    BY <1>1, <1>3, <1>4, <1>9
  <2> QED
    BY <1>1, <1>3, <1>9, <2>1
<1>7. After(After(After(u, B), I), A) = St(Put(w.state, d, Idle), Ports(w.enabled, x, y))
  <2>1. After(u, B) = St(w.state, on1)
    BY <1>1, <1>3, <1>4, <1>9
  <2>2. After(After(u, B), I) = St(Put(w.state, d, Idle), on1)
    BY <1>1, <1>9, <2>1
  <2> QED
    BY <1>1, <1>3, <1>9, <2>2
<1> HIDE DEF u
<1>8. Joint(w, x, y) = IF w.state[d] = Loaded THEN After(After(After(u, B), I), A)
                       ELSE After(After(u, B), A)
  BY <1>5 DEF Joint, On, A, B, I, u
<1> QED
  BY <1>6, <1>7, <1>8 DEF With, State, World, St

LEMMA VariantJoint ==
  ASSUME NEW v, NEW w \in Variants(v), NEW x, NEW y, x[1] \in Comps, y[1] \in Comps, x[1] # y[1]
  PROVE  Joint(w, x, y) \in Variants(Joint(v, x, y))
<1> DEFINE d == y[1]
           w1 == IF w.state[d] = Loaded THEN State(w, d, Idle) ELSE w
           v1 == IF v.state[d] = Loaded THEN State(v, d, Idle) ELSE v
<1>1. w.enabled = v.enabled /\ w.tunnels = v.tunnels /\ w.supplied = v.supplied
      /\ Like(w.state, v.state, w.spoiled)
  BY VariantIs
<1>2. w.state[d] = Loaded <=> v.state[d] = Loaded
  BY <1>1 DEF Like, Loaded, Idle, Executing
<1>3. w1 \in Variants(v1)
  <2>1. State(w, d, Idle) \in Variants(State(v, d, Idle))
    BY VariantState DEF Idle
  <2> QED
    BY <1>2, <2>1
<1> HIDE DEF w1, v1
<1>4. With(w1, Ports(w.enabled, x, y), w.tunnels \cup {<<x, y>>}, w.supplied)
        \in Variants(With(v1, Ports(w.enabled, x, y), w.tunnels \cup {<<x, y>>}, w.supplied))
  BY <1>3, VariantWith
<1>5. /\ Joint(w, x, y) = With(w1, Ports(w.enabled, x, y), w.tunnels \cup {<<x, y>>}, w.supplied)
      /\ Joint(v, x, y) = With(v1, Ports(v.enabled, x, y), v.tunnels \cup {<<x, y>>}, v.supplied)
  BY JointIs DEF w1, v1
<1> QED
  BY <1>1, <1>4, <1>5

LEMMA RunThen ==
  ASSUME NEW P, NEW U, NEW Q, NEW p, NEW q, NEW s, IsSeq(q), IsSeq(s),
         Runs(P, p, U), Runs(U, q \o s, Q)
  PROVE  Runs(P, (p \o q) \o s, Q)
<1>1. IsSeq(p)
  BY DEF Runs
<1>2. (p \o q) \o s = p \o (q \o s)
  BY <1>1, SeqAssociates
<1>3. Runs(P, p \o (q \o s), Q)
  <2> DEFINE qs == q \o s
  <2>1. Runs(U, qs, Q)
    OBVIOUS
  <2> HIDE DEF qs
  <2>2. Runs(P, p \o qs, Q)
    BY <2>1, RunSeq
  <2> QED
    BY <2>2 DEF qs
<1> QED
  BY <1>2, <1>3

(* The operations are sequences of steps.                                  *)
LEMMA Steps ==
  /\ IsSeq(Insist) /\ \A v : IsSeq(Return(v))
  /\ \A c : IsSeq(Configure(c)) /\ IsSeq(ilclient_create_component(c))
  /\ \A t, timeout : IsSeq(ilclient_setup_tunnel(t, timeout))
  /\ \A c, n : IsSeq(ilclient_enable_port_buffers(c, n))
<1>1. IsSeq(Insist)
  BY OneIsSeq DEF Insist
<1>2. ASSUME NEW v PROVE IsSeq(Return(v))
  BY OneIsSeq DEF Return
<1>3. ASSUME NEW c PROVE IsSeq(Configure(c)) /\ IsSeq(ilclient_create_component(c))
  BY OneIsSeq DEF Configure, ilclient_create_component
<1>4. ASSUME NEW t, NEW timeout PROVE IsSeq(ilclient_setup_tunnel(t, timeout))
  <2>1. \A c, s, yes, no : IsSeq(IfState(c, s, yes, no))
    BY OneIsSeq DEF IfState
  <2> QED
    BY <2>1 DEF ilclient_setup_tunnel
<1>5. ASSUME NEW c, NEW n PROVE IsSeq(ilclient_enable_port_buffers(c, n))
  <2>1. \A yes, no : IsSeq(IfEnabled(c, n, yes, no))
    BY OneIsSeq DEF IfEnabled
  <2> QED
    BY <2>1 DEF ilclient_enable_port_buffers
<1> QED
  BY <1>1, <1>2, <1>3, <1>4, <1>5

LEMMA NearEach ==
  ASSUME NEW b, NEW v, NEW p, NEW Q, IsSeq(p),
         \A r \in -5 .. 0, w \in Variants(v) : Runs({Calm(r, b, w)}, p, Q)
  PROVE  Runs(Near(b, v), p, Q)
<1>1. \A S \in Near(b, v) : Runs({S}, p, Q)
  BY DEF Near
<1> QED
  BY <1>1, RunEach

LEMMA NearIn ==
  ASSUME NEW b, NEW v, NEW w \in Variants(v), NEW r \in -5 .. 0
  PROVE  Calm(r, b, w) \in Near(b, v) /\ {Calm(r, b, w)} \subseteq Near(b, v)
BY DEF Near

Exact(b, v) == {Calm(0, b, w) : w \in Variants(v)}

LEMMA ExactIn ==
  ASSUME NEW b, NEW v
  PROVE  /\ Exact(b, v) \subseteq Near(b, v)
         /\ \A w \in Variants(v) : {Calm(0, b, w)} \subseteq Exact(b, v)
<1>1. 0 \in -5 .. 0
  OBVIOUS
<1> QED
  BY <1>1, NearIn DEF Exact

LEMMA NearBegin ==
  ASSUME NEW b, NEW v, NEW n \in Clients, n \notin b.clients, b.inits < 3
  PROVE  Runs(Near(b, v), <<[do |-> "init client", k |-> n], [do |-> "OMX_Init"]>> \o Insist,
              Near(Base(b.inits + 1, b.clients \cup {n}, b.alive), v))
<1> DEFINE i == [do |-> "init client", k |-> n]  o == [do |-> "OMX_Init"]
           b1 == Base(b.inits, b.clients \cup {n}, b.alive)
           b2 == Base(b.inits + 1, b.clients \cup {n}, b.alive)
           Q == Near(b2, v)
<1>0. b1.inits = b.inits /\ b1.clients = b.clients \cup {n} /\ b1.alive = b.alive
  BY DEF Base
<1>1. ASSUME NEW r \in -5 .. 0, NEW w \in Variants(v)
      PROVE  Runs({Calm(r, b, w)}, <<i, o>> \o Insist, Q)
  <2> DEFINE D == Calm(0, b2, w)  L == Lost(-1, None, b1)  U == {D} \cup {L}
  <2>1. Runs({Calm(r, b, w)}, <<i>>, {Calm(r, b1, w)})
    BY RunInitClient DEF Calm
  <2>2. Runs({Calm(r, b1, w)}, <<o>>, U)
    <3>1. Runs({Calm(r, b1, w)}, <<o>>, {Calm(0, Base(b1.inits + 1, b1.clients, b1.alive), w),
                                         Lost(-1, None, b1)})
      <4> HIDE DEF b1
      <4> QED
        BY <1>0, RunOMXInit DEF Calm
    <3>2. {Calm(0, Base(b1.inits + 1, b1.clients, b1.alive), w), Lost(-1, None, b1)} = U
      BY <1>0
    <3> QED
      BY <3>1, <3>2
  <2> HIDE DEF b1, b2, i, o
  <2>3. Runs({Calm(r, b, w)}, <<i, o>>, U)
    <3> HIDE DEF U
    <3> QED
      BY <2>1, <2>2, RunPair
  <2>4. Runs({D}, Insist, {D})
    BY RunInsist DEF Calm
  <2>5. Runs({L}, Insist, {D})
    <3>1. {L} \subseteq Failing(b1)
      BY Losses
    <3>2. Runs(Failing(b1), Insist, {D})
      BY LostInsist
    <3> QED
      BY <3>1, <3>2, RunLess
  <2>6. Runs(U, Insist, {D})
    <3> HIDE DEF D, L
    <3> QED
      BY <2>4, <2>5, RunBoth
  <2>7. Runs({Calm(r, b, w)}, <<i, o>> \o Insist, {D})
    <3> HIDE DEF U, D
    <3> QED
      BY <2>3, <2>6, RunSeq
  <2>8. {D} \subseteq Q
    BY NearIn
  <2> HIDE DEF D, Q
  <2> QED
    BY <2>7, <2>8, RunMore
<1>2. IsSeq(<<i, o>> \o Insist)
  <2>1. IsSeq(<<i, o>>)
    BY TwoTogether, OneIsSeq, SeqConcat
  <2> HIDE DEF i, o
  <2> QED
    BY <2>1, Steps, SeqConcat
<1> HIDE DEF Q, i, o
<1>3. Runs(Near(b, v), <<i, o>> \o Insist, Q)
  BY <1>1, <1>2, NearEach
<1> QED
  BY <1>3 DEF Q, i, o

LEMMA NearCreate ==
  ASSUME NEW b, NEW v, NEW c \in Comps, c \notin b.alive, Owner(c) \in b.clients
  PROVE  Runs(Near(b, v), ilclient_create_component(c) \o Insist,
              Near(Peopled(b, c), Have(v, c, {})))
<1> DEFINE p == ilclient_create_component(c) \o Insist  Q == Near(Peopled(b, c), Have(v, c, {}))
<1>1. ASSUME NEW r \in -5 .. 0, NEW w \in Variants(v) PROVE Runs({Calm(r, b, w)}, p, Q)
  <2>1. Runs({Calm(r, b, w)}, p, {Calm(0, Peopled(b, c), Have(w, c, {}))})
    BY RunCreate
  <2>2. Have(w, c, {}) \in Variants(Have(v, c, {}))
    BY VariantHave
  <2>3. {Calm(0, Peopled(b, c), Have(w, c, {}))} \subseteq Q
    BY <2>2, NearIn
  <2> HIDE DEF p, Q
  <2> QED
    BY <2>1, <2>3, RunMore
<1>2. IsSeq(p)
  BY Steps, SeqConcat
<1> HIDE DEF p, Q
<1>3. Runs(Near(b, v), p, Q)
  BY <1>1, <1>2, NearEach
<1> QED
  BY <1>3 DEF p, Q

LEMMA NearConfigure ==
  ASSUME NEW b, NEW v, NEW c
  PROVE  Runs(Near(b, v), Configure(c) \o Insist, Near(b, v))
<1> DEFINE p == Configure(c) \o Insist
<1>1. ASSUME NEW r \in -5 .. 0, NEW w \in Variants(v)
      PROVE  Runs({Calm(r, b, w)}, p, Near(b, v)) /\ Runs({Calm(r, b, w)}, p, {Calm(0, b, w)})
  <2> DEFINE D == Calm(0, b, w)  L == Lost(-1, None, b)  U == {D} \cup {L}
  <2>1. Runs({Calm(r, b, w)}, Configure(c), {D, L})
    BY RunConfigure DEF Calm
  <2>2. {D, L} \subseteq {D} \cup Failing(b)
    BY Losses
  <2>3. Runs({D} \cup Failing(b), Insist, {D})
    BY RunInsistEither
  <2> DEFINE V == {D} \cup Failing(b)  W == {D, L}
  <2> HIDE DEF D, L, V
  <2>4. Runs({Calm(r, b, w)}, Configure(c), V)
    BY <2>1, <2>2, RunMore DEF V
  <2>5. Runs({Calm(r, b, w)}, p, {D})
    BY <2>3, <2>4, RunSeq DEF V
  <2>6. {D} \subseteq Near(b, v)
    BY NearIn DEF D
  <2> HIDE DEF p
  <2>7. Runs({Calm(r, b, w)}, p, Near(b, v))
    BY <2>5, <2>6, RunMore
  <2> QED
    BY <2>5, <2>7 DEF D
<1>2. IsSeq(p)
  BY Steps, SeqConcat
<1> HIDE DEF p
<1>3. Runs(Near(b, v), p, Near(b, v))
  BY <1>1, <1>2, NearEach
<1> QED
  BY <1>3 DEF p

LEMMA NearChange ==
  ASSUME NEW b, NEW v, NEW c \in Comps, NEW s \in {Idle, Executing}, c \in b.alive, v.state[c] = Idle
  PROVE  Runs(Near(b, v), ilclient_change_component_state(c, s), Near(b, State(v, c, s)))
<1> DEFINE p == ilclient_change_component_state(c, s)  Q == Near(b, State(v, c, s))
<1>0. s \in {Loaded, Idle, Executing} /\ s \in 0 .. 3
  BY DEF Loaded, Idle, Executing
<1>1. ASSUME NEW r \in -5 .. 0, NEW w \in Variants(v) PROVE Runs({Calm(r, b, w)}, p, Q)
  <2>1. Runs({Calm(r, b, w)}, p, {Calm(0, b, State(w, c, s)), Calm(-1, b, Spoilt(w, c))})
    BY <1>0, RunChangeState, StateIs
  <2>2. State(w, c, s) \in Variants(State(v, c, s)) /\ Spoilt(w, c) \in Variants(State(v, c, s))
    BY <1>0, VariantState
  <2>3. {Calm(0, b, State(w, c, s)), Calm(-1, b, Spoilt(w, c))} \subseteq Q
    <3>1. 0 \in -5 .. 0 /\ -1 \in -5 .. 0
      OBVIOUS
    <3>2. Calm(0, b, State(w, c, s)) \in Q /\ Calm(-1, b, Spoilt(w, c)) \in Q
      BY <2>2, <3>1, NearIn
    <3> HIDE DEF Q
    <3> QED
      BY <3>2
  <2> HIDE DEF p, Q
  <2> QED
    BY <2>1, <2>3, RunMore
<1>2. IsSeq(p)
  <2>1. IsSeq(Send(c, "StateSet", s)) /\ IsSeq(Wait(c, "StateSet", s))
        /\ IsSeq(IfReturned(0, <<>>, RemoveEvent(c, AnyError) \o Return(-1)))
    BY OneIsSeq DEF Send, Wait, IfReturned
  <2>2. IsSeq(Send(c, "StateSet", s) \o Wait(c, "StateSet", s))
    BY <2>1, SeqConcat
  <2> QED
    BY <2>1, <2>2, SeqConcat DEF ilclient_change_component_state
<1> HIDE DEF p, Q
<1>3. Runs(Near(b, v), p, Q)
  BY <1>1, <1>2, NearEach
<1> QED
  BY <1>3 DEF p, Q

LEMMA NearSetup ==
  ASSUME NEW b, NEW v, NEW x, NEW y, Joinable(b, x, y)
  PROVE  /\ v.state[x[1]] # Loaded =>
              Runs(Near(b, v), ilclient_setup_tunnel(<<x, y>>, FALSE) \o Insist,
                   Near(b, Joint(v, x, y)))
         /\ v.state[x[1]] = Loaded =>
              Runs(Near(b, v), ilclient_setup_tunnel(<<x, y>>, FALSE) \o Insist,
                   Near(b, Joint(State(v, x[1], Idle), x, y)))
         /\ v.state[x[1]] # Loaded /\ x = <<video_scheduler, 11>> =>
              Runs(Near(b, v), ilclient_setup_tunnel(<<x, y>>, TRUE) \o Insist,
                   Near(b, Joint(v, x, y)))
<1> DEFINE c == x[1]
           p == ilclient_setup_tunnel(<<x, y>>, FALSE) \o Insist
           q == ilclient_setup_tunnel(<<x, y>>, TRUE) \o Insist
           v1 == State(v, c, Idle)
<1>1. c \in Comps /\ y[1] \in Comps /\ c # y[1]
  BY DEF Joinable
<1>2. \A w \in Variants(v) : w.state[c] = Loaded <=> v.state[c] = Loaded
  BY <1>1, VariantIs DEF Like, Loaded, Idle, Executing
<1>3. IsSeq(p) /\ IsSeq(q)
  BY Steps, SeqConcat
<1>4. ASSUME NEW w \in Variants(v)
      PROVE  /\ {Calm(0, b, Joint(w, x, y))} \subseteq Near(b, Joint(v, x, y))
             /\ {Calm(0, b, Joint(State(w, c, Idle), x, y))} \subseteq Near(b, Joint(v1, x, y))
  <2>1. Joint(w, x, y) \in Variants(Joint(v, x, y))
    BY <1>1, VariantJoint
  <2>2. State(w, c, Idle) \in Variants(v1)
    BY <1>1, VariantState DEF Idle
  <2> HIDE DEF v1
  <2>3. Joint(State(w, c, Idle), x, y) \in Variants(Joint(v1, x, y))
    BY <1>1, <2>2, VariantJoint
  <2> QED
    BY <2>1, <2>3, NearIn
<1>5. ASSUME v.state[c] # Loaded PROVE Runs(Near(b, v), p, Near(b, Joint(v, x, y)))
  <2>1. ASSUME NEW r \in -5 .. 0, NEW w \in Variants(v)
        PROVE  Runs({Calm(r, b, w)}, p, Near(b, Joint(v, x, y)))
    <3>1. Runs({Calm(r, b, w)}, p, {Calm(0, b, Joint(w, x, y))})
      BY <1>2, <1>5, RunSetupTunnel
    <3> HIDE DEF p
    <3> QED
      BY <1>4, <3>1, RunMore
  <2> HIDE DEF p
  <2> QED
    BY <1>3, <2>1, NearEach
<1>6. ASSUME v.state[c] = Loaded PROVE Runs(Near(b, v), p, Near(b, Joint(v1, x, y)))
  <2>1. ASSUME NEW r \in -5 .. 0, NEW w \in Variants(v)
        PROVE  Runs({Calm(r, b, w)}, p, Near(b, Joint(v1, x, y)))
    <3>1. Runs({Calm(r, b, w)}, p, {Calm(0, b, Joint(State(w, c, Idle), x, y))})
      <4>1. Runs({Calm(r, b, w)}, p, {Calm(0, b, Joint(After(w, Command(c, "StateSet", Idle)), x, y))})
        BY <1>2, <1>6, RunSetupTunnel
      <4>2. After(w, Command(c, "StateSet", Idle)) = State(w, c, Idle)
        BY StateIs
      <4> QED
        BY <4>1, <4>2
    <3> HIDE DEF p, v1
    <3> QED
      BY <1>4, <3>1, RunMore
  <2> HIDE DEF p, v1
  <2> QED
    BY <1>3, <2>1, NearEach
<1>7. ASSUME v.state[c] # Loaded, x = <<video_scheduler, 11>>
      PROVE Runs(Near(b, v), q, Near(b, Joint(v, x, y)))
  <2>1. ASSUME NEW r \in -5 .. 0, NEW w \in Variants(v)
        PROVE  Runs({Calm(r, b, w)}, q, Near(b, Joint(v, x, y)))
    <3>1. Runs({Calm(r, b, w)}, q, {Calm(0, b, Joint(w, x, y))})
      BY <1>2, <1>7, RunSetupTunnel
    <3> HIDE DEF q
    <3> QED
      BY <1>4, <3>1, RunMore
  <2> HIDE DEF q
  <2> QED
    BY <1>3, <2>1, NearEach
<1> QED
  BY <1>5, <1>6, <1>7

(* The start of the decoder: a refused change to Idle leaves it Loaded.    *)
Mis(b, v) == {Calm(r, b, w) : r \in -5 .. 0, w \in {u \in Variants(v) : u.spoiled # {}}}

LEMMA MisIn ==
  ASSUME NEW b, NEW v, NEW w \in Variants(v), w.spoiled # {}, NEW r \in -5 .. 0
  PROVE  Calm(r, b, w) \in Mis(b, v) /\ {Calm(r, b, w)} \subseteq Mis(b, v)
BY DEF Mis

LEMMA MisEach ==
  ASSUME NEW b, NEW v, NEW p, NEW Q, IsSeq(p),
         \A r \in -5 .. 0, w \in Variants(v) : w.spoiled # {} => Runs({Calm(r, b, w)}, p, Q)
  PROVE  Runs(Mis(b, v), p, Q)
<1>1. \A S \in Mis(b, v) : Runs({S}, p, Q)
  BY DEF Mis
<1> QED
  BY <1>1, RunEach

LEMMA MisConfigure ==
  ASSUME NEW b, NEW v, NEW c
  PROVE  Runs(Mis(b, v), Configure(c) \o Insist, Mis(b, v))
<1> DEFINE p == Configure(c) \o Insist
<1>1. ASSUME NEW r \in -5 .. 0, NEW w \in Variants(v), w.spoiled # {}
      PROVE  Runs({Calm(r, b, w)}, p, Mis(b, v))
  <2> DEFINE D == Calm(0, b, w)  L == Lost(-1, None, b)
  <2>1. Runs({Calm(r, b, w)}, Configure(c), {D, L})
    BY RunConfigure DEF Calm
  <2>2. {D, L} \subseteq {D} \cup Failing(b)
    BY Losses
  <2>3. Runs({D} \cup Failing(b), Insist, {D})
    BY RunInsistEither
  <2> DEFINE V == {D} \cup Failing(b)
  <2> HIDE DEF D, L, V
  <2>4. Runs({Calm(r, b, w)}, Configure(c), V)
    BY <2>1, <2>2, RunMore DEF V
  <2>5. Runs({Calm(r, b, w)}, p, {D})
    BY <2>3, <2>4, RunSeq DEF V
  <2>6. {D} \subseteq Mis(b, v)
    BY <1>1, MisIn DEF D
  <2> HIDE DEF p
  <2> QED
    BY <2>5, <2>6, RunMore
<1>2. IsSeq(p)
  BY Steps, SeqConcat
<1> HIDE DEF p
<1>3. Runs(Mis(b, v), p, Mis(b, v))
  BY <1>1, <1>2, MisEach
<1> QED
  BY <1>3 DEF p

LEMMA MisPrepare ==
  ASSUME NEW b, NEW v, NEW c \in Comps, c \in b.alive, v.state[c] = Loaded
  PROVE  Runs(Near(b, v), ilclient_change_component_state(c, Idle),
              Near(b, State(v, c, Idle)) \cup Mis(b, v))
<1> DEFINE p == ilclient_change_component_state(c, Idle)
           Q == Near(b, State(v, c, Idle)) \cup Mis(b, v)
<1>0. Idle \in {Loaded, Idle, Executing} /\ Idle \in 0 .. 3
  BY DEF Loaded, Idle, Executing
<1>1. ASSUME NEW r \in -5 .. 0, NEW w \in Variants(v) PROVE Runs({Calm(r, b, w)}, p, Q)
  <2>1. Runs({Calm(r, b, w)}, p, {Calm(0, b, State(w, c, Idle)), Calm(-1, b, Spoilt(w, c))})
    BY <1>0, RunChangeState, StateIs
  <2>2. State(w, c, Idle) \in Variants(State(v, c, Idle))
    BY <1>0, VariantState
  <2>3. Spoilt(w, c) \in Variants(v) /\ Spoilt(w, c).spoiled # {}
    <3>1. /\ w.state \in [Comps -> 0 .. 3] /\ w.spoiled \in SUBSET Comps
          /\ w.seen = v.seen /\ w.hand = v.hand /\ w.enabled = v.enabled
          /\ w.tunnels = v.tunnels /\ w.supplied = v.supplied
          /\ Like(w.state, v.state, w.spoiled)
      BY VariantIs
    <3> DEFINE sp == w.spoiled \cup {c}
    <3>2. Like(w.state, v.state, sp) /\ sp \in SUBSET Comps
      BY <3>1 DEF Like
    <3>3. World(v.seen, v.hand, w.state, v.enabled, v.tunnels, v.supplied, sp) \in Variants(v)
      <4> HIDE DEF sp
      <4> QED
        BY <3>1, <3>2, VariantOf
    <3>4. Spoilt(w, c).spoiled = sp
      BY DEF Spoilt, World
    <3> QED
      BY <3>1, <3>3, <3>4 DEF Spoilt
  <2>4. {Calm(0, b, State(w, c, Idle)), Calm(-1, b, Spoilt(w, c))} \subseteq Q
    <3>1. 0 \in -5 .. 0 /\ -1 \in -5 .. 0
      OBVIOUS
    <3>2. Calm(0, b, State(w, c, Idle)) \in Near(b, State(v, c, Idle))
      BY <2>2, <3>1, NearIn
    <3>3. Calm(-1, b, Spoilt(w, c)) \in Mis(b, v)
      BY <2>3, <3>1, MisIn
    <3> QED
      BY <3>2, <3>3
  <2> HIDE DEF p, Q
  <2> QED
    BY <2>1, <2>4, RunMore
<1>2. IsSeq(p)
  <2>1. IsSeq(Send(c, "StateSet", Idle)) /\ IsSeq(Wait(c, "StateSet", Idle))
        /\ IsSeq(IfReturned(0, <<>>, RemoveEvent(c, AnyError) \o Return(-1)))
    BY OneIsSeq DEF Send, Wait, IfReturned
  <2>2. IsSeq(Send(c, "StateSet", Idle) \o Wait(c, "StateSet", Idle))
    BY <2>1, SeqConcat
  <2> QED
    BY <2>1, <2>2, SeqConcat DEF ilclient_change_component_state
<1> HIDE DEF p, Q
<1>3. Runs(Near(b, v), p, Q)
  BY <1>1, <1>2, NearEach
<1> QED
  BY <1>3 DEF p, Q

(* A component with its fed port on and its buffers.                       *)
Fuelled(w, c, n) ==
  With(w, Put(w.enabled, c, w.enabled[c] \cup {n}), w.tunnels, Put(w.supplied, c, NumBuffers))

LEMMA FuelledIs ==
  ASSUME NEW w, NEW c, NEW n
  PROVE  After(Supplied(w, c, NumBuffers), Command(c, "PortEnable", n)) = Fuelled(w, c, n)
BY DEF After, Supplied, Fuelled, With, World, NewState, NewPorts, Command

LEMMA VariantFuelled ==
  ASSUME NEW v, NEW w \in Variants(v), NEW c, NEW n
  PROVE  Fuelled(w, c, n) \in Variants(Fuelled(v, c, n))
<1>1. w.enabled = v.enabled /\ w.tunnels = v.tunnels /\ w.supplied = v.supplied
  BY VariantIs
<1>2. With(w, Put(w.enabled, c, w.enabled[c] \cup {n}), w.tunnels, Put(w.supplied, c, NumBuffers))
        \in Variants(With(v, Put(w.enabled, c, w.enabled[c] \cup {n}), w.tunnels,
                          Put(w.supplied, c, NumBuffers)))
  BY VariantWith
<1> QED
  BY <1>1, <1>2 DEF Fuelled

LEMMA NearFuel ==
  ASSUME NEW b, NEW v, NEW c \in Comps, NEW n \in ToSet(PortsOf(c)) \cap Fed, c \in b.alive,
         v.state[c] = Idle, n \notin v.enabled[c], v.supplied[c] = 0
  PROVE  Runs(Near(b, v), ilclient_enable_port_buffers(c, n),
              Exact(b, Fuelled(v, c, n)) \cup Failing(b))
<1> DEFINE p == ilclient_enable_port_buffers(c, n)
           Q == Exact(b, Fuelled(v, c, n)) \cup Failing(b)
<1>1. ASSUME NEW r \in -5 .. 0, NEW w \in Variants(v) PROVE Runs({Calm(r, b, w)}, p, Q)
  <2>1. w.enabled = v.enabled /\ w.supplied = v.supplied /\ Like(w.state, v.state, w.spoiled)
    BY VariantIs
  <2>2. w.state[c] \in {Idle, Executing} /\ n \notin w.enabled[c] /\ w.supplied[c] = 0
    BY <2>1 DEF Like
  <2>3. Runs({Calm(r, b, w)}, p,
             {Calm(0, b, After(Supplied(w, c, NumBuffers), Command(c, "PortEnable", n)))}
             \cup Failing(b))
    BY <2>2, RunEnablePortBuffers
  <2>4. {Calm(0, b, After(Supplied(w, c, NumBuffers), Command(c, "PortEnable", n)))}
             \cup Failing(b) \subseteq Q
    <3>1. Fuelled(w, c, n) \in Variants(Fuelled(v, c, n))
      BY VariantFuelled
    <3>2. {Calm(0, b, Fuelled(w, c, n))} \subseteq Exact(b, Fuelled(v, c, n))
      BY <3>1, ExactIn
    <3> QED
      BY <3>2, FuelledIs
  <2> HIDE DEF p, Q
  <2> QED
    BY <2>3, <2>4, RunMore
<1>2. IsSeq(p)
  BY Steps
<1> HIDE DEF p, Q
<1>3. Runs(Near(b, v), p, Q)
  BY <1>1, <1>2, NearEach
<1> QED
  BY <1>3 DEF p, Q

LEMMA ExactInsist ==
  ASSUME NEW b, NEW d, NEW v
  PROVE  Runs(Exact(b, v) \cup Failing(d), Insist, Exact(b, v))
<1>1. ASSUME NEW S \in Exact(b, v) PROVE Runs({S}, Insist, Exact(b, v))
  <2>1. PICK w \in Variants(v) : S = Calm(0, b, w)
    BY DEF Exact
  <2>2. Runs({Calm(0, b, w)}, Insist, {Calm(0, b, w)})
    BY RunInsist DEF Calm
  <2>3. {Calm(0, b, w)} \subseteq Exact(b, v)
    BY ExactIn
  <2> QED
    BY <2>1, <2>2, <2>3, RunMore
<1>2. IsSeq(Insist)
  BY Steps
<1>3. Runs(Exact(b, v), Insist, Exact(b, v))
  BY <1>1, <1>2, RunEach
<1>4. Runs(Failing(d), Insist, Exact(b, v))
  BY LostInsist
<1> QED
  BY <1>3, <1>4, RunBoth

LEMMA MisFuel ==
  ASSUME NEW b, NEW v, NEW c \in Comps, NEW n \in ToSet(PortsOf(c)) \cap Fed, c \in b.alive,
         v.state[c] = Loaded, n \notin v.enabled[c], v.supplied[c] = 0, NEW Q
  PROVE  Runs(Mis(b, v), ilclient_enable_port_buffers(c, n) \o Insist, Q)
<1> DEFINE e == ilclient_enable_port_buffers(c, n)  p == e \o Insist
<1>1. ASSUME NEW r \in -5 .. 0, NEW w \in Variants(v), w.spoiled # {} PROVE Runs({Calm(r, b, w)}, p, Q)
  <2>1. w.enabled = v.enabled /\ w.supplied = v.supplied /\ Like(w.state, v.state, w.spoiled)
    BY VariantIs
  <2>2. w.state[c] \notin {Idle, Executing} /\ n \notin w.enabled[c] /\ w.supplied[c] = 0
    BY <2>1 DEF Like, Loaded, Idle, Executing
  <2>3. Runs({Calm(r, b, w)}, e, {Calm(-1, b, w)})
    BY <2>2, RunEnablePortBuffers
  <2>4. ~ (-1 >= 0)
    OBVIOUS
  <2>5. Runs({Calm(-1, b, w)}, Insist, Q)
    BY <1>1, <2>4, RunInsistSpoilt DEF Calm
  <2> HIDE DEF e
  <2> QED
    BY <2>3, <2>5, RunSeq
<1>2. IsSeq(p)
  BY Steps, SeqConcat
<1> HIDE DEF p
<1>3. Runs(Mis(b, v), p, Q)
  BY <1>1, <1>2, MisEach
<1> QED
  BY <1>3 DEF p

LEMMA LostChange ==
  ASSUME NEW b, NEW c \in Comps, c \in b.alive, NEW s \in {Loaded, Idle, Executing}
  PROVE  Runs(Losing(b), ilclient_change_component_state(c, s), Losing(b))
<1> DEFINE p == ilclient_change_component_state(c, s)
           no == RemoveEvent(c, AnyError) \o Return(-1)
           front == Send(c, "StateSet", s) \o Wait(c, "StateSet", s)
           P == {Lost(0, None, b), Lost(-1, None, b)}
<1>1. Typed(c, "StateSet", s)
  BY DEF Typed
<1>2. 0 \in -5 .. 0 /\ -1 \in -5 .. 0 /\ -1 \in -5 .. -1 /\ -1 # 0
  OBVIOUS
<1>3. ASSUME NEW r \in -5 .. 0, NEW j \in Comps \cup {None}
      PROVE  Runs({Lost(r, j, b)}, p, Losing(b))
  <2>1. Runs({Lost(r, j, b)}, Send(c, "StateSet", s), {Lost(r, j, b)})
    BY <1>1, RunSendLost
  <2>2. Runs({Lost(r, j, b)}, Wait(c, "StateSet", s), P)
    BY <1>1, RunWaitLost
  <2> HIDE DEF P
  <2>3. Runs({Lost(r, j, b)}, front, P)
    BY <2>1, <2>2, RunSeq
  <2>4. Runs({Lost(0, None, b)}, IfReturned(0, <<>>, no), Losing(b))
    <3> DEFINE S == Lost(0, None, b)
    <3>1. S.ret = 0 /\ S.doom \in BOOLEAN
      BY DEF Lost
    <3>2. {S} \subseteq Losing(b)
      BY <1>2, Losses
    <3> HIDE DEF S, no
    <3>3. Runs({S}, <<>>, Losing(b))
      BY <3>2, RunNothing, RunMore
    <3>4. Runs({S}, IfReturned(0, <<>>, no), Losing(b))
      BY <3>1, <3>3, RunIfReturned
    <3> QED
      BY <3>4 DEF S
  <2>5. Runs({Lost(-1, None, b)}, IfReturned(0, <<>>, no), Losing(b))
    <3> DEFINE S == Lost(-1, None, b)
    <3>1. S.ret # 0 /\ S.doom \in BOOLEAN
      BY <1>2 DEF Lost
    <3>2. {S} \subseteq Losing(b) /\ Failing(b) \subseteq Losing(b)
      BY <1>2, Losses DEF Failing, Losing
    <3>3. Runs(Losing(b), RemoveEvent(c, AnyError), Losing(b))
      BY LostRemove
    <3>4. Runs(Losing(b), Return(-1), Failing(b))
      BY <1>2, LostReturn
    <3>5. Runs(Losing(b), no, Failing(b))
      BY <3>3, <3>4, RunSeq
    <3> HIDE DEF S, no
    <3>6. Runs({S}, no, Losing(b))
      BY <3>2, <3>5, RunWeaken
    <3>7. Runs({S}, IfReturned(0, <<>>, no), Losing(b))
      BY <3>1, <3>6, RunIfReturned
    <3> QED
      BY <3>7 DEF S
  <2>6. Runs(P, IfReturned(0, <<>>, no), Losing(b))
    <3>1. P = {Lost(0, None, b)} \cup {Lost(-1, None, b)}
      BY DEF P
    <3> HIDE DEF no
    <3> QED
      BY <2>4, <2>5, <3>1, RunBoth
  <2>7. p = front \o IfReturned(0, <<>>, no)
    BY DEF ilclient_change_component_state
  <2> HIDE DEF front, no, p
  <2> QED
    BY <2>3, <2>6, <2>7, RunSeq
<1>4. IsSeq(p)
  <2>1. 0 \in -5 .. 0
    OBVIOUS
  <2> QED
    BY <1>3, <2>1 DEF Runs
<1> HIDE DEF p
<1>5. Runs(Losing(b), p, Losing(b))
  BY <1>3, <1>4, LostEach
<1> QED
  BY <1>5 DEF p

Without(b, c) == Base(b.inits, b.clients, b.alive \ {c})
GivenUp(b, i) == Base(b.inits - 1, b.clients \ {i}, (b.alive \ {audio_render(i)}) \ {clock(i)})

LEMMA LostCleanup ==
  ASSUME NEW b, NEW c \in Comps, c \in b.alive
  PROVE  Runs(Losing(b), ilclient_cleanup_components(c), Losing(Without(b, c)))
<1> DEFINE f == [do |-> "return events", c |-> c]
           g == [do |-> "free handle", c |-> c]
           p == <<f>> \o <<g>>
<1>1. ASSUME NEW r \in -5 .. 0, NEW j \in Comps \cup {None}
      PROVE  Runs({Lost(r, j, b)}, p, Losing(Without(b, c)))
  <2>1. Runs({Lost(r, j, b)}, <<f>>, {Lost(r, j, b)})
    BY RunReturnEvents
  <2>2. Runs({Lost(r, j, b)}, <<g>>, {Lost(r, None, Without(b, c))})
    BY RunFreeHandle DEF Without
  <2>3. {Lost(r, None, Without(b, c))} \subseteq Losing(Without(b, c))
    BY Losses
  <2> HIDE DEF f, g
  <2>4. Runs({Lost(r, j, b)}, p, {Lost(r, None, Without(b, c))})
    BY <2>1, <2>2, RunSeq
  <2> QED
    BY <2>3, <2>4, RunMore
<1>2. IsSeq(p)
  BY OneIsSeq, SeqConcat
<1>3. p = ilclient_cleanup_components(c)
  BY TwoTogether DEF ilclient_cleanup_components
<1> HIDE DEF p
<1>4. Runs(Losing(b), p, Losing(Without(b, c)))
  BY <1>1, <1>2, LostEach
<1> QED
  BY <1>3, <1>4

LEMMA LostEnd ==
  ASSUME NEW b, b.inits > 0, NEW i \in Clients, \A c \in b.alive : Owner(c) # i
  PROVE  Runs(Losing(b), <<[do |-> "OMX_Deinit"], [do |-> "destroy client", k |-> i]>>,
              Losing(Base(b.inits - 1, b.clients \ {i}, b.alive)))
<1> DEFINE f == [do |-> "OMX_Deinit"]
           g == [do |-> "destroy client", k |-> i]
           p == <<f>> \o <<g>>
           d == Base(b.inits - 1, b.clients, b.alive)
           e == Base(b.inits - 1, b.clients \ {i}, b.alive)
<1>1. ASSUME NEW r \in -5 .. 0, NEW j \in Comps \cup {None}
      PROVE  Runs({Lost(r, j, b)}, p, Losing(e))
  <2>1. Runs({Lost(r, j, b)}, <<f>>, {Lost(r, j, d)})
    BY RunOMXDeinit
  <2>2. d.inits = b.inits - 1 /\ d.clients = b.clients /\ d.alive = b.alive
    BY DEF Base
  <2>3. e = Base(d.inits, d.clients \ {i}, d.alive)
    BY <2>2
  <2> HIDE DEF d, e
  <2>4. Runs({Lost(r, j, d)}, <<g>>, {Lost(r, j, e)})
    BY <2>2, <2>3, RunDestroyClient
  <2>5. {Lost(r, j, e)} \subseteq Losing(e)
    BY Losses
  <2> HIDE DEF f, g
  <2>6. Runs({Lost(r, j, b)}, p, {Lost(r, j, e)})
    BY <2>1, <2>4, RunSeq
  <2> QED
    BY <2>5, <2>6, RunMore
<1>2. IsSeq(p)
  BY OneIsSeq, SeqConcat
<1>3. p = <<[do |-> "OMX_Deinit"], [do |-> "destroy client", k |-> i]>>
  BY TwoTogether
<1> HIDE DEF p, e
<1>4. Runs(Losing(b), p, Losing(e))
  BY <1>1, <1>2, LostEach
<1> QED
  BY <1>3, <1>4 DEF e

LEMMA OfClient ==
  ASSUME NEW i \in 1 .. 2
  PROVE  /\ audio_render(i) \in Comps /\ clock(i) \in Comps /\ audio_render(i) # clock(i)
         /\ i \in Clients /\ Owner(audio_render(i)) = i /\ Owner(clock(i)) = i
         /\ \A c \in Comps : Owner(c) = i => c \in {audio_render(i), clock(i)}
<1>1. /\ audio_render(i) \in Comps /\ clock(i) \in Comps
      /\ Owner(audio_render(i)) = i /\ Owner(clock(i)) = i
  BY ComponentsAssumption DEF Components, Owner, audio_render, clock
<1>2. audio_render(i) # clock(i)
  BY DEF audio_render, clock
<1>3. i \in Clients
  BY <1>1 DEF Clients, Owner
<1>4. ASSUME NEW c \in Comps, Owner(c) = i PROVE c \in {audio_render(i), clock(i)}
  <2>1. CASE c \in {video_decode, video_scheduler, video_render, video_clock}
    BY <1>4, <2>1 DEF Owner, video_decode, video_scheduler, video_render, video_clock
  <2>2. CASE \E k \in 1 .. 2 : c = audio_render(k) \/ c = clock(k)
    BY <1>4, <2>2 DEF Owner, audio_render, clock
  <2> QED
    BY <2>1, <2>2, ComponentsAssumption DEF Components
<1> QED
  BY <1>1, <1>2, <1>3, <1>4

(* What audioplay_create undoes when it cannot have its buffers.           *)
LEMMA LostGivingUp ==
  ASSUME NEW b, NEW i \in 1 .. 2, b.inits > 0, b.alive \subseteq Comps,
         audio_render(i) \in b.alive, clock(i) \in b.alive
  PROVE  Runs(Losing(b), GiveUp(i), Failing(GivenUp(b, i)))
<1> DEFINE a == audio_render(i)
           z == clock(i)
           b1 == Without(b, a)
           b2 == Without(b1, z)
           p1 == ilclient_change_component_state(a, Loaded)
           p2 == ilclient_cleanup_components(a)
           p3 == ilclient_cleanup_components(z)
           p4 == <<[do |-> "OMX_Deinit"], [do |-> "destroy client", k |-> i]>>
<1>1. /\ a \in Comps /\ z \in Comps /\ a # z /\ i \in Clients
      /\ \A c \in Comps : Owner(c) = i => c \in {a, z}
  BY OfClient
<1>2. /\ b1.inits = b.inits /\ b1.clients = b.clients /\ b1.alive = b.alive \ {a}
      /\ b2.inits = b.inits /\ b2.clients = b.clients /\ b2.alive = (b.alive \ {a}) \ {z}
  BY DEF Without, Base
<1>3. GivenUp(b, i) = Base(b2.inits - 1, b2.clients \ {i}, b2.alive)
  BY <1>2 DEF GivenUp
<1>4. -1 \in -5 .. -1
  OBVIOUS
<1> HIDE DEF a, z, b1, b2
<1>5. Runs(Losing(b), p1, Losing(b))
  BY <1>1, LostChange DEF a
<1>6. Runs(Losing(b), p2, Losing(b1))
  BY <1>1, LostCleanup DEF a, b1
<1>7. z \in b1.alive
  BY <1>1, <1>2 DEF z
<1>8. Runs(Losing(b1), p3, Losing(b2))
  BY <1>1, <1>7, LostCleanup DEF b2
<1>9. \A c \in b2.alive : Owner(c) # i
  BY <1>1, <1>2
<1>10. Runs(Losing(b2), p4, Losing(GivenUp(b, i)))
  BY <1>1, <1>2, <1>3, <1>9, LostEnd
<1>11. Runs(Losing(GivenUp(b, i)), Return(-1), Failing(GivenUp(b, i)))
  BY <1>4, LostReturn
<1>12. GiveUp(i) = (((p1 \o p2) \o p3) \o p4) \o Return(-1)
  BY DEF GiveUp, a, z
<1> HIDE DEF p1, p2, p3, p4
<1>13. Runs(Losing(b), p1 \o p2, Losing(b1))
  BY <1>5, <1>6, RunSeq
<1>14. Runs(Losing(b), (p1 \o p2) \o p3, Losing(b2))
  BY <1>13, <1>8, RunSeq
<1>15. Runs(Losing(b), ((p1 \o p2) \o p3) \o p4, Losing(GivenUp(b, i)))
  BY <1>14, <1>10, RunSeq
<1>16. Runs(Losing(b), (((p1 \o p2) \o p3) \o p4) \o Return(-1), Failing(GivenUp(b, i)))
  BY <1>15, <1>11, RunSeq
<1> QED
  BY <1>12, <1>16

(* A world like v, but for two components.                                 *)
Duo(v, c, d, s, t, P, Q, tu, su) ==
  World(v.seen, v.hand, Put(Put(v.state, c, s), d, t), Put(Put(v.enabled, c, P), d, Q),
        tu, su, v.spoiled)

LEMMA PutPut ==
  ASSUME NEW g, NEW c \in Comps, NEW d \in Comps, c # d, NEW x, NEW y, NEW z
  PROVE  /\ Put(Put(Put(g, c, x), d, y), c, z) = Put(Put(g, c, z), d, y)
         /\ Put(Put(Put(g, c, x), d, y), d, z) = Put(Put(g, c, x), d, z)
         /\ Put(Put(g, c, x), d, y)[c] = x /\ Put(Put(g, c, x), d, y)[d] = y
<1> DEFINE h == Put(g, c, x)
<1>1. Put(h, d, y) = Put(Put(g, d, y), c, x)
  BY PutSwap
<1>2. Put(Put(h, d, y), c, z) = Put(Put(g, d, y), c, z)
  BY <1>1, PutAgain
<1>3. Put(Put(g, d, y), c, z) = Put(Put(g, c, z), d, y)
  BY PutSwap
<1>4. Put(Put(h, d, y), d, z) = Put(h, d, z)
  BY PutAgain
<1>5. Put(h, d, y)[c] = h[c] /\ Put(h, d, y)[d] = y /\ h[c] = x
  BY PutGet
<1> QED
  BY <1>2, <1>3, <1>4, <1>5

LEMMA DuoIs ==
  ASSUME NEW v, NEW c \in Comps, NEW d \in Comps, c # d, NEW s, NEW t, NEW P, NEW Q, NEW tu, NEW su
  PROVE  LET u == Duo(v, c, d, s, t, P, Q, tu, su)
         IN  /\ u.state[c] = s /\ u.state[d] = t /\ u.enabled[c] = P /\ u.enabled[d] = Q
             /\ u.tunnels = tu /\ u.supplied = su /\ u.seen = v.seen /\ u.hand = v.hand
             /\ u.spoiled = v.spoiled
             /\ u.state = Put(Put(v.state, c, s), d, t) /\ u.enabled = Put(Put(v.enabled, c, P), d, Q)
BY PutPut DEF Duo, World

LEMMA DuoState ==
  ASSUME NEW v, NEW c \in Comps, NEW d \in Comps, c # d, NEW s, NEW t, NEW P, NEW Q, NEW tu, NEW su,
         NEW x
  PROVE  /\ State(Duo(v, c, d, s, t, P, Q, tu, su), c, x) = Duo(v, c, d, x, t, P, Q, tu, su)
         /\ State(Duo(v, c, d, s, t, P, Q, tu, su), d, x) = Duo(v, c, d, s, x, P, Q, tu, su)
<1> DEFINE u == Duo(v, c, d, s, t, P, Q, tu, su)
           g == v.state
<1>1. /\ u.seen = v.seen /\ u.hand = v.hand /\ u.state = Put(Put(g, c, s), d, t)
      /\ u.enabled = Put(Put(v.enabled, c, P), d, Q)
      /\ u.tunnels = tu /\ u.supplied = su /\ u.spoiled = v.spoiled
  BY DuoIs
<1>2. /\ Put(Put(Put(g, c, s), d, t), c, x) = Put(Put(g, c, x), d, t)
      /\ Put(Put(Put(g, c, s), d, t), d, x) = Put(Put(g, c, s), d, x)
  BY PutPut
<1> HIDE DEF u, g
<1>3. State(u, c, x) = World(v.seen, v.hand, Put(Put(g, c, x), d, t), u.enabled, tu, su, v.spoiled)
  BY <1>1, <1>2 DEF State
<1>4. State(u, d, x) = World(v.seen, v.hand, Put(Put(g, c, s), d, x), u.enabled, tu, su, v.spoiled)
  BY <1>1, <1>2 DEF State
<1> QED
  BY <1>1, <1>3, <1>4 DEF Duo, u, g

LEMMA DuoHave ==
  ASSUME NEW v, NEW c \in Comps, NEW d \in Comps
  PROVE  Have(Have(v, c, {}), d, {}) = Duo(v, c, d, Loaded, Loaded, {}, {}, v.tunnels, v.supplied)
BY DEF Have, Duo, World

LEMMA DuoWith ==
  ASSUME NEW v, NEW c \in Comps, NEW d \in Comps, c # d, NEW s, NEW t, NEW P, NEW Q, NEW tu, NEW su,
         NEW P1, NEW Q1, NEW en, en = Put(Put(v.enabled, c, P1), d, Q1), NEW tu1, NEW su1
  PROVE  With(Duo(v, c, d, s, t, P, Q, tu, su), en, tu1, su1) = Duo(v, c, d, s, t, P1, Q1, tu1, su1)
BY DEF With, Duo, World

(* The source is d.                                                        *)
LEMMA DuoJoint ==
  ASSUME NEW v, NEW c \in Comps, NEW d \in Comps, c # d, NEW s, NEW t, NEW P, NEW Q, NEW tu, NEW su,
         NEW n, NEW k, NEW s1, s = Loaded => s1 = Idle, s # Loaded => s1 = s
  PROVE  Joint(Duo(v, c, d, s, t, P, Q, tu, su), <<d, n>>, <<c, k>>) =
           Duo(v, c, d, s1, t, P \cup {k}, Q \cup {n},
               tu \cup {<<<<d, n>>, <<c, k>>>>}, su)
<1> DEFINE u == Duo(v, c, d, s, t, P, Q, tu, su)
           x == <<d, n>>  y == <<c, k>>
           en == Put(Put(v.enabled, c, P \cup {k}), d, Q \cup {n})
           g == v.enabled
           g1 == Put(g, c, P)
           g2 == Put(g1, d, Q)
           g3 == Put(g1, d, Q \cup {n})
<1>1. x[1] = d /\ x[2] = n /\ y[1] = c /\ y[2] = k
  OBVIOUS
<1>2. /\ u.state[c] = s /\ u.enabled = g2 /\ u.tunnels = tu /\ u.supplied = su
  BY DuoIs
<1>3. State(u, c, Idle) = Duo(v, c, d, Idle, t, P, Q, tu, su)
  BY DuoState
<1>4. (IF u.state[c] = Loaded THEN State(u, c, Idle) ELSE u) = Duo(v, c, d, s1, t, P, Q, tu, su)
  BY <1>2, <1>3
<1> HIDE DEF x, y, u
<1>5. Joint(u, x, y) = With(IF u.state[c] = Loaded THEN State(u, c, Idle) ELSE u,
                Ports(u.enabled, x, y), tu \cup {<<x, y>>}, su)
  BY <1>1, <1>2, JointIs
<1>6. g2[d] = Q /\ Put(g2, d, Q \cup {n}) = g3
  BY PutPut
<1>7. g3[c] = P /\ Put(g3, c, P \cup {k}) = en /\ g2[c] = P
  <2>1. g2[c] = P /\ g3[c] = P
    BY PutPut
  <2>2. Put(g3, c, P \cup {k}) = en
    BY PutPut
  <2> QED
    BY <2>1, <2>2
<1>8. Ports(u.enabled, x, y) = en
  <2> HIDE DEF g2, g3, en
  <2> QED
    BY <1>1, <1>2, <1>6, <1>7 DEF Ports
<1> HIDE DEF en
<1>9. With(Duo(v, c, d, s1, t, P, Q, tu, su), en, tu \cup {<<x, y>>}, su)
         = Duo(v, c, d, s1, t, P \cup {k}, Q \cup {n}, tu \cup {<<x, y>>}, su)
  BY DuoWith DEF en
<1>10. Joint(u, x, y) = Duo(v, c, d, s1, t, P \cup {k}, Q \cup {n}, tu \cup {<<x, y>>}, su)
  BY <1>4, <1>5, <1>8, <1>9
<1> QED
  BY <1>10 DEF x, y, u

LEMMA DuoFuelled ==
  ASSUME NEW v, NEW c \in Comps, NEW d \in Comps, c # d, NEW s, NEW t, NEW P, NEW Q, NEW tu, NEW su,
         NEW n
  PROVE  Fuelled(Duo(v, c, d, s, t, P, Q, tu, su), c, n) =
           Duo(v, c, d, s, t, P \cup {n}, Q, tu, Put(su, c, NumBuffers))
<1> DEFINE u == Duo(v, c, d, s, t, P, Q, tu, su)
           g == v.enabled
           g2 == Put(Put(g, c, P), d, Q)
           en == Put(Put(g, c, P \cup {n}), d, Q)
<1>1. u.enabled = g2 /\ u.tunnels = tu /\ u.supplied = su
  BY DuoIs
<1>2. g2[c] = P /\ Put(g2, c, P \cup {n}) = en
  BY PutPut
<1> HIDE DEF u, g2, en
<1>3. Fuelled(u, c, n) = With(u, en, tu, Put(su, c, NumBuffers))
  BY <1>1, <1>2 DEF Fuelled
<1>4. With(u, en, tu, Put(su, c, NumBuffers)) = Duo(v, c, d, s, t, P \cup {n}, Q, tu, Put(su, c, NumBuffers))
  BY DuoWith DEF u, en
<1> QED
  BY <1>3, <1>4 DEF u

LEMMA NearReturn ==
  ASSUME NEW b, NEW v
  PROVE  Runs(Near(b, v), Return(0), Exact(b, v))
<1>1. ASSUME NEW r \in -5 .. 0, NEW w \in Variants(v)
      PROVE  Runs({Calm(r, b, w)}, Return(0), Exact(b, v))
  <2>1. 0 \in -5 .. 0
    OBVIOUS
  <2>2. Runs({Calm(r, b, w)}, Return(0), {Calm(0, b, w)})
    BY <2>1, RunReturn DEF Calm
  <2>3. {Calm(0, b, w)} \subseteq Exact(b, v)
    BY ExactIn
  <2> QED
    BY <2>2, <2>3, RunMore
<1>2. IsSeq(Return(0))
  BY Steps
<1> QED
  BY <1>1, <1>2, NearEach

LEMMA IfExact ==
  ASSUME NEW b, NEW v, NEW d, NEW yes, NEW no, NEW Q,
         Runs(Near(b, v), yes, Q), Runs(Losing(d), no, Q)
  PROVE  Runs(Exact(b, v) \cup Failing(d), IfReturned(0, yes, no), Q)
<1>1. IsSeq(IfReturned(0, yes, no))
  BY OneIsSeq DEF IfReturned
<1>2. ASSUME NEW w \in Variants(v)
      PROVE  Runs({Calm(0, b, w)}, IfReturned(0, yes, no), Q)
  <2> DEFINE S == Calm(0, b, w)
  <2>1. S.ret = 0 /\ S.doom \in BOOLEAN
    BY DEF Calm, Sync
  <2>2. 0 \in -5 .. 0
    OBVIOUS
  <2>3. {S} \subseteq Near(b, v)
    BY <2>2, NearIn
  <2> HIDE DEF S
  <2>4. Runs({S}, yes, Q)
    BY <2>3, RunLess
  <2>5. Runs({S}, IfReturned(0, yes, no), Q)
    BY <2>1, <2>4, RunIfReturned
  <2> QED
    BY <2>5 DEF S
<1>3. ASSUME NEW S \in Exact(b, v) PROVE Runs({S}, IfReturned(0, yes, no), Q)
  BY <1>2 DEF Exact
<1>4. Runs(Exact(b, v), IfReturned(0, yes, no), Q)
  BY <1>1, <1>3, RunEach
<1>5. ASSUME NEW S \in Failing(d) PROVE Runs({S}, IfReturned(0, yes, no), Q)
  <2>1. S.ret # 0 /\ S.doom \in BOOLEAN
    <3>1. PICK r \in -5 .. -1, j \in Comps \cup {None} : S = Lost(r, j, d)
      BY DEF Failing
    <3>2. r # 0 /\ S.ret = r /\ S.doom = TRUE
      BY <3>1 DEF Lost
    <3> QED
      BY <3>2
  <2>2. {S} \subseteq Losing(d)
    BY DEF Failing, Losing
  <2>3. Runs({S}, no, Q)
    BY <2>2, RunLess
  <2> QED
    BY <2>1, <2>3, RunIfReturned
<1>6. Runs(Failing(d), IfReturned(0, yes, no), Q)
  BY <1>1, <1>5, RunEach
<1> QED
  BY <1>4, <1>6, RunBoth

AudioEnabled(i) ==
  ilclient_change_component_state(audio_render(i), Executing) \o Return(0)

LEMMA NearEnableAudio ==
  ASSUME NEW b, NEW v, NEW i \in 1 .. 2, b.inits > 0, b.alive \subseteq Comps,
         audio_render(i) \in b.alive, clock(i) \in b.alive,
         v.state[audio_render(i)] = Idle, State(v, audio_render(i), Idle) = v,
         100 \notin v.enabled[audio_render(i)], v.supplied[audio_render(i)] = 0
  PROVE  Runs(Near(b, v), EnableAudio(i) \o Insist,
              Exact(b, State(Fuelled(v, audio_render(i), 100), audio_render(i), Executing)))
<1> DEFINE a == audio_render(i)
           u == Fuelled(v, a, 100)
           z == State(u, a, Executing)
           p1 == ilclient_change_component_state(a, Idle)
           p2 == ilclient_enable_port_buffers(a, 100)
           p3 == IfReturned(0, AudioEnabled(i), GiveUp(i))
           d == GivenUp(b, i)
<1>1. a \in Comps
  BY OfClient
<1>2. Runs(Near(b, v), p1, Near(b, v))
  <2>1. Runs(Near(b, v), p1, Near(b, State(v, a, Idle)))
    BY <1>1, NearChange
  <2> QED
    BY <2>1
<1>3. 100 \in ToSet(PortsOf(a)) \cap Fed
  BY DEF PortsOf, audio_render, Fed, ToSet
<1>4. Runs(Near(b, v), p2, Exact(b, u) \cup Failing(b))
  BY <1>1, <1>3, NearFuel
<1>5. Runs(Losing(b), GiveUp(i), Failing(d))
  BY LostGivingUp
<1>6. u.state[a] = Idle
  BY DEF Fuelled, With, World
<1> HIDE DEF a, u, z, p1, p2, d
<1>7. Runs(Near(b, u), ilclient_change_component_state(a, Executing), Near(b, z))
  BY <1>1, <1>6, NearChange DEF z, a
<1>8. Runs(Near(b, u), AudioEnabled(i), Exact(b, z))
  BY <1>7, NearReturn, RunSeq DEF AudioEnabled, a
<1>9. Runs(Exact(b, u) \cup Failing(b), p3, Exact(b, z) \cup Failing(d))
  <2> DEFINE Q == Exact(b, z) \cup Failing(d)
  <2>1. Runs(Near(b, u), AudioEnabled(i), Q)
    BY <1>8, RunMore
  <2>2. Runs(Losing(b), GiveUp(i), Q)
    BY <1>5, RunMore
  <2> HIDE DEF Q
  <2>3. Runs(Exact(b, u) \cup Failing(b), p3, Q)
    BY <2>1, <2>2, IfExact
  <2> QED
    BY <2>3 DEF Q
<1>10. EnableAudio(i) = (p1 \o p2) \o p3
  BY DEF EnableAudio, AudioEnabled, p1, p2, a
<1>11. Runs(Exact(b, z) \cup Failing(d), Insist, Exact(b, z))
  BY ExactInsist
<1> HIDE DEF p3
<1> DEFINE P == Exact(b, u) \cup Failing(b)
           Q == Exact(b, z) \cup Failing(d)
<1> HIDE DEF P, Q
<1>12. Runs(Near(b, v), p1 \o p2, P)
  BY <1>2, <1>4, RunSeq DEF P
<1>13. Runs(Near(b, v), (p1 \o p2) \o p3, Q)
  BY <1>12, <1>9, RunSeq DEF P, Q
<1>14. Runs(Near(b, v), ((p1 \o p2) \o p3) \o Insist, Exact(b, z))
  BY <1>13, <1>11, RunSeq DEF Q
<1> QED
  BY <1>10, <1>14 DEF z, u, a

(* The call of sx_audio_sink_init(i), step by step.                        *)
LEMMA NearAudio ==
  ASSUME NEW b, NEW v, NEW i \in 1 .. 2, i \notin b.clients, b.inits \in 0 .. 2,
         b.alive \subseteq Comps,
         audio_render(i) \notin b.alive, clock(i) \notin b.alive,
         v.supplied[audio_render(i)] = 0
  PROVE  LET a == audio_render(i)
             z == clock(i)
         IN  Runs(Near(b, v), sx_audio_sink_init(i),
                  Near(Base(b.inits + 1, b.clients \cup {i}, (b.alive \cup {a}) \cup {z}),
                       Duo(v, a, z, Executing, Executing, {100, 101}, {80},
                           v.tunnels \cup {AudioTunnel(i)}, Put(v.supplied, a, NumBuffers))))
<1> DEFINE a == audio_render(i)
           z == clock(i)
           b0 == Base(b.inits + 1, b.clients \cup {i}, b.alive)
           b1 == Peopled(b0, a)
           b2 == Peopled(b1, z)
           v1 == Have(v, a, {})
           tu == v.tunnels
           su == v.supplied
           v2 == Duo(v, a, z, Loaded, Loaded, {}, {}, tu, su)
           tu2 == tu \cup {AudioTunnel(i)}
           v3 == Duo(v, a, z, Idle, Idle, {101}, {80}, tu2, su)
           v4 == Duo(v, a, z, Idle, Executing, {101}, {80}, tu2, su)
           su2 == Put(su, a, NumBuffers)
           v5 == Duo(v, a, z, Executing, Executing, {100, 101}, {80}, tu2, su2)
           begin == <<[do |-> "init client", k |-> i], [do |-> "OMX_Init"]>>
           mka == ilclient_create_component(a)
           mkz == ilclient_create_component(z)
           conf == Configure(a)
           joina == ilclient_setup_tunnel(AudioTunnel(i), FALSE)
           start == ilclient_change_component_state(z, Executing)
<1>1. /\ a \in Comps /\ z \in Comps /\ a # z /\ i \in Clients /\ Owner(a) = i /\ Owner(z) = i
  BY OfClient
<1>2. /\ b0.inits = b.inits + 1 /\ b0.clients = b.clients \cup {i} /\ b0.alive = b.alive
      /\ b1.inits = b.inits + 1 /\ b1.clients = b.clients \cup {i} /\ b1.alive = b.alive \cup {a}
      /\ b2.inits = b.inits + 1 /\ b2.clients = b.clients \cup {i}
      /\ b2.alive = (b.alive \cup {a}) \cup {z}
      /\ b2 = Base(b.inits + 1, b.clients \cup {i}, (b.alive \cup {a}) \cup {z})
  BY DEF Peopled, Base
<1>3. AudioTunnel(i) = <<<<z, 80>>, <<a, 101>>>>
  BY DEF AudioTunnel
<1>4. 101 \in ToSet(PortsOf(a)) /\ 80 \in ToSet(PortsOf(z))
  BY DEF PortsOf, audio_render, clock, ToSet
<1> HIDE DEF a, z, b0, b1, b2
<1>5. Runs(Near(b, v), begin \o Insist, Near(b0, v))
  <2>1. b.inits < 3
    OBVIOUS
  <2> QED
    BY <1>1, <2>1, NearBegin DEF b0
<1>6. Runs(Near(b0, v), mka \o Insist, Near(b1, v1))
  BY <1>1, <1>2, NearCreate DEF b1, a
<1>7. Runs(Near(b1, v1), mkz \o Insist, Near(b2, v2))
  <2>1. z \notin b1.alive
    BY <1>1, <1>2 DEF z
  <2>2. Have(v1, z, {}) = v2
    BY <1>1, DuoHave
  <2>3. Runs(Near(b1, v1), mkz \o Insist, Near(b2, Have(v1, z, {})))
    BY <1>1, <1>2, <2>1, NearCreate DEF b2
  <2> QED
    BY <2>2, <2>3
<1>8. Runs(Near(b2, v2), Configure(z) \o Insist, Near(b2, v2))
  BY NearConfigure
<1>9. Runs(Near(b2, v2), joina \o Insist, Near(b2, v3))
  <2> DEFINE x == <<z, 80>>  y == <<a, 101>>
  <2>1. Joinable(b2, x, y)
    BY <1>1, <1>2, <1>4 DEF Joinable
  <2>2. v2.state[z] = Loaded
    BY <1>1, DuoIs
  <2>3. State(v2, z, Idle) = Duo(v, a, z, Loaded, Idle, {}, {}, tu, su)
    BY <1>1, DuoState
  <2>4. Joint(Duo(v, a, z, Loaded, Idle, {}, {}, tu, su), x, y)
          = Duo(v, a, z, Idle, Idle, {} \cup {101}, {} \cup {80}, tu \cup {<<x, y>>}, su)
    BY <1>1, DuoJoint
  <2>5. Joint(State(v2, z, Idle), x, y) = v3
    BY <1>3, <2>3, <2>4
  <2>6. x[1] = z
    OBVIOUS
  <2> HIDE DEF x, y, v2, v3
  <2>7. Runs(Near(b2, v2), ilclient_setup_tunnel(<<x, y>>, FALSE) \o Insist,
             Near(b2, Joint(State(v2, x[1], Idle), x, y)))
    BY <2>1, <2>2, <2>6, NearSetup
  <2> QED
    BY <1>3, <2>5, <2>6, <2>7 DEF x, y
<1>10. Runs(Near(b2, v3), start, Near(b2, v4))
  <2>1. v3.state[z] = Idle
    BY <1>1, DuoIs
  <2>2. State(v3, z, Executing) = v4
    BY <1>1, DuoState
  <2>3. z \in b2.alive
    BY <1>2
  <2> HIDE DEF v3, v4
  <2>4. Runs(Near(b2, v3), start, Near(b2, State(v3, z, Executing)))
    BY <1>1, <2>1, <2>3, NearChange
  <2> QED
    BY <2>2, <2>4
<1>11. Runs(Near(b2, v4), conf \o Insist, Near(b2, v4))
  BY NearConfigure
<1>12. Runs(Near(b2, v4), EnableAudio(i) \o Insist, Exact(b2, v5))
  <2> DEFINE u == Duo(v, a, z, Idle, Executing, {101} \cup {100}, {80}, tu2, su2)
  <2>1. v4.state[a] = Idle /\ v4.enabled[a] = {101} /\ v4.supplied = su
    BY <1>1, DuoIs
  <2>2. State(v4, a, Idle) = v4
    BY <1>1, DuoState
  <2>3. Fuelled(v4, a, 100) = u
    BY <1>1, DuoFuelled
  <2>4. {101} \cup {100} = {100, 101}
    OBVIOUS
  <2>5. State(u, a, Executing) = v5
    BY <1>1, <2>4, DuoState
  <2>6. a \in b2.alive /\ z \in b2.alive /\ b2.alive \subseteq Comps /\ b2.inits > 0
    BY <1>1, <1>2
  <2>7. v4.supplied[a] = 0 /\ 100 \notin v4.enabled[a]
    BY <2>1 DEF a
  <2> HIDE DEF v4, v5, u
  <2>8. Runs(Near(b2, v4), EnableAudio(i) \o Insist,
              Exact(b2, State(Fuelled(v4, a, 100), a, Executing)))
    BY <2>1, <2>2, <2>6, <2>7, NearEnableAudio DEF a, z
  <2> QED
    BY <2>3, <2>5, <2>8
<1>13. Runs(Near(b2, v5), conf \o Insist, Near(b2, v5))
  BY NearConfigure
<1>14. Runs(Near(b2, v5), Return(0) \o Insist, Near(b2, v5))
  <2>1. Runs(Near(b2, v5), Return(0), Exact(b2, v5) \cup Failing(b2))
    BY NearReturn, RunMore
  <2>2. Runs(Near(b2, v5), Return(0) \o Insist, Exact(b2, v5))
    <3> HIDE DEF v5
    <3> QED
      BY <2>1, ExactInsist, RunSeq
  <2> QED
    BY <2>2, ExactIn, RunMore
<1> DEFINE c1 == begin \o Insist
           c2 == (c1 \o mka) \o Insist
           c3 == (c2 \o mkz) \o Insist
           c4 == (c3 \o Configure(z)) \o Insist
           t1 == (joina \o Insist) \o start
           r1 == conf \o Insist
           r2 == (r1 \o conf) \o Insist
           r3 == (r2 \o conf) \o Insist
           m == ((c4 \o t1) \o r3) \o EnableAudio(i)
           s1 == (conf \o Insist) \o Return(0)
<1>15. sx_audio_sink_init(i) = ((m \o Insist) \o s1) \o Insist
  BY DEF sx_audio_sink_init, audioplay_create, audioplay_set_dest, CreateAudio, ConnectClock,
         ConfigureRender, a, z
<1>16. /\ IsSeq(Insist) /\ IsSeq(mka) /\ IsSeq(mkz) /\ IsSeq(Configure(z)) /\ IsSeq(conf)
       /\ IsSeq(Return(0))
  BY Steps
<1> HIDE DEF v1, v2, v3, v4, v5, begin, mka, mkz, conf, joina, start
<1>17. Runs(Near(b, v), c2, Near(b1, v1))
  BY <1>5, <1>6, <1>16, RunThen
<1> HIDE DEF c1, c2
<1>18. Runs(Near(b, v), c3, Near(b2, v2))
  BY <1>7, <1>16, <1>17, RunThen
<1> HIDE DEF c3
<1>19. Runs(Near(b, v), c4, Near(b2, v2))
  BY <1>8, <1>16, <1>18, RunThen
<1> HIDE DEF c4
<1>20. Runs(Near(b2, v2), t1, Near(b2, v4))
  BY <1>9, <1>10, RunSeq
<1> HIDE DEF t1
<1>21. Runs(Near(b2, v4), r2, Near(b2, v4))
  BY <1>11, <1>16, RunThen
<1> HIDE DEF r1, r2
<1>22. Runs(Near(b2, v4), r3, Near(b2, v4))
  BY <1>11, <1>16, <1>21, RunThen
<1> HIDE DEF r3
<1>23. Runs(Near(b, v), c4 \o t1, Near(b2, v4))
  BY <1>19, <1>20, RunSeq
<1>24. Runs(Near(b, v), (c4 \o t1) \o r3, Near(b2, v4))
  BY <1>22, <1>23, RunSeq
<1>25. Runs(Near(b, v), m \o Insist, Exact(b2, v5))
  <2> DEFINE front == (c4 \o t1) \o r3
             en == EnableAudio(i)
  <2>1. IsSeq(en)
    <3>1. EnableAudio(i) = (ilclient_change_component_state(a, Idle) \o ilclient_enable_port_buffers(a, 100))
            \o IfReturned(0, AudioEnabled(i), GiveUp(i))
      BY DEF EnableAudio, AudioEnabled, a
    <3>2. IsSeq(ilclient_change_component_state(a, Idle)) /\ IsSeq(ilclient_enable_port_buffers(a, 100))
          /\ IsSeq(IfReturned(0, AudioEnabled(i), GiveUp(i)))
      BY OneIsSeq, SeqConcat, Steps DEF ilclient_change_component_state, IfReturned, Send, Wait
    <3> QED
      BY <3>1, <3>2, SeqConcat
  <2>2. m = front \o en
    OBVIOUS
  <2> HIDE DEF front, en, m
  <2>3. Runs(Near(b, v), (front \o en) \o Insist, Exact(b2, v5))
    BY <1>12, <1>16, <1>24, <2>1, RunThen DEF front, en
  <2> QED
    BY <2>2, <2>3
<1> HIDE DEF m
<1>26. Runs(Near(b2, v5), s1 \o Insist, Near(b2, v5))
  BY <1>13, <1>14, <1>16, RunThen
<1>27. IsSeq(s1)
  BY <1>16, SeqConcat
<1> HIDE DEF s1
<1>28. Runs(Near(b, v), m \o Insist, Near(b2, v5))
  BY <1>25, ExactIn, RunMore
<1>29. Runs(Near(b, v), ((m \o Insist) \o s1) \o Insist, Near(b2, v5))
  <2> DEFINE mi == m \o Insist
  <2> HIDE DEF mi
  <2>1. Runs(Near(b, v), mi, Near(b2, v5))
    BY <1>28 DEF mi
  <2>2. Runs(Near(b, v), (mi \o s1) \o Insist, Near(b2, v5))
    BY <1>16, <1>26, <1>27, <2>1, RunThen
  <2> QED
    BY <2>2 DEF mi
<1> QED
  BY <1>2, <1>15, <1>29 DEF v5, a, z

(* g, but for the four components of the picture.                          *)
Four(g, x1, x2, x3, x4) ==
  [c \in Comps |-> IF c = video_decode THEN x1 ELSE IF c = video_render THEN x2
                   ELSE IF c = video_clock THEN x3 ELSE IF c = video_scheduler THEN x4
                   ELSE g[c]]
Quartet(v, st, en, tu, su) == World(v.seen, v.hand, st, en, tu, su, v.spoiled)

LEMMA OfVideo ==
  /\ video_decode \in Comps /\ video_render \in Comps /\ video_clock \in Comps
  /\ video_scheduler \in Comps
  /\ video_decode # video_render /\ video_decode # video_clock /\ video_decode # video_scheduler
  /\ video_render # video_clock /\ video_render # video_scheduler
  /\ video_clock # video_scheduler
  /\ 0 \in Clients /\ Owner(video_decode) = 0 /\ Owner(video_render) = 0
  /\ Owner(video_clock) = 0 /\ Owner(video_scheduler) = 0
<1>1. /\ video_decode \in Comps /\ video_render \in Comps /\ video_clock \in Comps
      /\ video_scheduler \in Comps
  BY ComponentsAssumption DEF Components
<1>2. /\ Owner(video_decode) = 0 /\ Owner(video_render) = 0
      /\ Owner(video_clock) = 0 /\ Owner(video_scheduler) = 0
  BY DEF Owner, video_decode, video_render, video_clock, video_scheduler
<1>3. 0 \in Clients
  BY <1>1, <1>2 DEF Clients, Owner
<1>4. /\ video_decode # video_render /\ video_decode # video_clock /\ video_decode # video_scheduler
      /\ video_render # video_clock /\ video_render # video_scheduler
      /\ video_clock # video_scheduler
  BY DEF video_decode, video_render, video_clock, video_scheduler
<1> QED
  BY <1>1, <1>2, <1>3, <1>4

LEMMA FourGet ==
  ASSUME NEW g, NEW x1, NEW x2, NEW x3, NEW x4
  PROVE  /\ Four(g, x1, x2, x3, x4)[video_decode] = x1
         /\ Four(g, x1, x2, x3, x4)[video_render] = x2
         /\ Four(g, x1, x2, x3, x4)[video_clock] = x3
         /\ Four(g, x1, x2, x3, x4)[video_scheduler] = x4
BY OfVideo DEF Four

LEMMA FourPut ==
  ASSUME NEW g, NEW x1, NEW x2, NEW x3, NEW x4, NEW y
  PROVE  /\ Put(Four(g, x1, x2, x3, x4), video_decode, y) = Four(g, y, x2, x3, x4)
         /\ Put(Four(g, x1, x2, x3, x4), video_render, y) = Four(g, x1, y, x3, x4)
         /\ Put(Four(g, x1, x2, x3, x4), video_clock, y) = Four(g, x1, x2, y, x4)
         /\ Put(Four(g, x1, x2, x3, x4), video_scheduler, y) = Four(g, x1, x2, x3, y)
<1>1. Put(Four(g, x1, x2, x3, x4), video_decode, y) = Four(g, y, x2, x3, x4)
  BY OfVideo DEF Four, Put
<1>2. Put(Four(g, x1, x2, x3, x4), video_render, y) = Four(g, x1, y, x3, x4)
  BY OfVideo DEF Four, Put
<1>3. Put(Four(g, x1, x2, x3, x4), video_clock, y) = Four(g, x1, x2, y, x4)
  BY OfVideo DEF Four, Put
<1>4. Put(Four(g, x1, x2, x3, x4), video_scheduler, y) = Four(g, x1, x2, x3, y)
  BY OfVideo DEF Four, Put
<1> QED
  BY <1>1, <1>2, <1>3, <1>4

LEMMA FourIs ==
  ASSUME NEW g, NEW x1, NEW x2, NEW x3, NEW x4
  PROVE  Put(Put(Put(Put(g, video_decode, x1), video_render, x2), video_clock, x3),
             video_scheduler, x4) = Four(g, x1, x2, x3, x4)
BY OfVideo DEF Four, Put

LEMMA QuartetIs ==
  ASSUME NEW v, NEW st, NEW en, NEW tu, NEW su
  PROVE  LET u == Quartet(v, st, en, tu, su)
         IN  /\ u.state = st /\ u.enabled = en /\ u.tunnels = tu /\ u.supplied = su
             /\ u.seen = v.seen /\ u.hand = v.hand /\ u.spoiled = v.spoiled
             /\ \A c, s : State(u, c, s) = Quartet(v, Put(st, c, s), en, tu, su)
             /\ \A c, P : Have(u, c, P) = Quartet(v, Put(st, c, Loaded), Put(en, c, P), tu, su)
             /\ \A e2, t2, s2 : With(u, e2, t2, s2) = Quartet(v, st, e2, t2, s2)
             /\ \A c, n : Fuelled(u, c, n) = Quartet(v, st, Put(en, c, en[c] \cup {n}), tu, Put(su, c, NumBuffers))
<1> DEFINE u == Quartet(v, st, en, tu, su)
<1>1. /\ u.state = st /\ u.enabled = en /\ u.tunnels = tu /\ u.supplied = su
      /\ u.seen = v.seen /\ u.hand = v.hand /\ u.spoiled = v.spoiled
  BY DEF Quartet, World
<1> HIDE DEF u
<1>2. \A c, s : State(u, c, s) = Quartet(v, Put(st, c, s), en, tu, su)
  BY <1>1 DEF State, Quartet
<1>3. \A c, P : Have(u, c, P) = Quartet(v, Put(st, c, Loaded), Put(en, c, P), tu, su)
  BY <1>1 DEF Have, Quartet
<1>4. \A e2, t2, s2 : With(u, e2, t2, s2) = Quartet(v, st, e2, t2, s2)
  BY <1>1 DEF With, Quartet
<1>5. \A c, n : Fuelled(u, c, n) = Quartet(v, st, Put(en, c, en[c] \cup {n}), tu, Put(su, c, NumBuffers))
  BY <1>1 DEF Fuelled, With, Quartet
<1> QED
  BY <1>1, <1>2, <1>3, <1>4, <1>5 DEF u

MisOr(b, v, z) == Near(b, z) \cup Mis(b, v)

LEMMA OrConfigure ==
  ASSUME NEW b, NEW v, NEW z, NEW c
  PROVE  Runs(MisOr(b, v, z), Configure(c) \o Insist, MisOr(b, v, z))
<1> DEFINE p == Configure(c) \o Insist
           Q == MisOr(b, v, z)
<1>1. Runs(Mis(b, v), p, Mis(b, v)) /\ Runs(Near(b, z), p, Near(b, z))
  BY MisConfigure, NearConfigure
<1>2. Mis(b, v) \subseteq Q /\ Near(b, z) \subseteq Q
  BY DEF MisOr
<1> HIDE DEF p, Q
<1>3. Runs(Mis(b, v), p, Q)
  BY <1>1, <1>2, RunMore
<1>4. Runs(Near(b, z), p, Q)
  BY <1>1, <1>2, RunMore
<1> QED
  BY <1>3, <1>4, RunBoth DEF MisOr, p, Q

LEMMA OrFuel ==
  ASSUME NEW b, NEW v, NEW c \in Comps, NEW n \in ToSet(PortsOf(c)) \cap Fed, c \in b.alive,
         v.state[c] = Loaded, n \notin v.enabled[c], v.supplied[c] = 0,
         NEW z, z.state[c] = Idle, n \notin z.enabled[c], z.supplied[c] = 0
  PROVE  Runs(MisOr(b, v, z), ilclient_enable_port_buffers(c, n) \o Insist,
              Near(b, Fuelled(z, c, n)))
<1> DEFINE e == ilclient_enable_port_buffers(c, n)
           Q == Near(b, Fuelled(z, c, n))
           P == Exact(b, Fuelled(z, c, n)) \cup Failing(b)
<1>1. Runs(Mis(b, v), e \o Insist, Q)
  BY MisFuel
<1>2. Runs(Near(b, z), e, P)
  BY NearFuel
<1>3. Runs(P, Insist, Exact(b, Fuelled(z, c, n)))
  BY ExactInsist
<1>4. Exact(b, Fuelled(z, c, n)) \subseteq Q
  BY ExactIn
<1> HIDE DEF e, Q, P
<1>5. Runs(P, Insist, Q)
  BY <1>3, <1>4, RunMore
<1>6. Runs(Near(b, z), e \o Insist, Q)
  BY <1>2, <1>5, RunSeq
<1> QED
  BY <1>1, <1>6, RunBoth DEF MisOr, e, Q

LEMMA VideoPorts ==
  /\ ToSet(PortsOf(video_decode)) = {130, 131} /\ ToSet(PortsOf(video_scheduler)) = {10, 11, 12}
  /\ ToSet(PortsOf(video_render)) = {90} /\ ToSet(PortsOf(video_clock)) = {80}
  /\ 130 \in Fed
<1>1. ToSet(PortsOf(video_decode)) = {130, 131}
  BY DEF PortsOf, ToSet, video_decode
<1>2. ToSet(PortsOf(video_scheduler)) = {10, 11, 12}
  <2>1. PortsOf(video_scheduler) = <<10, 11, 12>>
    BY DEF PortsOf, video_scheduler
  <2>2. DOMAIN <<10, 11, 12>> = {1, 2, 3}
    OBVIOUS
  <2> QED
    BY <2>1, <2>2 DEF ToSet
<1>3. ToSet(PortsOf(video_render)) = {90}
  BY DEF PortsOf, ToSet, video_render
<1>4. ToSet(PortsOf(video_clock)) = {80}
  BY DEF PortsOf, ToSet, video_clock
<1> QED
  BY <1>1, <1>2, <1>3, <1>4 DEF Fed

(* The components of the picture, one after the other.                     *)
LEMMA NearCreateVideo ==
  ASSUME NEW b, NEW v, 0 \notin b.clients, b.inits \in 0 .. 2,
         b.alive \cap {video_decode, video_render, video_clock, video_scheduler} = {}
  PROVE  Runs(Near(b, v), CreateVideo,
              Near(Base(b.inits + 1, b.clients \cup {0},
                        b.alive \cup {video_decode, video_render, video_clock, video_scheduler}),
                   Quartet(v, Four(v.state, Loaded, Loaded, Loaded, Loaded),
                           Four(v.enabled, {}, {}, {}, {}), v.tunnels, v.supplied)))
<1> DEFINE d == video_decode
           r == video_render
           z == video_clock
           s == video_scheduler
           b0 == Base(b.inits + 1, b.clients \cup {0}, b.alive)
           b1 == Peopled(b0, d)
           b2 == Peopled(b1, r)
           b3 == Peopled(b2, z)
           b4 == Peopled(b3, s)
           v1 == Have(v, d, {})
           v2 == Have(v1, r, {})
           v3 == Have(v2, z, {})
           v4 == Have(v3, s, {})
           begin == <<[do |-> "init client", k |-> 0], [do |-> "OMX_Init"]>>
           m1 == ilclient_create_component(d)
           m2 == ilclient_create_component(r)
           m3 == ilclient_create_component(z)
           m4 == ilclient_create_component(s)
           c0 == begin \o Insist
           c1 == (c0 \o m1) \o Insist
           c2 == (c1 \o m2) \o Insist
           c3 == (c2 \o m3) \o Insist
           c4 == (c3 \o Configure(z)) \o Insist
           c5 == (c4 \o m4) \o Insist
<1>1. /\ d \in Comps /\ r \in Comps /\ z \in Comps /\ s \in Comps
      /\ d # r /\ d # z /\ d # s /\ r # z /\ r # s /\ z # s
      /\ 0 \in Clients /\ Owner(d) = 0 /\ Owner(r) = 0 /\ Owner(z) = 0 /\ Owner(s) = 0
  BY OfVideo
<1>2. CreateVideo = c5
  BY DEF CreateVideo
<1>3. /\ IsSeq(Insist) /\ IsSeq(m1) /\ IsSeq(m2) /\ IsSeq(m3) /\ IsSeq(m4) /\ IsSeq(Configure(z))
  BY Steps
<1>4. /\ b0.inits = b.inits + 1 /\ b0.clients = b.clients \cup {0} /\ b0.alive = b.alive
      /\ b1.inits = b0.inits /\ b1.clients = b0.clients /\ b1.alive = b0.alive \cup {d}
      /\ b2.inits = b0.inits /\ b2.clients = b0.clients /\ b2.alive = b1.alive \cup {r}
      /\ b3.inits = b0.inits /\ b3.clients = b0.clients /\ b3.alive = b2.alive \cup {z}
      /\ b4.inits = b0.inits /\ b4.clients = b0.clients /\ b4.alive = b3.alive \cup {s}
  BY DEF Peopled, Base
<1>5. b4 = Base(b.inits + 1, b.clients \cup {0}, b.alive \cup {d, r, z, s})
  <2>1. b4 = Base(b4.inits, b4.clients, b4.alive)
    BY DEF Peopled, Base
  <2>2. b4.alive = b.alive \cup {d, r, z, s}
    BY <1>4
  <2> HIDE DEF b4, d, r, z, s
  <2> QED
    BY <1>4, <2>1, <2>2
<1>6. v4 = Quartet(v, Four(v.state, Loaded, Loaded, Loaded, Loaded), Four(v.enabled, {}, {}, {}, {}),
                   v.tunnels, v.supplied)
  <2>1. v4 = Quartet(v, Put(Put(Put(Put(v.state, d, Loaded), r, Loaded), z, Loaded), s, Loaded),
                     Put(Put(Put(Put(v.enabled, d, {}), r, {}), z, {}), s, {}), v.tunnels, v.supplied)
    BY DEF Have, Quartet, World
  <2> QED
    BY <2>1, FourIs
<1> HIDE DEF d, r, z, s, b0, b1, b2, b3, b4, v1, v2, v3, v4
<1>7. Runs(Near(b, v), c0, Near(b0, v))
  <2>1. b.inits < 3
    OBVIOUS
  <2> QED
    BY <1>1, <2>1, NearBegin DEF b0
<1>8. Runs(Near(b0, v), m1 \o Insist, Near(b1, v1))
  <2>1. d \notin b0.alive /\ Owner(d) \in b0.clients
    BY <1>1, <1>4 DEF d
  <2> QED
    BY <1>1, <2>1, NearCreate DEF b1, v1
<1>9. Runs(Near(b1, v1), m2 \o Insist, Near(b2, v2))
  <2>1. r \notin b1.alive /\ Owner(r) \in b1.clients
    BY <1>1, <1>4 DEF r
  <2> QED
    BY <1>1, <2>1, NearCreate DEF b2, v2
<1>10. Runs(Near(b2, v2), m3 \o Insist, Near(b3, v3))
  <2>1. z \notin b2.alive /\ Owner(z) \in b2.clients
    BY <1>1, <1>4 DEF z
  <2> QED
    BY <1>1, <2>1, NearCreate DEF b3, v3
<1>11. Runs(Near(b3, v3), Configure(z) \o Insist, Near(b3, v3))
  BY NearConfigure
<1>12. Runs(Near(b3, v3), m4 \o Insist, Near(b4, v4))
  <2>1. s \notin b3.alive /\ Owner(s) \in b3.clients
    BY <1>1, <1>4 DEF s
  <2> QED
    BY <1>1, <2>1, NearCreate DEF b4, v4
<1> HIDE DEF begin, m1, m2, m3, m4, c0
<1>13. Runs(Near(b, v), c1, Near(b1, v1))
  BY <1>3, <1>7, <1>8, RunThen
<1> HIDE DEF c1
<1>14. Runs(Near(b, v), c2, Near(b2, v2))
  BY <1>3, <1>13, <1>9, RunThen
<1> HIDE DEF c2
<1>15. Runs(Near(b, v), c3, Near(b3, v3))
  BY <1>3, <1>14, <1>10, RunThen
<1> HIDE DEF c3
<1>16. Runs(Near(b, v), c4, Near(b3, v3))
  BY <1>3, <1>15, <1>11, RunThen
<1> HIDE DEF c4
<1>17. Runs(Near(b, v), c5, Near(b4, v4))
  BY <1>3, <1>16, <1>12, RunThen
<1> QED
  BY <1>2, <1>5, <1>6, <1>17 DEF d, r, z, s

(* What follows in sx_video_sink_init.                                     *)
LEMMA NearStartVideo ==
  ASSUME NEW b, NEW v, NEW g, NEW e, NEW tu, NEW su, su[video_decode] = 0,
         {video_decode, video_render, video_clock, video_scheduler} \subseteq b.alive
  PROVE  Runs(Near(b, Quartet(v, Four(g, Loaded, Loaded, Loaded, Loaded),
                              Four(e, {}, {}, {}, {}), tu, su)),
              StartVideo,
              Near(b, Quartet(v, Four(g, Executing, Loaded, Executing, Idle),
                              Four(e, {130}, {}, {80}, {12}), tu \cup {ClockTunnel},
                              Put(su, video_decode, NumBuffers))))
<1> DEFINE d == video_decode
           r == video_render
           z == video_clock
           s == video_scheduler
           x == <<z, 80>>
           y == <<s, 12>>
           tv == tu \cup {ClockTunnel}
           e0 == Four(e, {}, {}, {}, {})
           e1 == Four(e, {}, {}, {80}, {12})
           e2 == Four(e, {130}, {}, {80}, {12})
           sv == Put(su, d, NumBuffers)
           v0 == Quartet(v, Four(g, Loaded, Loaded, Loaded, Loaded), e0, tu, su)
           v1 == Quartet(v, Four(g, Loaded, Loaded, Idle, Idle), e1, tv, su)
           v2 == Quartet(v, Four(g, Loaded, Loaded, Executing, Idle), e1, tv, su)
           v3 == Quartet(v, Four(g, Idle, Loaded, Executing, Idle), e1, tv, su)
           v4 == Quartet(v, Four(g, Idle, Loaded, Executing, Idle), e2, tv, sv)
           v5 == Quartet(v, Four(g, Executing, Loaded, Executing, Idle), e2, tv, sv)
           join == ilclient_setup_tunnel(ClockTunnel, FALSE)
           start == ilclient_change_component_state(z, Executing)
           prep == ilclient_change_component_state(d, Idle)
           fuel == ilclient_enable_port_buffers(d, 130)
           go == ilclient_change_component_state(d, Executing)
           q1 == (join \o Insist) \o start
           q2 == (q1 \o Configure(r)) \o Insist
           q3 == q2 \o prep
           q4 == (q3 \o Configure(d)) \o Insist
           q5 == (q4 \o fuel) \o Insist
           q6 == q5 \o go
<1>1. /\ d \in Comps /\ r \in Comps /\ z \in Comps /\ s \in Comps
      /\ d # r /\ d # z /\ d # s /\ r # z /\ r # s /\ z # s
      /\ d \in b.alive /\ r \in b.alive /\ z \in b.alive /\ s \in b.alive
  BY OfVideo
<1>2. StartVideo = q6
  BY DEF StartVideo
<1>3. /\ IsSeq(Insist) /\ IsSeq(fuel) /\ IsSeq(Configure(d)) /\ IsSeq(Configure(r))
  BY Steps
<1>4. ClockTunnel = <<x, y>>
  BY DEF ClockTunnel
<1>5. x[1] = z /\ x[2] = 80 /\ y[1] = s /\ y[2] = 12
  OBVIOUS
<1> HIDE DEF x, y
<1>6. Joinable(b, x, y)
  <2>1. x \in Comps \X Int /\ y \in Comps \X Int
    BY <1>1 DEF x, y
  <2>2. 80 \in ToSet(PortsOf(z)) /\ 12 \in ToSet(PortsOf(s))
    BY VideoPorts
  <2> HIDE DEF d, r, z, s
  <2> QED
    BY <1>1, <1>5, <2>1, <2>2 DEF Joinable
<1>7. Put(Put(e0, z, e0[z] \cup {80}), s, e0[s] \cup {12}) = e1
  <2>1. e0[z] = {} /\ e0[s] = {}
    BY FourGet
  <2>2. Put(e0, z, {80}) = Four(e, {}, {}, {80}, {})
    BY FourPut
  <2>3. Put(Four(e, {}, {}, {80}, {}), s, {12}) = Four(e, {}, {}, {80}, {12})
    BY FourPut
  <2>4. {} \cup {80} = {80} /\ {} \cup {12} = {12}
    OBVIOUS
  <2> HIDE DEF d, r, z, s, e0
  <2> QED
    BY <2>1, <2>2, <2>3, <2>4
<1>8. Runs(Near(b, v0), join \o Insist, Near(b, v1))
  <2> DEFINE st == Four(g, Loaded, Loaded, Loaded, Loaded)
             st1 == Four(g, Loaded, Loaded, Idle, Loaded)
             st2 == Four(g, Loaded, Loaded, Idle, Idle)
  <2>1. v0.state = st /\ State(v0, z, Idle) = Quartet(v, Put(st, z, Idle), e0, tu, su)
    BY QuartetIs
  <2>2. st[z] = Loaded /\ Put(st, z, Idle) = st1 /\ st1[s] = Loaded /\ Put(st1, s, Idle) = st2
    BY FourGet, FourPut
  <2> HIDE DEF st, st1, st2, v0, e0, e1, d, r, z, s
  <2>3. State(v0, z, Idle) = Quartet(v, st1, e0, tu, su)
    BY <2>1, <2>2
  <2>4. Joint(State(v0, z, Idle), x, y) = v1
    <3> DEFINE u == Quartet(v, st1, e0, tu, su)
               m == Quartet(v, st2, e0, tu, su)
    <3>1. /\ u.state = st1 /\ u.enabled = e0 /\ u.tunnels = tu /\ u.supplied = su
          /\ State(u, s, Idle) = m
      BY <2>2, QuartetIs
    <3>2. With(m, e1, tv, su) = Quartet(v, st2, e1, tv, su)
      BY QuartetIs
    <3> HIDE DEF u, m
    <3>3. Joint(u, x, y) = With(IF u.state[y[1]] = Loaded THEN State(u, y[1], Idle) ELSE u,
                Ports(u.enabled, x, y), u.tunnels \cup {<<x, y>>}, u.supplied)
      <4>1. x[1] \in Comps /\ y[1] \in Comps /\ x[1] # y[1]
        BY <1>1, <1>5
      <4> QED
        BY <4>1, JointIs
    <3>4. Ports(u.enabled, x, y) = e1
      BY <1>5, <1>7, <3>1 DEF Ports
    <3>5. Joint(u, x, y) = With(m, e1, tv, su)
      BY <1>4, <1>5, <2>2, <3>1, <3>3, <3>4
    <3> QED
      BY <2>3, <3>2, <3>5 DEF u, st2
  <2>5. Joint(State(v0, x[1], Idle), x, y) = v1
    BY <1>5, <2>4
  <2> HIDE DEF v1
  <2>6. Runs(Near(b, v0), ilclient_setup_tunnel(<<x, y>>, FALSE) \o Insist,
             Near(b, Joint(State(v0, x[1], Idle), x, y)))
    BY <1>5, <1>6, <2>1, <2>2, NearSetup
  <2> QED
    BY <1>4, <2>5, <2>6
<1>9. Runs(Near(b, v1), start, Near(b, v2))
  <2> DEFINE st == Four(g, Loaded, Loaded, Idle, Idle)
  <2>1. v1.state = st /\ State(v1, z, Executing) = Quartet(v, Put(st, z, Executing), e1, tv, su)
    BY QuartetIs
  <2>2. st[z] = Idle /\ Put(st, z, Executing) = Four(g, Loaded, Loaded, Executing, Idle)
    BY FourGet, FourPut
  <2>3. State(v1, z, Executing) = v2 /\ v1.state[z] = Idle
    BY <2>1, <2>2
  <2> HIDE DEF v1, v2, d, r, z, s
  <2>4. Runs(Near(b, v1), start, Near(b, State(v1, z, Executing)))
    BY <1>1, <2>3, NearChange
  <2> QED
    BY <2>3, <2>4
<1>10. Runs(Near(b, v2), Configure(r) \o Insist, Near(b, v2))
  BY NearConfigure
<1>11. /\ v2.state[d] = Loaded /\ v2.enabled[d] = {} /\ v2.supplied = su
       /\ State(v2, d, Idle) = v3
       /\ v3.state[d] = Idle /\ v3.enabled[d] = {} /\ v3.supplied = su
       /\ Fuelled(v3, d, 130) = v4 /\ v4.state[d] = Idle /\ State(v4, d, Executing) = v5
  <2> DEFINE st2 == Four(g, Loaded, Loaded, Executing, Idle)
             st3 == Four(g, Idle, Loaded, Executing, Idle)
             st5 == Four(g, Executing, Loaded, Executing, Idle)
  <2>1. /\ st2[d] = Loaded /\ st3[d] = Idle /\ e1[d] = {}
    BY FourGet
  <2>2. Put(st2, d, Idle) = st3 /\ Put(st3, d, Executing) = st5
    BY FourPut
  <2>3. Put(e1, d, {} \cup {130}) = e2
    <3>1. {} \cup {130} = {130}
      OBVIOUS
    <3> QED
      BY <3>1, FourPut
  <2> HIDE DEF st2, st3, st5, e1, e2, d, tv, sv
  <2>4. /\ v2.state = st2 /\ v2.enabled = e1 /\ v2.supplied = su
        /\ State(v2, d, Idle) = Quartet(v, Put(st2, d, Idle), e1, tv, su)
    BY QuartetIs DEF st2
  <2>5. /\ v3.state = st3 /\ v3.enabled = e1 /\ v3.supplied = su
        /\ Fuelled(v3, d, 130) = Quartet(v, st3, Put(e1, d, e1[d] \cup {130}), tv, Put(su, d, NumBuffers))
    BY QuartetIs DEF st3
  <2>6. v4.state = st3 /\ State(v4, d, Executing) = Quartet(v, Put(st3, d, Executing), e2, tv, sv)
    BY QuartetIs DEF st3
  <2>7. State(v2, d, Idle) = v3
    BY <2>2, <2>4 DEF st3
  <2>8. Fuelled(v3, d, 130) = v4
    BY <2>1, <2>3, <2>5 DEF sv, st3
  <2>9. State(v4, d, Executing) = v5
    BY <2>2, <2>6 DEF st5
  <2> HIDE DEF v2, v3, v4, v5
  <2> QED
    BY <2>1, <2>4, <2>5, <2>6, <2>7, <2>8, <2>9
<1>12. su[d] = 0 /\ 130 \in ToSet(PortsOf(d)) \cap Fed
  BY VideoPorts
<1> HIDE DEF d, r, z, s, v0, v1, v2, v3, v4, v5
<1>13. Runs(Near(b, v2), prep, MisOr(b, v2, v3))
  <2>1. Runs(Near(b, v2), prep, Near(b, State(v2, d, Idle)) \cup Mis(b, v2))
    BY <1>1, <1>11, MisPrepare
  <2> QED
    BY <1>11, <2>1 DEF MisOr
<1>14. Runs(MisOr(b, v2, v3), Configure(d) \o Insist, MisOr(b, v2, v3))
  BY OrConfigure
<1>15. Runs(MisOr(b, v2, v3), fuel \o Insist, Near(b, v4))
  <2>1. Runs(MisOr(b, v2, v3), fuel \o Insist, Near(b, Fuelled(v3, d, 130)))
    BY <1>1, <1>11, <1>12, OrFuel
  <2> QED
    BY <1>11, <2>1
<1>16. Runs(Near(b, v4), go, Near(b, v5))
  <2>1. Runs(Near(b, v4), go, Near(b, State(v4, d, Executing)))
    BY <1>1, <1>11, NearChange
  <2> QED
    BY <1>11, <2>1
<1> HIDE DEF join, start, prep, fuel, go
<1>17. Runs(Near(b, v0), q1, Near(b, v2))
  BY <1>8, <1>9, RunSeq
<1> HIDE DEF q1
<1>18. Runs(Near(b, v0), q2, Near(b, v2))
  BY <1>3, <1>10, <1>17, RunThen
<1> HIDE DEF q2
<1>19. Runs(Near(b, v0), q3, MisOr(b, v2, v3))
  BY <1>13, <1>18, RunSeq
<1> HIDE DEF q3
<1>20. Runs(Near(b, v0), q4, MisOr(b, v2, v3))
  BY <1>3, <1>14, <1>19, RunThen
<1> HIDE DEF q4
<1>21. Runs(Near(b, v0), q5, Near(b, v4))
  BY <1>3, <1>15, <1>20, RunThen
<1> HIDE DEF q5
<1>22. Runs(Near(b, v0), q6, Near(b, v5))
  BY <1>16, <1>21, RunSeq
<1> QED
  BY <1>2, <1>22 DEF v0, v5, d

(* The joining of two components of the picture.                           *)
Joins(st, en, x, y, s2, e2) ==
  /\ x[1] \in Comps /\ y[1] \in Comps /\ x[1] # y[1] /\ e2 = Ports(en, x, y)
  /\ st[y[1]] = Loaded => s2 = Put(st, y[1], Idle)
  /\ st[y[1]] # Loaded => s2 = st
LEMMA JointQuartet ==
  ASSUME NEW v, NEW st, NEW en, NEW tu, NEW su, NEW x, NEW y, NEW s2, NEW e2,
         Joins(st, en, x, y, s2, e2)
  PROVE  Joint(Quartet(v, st, en, tu, su), x, y) = Quartet(v, s2, e2, tu \cup {<<x, y>>}, su)
<1> DEFINE u == Quartet(v, st, en, tu, su)
           m == Quartet(v, s2, en, tu, su)
           tv == tu \cup {<<x, y>>}
<1>0. /\ x[1] \in Comps /\ y[1] \in Comps /\ x[1] # y[1] /\ e2 = Ports(en, x, y)
      /\ st[y[1]] = Loaded => s2 = Put(st, y[1], Idle)
      /\ st[y[1]] # Loaded => s2 = st
  BY DEF Joins
<1>1. /\ u.state = st /\ u.enabled = en /\ u.tunnels = tu /\ u.supplied = su
      /\ State(u, y[1], Idle) = Quartet(v, Put(st, y[1], Idle), en, tu, su)
  BY QuartetIs
<1>2. With(m, e2, tv, su) = Quartet(v, s2, e2, tv, su)
  BY QuartetIs
<1> HIDE DEF u
<1>3. Joint(u, x, y) = With(IF u.state[y[1]] = Loaded THEN State(u, y[1], Idle) ELSE u,
                Ports(u.enabled, x, y), u.tunnels \cup {<<x, y>>}, u.supplied)
  BY <1>0, JointIs
<1>4. (IF u.state[y[1]] = Loaded THEN State(u, y[1], Idle) ELSE u) = m
  <2>1. CASE st[y[1]] = Loaded
    BY <1>0, <1>1, <2>1
  <2>2. CASE st[y[1]] # Loaded
    BY <1>0, <1>1, <2>2 DEF u
  <2> QED
    BY <2>1, <2>2
<1> HIDE DEF m, tv
<1>5. Joint(u, x, y) = With(m, e2, tv, su)
  BY <1>0, <1>1, <1>3, <1>4 DEF tv
<1> QED
  BY <1>2, <1>5 DEF u, tv

LEMMA NearConnect ==
  ASSUME NEW b, NEW v, NEW g, NEW e, NEW tu, NEW su,
         {video_decode, video_render, video_clock, video_scheduler} \subseteq b.alive
  PROVE  Runs(Near(b, Quartet(v, Four(g, Executing, Loaded, Executing, Idle),
                              Four(e, {130}, {}, {80}, {12}), tu, su)),
              Connect,
              Near(b, Quartet(v, Four(g, Executing, Executing, Executing, Executing),
                              Four(e, {130, 131}, {90}, {80}, {10, 11, 12}),
                              (tu \cup {DecodeTunnel}) \cup {RenderTunnel}, su)))
<1> DEFINE d == video_decode
           r == video_render
           s == video_scheduler
           x == <<d, 131>>
           y == <<s, 10>>
           o == <<s, 11>>
           w == <<r, 90>>
           tv == tu \cup {DecodeTunnel}
           tw == tv \cup {RenderTunnel}
           st0 == Four(g, Executing, Loaded, Executing, Idle)
           st1 == Four(g, Executing, Loaded, Executing, Executing)
           st2 == Four(g, Executing, Idle, Executing, Executing)
           st3 == Four(g, Executing, Executing, Executing, Executing)
           e0 == Four(e, {130}, {}, {80}, {12})
           e1 == Four(e, {130, 131}, {}, {80}, {10, 12})
           e2 == Four(e, {130, 131}, {90}, {80}, {10, 11, 12})
           v0 == Quartet(v, st0, e0, tu, su)
           v1 == Quartet(v, st0, e1, tv, su)
           v2 == Quartet(v, st1, e1, tv, su)
           v3 == Quartet(v, st2, e2, tw, su)
           v4 == Quartet(v, st3, e2, tw, su)
           join1 == ilclient_setup_tunnel(DecodeTunnel, FALSE)
           start == ilclient_change_component_state(s, Executing)
           join2 == ilclient_setup_tunnel(RenderTunnel, TRUE)
           show == ilclient_change_component_state(r, Executing)
           q1 == (join1 \o Insist) \o start
           q2 == (q1 \o join2) \o Insist
           q3 == q2 \o show
<1>1. /\ d \in Comps /\ r \in Comps /\ s \in Comps /\ d # r /\ d # s /\ r # s
      /\ d \in b.alive /\ r \in b.alive /\ s \in b.alive
  BY OfVideo
<1>2. Connect = q3
  BY DEF Connect
<1>3. IsSeq(Insist) /\ IsSeq(join2)
  BY Steps
<1>4. DecodeTunnel = <<x, y>> /\ RenderTunnel = <<o, w>> /\ o = <<video_scheduler, 11>>
  BY DEF DecodeTunnel, RenderTunnel
<1>5. /\ x[1] = d /\ x[2] = 131 /\ y[1] = s /\ y[2] = 10
      /\ o[1] = s /\ o[2] = 11 /\ w[1] = r /\ w[2] = 90
  OBVIOUS
<1>6. Joinable(b, x, y) /\ Joinable(b, o, w)
  <2>1. x \in Comps \X Int /\ y \in Comps \X Int /\ o \in Comps \X Int /\ w \in Comps \X Int
    BY <1>1
  <2>2. 131 \in ToSet(PortsOf(d)) /\ 10 \in ToSet(PortsOf(s)) /\ 11 \in ToSet(PortsOf(s))
        /\ 90 \in ToSet(PortsOf(r))
    BY VideoPorts
  <2> HIDE DEF d, r, s, x, y, o, w
  <2> QED
    BY <1>1, <1>5, <2>1, <2>2 DEF Joinable
<1>7. e1 = Ports(e0, x, y)
  <2>1. e0[d] = {130} /\ e0[s] = {12}
    BY FourGet
  <2>2. Put(e0, d, {130, 131}) = Four(e, {130, 131}, {}, {80}, {12})
    BY FourPut
  <2>3. Put(Four(e, {130, 131}, {}, {80}, {12}), s, {10, 12}) = e1
    BY FourPut
  <2>4. {130} \cup {131} = {130, 131} /\ {12} \cup {10} = {10, 12}
    OBVIOUS
  <2> HIDE DEF d, s, e0, e1, x, y
  <2>5. Ports(e0, x, y) = Put(Put(e0, d, {130} \cup {131}), s, {12} \cup {10})
    BY <1>5, <2>1 DEF Ports
  <2> QED
    BY <2>2, <2>3, <2>4, <2>5
<1>8. e2 = Ports(e1, o, w)
  <2>1. e1[s] = {10, 12} /\ e1[r] = {}
    BY FourGet
  <2>2. Put(e1, s, {10, 11, 12}) = Four(e, {130, 131}, {}, {80}, {10, 11, 12})
    BY FourPut
  <2>3. Put(Four(e, {130, 131}, {}, {80}, {10, 11, 12}), r, {90}) = e2
    BY FourPut
  <2>4. {10, 12} \cup {11} = {10, 11, 12} /\ {} \cup {90} = {90}
    OBVIOUS
  <2> HIDE DEF r, s, e1, e2, o, w
  <2>5. Ports(e1, o, w) = Put(Put(e1, s, {10, 12} \cup {11}), r, {} \cup {90})
    BY <1>5, <2>1 DEF Ports
  <2> QED
    BY <2>2, <2>3, <2>4, <2>5
<1>9. /\ st0[d] = Executing /\ st0[s] = Idle /\ st1[s] = Executing /\ st1[r] = Loaded
      /\ st2[r] = Idle
  BY FourGet
<1>10. /\ st1 = Put(st0, s, Executing) /\ st2 = Put(st1, r, Idle) /\ st3 = Put(st2, r, Executing)
  BY FourPut
<1>11. Idle # Loaded /\ Executing # Loaded
  BY DEF Idle, Loaded, Executing
<1> HIDE DEF d, r, s, x, y, o, w, st0, st1, st2, st3, e0, e1, e2
<1>12. /\ v0.state = st0 /\ v1.state = st0 /\ v2.state = st1 /\ v3.state = st2
       /\ State(v1, s, Executing) = Quartet(v, Put(st0, s, Executing), e1, tv, su)
       /\ State(v3, r, Executing) = Quartet(v, Put(st2, r, Executing), e2, tw, su)
  BY QuartetIs
<1>13. Joint(v0, x, y) = v1
  <2>1. x[1] \in Comps /\ y[1] \in Comps /\ x[1] # y[1] /\ st0[y[1]] # Loaded
    BY <1>1, <1>5, <1>9, <1>11
  <2>2. Joins(st0, e0, x, y, st0, e1)
    BY <1>7, <2>1 DEF Joins
  <2>3. Joint(Quartet(v, st0, e0, tu, su), x, y) = Quartet(v, st0, e1, tu \cup {<<x, y>>}, su)
    BY <2>2, JointQuartet
  <2> QED
    BY <1>4, <2>3
<1>14. Joint(v2, o, w) = v3
  <2>1. o[1] \in Comps /\ w[1] \in Comps /\ o[1] # w[1] /\ st1[w[1]] = Loaded
    BY <1>1, <1>5, <1>9
  <2>2. Joins(st1, e1, o, w, st2, e2)
    BY <1>5, <1>8, <1>10, <2>1 DEF Joins
  <2>3. Joint(Quartet(v, st1, e1, tv, su), o, w) = Quartet(v, st2, e2, tv \cup {<<o, w>>}, su)
    BY <2>2, JointQuartet
  <2> QED
    BY <1>4, <2>3
<1>15. State(v1, s, Executing) = v2 /\ State(v3, r, Executing) = v4
  BY <1>10, <1>12
<1> HIDE DEF v0, v1, v2, v3, v4
<1>16. Runs(Near(b, v0), join1 \o Insist, Near(b, v1))
  <2>1. v0.state[x[1]] # Loaded
    BY <1>5, <1>9, <1>11, <1>12
  <2>2. Runs(Near(b, v0), ilclient_setup_tunnel(<<x, y>>, FALSE) \o Insist, Near(b, Joint(v0, x, y)))
    BY <1>6, <2>1, NearSetup
  <2> QED
    BY <1>4, <1>13, <2>2
<1>17. Runs(Near(b, v1), start, Near(b, v2))
  <2>1. Runs(Near(b, v1), start, Near(b, State(v1, s, Executing)))
    BY <1>1, <1>9, <1>12, NearChange
  <2> QED
    BY <1>15, <2>1
<1>18. Runs(Near(b, v2), join2 \o Insist, Near(b, v3))
  <2>1. v2.state[o[1]] # Loaded
    BY <1>5, <1>9, <1>11, <1>12
  <2>2. Runs(Near(b, v2), ilclient_setup_tunnel(<<o, w>>, TRUE) \o Insist, Near(b, Joint(v2, o, w)))
    BY <1>4, <1>6, <2>1, NearSetup
  <2> QED
    BY <1>4, <1>14, <2>2
<1>19. Runs(Near(b, v3), show, Near(b, v4))
  <2>1. Runs(Near(b, v3), show, Near(b, State(v3, r, Executing)))
    BY <1>1, <1>9, <1>12, NearChange
  <2> QED
    BY <1>15, <2>1
<1> HIDE DEF join1, start, join2, show
<1>20. Runs(Near(b, v0), q1, Near(b, v2))
  BY <1>16, <1>17, RunSeq
<1> HIDE DEF q1
<1>21. Runs(Near(b, v0), q2, Near(b, v3))
  BY <1>3, <1>18, <1>20, RunThen
<1> HIDE DEF q2
<1>22. Runs(Near(b, v0), q3, Near(b, v4))
  BY <1>19, <1>21, RunSeq
<1> QED
  BY <1>2, <1>22 DEF v0, v4, st0, st3, e0, e2

LEMMA Kinds ==
  ASSUME NEW c \in Comps
  PROVE  /\ c[2] \in 0 .. 2
         /\ c[2] = 0 <=> c \in {video_decode, video_render, video_clock, video_scheduler}
         /\ \A i \in 1 .. 2 : c[2] = i <=> c \in {audio_render(i), clock(i)}
         /\ Serving(c) <=> c = video_decode \/ \E i \in 1 .. 2 : c = audio_render(i)
<1>1. \/ c \in {video_decode, video_render, video_clock, video_scheduler}
      \/ \E i \in 1 .. 2 : c = audio_render(i) \/ c = clock(i)
  BY ComponentsAssumption DEF Components
<1>2. CASE c \in {video_decode, video_render, video_clock, video_scheduler}
  BY <1>2 DEF video_decode, video_render, video_clock, video_scheduler, audio_render, clock, Serving
<1>3. CASE \E i \in 1 .. 2 : c = audio_render(i) \/ c = clock(i)
  BY <1>3 DEF video_decode, video_render, video_clock, video_scheduler, audio_render, clock, Serving
<1> QED
  BY <1>1, <1>2, <1>3

LEMMA CreatedIs ==
  ASSUME NEW n \in 0 .. 3
  PROVE  Created(n) = {c \in Comps : c[2] < n}
<1>1. ASSUME NEW c \in Comps
      PROVE  (IF c[2] = 0 THEN n > 0 ELSE n > c[2]) <=> c[2] < n
  <2>1. c[2] \in 0 .. 2
    BY Kinds
  <2> DEFINE x == c[2]
  <2> HIDE DEF x
  <2>2. (IF x = 0 THEN n > 0 ELSE n > x) <=> x < n
    BY <2>1 DEF x
  <2> QED
    BY <2>2 DEF x
<1> QED
  BY <1>1 DEF Created

(* The ends that are connected after n calls.                              *)
Joint1(e, n, seen) ==
  \/ n > 0 /\ e \in {<<video_clock, 80>>, <<video_scheduler, 12>>}
  \/ seen /\ e \in {<<video_decode, 131>>, <<video_scheduler, 10>>, <<video_scheduler, 11>>,
                    <<video_render, 90>>}
  \/ \E i \in 1 .. (n - 1) : e \in {<<clock(i), 80>>, <<audio_render(i), 101>>}

LEMMA WholeIs ==
  ASSUME NEW c, NEW n \in 0 .. 3, NEW seen \in BOOLEAN
  PROVE  Whole(c, n, seen) = {p \in ToSet(PortsOf(c)) : p \in Fed \/ Joint1(<<c, p>>, n, seen)}
<1> DEFINE J == Joined(n, seen)
           U == UNION {{t[1], t[2]} : t \in J}
<1>1. ASSUME NEW e PROVE e \in U <=> Joint1(e, n, seen)
  <2>1. e \in U <=> \E t \in J : e = t[1] \/ e = t[2]
    OBVIOUS
  <2>2. \A t : t \in J <=> \/ n > 0 /\ t = ClockTunnel
                           \/ seen /\ (t = DecodeTunnel \/ t = RenderTunnel)
                           \/ \E i \in 1 .. (n - 1) : t = AudioTunnel(i)
    BY DEF Joined
  <2>3. /\ ClockTunnel[1] = <<video_clock, 80>> /\ ClockTunnel[2] = <<video_scheduler, 12>>
        /\ DecodeTunnel[1] = <<video_decode, 131>> /\ DecodeTunnel[2] = <<video_scheduler, 10>>
        /\ RenderTunnel[1] = <<video_scheduler, 11>> /\ RenderTunnel[2] = <<video_render, 90>>
        /\ \A i : AudioTunnel(i)[1] = <<clock(i), 80>> /\ AudioTunnel(i)[2] = <<audio_render(i), 101>>
    BY DEF ClockTunnel, DecodeTunnel, RenderTunnel, AudioTunnel
  <2> HIDE DEF J, U
  <2>4. ASSUME e \in U PROVE Joint1(e, n, seen)
    <3>1. PICK t \in J : e = t[1] \/ e = t[2]
      BY <2>1, <2>4
    <3>2. CASE n > 0 /\ t = ClockTunnel
      <4>1. e \in {<<video_clock, 80>>, <<video_scheduler, 12>>}
        BY <3>1, <3>2 DEF ClockTunnel
      <4> QED
        BY <3>2, <4>1, Zenon DEF Joint1
    <3>3. CASE seen /\ (t = DecodeTunnel \/ t = RenderTunnel)
      <4>1. e \in {<<video_decode, 131>>, <<video_scheduler, 10>>, <<video_scheduler, 11>>,
                   <<video_render, 90>>}
        <5>1. CASE t = DecodeTunnel
          BY <3>1, <5>1 DEF DecodeTunnel
        <5>2. CASE t = RenderTunnel
          BY <3>1, <5>2 DEF RenderTunnel
        <5> QED
          BY <3>3, <5>1, <5>2
      <4> QED
        BY <3>3, <4>1, Zenon DEF Joint1
    <3>4. CASE \E i \in 1 .. (n - 1) : t = AudioTunnel(i)
      <4>1. PICK i \in 1 .. (n - 1) : t = AudioTunnel(i)
        BY <3>4
      <4>2. t = <<<<clock(i), 80>>, <<audio_render(i), 101>>>>
        BY <4>1 DEF AudioTunnel
      <4>3. e \in {<<clock(i), 80>>, <<audio_render(i), 101>>}
        BY <3>1, <4>2
      <4>4. \E j \in 1 .. (n - 1) : e \in {<<clock(j), 80>>, <<audio_render(j), 101>>}
        BY <4>1, <4>3
      <4> QED
        BY <4>4, Zenon DEF Joint1
    <3> QED
      BY <2>2, <3>1, <3>2, <3>3, <3>4
  <2>5. ASSUME Joint1(e, n, seen) PROVE e \in U
    <3>1. CASE n > 0 /\ e \in {<<video_clock, 80>>, <<video_scheduler, 12>>}
      BY <2>1, <2>2, <2>3, <3>1
    <3>2. CASE seen /\ e \in {<<video_decode, 131>>, <<video_scheduler, 10>>, <<video_scheduler, 11>>,
                    <<video_render, 90>>}
      BY <2>1, <2>2, <2>3, <3>2
    <3>3. CASE \E i \in 1 .. (n - 1) : e \in {<<clock(i), 80>>, <<audio_render(i), 101>>}
      BY <2>1, <2>2, <2>3, <3>3
    <3> QED
      BY <2>5, <3>1, <3>2, <3>3 DEF Joint1
  <2> QED
    BY <2>4, <2>5
<1>2. Whole(c, n, seen) = {p \in ToSet(PortsOf(c)) : p \in Fed \/ <<c, p>> \in U}
  BY DEF Whole
<1> HIDE DEF U
<1> QED
  BY <1>1, <1>2

LEMMA AudioPorts ==
  ASSUME NEW i
  PROVE  ToSet(PortsOf(audio_render(i))) = {100, 101} /\ ToSet(PortsOf(clock(i))) = {80}
<1>1. ToSet(PortsOf(audio_render(i))) = {100, 101}
  BY DEF PortsOf, ToSet, audio_render
<1>2. ToSet(PortsOf(clock(i))) = {80}
  BY DEF PortsOf, ToSet, clock
<1> QED
  BY <1>1, <1>2

LEMMA WholeVideo ==
  ASSUME NEW n \in 1 .. 3, NEW seen \in BOOLEAN
  PROVE  /\ ~seen => /\ Whole(video_decode, n, seen) = {130} /\ Whole(video_render, n, seen) = {}
                     /\ Whole(video_clock, n, seen) = {80} /\ Whole(video_scheduler, n, seen) = {12}
         /\ seen => /\ Whole(video_decode, n, seen) = {130, 131} /\ Whole(video_render, n, seen) = {90}
                    /\ Whole(video_clock, n, seen) = {80} /\ Whole(video_scheduler, n, seen) = {10, 11, 12}
<1>1. n \in 0 .. 3 /\ n > 0
  OBVIOUS
<1>2. \A c : Whole(c, n, seen) = {p \in ToSet(PortsOf(c)) : p \in Fed \/ Joint1(<<c, p>>, n, seen)}
  BY <1>1, WholeIs
<1>3. /\ \A i : clock(i) = <<"clock", i>> /\ audio_render(i) = <<"audio_render", i>>
      /\ video_decode = <<"video_decode", 0>> /\ video_render = <<"video_render", 0>>
      /\ video_clock = <<"clock", 0>> /\ video_scheduler = <<"video_scheduler", 0>>
  BY DEF clock, audio_render, video_decode, video_render, video_clock, video_scheduler
<1>4. /\ ~seen => Whole(video_decode, n, seen) = {130}
      /\ seen => Whole(video_decode, n, seen) = {130, 131}
  <2> DEFINE W == Whole(video_decode, n, seen)
             J(p) == Joint1(<<video_decode, p>>, n, seen)
  <2>2. W = {p \in ToSet(PortsOf(video_decode)) : p \in Fed \/ J(p)}
    BY <1>2
  <2>3. ToSet(PortsOf(video_decode)) = {130, 131} /\ Fed = {100, 130}
    BY VideoPorts DEF Fed
  <2> HIDE DEF W, J
  <2>4. ASSUME ~seen PROVE W = {130}
    <3>1. \A p : J(p) <=> p \in {}
      BY <1>1, <1>3, <2>4 DEF J, Joint1
    <3> QED
      BY <2>2, <2>3, <3>1
  <2>5. ASSUME seen PROVE W = {130, 131}
    <3>1. \A p : J(p) <=> p \in {131}
      BY <1>1, <1>3, <2>5 DEF J, Joint1
    <3> QED
      BY <2>2, <2>3, <3>1
  <2> QED
    BY <2>4, <2>5 DEF W
<1>5. /\ ~seen => Whole(video_render, n, seen) = {}
      /\ seen => Whole(video_render, n, seen) = {90}
  <2> DEFINE W == Whole(video_render, n, seen)
             J(p) == Joint1(<<video_render, p>>, n, seen)
  <2>2. W = {p \in ToSet(PortsOf(video_render)) : p \in Fed \/ J(p)}
    BY <1>2
  <2>3. ToSet(PortsOf(video_render)) = {90} /\ Fed = {100, 130}
    BY VideoPorts DEF Fed
  <2> HIDE DEF W, J
  <2>4. ASSUME ~seen PROVE W = {}
    <3>1. \A p : J(p) <=> p \in {}
      BY <1>1, <1>3, <2>4 DEF J, Joint1
    <3> QED
      BY <2>2, <2>3, <3>1
  <2>5. ASSUME seen PROVE W = {90}
    <3>1. \A p : J(p) <=> p \in {90}
      BY <1>1, <1>3, <2>5 DEF J, Joint1
    <3> QED
      BY <2>2, <2>3, <3>1
  <2> QED
    BY <2>4, <2>5 DEF W
<1>6. /\ ~seen => Whole(video_clock, n, seen) = {80}
      /\ seen => Whole(video_clock, n, seen) = {80}
  <2> DEFINE W == Whole(video_clock, n, seen)
             J(p) == Joint1(<<video_clock, p>>, n, seen)
  <2>2. W = {p \in ToSet(PortsOf(video_clock)) : p \in Fed \/ J(p)}
    BY <1>2
  <2>3. ToSet(PortsOf(video_clock)) = {80} /\ Fed = {100, 130}
    BY VideoPorts DEF Fed
  <2> HIDE DEF W, J
  <2>4. ASSUME ~seen PROVE W = {80}
    <3>1. \A p : J(p) <=> p \in {80}
      BY <1>1, <1>3, <2>4 DEF J, Joint1
    <3> QED
      BY <2>2, <2>3, <3>1
  <2>5. ASSUME seen PROVE W = {80}
    <3>1. \A p : J(p) <=> p \in {80}
      BY <1>1, <1>3, <2>5 DEF J, Joint1
    <3> QED
      BY <2>2, <2>3, <3>1
  <2> QED
    BY <2>4, <2>5 DEF W
<1>7. /\ ~seen => Whole(video_scheduler, n, seen) = {12}
      /\ seen => Whole(video_scheduler, n, seen) = {10, 11, 12}
  <2> DEFINE W == Whole(video_scheduler, n, seen)
             J(p) == Joint1(<<video_scheduler, p>>, n, seen)
  <2>2. W = {p \in ToSet(PortsOf(video_scheduler)) : p \in Fed \/ J(p)}
    BY <1>2
  <2>3. ToSet(PortsOf(video_scheduler)) = {10, 11, 12} /\ Fed = {100, 130}
    BY VideoPorts DEF Fed
  <2> HIDE DEF W, J
  <2>4. ASSUME ~seen PROVE W = {12}
    <3>1. \A p : J(p) <=> p \in {12}
      BY <1>1, <1>3, <2>4 DEF J, Joint1
    <3> QED
      BY <2>2, <2>3, <3>1
  <2>5. ASSUME seen PROVE W = {10, 11, 12}
    <3>1. \A p : J(p) <=> p \in {10, 11, 12}
      BY <1>1, <1>3, <2>5 DEF J, Joint1
    <3> QED
      BY <2>2, <2>3, <3>1
  <2> QED
    BY <2>4, <2>5 DEF W
<1> QED
  BY <1>4, <1>5, <1>6, <1>7

LEMMA WholeAudio ==
  ASSUME NEW i \in 1 .. 2, NEW n \in 2 .. 3, i < n, NEW seen \in BOOLEAN
  PROVE  Whole(audio_render(i), n, seen) = {100, 101} /\ Whole(clock(i), n, seen) = {80}
<1>1. n \in 0 .. 3 /\ i \in 1 .. (n - 1)
  OBVIOUS
<1>2. \A c : Whole(c, n, seen) = {p \in ToSet(PortsOf(c)) : p \in Fed \/ Joint1(<<c, p>>, n, seen)}
  BY <1>1, WholeIs
<1>3. Joint1(<<audio_render(i), 101>>, n, seen) /\ Joint1(<<clock(i), 80>>, n, seen)
  BY <1>1 DEF Joint1
<1>4. Whole(audio_render(i), n, seen) = {100, 101}
  <2>1. \A p : p \in Whole(audio_render(i), n, seen) <=>
               p \in {100, 101} /\ (p \in {100, 130} \/ Joint1(<<audio_render(i), p>>, n, seen))
    BY <1>2, AudioPorts DEF Fed
  <2>2. \A p : p \in Whole(audio_render(i), n, seen) <=> p \in {100, 101}
    BY <1>3, <2>1
  <2> QED
    BY <2>2
<1>5. Whole(clock(i), n, seen) = {80}
  <2>1. \A p : p \in Whole(clock(i), n, seen) <=>
               p \in {80} /\ (p \in {100, 130} \/ Joint1(<<clock(i), p>>, n, seen))
    BY <1>2, AudioPorts DEF Fed
  <2>2. \A p : p \in Whole(clock(i), n, seen) <=> p \in {80}
    BY <1>3, <2>1
  <2> QED
    BY <2>2
<1> QED
  BY <1>4, <1>5

LEMMA WholeAny ==
  ASSUME NEW c \in Comps, NEW n \in 0 .. 3, c[2] < n, NEW seen \in BOOLEAN
  PROVE  Whole(c, n, seen) = Whole(c, 3, seen)
<1>1. c[2] \in 0 .. 2
  BY Kinds
<1>2. CASE c[2] = 0
  <2>1. c \in {video_decode, video_render, video_clock, video_scheduler}
    BY <1>2, Kinds
  <2>2. n \in 1 .. 3 /\ 3 \in 1 .. 3
    BY <1>2
  <2>3. CASE seen
    <3>1. /\ Whole(video_decode, n, seen) = {130, 131} /\ Whole(video_render, n, seen) = {90}
          /\ Whole(video_clock, n, seen) = {80} /\ Whole(video_scheduler, n, seen) = {10, 11, 12}
      BY <2>2, <2>3, WholeVideo
    <3>2. /\ Whole(video_decode, 3, seen) = {130, 131} /\ Whole(video_render, 3, seen) = {90}
          /\ Whole(video_clock, 3, seen) = {80} /\ Whole(video_scheduler, 3, seen) = {10, 11, 12}
      BY <2>2, <2>3, WholeVideo
    <3> QED
      BY <2>1, <3>1, <3>2
  <2>4. CASE ~seen
    <3>1. /\ Whole(video_decode, n, seen) = {130} /\ Whole(video_render, n, seen) = {}
          /\ Whole(video_clock, n, seen) = {80} /\ Whole(video_scheduler, n, seen) = {12}
      BY <2>2, <2>4, WholeVideo
    <3>2. /\ Whole(video_decode, 3, seen) = {130} /\ Whole(video_render, 3, seen) = {}
          /\ Whole(video_clock, 3, seen) = {80} /\ Whole(video_scheduler, 3, seen) = {12}
      BY <2>2, <2>4, WholeVideo
    <3> QED
      BY <2>1, <3>1, <3>2
  <2> QED
    BY <2>3, <2>4
<1>3. CASE c[2] # 0
  <2>1. PICK i \in 1 .. 2 : c[2] = i
    BY <1>1, <1>3
  <2>2. c \in {audio_render(i), clock(i)}
    BY <2>1, Kinds
  <2>3. n \in 2 .. 3 /\ 3 \in 2 .. 3 /\ i < n /\ i < 3
    BY <2>1
  <2> QED
    BY <2>2, <2>3, WholeAudio
<1> QED
  BY <1>2, <1>3

(* What a component that exists is to be.                                  *)
Aim(c, seen) ==
  IF c = video_render /\ ~seen THEN Loaded
  ELSE IF c = video_scheduler /\ ~seen THEN Idle
  ELSE Executing

LEMMA SetUpAt ==
  ASSUME NEW c \in Comps, NEW n \in 0 .. 3, NEW seen \in BOOLEAN, NEW hand
  PROVE  /\ c[2] < n => /\ SetUp(n, seen, hand).state[c] = Aim(c, seen)
                        /\ SetUp(n, seen, hand).enabled[c] = Whole(c, 3, seen)
                        /\ SetUp(n, seen, hand).supplied[c] = (IF Serving(c) THEN NumBuffers ELSE 0)
         /\ ~(c[2] < n) => /\ SetUp(n, seen, hand).state[c] = Absent
                           /\ SetUp(n, seen, hand).enabled[c] = {}
                           /\ SetUp(n, seen, hand).supplied[c] = 0
<1> DEFINE u == SetUp(n, seen, hand)
<1>1. /\ u.state[c] = Wanted(c, n, seen) /\ u.enabled[c] = Whole1(c, n, seen)
      /\ u.supplied[c] = (IF c \in Created(n) /\ Serving(c) THEN NumBuffers ELSE 0)
  BY DEF SetUp, World
<1>2. c \in Created(n) <=> c[2] < n
  BY CreatedIs
<1> HIDE DEF u
<1>3. CASE c[2] < n
  <2>1. Wanted(c, n, seen) = Aim(c, seen)
    BY <1>2, <1>3 DEF Wanted, Aim
  <2>2. Whole1(c, n, seen) = Whole(c, 3, seen)
    BY <1>2, <1>3, WholeAny DEF Whole1
  <2> QED
    BY <1>1, <1>2, <1>3, <2>1, <2>2 DEF u
<1>4. CASE ~(c[2] < n)
  <2>1. Wanted(c, n, seen) = Absent
    BY <1>2, <1>4 DEF Wanted
  <2>2. Whole1(c, n, seen) = {}
    BY <1>2, <1>4 DEF Whole1
  <2> QED
    BY <1>1, <1>2, <1>4, <2>1, <2>2 DEF u
<1> QED
  BY <1>3, <1>4

(* Two worlds that agree on every component.                               *)
LEMMA SameWorld ==
  ASSUME NEW n, NEW seen, NEW hand, NEW st, NEW en, NEW tu, NEW su,
         DOMAIN st = Comps, DOMAIN en = Comps, DOMAIN su = Comps,
         st = [c \in Comps |-> st[c]], en = [c \in Comps |-> en[c]], su = [c \in Comps |-> su[c]],
         tu = Joined(n, seen),
         \A c \in Comps : /\ SetUp(n, seen, hand).state[c] = st[c]
                          /\ SetUp(n, seen, hand).enabled[c] = en[c]
                          /\ SetUp(n, seen, hand).supplied[c] = su[c]
  PROVE  World(seen, hand, st, en, tu, su, {}) = SetUp(n, seen, hand)
<1> DEFINE u == SetUp(n, seen, hand)
           s1 == [c \in Comps |-> Wanted(c, n, seen)]
           e1 == [c \in Comps |-> Whole1(c, n, seen)]
           u1 == [c \in Comps |-> IF c \in Created(n) /\ Serving(c) THEN NumBuffers ELSE 0]
<1>1. u = World(seen, hand, s1, e1, Joined(n, seen), u1, {})
  BY DEF SetUp
<1>2. u.state = s1 /\ u.enabled = e1 /\ u.supplied = u1
  BY DEF SetUp, World
<1> HIDE DEF u
<1>3. \A c \in Comps : s1[c] = st[c] /\ e1[c] = en[c] /\ u1[c] = su[c]
  <2> HIDE DEF s1, e1, u1
  <2> QED
    BY <1>2 DEF u
<1>4. s1 = st
  BY <1>3
<1>5. e1 = en
  BY <1>3
<1>6. u1 = su
  BY <1>3
<1> QED
  BY <1>1, <1>4, <1>5, <1>6 DEF u

LEMMA SetUpVideo ==
  ASSUME NEW no \in BOOLEAN, ~no, NEW v, v = SetUp(0, no, 0)
  PROVE
      /\ Quartet(v, Four(v.state, Executing, Loaded, Executing, Idle),
                 Four(v.enabled, {130}, {}, {80}, {12}), v.tunnels \cup {ClockTunnel},
                 Put(v.supplied, video_decode, NumBuffers)) = SetUp(1, no, 0)
      /\ Based(1) = Base(Based(0).inits + 1, Based(0).clients \cup {0},
                 Based(0).alive \cup {video_decode, video_render, video_clock, video_scheduler})
<1> DEFINE st == Four(v.state, Executing, Loaded, Executing, Idle)
           en == Four(v.enabled, {130}, {}, {80}, {12})
           tu == v.tunnels \cup {ClockTunnel}
           su == Put(v.supplied, video_decode, NumBuffers)
           z == SetUp(1, no, 0)
<1>1. 0 \in 0 .. 3 /\ 1 \in 0 .. 3 /\ 1 \in 1 .. 3  /\ 3 \in 1 .. 3
  OBVIOUS
<1>2. v.seen = no /\ v.hand = 0 /\ v.spoiled = {} /\ v.tunnels = Joined(0, no)
  BY DEF SetUp, World
<1>3. tu = Joined(1, no)
  <2>1. \A t : t \notin Joined(0, no)
    BY DEF Joined
  <2>2. \A t : t \in Joined(1, no) <=> t = ClockTunnel
    BY DEF Joined
  <2> DEFINE J0 == Joined(0, no)
             J1 == Joined(1, no)
  <2> HIDE DEF J0, J1
  <2>3. J0 \cup {ClockTunnel} = J1
    BY <2>1, <2>2 DEF J0, J1
  <2> QED
    BY <1>2, <2>3 DEF J0, J1
<1>4. ASSUME NEW c \in Comps
      PROVE  z.state[c] = st[c] /\ z.enabled[c] = en[c] /\ z.supplied[c] = su[c]
  <2>1. c[2] \in 0 .. 2 /\ ~(c[2] < 0)
    BY Kinds
  <2>2. /\ v.state[c] = Absent /\ v.enabled[c] = {} /\ v.supplied[c] = 0
    BY <1>1, <2>1, SetUpAt
  <2>3. CASE c[2] = 0
    <3>1. c \in {video_decode, video_render, video_clock, video_scheduler}
      BY <2>3, Kinds
    <3>2. /\ z.state[c] = Aim(c, no) /\ z.enabled[c] = Whole(c, 3, no)
          /\ z.supplied[c] = (IF Serving(c) THEN NumBuffers ELSE 0)
      <4>1. c[2] < 1
        BY <2>3
      <4> QED
        BY <1>1, <4>1, SetUpAt
    <3>3. st[c] = Aim(c, no)
      BY <3>1, OfVideo, FourGet DEF Aim
    <3>4. en[c] = Whole(c, 3, no)
      <4>1. /\ Whole(video_decode, 3, no) = {130} /\ Whole(video_render, 3, no) = {}
            /\ Whole(video_clock, 3, no) = {80} /\ Whole(video_scheduler, 3, no) = {12}
        BY <1>1, WholeVideo
      <4>2. /\ en[video_decode] = {130} /\ en[video_render] = {}
            /\ en[video_clock] = {80} /\ en[video_scheduler] = {12}
        BY FourGet
      <4> HIDE DEF en
      <4> QED
        BY <3>1, <4>1, <4>2
    <3>5. su[c] = IF Serving(c) THEN NumBuffers ELSE 0
      <4>1. Serving(c) <=> c = video_decode
        BY <3>1, OfVideo DEF Serving, video_decode, video_render, video_clock, video_scheduler
      <4> QED
        BY <2>2, <4>1 DEF Put
    <3> QED
      BY <3>2, <3>3, <3>4, <3>5
  <2>4. CASE c[2] # 0
    <3>1. c \notin {video_decode, video_render, video_clock, video_scheduler}
      BY <2>4, Kinds
    <3>2. z.state[c] = Absent /\ z.enabled[c] = {} /\ z.supplied[c] = 0
      <4>1. ~(c[2] < 1)
        BY <2>1, <2>4
      <4> QED
        BY <1>1, <4>1, SetUpAt
    <3> HIDE DEF z
    <3>3. st[c] = v.state[c] /\ en[c] = v.enabled[c] /\ su[c] = v.supplied[c]
      BY <3>1 DEF Four, Put
    <3> QED
      BY <2>2, <3>2, <3>3
  <2> QED
    BY <2>3, <2>4
<1>5. /\ DOMAIN st = Comps /\ DOMAIN en = Comps /\ DOMAIN su = Comps
      /\ st = [c \in Comps |-> st[c]] /\ en = [c \in Comps |-> en[c]] /\ su = [c \in Comps |-> su[c]]
  <2> QED
    BY DEF Four, Put
<1>6. Quartet(v, st, en, tu, su) = World(no, 0, st, en, tu, su, {})
  <2> HIDE DEF st, en, tu, su
  <2> QED
    BY <1>2 DEF Quartet
<1>7. World(no, 0, st, en, tu, su, {}) = z
  <2> HIDE DEF st, en, tu, su
  <2> QED
    BY <1>3, <1>4, <1>5, SameWorld
<1>8. Based(1) = Base(Based(0).inits + 1, Based(0).clients \cup {0},
                 Based(0).alive \cup {video_decode, video_render, video_clock, video_scheduler})
  <2>1. Based(0).inits = 0 /\ Based(0).clients = {k \in 0 .. 2 : k < 0} /\ Based(0).alive = Created(0)
    BY DEF Based, Base
  <2>2. 0 + 1 = 1 /\ {k \in 0 .. 2 : k < 0} \cup {0} = {k \in 0 .. 2 : k < 1}
    OBVIOUS
  <2>3. Created(0) \cup {video_decode, video_render, video_clock, video_scheduler} = Created(1)
    <3>1. Created(0) = {c \in Comps : c[2] < 0} /\ Created(1) = {c \in Comps : c[2] < 1}
      BY <1>1, CreatedIs
    <3>2. \A c \in Comps : ~(c[2] < 0) /\ (c[2] < 1 <=> c \in {video_decode, video_render, video_clock, video_scheduler})
      BY Kinds
    <3> QED
      BY <3>1, <3>2, OfVideo
  <2> QED
    BY <2>1, <2>2, <2>3 DEF Based
<1> QED
  BY <1>6, <1>7, <1>8

LEMMA SetUpAudio ==
  ASSUME NEW no \in BOOLEAN, ~no, NEW i \in 1 .. 2, NEW v, v = SetUp(i, no, 0)
  PROVE  /\ Duo(v, audio_render(i), clock(i), Executing, Executing, {100, 101}, {80},
                v.tunnels \cup {AudioTunnel(i)}, Put(v.supplied, audio_render(i), NumBuffers))
              = SetUp(i + 1, no, 0)
         /\ Based(i + 1) = Base(Based(i).inits + 1, Based(i).clients \cup {i},
                                (Based(i).alive \cup {audio_render(i)}) \cup {clock(i)})
<1> DEFINE a == audio_render(i)
           k == clock(i)
           st == Put(Put(v.state, a, Executing), k, Executing)
           en == Put(Put(v.enabled, a, {100, 101}), k, {80})
           tu == v.tunnels \cup {AudioTunnel(i)}
           su == Put(v.supplied, a, NumBuffers)
           z == SetUp(i + 1, no, 0)
<1>1. i \in 0 .. 3 /\ i + 1 \in 0 .. 3 /\ 3 \in 2 .. 3 /\ i < 3
  OBVIOUS
<1>2. v.seen = no /\ v.hand = 0 /\ v.spoiled = {} /\ v.tunnels = Joined(i, no)
  BY DEF SetUp, World
<1>3. tu = Joined(i + 1, no)
  <2>1. \A t : t \in Joined(i, no) <=> t = ClockTunnel \/ \E j \in 1 .. (i - 1) : t = AudioTunnel(j)
    BY DEF Joined
  <2>2. \A t : t \in Joined(i + 1, no) <=>
               t = ClockTunnel \/ \E j \in 1 .. ((i + 1) - 1) : t = AudioTunnel(j)
    BY DEF Joined
  <2>3. 1 .. ((i + 1) - 1) = (1 .. (i - 1)) \cup {i}
    OBVIOUS
  <2> DEFINE J0 == Joined(i, no)
             J1 == Joined(i + 1, no)
  <2> HIDE DEF J0, J1
  <2>4. J0 \cup {AudioTunnel(i)} = J1
    BY <2>1, <2>2, <2>3 DEF J0, J1
  <2> QED
    BY <1>2, <2>4 DEF J0, J1
<1>4. a \in Comps /\ k \in Comps /\ a # k /\ a[2] = i /\ k[2] = i /\ Serving(a) /\ ~Serving(k)
  BY ComponentsAssumption DEF Components, audio_render, clock, Serving
<1>5. ASSUME NEW c \in Comps
      PROVE  z.state[c] = st[c] /\ z.enabled[c] = en[c] /\ z.supplied[c] = su[c]
  <2>1. c[2] \in 0 .. 2
    BY Kinds
  <2>2. CASE c \in {a, k}
    <3>1. c[2] = i /\ ~(c[2] < i) /\ c[2] < i + 1
      BY <1>4, <2>2
    <3>2. /\ z.state[c] = Aim(c, no) /\ z.enabled[c] = Whole(c, 3, no)
          /\ z.supplied[c] = (IF Serving(c) THEN NumBuffers ELSE 0)
      BY <1>1, <3>1, SetUpAt
    <3>3. v.supplied[c] = 0
      BY <1>1, <3>1, SetUpAt
    <3>4. Aim(c, no) = Executing
      <4>1. c # video_render /\ c # video_scheduler
        BY <2>2 DEF audio_render, clock, video_render, video_scheduler
      <4> QED
        BY <4>1 DEF Aim
    <3>5. Whole(a, 3, no) = {100, 101} /\ Whole(k, 3, no) = {80}
      BY <1>1, WholeAudio
    <3>6. st[c] = Executing /\ su[a] = NumBuffers /\ su[k] = v.supplied[k]
      BY <1>4, <2>2 DEF Put
    <3>7. en[a] = {100, 101} /\ en[k] = {80}
      BY <1>4 DEF Put
    <3> HIDE DEF st, en, su, a, k, z
    <3> QED
      BY <1>4, <2>2, <3>2, <3>3, <3>4, <3>5, <3>6, <3>7
  <2>3. CASE c \notin {a, k}
    <3>1. c[2] # i
      BY <2>3, Kinds
    <3>2. v.state[c] = st[c] /\ v.enabled[c] = en[c] /\ v.supplied[c] = su[c]
      BY <2>3 DEF Put
    <3>3. CASE c[2] < i
      <4>1. c[2] < i + 1
        BY <2>1, <3>3
      <4>2. /\ z.state[c] = Aim(c, no) /\ z.enabled[c] = Whole(c, 3, no)
            /\ z.supplied[c] = (IF Serving(c) THEN NumBuffers ELSE 0)
        BY <1>1, <4>1, SetUpAt
      <4>3. /\ v.state[c] = Aim(c, no) /\ v.enabled[c] = Whole(c, 3, no)
            /\ v.supplied[c] = (IF Serving(c) THEN NumBuffers ELSE 0)
        BY <1>1, <3>3, SetUpAt
      <4> QED
        BY <3>2, <4>2, <4>3
    <3>4. CASE ~(c[2] < i)
      <4>1. ~(c[2] < i + 1)
        BY <2>1, <3>1, <3>4
      <4>2. z.state[c] = Absent /\ z.enabled[c] = {} /\ z.supplied[c] = 0
        BY <1>1, <4>1, SetUpAt
      <4>3. v.state[c] = Absent /\ v.enabled[c] = {} /\ v.supplied[c] = 0
        BY <1>1, <3>4, SetUpAt
      <4> QED
        BY <3>2, <4>2, <4>3
    <3> QED
      BY <3>3, <3>4
  <2> QED
    BY <2>2, <2>3
<1>6. /\ DOMAIN st = Comps /\ DOMAIN en = Comps /\ DOMAIN su = Comps
      /\ st = [c \in Comps |-> st[c]] /\ en = [c \in Comps |-> en[c]] /\ su = [c \in Comps |-> su[c]]
  BY DEF Put
<1>7. Duo(v, a, k, Executing, Executing, {100, 101}, {80}, tu, su) = World(no, 0, st, en, tu, su, {})
  <2> HIDE DEF tu, su
  <2> QED
    BY <1>2 DEF Duo
<1>8. World(no, 0, st, en, tu, su, {}) = z
  <2> HIDE DEF st, en, tu, su
  <2> QED
    BY <1>3, <1>5, <1>6, SameWorld
<1>9. Based(i + 1) = Base(Based(i).inits + 1, Based(i).clients \cup {i}, (Based(i).alive \cup {a}) \cup {k})
  <2>1. Based(i).inits = i /\ Based(i).clients = {j \in 0 .. 2 : j < i} /\ Based(i).alive = Created(i)
    BY DEF Based, Base
  <2>2. {j \in 0 .. 2 : j < i} \cup {i} = {j \in 0 .. 2 : j < i + 1}
    OBVIOUS
  <2>3. (Created(i) \cup {a}) \cup {k} = Created(i + 1)
    <3>1. Created(i) = {c \in Comps : c[2] < i} /\ Created(i + 1) = {c \in Comps : c[2] < i + 1}
      BY <1>1, CreatedIs
    <3>2. \A c \in Comps : c[2] < i + 1 <=> c[2] < i \/ c \in {a, k}
      BY Kinds
    <3> HIDE DEF a, k
    <3> QED
      BY <1>4, <3>1, <3>2
  <2> QED
    BY <2>1, <2>2, <2>3 DEF Based
<1> QED
  BY <1>7, <1>8, <1>9

(* The provers keep a named truth apart from TRUE.                         *)
Is(yes) == yes

LEMMA SetUpConnect ==
  ASSUME NEW no \in BOOLEAN, ~no, NEW yes \in BOOLEAN, Is(yes), NEW v, v = Sized(SetUp(3, no, 1))
  PROVE  /\ v = Quartet(v, Four(v.state, Executing, Loaded, Executing, Idle),
                        Four(v.enabled, {130}, {}, {80}, {12}), v.tunnels, v.supplied)
         /\ Quartet(v, Four(v.state, Executing, Executing, Executing, Executing),
                    Four(v.enabled, {130, 131}, {90}, {80}, {10, 11, 12}),
                    (v.tunnels \cup {DecodeTunnel}) \cup {RenderTunnel}, v.supplied)
              = SetUp(3, yes, 1)
<1> DEFINE u == SetUp(3, no, 1)
           s0 == Four(v.state, Executing, Loaded, Executing, Idle)
           e0 == Four(v.enabled, {130}, {}, {80}, {12})
           st == Four(v.state, Executing, Executing, Executing, Executing)
           en == Four(v.enabled, {130, 131}, {90}, {80}, {10, 11, 12})
           tu == (v.tunnels \cup {DecodeTunnel}) \cup {RenderTunnel}
           su == v.supplied
           z == SetUp(3, yes, 1)
<1>1. 3 \in 0 .. 3 /\ 3 \in 1 .. 3
  OBVIOUS
<1>2. /\ v.seen = TRUE /\ v.hand = 1 /\ v.spoiled = {} /\ v.tunnels = Joined(3, no)
      /\ v = World(TRUE, 1, u.state, u.enabled, v.tunnels, u.supplied, {})
      /\ v.state = u.state /\ v.enabled = u.enabled /\ v.supplied = u.supplied
      /\ DOMAIN u.state = Comps /\ DOMAIN u.enabled = Comps /\ DOMAIN u.supplied = Comps
      /\ u.state = [c \in Comps |-> u.state[c]] /\ u.enabled = [c \in Comps |-> u.enabled[c]]
      /\ u.supplied = [c \in Comps |-> u.supplied[c]]
  BY DEF Sized, SetUp, World
<1>3. tu = Joined(3, yes)
  <2>1. \A t : t \in Joined(3, no) <=> t = ClockTunnel \/ \E j \in 1 .. (3 - 1) : t = AudioTunnel(j)
    BY DEF Joined
  <2>2. \A t : t \in Joined(3, yes) <=> \/ t = ClockTunnel \/ \E j \in 1 .. (3 - 1) : t = AudioTunnel(j)
                                        \/ t = DecodeTunnel \/ t = RenderTunnel
    BY DEF Joined, Is
  <2> DEFINE J0 == Joined(3, no)
             J1 == Joined(3, yes)
  <2> HIDE DEF J0, J1
  <2>3. (J0 \cup {DecodeTunnel}) \cup {RenderTunnel} = J1
    BY <2>1, <2>2 DEF J0, J1
  <2> QED
    BY <1>2, <2>3 DEF J0, J1
<1>4. ASSUME NEW c \in Comps
      PROVE  /\ v.state[c] = s0[c] /\ v.enabled[c] = e0[c]
             /\ z.state[c] = st[c] /\ z.enabled[c] = en[c] /\ z.supplied[c] = su[c]
  <2>1. c[2] < 3
    BY Kinds
  <2>2. /\ u.state[c] = Aim(c, no) /\ u.enabled[c] = Whole(c, 3, no)
        /\ u.supplied[c] = (IF Serving(c) THEN NumBuffers ELSE 0)
    BY <1>1, <2>1, SetUpAt
  <2>3. /\ z.state[c] = Aim(c, yes) /\ z.enabled[c] = Whole(c, 3, yes)
        /\ z.supplied[c] = (IF Serving(c) THEN NumBuffers ELSE 0)
    BY <1>1, <2>1, SetUpAt
  <2>4. Aim(c, yes) = Executing
    <3>1. ~yes \/ Aim(c, yes) = Executing
      BY DEF Aim
    <3> QED
      BY <3>1 DEF Is
  <2>5. CASE c \in {video_decode, video_render, video_clock, video_scheduler}
    <3>1. /\ Aim(video_decode, no) = Executing /\ Aim(video_render, no) = Loaded
          /\ Aim(video_clock, no) = Executing /\ Aim(video_scheduler, no) = Idle
      BY OfVideo DEF Aim
    <3>2. /\ Whole(video_decode, 3, no) = {130} /\ Whole(video_render, 3, no) = {}
          /\ Whole(video_clock, 3, no) = {80} /\ Whole(video_scheduler, 3, no) = {12}
      BY <1>1, WholeVideo
    <3>3. /\ Whole(video_decode, 3, yes) = {130, 131} /\ Whole(video_render, 3, yes) = {90}
          /\ Whole(video_clock, 3, yes) = {80} /\ Whole(video_scheduler, 3, yes) = {10, 11, 12}
      <4>1. yes => /\ Whole(video_decode, 3, yes) = {130, 131} /\ Whole(video_render, 3, yes) = {90}
                   /\ Whole(video_clock, 3, yes) = {80} /\ Whole(video_scheduler, 3, yes) = {10, 11, 12}
        BY <1>1, WholeVideo
      <4> QED
        BY <4>1 DEF Is
    <3>4. /\ s0[video_decode] = Executing /\ s0[video_render] = Loaded
          /\ s0[video_clock] = Executing /\ s0[video_scheduler] = Idle
      BY FourGet
    <3>5. /\ e0[video_decode] = {130} /\ e0[video_render] = {}
          /\ e0[video_clock] = {80} /\ e0[video_scheduler] = {12}
      BY FourGet
    <3>6. /\ st[video_decode] = Executing /\ st[video_render] = Executing
          /\ st[video_clock] = Executing /\ st[video_scheduler] = Executing
      BY FourGet
    <3>7. /\ en[video_decode] = {130, 131} /\ en[video_render] = {90}
          /\ en[video_clock] = {80} /\ en[video_scheduler] = {10, 11, 12}
      BY FourGet
    <3> HIDE DEF s0, e0, st, en, u, z
    <3>8. v.state[c] = s0[c] /\ z.state[c] = st[c]
      BY <1>2, <2>2, <2>3, <2>4, <2>5, <3>1, <3>4, <3>6
    <3>9. v.enabled[c] = e0[c]
      <4>1. v.enabled[c] = Whole(c, 3, no)
        BY <1>2, <2>2
      <4>2. Whole(c, 3, no) = e0[c]
        BY <2>5, <3>2, <3>5
      <4> QED
        BY <4>1, <4>2
    <3>10. z.enabled[c] = en[c]
      BY <2>3, <2>5, <3>3, <3>7
    <3> QED
      BY <1>2, <2>2, <2>3, <3>8, <3>9, <3>10
  <2>6. CASE c \notin {video_decode, video_render, video_clock, video_scheduler}
    <3>1. PICK i \in 1 .. 2 : c[2] = i
      BY <2>6, Kinds
    <3>2. c \in {audio_render(i), clock(i)}
      BY <3>1, Kinds
    <3>3. Whole(c, 3, no) = Whole(c, 3, yes)
      <4>1. 3 \in 2 .. 3 /\ i < 3
        OBVIOUS
      <4>2. /\ Whole(audio_render(i), 3, no) = {100, 101} /\ Whole(clock(i), 3, no) = {80}
            /\ Whole(audio_render(i), 3, yes) = {100, 101} /\ Whole(clock(i), 3, yes) = {80}
        BY <4>1, WholeAudio
      <4> QED
        BY <3>2, <4>2
    <3>4. Aim(c, no) = Executing
      BY <2>6 DEF Aim
    <3>5. /\ s0[c] = v.state[c] /\ st[c] = v.state[c] /\ e0[c] = v.enabled[c] /\ en[c] = v.enabled[c]
      BY <2>6 DEF Four
    <3> HIDE DEF s0, e0, st, en, u, z
    <3> QED
      BY <1>2, <2>2, <2>3, <2>4, <3>3, <3>4, <3>5
  <2> QED
    BY <2>5, <2>6
<1>5. /\ DOMAIN st = Comps /\ DOMAIN en = Comps /\ DOMAIN su = Comps
      /\ st = [c \in Comps |-> st[c]] /\ en = [c \in Comps |-> en[c]] /\ su = [c \in Comps |-> su[c]]
  <2>1. DOMAIN st = Comps /\ DOMAIN en = Comps
        /\ st = [c \in Comps |-> st[c]] /\ en = [c \in Comps |-> en[c]]
    BY DEF Four
  <2> QED
    BY <1>2, <2>1
<1>6. s0 = v.state /\ e0 = v.enabled
  <2>1. DOMAIN s0 = Comps /\ DOMAIN e0 = Comps /\ s0 = [c \in Comps |-> s0[c]] /\ e0 = [c \in Comps |-> e0[c]]
    BY DEF Four
  <2> HIDE DEF s0, e0, u
  <2>2. v.state = [c \in Comps |-> v.state[c]] /\ v.enabled = [c \in Comps |-> v.enabled[c]]
    BY <1>2
  <2> QED
    BY <1>4, <2>1, <2>2
<1>7. v = Quartet(v, s0, e0, v.tunnels, v.supplied)
  <2> HIDE DEF s0, e0, u
  <2> QED
    BY <1>2, <1>6 DEF Quartet
<1>8. Quartet(v, st, en, tu, su) = World(yes, 1, st, en, tu, su, {})
  <2> HIDE DEF st, en, tu, su, u
  <2>1. v.seen = yes
    BY <1>2 DEF Is
  <2> QED
    BY <1>2, <2>1 DEF Quartet
<1>9. World(yes, 1, st, en, tu, su, {}) = z
  <2> HIDE DEF st, en, tu, su, u
  <2> QED
    BY <1>3, <1>4, <1>5, SameWorld
<1> QED
  BY <1>7, <1>8, <1>9

LEMMA RunCall ==
  ASSUME NEW n \in 0 .. 2, NEW no \in BOOLEAN, ~no, NEW name, NEW Q,
         Runs(Near(Based(n), SetUp(n, no, 0)), Body(name), Q)
  PROVE  Runs(Near(Based(n), SetUp(n, no, 0)), <<[do |-> "call", f |-> name]>>, Q)
<1> DEFINE f == [do |-> "call", f |-> name]
           P == Near(Based(n), SetUp(n, no, 0))
           q == Body(name)
<1>1. ASSUME NEW S \in P
      PROVE  Runs({S}, <<f>>, Q)
  <2>1. Rested(S)
    <3>1. n \in 0 .. 3
      OBVIOUS
    <3> QED
      BY <3>1 DEF Rested
  <2>2. S.doom = FALSE
    <3>1. PICK r \in -5 .. 0, w \in Variants(SetUp(n, no, 0)) : S = Calm(r, Based(n), w)
      BY DEF Near
    <3> QED
      BY <3>1 DEF Calm, Sync
  <2>3. Runs({S}, q, Q)
    <3> HIDE DEF P, q
    <3>1. {S} \subseteq P /\ Runs(P, q, Q)
      BY DEF P, q
    <3> QED
      BY <3>1, RunLess
  <2>4. \A k : Good(f, k, S) /\ Nexts(f, k, S) = {<<q \o k, S>>}
    <3> HIDE DEF P
    <3> QED
      BY <2>1, <2>2 DEF Good, GoodSync, Nexts, NextsSync
  <2> HIDE DEF q, f, P
  <2> QED
    BY <2>3, <2>4, RunInto
<1>2. IsSeq(<<f>>)
  BY OneIsSeq
<1> HIDE DEF f, P
<1>3. Runs(P, <<f>>, Q)
  BY <1>1, <1>2, RunEach
<1> QED
  BY <1>3 DEF f, P

LEMMA RunVideo ==
  ASSUME NEW no \in BOOLEAN, ~no
  PROVE  Runs(Near(Based(0), SetUp(0, no, 0)), sx_video_sink_init,
              Near(Based(1), SetUp(1, no, 0)))
<1> DEFINE b == Based(0)
           v == SetUp(0, no, 0)
           four == {video_decode, video_render, video_clock, video_scheduler}
           b1 == Base(b.inits + 1, b.clients \cup {0}, b.alive \cup four)
           v1 == Quartet(v, Four(v.state, Loaded, Loaded, Loaded, Loaded),
                         Four(v.enabled, {}, {}, {}, {}), v.tunnels, v.supplied)
           v2 == Quartet(v, Four(v.state, Executing, Loaded, Executing, Idle),
                         Four(v.enabled, {130}, {}, {80}, {12}), v.tunnels \cup {ClockTunnel},
                         Put(v.supplied, video_decode, NumBuffers))
<1>1. b.inits = 0 /\ b.clients = {k \in 0 .. 2 : k < 0} /\ b.alive = Created(0)
  BY DEF Based, Base
<1>2. 0 \in 0 .. 3 /\ \A c \in Comps : ~(c[2] < 0)
  BY Kinds
<1>3. Created(0) = {}
  BY <1>2, CreatedIs
<1>4. 0 \notin b.clients /\ b.inits \in 0 .. 2 /\ b.alive \cap four = {}
  BY <1>1, <1>3
<1>5. v.supplied[video_decode] = 0
  BY <1>2, OfVideo, SetUpAt
<1>6. b1 = Based(1) /\ v2 = SetUp(1, no, 0)
  <2> HIDE DEF v
  <2>1. v = SetUp(0, no, 0)
    BY DEF v
  <2> QED
    BY <2>1, SetUpVideo
<1> HIDE DEF b, v
<1>7. Runs(Near(b, v), CreateVideo, Near(b1, v1))
  BY <1>4, NearCreateVideo
<1>8. Runs(Near(b1, v1), StartVideo, Near(b1, v2))
  <2>1. four \subseteq b1.alive
    BY DEF Base
  <2> HIDE DEF b1
  <2> QED
    BY <1>5, <2>1, NearStartVideo
<1> HIDE DEF v1, v2, b1
<1>9. Runs(Near(b, v), CreateVideo \o StartVideo, Near(b1, v2))
  BY <1>7, <1>8, RunSeq
<1> QED
  BY <1>6, <1>9 DEF b, v, sx_video_sink_init

LEMMA RunAudio ==
  ASSUME NEW no \in BOOLEAN, ~no, NEW i \in 1 .. 2
  PROVE  Runs(Near(Based(i), SetUp(i, no, 0)), sx_audio_sink_init(i),
              Near(Based(i + 1), SetUp(i + 1, no, 0)))
<1> DEFINE b == Based(i)
           v == SetUp(i, no, 0)
           a == audio_render(i)
           z == clock(i)
           b1 == Base(b.inits + 1, b.clients \cup {i}, (b.alive \cup {a}) \cup {z})
           v1 == Duo(v, a, z, Executing, Executing, {100, 101}, {80},
                     v.tunnels \cup {AudioTunnel(i)}, Put(v.supplied, a, NumBuffers))
<1>1. b.inits = i /\ b.clients = {k \in 0 .. 2 : k < i} /\ b.alive = Created(i)
  BY DEF Based, Base
<1>2. i \in 0 .. 3
  OBVIOUS
<1>3. a \in Comps /\ z \in Comps /\ a[2] = i /\ z[2] = i
  BY ComponentsAssumption DEF Components, audio_render, clock
<1>4. Created(i) = {c \in Comps : c[2] < i}
  BY <1>2, CreatedIs
<1>5. i \notin b.clients /\ b.inits \in 0 .. 2 /\ b.alive \subseteq Comps /\ a \notin b.alive /\ z \notin b.alive
  <2>1. i \notin b.clients /\ b.inits \in 0 .. 2
    BY <1>1
  <2> HIDE DEF b, a, z
  <2> QED
    BY <1>1, <1>3, <1>4, <2>1
<1>6. v.supplied[a] = 0
  <2>1. ~(a[2] < i)
    BY <1>3
  <2> HIDE DEF a
  <2> QED
    BY <1>2, <1>3, <2>1, SetUpAt
<1>7. b1 = Based(i + 1) /\ v1 = SetUp(i + 1, no, 0)
  <2> HIDE DEF v
  <2>1. v = SetUp(i, no, 0)
    BY DEF v
  <2> QED
    BY <2>1, SetUpAudio
<1> HIDE DEF b, v
<1>8. Runs(Near(b, v), sx_audio_sink_init(i), Near(b1, v1))
  <2>1. /\ i \in 1 .. 2 /\ i \notin b.clients /\ b.inits \in 0 .. 2 /\ b.alive \subseteq Comps
        /\ audio_render(i) \notin b.alive /\ clock(i) \notin b.alive
        /\ v.supplied[audio_render(i)] = 0
    BY <1>5, <1>6
  <2> HIDE DEF a, z, b1, v1
  <2>2. LET a0 == audio_render(i)
            z0 == clock(i)
        IN  Runs(Near(b, v), sx_audio_sink_init(i),
                 Near(Base(b.inits + 1, b.clients \cup {i}, (b.alive \cup {a0}) \cup {z0}),
                      Duo(v, a0, z0, Executing, Executing, {100, 101}, {80},
                          v.tunnels \cup {AudioTunnel(i)}, Put(v.supplied, a0, NumBuffers))))
    BY <2>1, NearAudio, ZenonT(60)
  <2> QED
    BY <2>2 DEF a, z, b1, v1
<1> QED
  BY <1>7, <1>8 DEF b, v

Present == [do |-> "present"]

LEMMA RestSafe ==
  ASSUME NEW seen \in BOOLEAN, NEW S \in Near(Based(3), SetUp(3, seen, 0))
  PROVE  Safe(<<Present>>, S)
<1>1. Rested(S)
  BY DEF Rested
<1>2. S.doom = FALSE /\ S.base.inits = 3
  <2>1. PICK r \in -5 .. 0, w \in Variants(SetUp(3, seen, 0)) : S = Calm(r, Based(3), w)
    BY DEF Near
  <2> QED
    BY <2>1 DEF Calm, Sync, Based, Base
<1>3. Good(Present, <<>>, S) /\ Nexts(Present, <<>>, S) = {}
  BY <1>1, <1>2 DEF Good, GoodSync, Nexts, NextsSync, Present
<1>4. IsSeq(<<>>)
  BY RunNothing DEF Runs
<1>5. Safe(<<Present>> \o <<>>, S)
  BY <1>3, <1>4, SafeFold
<1>6. <<Present>> \o <<>> = <<Present>>
  BY SeqNothing, OneIsSeq DEF IsSeq
<1> QED
  BY <1>5, <1>6

LEMMA MainSafe ==
  ASSUME NEW no \in BOOLEAN, ~no, NEW S \in Near(Based(0), SetUp(0, no, 0))
  PROVE  Safe(main, S)
<1> DEFINE N0 == Near(Based(0), SetUp(0, no, 0))
           N1 == Near(Based(1), SetUp(1, no, 0))
           N2 == Near(Based(2), SetUp(2, no, 0))
           N3 == Near(Based(3), SetUp(3, no, 0))
           c1 == [do |-> "call", f |-> "sx_mgmt_video_scheduler_init"]
           c2 == [do |-> "call", f |-> "sx_mgmt_audio_decoder_init"]
           c3 == [do |-> "call", f |-> "sx_mgmt_audio_scheduler_init"]
<1>1. Runs(N0, <<c1>>, N1)
  <2>1. Body("sx_mgmt_video_scheduler_init") = sx_video_sink_init
    BY DEF Body, sx_mgmt_video_scheduler_init
  <2>2. Runs(N0, Body("sx_mgmt_video_scheduler_init"), N1)
    BY <2>1, RunVideo
  <2>3. 0 \in 0 .. 2
    OBVIOUS
  <2> HIDE DEF N1
  <2> QED
    BY <2>2, <2>3, RunCall
<1>2. Runs(N1, <<c2>>, N2)
  <2>1. Body("sx_mgmt_audio_decoder_init") = sx_audio_sink_init(1)
    BY DEF Body, sx_mgmt_audio_decoder_init
  <2>2. Runs(Near(Based(1), SetUp(1, no, 0)), sx_audio_sink_init(1),
              Near(Based(1 + 1), SetUp(1 + 1, no, 0)))
    BY RunAudio
  <2>3. 1 \in 0 .. 2 /\ 1 + 1 = 2
    OBVIOUS
  <2>4. Runs(N1, Body("sx_mgmt_audio_decoder_init"), N2)
    BY <2>1, <2>2, <2>3
  <2> HIDE DEF N2
  <2> QED
    BY <2>3, <2>4, RunCall
<1>3. Runs(N2, <<c3>>, N3)
  <2>1. Body("sx_mgmt_audio_scheduler_init") = sx_audio_sink_init(2)
    BY DEF Body, sx_mgmt_audio_scheduler_init
  <2>2. Runs(Near(Based(2), SetUp(2, no, 0)), sx_audio_sink_init(2),
              Near(Based(2 + 1), SetUp(2 + 1, no, 0)))
    BY RunAudio
  <2>3. 2 \in 0 .. 2 /\ 2 + 1 = 3
    OBVIOUS
  <2>4. Runs(N2, Body("sx_mgmt_audio_scheduler_init"), N3)
    BY <2>1, <2>2, <2>3
  <2> HIDE DEF N3
  <2> QED
    BY <2>3, <2>4, RunCall
<1>4. \A T \in N3 : Safe(<<Present>>, T)
  BY RestSafe
<1>5. S \in N0
  OBVIOUS
<1>6. main = ((<<c1>> \o <<c2>>) \o <<c3>>) \o <<Present>>
  <2>1. main = <<c1, c2, c3>> \o <<Present>>
    BY DEF main, mgmt_sys_init, mgmt_sys_open, Present
  <2> HIDE DEF c1, c2, c3
  <2> QED
    BY <2>1, TwoTogether, ThreeTogether
<1> HIDE DEF c1, c2, c3, N0, N1, N2, N3
<1>7. Runs(N0, <<c1>> \o <<c2>>, N2)
  BY <1>1, <1>2, RunSeq
<1>8. Runs(N0, (<<c1>> \o <<c2>>) \o <<c3>>, N3)
  BY <1>3, <1>7, RunSeq
<1>9. IsSeq(<<Present>>)
  BY OneIsSeq
<1> QED
  BY <1>4, <1>5, <1>6, <1>8, <1>9 DEF Runs

(* The presenter, with a buffer in its hand.                               *)
Handed(x) == [do |-> "submit", buf |-> x]
Look == [do |-> "settings"]

LEMMA HoldingIs ==
  ASSUME NEW n, NEW seen, NEW h, NEW j, NEW w \in Variants(SetUp(n, seen, h))
  PROVE  Holding(w, j) \in Variants(SetUp(n, seen, j))
<1>1. PICK st \in [Comps -> 0 .. 3], sp \in SUBSET Comps :
        w = World(SetUp(n, seen, h).seen, SetUp(n, seen, h).hand, st, SetUp(n, seen, h).enabled,
                  SetUp(n, seen, h).tunnels, SetUp(n, seen, h).supplied, sp)
  BY DEF Variants
<1> DEFINE u == SetUp(n, seen, h)
           z == SetUp(n, seen, j)
           y == World(z.seen, z.hand, st, z.enabled, z.tunnels, z.supplied, sp)
<1>2. Holding(w, j) = y /\ y.state = w.state /\ y.spoiled = w.spoiled /\ z.state = u.state
  BY <1>1 DEF Holding, SetUp, World
<1>3. \A c \in Comps : \/ w.state[c] = u.state[c]
                       \/ c \in w.spoiled /\ w.state[c] = Idle /\ u.state[c] = Executing
  BY DEF Variants
<1> HIDE DEF u, z
<1>4. y \in Variants(z)
  <2>1. \A c \in Comps : \/ y.state[c] = z.state[c]
                         \/ c \in y.spoiled /\ y.state[c] = Idle /\ z.state[c] = Executing
    BY <1>2, <1>3
  <2> QED
    BY <2>1 DEF Variants
<1> QED
  BY <1>2, <1>4 DEF z

LEMMA SizedIs ==
  ASSUME NEW v, NEW w \in Variants(v)
  PROVE  Sized(w) \in Variants(Sized(v))
<1>1. PICK st \in [Comps -> 0 .. 3], sp \in SUBSET Comps :
        w = World(v.seen, v.hand, st, v.enabled, v.tunnels, v.supplied, sp)
  BY DEF Variants
<1> DEFINE z == Sized(v)
           y == World(z.seen, z.hand, st, z.enabled, z.tunnels, z.supplied, sp)
<1>2. Sized(w) = y /\ y.state = w.state /\ y.spoiled = w.spoiled /\ z.state = v.state
  BY <1>1 DEF Sized, World
<1>3. \A c \in Comps : \/ w.state[c] = v.state[c]
                       \/ c \in w.spoiled /\ w.state[c] = Idle /\ v.state[c] = Executing
  BY DEF Variants
<1> HIDE DEF z
<1>4. y \in Variants(z)
  <2>1. \A c \in Comps : \/ y.state[c] = z.state[c]
                         \/ c \in y.spoiled /\ y.state[c] = Idle /\ z.state[c] = Executing
    BY <1>2, <1>3
  <2> QED
    BY <2>1 DEF Variants
<1> QED
  BY <1>2, <1>4 DEF z

LEMMA HandedSafe ==
  ASSUME NEW seen \in BOOLEAN, NEW S \in Near(Based(3), SetUp(3, seen, 1)), NEW x \in Nat
  PROVE  Safe(<<Handed(x)>> \o <<Present>>, S)
<1>1. PICK r \in -5 .. 0, w \in Variants(SetUp(3, seen, 1)) : S = Calm(r, Based(3), w)
  BY DEF Near
<1> DEFINE T == Calm(r, Based(3), Holding(w, 0))
           y == <<<<Present>>, T>>
           Y == {y}
<1>2. T \in Near(Based(3), SetUp(3, seen, 0))
  BY HoldingIs DEF Near
<1>3. Safe(<<Present>>, T)
  BY <1>2, RestSafe
<1>4. w.hand = 1
  BY DEF Variants, SetUp, World
<1>5. Good(Handed(x), <<Present>>, S) /\ Nexts(Handed(x), <<Present>>, S) = Y
  BY <1>1, <1>4 DEF Good, GoodSync, Nexts, NextsSync, Handed, Calm, Sync
<1>6. y = <<y[1], y[2]>> /\ Safe(y[1], y[2])
  BY <1>3
<1>7. IsSeq(<<Present>>)
  BY OneIsSeq
<1> HIDE DEF y
<1> QED
  BY <1>5, <1>6, <1>7, SafeFold

LEMMA PresentSafe ==
  ASSUME NEW seen \in BOOLEAN, NEW S \in Near(Based(3), SetUp(3, seen, 1)), NEW x \in Nat
  PROVE  Safe(<<Look>> \o (<<Handed(x)>> \o <<Present>>), S)
<1> DEFINE k == <<Handed(x)>> \o <<Present>>
           b == Based(3)
<1>1. PICK r \in -5 .. 0, w \in Variants(SetUp(3, seen, 1)) : S = Calm(r, b, w)
  BY DEF Near
<1> DEFINE y == <<k, S>>
           T == Calm(r, b, Sized(w))
           z == <<Connect \o k, T>>
<1>2. IsSeq(k)
  BY OneIsSeq, SeqConcat
<1>3. y = <<y[1], y[2]>> /\ Safe(y[1], y[2])
  BY HandedSafe
<1>4. Good(Look, k, S)
  <2>1. S.doom = FALSE /\ S.sent = Quiet
    BY <1>1 DEF Calm, Sync
  <2>2. Quiet[video_decode] = NoCommand
    <3>1. video_decode \in Comps
      BY ComponentsAssumption DEF Components
    <3> QED
      BY <3>1 DEF Quiet
  <2> QED
    BY <2>1, <2>2 DEF Good, GoodSync, Look
<1>5. w.seen = seen
  BY DEF Variants, SetUp, World
<1>6. CASE seen
  <2>1. Nexts(Look, k, S) \subseteq {y}
    BY <1>1, <1>5, <1>6 DEF Nexts, NextsSync, Look, Calm, Sync
  <2> HIDE DEF y, k
  <2> QED
    BY <1>2, <1>3, <1>4, <2>1, SafeFold DEF k
<1>7. CASE ~seen
  <2>1. Nexts(Look, k, S) \subseteq {y, z}
    BY <1>1 DEF Nexts, NextsSync, Look, Calm, Sync
  <2>2. PICK yes \in BOOLEAN : Is(yes)
    BY DEF Is
  <2> DEFINE v == Sized(SetUp(3, seen, 1))
             v0 == Quartet(v, Four(v.state, Executing, Loaded, Executing, Idle),
                           Four(v.enabled, {130}, {}, {80}, {12}), v.tunnels, v.supplied)
             v1 == Quartet(v, Four(v.state, Executing, Executing, Executing, Executing),
                           Four(v.enabled, {130, 131}, {90}, {80}, {10, 11, 12}),
                           (v.tunnels \cup {DecodeTunnel}) \cup {RenderTunnel}, v.supplied)
  <2>3. T \in Near(b, v)
    <3>1. Sized(w) \in Variants(v)
      BY SizedIs
    <3> HIDE DEF v, b
    <3> QED
      BY <3>1 DEF Near
  <2>4. v = v0 /\ v1 = SetUp(3, yes, 1)
    <3> HIDE DEF v
    <3>1. v = Sized(SetUp(3, seen, 1))
      BY DEF v
    <3> QED
      BY <1>7, <2>2, <3>1, SetUpConnect
  <2>5. {video_decode, video_render, video_clock, video_scheduler} \subseteq b.alive
    <3>1. b.alive = Created(3) /\ 3 \in 0 .. 3
      BY DEF Based, Base
    <3>2. \A c \in Comps : c[2] < 3
      BY Kinds
    <3> QED
      BY <3>1, <3>2, CreatedIs, OfVideo
  <2>6. Runs(Near(b, v0), Connect, Near(b, v1))
    <3> HIDE DEF v, b
    <3> QED
      BY <2>5, NearConnect
  <2>7. \A U \in Near(b, v1) : Safe(k, U)
    <3> HIDE DEF v1
    <3> QED
      BY <2>4, HandedSafe
  <2>8. Safe(Connect \o k, T)
    <3> HIDE DEF v, v0, v1, b, k, T
    <3> QED
      BY <1>2, <2>3, <2>4, <2>6, <2>7 DEF Runs
  <2>9. z = <<z[1], z[2]>> /\ Safe(z[1], z[2])
    BY <2>8
  <2> DEFINE Y == {y, z}
  <2>10. \A u \in Y : u = <<u[1], u[2]>> /\ Safe(u[1], u[2])
    <3> HIDE DEF y, z
    <3> QED
      BY <1>3, <2>9
  <2> HIDE DEF y, z, k, Y
  <2> QED
    BY <1>2, <1>4, <2>1, <2>10, SafeFold DEF k, Y
<1> QED
  BY <1>6, <1>7

(* The program's text: steps that no other step puts on the stack.         *)
CallNames == {"sx_mgmt_video_scheduler_init", "sx_mgmt_audio_decoder_init",
              "sx_mgmt_audio_scheduler_init"}
Branches == {"if returned", "if state", "if enabled", "if got"}
Plain(f, X) ==
  /\ f.do \notin {"suspend", "look for error", "woken", "queue"}
  /\ f.do = "supply" => f.list = <<>>
  /\ f.do = "call" => f.f \in CallNames
  /\ f.do \in Branches => f.yes \in Seq(X) /\ f.no \in Seq(X)
Text(p) == \E X : (\A f \in X : Plain(f, X)) /\ p \in Seq(X)

LEMMA TextNothing == Text(<<>>)
<1>1. <<>> \in Seq({})
  BY EmptySeq
<1> QED
  BY <1>1 DEF Text

LEMMA TextConcat ==
  ASSUME NEW p, NEW q, Text(p), Text(q)
  PROVE  Text(p \o q)
<1>1. PICK X : (\A f \in X : Plain(f, X)) /\ p \in Seq(X)
  BY DEF Text
<1>2. PICK Y : (\A f \in Y : Plain(f, Y)) /\ q \in Seq(Y)
  BY DEF Text
<1> DEFINE Z == X \cup Y
<1>3. X \subseteq Z /\ Y \subseteq Z
  OBVIOUS
<1>4. (\A s : s \in Seq(X) => s \in Seq(Z)) /\ (\A s : s \in Seq(Y) => s \in Seq(Z))
  <2> HIDE DEF Z
  <2> QED
    BY <1>3, SeqMonotonic
<1>5. \A f \in Z : Plain(f, Z)
  <2>1. ASSUME NEW f \in X PROVE Plain(f, Z)
    <3> HIDE DEF Z
    <3> QED
      BY <1>1, <1>4 DEF Plain
  <2>2. ASSUME NEW f \in Y PROVE Plain(f, Z)
    <3> HIDE DEF Z
    <3> QED
      BY <1>2, <1>4 DEF Plain
  <2> QED
    BY <2>1, <2>2
<1>6. p \o q \in Seq(Z)
  <2> HIDE DEF Z
  <2> QED
    BY <1>1, <1>2, <1>4, ConcatProperties
<1> HIDE DEF Z
<1> QED
  BY <1>5, <1>6 DEF Text

LEMMA SeqOfOne == ASSUME NEW X, NEW e \in X PROVE <<e>> \in Seq(X)
OBVIOUS

LEMMA TextOne ==
  ASSUME NEW f, f.do \notin {"suspend", "look for error", "woken", "queue"},
         f.do = "supply" => f.list = <<>>, f.do = "call" => f.f \in CallNames,
         f.do \notin Branches
  PROVE  Text(<<f>>)
<1> DEFINE X == {f}
<1>1. <<f>> \in Seq(X)
  <2>1. f \in X
    OBVIOUS
  <2> HIDE DEF X
  <2> QED
    BY <2>1, SeqOfOne
<1>2. \A g \in X : Plain(g, X)
  BY DEF Plain
<1> HIDE DEF X
<1> QED
  BY <1>1, <1>2 DEF Text

LEMMA TextBranch ==
  ASSUME NEW f, f.do \in Branches, Text(f.yes), Text(f.no)
  PROVE  Text(<<f>>)
<1>1. PICK X : (\A g \in X : Plain(g, X)) /\ f.yes \in Seq(X)
  BY DEF Text
<1>2. PICK Y : (\A g \in Y : Plain(g, Y)) /\ f.no \in Seq(Y)
  BY DEF Text
<1> DEFINE Z == (X \cup Y) \cup {f}
<1>3. X \subseteq Z /\ Y \subseteq Z /\ f \in Z
  OBVIOUS
<1>4. (\A s : s \in Seq(X) => s \in Seq(Z)) /\ (\A s : s \in Seq(Y) => s \in Seq(Z))
  <2> HIDE DEF Z
  <2> QED
    BY <1>3, SeqMonotonic
<1>5. \A g \in Z : Plain(g, Z)
  <2>1. ASSUME NEW g \in X PROVE Plain(g, Z)
    <3> HIDE DEF Z
    <3> QED
      BY <1>1, <1>4 DEF Plain
  <2>2. ASSUME NEW g \in Y PROVE Plain(g, Z)
    <3> HIDE DEF Z
    <3> QED
      BY <1>2, <1>4 DEF Plain
  <2>3. Plain(f, Z)
    <3> HIDE DEF Z
    <3> QED
      BY <1>1, <1>2, <1>4 DEF Plain, Branches
  <2> QED
    BY <2>1, <2>2, <2>3
<1>6. <<f>> \in Seq(Z)
  <2> HIDE DEF Z
  <2> QED
    BY <1>3, SeqOfOne
<1> HIDE DEF Z
<1> QED
  BY <1>5, <1>6 DEF Text

LEMMA TextPop ==
  ASSUME NEW p, Text(p), p # <<>>
  PROVE  /\ Text(Tail(p))
         /\ Head(p).do \notin {"suspend", "look for error", "woken", "queue"}
         /\ Head(p).do = "supply" => Head(p).list = <<>>
         /\ Head(p).do = "call" => Head(p).f \in CallNames
         /\ Head(p).do \in Branches => Text(Head(p).yes) /\ Text(Head(p).no)
<1>1. PICK X : (\A f \in X : Plain(f, X)) /\ p \in Seq(X)
  BY DEF Text
<1>2. Head(p) \in X /\ Tail(p) \in Seq(X)
  BY <1>1, HeadTailProperties
<1>3. Plain(Head(p), X)
  BY <1>1, <1>2
<1> QED
  BY <1>1, <1>2, <1>3 DEF Plain, Text

LEMMA TextIsSeq == ASSUME NEW p, Text(p) PROVE IsSeq(p)
BY DEF Text, IsSeq

LEMMA TextSteps ==
  /\ Text(Insist) /\ \A v : Text(Return(v))
  /\ \A c, cmd, n : Text(Send(c, cmd, n)) /\ Text(Wait(c, cmd, n))
  /\ \A c, wanted : Text(RemoveEvent(c, wanted))
  /\ \A c, to : Text(Relate(c, to))
  /\ \A c, on : Text(Mask(c, on))
  /\ \A c : Text(Configure(c)) /\ Text(ilclient_create_component(c))
  /\ \A c, wanted, flag, timeout : Text(WaitForEvent(c, wanted, flag, timeout))
<1>1. Text(Insist) /\ \A v : Text(Return(v))
  BY TextOne DEF Insist, Return, Branches
<1>2. \A c, cmd, n : Text(Send(c, cmd, n)) /\ Text(Wait(c, cmd, n))
  BY TextOne DEF Send, Wait, Branches
<1>3. \A c, wanted : Text(RemoveEvent(c, wanted))
  BY TextOne DEF RemoveEvent, Branches
<1>4. \A c, to : Text(Relate(c, to))
  BY TextOne DEF Relate, Branches
<1>5. \A c, on : Text(Mask(c, on))
  BY TextOne DEF Mask, Branches
<1>6. \A c : Text(Configure(c)) /\ Text(ilclient_create_component(c))
  BY TextOne DEF Configure, ilclient_create_component, Branches
<1>7. \A c, wanted, flag, timeout : Text(WaitForEvent(c, wanted, flag, timeout))
  BY TextOne DEF WaitForEvent, Branches
<1> QED
  BY <1>1, <1>2, <1>3, <1>4, <1>5, <1>6, <1>7

LEMMA TextIfReturned ==
  ASSUME NEW v, NEW yes, NEW no, Text(yes), Text(no)
  PROVE  Text(IfReturned(v, yes, no))
<1> DEFINE f == [do |-> "if returned", value |-> v, yes |-> yes, no |-> no]
<1>1. f.do \in Branches /\ f.yes = yes /\ f.no = no
  BY DEF Branches
<1> HIDE DEF f
<1>2. Text(<<f>>)
  BY <1>1, TextBranch
<1> QED
  BY <1>2 DEF f, IfReturned

LEMMA TextIfState ==
  ASSUME NEW c, NEW s, NEW yes, NEW no, Text(yes), Text(no)
  PROVE  Text(IfState(c, s, yes, no))
<1> DEFINE f == [do |-> "if state", c |-> c, s |-> s, yes |-> yes, no |-> no]
<1>1. f.do \in Branches /\ f.yes = yes /\ f.no = no
  BY DEF Branches
<1> HIDE DEF f
<1>2. Text(<<f>>)
  BY <1>1, TextBranch
<1> QED
  BY <1>2 DEF f, IfState

LEMMA TextIfEnabled ==
  ASSUME NEW c, NEW n, NEW yes, NEW no, Text(yes), Text(no)
  PROVE  Text(IfEnabled(c, n, yes, no))
<1> DEFINE f == [do |-> "if enabled", c |-> c, n |-> n, yes |-> yes, no |-> no]
<1>1. f.do \in Branches /\ f.yes = yes /\ f.no = no
  BY DEF Branches
<1> HIDE DEF f
<1>2. Text(<<f>>)
  BY <1>1, TextBranch
<1> QED
  BY <1>2 DEF f, IfEnabled

LEMMA TextIfGot ==
  ASSUME NEW flag, NEW yes, NEW no, Text(yes), Text(no)
  PROVE  Text(IfGot(flag, yes, no))
<1> DEFINE f == [do |-> "if got", flag |-> flag, yes |-> yes, no |-> no]
<1>1. f.do \in Branches /\ f.yes = yes /\ f.no = no
  BY DEF Branches
<1> HIDE DEF f
<1>2. Text(<<f>>)
  BY <1>1, TextBranch
<1> QED
  BY <1>2 DEF f, IfGot

LEMMA TextChange ==
  ASSUME NEW c, NEW s
  PROVE  Text(ilclient_change_component_state(c, s))
<1>1. Text(RemoveEvent(c, AnyError) \o Return(-1))
  BY TextSteps, TextConcat
<1>2. Text(IfReturned(0, <<>>, RemoveEvent(c, AnyError) \o Return(-1)))
  BY <1>1, TextNothing, TextIfReturned
<1>3. Text(Send(c, "StateSet", s) \o Wait(c, "StateSet", s))
  BY TextSteps, TextConcat
<1> QED
  BY <1>2, <1>3, TextConcat DEF ilclient_change_component_state

LEMMA TextDisablePort ==
  ASSUME NEW c, NEW n
  PROVE  Text(ilclient_disable_port(c, n))
<1>1. Text(Send(c, "PortDisable", n) \o Wait(c, "PortDisable", n))
  BY TextSteps, TextConcat
<1> QED
  BY <1>1, TextSteps, TextConcat DEF ilclient_disable_port

LEMMA TextAllOff ==
  ASSUME NEW c \in Comps
  PROVE  Text(AllOff(c))
<1>1. \A n : Text(ilclient_disable_port(c, n)) /\ IsSeq(ilclient_disable_port(c, n))
  BY TextDisablePort, TextIsSeq
<1>2. \/ \E n1 : PortsOf(c) = <<n1>>
      \/ \E n1, n2 : PortsOf(c) = <<n1, n2>>
      \/ \E n1, n2, n3 : PortsOf(c) = <<n1, n2, n3>>
  <2>1. c[1] \in {"video_decode", "video_render", "video_scheduler", "clock", "audio_render"}
    BY ComponentsAssumption DEF Components, video_decode, video_render, video_scheduler, video_clock,
       audio_render, clock
  <2> QED
    BY <2>1 DEF PortsOf
<1>3. CASE \E n1 : PortsOf(c) = <<n1>>
  BY <1>1, <1>3, FlattenPorts
<1>4. CASE \E n1, n2 : PortsOf(c) = <<n1, n2>>
  <2>1. PICK n1, n2 : PortsOf(c) = <<n1, n2>>
    BY <1>4
  <2>2. AllOff(c) = ilclient_disable_port(c, n1) \o ilclient_disable_port(c, n2)
    BY <1>1, <2>1, FlattenPorts
  <2> QED
    BY <1>1, <2>2, TextConcat
<1>5. CASE \E n1, n2, n3 : PortsOf(c) = <<n1, n2, n3>>
  <2>1. PICK n1, n2, n3 : PortsOf(c) = <<n1, n2, n3>>
    BY <1>5
  <2>2. AllOff(c) = Chain(ilclient_disable_port(c, n1), ilclient_disable_port(c, n2),
                          ilclient_disable_port(c, n3))
    BY <1>1, <2>1, FlattenPorts
  <2>3. Text(ilclient_disable_port(c, n1) \o ilclient_disable_port(c, n2))
    BY <1>1, TextConcat
  <2> QED
    BY <1>1, <2>2, <2>3, TextConcat DEF Chain
<1> QED
  BY <1>2, <1>3, <1>4, <1>5

LEMMA TextDisableTunnel ==
  ASSUME NEW t
  PROVE  Text(ilclient_disable_tunnel(t))
<1> DEFINE a == t[1]
           b == t[2]
           p1 == Mask(a[1], TRUE) \o Mask(b[1], TRUE)
           p2 == p1 \o Send(a[1], "PortDisable", a[2])
           p3 == p2 \o Send(b[1], "PortDisable", b[2])
           p4 == p3 \o Wait(a[1], "PortDisable", a[2])
           p5 == p4 \o Insist
           p6 == p5 \o Wait(b[1], "PortDisable", b[2])
           p7 == p6 \o Insist
           p8 == p7 \o Mask(a[1], FALSE)
           p9 == p8 \o Mask(b[1], FALSE)
<1> HIDE DEF a, b
<1>1. Text(p1) /\ Text(p2) /\ Text(p3)
  BY TextSteps, TextConcat
<1> HIDE DEF p3
<1>2. Text(p4) /\ Text(p5) /\ Text(p6)
  BY <1>1, TextSteps, TextConcat
<1> HIDE DEF p6
<1>3. Text(p7) /\ Text(p8) /\ Text(p9)
  BY <1>2, TextSteps, TextConcat
<1>4. ilclient_disable_tunnel(t) = p9
  BY DEF ilclient_disable_tunnel, a, b, p3, p6
<1> QED
  BY <1>3, <1>4

LEMMA TextEnableTunnel ==
  ASSUME NEW t
  PROVE  Text(ilclient_enable_tunnel(t))
<1> DEFINE a == t[1]
           b == t[2]
           onA == Wait(a[1], "PortEnable", a[2])
           onB == Wait(b[1], "PortEnable", b[2])
           giveUp == ilclient_disable_port(a[1], a[2])
           offB == ilclient_disable_port(b[1], b[2])
           source == onA \o IfReturned(0, <<>>, offB \o Return(-1))
           ofOther == onA \o offB
           dual == WaitDual(b[1], "StateSet", Idle, a[1])
           begun == Send(b[1], "StateSet", Idle) \o dual
           inner == IfReturned(-2, ofOther, <<>>) \o giveUp \o Return(-1)
           toIdle == begun \o IfReturned(0, source, inner)
           yes == onB \o IfReturned(0, toIdle, giveUp \o Return(-1))
           ended == giveUp \o WaitForEvent(a[1], Complete("PortEnable", a[2]), "PORT_ENABLED", FALSE)
                    \o Return(-1)
           no == onB \o IfReturned(0, source, ended)
           both == Send(a[1], "PortEnable", a[2]) \o Send(b[1], "PortEnable", b[2])
<1>1. Text(onA) /\ Text(onB) /\ Text(giveUp) /\ Text(offB) /\ Text(both)
  BY TextSteps, TextConcat, TextDisablePort
<1>2. Text(dual)
  <2> DEFINE f == [do |-> "check", c |-> b[1], cmd |-> "StateSet", n |-> Idle, other |-> a[1]]
  <2>1. Text(<<f>>)
    BY TextOne DEF Branches
  <2>2. Text(Relate(a[1], b[1])) /\ Text(Relate(a[1], None))
    BY TextSteps
  <2> HIDE DEF f
  <2>3. Text(Relate(a[1], b[1]) \o <<f>>)
    BY <2>1, <2>2, TextConcat
  <2>4. Text((Relate(a[1], b[1]) \o <<f>>) \o Relate(a[1], None))
    BY <2>2, <2>3, TextConcat
  <2> QED
    BY <2>4 DEF WaitDual, f
<1>3. Text(begun)
  <2> HIDE DEF dual
  <2> QED
    BY <1>2, TextSteps, TextConcat
<1>4. Text(offB \o Return(-1)) /\ Text(giveUp \o Return(-1)) /\ Text(ofOther)
  <2> HIDE DEF offB, giveUp, onA
  <2> QED
    BY <1>1, TextSteps, TextConcat
<1>5. Text(source)
  <2> HIDE DEF offB, onA
  <2>1. Text(IfReturned(0, <<>>, offB \o Return(-1)))
    BY <1>4, TextNothing, TextIfReturned
  <2> QED
    BY <1>1, <2>1, TextConcat
<1>6. Text(inner)
  <2> HIDE DEF ofOther, giveUp
  <2>1. Text(IfReturned(-2, ofOther, <<>>))
    BY <1>4, TextNothing, TextIfReturned
  <2>2. Text(IfReturned(-2, ofOther, <<>>) \o giveUp)
    BY <1>1, <2>1, TextConcat
  <2> QED
    BY <2>2, TextSteps, TextConcat
<1>7. Text(yes)
  <2> HIDE DEF source, inner, begun, giveUp, onB
  <2>1. Text(IfReturned(0, source, inner))
    BY <1>5, <1>6, TextIfReturned
  <2>2. Text(toIdle)
    BY <1>3, <2>1, TextConcat
  <2> HIDE DEF toIdle
  <2>3. Text(IfReturned(0, toIdle, giveUp \o Return(-1)))
    BY <1>4, <2>2, TextIfReturned
  <2> QED
    BY <1>1, <2>3, TextConcat
<1>8. Text(no)
  <2> DEFINE look == WaitForEvent(a[1], Complete("PortEnable", a[2]), "PORT_ENABLED", FALSE)
  <2>1. Text(look)
    BY TextSteps
  <2> HIDE DEF giveUp, source, onB, look
  <2>2. Text(giveUp \o look)
    BY <1>1, <2>1, TextConcat
  <2>3. Text((giveUp \o look) \o Return(-1))
    BY <2>2, TextSteps, TextConcat
  <2>4. Text(ended)
    BY <2>3 DEF look
  <2> HIDE DEF ended
  <2>5. Text(IfReturned(0, source, ended))
    BY <1>5, <2>4, TextIfReturned
  <2> QED
    BY <1>1, <2>5, TextConcat
<1>9. ilclient_enable_tunnel(t) = both \o IfState(b[1], {Loaded}, yes, no)
  BY DEF ilclient_enable_tunnel
<1> HIDE DEF both, yes, no
<1>10. Text(IfState(b[1], {Loaded}, yes, no))
  BY <1>7, <1>8, TextIfState
<1> QED
  BY <1>1, <1>9, <1>10, TextConcat

LEMMA TextSetupTunnel ==
  ASSUME NEW t, NEW timeout \in BOOLEAN
  PROVE  Text(ilclient_setup_tunnel(t, timeout))
<1> DEFINE a == t[1]
           b == t[2]
           ua == [do |-> "unjoin", end |-> a]
           ub == [do |-> "unjoin", end |-> b]
           undo == <<ua, ub>>
           j == [do |-> "join", a |-> a, b |-> b]
           failed1 == undo \o RemoveEvent(b[1], AnyError) \o RemoveEvent(a[1], AnyError) \o Return(-5)
           on == ilclient_enable_tunnel(t) \o IfReturned(0, <<>>, failed1)
           join == <<j>> \o IfReturned(0, on, undo \o Return(-5))
           reconnect == ilclient_disable_tunnel(t) \o join
           look == WaitForEvent(a[1], SettingsChanged(a[2]), "PARAMETER_CHANGED", TRUE)
           waited == look \o IfReturned(0, reconnect, <<>>)
           settings == IF timeout THEN waited ELSE reconnect
           idle == ilclient_change_component_state(a[1], Idle)
           yes == idle \o IfReturned(0, settings, Return(-2))
<1>1. Text(undo) /\ Text(<<j>>)
  <2>1. Text(<<ua>>) /\ Text(<<ub>>) /\ Text(<<j>>)
    BY TextOne DEF Branches
  <2> HIDE DEF ua, ub
  <2>2. <<ua>> \o <<ub>> = <<ua, ub>>
    BY TwoTogether
  <2> QED
    BY <2>1, <2>2, TextConcat
<1>2. Text(failed1) /\ Text(undo \o Return(-5))
  <2> HIDE DEF undo
  <2>1. Text(undo \o RemoveEvent(b[1], AnyError))
    BY <1>1, TextSteps, TextConcat
  <2>2. Text((undo \o RemoveEvent(b[1], AnyError)) \o RemoveEvent(a[1], AnyError))
    BY <2>1, TextSteps, TextConcat
  <2> QED
    BY <1>1, <2>2, TextSteps, TextConcat
<1>3. Text(on)
  <2> HIDE DEF failed1
  <2>1. Text(IfReturned(0, <<>>, failed1))
    BY <1>2, TextNothing, TextIfReturned
  <2> QED
    BY <2>1, TextEnableTunnel, TextConcat
<1>4. Text(join)
  <2> HIDE DEF on, undo, j
  <2>1. Text(IfReturned(0, on, undo \o Return(-5)))
    BY <1>2, <1>3, TextIfReturned
  <2> QED
    BY <1>1, <2>1, TextConcat
<1>5. Text(reconnect)
  <2> HIDE DEF join
  <2> QED
    BY <1>4, TextDisableTunnel, TextConcat
<1>6. Text(waited)
  <2>1. Text(look)
    BY TextSteps
  <2> HIDE DEF look, reconnect
  <2>2. Text(IfReturned(0, reconnect, <<>>))
    BY <1>5, TextNothing, TextIfReturned
  <2> QED
    BY <2>1, <2>2, TextConcat
<1>7. Text(settings)
  <2> HIDE DEF waited, reconnect
  <2> QED
    BY <1>5, <1>6
<1>8. Text(yes)
  <2>1. Text(Return(-2)) /\ Text(idle)
    BY TextSteps, TextChange
  <2> HIDE DEF settings, idle
  <2>2. Text(IfReturned(0, settings, Return(-2)))
    BY <1>7, <2>1, TextIfReturned
  <2> QED
    BY <2>1, <2>2, TextConcat
<1>9. ilclient_setup_tunnel(t, timeout) = IfState(a[1], {Loaded}, yes, settings)
  BY DEF ilclient_setup_tunnel
<1> HIDE DEF yes, settings
<1> QED
  BY <1>7, <1>8, <1>9, TextIfState

LEMMA TextEnableBuffers ==
  ASSUME NEW c, NEW n
  PROVE  Text(ilclient_enable_port_buffers(c, n))
<1> DEFINE d == [do |-> "drain", c |-> c, n |-> n, num |-> NumBuffers]
           s == [do |-> "supply", c |-> c, n |-> n, list |-> <<>>]
           off == Send(c, "PortDisable", n) \o <<d>>
           supply == Send(c, "PortEnable", n) \o <<s>>
           cleanup == ilclient_disable_port_buffers(c, n) \o RemoveEvent(c, CommandError) \o Return(-1)
           yes == supply \o IfReturned(0, <<>>, cleanup)
<1>1. Text(<<d>>) /\ Text(<<s>>)
  BY TextOne DEF Branches
<1>2. Text(off) /\ Text(supply)
  <2> HIDE DEF d, s
  <2> QED
    BY <1>1, TextSteps, TextConcat
<1>3. Text(ilclient_disable_port_buffers(c, n))
  <2> HIDE DEF off
  <2>1. Text(IfEnabled(c, n, off, <<>>))
    BY <1>2, TextNothing, TextIfEnabled
  <2> QED
    BY <2>1 DEF ilclient_disable_port_buffers, off
<1>4. Text(cleanup)
  <2>1. Text(ilclient_disable_port_buffers(c, n) \o RemoveEvent(c, CommandError))
    BY <1>3, TextSteps, TextConcat
  <2> QED
    BY <2>1, TextSteps, TextConcat
<1>5. Text(yes)
  <2> HIDE DEF supply, cleanup
  <2>1. Text(IfReturned(0, <<>>, cleanup))
    BY <1>4, TextNothing, TextIfReturned
  <2> QED
    BY <1>2, <2>1, TextConcat
<1>6. ilclient_enable_port_buffers(c, n) =
        IfEnabled(c, n, Return(-1), IfState(c, {Idle, Executing}, yes, Return(-1)))
  BY DEF ilclient_enable_port_buffers
<1>7. Text(Return(-1))
  BY TextSteps
<1> HIDE DEF yes
<1>8. Text(IfState(c, {Idle, Executing}, yes, Return(-1)))
  BY <1>5, <1>7, TextIfState
<1> QED
  BY <1>6, <1>7, <1>8, TextIfEnabled

LEMMA TextBegin ==
  ASSUME NEW i
  PROVE  Text(<<[do |-> "init client", k |-> i], [do |-> "OMX_Init"]>>)
<1> DEFINE f == [do |-> "init client", k |-> i]
           g == [do |-> "OMX_Init"]
<1>1. Text(<<f>>) /\ Text(<<g>>)
  BY TextOne DEF Branches
<1> HIDE DEF f, g
<1>2. <<f>> \o <<g>> = <<f, g>>
  BY TwoTogether
<1> QED
  BY <1>1, <1>2, TextConcat DEF f, g

LEMMA TextCreateVideo ==
  Text(CreateVideo)
<1> DEFINE p1 == <<[do |-> "init client", k |-> 0], [do |-> "OMX_Init"]>>
           p2 == p1 \o Insist
           p3 == p2 \o ilclient_create_component(video_decode)
           p4 == p3 \o Insist
           p5 == p4 \o ilclient_create_component(video_render)
           p6 == p5 \o Insist
           p7 == p6 \o ilclient_create_component(video_clock)
           p8 == p7 \o Insist
           p9 == p8 \o Configure(video_clock)
           p10 == p9 \o Insist
           p11 == p10 \o ilclient_create_component(video_scheduler)
           p12 == p11 \o Insist
<1>1. /\ Text(<<[do |-> "init client", k |-> 0], [do |-> "OMX_Init"]>>)
      /\ Text(Insist)
      /\ Text(ilclient_create_component(video_decode))
      /\ Text(ilclient_create_component(video_render))
      /\ Text(ilclient_create_component(video_clock))
      /\ Text(Configure(video_clock))
      /\ Text(ilclient_create_component(video_scheduler))
  BY TextSteps, TextBegin
<1>2. Text(p1) /\ Text(p2) /\ Text(p3)
  BY <1>1, TextConcat
<1> HIDE DEF p3
<1>3. Text(p4) /\ Text(p5) /\ Text(p6)
  BY <1>1, <1>2, TextConcat
<1> HIDE DEF p6
<1>4. Text(p7) /\ Text(p8) /\ Text(p9)
  BY <1>1, <1>3, TextConcat
<1> HIDE DEF p9
<1>5. Text(p10) /\ Text(p11) /\ Text(p12)
  BY <1>1, <1>4, TextConcat
<1>6. CreateVideo = p12
  BY DEF CreateVideo, p3, p6, p9
<1> QED
  BY <1>5, <1>6

LEMMA TextStartVideo ==
  Text(StartVideo)
<1> DEFINE p1 == ilclient_setup_tunnel(ClockTunnel, FALSE)
           p2 == p1 \o Insist
           p3 == p2 \o ilclient_change_component_state(video_clock, Executing)
           p4 == p3 \o Configure(video_render)
           p5 == p4 \o Insist
           p6 == p5 \o ilclient_change_component_state(video_decode, Idle)
           p7 == p6 \o Configure(video_decode)
           p8 == p7 \o Insist
           p9 == p8 \o ilclient_enable_port_buffers(video_decode, 130)
           p10 == p9 \o Insist
           p11 == p10 \o ilclient_change_component_state(video_decode, Executing)
<1>1. /\ Text(ilclient_setup_tunnel(ClockTunnel, FALSE))
      /\ Text(Insist)
      /\ Text(ilclient_change_component_state(video_clock, Executing))
      /\ Text(Configure(video_render))
      /\ Text(ilclient_change_component_state(video_decode, Idle))
      /\ Text(Configure(video_decode))
      /\ Text(ilclient_enable_port_buffers(video_decode, 130))
      /\ Text(ilclient_change_component_state(video_decode, Executing))
  BY TextSteps, TextChange, TextSetupTunnel, TextEnableBuffers
<1>2. Text(p1) /\ Text(p2) /\ Text(p3)
  BY <1>1, TextConcat
<1> HIDE DEF p3
<1>3. Text(p4) /\ Text(p5) /\ Text(p6)
  BY <1>1, <1>2, TextConcat
<1> HIDE DEF p6
<1>4. Text(p7) /\ Text(p8) /\ Text(p9)
  BY <1>1, <1>3, TextConcat
<1> HIDE DEF p9
<1>5. Text(p10) /\ Text(p11)
  BY <1>1, <1>4, TextConcat
<1>6. StartVideo = p11
  BY DEF StartVideo, p3, p6, p9
<1> QED
  BY <1>5, <1>6

LEMMA TextConnect ==
  Text(Connect)
<1> DEFINE p1 == ilclient_setup_tunnel(DecodeTunnel, FALSE)
           p2 == p1 \o Insist
           p3 == p2 \o ilclient_change_component_state(video_scheduler, Executing)
           p4 == p3 \o ilclient_setup_tunnel(RenderTunnel, TRUE)
           p5 == p4 \o Insist
           p6 == p5 \o ilclient_change_component_state(video_render, Executing)
<1>1. /\ Text(ilclient_setup_tunnel(DecodeTunnel, FALSE))
      /\ Text(Insist)
      /\ Text(ilclient_change_component_state(video_scheduler, Executing))
      /\ Text(ilclient_setup_tunnel(RenderTunnel, TRUE))
      /\ Text(ilclient_change_component_state(video_render, Executing))
  BY TextSteps, TextChange, TextSetupTunnel
<1>2. Text(p1) /\ Text(p2) /\ Text(p3)
  BY <1>1, TextConcat
<1> HIDE DEF p3
<1>3. Text(p4) /\ Text(p5) /\ Text(p6)
  BY <1>1, <1>2, TextConcat
<1>4. Connect = p6
  BY DEF Connect, p3
<1> QED
  BY <1>3, <1>4

LEMMA TextCreateAudio ==
  ASSUME NEW i
  PROVE  Text(CreateAudio(i))
<1> DEFINE p1 == <<[do |-> "init client", k |-> i], [do |-> "OMX_Init"]>>
           p2 == p1 \o Insist
           p3 == p2 \o ilclient_create_component(audio_render(i))
           p4 == p3 \o Insist
           p5 == p4 \o ilclient_create_component(clock(i))
           p6 == p5 \o Insist
           p7 == p6 \o Configure(clock(i))
           p8 == p7 \o Insist
<1>1. /\ Text(<<[do |-> "init client", k |-> i], [do |-> "OMX_Init"]>>)
      /\ Text(Insist)
      /\ Text(ilclient_create_component(audio_render(i)))
      /\ Text(ilclient_create_component(clock(i)))
      /\ Text(Configure(clock(i)))
  BY TextSteps, TextBegin
<1>2. Text(p1) /\ Text(p2) /\ Text(p3)
  BY <1>1, TextConcat
<1> HIDE DEF p3
<1>3. Text(p4) /\ Text(p5) /\ Text(p6)
  BY <1>1, <1>2, TextConcat
<1> HIDE DEF p6
<1>4. Text(p7) /\ Text(p8)
  BY <1>1, <1>3, TextConcat
<1>5. CreateAudio(i) = p8
  BY DEF CreateAudio, p3, p6
<1> QED
  BY <1>4, <1>5

LEMMA TextConnectClock ==
  ASSUME NEW i
  PROVE  Text(ConnectClock(i))
<1> DEFINE p1 == ilclient_setup_tunnel(AudioTunnel(i), FALSE)
           p2 == p1 \o Insist
           p3 == p2 \o ilclient_change_component_state(clock(i), Executing)
<1>1. /\ Text(ilclient_setup_tunnel(AudioTunnel(i), FALSE))
      /\ Text(Insist)
      /\ Text(ilclient_change_component_state(clock(i), Executing))
  BY TextSteps, TextChange, TextSetupTunnel
<1>2. Text(p1) /\ Text(p2) /\ Text(p3)
  BY <1>1, TextConcat
<1>3. ConnectClock(i) = p3
  BY DEF ConnectClock
<1> QED
  BY <1>2, <1>3

LEMMA TextConfigureRender ==
  ASSUME NEW i
  PROVE  Text(ConfigureRender(i))
<1> DEFINE p1 == Configure(audio_render(i))
           p2 == p1 \o Insist
           p3 == p2 \o Configure(audio_render(i))
           p4 == p3 \o Insist
           p5 == p4 \o Configure(audio_render(i))
           p6 == p5 \o Insist
<1>1. /\ Text(Configure(audio_render(i)))
      /\ Text(Insist)
  BY TextSteps
<1>2. Text(p1) /\ Text(p2) /\ Text(p3)
  BY <1>1, TextConcat
<1> HIDE DEF p3
<1>3. Text(p4) /\ Text(p5) /\ Text(p6)
  BY <1>1, <1>2, TextConcat
<1>4. ConfigureRender(i) = p6
  BY DEF ConfigureRender, p3
<1> QED
  BY <1>3, <1>4

LEMMA TextCleanup ==
  ASSUME NEW c
  PROVE  Text(ilclient_cleanup_components(c))
<1> DEFINE f == [do |-> "return events", c |-> c]
           g == [do |-> "free handle", c |-> c]
<1>1. Text(<<f>>) /\ Text(<<g>>)
  BY TextOne DEF Branches
<1> HIDE DEF f, g
<1>2. <<f>> \o <<g>> = <<f, g>>
  BY TwoTogether
<1> QED
  BY <1>1, <1>2, TextConcat DEF f, g, ilclient_cleanup_components

LEMMA TextEnd ==
  ASSUME NEW i
  PROVE  Text(<<[do |-> "OMX_Deinit"], [do |-> "destroy client", k |-> i]>>)
<1> DEFINE f == [do |-> "OMX_Deinit"]
           g == [do |-> "destroy client", k |-> i]
<1>1. Text(<<f>>) /\ Text(<<g>>)
  BY TextOne DEF Branches
<1> HIDE DEF f, g
<1>2. <<f>> \o <<g>> = <<f, g>>
  BY TwoTogether
<1> QED
  BY <1>1, <1>2, TextConcat DEF f, g

LEMMA TextGiveUp ==
  ASSUME NEW i
  PROVE  Text(GiveUp(i))
<1> DEFINE p1 == ilclient_change_component_state(audio_render(i), Loaded)
           p2 == p1 \o ilclient_cleanup_components(audio_render(i))
           p3 == p2 \o ilclient_cleanup_components(clock(i))
           p4 == p3 \o <<[do |-> "OMX_Deinit"], [do |-> "destroy client", k |-> i]>>
           p5 == p4 \o Return(-1)
<1>1. /\ Text(ilclient_change_component_state(audio_render(i), Loaded))
      /\ Text(ilclient_cleanup_components(audio_render(i)))
      /\ Text(ilclient_cleanup_components(clock(i)))
      /\ Text(<<[do |-> "OMX_Deinit"], [do |-> "destroy client", k |-> i]>>)
      /\ Text(Return(-1))
  BY TextSteps, TextChange, TextCleanup, TextEnd
<1>2. Text(p1) /\ Text(p2) /\ Text(p3)
  BY <1>1, TextConcat
<1> HIDE DEF p3
<1>3. Text(p4) /\ Text(p5)
  BY <1>1, <1>2, TextConcat
<1>4. GiveUp(i) = p5
  BY DEF GiveUp, p3
<1> QED
  BY <1>3, <1>4

LEMMA TextEnableAudio ==
  ASSUME NEW i
  PROVE  Text(EnableAudio(i))
<1> DEFINE yes == ilclient_change_component_state(audio_render(i), Executing) \o Return(0)
           no == GiveUp(i)
           last == IfReturned(0, yes, no)
           idle == ilclient_change_component_state(audio_render(i), Idle)
           fuel == ilclient_enable_port_buffers(audio_render(i), 100)
<1>1. Text(yes) /\ Text(no) /\ Text(idle) /\ Text(fuel)
  <2>1. Text(ilclient_change_component_state(audio_render(i), Executing)) /\ Text(Return(0))
    BY TextChange, TextSteps
  <2> QED
    BY <2>1, TextConcat, TextChange, TextGiveUp, TextEnableBuffers
<1>2. EnableAudio(i) = (idle \o fuel) \o last
  BY DEF EnableAudio
<1> HIDE DEF yes, no, idle, fuel
<1>3. Text(last)
  BY <1>1, TextIfReturned
<1>4. Text(idle \o fuel)
  BY <1>1, TextConcat
<1> QED
  BY <1>2, <1>3, <1>4, TextConcat

LEMMA TextCreate ==
  ASSUME NEW i
  PROVE  Text(audioplay_create(i))
<1> DEFINE p1 == CreateAudio(i)
           p2 == p1 \o ConnectClock(i)
           p3 == p2 \o ConfigureRender(i)
           p4 == p3 \o EnableAudio(i)
<1>1. /\ Text(CreateAudio(i))
      /\ Text(ConnectClock(i))
      /\ Text(ConfigureRender(i))
      /\ Text(EnableAudio(i))
  BY TextCreateAudio, TextConnectClock, TextConfigureRender, TextEnableAudio
<1>2. Text(p1) /\ Text(p2) /\ Text(p3)
  BY <1>1, TextConcat
<1> HIDE DEF p3
<1>3. Text(p4)
  BY <1>1, <1>2, TextConcat
<1>4. audioplay_create(i) = p4
  BY DEF audioplay_create, p3
<1> QED
  BY <1>3, <1>4

LEMMA TextSetDest ==
  ASSUME NEW i
  PROVE  Text(audioplay_set_dest(i))
<1> DEFINE p1 == Configure(audio_render(i))
           p2 == p1 \o Insist
           p3 == p2 \o Return(0)
<1>1. /\ Text(Configure(audio_render(i)))
      /\ Text(Insist)
      /\ Text(Return(0))
  BY TextSteps
<1>2. Text(p1) /\ Text(p2) /\ Text(p3)
  BY <1>1, TextConcat
<1>3. audioplay_set_dest(i) = p3
  BY DEF audioplay_set_dest
<1> QED
  BY <1>2, <1>3

LEMMA TextAudio ==
  ASSUME NEW i
  PROVE  Text(sx_audio_sink_init(i))
<1> DEFINE p1 == audioplay_create(i)
           p2 == p1 \o Insist
           p3 == p2 \o audioplay_set_dest(i)
           p4 == p3 \o Insist
<1>1. /\ Text(audioplay_create(i))
      /\ Text(Insist)
      /\ Text(audioplay_set_dest(i))
  BY TextSteps, TextCreate, TextSetDest
<1>2. Text(p1) /\ Text(p2) /\ Text(p3)
  BY <1>1, TextConcat
<1> HIDE DEF p3
<1>3. Text(p4)
  BY <1>1, <1>2, TextConcat
<1>4. sx_audio_sink_init(i) = p4
  BY DEF sx_audio_sink_init, p3
<1> QED
  BY <1>3, <1>4

LEMMA TextVideo ==
  Text(sx_video_sink_init)
<1> DEFINE p1 == CreateVideo
           p2 == p1 \o StartVideo
<1>1. /\ Text(CreateVideo)
      /\ Text(StartVideo)
  BY TextCreateVideo, TextStartVideo
<1>2. Text(p1) /\ Text(p2)
  BY <1>1, TextConcat
<1>3. sx_video_sink_init = p2
  BY DEF sx_video_sink_init
<1> QED
  BY <1>2, <1>3

LEMMA TextBody ==
  ASSUME NEW f \in CallNames
  PROVE  Text(Body(f))
<1>1. Body("sx_mgmt_video_scheduler_init") = sx_video_sink_init
  BY DEF Body, sx_mgmt_video_scheduler_init
<1>2. Body("sx_mgmt_audio_decoder_init") = sx_audio_sink_init(1)
  BY DEF Body, sx_mgmt_audio_decoder_init
<1>3. Body("sx_mgmt_audio_scheduler_init") = sx_audio_sink_init(2)
  BY DEF Body, sx_mgmt_audio_scheduler_init
<1> QED
  BY <1>1, <1>2, <1>3, TextVideo, TextAudio DEF CallNames

LEMMA TextMain == Text(main)
<1> DEFINE c1 == [do |-> "call", f |-> "sx_mgmt_video_scheduler_init"]
           c2 == [do |-> "call", f |-> "sx_mgmt_audio_decoder_init"]
           c3 == [do |-> "call", f |-> "sx_mgmt_audio_scheduler_init"]
<1>1. Text(<<c1>>) /\ Text(<<c2>>) /\ Text(<<c3>>) /\ Text(<<Present>>)
  BY TextOne DEF Branches, CallNames, Present
<1>2. main = <<c1, c2, c3>> \o <<Present>>
  BY DEF main, mgmt_sys_init, mgmt_sys_open, Present
<1> HIDE DEF c1, c2, c3
<1>3. <<c1>> \o <<c2>> = <<c1, c2>>
  BY TwoTogether
<1>4. <<c1, c2>> \o <<c3>> = <<c1, c2, c3>>
  BY ThreeTogether
<1>5. Text(<<c1, c2>>)
  BY <1>1, <1>3, TextConcat
<1>6. Text(<<c1, c2>> \o <<c3>>)
  BY <1>1, <1>5, TextConcat
<1> QED
  BY <1>1, <1>2, <1>4, <1>6, TextConcat

(* What a sleeping drain does when it wakes.                               *)
LEMMA TextDrainWoken ==
  ASSUME NEW f, f = Drain(f.c, f.n, f.num), NEW num
  PROVE  Text(DrainWoken(f, num))
<1> DEFINE g == Drain(f.c, f.n, num)
<1>1. Again(f, num) = <<g>>
  BY DEF Again, Drain
<1>2. Text(<<g>>)
  BY TextOne DEF Branches, Drain
<1> DEFINE a == Again(f, num)
<1>3. Text(a)
  BY <1>1, <1>2
<1> HIDE DEF a
<1>4. Text(RemoveEvent(f.c, Complete("PortDisable", f.n)) \o IfReturned(0, <<>>, a))
  BY <1>3, TextSteps, TextNothing, TextIfReturned, TextConcat
<1> DEFINE b == Answered(f, num)
<1>5. Text(b)
  BY <1>3, <1>4, TextIfGot DEF Answered, a
<1> HIDE DEF b
<1>6. Text(RemoveEvent(f.c, CommandError) \o IfReturned(0, <<>>, b))
  BY <1>5, TextSteps, TextNothing, TextIfReturned, TextConcat
<1> QED
  BY <1>5, <1>6, TextIfGot DEF DrainWoken, b

LEMMA TextAllPorts ==
  ASSUME NEW c \in Comps
  PROVE  Text(FlattenSeq([i \in DOMAIN PortsOf(c) |-> ilclient_disable_port(c, PortsOf(c)[i])]))
BY TextAllOff DEF AllOff

(* What may be on the list of a component: events that nobody caused, and  *)
(* the events that end a command.                                          *)
Told(cmd, n) == Event("CmdComplete", cmd, n)
SameStateError == Event("Error", "SameState", 1)
Refusal        == Event("Error", "InsufficientResources", 1)
Unpopulated    == Event("Error", "PortUnpopulated", 0)
Corrupt        == Event("Error", "StreamCorrupt", 0)
NewSettings(n) == Event("PortSettingsChanged", "", n)
Harmless(c) ==
  IF c = video_decode THEN {NewSettings(131), Corrupt}
  ELSE IF c = video_scheduler THEN {NewSettings(11)} ELSE {}
EventsOf(c) ==
  Harmless(c) \cup {SameStateError, Refusal, Unpopulated}
  \cup {Told("StateSet", Loaded), Told("StateSet", Idle), Told("StateSet", Executing)}
  \cup {Told("PortEnable", n) : n \in ToSet(PortsOf(c))}
  \cup {Told("PortDisable", n) : n \in ToSet(PortsOf(c))}

Sees(s, Y) == \E i \in 1 .. Len(s) : s[i] \in Y
Clean(s, c) == \A i \in 1 .. Len(s) : s[i] \in Harmless(c)
One(s, c, Y) ==
  \E i \in 1 .. Len(s) :
    s[i] \in Y /\ \A j \in 1 .. Len(s) : j # i => s[j] \in Harmless(c)

LEMMA FindIs ==
  ASSUME NEW c, NEW Y, NEW T, events[c] \in Seq(T)
  PROVE  /\ Find(c, Y) \in 0 .. Len(events[c]) /\ Len(events[c]) \in Nat
         /\ Find(c, Y) # 0 => Find(c, Y) \in 1 .. Len(events[c]) /\ events[c][Find(c, Y)] \in Y
         /\ Find(c, Y) # 0 <=> Sees(events[c], Y)
<1> DEFINE s == events[c]
           I == {i \in 1 .. Len(s) : s[i] \in Y}
           i == Find(c, Y)
<1>1. Len(s) \in Nat
  BY LenProperties
<1>2. i = IF I # {} THEN Min(I) ELSE 0
  BY DEF Find, SelectInSeq
<1>3. I # {} <=> Sees(s, Y)
  BY DEF Sees
<1>4. CASE I = {}
  <2> HIDE DEF s, i
  <2> QED
    BY <1>1, <1>2, <1>3, <1>4 DEF s, i
<1>5. CASE I # {}
  <2>1. I \in SUBSET Nat
    BY <1>1
  <2>2. PICK m \in I : \A k \in I : m <= k
    BY <1>5, <2>1, LeastNumber
  <2>3. i \in I
    <3> HIDE DEF I
    <3> QED
      BY <1>2, <1>5, <2>2 DEF Min
  <2> HIDE DEF i
  <2>4. i \in 1 .. Len(s) /\ s[i] \in Y /\ i # 0 /\ i \in 0 .. Len(s)
    BY <1>1, <2>3
  <2> QED
    BY <1>1, <1>3, <1>5, <2>4 DEF i, s
<1> QED
  BY <1>4, <1>5

LEMMA Removed ==
  ASSUME NEW T, NEW s \in Seq(T), NEW i \in 1 .. Len(s)
  PROVE  /\ RemoveAt(s, i) \in Seq(T) /\ Len(RemoveAt(s, i)) = Len(s) - 1 /\ Len(s) \in Nat
         /\ \A j \in 1 .. Len(s) - 1 :
              RemoveAt(s, i)[j] = IF j < i THEN s[j] ELSE s[j + 1]
<1> DEFINE a == SubSeq(s, 1, i - 1)
           b == SubSeq(s, i + 1, Len(s))
<1>0. Len(s) \in Nat /\ \A j \in 1 .. Len(s) : s[j] \in T
  BY LenProperties, ElementOfSeq
<1>1. /\ a \in Seq(T) /\ Len(a) = i - 1 /\ \A j \in 1 .. i - 1 : a[j] = s[j]
  <2>1. \A j \in 1 .. i - 1 : s[j] \in T
    BY <1>0
  <2>2. 1 \in 1 .. Len(s) + 1 /\ i - 1 \in 0 .. Len(s)
    BY <1>0
  <2>3. /\ a \in Seq(T) /\ Len(a) = IF 1 <= i - 1 THEN (i - 1) - 1 + 1 ELSE 0
        /\ \A j \in 1 .. (i - 1) - 1 + 1 : a[j] = s[1 + j - 1]
    BY <2>2, SubSeqProperties
  <2> QED
    BY <1>0, <2>3
<1>2. /\ b \in Seq(T) /\ Len(b) = Len(s) - i
      /\ \A j \in 1 .. Len(s) - i : b[j] = s[i + j]
  <2>1. i + 1 \in 1 .. Len(s) + 1 /\ Len(s) \in 0 .. Len(s)
    BY <1>0
  <2>2. /\ b \in Seq(T) /\ Len(b) = IF i + 1 <= Len(s) THEN Len(s) - (i + 1) + 1 ELSE 0
        /\ \A j \in 1 .. Len(s) - (i + 1) + 1 : b[j] = s[(i + 1) + j - 1]
    BY <2>1, SubSeqProperties
  <2> QED
    BY <1>0, <2>2
<1> HIDE DEF a, b
<1>3. /\ a \o b \in Seq(T) /\ Len(a \o b) = Len(a) + Len(b)
      /\ \A j \in 1 .. Len(a) + Len(b) : (a \o b)[j] = IF j <= Len(a) THEN a[j] ELSE b[j - Len(a)]
  BY <1>1, <1>2, ConcatProperties
<1> DEFINE t == a \o b
<1>4. RemoveAt(s, i) = t
  BY DEF RemoveAt, a, b
<1>5. t \in Seq(T) /\ Len(t) = Len(s) - 1
  BY <1>0, <1>1, <1>2, <1>3
<1>6. ASSUME NEW j \in 1 .. Len(s) - 1
      PROVE  t[j] = IF j < i THEN s[j] ELSE s[j + 1]
  <2>1. t[j] = IF j <= Len(a) THEN a[j] ELSE b[j - Len(a)]
    BY <1>0, <1>1, <1>2, <1>3
  <2>2. CASE j < i
    <3>1. j \in 1 .. i - 1 /\ j <= Len(a)
      BY <1>0, <1>1, <2>2
    <3> QED
      BY <1>1, <2>1, <2>2, <3>1
  <2>3. CASE ~(j < i)
    <3>1. j - Len(a) \in 1 .. Len(s) - i /\ ~(j <= Len(a)) /\ i + (j - Len(a)) = j + 1
      BY <1>0, <1>1, <2>3
    <3> QED
      BY <1>2, <2>1, <2>3, <3>1
  <2> QED
    BY <2>2, <2>3
<1> HIDE DEF t
<1> QED
  BY <1>0, <1>4, <1>5, <1>6

(* Taking the one event that matters off the list leaves the others.       *)
LEMMA OneRemoved ==
  ASSUME NEW c, NEW T, NEW s \in Seq(T), NEW Y, One(s, c, Y), NEW i \in 1 .. Len(s),
         s[i] \notin Harmless(c)
  PROVE  s[i] \in Y /\ Clean(RemoveAt(s, i), c)
<1>1. PICK m \in 1 .. Len(s) : s[m] \in Y /\ \A j \in 1 .. Len(s) : j # m => s[j] \in Harmless(c)
  BY DEF One
<1>2. m = i
  BY <1>1
<1>3. \A j \in 1 .. Len(s) : j # i => s[j] \in Harmless(c)
  BY <1>1, <1>2
<1>4. ASSUME NEW j \in 1 .. Len(RemoveAt(s, i)) PROVE RemoveAt(s, i)[j] \in Harmless(c)
  <2>1. /\ j \in 1 .. Len(s) - 1 /\ Len(s) \in Nat
        /\ RemoveAt(s, i)[j] = IF j < i THEN s[j] ELSE s[j + 1]
    BY Removed
  <2>2. j \in 1 .. Len(s) /\ j + 1 \in 1 .. Len(s) /\ (j < i => j # i) /\ (~(j < i) => j + 1 # i)
    BY <2>1
  <2> QED
    BY <1>3, <2>1, <2>2
<1> QED
  BY <1>1, <1>2, <1>4 DEF Clean

LEMMA CleanRemoved ==
  ASSUME NEW c, NEW T, NEW s \in Seq(T), Clean(s, c), NEW i \in 1 .. Len(s)
  PROVE  Clean(RemoveAt(s, i), c)
<1>1. ASSUME NEW j \in 1 .. Len(RemoveAt(s, i)) PROVE RemoveAt(s, i)[j] \in Harmless(c)
  <2>1. /\ j \in 1 .. Len(s) - 1 /\ Len(s) \in Nat
        /\ RemoveAt(s, i)[j] = IF j < i THEN s[j] ELSE s[j + 1]
    BY Removed
  <2>2. j \in 1 .. Len(s) /\ j + 1 \in 1 .. Len(s)
    BY <2>1
  <2> QED
    BY <2>1, <2>2 DEF Clean
<1> QED
  BY <1>1 DEF Clean

LEMMA CleanSees ==
  ASSUME NEW c, NEW s, Clean(s, c), NEW Y, Y \cap Harmless(c) = {}
  PROVE  ~ Sees(s, Y)
BY DEF Clean, Sees

(* The handler first throws away what is on the list twice.                *)
LEMMA UniqueClean ==
  ASSUME NEW c, NEW T, NEW s \in Seq(T), Clean(s, c)
  PROVE  Clean(Unique(s), c)
<1>1. \A x : Contains(Unique(s), x) <=> Contains(s, x)
  BY UniqueFacts
<1>2. ASSUME NEW j \in 1 .. Len(Unique(s)) PROVE Unique(s)[j] \in Harmless(c)
  <2>1. Contains(Unique(s), Unique(s)[j])
    BY ContainsIs
  <2>2. PICK m \in 1 .. Len(s) : s[m] = Unique(s)[j]
    BY <1>1, <2>1, ContainsIs
  <2> QED
    BY <2>2 DEF Clean
<1> QED
  BY <1>2 DEF Clean

LEMMA UniqueSees ==
  ASSUME NEW T, NEW s \in Seq(T), NEW Y
  PROVE  Sees(Unique(s), Y) <=> Sees(s, Y)
<1>1. \A x : Contains(Unique(s), x) <=> Contains(s, x)
  BY UniqueFacts
<1>2. \A u : Sees(u, Y) <=> \E x \in Y : Contains(u, x)
  BY ContainsIs DEF Sees
<1> QED
  BY <1>1, <1>2

LEMMA UniqueOne ==
  ASSUME NEW c, NEW T, NEW s \in Seq(T), NEW Y, One(s, c, Y)
  PROVE  One(Unique(s), c, Y)
<1> DEFINE u == Unique(s)
<1>1. /\ u \in Seq(T) /\ Distinct(u)
      /\ \A x : Contains(u, x) <=> Contains(s, x)
  BY UniqueFacts
<1> HIDE DEF u
<1>2. PICK m \in 1 .. Len(s) : s[m] \in Y /\ \A j \in 1 .. Len(s) : j # m => s[j] \in Harmless(c)
  BY DEF One
<1>3. PICK i \in 1 .. Len(u) : u[i] = s[m]
  <2>1. Contains(s, s[m])
    BY ContainsIs
  <2> QED
    BY <1>1, <2>1, ContainsIs
<1>4. ASSUME NEW j \in 1 .. Len(u), j # i PROVE u[j] \in Harmless(c)
  <2>1. PICK h \in 1 .. Len(s) : s[h] = u[j]
    <3>1. Contains(u, u[j])
      BY ContainsIs
    <3> QED
      BY <1>1, <3>1, ContainsIs
  <2>2. u[j] # u[i]
    BY <1>1, <1>4 DEF Distinct
  <2> QED
    BY <1>2, <1>3, <2>1, <2>2
<1>5. One(u, c, Y)
  BY <1>2, <1>3, <1>4 DEF One
<1> QED
  BY <1>5 DEF u

(* Then it puts the new event in front.                                    *)
LEMMA Pushed ==
  ASSUME NEW T, NEW s \in Seq(T), NEW x \in T
  PROVE  /\ <<x>> \o s \in Seq(T) /\ Len(<<x>> \o s) = Len(s) + 1 /\ Len(s) \in Nat
         /\ (<<x>> \o s)[1] = x /\ \A i \in 1 .. Len(s) : (<<x>> \o s)[i + 1] = s[i]
         /\ \A i \in 1 .. Len(<<x>> \o s) :
              i = 1 \/ (i - 1 \in 1 .. Len(s) /\ (<<x>> \o s)[i] = s[i - 1])
<1>1. <<x>> \in Seq(T) /\ Len(<<x>>) = 1 /\ <<x>>[1] = x
  OBVIOUS
<1>2. /\ <<x>> \o s \in Seq(T) /\ Len(<<x>> \o s) = 1 + Len(s) /\ Len(s) \in Nat
      /\ \A i \in 1 .. 1 + Len(s) : (<<x>> \o s)[i] = IF i <= 1 THEN <<x>>[i] ELSE s[i - 1]
  BY <1>1, ConcatProperties, LenProperties
<1> DEFINE t == <<x>> \o s
<1>3. t[1] = x
  BY <1>1, <1>2
<1>4. ASSUME NEW i \in 1 .. Len(s) PROVE t[i + 1] = s[i]
  <2>1. i + 1 \in 1 .. 1 + Len(s) /\ ~(i + 1 <= 1) /\ (i + 1) - 1 = i
    BY <1>2
  <2> QED
    BY <1>2, <2>1
<1>5. ASSUME NEW i \in 1 .. Len(t), i # 1 PROVE i - 1 \in 1 .. Len(s) /\ t[i] = s[i - 1]
  <2>1. i \in 1 .. 1 + Len(s) /\ ~(i <= 1) /\ i - 1 \in 1 .. Len(s)
    BY <1>2, <1>5
  <2> QED
    BY <1>2, <2>1
<1>6. t \in Seq(T) /\ Len(t) = Len(s) + 1 /\ Len(s) \in Nat
  BY <1>2
<1> HIDE DEF t
<1>7. \A i \in 1 .. Len(t) : i = 1 \/ (i - 1 \in 1 .. Len(s) /\ t[i] = s[i - 1])
  BY <1>5
<1>8. \A i \in 1 .. Len(s) : t[i + 1] = s[i]
  BY <1>4
<1> QED
  BY <1>3, <1>6, <1>7, <1>8 DEF t

LEMMA PushClean ==
  ASSUME NEW c, NEW T, NEW s \in Seq(T), NEW x \in T, Clean(s, c), x \in Harmless(c)
  PROVE  Clean(<<x>> \o s, c)
<1> DEFINE t == <<x>> \o s
<1>1. t[1] = x /\ \A i \in 1 .. Len(t) : i = 1 \/ (i - 1 \in 1 .. Len(s) /\ t[i] = s[i - 1])
  BY Pushed
<1> HIDE DEF t
<1>2. Clean(t, c)
  BY <1>1 DEF Clean
<1> QED
  BY <1>2 DEF t

LEMMA PushOne ==
  ASSUME NEW c, NEW T, NEW s \in Seq(T), NEW x \in T, Clean(s, c), NEW Y, x \in Y
  PROVE  One(<<x>> \o s, c, Y)
<1> DEFINE t == <<x>> \o s
<1>1. /\ t[1] = x /\ \A i \in 1 .. Len(t) : i = 1 \/ (i - 1 \in 1 .. Len(s) /\ t[i] = s[i - 1])
      /\ Len(t) = Len(s) + 1 /\ Len(s) \in Nat
  BY Pushed
<1> HIDE DEF t
<1>2. 1 \in 1 .. Len(t)
  BY <1>1
<1>3. One(t, c, Y)
  BY <1>1, <1>2 DEF Clean, One
<1> QED
  BY <1>3 DEF t

LEMMA PushHarmless ==
  ASSUME NEW c, NEW T, NEW s \in Seq(T), NEW x \in T, NEW Y, One(s, c, Y), x \in Harmless(c)
  PROVE  One(<<x>> \o s, c, Y)
<1> DEFINE t == <<x>> \o s
<1>1. /\ t[1] = x /\ \A i \in 1 .. Len(t) : i = 1 \/ (i - 1 \in 1 .. Len(s) /\ t[i] = s[i - 1])
      /\ Len(t) = Len(s) + 1 /\ Len(s) \in Nat
      /\ \A i \in 1 .. Len(s) : t[i + 1] = s[i]
  BY Pushed
<1> HIDE DEF t
<1>2. PICK m \in 1 .. Len(s) : s[m] \in Y /\ \A j \in 1 .. Len(s) : j # m => s[j] \in Harmless(c)
  BY DEF One
<1>3. m + 1 \in 1 .. Len(t) /\ t[m + 1] \in Y
  BY <1>1, <1>2
<1>4. ASSUME NEW j \in 1 .. Len(t), j # m + 1 PROVE t[j] \in Harmless(c)
  <2>1. CASE j = 1
    BY <1>1, <2>1
  <2>2. CASE j # 1
    <3>1. j - 1 \in 1 .. Len(s) /\ t[j] = s[j - 1] /\ j - 1 # m
      BY <1>1, <1>4, <2>2
    <3> QED
      BY <1>2, <3>1
  <2> QED
    BY <2>1, <2>2
<1>5. One(t, c, Y)
  BY <1>3, <1>4 DEF One
<1> QED
  BY <1>5 DEF t

LEMMA PushSees ==
  ASSUME NEW T, NEW s \in Seq(T), NEW x \in T, NEW Y
  PROVE  Sees(<<x>> \o s, Y) <=> x \in Y \/ Sees(s, Y)
<1> DEFINE t == <<x>> \o s
<1>1. /\ t[1] = x /\ \A i \in 1 .. Len(t) : i = 1 \/ (i - 1 \in 1 .. Len(s) /\ t[i] = s[i - 1])
      /\ Len(t) = Len(s) + 1 /\ Len(s) \in Nat
      /\ \A i \in 1 .. Len(s) : t[i + 1] = s[i]
  BY Pushed
<1> HIDE DEF t
<1>2. 1 \in 1 .. Len(t) /\ \A i \in 1 .. Len(s) : i + 1 \in 1 .. Len(t)
  BY <1>1
<1>3. Sees(t, Y) <=> x \in Y \/ Sees(s, Y)
  BY <1>1, <1>2 DEF Sees
<1> QED
  BY <1>3 DEF t

(* The structures of one client that are on the lists of its components.   *)
Entries(ev, D) == UNION {{d} \X DOMAIN ev[d] : d \in D}
OfOwner(k) == {d \in Comps : Owner(d) = k}
Few(ev) ==
  /\ ev = [c \in Comps |-> ev[c]]
  /\ \A c \in Comps : ev[c] \in Seq(EventsOf(c)) /\ Len(ev[c]) <= 16
Spares(ev, clients) ==
  [k \in Clients |->
     IF k \in clients THEN NumEvents - Cardinality(Entries(ev, OfOwner(k))) ELSE 0]

LEMMA CountOne ==
  ASSUME NEW S, NEW x, NEW n \in Nat, IsFiniteSet(S), Cardinality(S) <= n
  PROVE  IsFiniteSet(S \cup {x}) /\ Cardinality(S \cup {x}) <= n + 1
<1>1. Cardinality(S) \in Nat
  BY FS_CardinalityType
<1> QED
  BY <1>1, FS_AddElement

LEMMA CountThree ==
  ASSUME NEW a, NEW b, NEW c, NEW S, S \subseteq {a, b, c}
  PROVE  IsFiniteSet(S) /\ Cardinality(S) \in Nat /\ Cardinality(S) <= 3
<1>1. IsFiniteSet({}) /\ Cardinality({}) <= 0
  BY FS_EmptySet
<1>2. IsFiniteSet({} \cup {a}) /\ Cardinality({} \cup {a}) <= 0 + 1
  BY <1>1, CountOne
<1>3. IsFiniteSet({a} \cup {b}) /\ Cardinality({a} \cup {b}) <= 1 + 1
  <2>1. {} \cup {a} = {a}
    OBVIOUS
  <2>2. IsFiniteSet({a}) /\ Cardinality({a}) <= 1
    BY <1>2, <2>1
  <2> QED
    BY <2>2, CountOne
<1>4. IsFiniteSet({a, b} \cup {c}) /\ Cardinality({a, b} \cup {c}) <= 2 + 1
  <2>1. {a} \cup {b} = {a, b}
    OBVIOUS
  <2>2. IsFiniteSet({a, b}) /\ Cardinality({a, b}) <= 2
    BY <1>3, <2>1
  <2> QED
    BY <2>2, CountOne
<1>5. {a, b} \cup {c} = {a, b, c}
  OBVIOUS
<1>6. IsFiniteSet({a, b, c}) /\ Cardinality({a, b, c}) <= 3 /\ S \in SUBSET {a, b, c}
  BY <1>4, <1>5
<1>7. IsFiniteSet(S) /\ Cardinality(S) <= Cardinality({a, b, c})
  BY <1>6, FS_Subset
<1> QED
  BY <1>6, <1>7, FS_CardinalityType

LEMMA CountUnion ==
  ASSUME NEW S, NEW T, NEW m \in Nat, NEW n \in Nat, IsFiniteSet(S), IsFiniteSet(T),
         Cardinality(S) <= m, Cardinality(T) <= n
  PROVE  IsFiniteSet(S \cup T) /\ Cardinality(S \cup T) <= m + n
<1>1. /\ Cardinality(S) \in Nat /\ Cardinality(T) \in Nat
      /\ IsFiniteSet(S \cap T)
  BY FS_CardinalityType, FS_Intersection
<1>2. Cardinality(S \cap T) \in Nat
  BY <1>1, FS_CardinalityType
<1>3. /\ IsFiniteSet(S \cup T)
      /\ Cardinality(S \cup T) = Cardinality(S) + Cardinality(T) - Cardinality(S \cap T)
  BY FS_Union
<1> QED
  BY <1>1, <1>2, <1>3

LEMMA ThreePorts ==
  ASSUME NEW c \in Comps
  PROVE  \E n1, n2, n3 : ToSet(PortsOf(c)) \subseteq {n1, n2, n3}
<1>1. c[1] \in {"video_decode", "video_render", "video_scheduler", "clock", "audio_render"}
  BY ComponentsAssumption DEF Components, video_decode, video_render, video_scheduler, video_clock,
     audio_render, clock
<1>2. CASE c[1] = "video_decode" \/ c[1] = "audio_render"
  <2>1. PICK n1, n2 : PortsOf(c) = <<n1, n2>>
    BY <1>2 DEF PortsOf
  <2>2. ToSet(PortsOf(c)) = {n1, n2}
    BY <2>1 DEF ToSet
  <2> QED
    BY <2>2
<1>3. CASE c[1] = "video_render" \/ c[1] = "clock"
  <2>1. PICK n1 : PortsOf(c) = <<n1>>
    BY <1>3 DEF PortsOf
  <2>2. ToSet(PortsOf(c)) = {n1}
    BY <2>1 DEF ToSet
  <2> QED
    BY <2>2
<1>4. CASE c[1] = "video_scheduler"
  <2>1. PICK n1, n2, n3 : PortsOf(c) = <<n1, n2, n3>>
    BY <1>4 DEF PortsOf
  <2>2. ToSet(PortsOf(c)) = {n1, n2, n3}
    BY <2>1 DEF ToSet
  <2> QED
    BY <2>2
<1> QED
  BY <1>1, <1>2, <1>3, <1>4

LEMMA CountEvents ==
  ASSUME NEW c \in Comps
  PROVE  IsFiniteSet(EventsOf(c)) /\ Cardinality(EventsOf(c)) <= 15
<1>1. PICK n1, n2, n3 : ToSet(PortsOf(c)) \subseteq {n1, n2, n3}
  BY ThreePorts
<1> DEFINE A == Harmless(c)
           B == {SameStateError, Refusal, Unpopulated}
           C == {Told("StateSet", Loaded), Told("StateSet", Idle), Told("StateSet", Executing)}
           D == {Told("PortEnable", n) : n \in ToSet(PortsOf(c))}
           E == {Told("PortDisable", n) : n \in ToSet(PortsOf(c))}
<1>2. A \subseteq {NewSettings(131), Corrupt, NewSettings(11)}
  BY DEF Harmless
<1>3. D \subseteq {Told("PortEnable", n1), Told("PortEnable", n2), Told("PortEnable", n3)}
  BY <1>1
<1>4. E \subseteq {Told("PortDisable", n1), Told("PortDisable", n2), Told("PortDisable", n3)}
  BY <1>1
<1>5. EventsOf(c) = (((A \cup B) \cup C) \cup D) \cup E
  BY DEF EventsOf
<1> HIDE DEF A, D, E
<1>6. /\ IsFiniteSet(A) /\ Cardinality(A) <= 3
      /\ IsFiniteSet(B) /\ Cardinality(B) <= 3
      /\ IsFiniteSet(C) /\ Cardinality(C) <= 3
  <2>1. IsFiniteSet(A) /\ Cardinality(A) <= 3
    BY <1>2, CountThree
  <2>2. IsFiniteSet(B) /\ Cardinality(B) <= 3
    BY CountThree
  <2>3. IsFiniteSet(C) /\ Cardinality(C) <= 3
    BY CountThree
  <2> QED
    BY <2>1, <2>2, <2>3
<1>7. IsFiniteSet(D) /\ Cardinality(D) <= 3
  BY <1>3, CountThree
<1>8. IsFiniteSet(E) /\ Cardinality(E) <= 3
  BY <1>4, CountThree
<1> HIDE DEF B, C
<1>9. IsFiniteSet(A \cup B) /\ Cardinality(A \cup B) <= 3 + 3
  BY <1>6, CountUnion
<1>10. IsFiniteSet((A \cup B) \cup C) /\ Cardinality((A \cup B) \cup C) <= 6 + 3
  <2>1. IsFiniteSet(A \cup B) /\ Cardinality(A \cup B) <= 6
    BY <1>9
  <2> QED
    BY <1>6, <2>1, CountUnion
<1> DEFINE F == (A \cup B) \cup C
<1>11. IsFiniteSet(F) /\ Cardinality(F) <= 9
  BY <1>10
<1> HIDE DEF F
<1>12. IsFiniteSet(F \cup D) /\ Cardinality(F \cup D) <= 9 + 3
  BY <1>7, <1>11, CountUnion
<1>13. IsFiniteSet(F \cup D) /\ Cardinality(F \cup D) <= 12
  BY <1>12
<1>14. IsFiniteSet((F \cup D) \cup E) /\ Cardinality((F \cup D) \cup E) <= 12 + 3
  BY <1>8, <1>13, CountUnion
<1> QED
  BY <1>5, <1>14 DEF F

(* A list that the handler has cleaned is short.                           *)
LEMMA DistinctIsShort ==
  ASSUME NEW c \in Comps, NEW u \in Seq(EventsOf(c)), Distinct(u)
  PROVE  Len(u) <= 15 /\ Len(u) \in Nat
<1>1. Len(u) \in Nat /\ DOMAIN u = 1 .. Len(u) /\ ToSet(u) \subseteq EventsOf(c)
  BY LenProperties, ToSetElements
<1>2. IsInjective(u)
  BY <1>1 DEF IsInjective, Distinct
<1>3. IsFiniteSet(ToSet(u)) /\ Cardinality(ToSet(u)) = Len(u)
  BY <1>2, ToSetCardinality
<1>4. Cardinality(ToSet(u)) <= Cardinality(EventsOf(c)) /\ Cardinality(EventsOf(c)) \in Nat
  <2>1. ToSet(u) \in SUBSET EventsOf(c) /\ IsFiniteSet(EventsOf(c))
    BY <1>1, CountEvents
  <2> QED
    BY <2>1, FS_Subset, FS_CardinalityType
<1> QED
  BY <1>1, <1>3, <1>4, CountEvents

(* The other components of a client, of which there are at most three.     *)
LEMMA CountOthers ==
  ASSUME NEW c \in Comps
  PROVE  /\ IsFiniteSet(OfOwner(Owner(c)) \ {c})
         /\ Cardinality(OfOwner(Owner(c)) \ {c}) \in Nat
         /\ Cardinality(OfOwner(Owner(c)) \ {c}) <= 3
<1> DEFINE D == OfOwner(Owner(c)) \ {c}
<1>1. \E d1, d2, d3 : D \subseteq {d1, d2, d3}
  <2>1. c[2] = 0 \/ \E i \in 1 .. 2 : c[2] = i
    <3> DEFINE x == c[2]
    <3>1. x \in 0 .. 2
      BY Kinds
    <3> HIDE DEF x
    <3>2. x = 0 \/ x \in 1 .. 2
      BY <3>1
    <3> QED
      BY <3>2 DEF x
  <2>2. CASE c[2] = 0
    <3>1. \A d \in OfOwner(0) : d \in {video_decode, video_render, video_clock, video_scheduler}
      BY Kinds DEF OfOwner, Owner
    <3>2. c \in {video_decode, video_render, video_clock, video_scheduler} /\ Owner(c) = 0
      BY <2>2, Kinds DEF Owner
    <3>3. \A d \in D : d # c /\ d \in {video_decode, video_render, video_clock, video_scheduler}
      BY <3>1, <3>2
    <3> HIDE DEF D
    <3>4. \/ D \subseteq {video_decode, video_render, video_clock}
          \/ D \subseteq {video_decode, video_render, video_scheduler}
          \/ D \subseteq {video_decode, video_clock, video_scheduler}
          \/ D \subseteq {video_render, video_clock, video_scheduler}
      BY <3>2, <3>3
    <3> QED
      BY <3>4
  <2>3. CASE \E i \in 1 .. 2 : c[2] = i
    <3>1. PICK i \in 1 .. 2 : c[2] = i
      BY <2>3
    <3>2. \A d \in OfOwner(i) : d \in {audio_render(i), clock(i)}
      BY Kinds DEF OfOwner, Owner
    <3>3. D \subseteq {audio_render(i), clock(i), clock(i)}
      BY <3>1, <3>2 DEF Owner
    <3> QED
      BY <3>3
  <2> QED
    BY <2>1, <2>2, <2>3
<1> HIDE DEF D
<1>2. IsFiniteSet(D) /\ Cardinality(D) \in Nat /\ Cardinality(D) <= 3
  BY <1>1, CountThree
<1> QED
  BY <1>2 DEF D

LEMMA CountEntries ==
  ASSUME NEW ev, Few(ev), NEW D \in SUBSET Comps, IsFiniteSet(D), Cardinality(D) <= 3
  PROVE  /\ IsFiniteSet(Entries(ev, D)) /\ Cardinality(Entries(ev, D)) \in Nat
         /\ Cardinality(Entries(ev, D)) <= 48
<1>1. ASSUME NEW d \in D PROVE DOMAIN ev[d] \subseteq 1 .. 16
  <2>1. ev[d] \in Seq(EventsOf(d)) /\ Len(ev[d]) <= 16
    BY DEF Few
  <2>2. Len(ev[d]) \in Nat /\ DOMAIN ev[d] = 1 .. Len(ev[d])
    BY <2>1, LenProperties
  <2> QED
    BY <2>1, <2>2
<1>2. Entries(ev, D) \in SUBSET (D \X (1 .. 16))
  BY <1>1 DEF Entries
<1>3. IsFiniteSet(1 .. 16) /\ Cardinality(1 .. 16) = 16
  <2>1. \A n \in Int : /\ IsFiniteSet(1 .. n)
                      /\ Cardinality(1 .. n) = IF 1 > n THEN 0 ELSE n - 1 + 1
    BY FS_Interval
  <2>2. 16 \in Int
    OBVIOUS
  <2>3. IsFiniteSet(1 .. 16) /\ Cardinality(1 .. 16) = IF 1 > 16 THEN 0 ELSE 16 - 1 + 1
    BY <2>1, <2>2
  <2> QED
    BY <2>3
<1>4. /\ IsFiniteSet(D \X (1 .. 16))
      /\ Cardinality(D \X (1 .. 16)) = Cardinality(D) * Cardinality(1 .. 16)
  BY <1>3, FS_Product
<1>5. Cardinality(D) \in Nat
  BY FS_CardinalityType
<1>6. Cardinality(D) * 16 <= 48
  BY <1>5
<1>7. IsFiniteSet(Entries(ev, D)) /\ Cardinality(Entries(ev, D)) <= Cardinality(D \X (1 .. 16))
  BY <1>2, <1>4, FS_Subset
<1>8. Cardinality(Entries(ev, D)) \in Nat
  BY <1>7, FS_CardinalityType
<1> QED
  BY <1>3, <1>4, <1>5, <1>6, <1>7, <1>8

(* The structures of a client: those on one component's list, and others.  *)
LEMMA EntriesSplit ==
  ASSUME NEW ev, Few(ev), NEW c \in Comps
  PROVE  LET D == OfOwner(Owner(c)) IN
         /\ Cardinality(Entries(ev, D)) = Cardinality(Entries(ev, D \ {c})) + Len(ev[c])
         /\ Cardinality(Entries(ev, D \ {c})) \in Nat /\ Len(ev[c]) \in Nat
         /\ Cardinality(Entries(ev, D \ {c})) <= 48
<1> DEFINE D == OfOwner(Owner(c))
           A == Entries(ev, D \ {c})
           B == {c} \X DOMAIN ev[c]
<1>1. IsFiniteSet(A) /\ Cardinality(A) \in Nat /\ Cardinality(A) <= 48
  <2>1. D \ {c} \in SUBSET Comps
    BY DEF OfOwner
  <2> QED
    BY <2>1, CountOthers, CountEntries
<1>2. ev[c] \in Seq(EventsOf(c))
  BY DEF Few
<1>3. Len(ev[c]) \in Nat /\ DOMAIN ev[c] = 1 .. Len(ev[c])
  BY <1>2, LenProperties
<1>4. IsFiniteSet(B) /\ Cardinality(B) = Len(ev[c])
  <2>1. IsFiniteSet(1 .. Len(ev[c])) /\ Cardinality(1 .. Len(ev[c])) = Len(ev[c])
    <3>1. /\ IsFiniteSet(1 .. Len(ev[c]))
          /\ Cardinality(1 .. Len(ev[c])) = IF 1 > Len(ev[c]) THEN 0 ELSE Len(ev[c]) - 1 + 1
      BY <1>3, FS_Interval
    <3> QED
      BY <1>3, <3>1
  <2>2. IsFiniteSet({c}) /\ Cardinality({c}) = 1
    BY FS_Singleton
  <2>3. IsFiniteSet(B) /\ Cardinality(B) = Cardinality({c}) * Cardinality(DOMAIN ev[c])
    BY <1>3, <2>1, <2>2, FS_Product
  <2> QED
    BY <1>3, <2>1, <2>2, <2>3
<1>5. A \cap B = {}
  BY DEF Entries
<1>6. Entries(ev, D) = A \cup B
  <2>1. c \in D
    BY DEF OfOwner
  <2> HIDE DEF D
  <2> QED
    BY <2>1 DEF Entries
<1> HIDE DEF A, B, D
<1>7. Cardinality(A \cup B) = Cardinality(A) + Cardinality(B)
  BY <1>1, <1>4, <1>5, DisjointCardinality
<1> QED
  BY <1>1, <1>3, <1>4, <1>6, <1>7 DEF A, D

LEMMA EntriesSame ==
  ASSUME NEW ev, NEW ew, NEW D, \A d \in D : ew[d] = ev[d]
  PROVE  Entries(ew, D) = Entries(ev, D)
BY DEF Entries

(* The spares when one list changes.                                       *)
Moves(ev, ew, c, clients, x) ==
  /\ Few(ev) /\ Few(ew) /\ c \in Comps /\ Owner(c) \in clients
  /\ \A d \in Comps : d # c => ew[d] = ev[d]
  /\ x = Spares(ev, clients)[Owner(c)] + Len(ev[c]) - Len(ew[c])
Replaced(g, k, x) == [g EXCEPT ![k] = x]

LEMMA SparesChange ==
  ASSUME NEW ev, NEW ew, NEW c, NEW clients, NEW x, Moves(ev, ew, c, clients, x)
  PROVE  /\ Spares(ew, clients) = Replaced(Spares(ev, clients), Owner(c), x)
         /\ x >= NumEvents - 48 - Len(ew[c]) /\ x \in Int
         /\ Len(ev[c]) \in Nat /\ Len(ew[c]) \in Nat
<1>0. /\ Few(ev) /\ Few(ew) /\ c \in Comps /\ Owner(c) \in clients
      /\ \A d \in Comps : d # c => ew[d] = ev[d]
      /\ x = Spares(ev, clients)[Owner(c)] + Len(ev[c]) - Len(ew[c])
  BY DEF Moves
<1> DEFINE D == OfOwner(Owner(c))
<1>1. Owner(c) \in Clients /\ NumEvents \in Nat
  BY <1>0, EventsAssumption DEF Clients, Owner
<1>2. Entries(ew, D \ {c}) = Entries(ev, D \ {c})
  <2>1. \A d \in D \ {c} : ew[d] = ev[d]
    BY <1>0 DEF OfOwner
  <2> QED
    BY <2>1, EntriesSame
<1>3. /\ Cardinality(Entries(ev, D)) = Cardinality(Entries(ev, D \ {c})) + Len(ev[c])
      /\ Cardinality(Entries(ew, D)) = Cardinality(Entries(ev, D \ {c})) + Len(ew[c])
      /\ Cardinality(Entries(ev, D \ {c})) \in Nat /\ Len(ev[c]) \in Nat /\ Len(ew[c]) \in Nat
      /\ Cardinality(Entries(ev, D \ {c})) <= 48
  BY <1>0, <1>2, EntriesSplit
<1>4. Spares(ev, clients)[Owner(c)] = NumEvents - Cardinality(Entries(ev, D))
  BY <1>0, <1>1 DEF Spares
<1> DEFINE n == Cardinality(Entries(ev, D \ {c}))
           l == Len(ev[c])
           m == Len(ew[c])
<1>5. /\ x = NumEvents - Cardinality(Entries(ew, D))
      /\ x >= NumEvents - 48 - m /\ x \in Int
  <2>1. x = (NumEvents - (n + l)) + l - m
    BY <1>0, <1>3, <1>4
  <2>2. /\ Cardinality(Entries(ew, D)) = n + m /\ n \in Nat /\ l \in Nat /\ m \in Nat
        /\ NumEvents \in Nat /\ n <= 48
    BY <1>1, <1>3
  <2> HIDE DEF n, l, m
  <2>11. x = (NumEvents - (n + l)) + l - m
    BY <2>1
  <2>12. n \in Nat /\ l \in Nat /\ m \in Nat /\ NumEvents \in Nat /\ n <= 48
    BY <2>2
  <2>13. (NumEvents - (n + l)) + l - m = NumEvents - (n + m)
    BY <2>12
  <2>14. NumEvents - (n + m) >= NumEvents - 48 - m /\ NumEvents - (n + m) \in Int
    BY <2>12
  <2>3. x = NumEvents - (n + m) /\ x >= NumEvents - 48 - m /\ x \in Int
    BY <2>11, <2>13, <2>14
  <2> QED
    BY <2>2, <2>3
<1>6. ASSUME NEW k \in Clients, k # Owner(c)
      PROVE  Entries(ew, OfOwner(k)) = Entries(ev, OfOwner(k))
  <2>1. \A d \in OfOwner(k) : ew[d] = ev[d]
    BY <1>0, <1>6 DEF OfOwner
  <2> QED
    BY <2>1, EntriesSame
<1>7. ASSUME NEW k \in Clients
      PROVE  Spares(ew, clients)[k] = [Spares(ev, clients) EXCEPT ![Owner(c)] = x][k]
  <2>1. CASE k = Owner(c)
    BY <1>0, <1>1, <1>5, <2>1 DEF Spares
  <2>2. CASE k # Owner(c)
    BY <1>6, <2>2 DEF Spares
  <2> QED
    BY <2>1, <2>2
<1>8. Spares(ew, clients) = Replaced(Spares(ev, clients), Owner(c), x)
  <2>1. /\ Spares(ew, clients) = [k \in Clients |-> Spares(ew, clients)[k]]
        /\ [Spares(ev, clients) EXCEPT ![Owner(c)] = x]
             = [k \in Clients |-> [Spares(ev, clients) EXCEPT ![Owner(c)] = x][k]]
    BY DEF Spares
  <2> DEFINE f == Spares(ew, clients)
             g == [Spares(ev, clients) EXCEPT ![Owner(c)] = x]
  <2>2. \A k \in Clients : f[k] = g[k]
    BY <1>7
  <2>3. f = [k \in Clients |-> f[k]] /\ g = [k \in Clients |-> g[k]]
    BY <2>1
  <2> HIDE DEF f, g
  <2>4. f = g
    BY <2>2, <2>3
  <2> QED
    BY <2>4 DEF f, g, Replaced
<1> QED
  BY <1>3, <1>5, <1>8

(* What the state of the program and of the firmware has to do with S.     *)
Mine(c) == {x \in pending : x.c = c}
IsCommand(x) == x = Command(x.c, x.cmd, x.n) /\ Typed(x.c, x.cmd, x.n)
Ended(x) ==
  {Told(x.cmd, x.n)} \cup (IF x.cmd = "PortEnable" THEN {} ELSE {SameStateError})
Unreported(c) == Sees(events[c], CommandError) => "ERROR" \in flags[c]

(* True of every state.                                                    *)
Handles(S) ==
  /\ coreInit = S.base.inits /\ coreInit \in 0 .. 3
  /\ S.base.alive = {c \in Comps : state[c] # Absent}
  /\ nActiveHandles = Cardinality(S.base.alive)
  /\ S.base.clients \subseteq Clients
  /\ \A c \in S.base.alive : Owner(c) \in S.base.clients
States ==
  /\ state \in [Comps -> 0 .. 3] /\ enabled = [c \in Comps |-> enabled[c]]
  /\ \A c \in Comps : enabled[c] \subseteq ToSet(PortsOf(c))
Asked(S) == \A x \in pending : x.c \in S.base.alive /\ IsCommand(x)
Buffers ==
  /\ held \in [Comps -> Seq(Nat)] /\ inList \in [Comps -> Seq(Nat)]
  /\ supplied \in [Comps -> 0 .. NumBuffers]
  /\ \A c \in Comps : Len(held[c]) + Len(inList[c]) <= supplied[c]
Others ==
  /\ masked \subseteq Comps /\ related \in [Comps -> Comps \cup {None}]
  /\ failures \in 0 .. MaxFailures /\ late \in BOOLEAN
  /\ orphans # {} => failures > 0
Lists(S) ==
  /\ Few(events) /\ flags = [c \in Comps |-> flags[c]]
  /\ spare = Spares(events, S.base.clients)
Result(S) == ret = S.ret /\ ret \in -5 .. 0
Common(S) ==
  Handles(S) /\ States /\ Asked(S) /\ Buffers /\ Others /\ Lists(S) /\ Result(S)

(* While every answer was the expected one: each command is under way, or  *)
(* its one answer is on the list.                                          *)
Waiting(S, c) ==
  /\ Mine(c) = (IF S.sent[c] = NoCommand THEN {} ELSE {S.sent[c]})
  /\ Clean(events[c], c)
  /\ state[c] = S.world.state[c] /\ enabled[c] = S.world.enabled[c]
Over(S, c) ==
  /\ S.sent[c] # NoCommand /\ Mine(c) = {} /\ One(events[c], c, Ended(S.sent[c]))
  /\ state[c] = After(S.world, S.sent[c]).state[c]
  /\ enabled[c] = After(S.world, S.sent[c]).enabled[c]
Refused(S, c) ==
  /\ S.sent[c] # NoCommand /\ Mine(c) = {} /\ One(events[c], c, {Refusal})
  /\ state[c] = S.world.state[c] /\ enabled[c] = S.world.enabled[c]
  /\ failures > 0
Fits(S, c) == Waiting(S, c) \/ Over(S, c) \/ Refused(S, c)

Copied(S) ==
  /\ port_setting_changed = S.world.seen /\ tunnels = S.world.tunnels
  /\ supplied = S.world.supplied /\ related = S.related /\ masked = S.masked
Sendings(S) ==
  \A c \in Comps : \/ S.sent[c] = NoCommand
                   \/ S.sent[c].c = c /\ IsCommand(S.sent[c])
InHand(S) ==
  /\ S.world.hand \in Nat
  /\ Len(held[video_decode]) + Len(inList[video_decode]) + S.world.hand
       <= supplied[video_decode]
Unused(S) ==
  /\ \A c \in Comps : supplied[c] < NumBuffers => held[c] = <<>> /\ inList[c] = <<>>
  /\ supplied[video_decode] < NumBuffers => S.world.hand = 0
Suspects(S) ==
  {c \in Comps : S.sent[c].cmd = "StateSet" /\ Sees(events[c], {Refusal})}
Excused(S) ==
  S.world.spoiled \subseteq Comps /\ Cardinality(S.world.spoiled \cup Suspects(S)) <= failures
Partnered(S) ==
  \A c \in Comps : S.related[c] # None => S.sent[c].cmd \in {"none", "PortEnable"}
Unborn(S) == \A c \in Comps : c \notin S.base.alive => events[c] = <<>>
Silent(S) ==
  failures = 0 =>
    \A c \in Comps : c # video_decode /\ "ERROR" \in flags[c] =>
      S.sent[c] # NoCommand /\ One(events[c], c, {SameStateError})
Covered(S) ==
  \A c \in Comps :
    S.sent[c].cmd = "PortDisable" /\ S.sent[c].n \notin S.world.enabled[c] => c \in S.masked
InStep(S) ==
  /\ Copied(S) /\ Sendings(S) /\ (\A c \in Comps : Fits(S, c)) /\ InHand(S) /\ Unused(S)
  /\ Excused(S) /\ Partnered(S) /\ Unborn(S) /\ Silent(S) /\ Covered(S)

(* After an answer that was not.                                           *)
Blamed(S) == (failures > 0 \/ late = TRUE) /\ S.told \in Comps \cup {None}

(* What depends on the step that comes next.                               *)
Overdue(f, k) ==
  IF Head(k).do = "check"
  THEN \/ Sees(events[f.c], Ends(Head(k)))
       \/ Head(k).other # None /\ Sees(events[Head(k).other], CommandError)
  ELSE IF Head(k).do = "woken" THEN Sees(events[f.c], Head(Tail(k)).wanted \cup AnyError)
  ELSE inList[f.c] # <<>> \/ Sees(events[f.c], CommandError)
Heeded(S, f) ==
  IF S.doom
  THEN S.told # None =>
         \/ Unreported(S.told)
         \/ f.do = "if got" /\ f.flag = "ERROR" /\ "ERROR" \in got
         \/ f.do = "remove" /\ f.c = S.told /\ CommandError \subseteq f.wanted
  ELSE \A c \in Comps :
         S.sent[c] # NoCommand => Unreported(c) \/ (f.do = "check" /\ f.c = c)
Before(S, f, k) ==
  /\ f.do = "look for error" =>
       /\ S.doom => S.told = None
       /\ Sees(events[Head(k).c], Head(k).wanted) => Head(k).flag \in flags[Head(k).c]
  /\ f.do = "queue" =>
       /\ held[f.c] = <<>> /\ inList[f.c] = <<>> /\ Len(f.list) <= supplied[f.c]
       /\ ~S.doom /\ f.c = video_decode => S.world.hand = 0
  /\ f.do = "suspend" =>
       /\ S.doom /\ Head(k).do # "if got" => S.told = None
       /\ flags[f.c] \cap f.mask = {} => ~Overdue(f, k)
  /\ f.do = "woken" /\ ~S.doom =>
       (got = {} => late = TRUE) /\ ("ERROR" \in got => failures > 0)
AtTop(S, p) == p # <<>> => Heeded(S, Head(p)) /\ Before(S, Head(p), Tail(p))

Rel(S) == Common(S) /\ (IF S.doom THEN Blamed(S) ELSE InStep(S))

(* The program's text, but for the steps that others put on the stack.     *)
Shaped(p) ==
  \/ Text(p)
  \/ /\ p # <<>> /\ Head(p).do \in {"look for error", "queue", "supply", "woken"}
     /\ Text(Tail(p))
  \/ /\ p # <<>> /\ Head(p).do = "suspend" /\ Tail(p) # <<>>
     /\ \/ Text(Tail(p))
        \/ Head(Tail(p)).do = "woken" /\ Text(Tail(Tail(p)))

Heard(S) ==
  IF S.doom THEN S.told # None => Unreported(S.told)
  ELSE \A c \in Comps : S.sent[c] # NoCommand => Unreported(c)
Sound(S) == Safe(todo, S) /\ Rel(S) /\ AtTop(S, todo) /\ Shaped(todo)

(* The program has not aborted.                                            *)
Going == failed = ""

(* The stack has a step to take.                                           *)
Facing(S, f, k) ==
  /\ Going /\ todo = <<f>> \o k /\ todo # <<>> /\ Top = f /\ Rest = k /\ IsSeq(k)
  /\ Good(f, k, S) /\ \A q, T : <<q, T>> \in Nexts(f, k, S) => Safe(q, T)
  /\ Rel(S) /\ Heeded(S, f) /\ Before(S, f, k)
  /\ f.do # "suspend" => Text(k)
  /\ f.do = "suspend" => k # <<>> /\ Shaped(k) /\ (Head(k).do # "woken" => Text(k))
  /\ f.do = "call" => f.f \in CallNames
  /\ f.do \in Branches => Text(f.yes) /\ Text(f.no)
  /\ Heard(S) \/ f.do \in {"if got", "remove", "check"}

LEMMA SeqPop ==
  ASSUME NEW p, IsSeq(p), p # <<>>
  PROVE  p = <<Head(p)>> \o Tail(p) /\ IsSeq(Tail(p))
<1>1. PICK X : p \in Seq(X)
  BY DEF IsSeq
<1>2. /\ Head(p) \in X /\ Tail(p) \in Seq(X) /\ Head(p) = p[1] /\ Len(p) \in Nat /\ Len(p) > 0
      /\ Len(Tail(p)) = Len(p) - 1 /\ \A i \in 1 .. Len(p) - 1 : Tail(p)[i] = p[i + 1]
  BY <1>1, HeadTailProperties, LenProperties, EmptySeq
<1> DEFINE k == Tail(p)  e == Head(p)  q == <<e>> \o k
<1>3. IsSeq(k)
  BY <1>2 DEF IsSeq
<1>4. /\ Len(q) = Len(k) + 1 /\ Head(q) = e /\ q # <<>>
      /\ \A i \in 1 .. Len(k) : q[i + 1] = k[i]
  <2> HIDE DEF k, e
  <2> QED
    BY <1>3, SeqPush
<1>5. <<e>> \in Seq(X)
  <2> HIDE DEF e
  <2> QED
    BY <1>2, SeqOfOne DEF e
<1>6. q \in Seq(X)
  <2> HIDE DEF k, e
  <2> QED
    BY <1>2, <1>5, ConcatProperties DEF k
<1>7. q[1] = e
  <2> HIDE DEF q, e
  <2> QED
    BY <1>4, <1>6, HeadTailProperties
<1> HIDE DEF q
<1>8. \A i \in 1 .. Len(p) : p[i] = q[i]
  <2>1. ASSUME NEW i \in 1 .. Len(p), i # 1 PROVE p[i] = q[i]
    <3>1. i - 1 \in 1 .. Len(p) - 1 /\ (i - 1) + 1 = i
      BY <1>2, <2>1
    <3> QED
      BY <1>2, <1>4, <3>1
  <2> QED
    BY <1>2, <1>7, <2>1
<1>9. Len(q) = Len(p)
  BY <1>2, <1>4
<1>10. p = q
  BY <1>1, <1>6, <1>8, <1>9, SeqEqual
<1> QED
  BY <1>3, <1>10 DEF q

LEMMA ShapedPop ==
  ASSUME NEW p, Shaped(p), p # <<>>, NEW f, NEW k, f = Head(p), k = Tail(p)
  PROVE  /\ f.do # "suspend" => Text(k)
         /\ f.do = "suspend" => k # <<>> /\ Shaped(k) /\ (Head(k).do # "woken" => Text(k))
         /\ f.do = "call" => f.f \in CallNames
         /\ f.do \in Branches => Text(f.yes) /\ Text(f.no)
<1>1. CASE Text(p)
  BY <1>1, TextPop
<1>2. CASE ~Text(p)
  BY <1>2 DEF Shaped, Branches
<1> QED
  BY <1>1, <1>2

LEMMA Face ==
  ASSUME NEW S, Sound(S), Going, todo # <<>>
  PROVE  \E f, k : Facing(S, f, k)
<1> DEFINE f == Head(todo)  k == Tail(todo)
<1>1. /\ IsSeq(todo) /\ Good(f, k, S)
      /\ \A q, T : <<q, T>> \in Nexts(f, k, S) => Safe(q, T)
  <2>1. Safe(todo, S)
    BY DEF Sound
  <2> QED
    BY <2>1, SafeUnfold
<1>2. todo = <<f>> \o k /\ IsSeq(k)
  BY <1>1, SeqPop
<1>3. Rel(S) /\ Heeded(S, f) /\ Before(S, f, k)
  BY DEF Sound, AtTop
<1>4. /\ f.do # "suspend" => Text(k)
      /\ f.do = "suspend" => k # <<>> /\ Shaped(k) /\ (Head(k).do # "woken" => Text(k))
      /\ f.do = "call" => f.f \in CallNames
      /\ f.do \in Branches => Text(f.yes) /\ Text(f.no)
  <2>1. Shaped(todo)
    BY DEF Sound
  <2> QED
    BY <2>1, ShapedPop
<1>5. Top = f /\ Rest = k
  BY DEF Top, Rest
<1>6. Heard(S) \/ f.do \in {"if got", "remove", "check"}
  <2> HIDE DEF f, k
  <2> QED
    BY <1>3 DEF Heard, Heeded
<1> HIDE DEF f, k
<1>7. Facing(S, f, k)
  BY <1>1, <1>2, <1>3, <1>4, <1>5, <1>6 DEF Facing
<1> QED
  BY <1>7

(* On the program's own text no more is to be known.                       *)
LEMMA TextTop ==
  ASSUME NEW S, NEW p, Text(p), Heard(S)'
  PROVE  AtTop(S, p)' /\ Shaped(p)
<1>1. Shaped(p)
  BY DEF Shaped
<1>2. ASSUME p # <<>>
      PROVE  Heeded(S, Head(p))' /\ Before(S, Head(p), Tail(p))'
  <2>1. Head(p).do \notin {"suspend", "look for error", "woken", "queue"}
    BY <1>2, TextPop
  <2>2. Before(S, Head(p), Tail(p))'
    BY <2>1 DEF Before
  <2>3. Heeded(S, Head(p))'
    BY DEF Heard, Heeded
  <2> QED
    BY <2>2, <2>3
<1> QED
  BY <1>1, <1>2 DEF AtTop

LEMMA KeepHandles ==
  ASSUME NEW S, NEW T, Handles(S), T.base = S.base,
         UNCHANGED <<coreInit, nActiveHandles, state>>
  PROVE  Handles(T)'
BY DEF Handles

LEMMA KeepStates ==
  ASSUME States, UNCHANGED <<state, enabled>>
  PROVE  States'
BY DEF States

LEMMA KeepAsked ==
  ASSUME NEW S, NEW T, Asked(S), T.base = S.base, pending' \subseteq pending
  PROVE  Asked(T)'
BY DEF Asked

LEMMA KeepBuffers ==
  ASSUME Buffers, UNCHANGED <<held, inList, supplied>>
  PROVE  Buffers'
BY DEF Buffers

LEMMA KeepOthers ==
  ASSUME Others, UNCHANGED <<masked, related, failures, orphans, late>>
  PROVE  Others'
BY DEF Others

LEMMA KeepLists ==
  ASSUME NEW S, NEW T, Lists(S), T.base = S.base, UNCHANGED lists
  PROVE  Lists(T)'
BY DEF Lists, lists

LEMMA KeepCommon ==
  ASSUME NEW S, NEW T, Common(S), T.base = S.base,
         UNCHANGED <<core, masked, related, inList, late>>, Lists(T)', Result(T)'
  PROVE  Common(T)'
<1>1. UNCHANGED <<coreInit, nActiveHandles, state, enabled, pending, tunnels, supplied, held,
                  orphans, failures, masked, related, inList, late>>
  BY DEF core
<1>2. Handles(T)' /\ States' /\ Asked(T)'
  <2>1. Handles(S) /\ States /\ Asked(S) /\ pending' \subseteq pending
    BY <1>1 DEF Common
  <2> QED
    BY <1>1, <2>1, KeepHandles, KeepStates, KeepAsked
<1>3. Buffers' /\ Others'
  BY <1>1, KeepBuffers, KeepOthers DEF Common
<1> QED
  BY <1>2, <1>3 DEF Common

LEMMA AfterSame ==
  ASSUME NEW v, NEW w, NEW x, NEW c \in Comps, w.state[c] = v.state[c],
         w.enabled[c] = v.enabled[c]
  PROVE  /\ After(v, x).state[c] = After(w, x).state[c]
         /\ After(v, x).enabled[c] = After(w, x).enabled[c]
BY DEF After, World, NewState, NewPorts, Put

LEMMA FitsSame ==
  ASSUME NEW S, NEW T, NEW c \in Comps, Fits(S, c), T.sent[c] = S.sent[c],
         T.world.state[c] = S.world.state[c], T.world.enabled[c] = S.world.enabled[c],
         events'[c] = events[c], state'[c] = state[c], enabled'[c] = enabled[c],
         Mine(c)' = Mine(c), failures > 0 => failures' > 0
  PROVE  Fits(T, c)'
<1> DEFINE x == S.sent[c]  v == After(S.world, x)  w == After(T.world, x)
<1>0. x = S.sent[c]
  OBVIOUS
<1> HIDE DEF x
<1>1. v.state[c] = w.state[c] /\ v.enabled[c] = w.enabled[c]
  BY AfterSame
<1> HIDE DEF v, w
<1>2. CASE Waiting(S, c)
  BY <1>0, <1>2 DEF Fits, Waiting
<1>3. CASE Over(S, c)
  BY <1>0, <1>1, <1>3 DEF Fits, Over, v, w
<1>4. CASE Refused(S, c)
  BY <1>0, <1>4 DEF Fits, Refused
<1> QED
  BY <1>2, <1>3, <1>4 DEF Fits

LEMMA SilentLess ==
  ASSUME NEW S, NEW T, Silent(S), T.sent = S.sent, UNCHANGED <<events, failures>>,
         \A c \in Comps : flags'[c] \subseteq flags[c]
  PROVE  Silent(T)'
BY DEF Silent

LEMMA KeepInStep ==
  ASSUME NEW S, NEW T, InStep(S), T.world = S.world, T.sent = S.sent, T.related = S.related,
         T.masked = S.masked, T.base = S.base, Silent(T)',
         UNCHANGED <<core, masked, related, inList, events, port_setting_changed>>
  PROVE  InStep(T)'
<1>1. UNCHANGED <<coreInit, nActiveHandles, state, enabled, pending, tunnels, supplied, held,
                  orphans, failures, masked, related, inList, events, port_setting_changed>>
  BY DEF core
<1>2. ASSUME NEW c \in Comps PROVE Fits(T, c)'
  <2>1. Fits(S, c) /\ Mine(c)' = Mine(c)
    BY <1>1 DEF InStep, Mine
  <2> QED
    BY <1>1, <2>1, FitsSame
<1>3. Copied(T)' /\ Sendings(T)' /\ InHand(T)' /\ Unused(T)'
  BY <1>1 DEF InStep, Copied, Sendings, InHand, Unused
<1>4. Excused(T)' /\ Partnered(T)' /\ Unborn(T)' /\ Covered(T)'
  BY <1>1 DEF InStep, Excused, Suspects, Partnered, Unborn, Covered
<1> QED
  BY <1>2, <1>3, <1>4 DEF InStep

IInv ==
  IF Going THEN \E S : Sound(S)
  ELSE failed = "assertion" /\ (failures > 0 \/ late = TRUE) /\ \E S : Common(S)

LEMMA Onwards ==
  ASSUME NEW T, NEW p, todo' = p, Safe(p, T), Rel(T)', AtTop(T, p)', Shaped(p), Going'
  PROVE  IInv'
<1>1. AtTop(T, todo)'
  BY DEF AtTop
<1>2. Sound(T)'
  BY <1>1 DEF Sound
<1> QED
  BY <1>2 DEF IInv

LEMMA TextOnwards ==
  ASSUME NEW T, NEW p, todo' = p, Safe(p, T), Rel(T)', Text(p), Heard(T)', Going'
  PROVE  IInv'
BY TextTop, Onwards

LEMMA HeardSame ==
  ASSUME NEW S, NEW T, Heard(S), T.doom = S.doom,
         IF S.doom THEN T.told = S.told ELSE T.sent = S.sent, UNCHANGED <<events, flags>>
  PROVE  Heard(T)'
<1>1. \A c : Unreported(c)' = Unreported(c)
  BY DEF Unreported
<1> QED
  BY <1>1 DEF Heard

LEMMA ResultIs ==
  ASSUME NEW T, NEW r \in -5 .. 0, ret' = r, T.ret = r
  PROVE  Result(T)'
BY DEF Result

LEMMA SyncRel ==
  ASSUME NEW S, NEW r \in -5 .. 0, ~S.doom, Rel(S), ret' = r, NEW T,
         T = Sync(r, S.sent, S.related, S.masked, S.base, S.world),
         UNCHANGED <<core, lists, masked, related, inList, late, port_setting_changed>>
  PROVE  Rel(T)'
<1>1. /\ ~T.doom /\ T.sent = S.sent /\ T.related = S.related /\ T.masked = S.masked
      /\ T.base = S.base /\ T.world = S.world /\ T.ret = r
  BY DEF Sync
<1>2. Common(S) /\ InStep(S)
  BY DEF Rel
<1>3. Lists(S) /\ Silent(S) /\ UNCHANGED <<events, flags, failures>>
  BY <1>2 DEF Common, InStep, lists, core
<1>4. Lists(T)' /\ Silent(T)'
  <2>1. \A c \in Comps : flags'[c] \subseteq flags[c]
    BY <1>3
  <2> QED
    BY <1>1, <1>3, <2>1, KeepLists, SilentLess
<1>5. Common(T)'
  BY <1>1, <1>2, <1>4, KeepCommon, ResultIs
<1>6. InStep(T)'
  BY <1>1, <1>2, <1>3, <1>4, KeepInStep
<1> QED
  BY <1>1, <1>5, <1>6 DEF Rel

LEMMA StayRel ==
  ASSUME NEW S, Rel(S),
         UNCHANGED <<core, lists, masked, related, inList, ret, late, port_setting_changed>>
  PROVE  Rel(S)'
<1>1. Common(S) /\ Lists(S) /\ UNCHANGED <<events, flags, failures>>
  BY DEF Rel, Common, lists, core
<1>2. Common(S)'
  <2>1. Result(S)'
    BY <1>1 DEF Common, Result
  <2>2. Lists(S)'
    BY <1>1, KeepLists
  <2> QED
    BY <1>1, <2>1, <2>2, KeepCommon
<1>3. CASE S.doom
  BY <1>1, <1>2, <1>3 DEF Rel, Blamed
<1>4. CASE ~S.doom
  <2>1. InStep(S) /\ Silent(S)
    BY <1>4 DEF Rel, InStep
  <2>2. Silent(S)'
    <3>1. \A c \in Comps : flags'[c] \subseteq flags[c]
      BY <1>1
    <3> QED
      BY <1>1, <2>1, <3>1, SilentLess
  <2>3. InStep(S)'
    BY <1>1, <2>1, <2>2, KeepInStep
  <2> QED
    BY <1>2, <1>4, <2>3 DEF Rel
<1> QED
  BY <1>3, <1>4

LEMMA LostRel ==
  ASSUME NEW S, NEW r \in -5 .. 0, NEW j \in Comps \cup {None}, NEW T, T = Lost(r, j, S.base),
         Common(S), (failures > 0 \/ late = TRUE)', ret' = r,
         UNCHANGED <<core, masked, related, inList, late>>, Lists(S)'
  PROVE  Rel(T)'
<1>1. T.doom = TRUE /\ T.told = j /\ T.ret = r /\ T.base = S.base
  BY DEF Lost
<1>2. Lists(T)'
  BY <1>1 DEF Lists
<1>3. Common(T)'
  BY <1>1, <1>2, KeepCommon, ResultIs
<1> QED
  BY <1>1, <1>3 DEF Rel, Blamed

(* Calls and conditions.                                                   *)
LEMMA ControlOnwards ==
  ASSUME NEW S, NEW f, NEW k, Facing(S, f, k), Heard(S), NEW q, Text(q),
         <<q \o k, S>> \in Nexts(f, k, S), f.do # "suspend",
         todo' = q \o k, Going',
         UNCHANGED <<core, lists, masked, related, inList, ret, late, port_setting_changed>>
  PROVE  IInv'
<1>1. Rel(S)'
  BY StayRel DEF Facing
<1>2. Safe(q \o k, S) /\ Text(q \o k)
  BY TextConcat DEF Facing
<1>3. Heard(S)'
  BY HeardSame DEF lists
<1> QED
  BY <1>1, <1>2, <1>3, TextOnwards

LEMMA StepCall ==
  ASSUME NEW S, NEW f, NEW k, Facing(S, f, k), f.do = "call", Call
  PROVE  IInv'
<1>0. Going'
  BY DEF Facing, Call, Going
<1>1. /\ todo' = Body(f.f) \o k /\ Heard(S) /\ f.f \in CallNames
      /\ UNCHANGED <<core, lists, masked, related, inList, ret, late, port_setting_changed>>
  BY DEF Facing, Call, client, sink
<1>2. <<Body(f.f) \o k, S>> \in Nexts(f, k, S)
  <2>1. Good(f, k, S)
    BY DEF Facing
  <2>2. ~S.doom
    BY <2>1 DEF Good, GoodLost
  <2> QED
    BY <2>2 DEF Nexts, NextsSync
<1>3. Text(Body(f.f))
  BY <1>1, TextBody
<1> DEFINE q == Body(f.f)
<1> HIDE DEF q
<1> QED
  BY <1>0, <1>1, <1>2, <1>3, ControlOnwards DEF q

LEMMA StepIfReturned ==
  ASSUME NEW S, NEW f, NEW k, Facing(S, f, k), f.do = "if returned", NEW q,
         q = IF ret = f.value THEN f.yes ELSE f.no,
         todo' = q \o k, Going',
         UNCHANGED <<core, lists, masked, related, inList, ret, late, port_setting_changed>>
  PROVE  IInv'
<1>1. Text(q) /\ Heard(S)
  BY DEF Facing, Branches
<1>2. ret = S.ret
  BY DEF Facing, Rel, Common, Result
<1>3. <<q \o k, S>> \in Nexts(f, k, S)
  <2>1. CASE S.doom
    BY <1>2, <2>1 DEF Nexts, NextsLost
  <2>2. CASE ~S.doom
    BY <1>2, <2>2 DEF Nexts, NextsSync
  <2> QED
    BY <2>1, <2>2
<1> QED
  BY <1>1, <1>3, ControlOnwards

LEMMA StateFits ==
  ASSUME NEW S, NEW c \in Comps, Fits(S, c), S.sent[c].cmd # "StateSet"
  PROVE  state[c] = S.world.state[c]
<1> DEFINE x == S.sent[c]  v == After(S.world, x)
<1>1. x.cmd # "StateSet"
  OBVIOUS
<1> HIDE DEF x
<1>2. v.state[c] = S.world.state[c]
  BY <1>1 DEF After, World, NewState
<1> HIDE DEF v
<1> QED
  BY <1>2 DEF Fits, Waiting, Over, Refused, v, x

LEMMA QuietFits ==
  ASSUME NEW S, NEW c, Fits(S, c), S.sent[c] = NoCommand
  PROVE  /\ Waiting(S, c) /\ Mine(c) = {} /\ Clean(events[c], c)
         /\ state[c] = S.world.state[c] /\ enabled[c] = S.world.enabled[c]
BY DEF Fits, Waiting, Over, Refused

LEMMA StepIfState ==
  ASSUME NEW S, NEW f, NEW k, Facing(S, f, k), f.do = "if state", NEW q,
         q = IF state[f.c] \in f.s THEN f.yes ELSE f.no,
         todo' = q \o k, Going',
         UNCHANGED <<core, lists, masked, related, inList, ret, late, port_setting_changed>>
  PROVE  IInv'
<1>1. Text(q) /\ Heard(S) /\ Good(f, k, S) /\ Rel(S)
  BY DEF Facing, Branches
<1>2. ~S.doom
  BY <1>1 DEF Good, GoodLost
<1>3. f.c \in Comps /\ S.sent[f.c].cmd # "StateSet"
  BY <1>1, <1>2 DEF Good, GoodSync
<1>4. Fits(S, f.c)
  BY <1>1, <1>2, <1>3 DEF Rel, InStep
<1>5. state[f.c] = S.world.state[f.c]
  BY <1>3, <1>4, StateFits
<1>6. <<q \o k, S>> \in Nexts(f, k, S)
  BY <1>2, <1>5 DEF Nexts, NextsSync
<1> QED
  BY <1>1, <1>6, ControlOnwards

LEMMA StepIfEnabled ==
  ASSUME NEW S, NEW f, NEW k, Facing(S, f, k), f.do = "if enabled", NEW q,
         q = IF Enabling(f.c, f.n) THEN f.yes ELSE f.no,
         todo' = q \o k, Going',
         UNCHANGED <<core, lists, masked, related, inList, ret, late, port_setting_changed>>
  PROVE  IInv'
<1>1. Text(q) /\ Heard(S) /\ Good(f, k, S) /\ Rel(S)
  BY DEF Facing, Branches
<1>2. CASE S.doom
  <2>1. <<q \o k, S>> \in Nexts(f, k, S)
    BY <1>2 DEF Nexts, NextsLost
  <2> QED
    BY <1>1, <2>1, ControlOnwards
<1>3. CASE ~S.doom
  <2>1. f.c \in Comps /\ S.sent[f.c] = NoCommand
    BY <1>1, <1>3 DEF Good, GoodSync
  <2>2. Fits(S, f.c)
    BY <1>1, <1>3, <2>1 DEF Rel, InStep
  <2>3. Mine(f.c) = {} /\ enabled[f.c] = S.world.enabled[f.c]
    <3> DEFINE c == f.c
    <3>1. Fits(S, c) /\ S.sent[c] = NoCommand
      BY <2>1, <2>2
    <3> HIDE DEF c
    <3>2. Mine(c) = {} /\ enabled[c] = S.world.enabled[c]
      BY <3>1, QuietFits
    <3> QED
      BY <3>2 DEF c
  <2>4. Enabling(f.c, f.n) <=> f.n \in S.world.enabled[f.c]
    <3>1. Command(f.c, "PortEnable", f.n) \notin pending
      <4> DEFINE x == Command(f.c, "PortEnable", f.n)
      <4>1. x.c = f.c
        BY DEF Command
      <4> HIDE DEF x
      <4>2. x \notin pending
        BY <2>3, <4>1 DEF Mine
      <4> QED
        BY <4>2 DEF x
    <3> QED
      BY <2>3, <3>1 DEF Enabling
  <2>5. <<q \o k, S>> \in Nexts(f, k, S)
    BY <1>3, <2>4 DEF Nexts, NextsSync
  <2> QED
    BY <1>1, <2>5, ControlOnwards
<1> QED
  BY <1>2, <1>3

LEMMA PushAssociates ==
  ASSUME NEW e, NEW t, NEW k, IsSeq(t), IsSeq(k)
  PROVE  (<<e>> \o t) \o k = <<e>> \o (t \o k)
<1>1. IsSeq(<<e>>)
  BY OneIsSeq
<1> QED
  BY <1>1, SeqAssociates

LEMMA HeadOf ==
  ASSUME NEW y, NEW e, NEW k, IsSeq(k), \E t : IsSeq(t) /\ y = <<e>> \o t
  PROVE  Head(y \o k) = e /\ y \o k # <<>>
<1>1. PICK t : IsSeq(t) /\ y = <<e>> \o t
  OBVIOUS
<1>2. IsSeq(t \o k)
  BY <1>1, SeqConcat
<1>3. (<<e>> \o t) \o k = <<e>> \o (t \o k)
  BY <1>1, PushAssociates
<1>4. Head(<<e>> \o (t \o k)) = e /\ <<e>> \o (t \o k) # <<>>
  BY <1>2, SeqPush
<1> QED
  BY <1>1, <1>3, <1>4

(* The first step takes the error away that nothing else tells of.         *)
LEMMA RemovesFirst ==
  ASSUME NEW S, NEW q, NEW k, Text(q), Text(k), S.doom,
         \E t : IsSeq(t) /\ q = RemoveEvent(S.told, CommandError) \o t
  PROVE  AtTop(S, q \o k)' /\ Shaped(q \o k)
<1> DEFINE e == [do |-> "remove", c |-> S.told, wanted |-> CommandError]
           w == q \o k
<1>1. \E t : IsSeq(t) /\ q = <<e>> \o t
  BY DEF RemoveEvent
<1>2. e.do = "remove" /\ e.c = S.told /\ e.wanted = CommandError
  OBVIOUS
<1> HIDE DEF e
<1>3. Head(w) = e
  BY <1>1, HeadOf, TextIsSeq
<1>4. Text(w)
  BY TextConcat
<1> HIDE DEF w
<1>5. Heeded(S, e)'
  BY <1>2 DEF Heeded
<1>6. Before(S, e, Tail(w))'
  BY <1>2 DEF Before
<1>7. AtTop(S, w)' /\ Shaped(w)
  BY <1>3, <1>4, <1>5, <1>6 DEF AtTop, Shaped
<1> QED
  BY <1>7 DEF w

AsksGot(f) == f.do = "if got"

LEMMA StepIfGot ==
  ASSUME NEW S, NEW f, NEW k, Facing(S, f, k), AsksGot(f), NEW q,
         q = IF f.flag \in got THEN f.yes ELSE f.no,
         todo' = q \o k, Going', UNCHANGED got,
         UNCHANGED <<core, lists, masked, related, inList, ret, late, port_setting_changed>>
  PROVE  IInv'
<1>1. /\ Text(q) /\ Text(k) /\ Good(f, k, S) /\ Rel(S) /\ Heeded(S, f)
      /\ \A p, T : <<p, T>> \in Nexts(f, k, S) => Safe(p, T)
  BY DEF Facing, Branches, AsksGot
<1>2. S.doom
  BY <1>1 DEF Good, GoodSync, AsksGot
<1>3. <<q \o k, S>> \in Nexts(f, k, S)
  BY <1>2 DEF Nexts, NextsLost, AsksGot
<1>4. CASE S.told = None \/ Unreported(S.told)
  <2>1. Heard(S)
    BY <1>2, <1>4 DEF Heard
  <2> QED
    BY <1>1, <1>3, <2>1, ControlOnwards DEF AsksGot
<1>5. CASE S.told # None /\ ~Unreported(S.told)
  <2>1. f.flag = "ERROR" /\ "ERROR" \in got
    BY <1>1, <1>2, <1>5 DEF Heeded, AsksGot
  <2>2. \E t : IsSeq(t) /\ q = RemoveEvent(S.told, CommandError) \o t
    BY <1>1, <1>2, <2>1 DEF Good, GoodLost, AsksGot
  <2>3. AtTop(S, q \o k)' /\ Shaped(q \o k)
    BY <1>1, <1>2, <2>2, RemovesFirst
  <2>4. Safe(q \o k, S)
    BY <1>1, <1>3
  <2>5. Rel(S)'
    BY <1>1, StayRel
  <2> QED
    BY <2>3, <2>4, <2>5, Onwards
<1> QED
  BY <1>4, <1>5

LEMMA StillOnwards ==
  ASSUME NEW S, NEW f, NEW k, Facing(S, f, k), Heard(S), NEW q, Text(q),
         <<q, S>> \in Nexts(f, k, S), todo' = q, Going',
         UNCHANGED <<core, lists, masked, related, inList, ret, late, port_setting_changed>>
  PROVE  IInv'
<1>1. Rel(S)'
  BY StayRel DEF Facing
<1>2. Safe(q, S)
  BY DEF Facing
<1>3. Heard(S)'
  BY HeardSame DEF lists
<1> QED
  BY <1>1, <1>2, <1>3, TextOnwards

LEMMA LostOnwards ==
  ASSUME NEW S, NEW f, NEW k, Facing(S, f, k), S.doom, NEW r \in -5 .. 0,
         NEW j \in Comps \cup {None}, j = None \/ (j = S.told /\ Heard(S)), NEW q, Text(q),
         <<q, Lost(r, j, S.base)>> \in Nexts(f, k, S), todo' = q, Going', ret' = r,
         UNCHANGED <<core, lists, masked, related, inList, late, port_setting_changed>>
  PROVE  IInv'
<1> DEFINE T == Lost(r, j, S.base)
<1>0. T = Lost(r, j, S.base)
  OBVIOUS
<1> HIDE DEF T
<1>1. T.doom = TRUE /\ T.told = j
  BY <1>0 DEF Lost
<1>2. Common(S) /\ Lists(S) /\ Blamed(S)
  BY DEF Facing, Rel, Common
<1>3. Lists(S)' /\ (failures > 0 \/ late = TRUE)'
  <2>1. UNCHANGED failures
    BY DEF core
  <2> QED
    BY <1>2, <2>1, KeepLists DEF Blamed
<1>4. Rel(T)'
  BY <1>0, <1>2, <1>3, LostRel
<1>5. Heard(T)'
  BY <1>1 DEF Heard, Unreported, lists
<1>6. Safe(q, T)
  BY <1>0 DEF Facing
<1> QED
  BY <1>4, <1>5, <1>6, TextOnwards

LEMMA SyncOnwards ==
  ASSUME NEW S, NEW f, NEW k, Facing(S, f, k), ~S.doom, Heard(S), NEW r \in -5 .. 0,
         NEW q, Text(q),
         <<q, Sync(r, S.sent, S.related, S.masked, S.base, S.world)>> \in Nexts(f, k, S),
         todo' = q, Going', ret' = r,
         UNCHANGED <<core, lists, masked, related, inList, late, port_setting_changed>>
  PROVE  IInv'
<1> DEFINE T == Sync(r, S.sent, S.related, S.masked, S.base, S.world)
<1>0. T = Sync(r, S.sent, S.related, S.masked, S.base, S.world)
  OBVIOUS
<1> HIDE DEF T
<1>1. T.doom = FALSE /\ T.sent = S.sent
  BY <1>0 DEF Sync
<1>2. Rel(S)
  BY DEF Facing
<1>3. Rel(T)'
  BY <1>0, <1>2, SyncRel
<1>4. Heard(T)'
  BY <1>1 DEF Heard, Unreported, lists
<1>5. Safe(q, T)
  BY <1>0 DEF Facing
<1> QED
  BY <1>3, <1>4, <1>5, TextOnwards

LEMMA StepReturn ==
  ASSUME NEW S, NEW f, NEW k, Facing(S, f, k), f.do = "return", ret' = f.value, todo' = k,
         Going',
         UNCHANGED <<core, lists, masked, related, inList, late, port_setting_changed>>
  PROVE  IInv'
<1> DEFINE r == f.value
<1>1. Text(k) /\ Heard(S) /\ Good(f, k, S) /\ Rel(S)
  BY DEF Facing
<1>2. r \in -5 .. 0
  BY <1>1 DEF Good, GoodSync, GoodLost
<1>3. CASE S.doom
  <2>1. <<k, Lost(r, S.told, S.base)>> \in Nexts(f, k, S)
    BY <1>3 DEF Nexts, NextsLost
  <2>2. S.told \in Comps \cup {None}
    BY <1>1, <1>3 DEF Rel, Blamed
  <2>3. ret' = r
    OBVIOUS
  <2> HIDE DEF r
  <2> QED
    BY <1>1, <1>2, <1>3, <2>1, <2>2, <2>3, LostOnwards
<1>4. CASE ~S.doom
  <2>1. <<k, Sync(r, S.sent, S.related, S.masked, S.base, S.world)>> \in Nexts(f, k, S)
    BY <1>4 DEF Nexts, NextsSync
  <2>3. ret' = r
    OBVIOUS
  <2> HIDE DEF r
  <2> QED
    BY <1>1, <1>2, <1>4, <2>1, <2>3, SyncOnwards
<1> QED
  BY <1>3, <1>4

LEMMA CompsFinite == IsFiniteSet(Comps)
<1> DEFINE A == {video_decode, video_scheduler, video_render}
           B == {video_clock, audio_render(1), audio_render(2)}
           C == {clock(1), clock(2)}
<1>1. IsFiniteSet(A) /\ IsFiniteSet(B) /\ IsFiniteSet(C)
  <2>1. IsFiniteSet(A)
    BY CountThree
  <2>2. IsFiniteSet(B)
    BY CountThree
  <2>3. C \subseteq {clock(1), clock(2), clock(2)}
    OBVIOUS
  <2>4. IsFiniteSet(C)
    BY <2>3, CountThree
  <2> QED
    BY <2>1, <2>2, <2>4
<1>2. Comps \subseteq (A \cup B) \cup C
  BY ComponentsAssumption DEF Components
<1> HIDE DEF A, B, C
<1>3. IsFiniteSet((A \cup B) \cup C)
  BY <1>1, FS_Union
<1> QED
  BY <1>2, <1>3, FS_Subset

LEMMA FailuresNat ==
  ASSUME Others
  PROVE  failures \in Nat
<1>1. failures \in 0 .. MaxFailures /\ MaxFailures \in Nat
  BY CoreAssumption DEF Others
<1> QED
  BY <1>1

LEMMA SmallerSet ==
  ASSUME NEW A, NEW B, NEW n \in Nat, A \subseteq B, B \subseteq Comps, Cardinality(B) <= n
  PROVE  Cardinality(A) <= n
<1>1. IsFiniteSet(B)
  BY CompsFinite, FS_Subset
<1>2. Cardinality(A) \in Nat /\ Cardinality(B) \in Nat /\ Cardinality(A) <= Cardinality(B)
  BY <1>1, FS_Subset, FS_CardinalityType
<1> QED
  BY <1>2

LEMMA Guilty ==
  ASSUME NEW S, Excused(S), failures \in Nat, S.world.spoiled \cup Suspects(S) # {}
  PROVE  failures > 0
<1> DEFINE D == S.world.spoiled \cup Suspects(S)
<1>1. D \subseteq Comps /\ Cardinality(D) <= failures /\ D # {}
  BY DEF Excused, Suspects
<1>2. IsFiniteSet(Comps)
  BY CompsFinite
<1> HIDE DEF D
<1>3. IsFiniteSet(D)
  BY <1>1, <1>2, FS_Subset
<1>4. Cardinality(D) \in Nat /\ Cardinality(D) # 0
  BY <1>1, <1>3, FS_CardinalityType, FS_EmptySet
<1> QED
  BY <1>1, <1>4

LEMMA Signs ==
  ASSUME NEW r \in -5 .. 0
  PROVE  r >= 0 \/ r < 0
OBVIOUS

LEMMA StepAssert ==
  ASSUME NEW S, NEW f, NEW k, Facing(S, f, k), f.do = "assert", todo' = k,
         ret >= 0 => Going', ret < 0 => ~Going' /\ failed' = "assertion",
         UNCHANGED <<core, lists, masked, related, inList, ret, late, port_setting_changed>>
  PROVE  IInv'
<1>1. Text(k) /\ Heard(S) /\ Good(f, k, S) /\ Rel(S) /\ Common(S)
  BY DEF Facing, Rel
<1>2. ret = S.ret /\ ret \in -5 .. 0 /\ failures \in Nat
  <2>1. Result(S) /\ Others
    BY <1>1 DEF Common
  <2>2. ret = S.ret /\ ret \in -5 .. 0
    BY <2>1 DEF Result
  <2>3. failures \in Nat
    BY <2>1, FailuresNat
  <2> QED
    BY <2>2, <2>3
<1>3. CASE ret >= 0
  <2>1. <<k, S>> \in Nexts(f, k, S)
    BY <1>2, <1>3 DEF Nexts, NextsLost, NextsSync
  <2>2. Going'
    BY <1>3
  <2> QED
    BY <1>1, <2>1, <2>2, StillOnwards
<1>4. CASE ret < 0
  <2>1. Common(S)'
    BY <1>1, KeepCommon, KeepLists DEF Common, Result
  <2>2. failures > 0 \/ late = TRUE
    <3>1. CASE S.doom
      BY <1>1, <3>1 DEF Rel, Blamed
    <3>2. CASE ~S.doom
      <4>1. S.world.spoiled # {} /\ Excused(S)
        BY <1>1, <1>2, <1>4, <3>2 DEF Good, GoodSync, Rel, InStep
      <4> QED
        BY <1>2, <4>1, Guilty
    <3> QED
      BY <3>1, <3>2
  <2>3. UNCHANGED failures /\ ~Going' /\ failed' = "assertion"
    BY <1>4 DEF core
  <2> QED
    BY <2>1, <2>2, <2>3 DEF IInv
<1>6. ret >= 0 \/ ret < 0
  BY <1>2, Signs
<1> QED
  BY <1>3, <1>4, <1>6
===============================================================================
