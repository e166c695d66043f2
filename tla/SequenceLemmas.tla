---------------------------- MODULE SequenceLemmas ----------------------------
(***************************************************************************)
(* Facts about the sequences that model the pipes and the descriptor       *)
(* chains: what one append or one head and tail does to the elements, to   *)
(* the set of them and to their number; and what a sum over a sequence     *)
(* needs, which is induction.  The library states induction over an        *)
(* arbitrary predicate; it is restated here over a set of numbers, which   *)
(* can be used for any predicate that defines one.                         *)
(***************************************************************************)
EXTENDS Integers, Sequences, FiniteSets, SequencesExt,
        SequenceTheorems, FiniteSetTheorems, WellFoundedInduction, TLAPS

LEMMA ToSetElements ==
  ASSUME NEW S, NEW s \in Seq(S)
  PROVE  /\ ToSet(s) \subseteq S
         /\ \A x : x \in ToSet(s) <=> \E i \in 1 .. Len(s) : x = s[i]
<1>1. DOMAIN s = 1 .. Len(s)
  OBVIOUS
<1> QED
  BY <1>1, ElementOfSeq DEF ToSet

LEMMA AppendElements ==
  ASSUME NEW S, NEW s \in Seq(S), NEW e \in S
  PROVE  /\ Append(s, e) \in Seq(S) /\ Append(s, e) # <<>>
         /\ Len(s) \in Nat /\ Len(Append(s, e)) = Len(s) + 1
         /\ \A i \in 1 .. Len(s) : Append(s, e)[i] = s[i]
         /\ Append(s, e)[Len(s) + 1] = e
         /\ ToSet(Append(s, e)) = ToSet(s) \cup {e}
<1> DEFINE t == Append(s, e)
<1>1. /\ t \in Seq(S) /\ t # <<>> /\ Len(t) = Len(s) + 1
      /\ \A i \in 1 .. Len(s) : t[i] = s[i]
      /\ t[Len(s) + 1] = e
  BY AppendProperties
<1>2. Len(s) \in Nat
  BY LenProperties
<1>3. ToSet(t) = ToSet(s) \cup {e}
  <2> HIDE DEF t
  <2>1. /\ \A x : x \in ToSet(s) <=> \E i \in 1 .. Len(s) : x = s[i]
        /\ \A x : x \in ToSet(t) <=> \E i \in 1 .. Len(t) : x = t[i]
    BY <1>1, ToSetElements
  <2>2. ASSUME NEW x \in ToSet(s) PROVE x \in ToSet(t)
    <3>1. PICK i \in 1 .. Len(s) : x = s[i]
      BY <2>1
    <3>2. i \in 1 .. Len(t) /\ x = t[i]
      BY <1>1, <1>2, <3>1
    <3> QED
      BY <2>1, <3>2
  <2>3. e \in ToSet(t)
    BY <1>1, <1>2, <2>1
  <2>4. ASSUME NEW x \in ToSet(t) PROVE x \in ToSet(s) \cup {e}
    <3>1. PICK i \in 1 .. Len(t) : x = t[i]
      BY <2>1
    <3>2. CASE i \in 1 .. Len(s)
      BY <1>1, <2>1, <3>1, <3>2
    <3>3. CASE i = Len(s) + 1
      BY <1>1, <3>1, <3>3
    <3> QED
      BY <1>1, <1>2, <3>1, <3>2, <3>3
  <2> QED
    BY <2>2, <2>3, <2>4
<1> QED
  BY <1>1, <1>2, <1>3

LEMMA HeadTailElements ==
  ASSUME NEW S, NEW s \in Seq(S), s # <<>>
  PROVE  /\ Len(s) \in Nat \ {0} /\ Head(s) = s[1] /\ Head(s) \in S
         /\ Tail(s) \in Seq(S) /\ Len(Tail(s)) = Len(s) - 1
         /\ \A i \in 1 .. Len(Tail(s)) : Tail(s)[i] = s[i + 1]
         /\ ToSet(s) = {Head(s)} \cup ToSet(Tail(s))
<1> DEFINE t == Tail(s)
<1>1. /\ Len(s) \in Nat \ {0} /\ Head(s) = s[1] /\ Head(s) \in S
      /\ t \in Seq(S) /\ Len(t) = Len(s) - 1
      /\ \A i \in 1 .. Len(t) : t[i] = s[i + 1]
  BY EmptySeq, HeadTailProperties
<1>2. ToSet(s) = {Head(s)} \cup ToSet(t)
  <2> HIDE DEF t
  <2>1. /\ \A x : x \in ToSet(s) <=> \E i \in 1 .. Len(s) : x = s[i]
        /\ \A x : x \in ToSet(t) <=> \E i \in 1 .. Len(t) : x = t[i]
    BY <1>1, ToSetElements
  <2>2. ASSUME NEW x \in ToSet(t) PROVE x \in ToSet(s)
    <3>1. PICK i \in 1 .. Len(t) : x = t[i]
      BY <2>1
    <3>2. i + 1 \in 1 .. Len(s) /\ x = s[i + 1]
      BY <1>1, <3>1
    <3> QED
      BY <2>1, <3>2
  <2>3. Head(s) \in ToSet(s)
    BY <1>1, <2>1
  <2>4. ASSUME NEW x \in ToSet(s) PROVE x \in {Head(s)} \cup ToSet(t)
    <3>1. PICK i \in 1 .. Len(s) : x = s[i]
      BY <2>1
    <3>2. CASE i = 1
      BY <1>1, <3>1, <3>2
    <3>3. CASE i # 1
      <4>1. i - 1 \in 1 .. Len(t) /\ x = t[i - 1]
        BY <1>1, <3>1, <3>3
      <4> QED
        BY <2>1, <4>1
    <3> QED
      BY <3>2, <3>3
  <2> QED
    BY <2>2, <2>3, <2>4
<1> QED
  BY <1>1, <1>2

LEMMA EmptyElements ==
  /\ ToSet(<<>>) = {} /\ Len(<<>>) = 0 /\ IsInjective(<<>>)
  /\ \A S : <<>> \in Seq(S)
  /\ \A S : \A s \in Seq(S) : s = <<>> <=> Len(s) = 0
<1>1. DOMAIN <<>> = {}
  OBVIOUS
<1>2. \A S : \A s \in Seq(S) : s = <<>> <=> Len(s) = 0
  BY EmptySeq
<1> QED
  BY <1>1, <1>2, EmptySeq DEF ToSet, IsInjective

(* A sequence without repetitions stays one when something new is put at   *)
(* its end, and when its first element is taken off.                       *)
LEMMA AppendInjectiveSeq ==
  ASSUME NEW S, NEW s \in Seq(S), NEW e \in S, IsInjective(s), e \notin ToSet(s)
  PROVE  IsInjective(Append(s, e))
<1> DEFINE t == Append(s, e)
<1>1. /\ t \in Seq(S) /\ Len(s) \in Nat /\ Len(t) = Len(s) + 1
      /\ \A i \in 1 .. Len(s) : t[i] = s[i] /\ s[i] # e
      /\ t[Len(s) + 1] = e
  BY AppendElements, ToSetElements
<1>2. \A i, j \in 1 .. Len(s) : s[i] = s[j] => i = j
  BY DEF IsInjective
<1>3. DOMAIN t = 1 .. Len(t)
  BY <1>1, LenProperties
<1> HIDE DEF t
<1>4. \A i, j \in 1 .. Len(t) : t[i] = t[j] => i = j
  BY <1>1, <1>2
<1>5. IsInjective(t)
  BY <1>3, <1>4 DEF IsInjective
<1> QED
  BY <1>5 DEF t

LEMMA TailInjectiveSeq ==
  ASSUME NEW S, NEW s \in Seq(S), s # <<>>, IsInjective(s)
  PROVE  IsInjective(Tail(s)) /\ Head(s) \notin ToSet(Tail(s))
<1> DEFINE t == Tail(s)
<1>1. /\ Len(s) \in Nat \ {0} /\ Head(s) = s[1]
      /\ t \in Seq(S) /\ Len(t) = Len(s) - 1
      /\ \A i \in 1 .. Len(t) : t[i] = s[i + 1]
  BY HeadTailElements
<1>2. \A i, j \in 1 .. Len(s) : s[i] = s[j] => i = j
  BY DEF IsInjective
<1>3. DOMAIN t = 1 .. Len(t)
  BY <1>1, LenProperties
<1> HIDE DEF t
<1>4. IsInjective(t)
  <2>1. \A i, j \in 1 .. Len(t) : t[i] = t[j] => i = j
    BY <1>1, <1>2
  <2> QED
    BY <1>3, <2>1 DEF IsInjective
<1>5. Head(s) \notin ToSet(t)
  BY <1>1, <1>2, ToSetElements
<1> QED
  BY <1>4, <1>5 DEF t

(* Two neighbours change places.                                           *)
LEMMA SwapIsSeq ==
  ASSUME NEW S, NEW s \in Seq(S), NEW i \in 1 .. Len(s) - 1
  PROVE  LET t == [s EXCEPT ![i] = s[i + 1], ![i + 1] = s[i]] IN
         /\ t \in Seq(S) /\ Len(t) = Len(s)
         /\ t[i] = s[i + 1] /\ t[i + 1] = s[i]
         /\ \A j \in 1 .. Len(s) : j # i /\ j # i + 1 => t[j] = s[j]
<1>1. Len(s) \in Nat /\ i \in 1 .. Len(s) /\ i + 1 \in 1 .. Len(s)
  BY LenProperties
<1> DEFINE t == [s EXCEPT ![i] = s[i + 1], ![i + 1] = s[i]]
<1> DEFINE u == [s EXCEPT ![i] = s[i + 1]]
<1>2. s[i] \in S /\ s[i + 1] \in S
  BY <1>1, ElementOfSeq
<1>3. /\ u \in Seq(S) /\ Len(u) = Len(s)
      /\ \A j \in 1 .. Len(s) : u[j] = IF j = i THEN s[i + 1] ELSE s[j]
  BY <1>1, <1>2, ExceptSeq
<1>4. t = [u EXCEPT ![i + 1] = s[i]]
  OBVIOUS
<1> HIDE DEF u
<1>5. /\ t \in Seq(S) /\ Len(t) = Len(u)
      /\ \A j \in 1 .. Len(u) : t[j] = IF j = i + 1 THEN s[i] ELSE u[j]
  BY <1>1, <1>2, <1>3, <1>4, ExceptSeq
<1> HIDE DEF t
<1>6. /\ t \in Seq(S) /\ Len(t) = Len(s)
      /\ t[i] = s[i + 1] /\ t[i + 1] = s[i]
      /\ \A j \in 1 .. Len(s) : j # i /\ j # i + 1 => t[j] = s[j]
  BY <1>1, <1>3, <1>5
<1> QED
  BY <1>6 DEF t

LEMMA SwapElements ==
  ASSUME NEW S, NEW s \in Seq(S), NEW i \in 1 .. Len(s) - 1, NEW t \in Seq(S),
         Len(t) = Len(s), t[i] = s[i + 1], t[i + 1] = s[i],
         \A j \in 1 .. Len(s) : j # i /\ j # i + 1 => t[j] = s[j]
  PROVE  ToSet(t) = ToSet(s) /\ (IsInjective(s) => IsInjective(t))
<1>1. Len(s) \in Nat /\ i \in 1 .. Len(s) /\ i + 1 \in 1 .. Len(s)
  BY LenProperties
<1>2. /\ t \in Seq(S) /\ Len(t) = Len(s) /\ t[i] = s[i + 1] /\ t[i + 1] = s[i]
      /\ \A j \in 1 .. Len(s) : j # i /\ j # i + 1 => t[j] = s[j]
  OBVIOUS
<1>3. ToSet(t) = ToSet(s)
  <2>1. /\ \A x : x \in ToSet(s) <=> \E j \in 1 .. Len(s) : x = s[j]
        /\ \A x : x \in ToSet(t) <=> \E j \in 1 .. Len(s) : x = t[j]
    <3>1. \A x : x \in ToSet(s) <=> \E j \in 1 .. Len(s) : x = s[j]
      BY ToSetElements
    <3>2. \A x : x \in ToSet(t) <=> \E j \in 1 .. Len(t) : x = t[j]
      BY ToSetElements
    <3> QED
      BY <1>2, <3>1, <3>2
  <2>2. ASSUME NEW j \in 1 .. Len(s) PROVE s[j] \in ToSet(t) /\ t[j] \in ToSet(s)
    <3>1. CASE j = i
      BY <1>1, <1>2, <2>1, <3>1
    <3>2. CASE j = i + 1
      BY <1>1, <1>2, <2>1, <3>2
    <3>3. CASE j # i /\ j # i + 1
      BY <1>2, <2>1, <3>3
    <3> QED
      BY <3>1, <3>2, <3>3
  <2> QED
    BY <2>1, <2>2, ZenonT(60)
<1>4. ASSUME IsInjective(s) PROVE IsInjective(t)
  <2>1. \A j, k \in 1 .. Len(s) : s[j] = s[k] => j = k
    BY <1>4, SMTT(30) DEF IsInjective
  <2>2. \A j, k \in 1 .. Len(s) : t[j] = t[k] => j = k
    <3> SUFFICES ASSUME NEW j \in 1 .. Len(s), NEW k \in 1 .. Len(s), t[j] = t[k]
                 PROVE  j = k
      OBVIOUS
    <3> QED
      BY <1>1, <1>2, <2>1
  <2>3. DOMAIN t = 1 .. Len(s)
    BY <1>2, LenProperties
  <2> QED
    BY <2>2, <2>3 DEF IsInjective
<1> QED
  BY <1>3, <1>4

LEMMA ToSetCardinality ==
  ASSUME NEW S, NEW s \in Seq(S)
  PROVE  /\ IsFiniteSet(ToSet(s))
         /\ IsInjective(s) => Cardinality(ToSet(s)) = Len(s)
<1>1. /\ Len(s) \in Nat /\ s \in [1 .. Len(s) -> ToSet(s)]
      /\ \A x \in ToSet(s) : \E i \in 1 .. Len(s) : s[i] = x
  <2>1. s \in [1 .. Len(s) -> S] /\ Len(s) \in Nat
    BY LenProperties
  <2> QED
    BY <2>1, ToSetElements
<1>2. s \in Surjection(1 .. Len(s), ToSet(s))
  BY <1>1 DEF Surjection
<1>3. IsFiniteSet(1 .. Len(s)) /\ Cardinality(1 .. Len(s)) = Len(s)
  <2>1. \A n \in Nat : IsFiniteSet(1 .. n) /\ Cardinality(1 .. n) = n
    <3> SUFFICES ASSUME NEW n \in Nat PROVE IsFiniteSet(1 .. n) /\ Cardinality(1 .. n) = n
      OBVIOUS
    <3>1. /\ IsFiniteSet(1 .. n)
          /\ Cardinality(1 .. n) = IF 1 > n THEN 0 ELSE n - 1 + 1
      BY FS_Interval
    <3> QED
      BY <3>1
  <2> QED
    BY <1>1, <2>1
<1>4. IsInjective(s) => s \in Injection(1 .. Len(s), ToSet(s))
  BY <1>1 DEF Injection
<1> QED
  BY <1>2, <1>3, <1>4, FS_Surjection

(* Two finite sets without a common element.                               *)
LEMMA DisjointCardinality ==
  ASSUME NEW S, NEW T, IsFiniteSet(S), IsFiniteSet(T), S \cap T = {}
  PROVE  /\ IsFiniteSet(S \cup T)
         /\ Cardinality(S) \in Nat /\ Cardinality(T) \in Nat
         /\ Cardinality(S \cup T) = Cardinality(S) + Cardinality(T)
<1>1. Cardinality(S) \in Nat /\ Cardinality(T) \in Nat /\ Cardinality(S \cap T) = 0
  BY FS_CardinalityType, FS_EmptySet
<1>2. /\ IsFiniteSet(S \cup T)
      /\ Cardinality(S \cup T) = Cardinality(S) + Cardinality(T) - Cardinality(S \cap T)
  BY FS_Union
<1> QED
  BY <1>1, <1>2

(* A pipe and what was taken off it: one element put on the pipe comes     *)
(* last, and one that is taken off it changes nothing of the two together. *)
LEMMA PutOnPipe ==
  ASSUME NEW S, NEW s \in Seq(S), NEW t \in Seq(S), NEW e \in S
  PROVE  s \o Append(t, e) = (s \o t) \o <<e>> /\ Append(t, e) \in Seq(S)
<1>1. Append(t, e) = t \o <<e>> /\ <<e>> \in Seq(S) /\ Append(t, e) \in Seq(S)
  BY AppendIsConcat, AppendProperties
<1> QED
  BY <1>1, ConcatAssociative

LEMMA TakeOffPipe ==
  ASSUME NEW S, NEW s \in Seq(S), NEW t \in Seq(S), t # <<>>
  PROVE  /\ Append(s, Head(t)) \o Tail(t) = s \o t
         /\ Append(s, Head(t)) \in Seq(S) /\ Tail(t) \in Seq(S)
<1> DEFINE h == Head(t)
           u == Tail(t)
           c == Append(s, h)
           a == c \o u
           b == s \o t
           n == Len(s)
           m == Len(t)
<1>1. /\ m \in Nat \ {0} /\ h = t[1] /\ h \in S
      /\ u \in Seq(S) /\ Len(u) = m - 1
      /\ \A i \in 1 .. Len(u) : u[i] = t[i + 1]
  BY HeadTailElements
<1> HIDE DEF h, u
<1>2. /\ c \in Seq(S) /\ n \in Nat /\ Len(c) = n + 1
      /\ \A i \in 1 .. n : c[i] = s[i]
      /\ c[n + 1] = h
  BY <1>1, AppendElements
<1> HIDE DEF c
<1>3. /\ a \in Seq(S) /\ Len(a) = Len(c) + Len(u)
      /\ \A i \in 1 .. Len(c) + Len(u) : a[i] = IF i <= Len(c) THEN c[i] ELSE u[i - Len(c)]
  BY <1>1, <1>2, ConcatProperties
<1>4. /\ b \in Seq(S) /\ Len(b) = n + m
      /\ \A i \in 1 .. n + m : b[i] = IF i <= n THEN s[i] ELSE t[i - n]
  BY ConcatProperties
<1> HIDE DEF a, b, n, m
<1>5. Len(c) + Len(u) = n + m
  BY <1>1, <1>2
<1>6. ASSUME NEW i \in 1 .. n + m PROVE a[i] = b[i]
  <2>1. CASE i <= n
    <3>1. i <= n + 1 /\ i \in 1 .. n
      BY <1>1, <1>2, <2>1
    <3>2. a[i] = c[i] /\ b[i] = s[i]
      BY <1>2, <1>3, <1>4, <1>5, <2>1, <3>1
    <3> QED
      BY <1>2, <3>1, <3>2
  <2>2. CASE i = n + 1
    <3>1. i <= n + 1 /\ ~ (i <= n) /\ i - n = 1
      BY <1>2, <2>2
    <3>2. a[i] = c[i] /\ b[i] = t[i - n]
      BY <1>2, <1>3, <1>4, <1>5, <3>1
    <3> QED
      BY <1>1, <1>2, <2>2, <3>1, <3>2
  <2>3. CASE i > n + 1
    <3> DEFINE j == i - (n + 1)
    <3>1. j \in 1 .. Len(u) /\ j + 1 = i - n /\ ~ (i <= n) /\ ~ (i <= n + 1)
      BY <1>1, <1>2, <2>3
    <3>2. a[i] = u[j] /\ b[i] = t[i - n]
      BY <1>2, <1>3, <1>4, <1>5, <3>1
    <3> QED
      BY <1>1, <3>1, <3>2
  <2> QED
    BY <1>1, <1>2, <2>1, <2>2, <2>3
<1>7. a = b
  BY <1>3, <1>4, <1>5, <1>6, SeqEqual
<1> QED
  BY <1>1, <1>2, <1>7 DEF a, b, c, h, u

-----------------------------------------------------------------------------
(* Every set of numbers that is not empty has a least one, and so a set    *)
(* with 0 and the successor of each of its members has all.  (Induction    *)
(* over the numbers, as a fact about a set.)                               *)
LEMMA LeastNumber ==
  ASSUME NEW T \in SUBSET Nat, T # {}
  PROVE  \E m \in T : \A k \in T : m <= k
<1> DEFINE R == StrictSubsetOrdering(Nat)
           F == FiniteSubsetsOf(Nat)
           B(n) == 1 .. n
           U == {B(n) : n \in T}
<1>1. IsWellFoundedOn(R, F)
  BY FS_StrictSubsetOrderingWellFounded
<1>2. U \subseteq F
  <2> SUFFICES ASSUME NEW n \in T PROVE 1 .. n \in F
    OBVIOUS
  <2>1. IsFiniteSet(1 .. n)
    BY FS_Interval
  <2> QED
    BY <2>1 DEF FiniteSubsetsOf
<1>3. U # {}
  OBVIOUS
<1> HIDE DEF R, F, U
<1>4. PICK x \in U : \A y \in U : ~ (<<y, x>> \in R)
  BY <1>1, <1>2, <1>3, WFMin
<1>5. PICK m \in T : x = 1 .. m
  BY DEF U
<1>6. ASSUME NEW k \in T, k < m PROVE FALSE
  <2>1. 1 .. k \in U
    BY DEF U
  <2>2. 1 .. k \subseteq 1 .. m /\ 1 .. k \subseteq Nat /\ 1 .. m \subseteq Nat
    BY <1>6
  <2>3. m \in 1 .. m /\ m \notin 1 .. k
    BY <1>6
  <2>4. <<1 .. k, 1 .. m>> \in R
    BY <2>2, <2>3 DEF R, StrictSubsetOrdering
  <2> QED
    BY <1>4, <1>5, <2>1, <2>4
<1> QED
  BY <1>6

LEMMA NumberInduction ==
  ASSUME NEW T \in SUBSET Nat, 0 \in T, \A n \in T : n + 1 \in T
  PROVE  T = Nat
<1> SUFFICES ASSUME Nat \ T # {} PROVE FALSE
  OBVIOUS
<1>1. PICK m \in Nat \ T : \A k \in Nat \ T : m <= k
  BY LeastNumber
<1>2. m # 0 /\ m - 1 \in Nat /\ ~ (m <= m - 1)
  OBVIOUS
<1>3. m - 1 \in T
  BY <1>1, <1>2
<1> QED
  BY <1>2, <1>3

(* The running sum that a recursive function over 0 .. n defines exists,   *)
(* and two of them agree as far as what they add does.                     *)
IsSum(g, h, n) == g = [i \in 0 .. n |-> IF i = 0 THEN 0 ELSE g[i - 1] + h[i]]

LEMMA SumExists ==
  ASSUME NEW n \in Nat, NEW h, \A i \in 1 .. n : h[i] \in Nat
  PROVE  \E g \in [0 .. n -> Nat] : IsSum(g, h, n)
<1> DEFINE S(m) == \E g \in [0 .. m -> Nat] : IsSum(g, h, m)
           T == {m \in Nat : m <= n => S(m)}
<1>1. 0 \in T
  <2> DEFINE g == [i \in 0 .. 0 |-> 0]
  <2>1. g \in [0 .. 0 -> Nat] /\ IsSum(g, h, 0)
    BY DEF IsSum
  <2> QED
    BY <2>1
<1>2. ASSUME NEW m \in T PROVE m + 1 \in T
  <2> SUFFICES ASSUME m + 1 <= n PROVE S(m + 1)
    OBVIOUS
  <2>1. m <= n /\ m + 1 \in 1 .. n /\ h[m + 1] \in Nat
    OBVIOUS
  <2>2. PICK g \in [0 .. m -> Nat] : IsSum(g, h, m)
    BY <2>1
  <2> DEFINE f == [i \in 0 .. m + 1 |-> IF i = m + 1 THEN g[m] + h[m + 1] ELSE g[i]]
  <2>3. f \in [0 .. m + 1 -> Nat]
    BY <2>1
  <2>4. \A i \in 0 .. m : g[i] = IF i = 0 THEN 0 ELSE g[i - 1] + h[i]
    BY <2>2 DEF IsSum
  <2>5. ASSUME NEW i \in 0 .. m + 1
        PROVE  f[i] = IF i = 0 THEN 0 ELSE f[i - 1] + h[i]
    <3>1. CASE i = m + 1
      BY <3>1
    <3>2. CASE i \in 0 .. m
      BY <2>4, <3>2
    <3> QED
      BY <3>1, <3>2
  <2> HIDE DEF f
  <2>6. IsSum(f, h, m + 1)
    BY <2>3, <2>5 DEF IsSum
  <2> QED
    BY <2>3, <2>6
<1> HIDE DEF S
<1>3. T = Nat
  BY <1>1, <1>2, NumberInduction
<1> QED
  BY <1>3 DEF S

LEMMA SumsAgree ==
  ASSUME NEW n \in Nat, NEW m \in Nat, m <= n, NEW h, NEW k, NEW f, NEW g,
         \A i \in 1 .. m : h[i] = k[i], IsSum(f, h, m), IsSum(g, k, n)
  PROVE  \A i \in 0 .. m : f[i] = g[i]
<1>1. \A i \in 0 .. m : f[i] = IF i = 0 THEN 0 ELSE f[i - 1] + h[i]
  BY DEF IsSum
<1>2. \A i \in 0 .. n : g[i] = IF i = 0 THEN 0 ELSE g[i - 1] + k[i]
  BY DEF IsSum
<1> DEFINE T == {i \in Nat : i <= m => f[i] = g[i]}
<1>3. 0 \in T
  BY <1>1, <1>2
<1>4. ASSUME NEW i \in T PROVE i + 1 \in T
  <2> SUFFICES ASSUME i + 1 <= m PROVE f[i + 1] = g[i + 1]
    OBVIOUS
  <2>1. f[i] = g[i] /\ i + 1 \in 0 .. m /\ i + 1 \in 0 .. n /\ i + 1 \in 1 .. m /\ i + 1 # 0
    OBVIOUS
  <2>2. f[i + 1] = f[i] + h[i + 1] /\ g[i + 1] = g[i] + k[i + 1]
    BY <1>1, <1>2, <2>1
  <2> QED
    BY <2>1, <2>2
<1>5. T = Nat
  BY <1>3, <1>4, NumberInduction
<1> QED
  BY <1>5
-----------------------------------------------------------------------------
(* What FlattenSeq returns, one sequence after the other.                  *)
IsFlat(g, s, n) == g = [i \in 1 .. n |-> IF i = 1 THEN s[i] ELSE g[i - 1] \o s[i]]

LEMMA FlatExists ==
  ASSUME NEW S, NEW n \in Nat, NEW s, \A i \in 1 .. n : s[i] \in Seq(S)
  PROVE  \E g \in [1 .. n -> Seq(S)] : IsFlat(g, s, n)
<1> DEFINE E(m) == \E g \in [1 .. m -> Seq(S)] : IsFlat(g, s, m)
           T == {m \in Nat : m <= n => E(m)}
<1>1. 0 \in T
  <2> DEFINE g == [i \in 1 .. 0 |-> <<>>]
  <2>1. g \in [1 .. 0 -> Seq(S)] /\ IsFlat(g, s, 0)
    BY DEF IsFlat
  <2> QED
    BY <2>1
<1>2. ASSUME NEW m \in T PROVE m + 1 \in T
  <2> SUFFICES ASSUME m + 1 <= n PROVE E(m + 1)
    OBVIOUS
  <2>1. m <= n /\ m + 1 \in 1 .. n /\ s[m + 1] \in Seq(S)
    OBVIOUS
  <2>2. PICK g \in [1 .. m -> Seq(S)] : IsFlat(g, s, m)
    BY <2>1
  <2> DEFINE f == [i \in 1 .. m + 1 |->
                     IF i = m + 1 THEN IF m = 0 THEN s[m + 1] ELSE g[m] \o s[m + 1]
                     ELSE g[i]]
  <2>3. m # 0 => g[m] \o s[m + 1] \in Seq(S)
    BY <2>1, ConcatProperties
  <2>4. f \in [1 .. m + 1 -> Seq(S)]
    BY <2>1, <2>3
  <2>5. \A i \in 1 .. m : g[i] = IF i = 1 THEN s[i] ELSE g[i - 1] \o s[i]
    BY <2>2 DEF IsFlat
  <2>6. /\ \A i \in 1 .. m : f[i] = g[i]
        /\ f[m + 1] = IF m = 0 THEN s[m + 1] ELSE g[m] \o s[m + 1]
    <3>1. \A i \in 1 .. m : i \in 1 .. m + 1 /\ i # m + 1
      BY <2>1
    <3>2. m + 1 \in 1 .. m + 1
      BY <2>1
    <3> QED
      BY <3>1, <3>2
  <2> HIDE DEF f
  <2>7. ASSUME NEW i \in 1 .. m + 1
        PROVE  f[i] = IF i = 1 THEN s[i] ELSE f[i - 1] \o s[i]
    <3>1. CASE i = m + 1 /\ m = 0
      BY <2>6, <3>1
    <3>2. CASE i = m + 1 /\ m # 0
      <4>1. i - 1 = m /\ i # 1 /\ m \in 1 .. m
        BY <3>2
      <4> QED
        BY <2>6, <3>2, <4>1
    <3>3. CASE i \in 1 .. m
      <4>1. i # 1 => i - 1 \in 1 .. m
        BY <3>3
      <4> QED
        BY <2>5, <2>6, <3>3, <4>1
    <3> QED
      BY <3>1, <3>2, <3>3
  <2>8. IsFlat(f, s, m + 1)
    BY <2>4, <2>7 DEF IsFlat
  <2> QED
    BY <2>4, <2>8
<1> HIDE DEF E
<1>3. T = Nat
  BY <1>1, <1>2, NumberInduction
<1> QED
  BY <1>3 DEF E

LEMMA FlatsAgree ==
  ASSUME NEW n \in Nat, NEW m \in Nat, m <= n, NEW s, NEW t, NEW f, NEW g,
         \A i \in 1 .. m : s[i] = t[i], IsFlat(f, s, m), IsFlat(g, t, n)
  PROVE  \A i \in 1 .. m : f[i] = g[i]
<1>1. \A i \in 1 .. m : f[i] = IF i = 1 THEN s[i] ELSE f[i - 1] \o s[i]
  BY DEF IsFlat
<1>2. \A i \in 1 .. n : g[i] = IF i = 1 THEN t[i] ELSE g[i - 1] \o t[i]
  BY DEF IsFlat
<1> DEFINE T == {i \in Nat : i \in 1 .. m => f[i] = g[i]}
<1>3. 0 \in T
  OBVIOUS
<1>4. ASSUME NEW i \in T PROVE i + 1 \in T
  <2> SUFFICES ASSUME i + 1 <= m PROVE f[i + 1] = g[i + 1]
    OBVIOUS
  <2>1. i + 1 \in 1 .. m /\ i + 1 \in 1 .. n /\ s[i + 1] = t[i + 1]
    OBVIOUS
  <2>2. CASE i = 0
    BY <1>1, <1>2, <2>1, <2>2
  <2>3. CASE i # 0
    <3>1. f[i] = g[i] /\ i + 1 # 1 /\ (i + 1) - 1 = i
      BY <2>1, <2>3
    <3>2. f[i + 1] = f[i] \o s[i + 1] /\ g[i + 1] = g[i] \o t[i + 1]
      BY <1>1, <1>2, <2>1, <3>1
    <3> QED
      BY <2>1, <3>1, <3>2
  <2> QED
    BY <2>2, <2>3
<1>5. T = Nat
  BY <1>3, <1>4, NumberInduction
<1> QED
  BY <1>5

LEMMA FlatLast ==
  ASSUME NEW n \in Nat, NEW t, NEW g, IsFlat(g, t, n + 1)
  PROVE  g[n + 1] = IF n = 0 THEN t[n + 1] ELSE g[n] \o t[n + 1]
<1> DEFINE m == n + 1
<1>1. \A i \in 1 .. m : g[i] = IF i = 1 THEN t[i] ELSE g[i - 1] \o t[i]
  BY DEF IsFlat
<1>2. m \in 1 .. m /\ m - 1 = n /\ (m = 1 <=> n = 0)
  OBVIOUS
<1> HIDE DEF m
<1>3. g[m] = IF m = 1 THEN t[m] ELSE g[m - 1] \o t[m]
  BY <1>1, <1>2
<1>4. CASE n = 0
  BY <1>2, <1>3, <1>4 DEF m
<1>5. CASE n # 0
  <2>1. g[m] = g[m - 1] \o t[m]
    BY <1>2, <1>3, <1>5
  <2>2. g[m] = g[n] \o t[m]
    BY <1>2, <2>1
  <2> QED
  BY <1>5, <2>2 DEF m
<1> QED
  BY <1>4, <1>5

LEMMA FlatOfMore ==
  ASSUME NEW n \in Nat, NEW s, NEW t, NEW f, NEW g,
         \A i \in 1 .. n : s[i] = t[i], IsFlat(f, s, n), IsFlat(g, t, n + 1)
  PROVE  n # 0 => f[n] = g[n]
<1> DEFINE m == n + 1
<1>1. m \in Nat /\ n <= m /\ IsFlat(g, t, m)
  OBVIOUS
<1> HIDE DEF m
<1>2. \A i \in 1 .. n : f[i] = g[i]
  BY <1>1, FlatsAgree
<1> QED
  BY <1>2

LEMMA FlattenIs ==
  ASSUME NEW S, NEW s \in Seq(Seq(S)), Len(s) # 0
  PROVE  \E g \in [1 .. Len(s) -> Seq(S)] :
            IsFlat(g, s, Len(s)) /\ FlattenSeq(s) = g[Len(s)]
<1> DEFINE G == CHOOSE g : IsFlat(g, s, Len(s))
<1>1. Len(s) \in Nat /\ \A i \in 1 .. Len(s) : s[i] \in Seq(S)
  BY LenProperties, ElementOfSeq
<1>2. PICK f \in [1 .. Len(s) -> Seq(S)] : IsFlat(f, s, Len(s))
  BY <1>1, FlatExists
<1>3. IsFlat(G, s, Len(s))
  BY <1>2
<1>4. FlattenSeq(s) = G[Len(s)]
  BY DEF FlattenSeq, IsFlat
<1> HIDE DEF G
<1>5. \A i \in 1 .. Len(s) : G[i] = f[i]
  BY <1>1, <1>2, <1>3, FlatsAgree
<1>6. Len(s) \in 1 .. Len(s)
  BY <1>1
<1> QED
  BY <1>2, <1>4, <1>5, <1>6

LEMMA FlattenEmpty == FlattenSeq(<<>>) = <<>>
  BY DEF FlattenSeq

LEMMA FlattenType ==
  ASSUME NEW S, NEW s \in Seq(Seq(S)) PROVE FlattenSeq(s) \in Seq(S)
<1>1. Len(s) \in Nat
  BY LenProperties
<1>2. CASE Len(s) = 0
  BY <1>2, FlattenEmpty, EmptyElements
<1>3. CASE Len(s) # 0
  <2>1. PICK g \in [1 .. Len(s) -> Seq(S)] : FlattenSeq(s) = g[Len(s)]
    BY <1>3, FlattenIs
  <2>2. Len(s) \in 1 .. Len(s)
    BY <1>1, <1>3
  <2> QED
    BY <2>1, <2>2
<1> QED
  BY <1>2, <1>3

LEMMA FlattenAppend ==
  ASSUME NEW S, NEW s \in Seq(Seq(S)), NEW e \in Seq(S)
  PROVE  FlattenSeq(Append(s, e)) = FlattenSeq(s) \o e
<1> DEFINE t == Append(s, e)
           n == Len(s)
<1>1. /\ t \in Seq(Seq(S)) /\ n \in Nat /\ Len(t) = n + 1
      /\ \A i \in 1 .. n : t[i] = s[i]
      /\ t[n + 1] = e
  BY AppendElements
<1> HIDE DEF t
<1>2. PICK g : IsFlat(g, t, n + 1) /\ FlattenSeq(t) = g[n + 1]
  <2>1. Len(t) # 0
    BY <1>1
  <2>2. \E g \in [1 .. Len(t) -> Seq(S)] : IsFlat(g, t, Len(t)) /\ FlattenSeq(t) = g[Len(t)]
    BY <1>1, <2>1, FlattenIs
  <2> QED
    BY <1>1, <2>2
<1>3. g[n + 1] = IF n = 0 THEN e ELSE g[n] \o e
  <2>1. n \in Nat /\ IsFlat(g, t, n + 1)
    BY <1>1, <1>2
  <2> HIDE DEF n
  <2>2. g[n + 1] = IF n = 0 THEN t[n + 1] ELSE g[n] \o t[n + 1]
    BY <2>1, FlatLast
  <2> QED
    BY <1>1, <2>2
<1>4. CASE n = 0
  <2>1. s = <<>>
    BY <1>4, EmptySeq
  <2>2. FlattenSeq(s) = <<>> /\ <<>> \o e = e
    BY <2>1, FlattenEmpty, ConcatEmptySeq
  <2> QED
    BY <1>2, <1>3, <1>4, <2>2 DEF t
<1>5. CASE n # 0
  <2>1. PICK f : IsFlat(f, s, n) /\ FlattenSeq(s) = f[n]
    BY <1>1, <1>5, FlattenIs
  <2>2. /\ n \in Nat /\ \A i \in 1 .. n : s[i] = t[i]
        /\ IsFlat(f, s, n) /\ IsFlat(g, t, n + 1)
    BY <1>1, <1>2, <2>1
  <2>3. f[n] = g[n]
    <3> HIDE DEF n
    <3>1. n # 0 => f[n] = g[n]
      BY <2>2, FlatOfMore
    <3> QED
      BY <1>5, <3>1
  <2> QED
    BY <1>2, <1>3, <1>5, <2>1, <2>3 DEF t
<1> QED
  BY <1>4, <1>5

LEMMA FlattenOne ==
  ASSUME NEW S, NEW e \in Seq(S) PROVE FlattenSeq(<<e>>) = e
<1>1. Append(<<>>, e) = <<e>> /\ <<>> \in Seq(Seq(S))
  OBVIOUS
<1>2. FlattenSeq(Append(<<>>, e)) = FlattenSeq(<<>>) \o e
  BY <1>1, FlattenAppend
<1> QED
  BY <1>1, <1>2, FlattenEmpty, ConcatEmptySeq

(* Concatenation, in any order.                                            *)
AnyOrder(Q) == \A a, b, c \in Q : (a \o b) \o c = a \o (b \o c)

LEMMA ConcatInAnyOrder ==
  ASSUME NEW S PROVE AnyOrder(Seq(S))
BY ConcatAssociative DEF AnyOrder

LEMMA FlattenConcat ==
  ASSUME NEW S, NEW s \in Seq(Seq(S)), NEW t \in Seq(Seq(S))
  PROVE  FlattenSeq(s \o t) = FlattenSeq(s) \o FlattenSeq(t)
<1>0. AnyOrder(Seq(S))
  BY ConcatInAnyOrder
<1> DEFINE P(k) == \A u \in Seq(Seq(S)) :
                     Len(u) = k => FlattenSeq(s \o u) = FlattenSeq(s) \o FlattenSeq(u)
           T == {k \in Nat : P(k)}
<1>1. 0 \in T
  <2> SUFFICES ASSUME NEW u \in Seq(Seq(S)), Len(u) = 0
               PROVE  FlattenSeq(s \o u) = FlattenSeq(s) \o FlattenSeq(u)
    OBVIOUS
  <2>1. u = <<>>
    BY EmptySeq
  <2>2. s \o <<>> = s /\ FlattenSeq(s) \in Seq(S)
    BY ConcatEmptySeq, FlattenType
  <2>3. FlattenSeq(s) \o <<>> = FlattenSeq(s)
    BY <2>2, ConcatEmptySeq
  <2> QED
    BY <2>1, <2>2, <2>3, FlattenEmpty
<1>2. ASSUME NEW k \in T PROVE k + 1 \in T
  <2> SUFFICES ASSUME NEW u \in Seq(Seq(S)), Len(u) = k + 1
               PROVE  FlattenSeq(s \o u) = FlattenSeq(s) \o FlattenSeq(u)
    OBVIOUS
  <2>1. PICK v \in Seq(Seq(S)), e \in Seq(S) : u = Append(v, e)
    <3>1. u # <<>>
      BY EmptyElements
    <3> QED
      BY <3>1, SequenceEmptyOrAppend
  <2>2. Len(v) = k
    <3>1. Len(u) = Len(v) + 1 /\ Len(v) \in Nat
      BY <2>1, AppendElements
    <3> QED
      BY <3>1
  <2>3. FlattenSeq(s \o v) = FlattenSeq(s) \o FlattenSeq(v)
    BY <2>2
  <2>4. s \o u = Append(s \o v, e) /\ s \o v \in Seq(Seq(S))
    <3>1. u = v \o <<e>> /\ <<e>> \in Seq(Seq(S)) /\ s \o v \in Seq(Seq(S))
      BY <2>1, AppendIsConcat, ConcatProperties
    <3>2. s \o (v \o <<e>>) = (s \o v) \o <<e>>
      BY <3>1, ConcatAssociative, SMTT(30)
    <3>3. Append(s \o v, e) = (s \o v) \o <<e>>
      BY <3>1, AppendIsConcat
    <3> QED
      BY <3>1, <3>2, <3>3
  <2>5. FlattenSeq(s \o u) = FlattenSeq(s \o v) \o e
    BY <2>4, FlattenAppend
  <2>6. FlattenSeq(u) = FlattenSeq(v) \o e
    BY <2>1, FlattenAppend
  <2>7. FlattenSeq(s) \in Seq(S) /\ FlattenSeq(v) \in Seq(S)
    BY FlattenType
  <2>8. (FlattenSeq(s) \o FlattenSeq(v)) \o e = FlattenSeq(s) \o (FlattenSeq(v) \o e)
    BY <1>0, <2>1, <2>7 DEF AnyOrder
  <2> QED
    BY <2>3, <2>5, <2>6, <2>8
<1> HIDE DEF P
<1>3. T = Nat
  BY <1>1, <1>2, NumberInduction
<1>4. Len(t) \in Nat
  BY LenProperties
<1>5. P(Len(t))
  BY <1>3, <1>4
<1> QED
  BY <1>5 DEF P

(* The first sequence, and the rest.                                       *)
LEMMA FlattenHeadTail ==
  ASSUME NEW S, NEW s \in Seq(Seq(S)), s # <<>>
  PROVE  FlattenSeq(s) = Head(s) \o FlattenSeq(Tail(s))
<1>1. Head(s) \in Seq(S) /\ Tail(s) \in Seq(Seq(S)) /\ <<>> \in Seq(Seq(S))
  BY HeadTailElements, EmptyElements
<1>2. Append(<<>>, Head(s)) \o Tail(s) = <<>> \o s /\ Append(<<>>, Head(s)) = <<Head(s)>>
  BY <1>1, TakeOffPipe
<1>3. <<Head(s)>> \in Seq(Seq(S)) /\ <<Head(s)>> \o Tail(s) = s
  <2>1. <<>> \o s = s
    BY ConcatEmptySeq
  <2> QED
    BY <1>1, <1>2, <2>1
<1>4. FlattenSeq(<<Head(s)>> \o Tail(s)) = FlattenSeq(<<Head(s)>>) \o FlattenSeq(Tail(s))
  BY <1>1, <1>3, FlattenConcat
<1> QED
  BY <1>1, <1>3, <1>4, FlattenOne

LEMMA FlattenLength ==
  ASSUME NEW S, NEW s \in Seq(Seq(S)), NEW m \in Nat,
         \A i \in 1 .. Len(s) : Len(s[i]) <= m
  PROVE  Len(FlattenSeq(s)) \in Nat /\ Len(FlattenSeq(s)) <= m * Len(s)
<1> DEFINE Short(u) == \A i \in 1 .. Len(u) : Len(u[i]) <= m
           P(k) == \A u \in Seq(Seq(S)) :
                     Len(u) = k /\ Short(u) => Len(FlattenSeq(u)) <= m * k
           T == {k \in Nat : P(k)}
<1>1. 0 \in T
  <2> SUFFICES ASSUME NEW u \in Seq(Seq(S)), Len(u) = 0 PROVE Len(FlattenSeq(u)) <= m * 0
    OBVIOUS
  <2>1. u = <<>>
    BY EmptySeq
  <2> QED
    BY <2>1, FlattenEmpty, EmptyElements
<1>2. ASSUME NEW k \in T PROVE k + 1 \in T
  <2> SUFFICES ASSUME NEW u \in Seq(Seq(S)), Len(u) = k + 1, Short(u)
               PROVE  Len(FlattenSeq(u)) <= m * (k + 1)
    OBVIOUS
  <2>1. PICK v \in Seq(Seq(S)), e \in Seq(S) : u = Append(v, e)
    <3>1. u # <<>>
      BY EmptyElements
    <3> QED
      BY <3>1, SequenceEmptyOrAppend
  <2>2. /\ Len(v) = k /\ u[k + 1] = e /\ \A i \in 1 .. k : u[i] = v[i]
    <3>1. /\ Len(u) = Len(v) + 1 /\ Len(v) \in Nat /\ u[Len(v) + 1] = e
          /\ \A i \in 1 .. Len(v) : u[i] = v[i]
      BY <2>1, AppendElements
    <3>2. Len(v) = k
      BY <3>1
    <3> QED
      BY <3>1, <3>2
  <2>3. Short(v) /\ Len(e) <= m
    <3>1. k + 1 \in 1 .. k + 1 /\ \A i \in 1 .. k : i \in 1 .. k + 1
      OBVIOUS
    <3> QED
      BY <2>2, <3>1
  <2>4. Len(FlattenSeq(v)) <= m * k
    BY <2>2, <2>3
  <2>5. FlattenSeq(u) = FlattenSeq(v) \o e /\ FlattenSeq(v) \in Seq(S)
    BY <2>1, FlattenAppend, FlattenType
  <2>6. /\ Len(FlattenSeq(u)) = Len(FlattenSeq(v)) + Len(e)
        /\ Len(FlattenSeq(v)) \in Nat /\ Len(e) \in Nat
    BY <2>5, ConcatProperties, LenProperties
  <2>7. m * (k + 1) = m * k + m /\ m * k \in Nat
    OBVIOUS
  <2> QED
    BY <2>3, <2>4, <2>6, <2>7
<1> HIDE DEF P
<1>3. T = Nat
  BY <1>1, <1>2, NumberInduction
<1>4. Len(s) \in Nat /\ Len(FlattenSeq(s)) \in Nat
  BY LenProperties, FlattenType
<1>5. P(Len(s))
  BY <1>3, <1>4
<1> QED
  BY <1>4, <1>5 DEF P
=============================================================================
