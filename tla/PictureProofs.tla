---------------------------- MODULE PictureProofs -----------------------------
(***************************************************************************)
(* Theorems about the path of the picture: first the video decoder, which  *)
(* chains the packets of a slice, then the video scheduler, which copies   *)
(* the slices of the pipe between the two into the hardware's buffers and  *)
(* shows them in time.                                                     *)
(***************************************************************************)
EXTENDS VideoDecoder, VideoScheduler, SequenceLemmas

(***************************************************************************)
(* For slices of any number of packets of any number of cells, any losses  *)
(* and any order of arrival: the chain of the slice thread and its counter *)
(* agree and no packet is in two places; and while packets arrive in order *)
(* the stamps of the slices grow.  For every dumped slice to be the        *)
(* beginning of one the counter must be able to see a gap, which is a      *)
(* condition on the network and is stated as one (GapsSeen); packets that  *)
(* arrive in order meet it if those that may be lost carry fewer cells     *)
(* than the counter counts (PrefixesInOrder).                              *)
(*                                                                         *)
(* Ownership is not inductive: a packet that is taken off the queue must   *)
(* be new to every other place (Apart), and so must one that is sent,      *)
(* whose cells are above all the cells that arrived (Known).               *)
(***************************************************************************)

Waiting == ToSet(queue)

Arrived == Waiting \cup Gathered \cup Dumped \cup freed \cup leaked

Known == \A p \in Arrived : p.first <= p.last /\ p.last <= cell

Apart ==
  /\ IsInjective(queue) /\ IsInjective(slice_chain)
  /\ Waiting \cap (Gathered \cup Dumped \cup freed \cup leaked) = {}
  /\ Gathered \cap (Dumped \cup freed \cup leaked) = {}
  /\ Dumped \cap (freed \cup leaked) = {}
  /\ freed \cap leaked = {}
  /\ IsFiniteSet(Dumped) /\ IsFiniteSet(freed) /\ IsFiniteSet(leaked)

ChainsApart ==
  \A i, j \in 1 .. Len(slices) :
    i # j => ToSet(slices[i].chain) \cap ToSet(slices[j].chain) = {}

IInv == TypeOK /\ Known /\ Apart /\ ChainsApart /\ ChainCounted

-----------------------------------------------------------------------------
LEMMA Lengths ==
  ASSUME TypeOK
  PROVE  /\ Len(sent) \in Nat /\ Len(queue) \in Nat
         /\ Len(slice_chain) \in Nat /\ Len(slices) \in Nat
BY LenProperties DEF TypeOK

LEMMA DumpedElements ==
  \A x : x \in Dumped <=> \E i \in 1 .. Len(slices) : x \in ToSet(slices[i].chain)
BY DEF Dumped

LEMMA InvInit == Init => IInv
<1> SUFFICES ASSUME Init PROVE IInv
  OBVIOUS
<1> USE DEF Init
<1>1. Waiting = {} /\ Gathered = {} /\ Len(slices) = 0 /\ Len(slice_chain) = 0
  BY EmptyElements DEF Waiting, Gathered
<1>2. \A i \in 1 .. 0 : FALSE
  OBVIOUS
<1>3. Dumped = {}
  BY <1>1, <1>2, DumpedElements
<1>4. Arrived = {}
  BY <1>1, <1>3 DEF Arrived
<1>5. TypeOK
  <2>1. /\ sent \in Seq(Nat \ {0}) /\ queue \in Seq(Packet) /\ slice_chain \in Seq(Packet)
        /\ slices \in Seq(Slice)
    BY EmptyElements
  <2> QED
    BY <2>1, ConstantsAssumption DEF TypeOK
<1>6. Known
  BY <1>4 DEF Known
<1>7. Apart
  BY <1>1, <1>3, EmptyElements, FS_EmptySet DEF Apart
<1>8. ChainsApart
  BY <1>1, <1>2 DEF ChainsApart
<1>9. ChainCounted
  BY <1>1 DEF ChainCounted
<1> QED
  BY <1>5, <1>6, <1>7, <1>8, <1>9 DEF IInv

-----------------------------------------------------------------------------
LEMMA ArrivedArePackets == ASSUME TypeOK PROVE Arrived \subseteq Packet
<1>1. Waiting \subseteq Packet /\ Gathered \subseteq Packet
  BY ToSetElements DEF TypeOK, Waiting, Gathered
<1>2. Dumped \subseteq Packet
  <2> SUFFICES ASSUME NEW y \in Dumped PROVE y \in Packet
    OBVIOUS
  <2>1. PICK i \in 1 .. Len(slices) : y \in ToSet(slices[i].chain)
    BY DumpedElements
  <2>2. slices[i] \in Slice
    BY ElementOfSeq DEF TypeOK
  <2>3. slices[i].chain \in Seq(Packet)
    BY <2>2 DEF Slice
  <2> QED
    BY <2>1, <2>3, ToSetElements
<1> QED
  BY <1>1, <1>2 DEF Arrived, TypeOK

(* A packet is new when it is sent: its cells have not been seen yet.      *)
LEMMA SentIsNew ==
  ASSUME IInv, NEW p \in Packet, p.first = cell + 1
  PROVE  p \notin Arrived
BY DEF IInv, TypeOK, Known, Packet

LEMMA TransmitInv ==
  ASSUME IInv, NEW p \in Packet, p.first = cell + 1, p.first <= p.last,
         sent' \in Seq(Nat \ {0}), Transmit(p)
  PROVE  IInv'
<1>1. TypeOK /\ Known /\ Apart /\ ChainsApart /\ ChainCounted
  BY DEF IInv
<1>2. /\ cell' = p.last /\ cell \in Nat /\ p.first \in Nat /\ p.last \in Nat
      /\ UNCHANGED <<overtakes, looking, last_cc, slice_pkt_count, slice_pts_ms, slice_count,
                     slice_chain, slices, freed, leaked>>
  BY <1>1 DEF Transmit, f_cblk, TypeOK, Packet
<1>3. /\ queue' \in Seq(Packet) /\ IsInjective(queue') /\ lost' \subseteq Packet
      /\ Waiting \subseteq Waiting' /\ Waiting' \subseteq Waiting \cup {p}
  <2>1. queue \in Seq(Packet) /\ IsInjective(queue) /\ p \notin ToSet(queue) /\ lost \subseteq Packet
    BY <1>1, SentIsNew DEF TypeOK, Apart, Arrived, Waiting
  <2>2. CASE queue' = Append(queue, p) /\ UNCHANGED lost
    BY <2>1, <2>2, AppendElements, AppendInjectiveSeq DEF Waiting
  <2>3. CASE lost' = lost \cup {p} /\ UNCHANGED queue
    BY <2>1, <2>3 DEF Waiting
  <2> QED
    BY <2>2, <2>3 DEF Transmit
<1>4. Gathered' = Gathered /\ Dumped' = Dumped /\ Arrived' \subseteq Arrived \cup {p}
  BY <1>2, <1>3 DEF Gathered, Dumped, Arrived
<1>5. TypeOK'
  BY <1>1, <1>2, <1>3 DEF TypeOK
<1>6. Known'
  <2> SUFFICES ASSUME NEW x \in Arrived' PROVE x.first <= x.last /\ x.last <= cell'
    BY DEF Known
  <2>1. CASE x = p
    BY <1>2, <2>1
  <2>2. CASE x \in Arrived
    <3>1. x.first <= x.last /\ x.last <= cell /\ x.last \in Nat
      BY <1>1, <2>2, ArrivedArePackets DEF Known, Packet
    <3> QED
      BY <1>2, <3>1
  <2> QED
    BY <1>4, <2>1, <2>2
<1>7. Apart'
  <2>1. p \notin Gathered \cup Dumped \cup freed \cup leaked
    BY SentIsNew DEF Arrived
  <2> QED
    BY <1>1, <1>2, <1>3, <1>4, <2>1 DEF Apart
<1>8. ChainsApart' /\ ChainCounted'
  BY <1>1, <1>2 DEF ChainsApart, ChainCounted
<1> QED
  BY <1>5, <1>6, <1>7, <1>8 DEF IInv

(* What the two ways of sending have in common.                            *)
LEMMA SendFacts ==
  ASSUME TypeOK, SendStart \/ SendMore
  PROVE  \E p \in Packet :
           /\ p.first = cell + 1 /\ p.first <= p.last
           /\ \E n \in CellCounts : p.last = cell + n
           /\ Transmit(p) /\ sent' \in Seq(Nat \ {0})
           /\ Len(sent') \in Nat /\ Len(sent') >= Len(sent)
           /\ p.slice = Len(sent')
           /\ IsStart(p) => Len(sent') = Len(sent) + 1
           /\ ~ IsStart(p) => Len(sent') = Len(sent)
<1>1. CellCounts \subseteq Nat \ {0} /\ cell \in Nat /\ sent \in Seq(Nat \ {0}) /\ Len(sent) \in Nat
  BY ConstantsAssumption, Lengths DEF TypeOK
<1>2. CASE SendStart
  <2>1. PICK n \in CellCounts :
          Transmit([slice |-> Len(sent) + 1, idx |-> 1, first |-> cell + 1, last |-> cell + n])
    BY <1>2 DEF SendStart
  <2> DEFINE p == [slice |-> Len(sent) + 1, idx |-> 1, first |-> cell + 1, last |-> cell + n]
  <2>2. sent' \in Seq(Nat \ {0}) /\ Len(sent') = Len(sent) + 1
    <3>1. sent' = Append(sent, 1) /\ 1 \in Nat \ {0}
      BY <1>2 DEF SendStart
    <3> QED
      BY <1>1, <3>1, AppendElements
  <2>3. p \in Packet /\ p.first = cell + 1 /\ p.last = cell + n /\ p.first <= p.last
    BY <1>1 DEF Packet
  <2>4. p.slice = Len(sent') /\ IsStart(p)
    BY <2>2 DEF IsStart
  <2> QED
    BY <1>1, <2>1, <2>2, <2>3, <2>4, SMTT(30)
<1>3. CASE SendMore
  <2>1. sent # <<>> /\ Last(sent) \in Nat \ {0} /\ Len(sent) \in 1 .. Len(sent)
    <3>1. sent # <<>>
      BY <1>3 DEF SendMore
    <3>2. Len(sent) \in 1 .. Len(sent)
      BY <1>1, <3>1, EmptySeq
    <3> QED
      BY <1>1, <3>1, <3>2, ElementOfSeq DEF Last
  <2>2. PICK n \in CellCounts :
          Transmit([slice |-> Len(sent), idx |-> Last(sent) + 1,
                    first |-> cell + 1, last |-> cell + n])
    BY <1>3 DEF SendMore
  <2> DEFINE p == [slice |-> Len(sent), idx |-> Last(sent) + 1,
                   first |-> cell + 1, last |-> cell + n]
  <2>3. sent' \in Seq(Nat \ {0}) /\ Len(sent') = Len(sent)
    <3>1. sent' = [sent EXCEPT ![Len(sent)] = sent[Len(sent)] + 1] /\ sent[Len(sent)] + 1 \in Nat \ {0}
      BY <1>3, <2>1 DEF SendMore, Last
    <3> QED
      BY <1>1, <2>1, <3>1, ExceptSeq
  <2>4. p \in Packet /\ p.first = cell + 1 /\ p.last = cell + n /\ p.first <= p.last
    BY <1>1, <2>1 DEF Packet
  <2>5. p.slice = Len(sent') /\ ~ IsStart(p)
    BY <2>1, <2>3 DEF IsStart
  <2> QED
    BY <1>1, <2>2, <2>3, <2>4, <2>5
<1> QED
  BY <1>2, <1>3

LEMMA SendInv == ASSUME IInv, SendStart \/ SendMore PROVE IInv'
<1>1. PICK p \in Packet :
        p.first = cell + 1 /\ p.first <= p.last /\ Transmit(p) /\ sent' \in Seq(Nat \ {0})
  BY SendFacts DEF IInv
<1> QED
  BY <1>1, TransmitInv

LEMMA OvertakeInv == ASSUME IInv, Overtake PROVE IInv' /\ Arrived' = Arrived
<1>1. TypeOK /\ Known /\ Apart /\ ChainsApart /\ ChainCounted
  BY DEF IInv
<1>2. /\ overtakes' \in Nat
      /\ UNCHANGED <<sent, cell, lost, looking, last_cc, slice_pkt_count, slice_pts_ms, slice_count,
                     slice_chain, slices, freed, leaked>>
  BY <1>1, SMTT(30) DEF Overtake, f_cblk, TypeOK
<1>3. queue' \in Seq(Packet) /\ IsInjective(queue') /\ Waiting' = Waiting
  <2>1. PICK i \in 1 .. Len(queue) - 1 :
          queue' = [queue EXCEPT ![i] = queue[i + 1], ![i + 1] = queue[i]]
    BY DEF Overtake
  <2>2. queue \in Seq(Packet) /\ IsInjective(queue)
    BY <1>1 DEF TypeOK, Apart
  <2>3. /\ queue' \in Seq(Packet) /\ Len(queue') = Len(queue)
        /\ queue'[i] = queue[i + 1] /\ queue'[i + 1] = queue[i]
        /\ \A j \in 1 .. Len(queue) : j # i /\ j # i + 1 => queue'[j] = queue[j]
    BY <2>1, <2>2, SwapIsSeq
  <2>4. ToSet(queue') = ToSet(queue) /\ IsInjective(queue')
    BY <2>2, <2>3, SwapElements
  <2> QED
    BY <2>3, <2>4 DEF Waiting
<1>4. Gathered' = Gathered /\ Dumped' = Dumped /\ Arrived' = Arrived
  BY <1>2, <1>3 DEF Gathered, Dumped, Arrived
<1>5. TypeOK'
  BY <1>1, <1>2, <1>3 DEF TypeOK
<1>6. Known' /\ ChainsApart' /\ ChainCounted'
  BY <1>1, <1>2, <1>4 DEF Known, ChainsApart, ChainCounted
<1>7. Apart'
  BY <1>1, <1>2, <1>3, <1>4 DEF Apart
<1> QED
  BY <1>4, <1>5, <1>6, <1>7 DEF IInv

-----------------------------------------------------------------------------
(* The packet the decoder takes is in no other place.                      *)
LEMMA DecodeFacts ==
  ASSUME IInv, Decode
  PROVE  LET p == Head(queue) IN
         /\ queue \in Seq(Packet) /\ queue # <<>> /\ p \in Packet /\ p = queue[1]
         /\ queue' \in Seq(Packet) /\ IsInjective(queue')
         /\ Len(queue) \in Nat \ {0} /\ Len(queue') = Len(queue) - 1
         /\ \A i \in 1 .. Len(queue') : queue'[i] = queue[i + 1]
         /\ Waiting = {p} \cup Waiting' /\ p \notin Waiting'
         /\ p \notin Gathered \cup Dumped \cup freed \cup leaked
         /\ Skip(p) \/ StartFresh(p) \/ StartNext(p) \/ Extend(p) \/ Drop(p)
         /\ UNCHANGED <<sent, cell, lost, overtakes>>
<1>1. /\ queue \in Seq(Packet) /\ queue # <<>> /\ IsInjective(queue) /\ queue' = Tail(queue)
      /\ Waiting \cap (Gathered \cup Dumped \cup freed \cup leaked) = {}
  BY DEF IInv, TypeOK, Apart, Decode
<1> DEFINE p == Head(queue)
<1>2. /\ p \in Packet /\ p = queue[1] /\ queue' \in Seq(Packet)
      /\ Len(queue) \in Nat \ {0} /\ Len(queue') = Len(queue) - 1
      /\ \A i \in 1 .. Len(queue') : queue'[i] = queue[i + 1]
      /\ Waiting = {p} \cup Waiting'
  BY <1>1, HeadTailElements DEF Waiting
<1>3. IsInjective(queue') /\ p \notin Waiting'
  BY <1>1, TailInjectiveSeq DEF Waiting
<1>4. Skip(p) \/ StartFresh(p) \/ StartNext(p) \/ Extend(p) \/ Drop(p)
  BY DEF Decode
<1>5. UNCHANGED <<sent, cell, lost, overtakes>>
  BY DEF Decode
<1> HIDE DEF p
<1>6. p \notin Gathered \cup Dumped \cup freed \cup leaked
  BY <1>1, <1>2
<1> QED
  BY <1>1, <1>2, <1>3, <1>4, <1>5, <1>6 DEF p

(* The types of what Gather writes.                                        *)
LEMMA GatherTypes ==
  ASSUME TypeOK, NEW c \in Seq(Packet), NEW n \in Nat, NEW p \in Packet, Gather(c, n, p)
  PROVE  /\ last_cc' \in 0 .. CCMod - 1 /\ last_cc' = CC(p.last)
         /\ slice_chain' = Append(c, p)
         /\ slice_chain' \in Seq(Packet) /\ slice_chain' # <<>>
         /\ Len(c) \in Nat /\ Len(slice_chain') = Len(c) + 1
         /\ \A i \in 1 .. Len(c) : slice_chain'[i] = c[i]
         /\ slice_chain'[Len(c) + 1] = p
         /\ ToSet(slice_chain') = ToSet(c) \cup {p}
         /\ slice_pkt_count' = n + 1
<1>1. last_cc' = CC(p.last) /\ slice_chain' = Append(c, p) /\ slice_pkt_count' = n + 1
  BY DEF Gather
<1>2. CC(p.last) \in 0 .. CCMod - 1
  BY ConstantsAssumption DEF CC, Packet
<1> QED
  BY <1>1, <1>2, AppendElements

LEMMA SkipInv ==
  ASSUME IInv, Decode, Skip(Head(queue)) PROVE IInv' /\ Arrived' = Arrived
<1> DEFINE p == Head(queue)
<1>1. /\ TypeOK /\ Known /\ Apart /\ ChainsApart /\ ChainCounted
      /\ leaked' = leaked \cup {p}
      /\ UNCHANGED <<looking, last_cc, slice_pkt_count, slice_pts_ms, slice_count, slice_chain,
                     slices, freed, sent, cell, lost, overtakes>>
  BY DEF IInv, Skip, Decode, f_cblk
<1>2. /\ p \in Packet /\ queue' \in Seq(Packet) /\ IsInjective(queue')
      /\ Waiting = {p} \cup Waiting' /\ p \notin Waiting'
      /\ p \notin Gathered \cup Dumped \cup freed \cup leaked
  BY DecodeFacts
<1> HIDE DEF p
<1>3. Gathered' = Gathered /\ Dumped' = Dumped
  BY <1>1 DEF Gathered, Dumped
<1>4. Arrived' = Arrived
  BY <1>1, <1>2, <1>3 DEF Arrived
<1>5. TypeOK'
  BY <1>1, <1>2 DEF TypeOK
<1>6. Known' /\ ChainsApart' /\ ChainCounted'
  BY <1>1, <1>4 DEF Known, ChainsApart, ChainCounted
<1>7. Apart'
  <2>1. IsFiniteSet(leaked')
    BY <1>1, FS_AddElement DEF Apart
  <2> QED
    BY <1>1, <1>2, <1>3, <2>1 DEF Apart
<1> QED
  BY <1>4, <1>5, <1>6, <1>7 DEF IInv

(* A packet joins the chain: StartFresh and Extend.                        *)
LEMMA JoinInv ==
  ASSUME IInv, Decode, NEW p, p = Head(queue), Gather(slice_chain, slice_pkt_count, p),
         looking' = FALSE, slice_count' \in Nat, slice_pts_ms' \in Nat,
         UNCHANGED <<slices, freed, leaked>>
  PROVE  IInv' /\ Arrived' = Arrived
<1>1. /\ TypeOK /\ Known /\ Apart /\ ChainsApart /\ ChainCounted
      /\ UNCHANGED <<sent, cell, lost, overtakes>>
  BY DEF IInv, Decode
<1>2. /\ p \in Packet /\ queue' \in Seq(Packet) /\ IsInjective(queue')
      /\ Waiting = {p} \cup Waiting' /\ p \notin Waiting'
      /\ p \notin Gathered \cup Dumped \cup freed \cup leaked
  BY DecodeFacts
<1>3. /\ slice_chain \in Seq(Packet) /\ slice_pkt_count \in Nat
      /\ slice_pkt_count = Len(slice_chain) /\ IsInjective(slice_chain)
  BY <1>1 DEF TypeOK, Apart, ChainCounted
<1>4. /\ last_cc' \in 0 .. CCMod - 1
      /\ slice_chain' = Append(slice_chain, p)
      /\ slice_chain' \in Seq(Packet) /\ slice_chain' # <<>>
      /\ Len(slice_chain) \in Nat /\ Len(slice_chain') = Len(slice_chain) + 1
      /\ Gathered' = Gathered \cup {p}
      /\ slice_pkt_count' = slice_pkt_count + 1
  BY <1>1, <1>2, <1>3, GatherTypes DEF Gathered
<1>5. IsInjective(slice_chain')
  <2>1. p \notin ToSet(slice_chain)
    BY <1>2 DEF Gathered
  <2> QED
    BY <1>2, <1>3, <1>4, <2>1, AppendInjectiveSeq
<1>6. Dumped' = Dumped
  BY DEF Dumped
<1>7. Arrived' = Arrived
  BY <1>2, <1>4, <1>6 DEF Arrived
<1>8. TypeOK'
  <2>1. slice_pkt_count' \in Nat
    BY <1>3, <1>4
  <2>2. looking' \in BOOLEAN
    OBVIOUS
  <2> QED
    BY <1>1, <1>2, <1>4, <2>1, <2>2 DEF TypeOK
<1>9. Known' /\ ChainsApart'
  BY <1>1, <1>7 DEF Known, ChainsApart
<1>10. ChainCounted'
  BY <1>3, <1>4 DEF ChainCounted
<1>11. Apart'
  BY <1>1, <1>2, <1>4, <1>5, <1>6 DEF Apart
<1> QED
  BY <1>7, <1>8, <1>9, <1>10, <1>11 DEF IInv

LEMMA PtsType == ASSUME TypeOK, NEW p \in Packet PROVE PtsOf(p) \in Nat /\ PtsAtStart(p) \in Nat
BY DEF TypeOK, PtsOf, PtsAtStart, Packet

(* What a dump adds to the slices.                                         *)
LEMMA DumpFacts ==
  ASSUME TypeOK, NEW t \in Nat, Dump(t)
  PROVE  /\ slices' \in Seq(Slice) /\ Len(slices') = Len(slices) + 1 /\ slices' # <<>>
         /\ \A i \in 1 .. Len(slices) : slices'[i] = slices[i]
         /\ slices'[Len(slices) + 1].chain = slice_chain
         /\ slices'[Len(slices) + 1].timestamp = t
         /\ Dumped' = Dumped \cup Gathered
<1> DEFINE e == [timestamp |-> t, chain |-> slice_chain]
<1>1. /\ slices \in Seq(Slice) /\ e \in Slice /\ slices' = Append(slices, e)
      /\ e.chain = slice_chain /\ e.timestamp = t
  BY DEF TypeOK, Slice, Dump
<1> HIDE DEF e
<1>2. /\ slices' \in Seq(Slice) /\ Len(slices') = Len(slices) + 1 /\ slices' # <<>>
      /\ Len(slices) \in Nat
      /\ \A i \in 1 .. Len(slices) : slices'[i] = slices[i]
      /\ slices'[Len(slices) + 1] = e
  BY <1>1, AppendElements
<1>3. \A x : x \in Dumped' <=> x \in Dumped \/ x \in Gathered
  <2>1. \A x : x \in Dumped' <=> \E i \in 1 .. Len(slices') : x \in ToSet(slices'[i].chain)
    BY DEF Dumped
  <2>2. \A x : x \in Dumped' <=>
          \/ \E i \in 1 .. Len(slices) : x \in ToSet(slices'[i].chain)
          \/ x \in ToSet(slices'[Len(slices) + 1].chain)
    BY <1>2, <2>1
  <2> QED
    BY <1>1, <1>2, <2>2, DumpedElements DEF Gathered
<1> QED
  BY <1>1, <1>2, <1>3

LEMMA StartNextInv ==
  ASSUME IInv, Decode, StartNext(Head(queue)) PROVE IInv' /\ Arrived' = Arrived
<1> DEFINE p == Head(queue)
<1>1. /\ TypeOK /\ Known /\ Apart /\ ChainsApart /\ ChainCounted
      /\ looking' = FALSE /\ slice_count' = slice_count + 1
      /\ slice_pts_ms' = PtsOf(p) /\ Dump(PtsAtStart(p)) /\ Gather(<<>>, 0, p)
      /\ UNCHANGED <<freed, leaked, sent, cell, lost, overtakes>>
  BY DEF IInv, Decode, StartNext
<1>2. /\ p \in Packet /\ queue' \in Seq(Packet) /\ IsInjective(queue')
      /\ Waiting = {p} \cup Waiting' /\ p \notin Waiting'
      /\ p \notin Gathered \cup Dumped \cup freed \cup leaked
  BY DecodeFacts
<1> HIDE DEF p
<1>3. /\ last_cc' \in 0 .. CCMod - 1
      /\ slice_chain' \in Seq(Packet) /\ slice_chain' # <<>> /\ Len(slice_chain') = 1
      /\ Gathered' = {p} /\ slice_pkt_count' = 1 /\ IsInjective(slice_chain')
  <2>1. /\ <<>> \in Seq(Packet) /\ Len(<<>>) = 0 /\ ToSet(<<>>) = {} /\ IsInjective(<<>>)
    BY EmptyElements
  <2>2. slice_chain' = Append(<<>>, p)
    BY <1>1 DEF Gather
  <2>3. IsInjective(slice_chain')
    BY <1>2, <2>1, <2>2, AppendInjectiveSeq
  <2>4. 0 \in Nat /\ Gather(<<>>, 0, p)
    BY <1>1
  <2>5. /\ last_cc' \in 0 .. CCMod - 1
        /\ slice_chain' \in Seq(Packet) /\ slice_chain' # <<>>
        /\ Len(slice_chain') = Len(<<>>) + 1 /\ ToSet(slice_chain') = ToSet(<<>>) \cup {p}
        /\ slice_pkt_count' = 0 + 1
    BY <1>1, <1>2, <2>1, <2>4, GatherTypes
  <2> QED
    BY <2>1, <2>3, <2>5 DEF Gathered
<1>4. /\ slices' \in Seq(Slice) /\ Len(slices') = Len(slices) + 1
      /\ \A i \in 1 .. Len(slices) : slices'[i] = slices[i]
      /\ slices'[Len(slices) + 1].chain = slice_chain
      /\ Dumped' = Dumped \cup Gathered /\ Len(slices) \in Nat
  BY <1>1, <1>2, PtsType, DumpFacts, Lengths
<1>5. Arrived' = Arrived
  BY <1>1, <1>2, <1>3, <1>4 DEF Arrived
<1>6. TypeOK'
  <2>1. slice_pts_ms' \in Nat /\ slice_count' \in Nat
    BY <1>1, <1>2, PtsType DEF TypeOK
  <2>2. slice_pkt_count' \in Nat /\ looking' \in BOOLEAN
    BY <1>1, <1>3
  <2> QED
    BY <1>1, <1>2, <1>3, <1>4, <2>1, <2>2 DEF TypeOK
<1>7. Known'
  BY <1>1, <1>5 DEF Known
<1>8. ChainCounted'
  BY <1>1, <1>3 DEF ChainCounted
<1>9. ChainsApart'
  <2>1. \A i \in 1 .. Len(slices) : ToSet(slices[i].chain) \cap Gathered = {}
    BY <1>1, DumpedElements DEF Apart
  <2> SUFFICES ASSUME NEW i \in 1 .. Len(slices'), NEW j \in 1 .. Len(slices'), i # j
               PROVE  ToSet(slices'[i].chain) \cap ToSet(slices'[j].chain) = {}
    BY DEF ChainsApart
  <2>2. CASE i \in 1 .. Len(slices) /\ j \in 1 .. Len(slices)
    BY <1>1, <1>4, <2>2 DEF ChainsApart
  <2>3. CASE i = Len(slices) + 1 /\ j \in 1 .. Len(slices)
    BY <1>4, <2>1, <2>3 DEF Gathered
  <2>4. CASE j = Len(slices) + 1 /\ i \in 1 .. Len(slices)
    BY <1>4, <2>1, <2>4 DEF Gathered
  <2> QED
    BY <1>4, <2>2, <2>3, <2>4
<1>10. Apart'
  <2>1. IsFiniteSet(Dumped \cup Gathered)
    <3>1. IsFiniteSet(Gathered)
      BY <1>1, ToSetCardinality DEF TypeOK, Gathered
    <3> QED
      BY <1>1, <3>1, FS_Union DEF Apart
  <2> QED
    BY <1>1, <1>2, <1>3, <1>4, <2>1 DEF Apart
<1> QED
  BY <1>5, <1>6, <1>7, <1>8, <1>9, <1>10 DEF IInv

LEMMA DropInv ==
  ASSUME IInv, Decode, Drop(Head(queue)) PROVE IInv' /\ Arrived' = Arrived
<1> DEFINE p == Head(queue)
<1>1. /\ TypeOK /\ Known /\ Apart /\ ChainsApart /\ ChainCounted
      /\ freed' = freed \cup Gathered /\ slice_chain' = <<>>
      /\ looking' = TRUE /\ slice_pkt_count' = 0 /\ leaked' = leaked \cup {p}
      /\ UNCHANGED <<last_cc, slice_pts_ms, slice_count, slices, sent, cell, lost, overtakes>>
  BY DEF IInv, Decode, Drop, DropChain, Gathered
<1>2. /\ p \in Packet /\ queue' \in Seq(Packet) /\ IsInjective(queue')
      /\ Waiting = {p} \cup Waiting' /\ p \notin Waiting'
      /\ p \notin Gathered \cup Dumped \cup freed \cup leaked
  BY DecodeFacts
<1> HIDE DEF p
<1>3. /\ slice_chain' \in Seq(Packet) /\ Len(slice_chain') = 0 /\ IsInjective(slice_chain')
      /\ Gathered' = {} /\ Dumped' = Dumped
  BY <1>1, EmptyElements DEF Gathered, Dumped
<1>4. Gathered \subseteq Packet /\ IsFiniteSet(Gathered)
  BY <1>1, ToSetElements, ToSetCardinality DEF TypeOK, Gathered
<1>5. Arrived' = Arrived
  BY <1>1, <1>2, <1>3 DEF Arrived
<1>6. TypeOK'
  BY <1>1, <1>2, <1>3, <1>4 DEF TypeOK
<1>7. Known' /\ ChainsApart'
  BY <1>1, <1>5 DEF Known, ChainsApart
<1>8. ChainCounted'
  BY <1>1, <1>3 DEF ChainCounted
<1>9. Apart'
  <2>1. IsFiniteSet(freed') /\ IsFiniteSet(leaked')
    BY <1>1, <1>4, FS_Union, FS_AddElement DEF Apart
  <2> QED
    BY <1>1, <1>2, <1>3, <2>1 DEF Apart
<1> QED
  BY <1>5, <1>6, <1>7, <1>8, <1>9 DEF IInv

LEMMA DecodeInv == ASSUME IInv, Decode PROVE IInv' /\ Arrived' = Arrived
<1> DEFINE p == Head(queue)
<1>1. p \in Packet /\ TypeOK
  BY DecodeFacts DEF IInv
<1>2. CASE Skip(p)
  BY <1>2, SkipInv
<1>3. CASE StartFresh(p)
  <2>1. /\ Gather(slice_chain, slice_pkt_count, p) /\ looking' = FALSE
        /\ slice_count' \in Nat /\ slice_pts_ms' \in Nat /\ UNCHANGED <<slices, freed, leaked>>
    BY <1>1, <1>3, PtsType DEF StartFresh, TypeOK
  <2> QED
    BY <2>1, JoinInv
<1>4. CASE StartNext(p)
  BY <1>4, StartNextInv
<1>5. CASE Extend(p)
  <2>1. /\ Gather(slice_chain, slice_pkt_count, p) /\ looking' = FALSE
        /\ slice_count' \in Nat /\ slice_pts_ms' \in Nat /\ UNCHANGED <<slices, freed, leaked>>
    BY <1>1, <1>5 DEF Extend, TypeOK
  <2> QED
    BY <2>1, JoinInv
<1>6. CASE Drop(p)
  BY <1>6, DropInv
<1> QED
  BY <1>2, <1>3, <1>4, <1>5, <1>6 DEF Decode

LEMMA InvNext == IInv /\ [Next]_vars => IInv'
<1> SUFFICES ASSUME IInv, [Next]_vars PROVE IInv'
  OBVIOUS
<1>1. CASE SendStart \/ SendMore \/ Overtake \/ Decode
  BY <1>1, SendInv, OvertakeInv, DecodeInv
<1>2. CASE UNCHANGED vars
  <2>1. UNCHANGED <<sent, cell, queue, lost, overtakes, looking, last_cc, slice_pkt_count,
                    slice_pts_ms, slice_count, slice_chain, slices, freed, leaked>>
    BY <1>2 DEF vars, network, f_cblk
  <2>2. Waiting' = Waiting /\ Gathered' = Gathered /\ Dumped' = Dumped /\ Arrived' = Arrived
    BY <2>1 DEF Waiting, Gathered, Dumped, Arrived
  <2> QED
    BY <2>1, <2>2 DEF IInv, TypeOK, Known, Apart, ChainsApart, ChainCounted
<1> QED
  BY <1>1, <1>2 DEF Next

THEOREM DecoderInvariant == Spec => []IInv
<1> QED
  BY InvInit, InvNext, PTL DEF Spec

(* The chain, its counter and the looking flag agree, and every packet     *)
(* that left the queue is in one place only, whatever is lost, dropped and *)
(* dumped: sx_desc_put is never handed a packet twice.                     *)
THEOREM ChainIsKept == Spec => []ChainKept
<1>1. IInv => ChainKept
  <2> SUFFICES ASSUME IInv PROVE Ownership
    BY DEF IInv, ChainKept
  <2>1. Apart /\ ChainsApart /\ slice_chain \in Seq(Packet)
    BY DEF IInv, TypeOK
  <2>2. IsFiniteSet(Gathered) /\ Cardinality(Gathered) = Len(slice_chain)
    BY <2>1, ToSetCardinality DEF Apart, Gathered
  <2> DEFINE A == Dumped \cup Gathered
             B == A \cup freed
  <2>3. /\ IsFiniteSet(A) /\ Cardinality(A) = Cardinality(Dumped) + Cardinality(Gathered)
        /\ Cardinality(Dumped) \in Nat /\ Cardinality(Gathered) \in Nat
    <3>1. IsFiniteSet(Dumped) /\ Dumped \cap Gathered = {}
      BY <2>1 DEF Apart
    <3> QED
      BY <2>2, <3>1, DisjointCardinality
  <2>4. /\ IsFiniteSet(B) /\ Cardinality(B) = Cardinality(A) + Cardinality(freed)
        /\ Cardinality(freed) \in Nat
    <3>1. IsFiniteSet(freed) /\ A \cap freed = {}
      BY <2>1 DEF Apart
    <3> HIDE DEF A
    <3> QED
      BY <2>3, <3>1, DisjointCardinality
  <2>5. Cardinality(B \cup leaked) = Cardinality(B) + Cardinality(leaked) /\ Cardinality(leaked) \in Nat
    <3>1. IsFiniteSet(leaked) /\ B \cap leaked = {}
      BY <2>1 DEF Apart
    <3> HIDE DEF B
    <3> QED
      BY <2>4, <3>1, DisjointCardinality
  <2>6. B \cup leaked = Dumped \cup Gathered \cup freed \cup leaked
    OBVIOUS
  <2> QED
    BY <2>1, <2>2, <2>3, <2>4, <2>5, <2>6 DEF Ownership, ChainsApart
<1> QED
  BY <1>1, DecoderInvariant, PTL

-----------------------------------------------------------------------------
(* StampsInOrder.  As long as nothing overtakes, a start that waits is of  *)
(* a later slice than every packet before it, than the chain and than the  *)
(* time the decoder remembers (StartsAhead), and this time is above the    *)
(* last stamp, though not above the time of the chain (StampsGrow).        *)
StartsAhead ==
  /\ \A i, j \in 1 .. Len(queue) :
       i < j /\ IsStart(queue[j]) => queue[i].slice < queue[j].slice
  /\ \A i \in 1 .. Len(queue) :
       /\ queue[i].slice <= Len(sent)
       /\ IsStart(queue[i]) /\ slice_count > 0 => slice_pts_ms < queue[i].slice
       /\ IsStart(queue[i]) /\ slice_chain # <<>> => slice_chain[1].slice < queue[i].slice

ChainStamp ==
  slice_chain # <<>> =>
    /\ slice_count > 0
    /\ slice_pts_ms <= slice_chain[1].slice /\ slice_chain[1].slice <= Len(sent)

DumpStamps ==
  /\ slices # <<>> => slice_count > 0 /\ slices[Len(slices)].timestamp < slice_pts_ms
  /\ \A i \in 1 .. Len(slices) :
       /\ slices[i].timestamp <= PtsOf(slices[i].chain[1])
       /\ i > 1 => slices[i - 1].timestamp < slices[i].timestamp

StampsGrow == slice_pts_ms <= Len(sent) /\ ChainStamp /\ DumpStamps

SInv == overtakes = 0 => StartsAhead /\ StampsGrow

LEMMA QueueTypes ==
  ASSUME TypeOK
  PROVE  /\ \A i \in 1 .. Len(queue) : queue[i] \in Packet /\ queue[i].slice \in Nat
         /\ slice_chain # <<>> => slice_chain[1] \in Packet /\ slice_chain[1].slice \in Nat
         /\ \A i \in 1 .. Len(slices) : slices[i].timestamp \in Nat
<1>1. \A i \in 1 .. Len(queue) : queue[i] \in Packet
  BY ElementOfSeq DEF TypeOK
<1>2. slice_chain # <<>> => slice_chain[1] \in Packet
  <2>1. slice_chain # <<>> => 1 \in 1 .. Len(slice_chain)
    BY EmptySeq DEF TypeOK
  <2> QED
    BY <2>1, ElementOfSeq DEF TypeOK
<1>3. \A i \in 1 .. Len(slices) : slices[i] \in Slice
  BY ElementOfSeq DEF TypeOK
<1> QED
  BY <1>1, <1>2, <1>3 DEF Packet, Slice

LEMMA StampsInit == Init => SInv
<1> SUFFICES ASSUME Init PROVE SInv
  OBVIOUS
<1>1. /\ Len(queue) = 0 /\ Len(slices) = 0 /\ Len(sent) = 0 /\ slice_chain = <<>> /\ slices = <<>>
      /\ slice_pts_ms = 0
  BY EmptyElements DEF Init
<1>2. \A i \in 1 .. 0 : FALSE
  OBVIOUS
<1>3. StartsAhead
  BY <1>1, <1>2 DEF StartsAhead
<1>4. StampsGrow
  BY <1>1, <1>2 DEF StampsGrow, ChainStamp, DumpStamps
<1> QED
  BY <1>3, <1>4 DEF SInv

LEMMA SendStamps == ASSUME IInv, SInv, SendStart \/ SendMore PROVE SInv'
<1> SUFFICES ASSUME overtakes' = 0 PROVE StartsAhead' /\ StampsGrow'
  BY DEF SInv
<1>1. TypeOK
  BY DEF IInv
<1>2. PICK p \in Packet :
        /\ Transmit(p) /\ sent' \in Seq(Nat \ {0})
        /\ Len(sent') \in Nat /\ Len(sent') >= Len(sent)
        /\ p.slice = Len(sent')
        /\ IsStart(p) => Len(sent') = Len(sent) + 1
  BY <1>1, SendFacts
<1>3. UNCHANGED <<slice_pts_ms, slice_count, slice_chain, slices>> /\ overtakes = 0
  BY <1>2 DEF Transmit, f_cblk
<1>4. StartsAhead /\ StampsGrow
  BY <1>3 DEF SInv
<1>5. /\ Len(sent) \in Nat /\ Len(queue) \in Nat /\ slice_pts_ms \in Nat
      /\ \A i \in 1 .. Len(queue) : queue[i].slice \in Nat
      /\ slice_chain # <<>> => slice_chain[1].slice \in Nat
  BY <1>1, Lengths, QueueTypes DEF TypeOK
<1>6. StampsGrow'
  BY <1>2, <1>3, <1>4, <1>5 DEF StampsGrow, ChainStamp, DumpStamps
<1>7. CASE UNCHANGED queue
  <2>1. \A i \in 1 .. Len(queue) : queue[i].slice <= Len(sent')
    BY <1>2, <1>4, <1>5 DEF StartsAhead
  <2>2. StartsAhead'
    BY <1>3, <1>4, <1>7, <2>1 DEF StartsAhead
  <2> QED
    BY <1>6, <2>2
<1>8. CASE queue' = Append(queue, p)
  <2>1. /\ Len(queue') = Len(queue) + 1 /\ queue'[Len(queue) + 1] = p
        /\ \A i \in 1 .. Len(queue) : queue'[i] = queue[i]
    BY <1>1, <1>8, AppendElements DEF TypeOK
  <2>2. \A i \in 1 .. Len(queue) : queue[i].slice <= Len(sent)
    BY <1>4 DEF StartsAhead
  <2>3. ASSUME NEW i \in 1 .. Len(queue'), NEW j \in 1 .. Len(queue'), i < j, IsStart(queue'[j])
        PROVE  queue'[i].slice < queue'[j].slice
    <3>1. CASE j \in 1 .. Len(queue)
      <4>1. i \in 1 .. Len(queue) /\ queue'[i] = queue[i] /\ queue'[j] = queue[j]
        BY <1>5, <2>1, <2>3, <3>1
      <4> QED
        BY <1>4, <2>3, <3>1, <4>1 DEF StartsAhead
    <3>2. CASE j = Len(queue) + 1
      <4>1. i \in 1 .. Len(queue) /\ queue'[i] = queue[i] /\ queue'[j] = p
        BY <1>5, <2>1, <2>3, <3>2
      <4> QED
        BY <1>2, <1>5, <2>2, <2>3, <4>1
    <3> QED
      BY <1>5, <2>1, <3>1, <3>2
  <2>4. ASSUME NEW i \in 1 .. Len(queue')
        PROVE  /\ queue'[i].slice <= Len(sent')
               /\ IsStart(queue'[i]) /\ slice_count' > 0 => slice_pts_ms' < queue'[i].slice
               /\ IsStart(queue'[i]) /\ slice_chain' # <<>> => slice_chain'[1].slice < queue'[i].slice
    <3>1. CASE i \in 1 .. Len(queue)
      <4>1. queue'[i] = queue[i]
        BY <2>1, <3>1
      <4>2. /\ queue[i].slice <= Len(sent)
            /\ IsStart(queue[i]) /\ slice_count > 0 => slice_pts_ms < queue[i].slice
            /\ IsStart(queue[i]) /\ slice_chain # <<>> => slice_chain[1].slice < queue[i].slice
        BY <1>4, <3>1 DEF StartsAhead
      <4> QED
        BY <1>2, <1>3, <1>5, <3>1, <4>1, <4>2
    <3>2. CASE i = Len(queue) + 1
      <4>1. queue'[i] = p
        BY <2>1, <3>2
      <4>2. slice_pts_ms <= Len(sent) /\ (slice_chain # <<>> => slice_chain[1].slice <= Len(sent))
        BY <1>4 DEF StampsGrow, ChainStamp
      <4> QED
        BY <1>2, <1>3, <1>5, <4>1, <4>2
    <3> QED
      BY <1>5, <2>1, <3>1, <3>2
  <2> QED
    BY <1>6, <2>3, <2>4 DEF StartsAhead
<1> QED
  BY <1>2, <1>7, <1>8 DEF Transmit

(* What the decoder knows of the packet it takes and of those behind it.   *)
LEMMA DecodeAhead ==
  ASSUME IInv, StartsAhead, Decode, NEW p, p = Head(queue)
  PROVE  /\ p \in Packet /\ p.slice \in Nat /\ p.slice <= Len(sent)
         /\ IsStart(p) /\ slice_count > 0 => slice_pts_ms < p.slice
         /\ IsStart(p) /\ slice_chain # <<>> => slice_chain[1].slice < p.slice
         /\ \A i, j \in 1 .. Len(queue') :
              i < j /\ IsStart(queue'[j]) => queue'[i].slice < queue'[j].slice
         /\ \A i \in 1 .. Len(queue') :
              /\ queue'[i].slice <= Len(sent)
              /\ IsStart(queue'[i]) => p.slice < queue'[i].slice
              /\ IsStart(queue'[i]) /\ slice_count > 0 => slice_pts_ms < queue'[i].slice
              /\ IsStart(queue'[i]) /\ slice_chain # <<>> =>
                   slice_chain[1].slice < queue'[i].slice
<1>1. /\ p \in Packet /\ p = queue[1]
      /\ Len(queue) \in Nat \ {0} /\ Len(queue') = Len(queue) - 1
      /\ \A i \in 1 .. Len(queue') : queue'[i] = queue[i + 1]
  BY DecodeFacts
<1>2. 1 \in 1 .. Len(queue) /\ \A i \in 1 .. Len(queue') : i + 1 \in 1 .. Len(queue) /\ 1 < i + 1
  BY <1>1
<1>3. \A i, j \in 1 .. Len(queue') : i < j => i + 1 < j + 1
  OBVIOUS
<1>4. p.slice \in Nat
  BY <1>1 DEF Packet
<1>5. \A i, j \in 1 .. Len(queue') :
        i < j /\ IsStart(queue'[j]) => queue'[i].slice < queue'[j].slice
  BY <1>1, <1>2, <1>3 DEF StartsAhead
<1>6. ASSUME NEW i \in 1 .. Len(queue')
      PROVE  /\ queue'[i].slice <= Len(sent)
             /\ IsStart(queue'[i]) => p.slice < queue'[i].slice
             /\ IsStart(queue'[i]) /\ slice_count > 0 => slice_pts_ms < queue'[i].slice
             /\ IsStart(queue'[i]) /\ slice_chain # <<>> =>
                  slice_chain[1].slice < queue'[i].slice
  <2>1. queue'[i] = queue[i + 1] /\ i + 1 \in 1 .. Len(queue) /\ 1 < i + 1
    BY <1>1, <1>2
  <2> QED
    BY <1>1, <1>2, <2>1 DEF StartsAhead
<1>7. /\ p.slice <= Len(sent)
      /\ IsStart(p) /\ slice_count > 0 => slice_pts_ms < p.slice
      /\ IsStart(p) /\ slice_chain # <<>> => slice_chain[1].slice < p.slice
  BY <1>1, <1>2 DEF StartsAhead
<1> QED
  BY <1>1, <1>4, <1>5, <1>6, <1>7

LEMMA DecodeStamps == ASSUME IInv, SInv, Decode PROVE SInv'
<1> SUFFICES ASSUME overtakes' = 0 PROVE StartsAhead' /\ StampsGrow'
  BY DEF SInv
<1> DEFINE p == Head(queue)
<1>1. TypeOK /\ ChainCounted /\ sent' = sent /\ overtakes = 0
  BY DEF IInv, Decode
<1>2. StartsAhead /\ StampsGrow
  BY <1>1 DEF SInv
<1>3. /\ p \in Packet /\ p.slice \in Nat /\ p.slice <= Len(sent)
      /\ IsStart(p) /\ slice_count > 0 => slice_pts_ms < p.slice
      /\ IsStart(p) /\ slice_chain # <<>> => slice_chain[1].slice < p.slice
  BY <1>2, DecodeAhead
<1>4. /\ \A i, j \in 1 .. Len(queue') :
           i < j /\ IsStart(queue'[j]) => queue'[i].slice < queue'[j].slice
      /\ \A i \in 1 .. Len(queue') :
           /\ queue'[i].slice <= Len(sent)
           /\ IsStart(queue'[i]) => p.slice < queue'[i].slice
           /\ IsStart(queue'[i]) /\ slice_count > 0 => slice_pts_ms < queue'[i].slice
           /\ IsStart(queue'[i]) /\ slice_chain # <<>> => slice_chain[1].slice < queue'[i].slice
  BY <1>2, DecodeAhead
<1>5. /\ Len(sent) \in Nat /\ Len(slice_chain) \in Nat /\ Len(slices) \in Nat
      /\ slice_pts_ms \in Nat /\ slice_count \in Nat /\ slice_chain \in Seq(Packet)
      /\ slice_pkt_count = Len(slice_chain) /\ slice_pkt_count \in Nat
      /\ slice_chain # <<>> => slice_chain[1].slice \in Nat
      /\ \A i \in 1 .. Len(slices) : slices[i].timestamp \in Nat
      /\ slice_chain = <<>> <=> Len(slice_chain) = 0
      /\ slices = <<>> <=> Len(slices) = 0
  BY <1>1, Lengths, QueueTypes, EmptyElements DEF TypeOK, ChainCounted
<1> HIDE DEF p
<1>6. CASE Skip(p)
  <2>1. UNCHANGED <<slice_chain, slice_count, slice_pts_ms, slices>>
    BY <1>6 DEF Skip, f_cblk
  <2> QED
    BY <1>1, <1>2, <1>4, <2>1 DEF StartsAhead, StampsGrow, ChainStamp, DumpStamps
<1>7. CASE StartFresh(p)
  <2>1. /\ IsStart(p) /\ slice_chain = <<>> /\ slice_count' = slice_count + 1
        /\ slice_pts_ms' = PtsAtStart(p) /\ slices' = slices
        /\ Gather(slice_chain, slice_pkt_count, p)
    BY <1>5, <1>7 DEF StartFresh
  <2>2. slice_chain' # <<>> /\ slice_chain'[1] = p
    <3>1. slice_chain' # <<>> /\ slice_chain'[Len(slice_chain) + 1] = p
      BY <1>1, <1>3, <1>5, <2>1, GatherTypes
    <3> QED
      BY <1>5, <2>1, <3>1
  <2>3. slice_pts_ms' = IF slice_count = 0 THEN p.slice ELSE slice_pts_ms
    BY <2>1 DEF PtsAtStart, PtsOf
  <2>4. slice_pts_ms' <= p.slice /\ slice_pts_ms' \in Nat /\ slice_count' > 0
    BY <1>3, <1>5, <2>1, <2>3
  <2>5. StartsAhead'
    <3> SUFFICES ASSUME NEW i \in 1 .. Len(queue'), IsStart(queue'[i])
                 PROVE  slice_pts_ms' < queue'[i].slice /\ slice_chain'[1].slice < queue'[i].slice
      BY <1>1, <1>4 DEF StartsAhead
    <3> QED
      BY <1>3, <1>4, <1>5, <2>2, <2>3
  <2>6. slice_pts_ms' <= Len(sent') /\ ChainStamp'
    BY <1>1, <1>3, <1>5, <2>2, <2>4 DEF ChainStamp
  <2>7. DumpStamps'
    BY <1>2, <1>5, <2>1, <2>3, <2>4 DEF StampsGrow, DumpStamps
  <2> QED
    BY <2>5, <2>6, <2>7 DEF StampsGrow
<1>8. CASE StartNext(p)
  <2>1. /\ IsStart(p) /\ slice_chain # <<>> /\ slice_count' = slice_count + 1
        /\ slice_pts_ms' = p.slice /\ Dump(PtsAtStart(p)) /\ Gather(<<>>, 0, p)
    BY <1>5, <1>8 DEF StartNext, PtsOf
  <2>2. slice_chain' # <<>> /\ slice_chain'[1] = p
    <3>1. <<>> \in Seq(Packet) /\ Len(<<>>) = 0 /\ 0 \in Nat
      BY EmptyElements
    <3>2. slice_chain' # <<>> /\ slice_chain'[Len(<<>>) + 1] = p
      BY <1>1, <1>3, <2>1, <3>1, GatherTypes
    <3> QED
      BY <3>1, <3>2
  <2>3. PtsAtStart(p) = slice_pts_ms
    BY <1>2, <1>5, <2>1 DEF StampsGrow, ChainStamp, PtsAtStart
  <2>4. /\ Len(slices') = Len(slices) + 1 /\ slices' # <<>>
        /\ \A i \in 1 .. Len(slices) : slices'[i] = slices[i]
        /\ slices'[Len(slices) + 1].chain = slice_chain
        /\ slices'[Len(slices) + 1].timestamp = slice_pts_ms
    BY <1>1, <1>5, <2>1, <2>3, DumpFacts
  <2>5. StartsAhead'
    BY <1>1, <1>4, <2>1, <2>2 DEF StartsAhead
  <2>6. slice_pts_ms' <= Len(sent') /\ ChainStamp'
    BY <1>1, <1>3, <1>5, <2>1, <2>2 DEF ChainStamp
  <2>7. slice_pts_ms < p.slice /\ slice_pts_ms <= slice_chain[1].slice /\ slice_count > 0
    BY <1>2, <1>3, <2>1 DEF StampsGrow, ChainStamp
  <2>8. DumpStamps'
    <3>1. slice_count' > 0 /\ slices'[Len(slices')].timestamp < slice_pts_ms'
      BY <1>5, <2>1, <2>4, <2>7
    <3>2. ASSUME NEW i \in 1 .. Len(slices')
          PROVE  /\ slices'[i].timestamp <= PtsOf(slices'[i].chain[1])
                 /\ i > 1 => slices'[i - 1].timestamp < slices'[i].timestamp
      <4>1. CASE i \in 1 .. Len(slices)
        <5>1. slices'[i] = slices[i] /\ (i > 1 => slices'[i - 1] = slices[i - 1])
          BY <1>5, <2>4, <4>1
        <5> QED
          BY <1>2, <4>1, <5>1 DEF StampsGrow, DumpStamps
      <4>2. CASE i = Len(slices) + 1
        <5>1. slices'[i].timestamp <= PtsOf(slices'[i].chain[1])
          BY <2>4, <2>7, <4>2 DEF PtsOf
        <5>2. i > 1 => slices[Len(slices)].timestamp < slice_pts_ms /\ slices'[i - 1] = slices[Len(slices)]
          BY <1>2, <1>5, <2>4, <4>2 DEF StampsGrow, DumpStamps
        <5> QED
          BY <2>4, <4>2, <5>1, <5>2
      <4> QED
        BY <1>5, <2>4, <4>1, <4>2
    <3> QED
      BY <3>1, <3>2 DEF DumpStamps
  <2> QED
    BY <2>5, <2>6, <2>8 DEF StampsGrow
<1>9. CASE Extend(p)
  <2>1. /\ ~ IsStart(p) /\ slice_chain # <<>>
        /\ UNCHANGED <<slice_pts_ms, slice_count, slices>>
        /\ Gather(slice_chain, slice_pkt_count, p)
    BY <1>1, <1>9 DEF Extend, ChainCounted
  <2>2. slice_chain' # <<>> /\ slice_chain'[1] = slice_chain[1]
    <3>1. /\ slice_chain' # <<>>
          /\ \A i \in 1 .. Len(slice_chain) : slice_chain'[i] = slice_chain[i]
      BY <1>1, <1>3, <1>5, <2>1, GatherTypes
    <3> QED
      BY <1>5, <2>1, <3>1
  <2> QED
    BY <1>1, <1>2, <1>4, <2>1, <2>2 DEF StartsAhead, StampsGrow, ChainStamp, DumpStamps
<1>10. CASE Drop(p)
  <2>1. slice_chain' = <<>> /\ UNCHANGED <<slice_pts_ms, slice_count, slices>>
    BY <1>10 DEF Drop, DropChain
  <2> QED
    BY <1>1, <1>2, <1>4, <2>1 DEF StartsAhead, StampsGrow, ChainStamp, DumpStamps
<1> QED
  BY <1>6, <1>7, <1>8, <1>9, <1>10 DEF Decode, p

LEMMA StampsNext == IInv /\ SInv /\ [Next]_vars => SInv'
<1> SUFFICES ASSUME IInv, SInv, [Next]_vars PROVE SInv'
  OBVIOUS
<1>1. CASE SendStart \/ SendMore \/ Decode
  BY <1>1, SendStamps, DecodeStamps
<1>2. CASE Overtake
  <2>1. overtakes' # 0
    BY <1>2 DEF Overtake, IInv, TypeOK
  <2> QED
    BY <2>1 DEF SInv
<1>3. CASE UNCHANGED vars
  BY <1>3 DEF vars, network, f_cblk, SInv, StartsAhead, StampsGrow, ChainStamp, DumpStamps
<1> QED
  BY <1>1, <1>2, <1>3 DEF Next

(* While packets arrive in order no slice is stamped later than its time,  *)
(* and every slice is stamped later than the one before it, although the   *)
(* time the decoder keeps is at times that of a slice it has dropped.      *)
THEOREM StampsAreInOrder == Spec => []StampsInOrder
<1>1. SInv => StampsInOrder
  BY DEF SInv, StampsGrow, DumpStamps, StampsInOrder
<1> QED
  BY <1>1, DecoderInvariant, StampsInit, StampsNext, PTL DEF Spec

-----------------------------------------------------------------------------
(* SlicesArePrefixes.  A counter of CCMod values cannot tell a gap of      *)
(* CCMod cells from none, so nothing the decoder does can rule such a gap  *)
(* out: GapsSeen asks of the network that the packet at the head of the    *)
(* queue is less than CCMod cells away from where the chain ends.          *)
GapSeen(p, q) == p.last + 1 - CCMod < q.first /\ q.first < p.last + 1 + CCMod

GapsSeen ==
  queue # <<>> /\ slice_chain # <<>> => GapSeen(slice_chain[Len(slice_chain)], queue[1])

(* Of packets that arrived, one that continues another and is no start is  *)
(* of the same slice.                                                      *)
SentInOrder ==
  /\ \A p \in Arrived : p.last = cell => p.slice = Len(sent)
  /\ \A p, q \in Arrived : q.first = p.last + 1 /\ ~ IsStart(q) => p.slice = q.slice

ChainWhole ==
  slice_chain # <<>> =>
    /\ IsPrefixOfSlice(slice_chain)
    /\ last_cc = CC(slice_chain[Len(slice_chain)].last)

PInv == SentInOrder /\ ChainWhole /\ SlicesArePrefixes

(* Counters that follow each other, less than CCMod apart, are successive. *)
LEMMA CounterStep ==
  ASSUME NEW l \in Nat, NEW f \in Nat, (CC(l) + 1) % CCMod = CC(f),
         l + 1 - CCMod < f, f < l + 1 + CCMod
  PROVE  f = l + 1
<1>1. CCMod \in Nat /\ CCMod > 0
  BY ConstantsAssumption
<1>2. \A n \in Nat : n % CCMod \in 0 .. CCMod - 1 /\ \E q \in Nat : n = q * CCMod + (n % CCMod)
  <2> SUFFICES ASSUME NEW n \in Nat
               PROVE  n % CCMod \in 0 .. CCMod - 1 /\ \E q \in Nat : n = q * CCMod + (n % CCMod)
    OBVIOUS
  <2>1. n % CCMod \in 0 .. CCMod - 1 /\ n \div CCMod \in Nat
    BY <1>1
  <2>2. n = (n \div CCMod) * CCMod + (n % CCMod)
    BY <1>1
  <2> QED
    BY <2>1, <2>2
<1> DEFINE r == l % CCMod
           s == (r + 1) % CCMod
<1>3. r \in 0 .. CCMod - 1 /\ r + 1 \in Nat
  BY <1>1, <1>2
<1>4. PICK a \in Nat : l = a * CCMod + r
  BY <1>2
<1>5. PICK b \in Nat : r + 1 = b * CCMod + s
  BY <1>2, <1>3
<1>6. PICK c \in Nat : f = c * CCMod + s
  BY <1>2 DEF CC
<1>7. s \in 0 .. CCMod - 1
  BY <1>2, <1>3
<1> HIDE DEF r, s
<1> DEFINE k == c - (a + b)
<1>8. f - (l + 1) = k * CCMod /\ k \in Int
  <2>1. k * CCMod = c * CCMod - (a * CCMod + b * CCMod)
    BY <1>1
  <2> QED
    BY <1>1, <1>3, <1>4, <1>5, <1>6, <1>7, <2>1
<1> HIDE DEF k
<1>9. k = 0
  <2>1. k * CCMod < CCMod /\ - CCMod < k * CCMod
    BY <1>1, <1>8
  <2>2. k >= 1 => k * CCMod >= CCMod
    BY <1>1, <1>8
  <2>3. k <= -1 => k * CCMod <= - CCMod
    BY <1>1, <1>8
  <2> QED
    BY <1>1, <1>8, <2>1, <2>2, <2>3
<1> QED
  BY <1>1, <1>8, <1>9

LEMMA PrefixInit == Init => PInv
<1> SUFFICES ASSUME Init PROVE PInv
  OBVIOUS
<1>1. Len(slices) = 0 /\ slice_chain = <<>>
  BY EmptyElements DEF Init
<1>2. \A i \in 1 .. 0 : FALSE
  OBVIOUS
<1>3. Arrived = {}
  <2>1. Dumped = {}
    BY <1>1, <1>2, DumpedElements
  <2> QED
    BY <2>1, EmptyElements DEF Init, Arrived, Waiting, Gathered
<1>4. SentInOrder
  BY <1>3 DEF SentInOrder
<1> QED
  BY <1>1, <1>2, <1>4 DEF PInv, ChainWhole, SlicesArePrefixes

LEMMA SendPrefix == ASSUME IInv, PInv, SendStart \/ SendMore PROVE PInv'
<1>1. TypeOK
  BY DEF IInv
<1>2. PICK p \in Packet :
        /\ p.first = cell + 1 /\ p.first <= p.last
        /\ Transmit(p) /\ p.slice = Len(sent')
        /\ ~ IsStart(p) => Len(sent') = Len(sent)
  BY <1>1, SendFacts
<1>3. /\ cell' = p.last /\ cell \in Nat /\ p.last \in Nat
      /\ UNCHANGED <<last_cc, slice_chain, slices, freed, leaked>>
  BY <1>1, <1>2 DEF Transmit, f_cblk, TypeOK, Packet
<1>4. Arrived' \subseteq Arrived \cup {p}
  <2>1. Gathered' = Gathered /\ Dumped' = Dumped
    BY <1>3 DEF Gathered, Dumped
  <2>2. Waiting' \subseteq Waiting \cup {p}
    <3>1. CASE queue' = Append(queue, p)
      BY <1>1, <3>1, AppendElements DEF TypeOK, Waiting
    <3>2. CASE UNCHANGED queue
      BY <3>2 DEF Waiting
    <3> QED
      BY <1>2, <3>1, <3>2 DEF Transmit
  <2> QED
    BY <1>3, <2>1, <2>2 DEF Arrived
<1>5. \A x \in Arrived : /\ x.first \in Nat /\ x.last \in Nat
                         /\ x.first <= x.last /\ x.last <= cell
  BY <1>1, ArrivedArePackets DEF IInv, Known, Packet
<1>6. SentInOrder'
  <2>1. ASSUME NEW x \in Arrived', x.last = cell' PROVE x.slice = Len(sent')
    <3>1. x = p
      BY <1>2, <1>3, <1>4, <1>5, <2>1
    <3> QED
      BY <1>2, <3>1
  <2>2. ASSUME NEW x \in Arrived', NEW y \in Arrived', y.first = x.last + 1, ~ IsStart(y)
        PROVE  x.slice = y.slice
    <3>1. CASE x \in Arrived /\ y \in Arrived
      BY <2>2, <3>1 DEF PInv, SentInOrder
    <3>2. CASE x \in Arrived /\ y = p
      <4>1. x.last = cell
        BY <1>2, <1>3, <1>5, <2>2, <3>2
      <4>2. x.slice = Len(sent)
        BY <3>2, <4>1 DEF PInv, SentInOrder
      <4> QED
        BY <1>2, <2>2, <3>2, <4>2
    <3>3. CASE x = p
      BY <1>2, <1>3, <1>4, <1>5, <2>2, <3>3
    <3> QED
      BY <1>4, <3>1, <3>2, <3>3
  <2> QED
    BY <2>1, <2>2 DEF SentInOrder
<1>7. ChainWhole' /\ SlicesArePrefixes'
  BY <1>3 DEF PInv, ChainWhole, SlicesArePrefixes
<1> QED
  BY <1>6, <1>7 DEF PInv

(* One packet alone, and one packet more.                                  *)
LEMMA PrefixOfOne ==
  ASSUME NEW c \in Seq(Packet), Len(c) = 1, IsStart(c[1])
  PROVE  IsPrefixOfSlice(c)
<1>1. \A i \in 1 .. 1 - 1 : FALSE
  OBVIOUS
<1>2. c # <<>>
  BY EmptyElements, SMTT(30)
<1> QED
  BY <1>1, <1>2 DEF IsPrefixOfSlice

LEMMA PrefixExtended ==
  ASSUME NEW c \in Seq(Packet), NEW d \in Seq(Packet), NEW p \in Packet,
         IsPrefixOfSlice(c), Len(d) = Len(c) + 1, d[Len(c) + 1] = p,
         \A i \in 1 .. Len(c) : d[i] = c[i],
         p.first = c[Len(c)].last + 1, p.slice = c[Len(c)].slice
  PROVE  IsPrefixOfSlice(d)
<1>1. Len(c) \in Nat \ {0} /\ d # <<>>
  <2>1. c # <<>> /\ Len(c) \in Nat
    BY LenProperties DEF IsPrefixOfSlice
  <2> QED
    BY <2>1, EmptyElements
<1>2. IsStart(d[1])
  BY <1>1 DEF IsPrefixOfSlice
<1>3. ASSUME NEW i \in 1 .. Len(d) - 1
      PROVE  d[i + 1].slice = d[i].slice /\ d[i + 1].first = d[i].last + 1
  <2>1. CASE i = Len(c)
    BY <1>1, <2>1
  <2>2. CASE i \in 1 .. Len(c) - 1
    <3>1. d[i] = c[i] /\ d[i + 1] = c[i + 1]
      BY <1>1, <2>2
    <3> QED
      BY <2>2, <3>1 DEF IsPrefixOfSlice
  <2> QED
    BY <1>1, <2>1, <2>2
<1> QED
  BY <1>1, <1>2, <1>3 DEF IsPrefixOfSlice

LEMMA DecodePrefix == ASSUME IInv, PInv, GapsSeen, Decode PROVE PInv'
<1> DEFINE p == Head(queue)
<1>1. /\ TypeOK /\ Known /\ ChainCounted /\ UNCHANGED <<sent, cell>>
      /\ SentInOrder /\ ChainWhole /\ SlicesArePrefixes
  BY DEF IInv, PInv, Decode
<1>2. SentInOrder'
  <2>1. Arrived' = Arrived
    BY DecodeInv
  <2> QED
    BY <1>1, <2>1 DEF SentInOrder
<1>3. p \in Packet /\ p = queue[1] /\ p \in Arrived /\ queue # <<>>
  BY DecodeFacts DEF Arrived
<1>4. /\ Len(slice_chain) \in Nat /\ Len(slices) \in Nat /\ slice_chain \in Seq(Packet)
      /\ slice_pkt_count = Len(slice_chain) /\ slice_pkt_count \in Nat
      /\ slice_chain = <<>> <=> Len(slice_chain) = 0
  BY <1>1, Lengths, EmptyElements DEF TypeOK, ChainCounted
<1> HIDE DEF p
<1>5. CASE Skip(p)
  BY <1>1, <1>2, <1>5 DEF Skip, f_cblk, PInv, ChainWhole, SlicesArePrefixes
<1>6. CASE StartFresh(p)
  <2>1. /\ IsStart(p) /\ slice_chain = <<>> /\ slices' = slices
        /\ Gather(slice_chain, slice_pkt_count, p)
    BY <1>4, <1>6 DEF StartFresh
  <2>2. /\ slice_chain' \in Seq(Packet) /\ Len(slice_chain') = 1 /\ slice_chain'[1] = p
        /\ last_cc' = CC(p.last)
    <3>1. /\ slice_chain' \in Seq(Packet) /\ Len(slice_chain') = Len(slice_chain) + 1
          /\ slice_chain'[Len(slice_chain) + 1] = p
          /\ last_cc' = CC(p.last)
      <4>1. /\ TypeOK /\ slice_chain \in Seq(Packet) /\ slice_pkt_count \in Nat /\ p \in Packet
            /\ Gather(slice_chain, slice_pkt_count, p)
        BY <1>1, <1>3, <1>4, <2>1
      <4> QED
        BY <4>1, GatherTypes
    <3>2. Len(slice_chain) = 0
      BY <1>4, <2>1
    <3> QED
      BY <3>1, <3>2
  <2> QED
    BY <1>1, <1>2, <2>1, <2>2, PrefixOfOne DEF PInv, ChainWhole, SlicesArePrefixes
<1>7. CASE StartNext(p)
  <2>1. IsStart(p) /\ slice_chain # <<>> /\ Dump(PtsAtStart(p)) /\ Gather(<<>>, 0, p)
    BY <1>4, <1>7 DEF StartNext
  <2>2. /\ slice_chain' \in Seq(Packet) /\ Len(slice_chain') = 1 /\ slice_chain'[1] = p
        /\ last_cc' = CC(p.last)
    <3>1. /\ TypeOK /\ <<>> \in Seq(Packet) /\ Len(<<>>) = 0 /\ 0 \in Nat /\ p \in Packet
          /\ Gather(<<>>, 0, p)
      BY <1>1, <1>3, <2>1, EmptyElements
    <3>2. slice_chain' \in Seq(Packet) /\ Len(slice_chain') = Len(<<>>) + 1
      BY <3>1, GatherTypes
    <3>3. slice_chain'[Len(<<>>) + 1] = p /\ last_cc' = CC(p.last)
      BY <3>1, GatherTypes
    <3> QED
      BY <3>1, <3>2, <3>3
  <2>3. /\ Len(slices') = Len(slices) + 1
        /\ \A i \in 1 .. Len(slices) : slices'[i] = slices[i]
        /\ slices'[Len(slices) + 1].chain = slice_chain
    BY <1>1, <1>3, <2>1, PtsType, DumpFacts
  <2>4. SlicesArePrefixes'
    <3> SUFFICES ASSUME NEW i \in 1 .. Len(slices') PROVE IsPrefixOfSlice(slices'[i].chain)
      BY DEF SlicesArePrefixes
    <3>1. CASE i \in 1 .. Len(slices)
      BY <1>1, <2>3, <3>1 DEF SlicesArePrefixes
    <3>2. CASE i = Len(slices) + 1
      BY <1>1, <2>1, <2>3, <3>2 DEF ChainWhole
    <3> QED
      BY <1>4, <2>3, <3>1, <3>2
  <2> QED
    BY <1>2, <2>1, <2>2, <2>4, PrefixOfOne DEF PInv, ChainWhole
<1>8. CASE Extend(p)
  <2> DEFINE e == slice_chain[Len(slice_chain)]
  <2>1. /\ ~ IsStart(p) /\ slice_chain # <<>> /\ slices' = slices
        /\ ContinuityOK(p) /\ Gather(slice_chain, slice_pkt_count, p)
    BY <1>1, <1>4, <1>8 DEF Extend, ChainCounted
  <2>2. /\ slice_chain' \in Seq(Packet) /\ Len(slice_chain') = Len(slice_chain) + 1
        /\ \A i \in 1 .. Len(slice_chain) : slice_chain'[i] = slice_chain[i]
        /\ slice_chain'[Len(slice_chain) + 1] = p
        /\ last_cc' = CC(p.last)
    BY <1>1, <1>3, <1>4, <2>1, GatherTypes
  <2>3. e \in Packet /\ e \in Arrived
    <3>1. Len(slice_chain) \in 1 .. Len(slice_chain)
      BY <1>4, <2>1
    <3> QED
      BY <1>4, <3>1, ElementOfSeq, ToSetElements DEF Arrived, Gathered
  <2>4. p.first = e.last + 1
    <3>1. (CC(e.last) + 1) % CCMod = CC(p.first)
      BY <1>1, <2>1 DEF ChainWhole, ContinuityOK
    <3>2. e.last + 1 - CCMod < p.first /\ p.first < e.last + 1 + CCMod
      BY <1>3, <2>1 DEF GapsSeen, GapSeen
    <3>3. e.last \in Nat /\ p.first \in Nat
      BY <1>3, <2>3 DEF Packet
    <3> HIDE DEF e
    <3> QED
      BY <3>1, <3>2, <3>3, CounterStep
  <2>5. p.slice = e.slice
    BY <1>1, <1>3, <2>1, <2>3, <2>4 DEF SentInOrder
  <2>6. IsPrefixOfSlice(slice_chain')
    BY <1>1, <1>3, <1>4, <2>1, <2>2, <2>4, <2>5, PrefixExtended DEF ChainWhole
  <2> QED
    BY <1>1, <1>2, <2>1, <2>2, <2>6 DEF PInv, ChainWhole, SlicesArePrefixes
<1>9. CASE Drop(p)
  <2>1. slice_chain' = <<>> /\ slices' = slices
    BY <1>9 DEF Drop, DropChain
  <2> QED
    BY <1>1, <1>2, <2>1 DEF PInv, ChainWhole, SlicesArePrefixes
<1> QED
  BY <1>5, <1>6, <1>7, <1>8, <1>9 DEF Decode, p

LEMMA PrefixNext == IInv /\ PInv /\ GapsSeen /\ [Next]_vars => PInv'
<1> SUFFICES ASSUME IInv, PInv, GapsSeen, [Next]_vars PROVE PInv'
  OBVIOUS
<1>1. CASE SendStart \/ SendMore \/ Decode
  BY <1>1, SendPrefix, DecodePrefix
<1>2. CASE Overtake
  <2>1. Arrived' = Arrived /\ UNCHANGED <<sent, cell, last_cc, slice_chain, slices>>
    BY <1>2, OvertakeInv DEF Overtake, f_cblk
  <2> QED
    BY <2>1 DEF PInv, SentInOrder, ChainWhole, SlicesArePrefixes
<1>3. CASE UNCHANGED vars
  <2>1. UNCHANGED <<sent, cell, queue, last_cc, slice_chain, slices, freed, leaked>>
    BY <1>3 DEF vars, network, f_cblk
  <2>2. Arrived' = Arrived
    BY <2>1 DEF Arrived, Waiting, Gathered, Dumped
  <2> QED
    BY <2>1, <2>2 DEF PInv, SentInOrder, ChainWhole, SlicesArePrefixes
<1> QED
  BY <1>1, <1>2, <1>3 DEF Next

(* If no gap is a whole turn of the counter, what reaches the scheduler is *)
(* the beginning of one slice without a gap, in whatever order the packets *)
(* come.                                                                   *)
THEOREM PrefixesIfGapsSeen == Spec /\ []GapsSeen => []SlicesArePrefixes
<1>1. PInv => SlicesArePrefixes
  BY DEF PInv
<1> QED
  BY <1>1, DecoderInvariant, PrefixInit, PrefixNext, PTL DEF Spec

-----------------------------------------------------------------------------
(* When GapsSeen holds.  While packets arrive in order, a gap between the  *)
(* chain and the queue, or inside the queue, or behind it, is made of lost *)
(* packets alone: of N cells at most, if no packet has more than N.        *)
Between(L, l, f) == {p \in L : l < p.first /\ p.first < f}

Gap(N, L, l, f) == l < f /\ f - l - 1 <= N * Cardinality(Between(L, l, f))

LastBefore(i) == IF i = 1 THEN slice_chain[Len(slice_chain)].last ELSE queue[i - 1].last

HasBefore(i) == i > 1 \/ slice_chain # <<>>

LostKnown ==
  /\ IsFiniteSet(lost) /\ Cardinality(lost) <= MaxLost
  /\ \A p \in lost : p.first <= cell

GapsCounted(N) ==
  /\ \A i \in 1 .. Len(queue) : HasBefore(i) => Gap(N, lost, LastBefore(i), queue[i].first)
  /\ HasBefore(Len(queue) + 1) => Gap(N, lost, LastBefore(Len(queue) + 1), cell + 1)

GInv(N) == LostKnown /\ (overtakes = 0 => GapsCounted(N))

(* A packet lost later makes no earlier gap too long, and makes the last   *)
(* one longer by what it carried.                                          *)
LEMMA GapKept ==
  ASSUME NEW N \in Nat, NEW L, IsFiniteSet(L), NEW p, NEW l \in Nat, NEW f \in Nat, Gap(N, L, l, f)
  PROVE  Gap(N, L \cup {p}, l, f)
<1> DEFINE A == Between(L, l, f)
           B == Between(L \cup {p}, l, f)
<1>1. IsFiniteSet(L \cup {p})
  BY FS_AddElement
<1>2. A \subseteq B /\ IsFiniteSet(B)
  <2>1. A \subseteq B /\ B \subseteq L \cup {p}
    BY DEF Between
  <2> QED
    BY <1>1, <2>1, FS_Subset
<1>3. Cardinality(A) \in Nat /\ Cardinality(B) \in Nat /\ Cardinality(A) <= Cardinality(B)
  BY <1>2, FS_Subset, FS_CardinalityType
<1> HIDE DEF A, B
<1>4. N * Cardinality(A) <= N * Cardinality(B)
  BY <1>3
<1>5. l < f /\ f - l - 1 <= N * Cardinality(A)
  BY DEF Gap, A
<1>6. N * Cardinality(A) \in Nat /\ N * Cardinality(B) \in Nat
  BY <1>3
<1>7. f - l - 1 <= N * Cardinality(B)
  BY <1>4, <1>5, <1>6
<1> QED
  BY <1>5, <1>7 DEF Gap, B

LEMMA GapGrows ==
  ASSUME NEW N \in Nat, NEW L, IsFiniteSet(L), \A x \in L : x.first \in Nat,
         NEW p, NEW l \in Nat, NEW f \in Nat, Gap(N, L, l, f),
         p \notin L, p.first = f, NEW n \in Nat, 0 < n, n <= N
  PROVE  Gap(N, L \cup {p}, l, f + n)
<1> DEFINE A == Between(L, l, f)
           B == Between(L \cup {p}, l, f + n)
<1>1. A \subseteq L /\ p \notin A
  BY DEF Between
<1>2. IsFiniteSet(A) /\ IsFiniteSet(A \cup {p}) /\ Cardinality(A) \in Nat
  BY <1>1, FS_Subset, FS_AddElement, FS_CardinalityType
<1>3. Cardinality(A \cup {p}) = Cardinality(A) + 1
  BY <1>1, <1>2, FS_AddElement
<1>4. A \cup {p} \subseteq B /\ IsFiniteSet(B)
  <2>1. IsFiniteSet(L \cup {p}) /\ B \subseteq L \cup {p}
    BY FS_AddElement DEF Between
  <2>2. p \in B
    BY DEF Between, Gap
  <2>3. ASSUME NEW x \in A PROVE x \in B
    <3>1. x \in L /\ x.first \in Nat /\ l < x.first /\ x.first < f
      BY DEF Between
    <3>2. x.first < f + n
      BY <3>1
    <3> QED
      BY <3>1, <3>2 DEF Between
  <2> QED
    BY <2>1, <2>2, <2>3, FS_Subset
<1>5. Cardinality(B) \in Nat /\ Cardinality(A) + 1 <= Cardinality(B)
  <2>1. Cardinality(A \cup {p}) <= Cardinality(B)
    BY <1>4, FS_Subset
  <2>2. Cardinality(B) \in Nat
    BY <1>4, FS_CardinalityType
  <2> QED
    BY <1>3, <2>1, <2>2
<1>6. l < f /\ f - l - 1 <= N * Cardinality(A)
  BY DEF Gap
<1> HIDE DEF A, B
<1>7. N * (Cardinality(A) + 1) <= N * Cardinality(B)
  BY <1>2, <1>5
<1>8. N * (Cardinality(A) + 1) = N * Cardinality(A) + N /\ N * Cardinality(A) \in Nat
      /\ N * Cardinality(B) \in Nat
  BY <1>2, <1>5
<1>9. l < f + n /\ f + n - l - 1 <= N * Cardinality(B)
  BY <1>6, <1>7, <1>8
<1> QED
  BY <1>9 DEF Gap, B

LEMMA GapsInit == ASSUME NEW N \in Nat, Init PROVE GInv(N)
<1>1. Len(queue) = 0 /\ slice_chain = <<>> /\ lost = {}
  BY EmptyElements DEF Init
<1>2. \A i \in 1 .. 0 : FALSE
  OBVIOUS
<1>3. LostKnown
  BY <1>1, FS_EmptySet, ConstantsAssumption DEF LostKnown
<1>4. GapsCounted(N)
  BY <1>1, <1>2 DEF GapsCounted, HasBefore
<1> QED
  BY <1>3, <1>4 DEF GInv

(* The ends between which the gaps lie are numbers of cells.               *)
LEMMA EndsAreNat ==
  ASSUME TypeOK, NEW i \in 1 .. Len(queue) + 1, HasBefore(i)
  PROVE  LastBefore(i) \in Nat /\ (i \in 1 .. Len(queue) => queue[i].first \in Nat)
<1>1. Len(queue) \in Nat /\ Len(slice_chain) \in Nat
  BY Lengths
<1>2. \A j \in 1 .. Len(queue) : queue[j].first \in Nat /\ queue[j].last \in Nat
  <2> SUFFICES ASSUME NEW j \in 1 .. Len(queue) PROVE queue[j] \in Packet
    BY DEF Packet
  <2> QED
    BY ElementOfSeq DEF TypeOK
<1>3. CASE i = 1
  <2>1. slice_chain # <<>>
    BY <1>3 DEF HasBefore
  <2>2. Len(slice_chain) \in 1 .. Len(slice_chain)
    BY <1>1, <2>1, EmptyElements DEF TypeOK
  <2>3. slice_chain[Len(slice_chain)] \in Packet
    BY <2>2, ElementOfSeq DEF TypeOK
  <2> QED
    BY <1>2, <1>3, <2>3 DEF LastBefore, Packet
<1>4. CASE i # 1
  <2>1. i - 1 \in 1 .. Len(queue)
    BY <1>1, <1>4
  <2> QED
    BY <1>2, <1>4, <2>1 DEF LastBefore
<1> QED
  BY <1>3, <1>4

LEMMA SendGaps ==
  ASSUME NEW N \in Nat, \A n \in CellCounts : n <= N, IInv, GInv(N), SendStart \/ SendMore
  PROVE  GInv(N)'
<1>1. TypeOK /\ LostKnown
  BY DEF IInv, GInv
<1>2. PICK p \in Packet :
        /\ p.first = cell + 1 /\ p.first <= p.last
        /\ \E n \in CellCounts : p.last = cell + n
        /\ Transmit(p)
  BY <1>1, SendFacts
<1>3. PICK n \in CellCounts : p.last = cell + n
  BY <1>2
<1>4. /\ n \in Nat /\ 0 < n /\ n <= N /\ cell \in Nat /\ cell' = cell + n
      /\ MaxLost \in Nat /\ Len(queue) \in Nat
      /\ UNCHANGED <<overtakes, slice_chain>>
  BY <1>1, <1>2, <1>3, ConstantsAssumption, Lengths DEF Transmit, f_cblk, TypeOK
<1>5. /\ IsFiniteSet(lost) /\ Cardinality(lost) \in Nat /\ Cardinality(lost) <= MaxLost
      /\ \A x \in lost : x.first \in Nat /\ x.first <= cell
  BY <1>1, FS_CardinalityType DEF LostKnown, TypeOK, Packet
<1>6. CASE /\ queue' = Append(queue, p) /\ UNCHANGED lost
  <2>1. LostKnown'
    BY <1>4, <1>5, <1>6 DEF LostKnown
  <2>2. ASSUME overtakes = 0 PROVE GapsCounted(N)'
    <3>1. GapsCounted(N)
      BY <2>2 DEF GInv
    <3>2. /\ Len(queue') = Len(queue) + 1 /\ queue'[Len(queue) + 1] = p
          /\ \A i \in 1 .. Len(queue) : queue'[i] = queue[i]
      BY <1>1, <1>6, AppendElements DEF TypeOK
    <3>3. ASSUME NEW i \in 1 .. Len(queue'), HasBefore(i)'
          PROVE  Gap(N, lost', LastBefore(i)', queue'[i].first)
      <4>1. HasBefore(i) /\ LastBefore(i)' = LastBefore(i)
        <5>1. i > 1 => i - 1 \in 1 .. Len(queue)
          BY <1>4, <3>2
        <5> QED
          BY <1>4, <3>2, <3>3, <5>1 DEF HasBefore, LastBefore
      <4>2. CASE i \in 1 .. Len(queue)
        BY <1>6, <3>1, <3>2, <4>1, <4>2 DEF GapsCounted
      <4>3. CASE i = Len(queue) + 1
        BY <1>2, <1>6, <3>1, <3>2, <4>1, <4>3 DEF GapsCounted
      <4> QED
        BY <1>4, <3>2, <4>2, <4>3
    <3>4. Gap(N, lost, LastBefore(Len(queue) + 1), cell + 1)'
      <4>1. (LastBefore(Len(queue) + 1) = p.last)'
        BY <1>4, <3>2 DEF LastBefore
      <4>2. Cardinality(Between(lost', p.last, p.last + 1)) \in Nat
        <5>1. Between(lost', p.last, p.last + 1) \subseteq lost
          BY <1>6 DEF Between
        <5> QED
          BY <1>5, <5>1, FS_Subset, FS_CardinalityType
      <4>3. 0 <= N * Cardinality(Between(lost', p.last, p.last + 1))
        BY <4>2
      <4> QED
        BY <1>3, <1>4, <4>1, <4>3 DEF Gap
    <3> QED
      BY <3>3, <3>4 DEF GapsCounted
  <2> QED
    BY <1>4, <2>1, <2>2 DEF GInv
<1>7. CASE /\ Cardinality(lost) < MaxLost /\ lost' = lost \cup {p} /\ UNCHANGED queue
  <2>1. p \notin lost
    BY <1>2, <1>4, <1>5
  <2>2. LostKnown'
    <3>1. IsFiniteSet(lost') /\ Cardinality(lost') = Cardinality(lost) + 1
      BY <1>5, <1>7, <2>1, FS_AddElement
    <3>2. \A x \in lost' : x.first <= cell'
      BY <1>2, <1>4, <1>5, <1>7
    <3> QED
      BY <1>4, <1>5, <1>7, <3>1, <3>2 DEF LostKnown
  <2>3. ASSUME overtakes = 0 PROVE GapsCounted(N)'
    <3>1. GapsCounted(N)
      BY <2>3 DEF GInv
    <3>2. \A i \in 1 .. Len(queue) + 1 : /\ HasBefore(i)' <=> HasBefore(i)
                                         /\ LastBefore(i)' = LastBefore(i)
      BY <1>4, <1>7 DEF HasBefore, LastBefore
    <3>3. ASSUME NEW i \in 1 .. Len(queue), HasBefore(i)
          PROVE  Gap(N, lost', LastBefore(i), queue[i].first)
      <4>1. i \in 1 .. Len(queue) + 1
        BY <1>4
      <4>2. LastBefore(i) \in Nat /\ queue[i].first \in Nat
        BY <1>1, <3>3, <4>1, EndsAreNat
      <4>3. Gap(N, lost, LastBefore(i), queue[i].first)
        BY <3>1, <3>3 DEF GapsCounted
      <4> QED
        BY <1>5, <1>7, <4>2, <4>3, GapKept
    <3>4. ASSUME HasBefore(Len(queue) + 1)
          PROVE  Gap(N, lost', LastBefore(Len(queue) + 1), cell' + 1)
      <4>1. LastBefore(Len(queue) + 1) \in Nat
        BY <1>1, <1>4, <3>4, EndsAreNat
      <4>2. Gap(N, lost, LastBefore(Len(queue) + 1), cell + 1)
        BY <3>1, <3>4 DEF GapsCounted
      <4>3. Gap(N, lost', LastBefore(Len(queue) + 1), cell + 1 + n)
        <5>1. cell + 1 \in Nat /\ \A x \in lost : x.first \in Nat
          BY <1>4, <1>5
        <5> QED
          BY <1>2, <1>4, <1>5, <1>7, <2>1, <4>1, <4>2, <5>1, GapGrows
      <4>4. cell' + 1 = cell + 1 + n
        BY <1>4
      <4> QED
        BY <4>3, <4>4
    <3>5. \A i \in 1 .. Len(queue) : i \in 1 .. Len(queue) + 1
      BY <1>4
    <3>6. Len(queue) + 1 \in 1 .. Len(queue) + 1
      BY <1>4
    <3> QED
      BY <1>7, <3>2, <3>3, <3>4, <3>5, <3>6 DEF GapsCounted
  <2> QED
    BY <1>4, <2>2, <2>3 DEF GInv
<1> QED
  BY <1>2, <1>6, <1>7 DEF Transmit

(* After a step of the decoder the chain, if there is one, ends with the   *)
(* packet that was taken.                                                  *)
LEMMA DecodeEnd ==
  ASSUME IInv, Decode, slice_chain' # <<>>
  PROVE  slice_chain'[Len(slice_chain')] = queue[1]
<1> DEFINE p == Head(queue)
<1>1. /\ p \in Packet /\ p = queue[1]
      /\ Skip(p) \/ StartFresh(p) \/ StartNext(p) \/ Extend(p) \/ Drop(p)
  BY DecodeFacts
<1>2. /\ TypeOK /\ ChainCounted /\ slice_chain \in Seq(Packet) /\ slice_pkt_count \in Nat
  BY DEF IInv, TypeOK
<1> HIDE DEF p
<1>3. ~ Skip(p) /\ ~ Drop(p)
  BY <1>2 DEF Skip, Drop, DropChain, f_cblk, ChainCounted
<1>4. \E c \in Seq(Packet) : \E n \in Nat : Gather(c, n, p)
  <2>1. CASE StartFresh(p) \/ Extend(p)
    BY <1>2, <2>1 DEF StartFresh, Extend
  <2>2. CASE StartNext(p)
    <3>1. Gather(<<>>, 0, p) /\ <<>> \in Seq(Packet)
      BY <2>2, EmptyElements DEF StartNext
    <3> QED
      BY <3>1
  <2> QED
    BY <1>1, <1>3, <2>1, <2>2
<1>5. PICK c \in Seq(Packet), n \in Nat : Gather(c, n, p)
  BY <1>4
<1>6. Len(slice_chain') = Len(c) + 1 /\ slice_chain'[Len(c) + 1] = p
  BY <1>1, <1>2, <1>5, GatherTypes
<1> QED
  BY <1>1, <1>6

LEMMA DecodeGaps == ASSUME NEW N \in Nat, IInv, GInv(N), Decode PROVE GInv(N)'
<1>1. /\ UNCHANGED <<lost, overtakes, cell>> /\ LostKnown
      /\ Len(queue) \in Nat \ {0} /\ Len(queue') = Len(queue) - 1
      /\ \A i \in 1 .. Len(queue') : queue'[i] = queue[i + 1]
  BY DecodeFacts DEF GInv
<1>2. LostKnown'
  BY <1>1 DEF LostKnown
<1>3. ASSUME NEW i \in 1 .. Len(queue), HasBefore(i)'
      PROVE  HasBefore(i + 1) /\ LastBefore(i)' = LastBefore(i + 1)
  <2>1. CASE i = 1
    <3>1. slice_chain' # <<>>
      BY <1>3, <2>1 DEF HasBefore
    <3> QED
      BY <2>1, <3>1, DecodeEnd DEF HasBefore, LastBefore
  <2>2. CASE i # 1
    <3>1. i - 1 \in 1 .. Len(queue') /\ (i - 1) + 1 = i /\ (i + 1) - 1 = i /\ i + 1 > 1 /\ i + 1 # 1
      BY <1>1, <2>2
    <3> QED
      BY <1>1, <2>2, <3>1 DEF HasBefore, LastBefore
  <2> QED
    BY <2>1, <2>2
<1>4. ASSUME overtakes = 0 PROVE GapsCounted(N)'
  <2>1. GapsCounted(N)
    BY <1>4 DEF GInv
  <2>2. \A i \in 1 .. Len(queue') : i \in 1 .. Len(queue) /\ i + 1 \in 1 .. Len(queue)
    BY <1>1
  <2>3. \A i \in 1 .. Len(queue') : HasBefore(i)' => Gap(N, lost', LastBefore(i)', queue'[i].first)
    BY <1>1, <1>3, <2>1, <2>2 DEF GapsCounted
  <2>4. (HasBefore(Len(queue) + 1) => Gap(N, lost, LastBefore(Len(queue) + 1), cell + 1))'
    <3>1. PICK k \in 1 .. Len(queue) : k = Len(queue)
      BY <1>1
    <3>2. HasBefore(k)' => Gap(N, lost', LastBefore(k)', cell' + 1)
      BY <1>1, <1>3, <2>1, <3>1 DEF GapsCounted
    <3>3. k = Len(queue') + 1
      BY <1>1, <3>1
    <3> QED
      BY <3>2, <3>3 DEF HasBefore, LastBefore
  <2> QED
    BY <2>3, <2>4 DEF GapsCounted
<1> QED
  BY <1>1, <1>2, <1>4 DEF GInv

LEMMA GapsNext ==
  ASSUME NEW N \in Nat, \A n \in CellCounts : n <= N, IInv, GInv(N), [Next]_vars
  PROVE  GInv(N)'
<1>1. CASE SendStart \/ SendMore
  BY <1>1, SendGaps
<1>2. CASE Decode
  BY <1>2, DecodeGaps
<1>3. CASE Overtake
  <2>1. overtakes' # 0
    BY <1>3 DEF Overtake, IInv, TypeOK
  <2>2. UNCHANGED <<lost, cell>>
    BY <1>3 DEF Overtake
  <2> QED
    BY <2>1, <2>2 DEF GInv, LostKnown
<1>4. CASE UNCHANGED vars
  <2>1. UNCHANGED <<cell, queue, lost, overtakes, slice_chain>>
    BY <1>4 DEF vars, network, f_cblk
  <2> QED
    BY <2>1 DEF GInv, LostKnown, GapsCounted, HasBefore, LastBefore
<1> QED
  BY <1>1, <1>2, <1>3, <1>4 DEF Next

(* What the gaps add up to.                                                *)
LEMMA GapsAreSeen ==
  ASSUME NEW N \in Nat, N * MaxLost < CCMod, IInv, GInv(N), overtakes = 0
  PROVE  GapsSeen
<1> SUFFICES ASSUME queue # <<>>, slice_chain # <<>>
             PROVE  GapSeen(slice_chain[Len(slice_chain)], queue[1])
  BY DEF GapsSeen
<1>1. TypeOK /\ GapsCounted(N) /\ LostKnown /\ MaxLost \in Nat /\ CCMod \in Nat
  BY ConstantsAssumption DEF IInv, GInv
<1> DEFINE l == slice_chain[Len(slice_chain)].last
           f == queue[1].first
           B == Between(lost, l, f)
<1>2. Len(queue) \in Nat \ {0} /\ 1 \in 1 .. Len(queue) /\ 1 \in 1 .. Len(queue) + 1
  BY <1>1, Lengths, EmptyElements DEF TypeOK
<1>3. HasBefore(1) /\ LastBefore(1) = l
  BY DEF HasBefore, LastBefore
<1>4. l \in Nat /\ f \in Nat
  BY <1>1, <1>2, <1>3, EndsAreNat
<1>5. Gap(N, lost, l, f)
  BY <1>1, <1>2, <1>3 DEF GapsCounted
<1>6. Cardinality(B) \in Nat /\ Cardinality(B) <= MaxLost
  <2>1. B \subseteq lost /\ IsFiniteSet(lost)
    BY <1>1 DEF Between, LostKnown
  <2>2. Cardinality(B) \in Nat /\ Cardinality(B) <= Cardinality(lost) /\ Cardinality(lost) \in Nat
    BY <2>1, FS_Subset, FS_CardinalityType
  <2> QED
    BY <1>1, <2>2 DEF LostKnown
<1>7. l < f /\ f - l - 1 <= N * Cardinality(B)
  BY <1>5 DEF Gap
<1> HIDE DEF l, f, B
<1>8. N * Cardinality(B) <= N * MaxLost /\ N * Cardinality(B) \in Nat /\ N * MaxLost \in Nat
  BY <1>1, <1>6
<1>9. l + 1 - CCMod < f /\ f < l + 1 + CCMod
  BY <1>1, <1>4, <1>7, <1>8
<1> QED
  BY <1>9 DEF GapSeen, l, f

LEMMA OrderedPrefixNext ==
  ASSUME IInv, overtakes = 0 => GapsSeen, overtakes = 0 => PInv, [Next]_vars
  PROVE  overtakes' = 0 => PInv'
<1>1. overtakes' = 0 => overtakes = 0
  <2>1. overtakes \in Nat
    BY DEF IInv, TypeOK
  <2>2. CASE Overtake
    BY <2>1, <2>2 DEF Overtake
  <2>3. CASE SendStart \/ SendMore \/ Decode \/ UNCHANGED vars
    BY <2>3 DEF SendStart, SendMore, Transmit, Decode, vars, network
  <2> QED
    BY <2>2, <2>3 DEF Next
<1> QED
  BY <1>1, PrefixNext

(* While packets arrive in order and those that may be lost together carry *)
(* fewer cells than the counter counts, what reaches the scheduler is the  *)
(* beginning of one slice without a gap.                                   *)
THEOREM PrefixesInOrder ==
  ASSUME NEW N \in Nat, \A n \in CellCounts : n <= N, N * MaxLost < CCMod
  PROVE  Spec => [](overtakes = 0 => SlicesArePrefixes)
<1> DEFINE G == GInv(N)
           Q == overtakes = 0 => PInv
<1>1. Init => G
  BY GapsInit
<1>2. IInv /\ G /\ [Next]_vars => G'
  BY GapsNext
<1>3. IInv /\ G => (overtakes = 0 => GapsSeen)
  BY GapsAreSeen
<1>4. Init => Q
  BY PrefixInit
<1>5. IInv /\ (overtakes = 0 => GapsSeen) /\ Q /\ [Next]_vars => Q'
  BY OrderedPrefixNext
<1>6. Q => (overtakes = 0 => SlicesArePrefixes)
  BY DEF PInv
<1> HIDE DEF G, Q
<1> QED
  BY <1>1, <1>2, <1>3, <1>4, <1>5, <1>6, DecoderInvariant, PTL DEF Spec

-----------------------------------------------------------------------------
(***************************************************************************)
(* For slices of any size, any number of them, hardware buffers of any     *)
(* size and clocks of any width: the hardware's buffers are counted, the   *)
(* decoder gets the slices in order and piece by piece (PiecesInOrder),    *)
(* and, under the conditions the theorems state, slice_packing_thread      *)
(* never finds no buffer (BuffersSuffice) and no slice is shown too early  *)
(* (ShownInTime).                                                          *)
(*                                                                         *)
(* None of the three is inductive.  That a buffer is there when one is     *)
(* needed is a matter of where the others are: Counted says that they are  *)
(* all somewhere, Wanted that a burst makes no more slices ready than are  *)
(* wanted although SLICE_READY is read once, Where that the buffers of the *)
(* slice that is packed are full, so that it never has more than its size  *)
(* needs.  For the clock InStep says what each of pcr_update_thread's      *)
(* locals means at each of its steps.                                      *)
(***************************************************************************)

ChainsOf(q)  == [i \in 1 .. Len(q) |-> q[i].chain]
ReadyBuffers == FlattenSeq(ChainsOf(ready))

(* What slice_packing_thread knows at each of its steps.                   *)
Where ==
  /\ sizes \in Seq(Sizes) /\ slice_pipe \in Seq(1 .. Len(sizes)) /\ slice \in 0 .. Len(sizes)
  /\ slice = 0 <=> pack_pc \in {"len", "pull"}
  /\ slice = 0 => copied = 0 /\ hw_chain = <<>>
  /\ pack_pc \in {"get", "aborted"} => /\ copied = Len(hw_chain) * HwCap
                                       /\ copied < sizes[slice]
  /\ pack_pc = "put" => copied = sizes[slice] /\ hw_chain # <<>>

(* How many slices it may still make ready.                                *)
Wanted ==
  /\ Len(ready) <= HighSlices
  /\ pack_pc # "len" => slices_to_dump >= 1 /\ Len(ready) + slices_to_dump <= HighSlices

(* A slice that is ready or presented has a buffer.                        *)
Held ==
  /\ \A i \in 1 .. Len(ready) : ready[i].chain # <<>>
  /\ presenting = Nobody \/ presenting.chain # <<>>
  /\ show_pc = "show" => presenting # Nobody

(* Every buffer is in one place.                                           *)
Counted ==
  in_list + decoder + Len(hw_chain) + Len(presenting.chain) + Len(ReadyBuffers) = NumHwBuffers

SchedulerInv == SchedulerTypeOK /\ Where /\ Wanted /\ Held /\ Counted

-----------------------------------------------------------------------------
Slices(B) == [slice : Nat, chain : Seq(B)]

LEMMA FunctionIsSeq ==
  ASSUME NEW S, NEW n \in Nat, NEW f \in [1 .. n -> S]
  PROVE  f \in Seq(S) /\ Len(f) = n
OBVIOUS

LEMMA ChainsType ==
  ASSUME NEW B, NEW q \in Seq(Slices(B))
  PROVE  /\ ChainsOf(q) \in Seq(Seq(B)) /\ Len(q) \in Nat /\ Len(ChainsOf(q)) = Len(q)
         /\ \A i \in 1 .. Len(q) : ChainsOf(q)[i] = q[i].chain /\ q[i] \in Slices(B)
<1>1. Len(q) \in Nat /\ \A i \in 1 .. Len(q) : q[i] \in Slices(B)
  BY LenProperties, ElementOfSeq
<1>2. \A i \in 1 .. Len(q) : q[i].chain \in Seq(B)
  BY <1>1 DEF Slices
<1>3. ChainsOf(q) \in [1 .. Len(q) -> Seq(B)]
  BY <1>2 DEF ChainsOf
<1>4. ChainsOf(q) \in Seq(Seq(B)) /\ Len(ChainsOf(q)) = Len(q)
  BY <1>1, <1>3
<1> QED
  BY <1>1, <1>4 DEF ChainsOf

LEMMA BuffersEmpty == FlattenSeq(ChainsOf(<<>>)) = <<>>
<1>1. ChainsOf(<<>>) = <<>>
  BY DEF ChainsOf
<1> QED
  BY <1>1, FlattenEmpty

LEMMA BuffersType ==
  ASSUME NEW B, NEW q \in Seq(Slices(B))
  PROVE  FlattenSeq(ChainsOf(q)) \in Seq(B)
BY ChainsType, FlattenType

LEMMA BuffersAppend ==
  ASSUME NEW B, NEW q \in Seq(Slices(B)), NEW e \in Slices(B)
  PROVE  FlattenSeq(ChainsOf(Append(q, e))) = FlattenSeq(ChainsOf(q)) \o e.chain
<1> DEFINE r == Append(q, e)
           c == e.chain
<1>1. /\ r \in Seq(Slices(B)) /\ Len(q) \in Nat /\ Len(r) = Len(q) + 1
      /\ \A i \in 1 .. Len(q) : r[i] = q[i]
      /\ r[Len(q) + 1] = e
  BY AppendElements
<1>2. c \in Seq(B)
  BY DEF Slices
<1>3. /\ ChainsOf(q) \in Seq(Seq(B)) /\ Len(ChainsOf(q)) = Len(q)
      /\ \A i \in 1 .. Len(q) : ChainsOf(q)[i] = q[i].chain
  BY ChainsType
<1>4. /\ ChainsOf(r) \in Seq(Seq(B)) /\ Len(ChainsOf(r)) = Len(r)
      /\ \A i \in 1 .. Len(r) : ChainsOf(r)[i] = r[i].chain
  BY <1>1, ChainsType
<1>5. e.chain = c
  OBVIOUS
<1> HIDE DEF r, c
<1>6. /\ Append(ChainsOf(q), c) \in Seq(Seq(B)) /\ Len(Append(ChainsOf(q), c)) = Len(q) + 1
      /\ \A i \in 1 .. Len(q) : Append(ChainsOf(q), c)[i] = ChainsOf(q)[i]
      /\ Append(ChainsOf(q), c)[Len(q) + 1] = c
  <2> DEFINE s == ChainsOf(q)
  <2>1. s \in Seq(Seq(B)) /\ Len(s) = Len(q)
    BY <1>3
  <2> HIDE DEF s
  <2>2. /\ Append(s, c) \in Seq(Seq(B)) /\ Len(Append(s, c)) = Len(s) + 1
        /\ \A i \in 1 .. Len(s) : Append(s, c)[i] = s[i]
        /\ Append(s, c)[Len(s) + 1] = c
    BY <1>2, <2>1, AppendElements
  <2> QED
    BY <2>1, <2>2 DEF s
<1>7. ChainsOf(r) = Append(ChainsOf(q), c)
  <2>1. Len(ChainsOf(r)) = Len(Append(ChainsOf(q), c))
    BY <1>1, <1>4, <1>6
  <2>2. \A i \in 1 .. Len(ChainsOf(r)) : ChainsOf(r)[i] = Append(ChainsOf(q), c)[i]
    <3> SUFFICES ASSUME NEW i \in 1 .. Len(q) + 1
                 PROVE  ChainsOf(r)[i] = Append(ChainsOf(q), c)[i]
      BY <1>1, <1>4
    <3>1. CASE i = Len(q) + 1
      BY <3>1, <1>1, <1>4, <1>5, <1>6
    <3>2. CASE i \in 1 .. Len(q)
      BY <3>2, <1>1, <1>3, <1>4, <1>6
    <3>3. i = Len(q) + 1 \/ i \in 1 .. Len(q)
      BY <1>1
    <3> QED
      BY <3>1, <3>2, <3>3
  <2> QED
    BY <1>4, <1>6, <2>1, <2>2, SeqEqual
<1>8. FlattenSeq(Append(ChainsOf(q), c)) = FlattenSeq(ChainsOf(q)) \o c
  BY <1>2, <1>3, FlattenAppend
<1> QED
  BY <1>5, <1>7, <1>8 DEF r

LEMMA BuffersTail ==
  ASSUME NEW B, NEW q \in Seq(Slices(B)), q # <<>>
  PROVE  FlattenSeq(ChainsOf(q)) = Head(q).chain \o FlattenSeq(ChainsOf(Tail(q)))
<1> DEFINE r == Tail(q)
           s == ChainsOf(q)
<1>1. /\ r \in Seq(Slices(B)) /\ Len(q) \in Nat \ {0} /\ Len(r) = Len(q) - 1
      /\ \A i \in 1 .. Len(r) : r[i] = q[i + 1]
      /\ Head(q) = q[1]
  BY HeadTailElements
<1>2. /\ s \in Seq(Seq(B)) /\ Len(s) = Len(q)
      /\ \A i \in 1 .. Len(q) : s[i] = q[i].chain
  BY ChainsType
<1>3. /\ ChainsOf(r) \in Seq(Seq(B)) /\ Len(ChainsOf(r)) = Len(r)
      /\ \A i \in 1 .. Len(r) : ChainsOf(r)[i] = r[i].chain
  BY <1>1, ChainsType
<1> HIDE DEF r, s
<1>4. s # <<>>
  BY <1>1, <1>2, EmptyElements
<1>5. /\ Head(s) = s[1] /\ Tail(s) \in Seq(Seq(B)) /\ Len(Tail(s)) = Len(s) - 1
      /\ \A i \in 1 .. Len(Tail(s)) : Tail(s)[i] = s[i + 1]
  BY <1>2, <1>4, HeadTailElements
<1>6. Head(s) = Head(q).chain
  BY <1>1, <1>2, <1>5
<1>7. Tail(s) = ChainsOf(r)
  <2>1. Len(Tail(s)) = Len(ChainsOf(r))
    BY <1>1, <1>2, <1>3, <1>5
  <2>2. \A i \in 1 .. Len(Tail(s)) : Tail(s)[i] = ChainsOf(r)[i]
    <3> SUFFICES ASSUME NEW i \in 1 .. Len(Tail(s)) PROVE Tail(s)[i] = ChainsOf(r)[i]
      OBVIOUS
    <3>1. i \in 1 .. Len(r) /\ i + 1 \in 1 .. Len(q)
      BY <1>1, <1>2, <1>5
    <3> QED
      BY <3>1, <1>1, <1>2, <1>3, <1>5
  <2> QED
    BY <1>3, <1>5, <2>1, <2>2, SeqEqual
<1>8. FlattenSeq(s) = Head(s) \o FlattenSeq(Tail(s))
  BY <1>2, <1>4, FlattenHeadTail
<1> QED
  BY <1>6, <1>7, <1>8 DEF r, s

-----------------------------------------------------------------------------
Piece == Nat \X Nat

LEMMA PiecesType ==
  ASSUME NEW n \in Nat, NEW i \in Nat, NEW j \in Nat, i <= j + 1
  PROVE  /\ Pieces(n, i, j) \in Seq(Piece) /\ Len(Pieces(n, i, j)) = j - i + 1
         /\ \A k \in 1 .. j - i + 1 : Pieces(n, i, j)[k] = <<n, i + k - 1>>
<1>1. j - i + 1 \in Nat
  OBVIOUS
<1>2. \A k \in 1 .. j - i + 1 : <<n, i + k - 1>> \in Piece
  BY DEF Piece
<1>3. Pieces(n, i, j) \in [1 .. j - i + 1 -> Piece]
  BY <1>2 DEF Pieces
<1>4. Pieces(n, i, j) \in Seq(Piece) /\ Len(Pieces(n, i, j)) = j - i + 1
  BY <1>1, <1>3
<1> QED
  BY <1>4 DEF Pieces

LEMMA PiecesFrom ==
  ASSUME NEW n \in Nat, NEW i \in Nat, NEW j \in Nat, i <= j
  PROVE  /\ Pieces(n, i + 1, j) \in Seq(Piece) /\ Len(Pieces(n, i + 1, j)) = j - i
         /\ \A k \in 1 .. j - i : Pieces(n, i + 1, j)[k] = <<n, i + k>>
<1> DEFINE h == i + 1
<1>1. h \in Nat /\ h <= j + 1 /\ j - h + 1 = j - i /\ \A k \in 1 .. j - i : h + k - 1 = i + k
  OBVIOUS
<1> HIDE DEF h
<1>2. /\ Pieces(n, h, j) \in Seq(Piece) /\ Len(Pieces(n, h, j)) = j - h + 1
      /\ \A k \in 1 .. j - h + 1 : Pieces(n, h, j)[k] = <<n, h + k - 1>>
  BY <1>1, PiecesType
<1>3. /\ Pieces(n, h, j) \in Seq(Piece) /\ Len(Pieces(n, h, j)) = j - i
      /\ \A k \in 1 .. j - i : Pieces(n, h, j)[k] = <<n, i + k>>
  BY <1>1, <1>2
<1> QED
  BY <1>3 DEF h

LEMMA PiecesNone ==
  ASSUME NEW n \in Nat, NEW j \in Nat PROVE Pieces(n, j + 1, j) = <<>>
<1>1. j <= j /\ j - j = 0
  OBVIOUS
<1>2. Pieces(n, j + 1, j) \in Seq(Piece) /\ Len(Pieces(n, j + 1, j)) = 0
  BY <1>1, PiecesFrom
<1> QED
  BY <1>2, EmptyElements

LEMMA PiecesSplit ==
  ASSUME NEW n \in Nat, NEW i \in Nat, NEW j \in Nat, NEW k \in Nat, i <= j, j <= k
  PROVE  Pieces(n, i + 1, j) \o Pieces(n, j + 1, k) = Pieces(n, i + 1, k)
<1> DEFINE a == Pieces(n, i + 1, j)
           b == Pieces(n, j + 1, k)
           c == Pieces(n, i + 1, k)
<1>1. /\ a \in Seq(Piece) /\ Len(a) = j - i
      /\ \A m \in 1 .. j - i : a[m] = <<n, i + m>>
  BY PiecesFrom
<1>2. /\ b \in Seq(Piece) /\ Len(b) = k - j
      /\ \A m \in 1 .. k - j : b[m] = <<n, j + m>>
  BY PiecesFrom
<1>0. i <= k
  OBVIOUS
<1>3. /\ c \in Seq(Piece) /\ Len(c) = k - i
      /\ \A m \in 1 .. k - i : c[m] = <<n, i + m>>
  BY <1>0, PiecesFrom
<1> HIDE DEF a, b, c
<1>4. /\ a \o b \in Seq(Piece) /\ Len(a \o b) = Len(a) + Len(b)
      /\ \A m \in 1 .. Len(a) + Len(b) :
           (a \o b)[m] = IF m <= Len(a) THEN a[m] ELSE b[m - Len(a)]
  BY <1>1, <1>2, ConcatProperties
<1>5. Len(a \o b) = k - i
  BY <1>1, <1>2, <1>4
<1>6. \A m \in 1 .. k - i : (a \o b)[m] = c[m]
  <2> SUFFICES ASSUME NEW m \in 1 .. k - i PROVE (a \o b)[m] = c[m]
    OBVIOUS
  <2>1. c[m] = <<n, i + m>>
    BY <1>3
  <2>2. (a \o b)[m] = IF m <= j - i THEN a[m] ELSE b[m - (j - i)]
    BY <1>1, <1>2, <1>4, SMTT(30)
  <2>3. CASE m <= j - i
    BY <2>1, <2>2, <2>3, <1>1
  <2>4. CASE ~(m <= j - i)
    <3>1. m - (j - i) \in 1 .. k - j /\ j + (m - (j - i)) = i + m
      BY <2>4
    <3> QED
      BY <2>1, <2>2, <2>4, <3>1, <1>2
  <2> QED
    BY <2>3, <2>4
<1>7. a \o b = c
  <2>1. Len(a \o b) = Len(c) /\ \A m \in 1 .. Len(c) : (a \o b)[m] = c[m]
    BY <1>3, <1>5, <1>6
  <2> QED
    BY <2>1, <1>3, <1>4, SeqEqual
<1> QED
  BY <1>7 DEF a, b, c

-----------------------------------------------------------------------------
(* The pieces of the slices ns, whose sizes are z.                         *)
Whole(ns, z) == [i \in 1 .. Len(ns) |-> Pieces(ns[i], 1, z[ns[i]])]

LEMMA WholeType ==
  ASSUME NEW z \in Seq(Nat), NEW ns \in Seq(1 .. Len(z))
  PROVE  /\ Whole(ns, z) \in Seq(Seq(Piece)) /\ Len(Whole(ns, z)) = Len(ns)
         /\ Len(ns) \in Nat
         /\ \A i \in 1 .. Len(ns) : /\ ns[i] \in 1 .. Len(z)
                                    /\ Whole(ns, z)[i] = Pieces(ns[i], 1, z[ns[i]])
<1>1. Len(ns) \in Nat /\ Len(z) \in Nat /\ \A i \in 1 .. Len(ns) : ns[i] \in 1 .. Len(z)
  BY LenProperties, ElementOfSeq
<1>2. \A n \in 1 .. Len(z) : n \in Nat /\ z[n] \in Nat
  BY <1>1, ElementOfSeq
<1>3. \A n \in 1 .. Len(z) : Pieces(n, 1, z[n]) \in Seq(Piece)
  <2> SUFFICES ASSUME NEW n \in 1 .. Len(z) PROVE Pieces(n, 1, z[n]) \in Seq(Piece)
    OBVIOUS
  <2>1. n \in Nat /\ z[n] \in Nat /\ 1 \in Nat /\ 1 <= z[n] + 1
    BY <1>2
  <2> QED
    BY <2>1, PiecesType
<1>4. Whole(ns, z) \in [1 .. Len(ns) -> Seq(Piece)]
  BY <1>1, <1>3 DEF Whole
<1>5. Whole(ns, z) \in Seq(Seq(Piece)) /\ Len(Whole(ns, z)) = Len(ns)
  BY <1>1, <1>4, FunctionIsSeq
<1> QED
  BY <1>1, <1>5 DEF Whole

LEMMA WholeAppend ==
  ASSUME NEW z \in Seq(Nat), NEW ns \in Seq(1 .. Len(z)), NEW n \in 1 .. Len(z)
  PROVE  FlattenSeq(Whole(Append(ns, n), z)) =
           FlattenSeq(Whole(ns, z)) \o Pieces(n, 1, z[n])
<1> DEFINE r == Append(ns, n)
           s == Whole(ns, z)
           c == Pieces(n, 1, z[n])
<1>1. /\ r \in Seq(1 .. Len(z)) /\ Len(ns) \in Nat /\ Len(r) = Len(ns) + 1
      /\ \A i \in 1 .. Len(ns) : r[i] = ns[i]
      /\ r[Len(ns) + 1] = n
  BY AppendElements
<1>2. c \in Seq(Piece)
  <2>1. n \in Nat /\ z[n] \in Nat /\ 1 \in Nat /\ 1 <= z[n] + 1
    BY ElementOfSeq, LenProperties
  <2> QED
    BY <2>1, PiecesType
<1>3. /\ s \in Seq(Seq(Piece)) /\ Len(s) = Len(ns)
      /\ \A i \in 1 .. Len(ns) : s[i] = Pieces(ns[i], 1, z[ns[i]])
  BY WholeType
<1>4. /\ Whole(r, z) \in Seq(Seq(Piece)) /\ Len(Whole(r, z)) = Len(r)
      /\ \A i \in 1 .. Len(r) : Whole(r, z)[i] = Pieces(r[i], 1, z[r[i]])
  BY <1>1, WholeType
<1>5. Pieces(n, 1, z[n]) = c
  OBVIOUS
<1> HIDE DEF r, s, c
<1>6. /\ Append(s, c) \in Seq(Seq(Piece)) /\ Len(Append(s, c)) = Len(ns) + 1
      /\ \A i \in 1 .. Len(ns) : Append(s, c)[i] = s[i]
      /\ Append(s, c)[Len(ns) + 1] = c
  <2> DEFINE Q == Seq(Piece)
  <2>1. c \in Q /\ s \in Seq(Q)
    BY <1>2, <1>3
  <2> HIDE DEF Q
  <2>2. /\ Append(s, c) \in Seq(Q) /\ Len(Append(s, c)) = Len(s) + 1
        /\ \A i \in 1 .. Len(s) : Append(s, c)[i] = s[i]
        /\ Append(s, c)[Len(s) + 1] = c
    BY <2>1, AppendElements
  <2> QED
    BY <1>3, <2>2 DEF Q
<1>7. Whole(r, z) = Append(s, c)
  <2>1. Len(Whole(r, z)) = Len(Append(s, c))
    BY <1>1, <1>4, <1>6
  <2>2. \A i \in 1 .. Len(Whole(r, z)) : Whole(r, z)[i] = Append(s, c)[i]
    <3> SUFFICES ASSUME NEW i \in 1 .. Len(ns) + 1 PROVE Whole(r, z)[i] = Append(s, c)[i]
      BY <1>1, <1>4
    <3>1. CASE i = Len(ns) + 1
      BY <3>1, <1>1, <1>4, <1>5, <1>6
    <3>2. CASE i \in 1 .. Len(ns)
      BY <3>2, <1>1, <1>3, <1>4, <1>6
    <3>3. i = Len(ns) + 1 \/ i \in 1 .. Len(ns)
      BY <1>1
    <3> QED
      BY <3>1, <3>2, <3>3
  <2> QED
    BY <1>4, <1>6, <2>1, <2>2, SeqEqual
<1>8. FlattenSeq(Append(s, c)) = FlattenSeq(s) \o c
  BY <1>2, <1>3, FlattenAppend
<1> QED
  BY <1>5, <1>7, <1>8 DEF r, s

LEMMA WholeTail ==
  ASSUME NEW z \in Seq(Nat), NEW ns \in Seq(1 .. Len(z)), ns # <<>>
  PROVE  FlattenSeq(Whole(ns, z)) =
           Pieces(Head(ns), 1, z[Head(ns)]) \o FlattenSeq(Whole(Tail(ns), z))
<1> DEFINE r == Tail(ns)
           s == Whole(ns, z)
<1>1. /\ r \in Seq(1 .. Len(z)) /\ Len(ns) \in Nat \ {0} /\ Len(r) = Len(ns) - 1
      /\ \A i \in 1 .. Len(r) : r[i] = ns[i + 1]
      /\ Head(ns) = ns[1]
  BY HeadTailElements
<1>2. /\ s \in Seq(Seq(Piece)) /\ Len(s) = Len(ns)
      /\ \A i \in 1 .. Len(ns) : s[i] = Pieces(ns[i], 1, z[ns[i]])
  BY WholeType
<1>3. /\ Whole(r, z) \in Seq(Seq(Piece)) /\ Len(Whole(r, z)) = Len(r)
      /\ \A i \in 1 .. Len(r) : Whole(r, z)[i] = Pieces(r[i], 1, z[r[i]])
  BY <1>1, WholeType
<1> HIDE DEF r, s
<1>4. s # <<>>
  BY <1>1, <1>2, EmptyElements
<1>5. /\ Head(s) = s[1] /\ Tail(s) \in Seq(Seq(Piece)) /\ Len(Tail(s)) = Len(s) - 1
      /\ \A i \in 1 .. Len(Tail(s)) : Tail(s)[i] = s[i + 1]
  BY <1>2, <1>4, HeadTailElements
<1>6. Head(s) = Pieces(Head(ns), 1, z[Head(ns)])
  BY <1>1, <1>2, <1>5
<1>7. Tail(s) = Whole(r, z)
  <2>1. Len(Tail(s)) = Len(Whole(r, z))
    BY <1>1, <1>2, <1>3, <1>5
  <2>2. \A i \in 1 .. Len(Tail(s)) : Tail(s)[i] = Whole(r, z)[i]
    <3> SUFFICES ASSUME NEW i \in 1 .. Len(Tail(s)) PROVE Tail(s)[i] = Whole(r, z)[i]
      OBVIOUS
    <3>1. i \in 1 .. Len(r) /\ i + 1 \in 1 .. Len(ns)
      BY <1>1, <1>2, <1>5
    <3> QED
      BY <3>1, <1>1, <1>2, <1>3, <1>5
  <2> QED
    BY <1>3, <1>5, <2>1, <2>2, SeqEqual
<1>8. FlattenSeq(s) = Head(s) \o FlattenSeq(Tail(s))
  BY <1>2, <1>4, FlattenHeadTail
<1> QED
  BY <1>6, <1>7, <1>8 DEF r, s

LEMMA WholeMore ==
  ASSUME NEW z \in Seq(Nat), NEW n \in Nat, NEW ns \in Seq(1 .. Len(z))
  PROVE  Whole(ns, Append(z, n)) = Whole(ns, z) /\ ns \in Seq(1 .. Len(Append(z, n)))
<1> DEFINE y == Append(z, n)
<1>1. /\ y \in Seq(Nat) /\ Len(z) \in Nat /\ Len(y) = Len(z) + 1
      /\ \A i \in 1 .. Len(z) : y[i] = z[i]
  BY AppendElements
<1> HIDE DEF y
<1>2. 1 .. Len(z) \subseteq 1 .. Len(y)
  BY <1>1
<1>3. ns \in Seq(1 .. Len(y))
  BY <1>2, SeqMonotonic
<1>4. \A i \in 1 .. Len(ns) : Pieces(ns[i], 1, y[ns[i]]) = Pieces(ns[i], 1, z[ns[i]])
  BY <1>1, WholeType
<1>5. Whole(ns, y) = Whole(ns, z)
  BY <1>4 DEF Whole
<1> QED
  BY <1>3, <1>5 DEF y
-----------------------------------------------------------------------------
ClockTyped ==
  /\ now \in Nat /\ pcr_pipe \in Seq(Time) /\ pcrs \in Nat
  /\ pcr_pc \in {"get", "recv", "now", "set"}
  /\ {pcr_time, pcr_received_time, pcr_now, curr_time} \subseteq Time
  /\ pcr_known \in BOOLEAN /\ synced \in BOOLEAN

BuffersTyped ==
  /\ sizes \in Seq(Nat) /\ slice_pipe \in Seq(Nat)
  /\ pack_pc \in {"len", "pull", "get", "put", "aborted"}
  /\ slices_to_dump \in 0 .. HighSlices /\ slice \in Nat /\ copied \in Nat
  /\ hw_chain \in Seq(Buffer)
  /\ ready \in Seq(Slices(Buffer))
  /\ presenting \in Slices(Buffer)
  /\ show_pc \in {"take", "show"}
  /\ in_list \in 0 .. NumHwBuffers /\ decoder \in 0 .. DecoderHolds
  /\ shown \in Seq(Buffer)

LEMMA TypeParts == SchedulerTypeOK <=> ClockTyped /\ BuffersTyped
BY DEF SchedulerTypeOK, ClockTyped, BuffersTyped, Slices

LEMMA SinkTimeType == now \in Nat => SinkTime \in Time
<1> SUFFICES ASSUME now \in Nat PROVE SinkTime \in Time
  OBVIOUS
<1> DEFINE t == (SinkStart + now) % U32
<1>1. /\ SinkStart + now \in Nat /\ U32 \in Nat \ {0} /\ U64 \in Nat \ {0} /\ U32 < U64
      /\ U32 % 2 = 0
  BY SchedulerAssumption
<1>2. t \in 0 .. U32 - 1
  BY <1>1
<1>3. U32 \div 2 \in Nat
  BY <1>1
<1> HIDE DEF t
<1>4. t \in 0 .. U64 - 1 /\ U64 - U32 + t \in 0 .. U64 - 1
  BY <1>1, <1>2
<1> QED
  BY <1>4 DEF SinkTime, Time, t

LEMMA ClockInit == SchedulerInit => ClockTyped
<1> SUFFICES ASSUME SchedulerInit PROVE ClockTyped
  OBVIOUS
<1>1. 0 \in Time /\ Garbage \subseteq Time
  BY SchedulerAssumption DEF Time
<1> QED
  BY <1>1, EmptyElements DEF SchedulerInit, ClockTyped

LEMMA ClockNext == ClockTyped /\ [SchedulerNext]_schedulerVars => ClockTyped'
<1> SUFFICES ASSUME ClockTyped, [SchedulerNext]_schedulerVars PROVE ClockTyped'
  OBVIOUS
<1>0. /\ now \in Nat /\ pcr_pipe \in Seq(Time) /\ pcrs \in Nat
      /\ pcr_time \in Time /\ pcr_received_time \in Time /\ pcr_now \in Time
      /\ curr_time \in Time
  BY DEF ClockTyped
<1>1. CASE Tick
  BY <1>1 DEF ClockTyped, Tick, arrivals, clock
<1>2. CASE PcrArrives
  <2>1. SourceTime % U64 \in Time
    BY <1>0, SchedulerAssumption DEF SourceTime, Time
  <2>2. Append(pcr_pipe, SourceTime % U64) \in Seq(Time)
    BY <1>0, <2>1, AppendElements
  <2> QED
    BY <1>2, <2>2 DEF ClockTyped, PcrArrives, clock
<1>3. CASE PcrGet
  <2>1. CASE pcr_pipe = <<>>
    BY <1>3, <2>1 DEF ClockTyped, PcrGet
  <2>2. CASE pcr_pipe # <<>>
    <3>1. Head(pcr_pipe) \in Time /\ Tail(pcr_pipe) \in Seq(Time)
      BY <1>0, <2>2, HeadTailElements
    <3> QED
      BY <1>3, <2>2, <3>1 DEF ClockTyped, PcrGet
  <2> QED
    BY <2>1, <2>2
<1>4. CASE PcrRecv
  <2>1. SinkTime \in Time
    BY <1>0, SinkTimeType
  <2> QED
    BY <1>4, <2>1 DEF ClockTyped, PcrRecv, arrivals
<1>5. CASE PcrNow
  <2>1. SinkTime \in Time
    BY <1>0, SinkTimeType
  <2> QED
    BY <1>5, <2>1 DEF ClockTyped, PcrNow, arrivals
<1>6. CASE PcrSet
  <2>1. /\ pcr_time \in Int /\ pcr_now \in Int /\ pcr_received_time \in Int /\ DelayMs \in Int
        /\ U64 \in Nat \ {0}
    BY <1>0, SchedulerAssumption DEF Time
  <2>2. Estimate \in Time
    BY <2>1 DEF Estimate, Time
  <2> QED
    BY <1>6, <2>2 DEF ClockTyped, PcrSet, arrivals
<1>7. CASE UNCHANGED <<now, pcr_pipe, pcrs, clock>>
  BY <1>7 DEF ClockTyped, clock
<1>8. ASSUME SliceArrives \/ EmptyBufferDone \/ Packing \/ Presenting \/ UNCHANGED schedulerVars
      PROVE  UNCHANGED <<now, pcr_pipe, pcrs, clock>>
  BY <1>8 DEF SliceArrives, EmptyBufferDone, Packing, PackLen, PackNothing, PackPull, PackGet,
              PackPut, Presenting, Take, Present, Show, schedulerVars, arrivals
<1> QED
  BY <1>1, <1>2, <1>3, <1>4, <1>5, <1>6, <1>7, <1>8 DEF SchedulerNext, Pcr

-----------------------------------------------------------------------------
BuffersOK == BuffersTyped /\ Where /\ Wanted /\ Held /\ Counted

BufferKnown ==
  /\ Len(sizes) \in Nat /\ Len(ready) \in Nat /\ Len(hw_chain) \in Nat
  /\ presenting.chain \in Seq(Buffer) /\ Len(presenting.chain) \in Nat
  /\ ReadyBuffers \in Seq(Buffer) /\ Len(ReadyBuffers) \in Nat
  /\ slices_to_dump \in Nat /\ in_list \in Nat /\ decoder \in Nat
  /\ HwCap \in Nat \ {0} /\ HighSlices \in Nat \ {0} /\ DecoderHolds \in Nat \ {0}
  /\ NumHwBuffers \in Nat
  /\ Sizes \subseteq Nat \ {0}
  /\ slice # 0 => sizes[slice] \in Nat \ {0}

LEMMA BufferFacts ==
  ASSUME BuffersOK PROVE BufferKnown
<1>1. /\ sizes \in Seq(Sizes) /\ sizes \in Seq(Nat) /\ ready \in Seq(Slices(Buffer))
      /\ hw_chain \in Seq(Buffer) /\ presenting \in Slices(Buffer)
      /\ slices_to_dump \in 0 .. HighSlices /\ in_list \in 0 .. NumHwBuffers
      /\ decoder \in 0 .. DecoderHolds /\ slice \in 0 .. Len(sizes)
  BY DEF BuffersOK, BuffersTyped, Where
<1>2. /\ HwCap \in Nat \ {0} /\ HighSlices \in Nat \ {0} /\ NumHwBuffers \in Nat
      /\ DecoderHolds \in Nat \ {0} /\ Sizes \subseteq Nat \ {0}
  BY SchedulerAssumption
<1>3. Len(sizes) \in Nat /\ Len(ready) \in Nat /\ Len(hw_chain) \in Nat
  BY <1>1, LenProperties
<1>4. presenting.chain \in Seq(Buffer)
  BY <1>1 DEF Slices
<1>5. ReadyBuffers \in Seq(Buffer)
  BY <1>1, BuffersType DEF ReadyBuffers
<1>6. Len(presenting.chain) \in Nat /\ Len(ReadyBuffers) \in Nat
  BY <1>4, <1>5, LenProperties
<1>7. \A i \in 1 .. Len(sizes) : sizes[i] \in Sizes
  BY <1>1, ElementOfSeq
<1>8. slice # 0 => sizes[slice] \in Nat \ {0}
  BY <1>1, <1>2, <1>3, <1>7
<1>9. slices_to_dump \in Nat /\ in_list \in Nat /\ decoder \in Nat
  BY <1>1, <1>2
<1> QED
  BY <1>2, <1>3, <1>4, <1>5, <1>6, <1>8, <1>9 DEF BufferKnown

LEMMA BuffersInit == SchedulerInit => BuffersOK
<1> SUFFICES ASSUME SchedulerInit PROVE BuffersOK
  OBVIOUS
<1>1. /\ \A S : <<>> \in Seq(S)
      /\ Len(<<>>) = 0
  BY EmptyElements
<1>2. BuffersTyped
  <2>1. Nobody \in Slices(Buffer)
    BY <1>1 DEF Nobody, Slices
  <2> QED
    BY <1>1, <2>1, SchedulerAssumption DEF SchedulerInit, BuffersTyped
<1>3. Where
  BY <1>1 DEF SchedulerInit, Where
<1>4. Wanted
  BY <1>1, SchedulerAssumption DEF SchedulerInit, Wanted
<1>5. Held
  BY <1>1 DEF SchedulerInit, Held
<1>6. Counted
  <2>1. ReadyBuffers = <<>>
    BY BuffersEmpty DEF SchedulerInit, ReadyBuffers
  <2>2. presenting.chain = <<>>
    BY DEF SchedulerInit, Nobody
  <2> QED
    BY <1>1, <2>1, <2>2, SchedulerAssumption DEF SchedulerInit, Counted
<1> QED
  BY <1>2, <1>3, <1>4, <1>5, <1>6 DEF BuffersOK

LEMMA ElsewhereBuffers ==
  ASSUME BuffersOK,
         UNCHANGED <<sizes, slice_pipe, packing, ready, showing, in_list, decoder>>
  PROVE  BuffersOK'
BY DEF BuffersOK, BuffersTyped, Where, Wanted, Held, Counted, ReadyBuffers, packing, showing

LEMMA SliceArrivesBuffers ==
  ASSUME BuffersOK, SliceArrives PROVE BuffersOK'
<1>0. BufferKnown
  BY BufferFacts
<1> USE <1>0 DEF BufferKnown
<1>1. PICK n \in Sizes : sizes' = Append(sizes, n)
  BY DEF SliceArrives
<1>2. /\ slice_pipe' = Append(slice_pipe, Len(sizes) + 1)
      /\ UNCHANGED <<packing, ready, showing, in_list, decoder>>
  BY DEF SliceArrives
<1>3. /\ sizes \in Seq(Sizes) /\ sizes \in Seq(Nat) /\ n \in Nat
      /\ slice_pipe \in Seq(1 .. Len(sizes)) /\ slice \in 0 .. Len(sizes)
  BY DEF BuffersOK, BuffersTyped, Where
<1>4. /\ sizes' \in Seq(Sizes) /\ Len(sizes') = Len(sizes) + 1
      /\ \A i \in 1 .. Len(sizes) : sizes'[i] = sizes[i]
  BY <1>1, <1>3, AppendElements
<1>5. sizes' \in Seq(Nat)
  BY <1>1, <1>3, AppendElements
<1>6. slice_pipe' \in Seq(1 .. Len(sizes'))
  <2>1. 1 .. Len(sizes) \subseteq 1 .. Len(sizes') /\ Len(sizes) + 1 \in 1 .. Len(sizes')
    BY <1>4
  <2>2. slice_pipe \in Seq(1 .. Len(sizes'))
    BY <1>3, <2>1, SeqMonotonic
  <2> QED
    BY <1>2, <2>1, <2>2, AppendElements
<1>7. slice_pipe' \in Seq(Nat)
  <2>1. 1 .. Len(sizes') \subseteq Nat
    OBVIOUS
  <2> QED
    BY <1>6, <2>1, SeqMonotonic
<1>8. slice' \in 0 .. Len(sizes') /\ (slice # 0 => sizes'[slice] = sizes[slice])
  <2>1. slice' = slice
    BY <1>2 DEF packing
  <2>2. slice # 0 => slice \in 1 .. Len(sizes)
    BY <1>3
  <2> QED
    BY <1>3, <1>4, <2>1, <2>2
<1>9. BuffersTyped'
  BY <1>2, <1>5, <1>7 DEF BuffersOK, BuffersTyped, packing, showing
<1>10. Where'
  BY <1>2, <1>4, <1>6, <1>8 DEF BuffersOK, Where, packing
<1>11. Wanted' /\ Held' /\ Counted'
  BY <1>2 DEF BuffersOK, Wanted, Held, Counted, ReadyBuffers, packing, showing
<1> QED
  BY <1>9, <1>10, <1>11 DEF BuffersOK

LEMMA EmptyBufferDoneBuffers ==
  ASSUME BuffersOK, EmptyBufferDone PROVE BuffersOK'
<1>0. BufferKnown
  BY BufferFacts
<1>1. /\ decoder > 0 /\ decoder' = decoder - 1 /\ in_list' = in_list + 1
      /\ UNCHANGED <<sizes, slice_pipe, packing, ready, showing>>
  BY DEF EmptyBufferDone, arrivals
<1>2. Counted' /\ in_list' <= NumHwBuffers
  <2>1. /\ Len(hw_chain)' = Len(hw_chain) /\ Len(presenting.chain)' = Len(presenting.chain)
        /\ Len(ReadyBuffers)' = Len(ReadyBuffers)
    BY <1>1 DEF ReadyBuffers, packing, showing
  <2> DEFINE h == Len(hw_chain)
             c == Len(presenting.chain)
             r == Len(ReadyBuffers)
  <2>0. /\ h \in Nat /\ c \in Nat /\ r \in Nat /\ in_list \in Nat /\ decoder \in Nat
        /\ NumHwBuffers \in Nat
    BY <1>0 DEF BufferKnown
  <2> HIDE DEF h, c, r
  <2>2. in_list + decoder + h + c + r = NumHwBuffers
    BY DEF BuffersOK, Counted, h, c, r
  <2>3. in_list' + decoder' + h + c + r = NumHwBuffers /\ in_list' <= NumHwBuffers
    BY <1>1, <2>0, <2>2
  <2> QED
    BY <2>1, <2>3 DEF Counted, h, c, r
<1>3. BuffersTyped'
  BY <1>0, <1>1, <1>2 DEF BufferKnown, BuffersOK, BuffersTyped, packing, showing
<1>4. Where' /\ Wanted' /\ Held'
  BY <1>1 DEF BuffersOK, Where, Wanted, Held, packing, showing
<1> QED
  BY <1>2, <1>3, <1>4 DEF BuffersOK

LEMMA PackLenBuffers ==
  ASSUME BuffersOK, PackLen PROVE BuffersOK'
<1>0. BufferKnown
  BY BufferFacts
<1> USE <1>0 DEF BufferKnown
<1>1. /\ pack_pc = "len" /\ Len(ready) < HighSlices
      /\ slices_to_dump' = HighSlices - Len(ready) /\ pack_pc' = "pull"
      /\ UNCHANGED <<sizes, slice_pipe, slice, copied, hw_chain, ready, showing, in_list,
                     decoder>>
  BY DEF PackLen, arrivals
<1>2. BuffersTyped'
  BY <1>1 DEF BuffersOK, BuffersTyped, showing
<1>3. Where'
  BY <1>1 DEF BuffersOK, Where
<1>4. Wanted'
  BY <1>1 DEF Wanted
<1>5. Held' /\ Counted'
  BY <1>1 DEF BuffersOK, Held, Counted, ReadyBuffers, showing
<1> QED
  BY <1>2, <1>3, <1>4, <1>5 DEF BuffersOK

LEMMA PackNothingBuffers ==
  ASSUME BuffersOK, PackNothing PROVE BuffersOK'
<1>1. /\ pack_pc = "pull" /\ pack_pc' = "len"
      /\ UNCHANGED <<sizes, slice_pipe, slices_to_dump, slice, copied, hw_chain, ready,
                     showing, in_list, decoder>>
  BY DEF PackNothing, arrivals
<1>2. BuffersTyped'
  BY <1>1 DEF BuffersOK, BuffersTyped, showing
<1>3. Where'
  BY <1>1 DEF BuffersOK, Where
<1>4. Wanted' /\ Held' /\ Counted'
  BY <1>1 DEF BuffersOK, Wanted, Held, Counted, ReadyBuffers, showing
<1> QED
  BY <1>2, <1>3, <1>4 DEF BuffersOK

LEMMA PackPullBuffers ==
  ASSUME BuffersOK, PackPull PROVE BuffersOK'
<1>0. BufferKnown
  BY BufferFacts
<1> USE <1>0 DEF BufferKnown
<1>1. /\ pack_pc = "pull" /\ slice_pipe # <<>> /\ pack_pc' = "get"
      /\ slice' = Head(slice_pipe) /\ slice_pipe' = Tail(slice_pipe)
      /\ copied' = 0 /\ hw_chain' = <<>>
      /\ UNCHANGED <<sizes, slices_to_dump, ready, showing, in_list, decoder>>
  BY DEF PackPull, arrivals
<1>2. /\ slice_pipe \in Seq(1 .. Len(sizes)) /\ slice = 0 /\ hw_chain = <<>>
      /\ sizes \in Seq(Sizes)
  BY <1>1 DEF BuffersOK, Where
<1>3. slice' \in 1 .. Len(sizes) /\ slice_pipe' \in Seq(1 .. Len(sizes))
  BY <1>1, <1>2, HeadTailElements
<1>4. slice_pipe' \in Seq(Nat)
  <2>1. 1 .. Len(sizes) \subseteq Nat
    OBVIOUS
  <2> QED
    BY <1>3, <2>1, SeqMonotonic
<1>5. sizes[slice'] \in Sizes
  BY <1>2, <1>3, ElementOfSeq
<1>6. Len(<<>>) = 0 /\ <<>> \in Seq(Buffer) /\ 0 * HwCap = 0
  BY EmptyElements
<1>7. BuffersTyped'
  <2>1. slice' \in Nat /\ copied' \in Nat /\ hw_chain' \in Seq(Buffer)
    BY <1>1, <1>3, <1>6
  <2> QED
    BY <1>1, <1>4, <2>1 DEF BuffersOK, BuffersTyped, showing
<1>8. Where'
  <2>1. copied' = Len(hw_chain') * HwCap
    BY <1>1, <1>6
  <2>2. copied' < sizes'[slice'] /\ slice' # 0
    <3>0. \A n \in Sizes : n > 0
      BY SchedulerAssumption
    <3>1. sizes[slice'] > 0
      BY <1>5, <3>0
    <3> QED
      BY <1>1, <1>3, <3>1
  <2>3. sizes' \in Seq(Sizes) /\ slice_pipe' \in Seq(1 .. Len(sizes'))
    BY <1>1, <1>2, <1>3
  <2>4. slice' \in 0 .. Len(sizes')
    BY <1>1, <1>3
  <2> QED
    BY <1>1, <2>1, <2>2, <2>3, <2>4 DEF Where
<1>9. Wanted' /\ Held' /\ Counted'
  BY <1>1, <1>2 DEF BuffersOK, Wanted, Held, Counted, ReadyBuffers, showing
<1> QED
  BY <1>7, <1>8, <1>9 DEF BuffersOK

LEMMA OneMoreBuffer ==
  ASSUME NEW l \in Nat, NEW h \in Nat PROVE (l + 1) * h = l * h + h
OBVIOUS

(* What PackGet copies.                                                    *)
LEMMA PackGetCopies ==
  ASSUME BuffersOK, PackGet, in_list # 0
  PROVE  /\ slice \in 1 .. Len(sizes) /\ copied \in Nat /\ sizes[slice] \in Nat
         /\ copied' \in Nat /\ copied < copied' /\ copied' <= sizes[slice]
         /\ copied' # sizes[slice] => copied' = copied + HwCap
         /\ hw_chain' = Append(hw_chain, Pieces(slice, copied + 1, copied'))
         /\ Pieces(slice, copied + 1, copied') \in Buffer
         /\ in_list' = in_list - 1
         /\ pack_pc = "get"
         /\ pack_pc' = IF copied' = sizes[slice] THEN "put" ELSE "get"
         /\ UNCHANGED <<sizes, slice_pipe, slices_to_dump, slice, ready, showing, decoder>>
<1>1. /\ pack_pc = "get" /\ in_list' = in_list - 1
      /\ copied' = IF copied + HwCap < sizes[slice] THEN copied + HwCap ELSE sizes[slice]
      /\ hw_chain' = Append(hw_chain, Pieces(slice, copied + 1, copied'))
      /\ pack_pc' = IF copied' = sizes[slice] THEN "put" ELSE "get"
      /\ UNCHANGED <<sizes, slice_pipe, slices_to_dump, slice, ready, showing, decoder>>
  BY DEF PackGet, Link, arrivals
<1>2. /\ slice \in 0 .. Len(sizes) /\ slice # 0 /\ copied \in Nat /\ copied < sizes[slice]
  BY <1>1 DEF BuffersOK, BuffersTyped, Where
<1>3. Len(sizes) \in Nat /\ sizes[slice] \in Nat /\ HwCap \in Nat \ {0}
  BY <1>2, BufferFacts DEF BufferKnown
<1>4. slice \in 1 .. Len(sizes)
  BY <1>2, <1>3
<1>5. /\ copied' \in Nat /\ copied < copied' /\ copied' <= sizes[slice]
      /\ copied' # sizes[slice] => copied' = copied + HwCap
  BY <1>1, <1>2, <1>3
<1>6. Pieces(slice, copied + 1, copied') \in Buffer
  <2>1. slice \in Nat /\ copied <= copied'
    BY <1>2, <1>4, <1>5
  <2> QED
    BY <1>2, <1>5, <2>1, PiecesFrom DEF Piece, Buffer
<1> QED
  BY <1>1, <1>2, <1>3, <1>4, <1>5, <1>6

LEMMA PackGetBuffers ==
  ASSUME BuffersOK, PackGet PROVE BuffersOK'
<1>0. BufferKnown
  BY BufferFacts
<1>1. CASE in_list = 0
  <2>1. /\ pack_pc = "get" /\ pack_pc' = "aborted"
        /\ UNCHANGED <<sizes, slice_pipe, slices_to_dump, slice, copied, hw_chain, ready,
                       showing, in_list, decoder>>
    BY <1>1 DEF PackGet, arrivals
  <2>2. BuffersTyped'
    BY <2>1 DEF BuffersOK, BuffersTyped, showing
  <2>3. Where'
    BY <2>1 DEF BuffersOK, Where
  <2>4. Wanted' /\ Held' /\ Counted'
    BY <2>1 DEF BuffersOK, Wanted, Held, Counted, ReadyBuffers, showing
  <2> QED
    BY <2>2, <2>3, <2>4 DEF BuffersOK
<1>2. CASE in_list # 0
  <2> DEFINE b == Pieces(slice, copied + 1, copied')
  <2>1. /\ slice \in 1 .. Len(sizes) /\ copied \in Nat /\ sizes[slice] \in Nat
        /\ copied' \in Nat /\ copied < copied' /\ copied' <= sizes[slice]
        /\ copied' # sizes[slice] => copied' = copied + HwCap
        /\ hw_chain' = Append(hw_chain, b)
        /\ b \in Buffer
        /\ in_list' = in_list - 1
        /\ pack_pc = "get"
        /\ pack_pc' = IF copied' = sizes[slice] THEN "put" ELSE "get"
        /\ UNCHANGED <<sizes, slice_pipe, slices_to_dump, slice, ready, showing, decoder>>
    BY <1>2, PackGetCopies
  <2> HIDE DEF b
  <2>2. hw_chain \in Seq(Buffer) /\ in_list \in 0 .. NumHwBuffers
    BY DEF BuffersOK, BuffersTyped
  <2>3. /\ hw_chain' \in Seq(Buffer) /\ hw_chain' # <<>>
        /\ Len(hw_chain') = Len(hw_chain) + 1
    BY <2>1, <2>2, AppendElements
  <2>4. BuffersTyped'
    <3>1. in_list' \in 0 .. NumHwBuffers
      BY <1>0, <1>2, <2>1, <2>2 DEF BufferKnown
    <3>2. pack_pc' \in {"get", "put"}
      BY <2>1
    <3> QED
      BY <2>1, <2>3, <3>1, <3>2 DEF BuffersOK, BuffersTyped, showing
  <2>5. Where'
    <3>1. /\ sizes \in Seq(Sizes) /\ slice_pipe \in Seq(1 .. Len(sizes))
          /\ slice \in 0 .. Len(sizes) /\ slice # 0
          /\ copied = Len(hw_chain) * HwCap
      BY <2>1 DEF BuffersOK, Where
    <3>2. sizes' = sizes /\ slice_pipe' = slice_pipe /\ slice' = slice
      BY <2>1
    <3>3. CASE copied' = sizes[slice]
      <4>1. pack_pc' = "put" /\ copied' = sizes'[slice']
        BY <3>2, <3>3, <2>1
      <4> QED
        BY <2>3, <3>1, <3>2, <4>1 DEF Where
    <3>4. CASE copied' # sizes[slice]
      <4>1. pack_pc' = "get" /\ copied' < sizes[slice] /\ copied' = copied + HwCap
        BY <2>1, <3>4
      <4>2. (Len(hw_chain) + 1) * HwCap = Len(hw_chain) * HwCap + HwCap
        BY <1>0, OneMoreBuffer DEF BufferKnown
      <4>3. copied' = Len(hw_chain') * HwCap
        BY <2>3, <3>1, <4>1, <4>2
      <4> QED
        BY <3>1, <3>2, <4>1, <4>3 DEF Where
    <3> QED
      BY <3>3, <3>4
  <2>6. Wanted' /\ Held'
    BY <2>1 DEF BuffersOK, Wanted, Held, showing
  <2>7. Counted'
    <3> DEFINE h == Len(hw_chain)
               c == Len(presenting.chain)
               r == Len(ReadyBuffers)
    <3>1. /\ h \in Nat /\ c \in Nat /\ r \in Nat /\ in_list \in Nat /\ decoder \in Nat
      BY <1>0 DEF BufferKnown
    <3>2. in_list + decoder + h + c + r = NumHwBuffers
      BY DEF BuffersOK, Counted
    <3>3. /\ Len(hw_chain)' = h + 1 /\ Len(presenting.chain)' = c /\ Len(ReadyBuffers)' = r
          /\ in_list' = in_list - 1 /\ decoder' = decoder
      BY <2>1, <2>3 DEF ReadyBuffers, showing
    <3> HIDE DEF h, c, r
    <3>4. (in_list - 1) + decoder + (h + 1) + c + r = NumHwBuffers
      BY <3>1, <3>2
    <3> QED
      BY <3>3, <3>4 DEF Counted
  <2> QED
    BY <2>4, <2>5, <2>6, <2>7 DEF BuffersOK
<1> QED
  BY <1>1, <1>2

LEMMA PackPutBuffers ==
  ASSUME BuffersOK, PackPut PROVE BuffersOK'
<1> DEFINE e == [slice |-> slice, chain |-> hw_chain]
<1>0. BufferKnown
  BY BufferFacts
<1>1. /\ pack_pc = "put" /\ ready' = Append(ready, e)
      /\ slice' = 0 /\ copied' = 0 /\ hw_chain' = <<>>
      /\ slices_to_dump' = slices_to_dump - 1
      /\ pack_pc' = IF slices_to_dump > 1 THEN "pull" ELSE "len"
      /\ UNCHANGED <<sizes, slice_pipe, showing, in_list, decoder>>
  BY DEF PackPut, arrivals
<1>2. /\ ready \in Seq(Slices(Buffer)) /\ hw_chain \in Seq(Buffer) /\ slice \in Nat
      /\ hw_chain # <<>> /\ slices_to_dump \in 0 .. HighSlices
      /\ slices_to_dump >= 1 /\ Len(ready) + slices_to_dump <= HighSlices
  BY <1>1 DEF BuffersOK, BuffersTyped, Where, Wanted
<1>3. e \in Slices(Buffer) /\ e.chain = hw_chain
  BY <1>2 DEF Slices
<1> HIDE DEF e
<1>4. /\ ready' \in Seq(Slices(Buffer)) /\ Len(ready') = Len(ready) + 1
      /\ \A i \in 1 .. Len(ready) : ready'[i] = ready[i]
      /\ ready'[Len(ready) + 1] = e
  BY <1>1, <1>2, <1>3, AppendElements
<1>5. Len(<<>>) = 0 /\ <<>> \in Seq(Buffer)
  BY EmptyElements
<1>6. BuffersTyped'
  <2>1. slices_to_dump' \in 0 .. HighSlices /\ pack_pc' \in {"pull", "len"}
    BY <1>0, <1>1, <1>2 DEF BufferKnown
  <2>2. slice' \in Nat /\ copied' \in Nat /\ hw_chain' \in Seq(Buffer)
    BY <1>1, <1>5
  <2> QED
    BY <1>1, <1>4, <2>1, <2>2 DEF BuffersOK, BuffersTyped, showing
<1>7. Where'
  <2>1. pack_pc' \in {"len", "pull"} /\ slice' \in 0 .. Len(sizes)
    BY <1>0, <1>1 DEF BufferKnown
  <2> QED
    BY <1>1, <2>1 DEF BuffersOK, Where
<1>8. Wanted'
  BY <1>0, <1>1, <1>2, <1>4 DEF Wanted, BufferKnown
<1>9. Held'
  <2>1. \A i \in 1 .. Len(ready') : ready'[i].chain # <<>>
    <3> SUFFICES ASSUME NEW i \in 1 .. Len(ready) + 1 PROVE ready'[i].chain # <<>>
      BY <1>4
    <3>1. CASE i = Len(ready) + 1
      BY <3>1, <1>2, <1>3, <1>4
    <3>2. CASE i \in 1 .. Len(ready)
      BY <3>2, <1>4 DEF BuffersOK, Held
    <3>3. i = Len(ready) + 1 \/ i \in 1 .. Len(ready)
      BY <1>0 DEF BufferKnown
    <3> QED
      BY <3>1, <3>2, <3>3
  <2> QED
    BY <1>1, <2>1 DEF BuffersOK, Held, showing
<1>10. Counted'
  <2> DEFINE h == Len(hw_chain)
             c == Len(presenting.chain)
             r == Len(ReadyBuffers)
  <2>1. /\ h \in Nat /\ c \in Nat /\ r \in Nat /\ in_list \in Nat /\ decoder \in Nat
        /\ ReadyBuffers \in Seq(Buffer)
    BY <1>0 DEF BufferKnown
  <2>2. in_list + decoder + h + c + r = NumHwBuffers
    BY DEF BuffersOK, Counted
  <2>3. ReadyBuffers' = ReadyBuffers \o hw_chain
    BY <1>1, <1>2, <1>3, BuffersAppend DEF ReadyBuffers
  <2>4. Len(ReadyBuffers \o hw_chain) = Len(ReadyBuffers) + Len(hw_chain)
    BY <1>2, <2>1, ConcatProperties
  <2>5. /\ Len(hw_chain)' = 0 /\ Len(presenting.chain)' = c /\ Len(ReadyBuffers)' = r + h
        /\ in_list' = in_list /\ decoder' = decoder
    BY <1>1, <1>5, <2>3, <2>4 DEF showing
  <2> HIDE DEF h, c, r
  <2>6. in_list + decoder + 0 + c + (r + h) = NumHwBuffers
    BY <2>1, <2>2
  <2> QED
    BY <2>5, <2>6 DEF Counted
<1> QED
  BY <1>6, <1>7, <1>8, <1>9, <1>10 DEF BuffersOK

LEMMA TakeBuffers ==
  ASSUME BuffersOK, Take PROVE BuffersOK'
<1>0. BufferKnown
  BY BufferFacts
<1>1. /\ show_pc = "take" /\ presenting = Nobody /\ ready # <<>>
      /\ presenting' = Head(ready) /\ ready' = Tail(ready)
      /\ UNCHANGED <<sizes, slice_pipe, packing, show_pc, shown, in_list, decoder>>
  BY DEF Take, arrivals
<1>2. ready \in Seq(Slices(Buffer))
  BY DEF BuffersOK, BuffersTyped
<1>3. /\ Head(ready) = ready[1] /\ Head(ready) \in Slices(Buffer)
      /\ ready' \in Seq(Slices(Buffer)) /\ Len(ready) \in Nat \ {0}
      /\ Len(ready') = Len(ready) - 1
      /\ \A i \in 1 .. Len(ready') : ready'[i] = ready[i + 1]
  BY <1>1, <1>2, HeadTailElements
<1>4. BuffersTyped'
  BY <1>1, <1>3 DEF BuffersOK, BuffersTyped, packing
<1>5. Where'
  BY <1>1 DEF BuffersOK, Where, packing
<1>6. Wanted'
  BY <1>0, <1>1, <1>3 DEF BuffersOK, Wanted, packing, BufferKnown
<1>7. Held'
  <2>1. \A i \in 1 .. Len(ready) : ready[i].chain # <<>>
    BY DEF BuffersOK, Held
  <2>2. \A i \in 1 .. Len(ready') : i + 1 \in 1 .. Len(ready)
    BY <1>3
  <2>3. \A i \in 1 .. Len(ready') : ready'[i].chain # <<>>
    BY <1>3, <2>1, <2>2
  <2>4. presenting'.chain # <<>>
    BY <1>1, <1>3, <2>1
  <2> QED
    BY <1>1, <2>3, <2>4 DEF Held
<1>8. Counted'
  <2> DEFINE h == Len(hw_chain)
             c == Len(Head(ready).chain)
             r == Len(ReadyBuffers)
             q == FlattenSeq(ChainsOf(Tail(ready)))
  <2>1. /\ h \in Nat /\ r \in Nat /\ in_list \in Nat /\ decoder \in Nat
    BY <1>0 DEF BufferKnown
  <2>2. Head(ready).chain \in Seq(Buffer) /\ q \in Seq(Buffer)
    BY <1>1, <1>3, BuffersType DEF Slices
  <2>3. c \in Nat /\ Len(q) \in Nat
    BY <2>2, LenProperties
  <2>4. Len(presenting.chain) = 0
    BY <1>1, EmptyElements DEF Nobody
  <2>5. in_list + decoder + h + 0 + r = NumHwBuffers
    BY <2>4 DEF BuffersOK, Counted
  <2>6. r = c + Len(q)
    <3>1. ReadyBuffers = Head(ready).chain \o q
      BY <1>1, <1>2, BuffersTail DEF ReadyBuffers
    <3> QED
      BY <2>2, <3>1, ConcatProperties
  <2>7. /\ Len(hw_chain)' = h /\ Len(presenting.chain)' = c /\ Len(ReadyBuffers)' = Len(q)
        /\ in_list' = in_list /\ decoder' = decoder
    BY <1>1 DEF packing, ReadyBuffers
  <2> HIDE DEF h, c, r, q
  <2>8. in_list + decoder + h + c + Len(q) = NumHwBuffers
    BY <2>1, <2>3, <2>5, <2>6
  <2> QED
    BY <2>7, <2>8 DEF Counted
<1> QED
  BY <1>4, <1>5, <1>6, <1>7, <1>8 DEF BuffersOK

LEMMA PresentBuffers ==
  ASSUME BuffersOK, Present PROVE BuffersOK'
<1>1. /\ presenting # Nobody /\ show_pc' = "show"
      /\ UNCHANGED <<sizes, slice_pipe, packing, ready, presenting, shown, in_list, decoder>>
  BY DEF Present, arrivals
<1>2. BuffersTyped'
  BY <1>1 DEF BuffersOK, BuffersTyped, packing
<1>3. Where' /\ Wanted'
  BY <1>1 DEF BuffersOK, Where, Wanted, packing
<1>4. Held' /\ Counted'
  BY <1>1 DEF BuffersOK, Held, Counted, ReadyBuffers, packing
<1> QED
  BY <1>2, <1>3, <1>4 DEF BuffersOK

(* What Show leaves.                                                       *)
LEMMA ShowLeaves ==
  ASSUME BuffersOK, Show
  PROVE  /\ presenting.chain \in Seq(Buffer) /\ presenting.chain # <<>>
         /\ presenting' \in Slices(Buffer)
         /\ presenting'.chain = Tail(presenting.chain)
         /\ presenting' = Nobody \/ presenting'.chain # <<>>
         /\ show_pc' = "show" => presenting' # Nobody
         /\ show_pc' \in {"take", "show"}
         /\ decoder < DecoderHolds /\ decoder' = decoder + 1
         /\ shown' = Append(shown, Head(presenting.chain))
         /\ UNCHANGED <<sizes, slice_pipe, packing, ready, in_list>>
<1> DEFINE c == presenting.chain
<1>1. /\ show_pc = "show" /\ decoder < DecoderHolds /\ decoder' = decoder + 1
      /\ shown' = Append(shown, Head(c))
      /\ presenting' = IF Len(c) = 1 THEN Nobody ELSE [presenting EXCEPT !.chain = Tail(c)]
      /\ show_pc' = IF Len(c) = 1 THEN "take" ELSE "show"
      /\ UNCHANGED <<sizes, slice_pipe, packing, ready, in_list>>
  BY DEF Show, arrivals
<1>2. presenting \in Slices(Buffer) /\ c # <<>>
  BY <1>1 DEF BuffersOK, BuffersTyped, Held
<1>3. c \in Seq(Buffer)
  BY <1>2 DEF Slices
<1>4. c = presenting.chain
  OBVIOUS
<1> HIDE DEF c
<1>5. Len(c) \in Nat \ {0} /\ Tail(c) \in Seq(Buffer) /\ Len(Tail(c)) = Len(c) - 1
  BY <1>2, <1>3, HeadTailElements
<1>6. CASE Len(c) = 1
  <2>1. Tail(c) = <<>>
    <3>1. Len(Tail(c)) = 0
      BY <1>5, <1>6
    <3> QED
      BY <1>5, <3>1, EmptyElements
  <2>2. Nobody \in Slices(Buffer)
    BY EmptyElements DEF Slices, Nobody
  <2>3. presenting' = Nobody /\ Nobody.chain = <<>> /\ show_pc' = "take"
    BY <1>1, <1>6 DEF Nobody
  <2> QED
    BY <1>1, <1>2, <1>3, <1>4, <2>1, <2>2, <2>3
<1>7. CASE Len(c) # 1
  <2>1. Tail(c) # <<>>
    <3>1. Len(Tail(c)) # 0
      BY <1>5, <1>7
    <3> QED
      BY <1>5, <3>1, EmptyElements
  <2>2. presenting' = [presenting EXCEPT !.chain = Tail(c)] /\ show_pc' = "show"
    BY <1>1, <1>7
  <2>3. presenting'.chain = Tail(c) /\ presenting' \in Slices(Buffer)
    BY <1>2, <1>5, <2>2 DEF Slices
  <2>4. presenting' # Nobody
    BY <2>1, <2>3 DEF Nobody
  <2> QED
    BY <1>1, <1>2, <1>3, <1>4, <2>1, <2>2, <2>3, <2>4
<1> QED
  BY <1>6, <1>7

LEMMA ShowBuffers ==
  ASSUME BuffersOK, Show PROVE BuffersOK'
<1> DEFINE p == presenting.chain
<1>0. BufferKnown
  BY BufferFacts
<1>1. /\ p \in Seq(Buffer) /\ p # <<>>
      /\ presenting' \in Slices(Buffer)
      /\ presenting'.chain = Tail(p)
      /\ presenting' = Nobody \/ presenting'.chain # <<>>
      /\ show_pc' = "show" => presenting' # Nobody
      /\ show_pc' \in {"take", "show"}
      /\ decoder < DecoderHolds /\ decoder' = decoder + 1
      /\ shown' = Append(shown, Head(p))
      /\ UNCHANGED <<sizes, slice_pipe, packing, ready, in_list>>
  BY ShowLeaves
<1>2. p = presenting.chain
  OBVIOUS
<1> HIDE DEF p
<1>3. /\ Head(p) \in Buffer /\ Len(p) \in Nat \ {0} /\ Len(Tail(p)) = Len(p) - 1
  BY <1>1, HeadTailElements
<1>4. shown' \in Seq(Buffer)
  <2>1. shown \in Seq(Buffer)
    BY DEF BuffersOK, BuffersTyped
  <2> QED
    BY <1>1, <1>3, <2>1, AppendElements
<1>5. BuffersTyped'
  <2>1. decoder' \in 0 .. DecoderHolds
    BY <1>0, <1>1 DEF BufferKnown
  <2> QED
    BY <1>1, <1>4, <2>1 DEF BuffersOK, BuffersTyped, packing
<1>6. Where' /\ Wanted'
  BY <1>1 DEF BuffersOK, Where, Wanted, packing
<1>7. Held'
  BY <1>1 DEF BuffersOK, Held
<1>8. Counted'
  <2> DEFINE h == Len(hw_chain)
             c == Len(p)
             r == Len(ReadyBuffers)
  <2>1. /\ h \in Nat /\ c \in Nat /\ r \in Nat /\ in_list \in Nat /\ decoder \in Nat
    BY <1>0, <1>3 DEF BufferKnown
  <2>2. in_list + decoder + h + c + r = NumHwBuffers
    BY <1>2 DEF BuffersOK, Counted
  <2>3. /\ Len(hw_chain)' = h /\ Len(presenting.chain)' = c - 1 /\ Len(ReadyBuffers)' = r
        /\ in_list' = in_list /\ decoder' = decoder + 1
    BY <1>1, <1>3 DEF packing, ReadyBuffers
  <2> HIDE DEF h, c, r
  <2>4. in_list + (decoder + 1) + h + (c - 1) + r = NumHwBuffers
    BY <2>1, <2>2
  <2> QED
    BY <2>3, <2>4 DEF Counted
<1> QED
  BY <1>5, <1>6, <1>7, <1>8 DEF BuffersOK

LEMMA BuffersNext == BuffersOK /\ [SchedulerNext]_schedulerVars => BuffersOK'
<1> SUFFICES ASSUME BuffersOK, [SchedulerNext]_schedulerVars PROVE BuffersOK'
  OBVIOUS
<1>1. ASSUME Tick \/ PcrArrives \/ Pcr \/ UNCHANGED schedulerVars PROVE BuffersOK'
  <2>1. UNCHANGED <<sizes, slice_pipe, packing, ready, showing, in_list, decoder>>
    BY <1>1 DEF Tick, PcrArrives, Pcr, PcrGet, PcrRecv, PcrNow, PcrSet, schedulerVars, arrivals
  <2> QED
    BY <2>1, ElsewhereBuffers
<1>2. CASE Packing
  BY <1>2, PackLenBuffers, PackNothingBuffers, PackPullBuffers, PackGetBuffers,
     PackPutBuffers DEF Packing
<1>3. CASE Presenting
  BY <1>3, TakeBuffers, PresentBuffers, ShowBuffers DEF Presenting
<1> QED
  BY <1>1, <1>2, <1>3, SliceArrivesBuffers, EmptyBufferDoneBuffers DEF SchedulerNext

LEMMA InvParts == SchedulerInv <=> ClockTyped /\ BuffersOK
BY TypeParts DEF SchedulerInv, BuffersOK

(***************************************************************************)
(* The three threads agree on the hardware's buffers: a buffer is free,    *)
(* with the decoder, in the slice that is packed, in one that is ready or  *)
(* in the one that is presented, and nowhere else; and a burst of slices   *)
(* never makes more ready than are wanted.                                 *)
(***************************************************************************)
THEOREM BuffersAreCounted == SchedulerSpec => []SchedulerInv
<1>1. SchedulerInit => SchedulerInv
  BY ClockInit, BuffersInit, InvParts
<1>2. SchedulerInv /\ [SchedulerNext]_schedulerVars => SchedulerInv'
  <2> SUFFICES ASSUME SchedulerInv, [SchedulerNext]_schedulerVars PROVE SchedulerInv'
    OBVIOUS
  <2>1. ClockTyped /\ BuffersOK
    BY InvParts
  <2>2. ClockTyped' /\ BuffersOK'
    BY <2>1, ClockNext, BuffersNext
  <2>3. SchedulerTypeOK'
    BY <2>2 DEF ClockTyped, BuffersOK, BuffersTyped, SchedulerTypeOK, Slices
  <2> QED
    BY <2>2, <2>3 DEF SchedulerInv, BuffersOK
<1> QED
  BY <1>1, <1>2, PTL DEF SchedulerSpec, SchedulerSafeSpec

-----------------------------------------------------------------------------
(* No slice has more than m buffers.                                       *)
Fit(m) ==
  /\ Len(hw_chain) <= m /\ Len(presenting.chain) <= m
  /\ \A i \in 1 .. Len(ready) : Len(ready[i].chain) <= m

LEMMA FewerBuffers ==
  ASSUME NEW l \in Nat, NEW m \in Nat, NEW h \in Nat \ {0}, l * h < m * h
  PROVE  l < m
<1> SUFFICES ASSUME m <= l PROVE FALSE
  OBVIOUS
<1>1. PICK d \in Nat : l = m + d
  <2>1. l - m \in Nat /\ l = m + (l - m)
    OBVIOUS
  <2> QED
    BY <2>1
<1>2. (m + d) * h = m * h + d * h /\ d * h \in Nat /\ m * h \in Nat
  OBVIOUS
<1> QED
  BY <1>1, <1>2

(* A slice that is not packed yet has room for another buffer.             *)
LEMMA RoomForMore ==
  ASSUME NEW m \in Nat, \A n \in Sizes : n <= m * HwCap, BuffersOK,
         pack_pc \in {"get", "aborted"}
  PROVE  Len(hw_chain) < m
<1>1. /\ copied = Len(hw_chain) * HwCap /\ copied < sizes[slice] /\ sizes \in Seq(Sizes)
      /\ slice \in 0 .. Len(sizes) /\ slice # 0
  BY DEF BuffersOK, Where
<1>2. Len(hw_chain) \in Nat /\ HwCap \in Nat \ {0} /\ Len(sizes) \in Nat
      /\ sizes[slice] \in Nat
  BY <1>1, BufferFacts DEF BufferKnown
<1>3. sizes[slice] \in Sizes
  <2>1. slice \in 1 .. Len(sizes)
    BY <1>1, <1>2
  <2> QED
    BY <1>1, <2>1, ElementOfSeq
<1>4. sizes[slice] <= m * HwCap
  BY <1>3
<1>5. Len(hw_chain) * HwCap < m * HwCap
  <2> DEFINE a == Len(hw_chain) * HwCap
             b == m * HwCap
  <2>1. a \in Nat /\ b \in Nat
    BY <1>2
  <2>2. a < sizes[slice] /\ sizes[slice] <= b
    BY <1>1, <1>4
  <2> HIDE DEF a, b
  <2>3. a < b
    BY <1>2, <2>1, <2>2
  <2> QED
    BY <2>3 DEF a, b
<1> QED
  BY <1>2, <1>5, FewerBuffers

LEMMA FitNext ==
  ASSUME NEW m \in Nat, \A n \in Sizes : n <= m * HwCap, BuffersOK, Fit(m), [SchedulerNext]_schedulerVars
  PROVE  Fit(m)'
<1>0. BufferKnown
  BY BufferFacts
<1>1. CASE UNCHANGED <<ready, presenting, hw_chain>>
  BY <1>1 DEF Fit
<1>2. ASSUME Tick \/ SliceArrives \/ PcrArrives \/ EmptyBufferDone \/ PackLen \/ PackNothing
               \/ Present \/ Pcr \/ UNCHANGED schedulerVars
      PROVE  UNCHANGED <<ready, presenting, hw_chain>>
  BY <1>2 DEF Tick, SliceArrives, PcrArrives, EmptyBufferDone, PackLen, PackNothing, Present,
              Pcr, PcrGet, PcrRecv, PcrNow, PcrSet, schedulerVars, packing, showing
<1>3. CASE PackPull
  <2>1. hw_chain' = <<>> /\ UNCHANGED <<ready, presenting>>
    BY <1>3 DEF PackPull, showing
  <2> QED
    BY <2>1, EmptyElements DEF Fit
<1>4. CASE PackGet
  <2>1. CASE in_list = 0
    BY <1>1, <1>4, <2>1 DEF PackGet, showing
  <2>2. CASE in_list # 0
    <3> DEFINE b == Pieces(slice, copied + 1, copied')
    <3>1. /\ pack_pc = "get" /\ hw_chain' = Append(hw_chain, b) /\ b \in Buffer
          /\ UNCHANGED <<ready, showing>>
      BY <1>4, <2>2, PackGetCopies
    <3> HIDE DEF b
    <3>2. hw_chain \in Seq(Buffer)
      BY DEF BuffersOK, BuffersTyped
    <3>3. Len(hw_chain') = Len(hw_chain) + 1
      BY <3>1, <3>2, AppendElements
    <3>4. Len(hw_chain) < m
      BY <3>1, RoomForMore
    <3>5. Len(hw_chain') <= m
      BY <1>0, <3>3, <3>4 DEF BufferKnown
    <3> QED
      BY <3>1, <3>5 DEF Fit, showing
  <2> QED
    BY <2>1, <2>2
<1>5. CASE PackPut
  <2> DEFINE e == [slice |-> slice, chain |-> hw_chain]
  <2>1. ready' = Append(ready, e) /\ hw_chain' = <<>> /\ UNCHANGED presenting
    BY <1>5 DEF PackPut, showing
  <2>2. /\ ready \in Seq(Slices(Buffer)) /\ e \in Slices(Buffer) /\ e.chain = hw_chain
    BY DEF BuffersOK, BuffersTyped, Slices
  <2> HIDE DEF e
  <2>3. /\ Len(ready') = Len(ready) + 1 /\ ready'[Len(ready) + 1] = e
        /\ \A i \in 1 .. Len(ready) : ready'[i] = ready[i]
    BY <2>1, <2>2, AppendElements
  <2>4. \A i \in 1 .. Len(ready') : Len(ready'[i].chain) <= m
    <3> SUFFICES ASSUME NEW i \in 1 .. Len(ready) + 1 PROVE Len(ready'[i].chain) <= m
      BY <2>3
    <3>1. CASE i = Len(ready) + 1
      BY <3>1, <2>2, <2>3 DEF Fit
    <3>2. CASE i \in 1 .. Len(ready)
      BY <3>2, <2>3 DEF Fit
    <3>3. i = Len(ready) + 1 \/ i \in 1 .. Len(ready)
      BY <1>0 DEF BufferKnown
    <3> QED
      BY <3>1, <3>2, <3>3
  <2>5. Len(hw_chain') <= m
    BY <2>1, EmptyElements
  <2> QED
    BY <2>1, <2>4, <2>5 DEF Fit
<1>6. CASE Take
  <2>1. /\ ready # <<>> /\ presenting' = Head(ready) /\ ready' = Tail(ready)
        /\ UNCHANGED hw_chain
    BY <1>6 DEF Take, packing
  <2>2. ready \in Seq(Slices(Buffer))
    BY DEF BuffersOK, BuffersTyped
  <2>3. /\ Head(ready) = ready[1] /\ Len(ready) \in Nat \ {0}
        /\ Len(ready') = Len(ready) - 1
        /\ \A i \in 1 .. Len(ready') : ready'[i] = ready[i + 1]
    BY <2>1, <2>2, HeadTailElements
  <2>4. 1 \in 1 .. Len(ready) /\ \A i \in 1 .. Len(ready') : i + 1 \in 1 .. Len(ready)
    BY <2>3
  <2> QED
    BY <2>1, <2>3, <2>4 DEF Fit
<1>7. CASE Show
  <2>1. /\ presenting.chain \in Seq(Buffer) /\ presenting.chain # <<>>
        /\ presenting'.chain = Tail(presenting.chain)
        /\ UNCHANGED <<packing, ready>>
    BY <1>7, ShowLeaves
  <2>2. Len(Tail(presenting.chain)) = Len(presenting.chain) - 1
    BY <2>1, HeadTailElements
  <2>3. Len(presenting'.chain) <= m
    BY <1>0, <2>1, <2>2 DEF Fit, BufferKnown
  <2> QED
    BY <2>1, <2>3 DEF Fit, packing
<1> QED
  BY <1>1, <1>2, <1>3, <1>4, <1>5, <1>6, <1>7 DEF SchedulerNext, Packing, Presenting

LEMMA ReadyBuffersFit ==
  ASSUME NEW m \in Nat, BuffersOK, Fit(m)
  PROVE  Len(ReadyBuffers) <= m * Len(ready)
<1> DEFINE s == ChainsOf(ready)
<1>1. ready \in Seq(Slices(Buffer))
  BY DEF BuffersOK, BuffersTyped
<1>2. /\ s \in Seq(Seq(Buffer)) /\ Len(s) = Len(ready)
      /\ \A i \in 1 .. Len(ready) : s[i] = ready[i].chain
  BY <1>1, ChainsType
<1>3. \A i \in 1 .. Len(s) : Len(s[i]) <= m
  BY <1>2 DEF Fit
<1>4. ReadyBuffers = FlattenSeq(s)
  BY DEF ReadyBuffers
<1> HIDE DEF s
<1>5. Len(FlattenSeq(s)) <= m * Len(s)
  BY <1>2, <1>3, FlattenLength
<1> QED
  BY <1>2, <1>4, <1>5

LEMMA NotShort ==
  ASSUME NEW m \in Nat, \A n \in Sizes : n <= m * HwCap,
         NumHwBuffers >= (HighSlices + 1) * m + DecoderHolds,
         BuffersOK, Fit(m), pack_pc = "get"
  PROVE  in_list # 0
<1> DEFINE h == Len(hw_chain)
           c == Len(presenting.chain)
           r == Len(ReadyBuffers)
           l == Len(ready)
<1>1. /\ h \in Nat /\ c \in Nat /\ r \in Nat /\ l \in Nat /\ in_list \in Nat /\ decoder \in Nat
      /\ HighSlices \in Nat \ {0} /\ NumHwBuffers \in Nat /\ DecoderHolds \in Nat
  BY BufferFacts DEF BufferKnown
<1>2. in_list + decoder + h + c + r = NumHwBuffers
  BY DEF BuffersOK, Counted
<1>3. decoder <= DecoderHolds
  BY <1>1 DEF BuffersOK, BuffersTyped
<1>4. h < m
  BY RoomForMore
<1>5. c <= m
  BY DEF Fit
<1>6. r <= m * l
  BY ReadyBuffersFit
<1>7. l + 1 <= HighSlices
  <2>1. slices_to_dump >= 1 /\ Len(ready) + slices_to_dump <= HighSlices
    BY DEF BuffersOK, Wanted
  <2>2. slices_to_dump \in Nat
    BY BufferFacts DEF BufferKnown
  <2> QED
    BY <1>1, <2>1, <2>2
<1> HIDE DEF h, c, r, l
<1>8. (HighSlices + 1) * m >= m * l + m + m
  <2>1. PICK d \in Nat : HighSlices = l + 1 + d
    <3>1. HighSlices - (l + 1) \in Nat /\ HighSlices = l + 1 + (HighSlices - (l + 1))
      BY <1>1, <1>7
    <3> QED
      BY <3>1
  <2>2. (l + 1 + d + 1) * m = m * l + m + d * m + m /\ d * m \in Nat /\ m * l \in Nat
    BY <1>1
  <2> QED
    BY <1>1, <2>1, <2>2
<1>9. m * l \in Nat /\ (HighSlices + 1) * m \in Nat
  BY <1>1
<1> QED
  <2> DEFINE a == m * l
             b == (HighSlices + 1) * m
  <2>1. a \in Nat /\ b \in Nat /\ r <= a /\ b >= a + m + m /\ NumHwBuffers >= b + DecoderHolds
    BY <1>6, <1>8, <1>9
  <2> HIDE DEF a, b
  <2> QED
    BY <1>1, <1>2, <1>3, <1>4, <1>5, <2>1

LEMMA StaysUp ==
  ASSUME NEW m \in Nat, \A n \in Sizes : n <= m * HwCap,
         NumHwBuffers >= (HighSlices + 1) * m + DecoderHolds,
         BuffersOK, Fit(m), pack_pc # "aborted", [SchedulerNext]_schedulerVars
  PROVE  pack_pc' # "aborted"
<1>1. CASE PackGet
  <2>1. pack_pc = "get"
    BY <1>1 DEF PackGet
  <2>2. in_list # 0
    BY <2>1, NotShort
  <2> QED
    BY <1>1, <2>2 DEF PackGet
<1>2. CASE PackLen \/ PackNothing \/ PackPull \/ PackPut
  BY <1>2 DEF PackLen, PackNothing, PackPull, PackPut
<1>3. ASSUME Tick \/ SliceArrives \/ PcrArrives \/ EmptyBufferDone \/ Presenting \/ Pcr
               \/ UNCHANGED schedulerVars
      PROVE  UNCHANGED packing
  BY <1>3 DEF Tick, SliceArrives, PcrArrives, EmptyBufferDone, Presenting, Take, Present, Show,
              Pcr, PcrGet, PcrRecv, PcrNow, PcrSet, schedulerVars
<1>4. CASE UNCHANGED packing
  BY <1>4 DEF packing
<1> QED
  BY <1>1, <1>2, <1>3, <1>4 DEF SchedulerNext, Packing

(***************************************************************************)
(* How many buffers the hardware must have so that slice_packing_thread    *)
(* never finds none (the assertions on hw_buf in video_scheduler_slice_    *)
(* dump): if no slice needs more than M, M for each slice that may be      *)
(* ready, M for the one that is presented and those the decoder keeps.     *)
(* The one that is packed while HighSlices - 1 are ready is counted among  *)
(* the ready ones: it is why reading the length of SLICE_READY once for a  *)
(* burst of slices is enough.                                              *)
(***************************************************************************)
THEOREM BuffersSuffice ==
  ASSUME NEW M \in Nat, \A n \in Sizes : n <= M * HwCap,
         NumHwBuffers >= (HighSlices + 1) * M + DecoderHolds
  PROVE  SchedulerSpec => []HwBufferAvailable
<1> DEFINE Inv == SchedulerInv /\ Fit(M) /\ pack_pc # "aborted"
<1>1. SchedulerInit => Inv
  <2> SUFFICES ASSUME SchedulerInit PROVE Inv
    OBVIOUS
  <2>1. SchedulerInv
    BY ClockInit, BuffersInit, InvParts
  <2>2. Len(hw_chain) = 0 /\ Len(presenting.chain) = 0 /\ Len(ready) = 0
    BY EmptyElements DEF SchedulerInit, Nobody
  <2>3. Fit(M)
    BY <2>2 DEF Fit
  <2> QED
    BY <2>1, <2>3 DEF SchedulerInit
<1>2. Inv /\ [SchedulerNext]_schedulerVars => Inv'
  <2> SUFFICES ASSUME Inv, [SchedulerNext]_schedulerVars PROVE Inv'
    OBVIOUS
  <2>1. ClockTyped /\ BuffersOK
    BY InvParts
  <2>2. ClockTyped' /\ BuffersOK'
    BY <2>1, ClockNext, BuffersNext
  <2>3. SchedulerTypeOK'
    BY <2>2 DEF ClockTyped, BuffersOK, BuffersTyped, SchedulerTypeOK, Slices
  <2>4. SchedulerInv'
    BY <2>2, <2>3 DEF SchedulerInv, BuffersOK
  <2>5. Fit(M)'
    BY <2>1, FitNext
  <2>6. pack_pc' # "aborted"
    BY <2>1, StaysUp
  <2> QED
    BY <2>4, <2>5, <2>6
<1>3. Inv => HwBufferAvailable
  <2> SUFFICES ASSUME Inv PROVE HwBufferAvailable
    OBVIOUS
  <2>1. BuffersOK
    BY InvParts
  <2>2. /\ Len(ready) \in Nat /\ HighSlices \in Nat /\ slices_to_dump \in Nat
    BY <2>1, BufferFacts DEF BufferKnown
  <2>3. /\ Len(ready) <= HighSlices
        /\ slice # 0 => slices_to_dump >= 1 /\ Len(ready) + slices_to_dump <= HighSlices
    BY <2>1 DEF BuffersOK, Where, Wanted
  <2>4. ReadyBounded
    BY <2>2, <2>3 DEF ReadyBounded
  <2> QED
    BY <2>4 DEF HwBufferAvailable, SchedulerInv
<1> QED
  BY <1>1, <1>2, <1>3, PTL DEF SchedulerSpec, SchedulerSafeSpec

-----------------------------------------------------------------------------
(* DecoderGetsSlices, part by part.                                        *)
OnTheWay   == shown \o presenting.chain \o ReadyBuffers \o hw_chain
Current    == IF slice = 0 THEN <<>> ELSE Pieces(slice, copied + 1, sizes[slice])
WaitingSlices    == FlattenSeq(Whole(slice_pipe, sizes))
Upto(n)    == [i \in 1 .. n |-> i]
Everything == FlattenSeq(Whole(Upto(Len(sizes)), sizes))

LEMMA Parts ==
  DecoderGetsSlices <=> FlattenSeq(OnTheWay) \o (Current \o WaitingSlices) = Everything
BY DEF DecoderGetsSlices, Copied, Uncopied, AllOf, OnTheWay, Current, WaitingSlices, Upto,
       Everything, Whole, ReadyBuffers, ChainsOf

LEMMA UptoType ==
  ASSUME NEW n \in Nat
  PROVE  /\ Upto(n) \in Seq(1 .. n) /\ Len(Upto(n)) = n
         /\ Upto(n + 1) = Append(Upto(n), n + 1)
<1>1. Upto(n) \in [1 .. n -> 1 .. n]
  BY DEF Upto
<1>2. Upto(n) \in Seq(1 .. n) /\ Len(Upto(n)) = n
  BY <1>1, FunctionIsSeq
<1> DEFINE s == Upto(n)
           t == Upto(n + 1)
           m == n + 1
<1>3. t \in Seq(1 .. m) /\ Len(t) = m
  <2>1. t \in [1 .. m -> 1 .. m] /\ m \in Nat
    BY DEF Upto
  <2> QED
    BY <2>1, FunctionIsSeq
<1>4. s \in Seq(1 .. m)
  <2>1. 1 .. n \subseteq 1 .. m
    OBVIOUS
  <2> QED
    BY <1>2, <2>1, SeqMonotonic
<1>5. /\ \A i \in 1 .. n : s[i] = i
      /\ \A i \in 1 .. m : t[i] = i
      /\ m \in 1 .. m /\ m = n + 1
  BY DEF Upto
<1> HIDE DEF s, t, m
<1>6. /\ Append(s, m) \in Seq(1 .. m) /\ Len(Append(s, m)) = Len(s) + 1
      /\ \A i \in 1 .. Len(s) : Append(s, m)[i] = s[i]
      /\ Append(s, m)[Len(s) + 1] = m
  BY <1>4, <1>5, AppendElements
<1>7. \A i \in 1 .. n : s[i] = i
  BY DEF s, Upto
<1>8. \A i \in 1 .. Len(t) : t[i] = Append(s, m)[i]
  <2> SUFFICES ASSUME NEW i \in 1 .. m PROVE t[i] = Append(s, m)[i]
    BY <1>3
  <2>1. t[i] = i
    BY <1>5 DEF t, Upto, m
  <2>2. CASE i = m
    BY <2>1, <2>2, <1>2, <1>5, <1>6 DEF s
  <2>3. CASE i \in 1 .. n
    BY <2>1, <2>3, <1>2, <1>6, <1>7 DEF s
  <2>4. i = m \/ i \in 1 .. n
    BY <1>5
  <2> QED
    BY <2>2, <2>3, <2>4
<1>9. Len(s) = n
  BY <1>2 DEF s
<1>10. Len(t) = Len(Append(s, m))
  BY <1>3, <1>5, <1>6, <1>9
<1>11. t = Append(s, m)
  BY <1>3, <1>6, <1>8, <1>10, SeqEqual
<1> QED
  BY <1>2, <1>11 DEF s, t, m

LEMMA PartsTypes ==
  ASSUME BuffersOK
  PROVE  /\ Buffer = Seq(Piece) /\ OnTheWay \in Seq(Buffer) /\ FlattenSeq(OnTheWay) \in Seq(Piece)
         /\ Current \in Seq(Piece) /\ WaitingSlices \in Seq(Piece) /\ Everything \in Seq(Piece)
         /\ shown \in Seq(Buffer) /\ presenting.chain \in Seq(Buffer)
         /\ ReadyBuffers \in Seq(Buffer) /\ hw_chain \in Seq(Buffer)
<1>0. BufferKnown
  BY BufferFacts
<1>1. /\ shown \in Seq(Buffer) /\ presenting.chain \in Seq(Buffer)
      /\ ReadyBuffers \in Seq(Buffer) /\ hw_chain \in Seq(Buffer)
  BY <1>0 DEF BufferKnown, BuffersOK, BuffersTyped
<1>2. OnTheWay \in Seq(Buffer)
  <2>1. shown \o presenting.chain \in Seq(Buffer)
    BY <1>1, ConcatProperties
  <2>2. (shown \o presenting.chain) \o ReadyBuffers \in Seq(Buffer)
    BY <1>1, <2>1, ConcatProperties
  <2> QED
    BY <1>1, <2>2, ConcatProperties DEF OnTheWay
<1>3. Buffer = Seq(Piece)
  BY DEF Buffer, Piece
<1>4. FlattenSeq(OnTheWay) \in Seq(Piece)
  BY <1>2, <1>3, FlattenType
<1>5. Current \in Seq(Piece)
  <2>1. CASE slice = 0
    BY <2>1, EmptyElements DEF Current
  <2>2. CASE slice # 0
    <3>1. /\ slice \in Nat /\ copied \in Nat /\ sizes[slice] \in Nat /\ copied <= sizes[slice]
      BY <1>0, <2>2 DEF BuffersOK, BuffersTyped, Where, BufferKnown
    <3> QED
      BY <2>2, <3>1, PiecesFrom DEF Current
  <2> QED
    BY <2>1, <2>2
<1>6. sizes \in Seq(Nat) /\ slice_pipe \in Seq(1 .. Len(sizes)) /\ Len(sizes) \in Nat
  BY <1>0 DEF BuffersOK, BuffersTyped, Where, BufferKnown
<1>7. WaitingSlices \in Seq(Piece)
  BY <1>6, WholeType, FlattenType DEF WaitingSlices
<1>8. Everything \in Seq(Piece)
  <2>1. Upto(Len(sizes)) \in Seq(1 .. Len(sizes))
    BY <1>6, UptoType
  <2>2. Whole(Upto(Len(sizes)), sizes) \in Seq(Seq(Piece))
    BY <1>6, <2>1, WholeType
  <2> QED
    BY <2>2, FlattenType DEF Everything
<1> QED
  BY <1>1, <1>2, <1>3, <1>4, <1>5, <1>7, <1>8

LEMMA PiecesInit == SchedulerInit => DecoderGetsSlices
<1> SUFFICES ASSUME SchedulerInit PROVE FlattenSeq(OnTheWay) \o (Current \o WaitingSlices) = Everything
  BY Parts
<1>1. /\ shown = <<>> /\ presenting.chain = <<>> /\ hw_chain = <<>> /\ slice = 0
      /\ slice_pipe = <<>> /\ sizes = <<>> /\ ready = <<>>
  BY DEF SchedulerInit, Nobody
<1>2. ReadyBuffers = <<>>
  BY <1>1, BuffersEmpty DEF ReadyBuffers
<1>3. <<>> \o <<>> = <<>>
  BY EmptyElements, ConcatEmptySeq
<1>4. OnTheWay = <<>> /\ Current = <<>>
  BY <1>1, <1>2, <1>3 DEF OnTheWay, Current
<1>5. Len(<<>>) = 0 /\ Whole(<<>>, <<>>) = <<>> /\ Upto(0) = <<>>
  BY DEF Whole, Upto
<1>6. WaitingSlices = <<>> /\ Everything = <<>>
  BY <1>1, <1>5, FlattenEmpty DEF WaitingSlices, Everything
<1> QED
  BY <1>3, <1>4, <1>6, FlattenEmpty

LEMMA SliceArrivesPieces ==
  ASSUME BuffersOK, SliceArrives, DecoderGetsSlices PROVE DecoderGetsSlices'
<1> DEFINE f == FlattenSeq(OnTheWay)
           l == Len(sizes) + 1
<1>0. BufferKnown
  BY BufferFacts
<1>1. PICK n \in Sizes : sizes' = Append(sizes, n)
  BY DEF SliceArrives
<1>2. /\ slice_pipe' = Append(slice_pipe, l)
      /\ UNCHANGED <<packing, ready, showing>>
  BY DEF SliceArrives
<1>3. /\ sizes \in Seq(Nat) /\ n \in Nat /\ Len(sizes) \in Nat
      /\ slice_pipe \in Seq(1 .. Len(sizes)) /\ slice \in 0 .. Len(sizes)
  BY <1>0 DEF BuffersOK, BuffersTyped, Where, BufferKnown
<1>4. /\ sizes' \in Seq(Nat) /\ Len(sizes') = l
      /\ \A i \in 1 .. Len(sizes) : sizes'[i] = sizes[i]
      /\ sizes'[l] = n
  BY <1>1, <1>3, AppendElements
<1>5. l \in 1 .. l /\ l \in Nat /\ 1 .. Len(sizes) \subseteq 1 .. l
  BY <1>3
<1> DEFINE b == Pieces(l, 1, n)
<1>6. b \in Seq(Piece)
  <2>1. 1 \in Nat /\ 1 <= n + 1
    BY <1>3
  <2> QED
    BY <1>3, <1>5, <2>1, PiecesType
<1>7. WaitingSlices' = WaitingSlices \o b
  <2>1. Whole(slice_pipe, sizes') = Whole(slice_pipe, sizes)
        /\ slice_pipe \in Seq(1 .. Len(sizes'))
    BY <1>1, <1>3, WholeMore
  <2>2. l \in 1 .. Len(sizes')
    BY <1>4, <1>5
  <2> HIDE DEF l
  <2>3. FlattenSeq(Whole(Append(slice_pipe, l), sizes')) =
          FlattenSeq(Whole(slice_pipe, sizes')) \o Pieces(l, 1, sizes'[l])
    BY <1>4, <2>1, <2>2, WholeAppend
  <2> QED
    BY <1>2, <1>4, <2>1, <2>3 DEF WaitingSlices
<1>8. Everything' = Everything \o b
  <2>1. /\ Upto(Len(sizes)) \in Seq(1 .. Len(sizes))
        /\ Upto(l) = Append(Upto(Len(sizes)), l)
    BY <1>3, UptoType
  <2> DEFINE u == Upto(Len(sizes))
  <2>2. Whole(u, sizes') = Whole(u, sizes) /\ u \in Seq(1 .. Len(sizes'))
    BY <1>1, <1>3, <2>1, WholeMore
  <2>3. l \in 1 .. Len(sizes')
    BY <1>4, <1>5
  <2> HIDE DEF u, l
  <2>4. FlattenSeq(Whole(Append(u, l), sizes')) =
          FlattenSeq(Whole(u, sizes')) \o Pieces(l, 1, sizes'[l])
    BY <1>4, <2>2, <2>3, WholeAppend
  <2>5. Upto(Len(sizes')) = Append(u, l)
    BY <1>4, <2>1 DEF u
  <2>6. Everything' = FlattenSeq(Whole(Append(u, l), sizes'))
    BY <2>5 DEF Everything
  <2>7. Everything = FlattenSeq(Whole(u, sizes))
    BY DEF Everything, u
  <2> QED
    BY <1>4, <2>2, <2>4, <2>6, <2>7
<1>9. Current' = Current
  <2>1. slice' = slice /\ copied' = copied
    BY <1>2 DEF packing
  <2>2. slice # 0 => slice \in 1 .. Len(sizes)
    BY <1>3
  <2>3. slice # 0 => sizes'[slice] = sizes[slice]
    BY <1>4, <2>2
  <2> QED
    BY <2>1, <2>3 DEF Current
<1>10. OnTheWay' = OnTheWay
  BY <1>2 DEF OnTheWay, ReadyBuffers, packing, showing
<1>11. f \in Seq(Piece) /\ Current \in Seq(Piece) /\ WaitingSlices \in Seq(Piece)
  BY PartsTypes
<1>12. f \o (Current \o WaitingSlices) = Everything
  BY Parts
<1> HIDE DEF b, f
<1>13. f \o (Current \o (WaitingSlices \o b)) = (f \o (Current \o WaitingSlices)) \o b
  <2>1. AnyOrder(Seq(Piece))
    BY ConcatInAnyOrder
  <2>2. (Current \o WaitingSlices) \o b = Current \o (WaitingSlices \o b)
    BY <1>6, <1>11, <2>1, SMTT(30) DEF AnyOrder
  <2>3. Current \o WaitingSlices \in Seq(Piece)
    BY <1>11, ConcatProperties
  <2>4. (f \o (Current \o WaitingSlices)) \o b = f \o ((Current \o WaitingSlices) \o b)
    BY <1>6, <1>11, <2>1, <2>3, SMTT(30) DEF AnyOrder
  <2> QED
    BY <2>2, <2>4
<1>14. FlattenSeq(OnTheWay') \o (Current' \o WaitingSlices') = Everything'
  BY <1>7, <1>8, <1>9, <1>10, <1>12, <1>13 DEF f
<1>15. (FlattenSeq(OnTheWay) \o (Current \o WaitingSlices) = Everything)'
  BY <1>14
<1> QED
  BY <1>15, Parts, PTL

LEMMA PackPullPieces ==
  ASSUME BuffersOK, PackPull, DecoderGetsSlices PROVE DecoderGetsSlices'
<1>1. /\ pack_pc = "pull" /\ slice_pipe # <<>>
      /\ slice' = Head(slice_pipe) /\ slice_pipe' = Tail(slice_pipe)
      /\ copied' = 0 /\ hw_chain' = <<>>
      /\ UNCHANGED <<sizes, ready, showing>>
  BY DEF PackPull, arrivals
<1>2. /\ sizes \in Seq(Nat) /\ slice_pipe \in Seq(1 .. Len(sizes)) /\ slice = 0
      /\ hw_chain = <<>>
  BY <1>1 DEF BuffersOK, BuffersTyped, Where
<1>3. slice' \in 1 .. Len(sizes) /\ slice' # 0
  <2>1. Head(slice_pipe) \in 1 .. Len(sizes)
    BY <1>1, <1>2, HeadTailElements
  <2> QED
    BY <1>1, <2>1
<1>4. WaitingSlices = Pieces(Head(slice_pipe), 1, sizes[Head(slice_pipe)])
                  \o FlattenSeq(Whole(Tail(slice_pipe), sizes))
  BY <1>1, <1>2, WholeTail DEF WaitingSlices
<1>5. Current' = Pieces(Head(slice_pipe), 1, sizes[Head(slice_pipe)])
  <2>1. 0 + 1 = 1
    OBVIOUS
  <2> QED
    BY <1>1, <1>3, <2>1 DEF Current
<1>6. WaitingSlices' = FlattenSeq(Whole(Tail(slice_pipe), sizes))
  BY <1>1 DEF WaitingSlices
<1>7. Current \o WaitingSlices = WaitingSlices
  BY <1>2, PartsTypes, ConcatEmptySeq DEF Current
<1>8. OnTheWay' = OnTheWay /\ Everything' = Everything
  BY <1>1, <1>2 DEF OnTheWay, ReadyBuffers, Everything, showing
<1>9. FlattenSeq(OnTheWay) \o (Current \o WaitingSlices) = Everything
  BY Parts
<1>10. (FlattenSeq(OnTheWay) \o (Current \o WaitingSlices) = Everything)'
  BY <1>4, <1>5, <1>6, <1>7, <1>8, <1>9
<1> QED
  BY <1>10, Parts, PTL

LEMMA PackGetPieces ==
  ASSUME BuffersOK, PackGet, DecoderGetsSlices, in_list # 0 PROVE DecoderGetsSlices'
<1> DEFINE b == Pieces(slice, copied + 1, copied')
           d == Pieces(slice, copied' + 1, sizes[slice])
           a == shown \o presenting.chain \o ReadyBuffers
           f == FlattenSeq(OnTheWay)
<1>1. /\ slice \in 1 .. Len(sizes) /\ copied \in Nat /\ sizes[slice] \in Nat
      /\ copied' \in Nat /\ copied < copied' /\ copied' <= sizes[slice]
      /\ hw_chain' = Append(hw_chain, b)
      /\ b \in Buffer
      /\ UNCHANGED <<sizes, slice_pipe, slice, ready, showing>>
  BY PackGetCopies
<1>2. slice # 0 /\ slice \in Nat /\ copied <= copied'
  BY <1>1
<1>3. Current = b \o d
  <2>1. b \o d = Pieces(slice, copied + 1, sizes[slice])
    <3> DEFINE j == copied'
               k == sizes[slice]
    <3>1. /\ slice \in Nat /\ copied \in Nat /\ j \in Nat /\ k \in Nat
          /\ copied <= j /\ j <= k
      BY <1>1, <1>2
    <3> HIDE DEF j, k
    <3>2. Pieces(slice, copied + 1, j) \o Pieces(slice, j + 1, k) = Pieces(slice, copied + 1, k)
      <4>1. \A n, i, l, m \in Nat : i <= l /\ l <= m =>
              Pieces(n, i + 1, l) \o Pieces(n, l + 1, m) = Pieces(n, i + 1, m)
        BY PiecesSplit, ZenonT(60)
      <4> QED
        BY <3>1, <4>1, ZenonT(200)
    <3> QED
      BY <3>2 DEF j, k
  <2> QED
    BY <1>2, <2>1 DEF Current
<1>4. d \in Seq(Piece)
  BY <1>1, <1>2, PiecesFrom
<1>5. Current' = d
  BY <1>1, <1>2 DEF Current
<1>6. /\ Buffer = Seq(Piece) /\ OnTheWay \in Seq(Buffer) /\ f \in Seq(Piece)
      /\ WaitingSlices \in Seq(Piece) /\ hw_chain \in Seq(Buffer) /\ ReadyBuffers \in Seq(Buffer)
      /\ shown \in Seq(Buffer) /\ presenting.chain \in Seq(Buffer)
  BY PartsTypes
<1>7. a \in Seq(Buffer)
  <2>1. shown \o presenting.chain \in Seq(Buffer)
    BY <1>6, ConcatProperties
  <2> QED
    BY <1>6, <2>1, ConcatProperties
<1>8. a' = a
  BY <1>1 DEF ReadyBuffers, showing
<1>9. OnTheWay = a \o hw_chain /\ OnTheWay' = a' \o hw_chain'
  BY DEF OnTheWay
<1>10. WaitingSlices' = WaitingSlices /\ Everything' = Everything
  BY <1>1 DEF WaitingSlices, Everything
<1>11. f \o (Current \o WaitingSlices) = Everything
  BY Parts
<1> HIDE DEF a, b, d
<1>12. OnTheWay' = OnTheWay \o <<b>>
  <2>0. hw_chain \in Seq(Buffer) /\ b \in Buffer
    BY <1>1, <1>6
  <2>1. a \o Append(hw_chain, b) = (a \o hw_chain) \o <<b>>
    BY <1>7, <2>0, PutOnPipe
  <2> QED
    BY <1>1, <1>8, <1>9, <2>1
<1>13. FlattenSeq(OnTheWay') = f \o b
  <2>1. OnTheWay \in Seq(Seq(Piece)) /\ b \in Seq(Piece)
    BY <1>1, <1>6
  <2> DEFINE w == OnTheWay
  <2>2. w \in Seq(Seq(Piece)) /\ <<b>> \in Seq(Seq(Piece))
    BY <2>1
  <2> HIDE DEF w
  <2>3. FlattenSeq(w \o <<b>>) = FlattenSeq(w) \o FlattenSeq(<<b>>)
    BY <2>2, FlattenConcat
  <2>4. FlattenSeq(<<b>>) = b
    BY <2>1, FlattenOne
  <2> QED
    BY <1>12, <2>3, <2>4 DEF w
<1> HIDE DEF f
<1>14. (f \o b) \o (d \o WaitingSlices) = f \o ((b \o d) \o WaitingSlices)
  <2>1. AnyOrder(Seq(Piece))
    BY ConcatInAnyOrder
  <2>2. b \in Seq(Piece)
    BY <1>1, <1>6
  <2>3. d \o WaitingSlices \in Seq(Piece)
    BY <1>4, <1>6, ConcatProperties
  <2>4. (b \o d) \o WaitingSlices = b \o (d \o WaitingSlices)
    BY <1>4, <1>6, <2>1, <2>2 DEF AnyOrder
  <2>5. (f \o b) \o (d \o WaitingSlices) = f \o (b \o (d \o WaitingSlices))
    BY <1>6, <2>1, <2>2, <2>3 DEF AnyOrder
  <2> QED
    BY <2>4, <2>5
<1>15. (FlattenSeq(OnTheWay) \o (Current \o WaitingSlices) = Everything)'
  BY <1>3, <1>5, <1>10, <1>11, <1>13, <1>14
<1> QED
  BY <1>15, Parts, PTL

LEMMA PackPutPieces ==
  ASSUME BuffersOK, PackPut, DecoderGetsSlices PROVE DecoderGetsSlices'
<1> DEFINE e == [slice |-> slice, chain |-> hw_chain]
           a == shown \o presenting.chain
<1>1. /\ pack_pc = "put" /\ ready' = Append(ready, e)
      /\ slice' = 0 /\ copied' = 0 /\ hw_chain' = <<>>
      /\ UNCHANGED <<sizes, slice_pipe, showing>>
  BY DEF PackPut, arrivals
<1>2. /\ ready \in Seq(Slices(Buffer)) /\ hw_chain \in Seq(Buffer) /\ slice \in Nat
      /\ copied \in Nat /\ copied = sizes[slice]
  BY <1>1 DEF BuffersOK, BuffersTyped, Where
<1>3. e \in Slices(Buffer) /\ e.chain = hw_chain
  BY <1>2 DEF Slices
<1> HIDE DEF e
<1>4. ReadyBuffers' = ReadyBuffers \o hw_chain
  BY <1>1, <1>2, <1>3, BuffersAppend DEF ReadyBuffers
<1>5. Current = <<>> /\ Current' = <<>>
  <2>1. Pieces(slice, copied + 1, copied) = <<>>
    BY <1>2, PiecesNone
  <2> QED
    BY <1>1, <1>2, <2>1 DEF Current
<1>6. /\ hw_chain \in Seq(Buffer) /\ ReadyBuffers \in Seq(Buffer) /\ OnTheWay \in Seq(Buffer)
      /\ shown \in Seq(Buffer) /\ presenting.chain \in Seq(Buffer)
  BY PartsTypes
<1>7. a \in Seq(Buffer)
  BY <1>6, ConcatProperties
<1>8. OnTheWay = a \o ReadyBuffers \o hw_chain /\ OnTheWay' = a' \o ReadyBuffers' \o hw_chain'
  BY DEF OnTheWay
<1>9. a' = a
  BY <1>1 DEF showing
<1> HIDE DEF a
<1>10. a \o (ReadyBuffers \o hw_chain) = OnTheWay
  <2>1. AnyOrder(Seq(Buffer))
    BY ConcatInAnyOrder
  <2>2. a \o ReadyBuffers \o hw_chain = a \o (ReadyBuffers \o hw_chain)
    BY <1>6, <1>7, <2>1 DEF AnyOrder
  <2> QED
    BY <1>8, <2>2
<1>11. OnTheWay' = OnTheWay \o <<>>
  BY <1>1, <1>4, <1>8, <1>9, <1>10
<1>12. OnTheWay' = OnTheWay
  BY <1>6, <1>11, ConcatEmptySeq
<1>13. WaitingSlices' = WaitingSlices /\ Everything' = Everything
  BY <1>1 DEF WaitingSlices, Everything
<1>14. FlattenSeq(OnTheWay) \o (Current \o WaitingSlices) = Everything
  BY Parts
<1>15. (FlattenSeq(OnTheWay) \o (Current \o WaitingSlices) = Everything)'
  BY <1>5, <1>12, <1>13, <1>14
<1> QED
  BY <1>15, Parts, PTL

LEMMA TakePieces ==
  ASSUME BuffersOK, Take, DecoderGetsSlices PROVE DecoderGetsSlices'
<1> DEFINE c == Head(ready).chain
           q == FlattenSeq(ChainsOf(Tail(ready)))
<1>1. /\ presenting = Nobody /\ ready # <<>>
      /\ presenting' = Head(ready) /\ ready' = Tail(ready)
      /\ UNCHANGED <<sizes, slice_pipe, packing, shown>>
  BY DEF Take, arrivals
<1>2. ready \in Seq(Slices(Buffer))
  BY DEF BuffersOK, BuffersTyped
<1>3. Head(ready) \in Slices(Buffer) /\ Tail(ready) \in Seq(Slices(Buffer))
  BY <1>1, <1>2, HeadTailElements
<1>4. c \in Seq(Buffer) /\ q \in Seq(Buffer)
  BY <1>3, BuffersType DEF Slices
<1>5. ReadyBuffers = c \o q
  BY <1>1, <1>2, BuffersTail DEF ReadyBuffers
<1>6. presenting.chain = <<>> /\ presenting'.chain = c /\ ReadyBuffers' = q
  BY <1>1 DEF Nobody, ReadyBuffers
<1>7. hw_chain \in Seq(Buffer) /\ shown \in Seq(Buffer)
  BY PartsTypes
<1> HIDE DEF c, q
<1>8. OnTheWay = (shown \o (c \o q)) \o hw_chain
  BY <1>5, <1>6, <1>7, ConcatEmptySeq DEF OnTheWay
<1>9. OnTheWay' = ((shown \o c) \o q) \o hw_chain
  BY <1>1, <1>6 DEF OnTheWay, packing
<1>10. (shown \o c) \o q = shown \o (c \o q)
  BY <1>4, <1>7, ConcatInAnyOrder DEF AnyOrder
<1>11. OnTheWay' = OnTheWay
  BY <1>8, <1>9, <1>10
<1>12. Current' = Current /\ WaitingSlices' = WaitingSlices /\ Everything' = Everything
  BY <1>1 DEF Current, WaitingSlices, Everything, packing
<1>13. FlattenSeq(OnTheWay) \o (Current \o WaitingSlices) = Everything
  BY Parts
<1>14. (FlattenSeq(OnTheWay) \o (Current \o WaitingSlices) = Everything)'
  BY <1>11, <1>12, <1>13
<1> QED
  BY <1>14, Parts, PTL

LEMMA ShowPieces ==
  ASSUME BuffersOK, Show, DecoderGetsSlices PROVE DecoderGetsSlices'
<1> DEFINE p == presenting.chain
<1>1. /\ p \in Seq(Buffer) /\ p # <<>>
      /\ presenting'.chain = Tail(p)
      /\ shown' = Append(shown, Head(p))
      /\ UNCHANGED <<sizes, slice_pipe, packing, ready>>
  BY ShowLeaves
<1>2. p = presenting.chain
  OBVIOUS
<1>3. shown \in Seq(Buffer)
  BY DEF BuffersOK, BuffersTyped
<1> HIDE DEF p
<1>4. Append(shown, Head(p)) \o Tail(p) = shown \o p
  BY <1>1, <1>3, TakeOffPipe
<1>5. OnTheWay' = OnTheWay
  BY <1>1, <1>2, <1>4 DEF OnTheWay, ReadyBuffers, packing
<1>6. Current' = Current /\ WaitingSlices' = WaitingSlices /\ Everything' = Everything
  BY <1>1 DEF Current, WaitingSlices, Everything, packing
<1>7. FlattenSeq(OnTheWay) \o (Current \o WaitingSlices) = Everything
  BY Parts
<1>8. (FlattenSeq(OnTheWay) \o (Current \o WaitingSlices) = Everything)'
  BY <1>5, <1>6, <1>7
<1> QED
  BY <1>8, Parts, PTL

LEMMA PiecesNext == BuffersOK /\ DecoderGetsSlices /\ [SchedulerNext]_schedulerVars => DecoderGetsSlices'
<1> SUFFICES ASSUME BuffersOK, DecoderGetsSlices, [SchedulerNext]_schedulerVars PROVE DecoderGetsSlices'
  OBVIOUS
<1>1. CASE UNCHANGED <<sizes, slice_pipe, slice, copied, hw_chain, ready, presenting, shown>>
  <2>1. /\ OnTheWay' = OnTheWay /\ Current' = Current /\ WaitingSlices' = WaitingSlices
        /\ Everything' = Everything
    BY <1>1 DEF OnTheWay, Current, WaitingSlices, Everything, ReadyBuffers
  <2>2. FlattenSeq(OnTheWay) \o (Current \o WaitingSlices) = Everything
    BY Parts
  <2>3. (FlattenSeq(OnTheWay) \o (Current \o WaitingSlices) = Everything)'
    BY <2>1, <2>2
  <2> QED
    BY <2>3, Parts, PTL
<1>2. ASSUME Tick \/ PcrArrives \/ EmptyBufferDone \/ PackLen \/ PackNothing
               \/ (PackGet /\ in_list = 0) \/ Present \/ Pcr \/ UNCHANGED schedulerVars
      PROVE  UNCHANGED <<sizes, slice_pipe, slice, copied, hw_chain, ready, presenting, shown>>
  BY <1>2 DEF Tick, PcrArrives, EmptyBufferDone, PackLen, PackNothing, PackGet, Present,
              Pcr, PcrGet, PcrRecv, PcrNow, PcrSet, schedulerVars, arrivals, packing, showing
<1> QED
  BY <1>1, <1>2, SliceArrivesPieces, PackPullPieces, PackGetPieces, PackPutPieces, TakePieces,
     ShowPieces DEF SchedulerNext, Packing, Presenting

(***************************************************************************)
(* What the decoder was given, the buffers on their way to it and what is  *)
(* not copied yet make up the slices in order and piece by piece, for      *)
(* slices of any size, hardware buffers of any size and any number of      *)
(* them, split and handed on by two threads.                               *)
(***************************************************************************)
THEOREM PiecesInOrder == SchedulerSpec => []DecoderGetsSlices
<1> DEFINE Inv == SchedulerInv /\ DecoderGetsSlices
<1>1. SchedulerInit => Inv
  BY ClockInit, BuffersInit, PiecesInit, InvParts
<1>2. Inv /\ [SchedulerNext]_schedulerVars => Inv'
  <2> SUFFICES ASSUME Inv, [SchedulerNext]_schedulerVars PROVE Inv'
    OBVIOUS
  <2>1. ClockTyped /\ BuffersOK
    BY InvParts
  <2>2. ClockTyped' /\ BuffersOK'
    BY <2>1, ClockNext, BuffersNext
  <2>3. SchedulerTypeOK'
    BY <2>2 DEF ClockTyped, BuffersOK, BuffersTyped, SchedulerTypeOK, Slices
  <2>4. SchedulerInv'
    BY <2>2, <2>3 DEF SchedulerInv, BuffersOK
  <2>5. DecoderGetsSlices'
    BY <2>1, PiecesNext
  <2> QED
    BY <2>4, <2>5
<1>3. Inv => DecoderGetsSlices
  OBVIOUS
<1> QED
  BY <1>1, <1>2, <1>3, PTL DEF SchedulerSpec, SchedulerSafeSpec

-----------------------------------------------------------------------------
(* The signed product that makes the sink's clock jumps back by 2^32 ms    *)
(* once in each 2^32 ms (49.7 days), half-way between the multiples; the   *)
(* behaviour lies between two such moments.  Nor does the source's clock   *)
(* wrap, and no estimate is below zero.                                    *)
Block(m) == (SinkStart + m + U32 \div 2) \div U32

NoWrap ==
  /\ DelayMs <= SourceStart /\ SourceStart + MaxTime < U64
  /\ \A m \in 0 .. MaxTime : Block(m) = Block(0)

(* What the sink's clock shows m ms after the beginning, and the number    *)
(* that stands for when the conversion to 64 bits is undone.               *)
SinkAt(m) ==
  LET t == (SinkStart + m) % U32
  IN  IF t < U32 \div 2 THEN t ELSE U64 - U32 + t

Signed(m) == (SinkStart + m) - Block(0) * U32

(* A reference is a time the source's clock has shown, what is noted of    *)
(* the sink's clock is what it showed at a moment that is not before it,   *)
(* and the estimate made of the two is the source's delays ago or earlier. *)
Sampled(r) == r \in SourceStart .. SourceTime

Noted(m) == pcr_received_time = SinkAt(m) /\ pcr_time - SourceStart <= m

InStep ==
  /\ now \in 0 .. MaxTime
  /\ \A i \in 1 .. Len(pcr_pipe) : Sampled(pcr_pipe[i])
  /\ pcr_known => Sampled(pcr_time)
  /\ pcr_known /\ pcr_pc # "recv" => \E m \in 0 .. now : Noted(m)
  /\ pcr_pc = "recv" => pcr_known
  /\ pcr_known /\ pcr_pc = "set" =>
       \E m \in 0 .. now, n \in 0 .. now : m <= n /\ Noted(m) /\ pcr_now = SinkAt(n)
  /\ synced => pcr_known /\ curr_time + DelayMs <= SourceTime

LEMMA Remainder ==
  ASSUME NEW x \in Int, NEW d \in Nat \ {0}
  PROVE  x % d \in 0 .. d - 1 /\ x \div d \in Int /\ x = (x \div d) * d + (x % d)
OBVIOUS

(* A number and its remainder lie in the same turn.                        *)
LEMMA SameTurn ==
  ASSUME NEW x \in Int, NEW d \in Nat \ {0}, NEW q \in Int, NEW r \in 0 .. d - 1,
         x = q * d + r
  PROVE  x % d = r
<1> DEFINE s == x % d
           p == x \div d
<1>1. s \in 0 .. d - 1 /\ p \in Int /\ x = p * d + s
  BY Remainder
<1> HIDE DEF s, p
<1> DEFINE k == p - q
<1>2. r - s = k * d /\ k \in Int
  <2>1. k * d = p * d - q * d
    BY <1>1
  <2> QED
    BY <1>1, <2>1
<1> HIDE DEF k
<1>3. k = 0
  <2>1. k * d < d /\ - d < k * d
    BY <1>1, <1>2
  <2>2. k >= 1 => k * d >= d
    BY <1>2
  <2>3. k <= -1 => k * d <= - d
    BY <1>2
  <2> QED
    BY <1>2, <2>1, <2>2, <2>3
<1>4. s = r
  BY <1>1, <1>2, <1>3
<1> QED
  BY <1>4 DEF s

(* Between two of those moments the clock is a number of 32 bits with its  *)
(* sign, extended to 64.                                                   *)
LEMMA SinkSigned ==
  ASSUME NoWrap, NEW m \in 0 .. MaxTime
  PROVE  /\ Signed(m) \in Int /\ - U32 < Signed(m) /\ Signed(m) < U32
         /\ SinkAt(m) = IF 0 <= Signed(m) THEN Signed(m) ELSE U64 + Signed(m)
<1> DEFINE h == U32 \div 2
           k == Block(0)
           x == SinkStart + m
           v == x - k * U32
<1>1. /\ U32 \in Nat \ {0} /\ U64 \in Nat \ {0} /\ U32 < U64 /\ h \in Nat /\ h + h = U32
      /\ x \in Nat /\ SinkStart \in Nat
  BY SchedulerAssumption
<1>2. k = (x + h) \div U32 /\ k \in Int
  <2>1. Block(m) = Block(0)
    BY DEF NoWrap
  <2>2. x + h \in Nat
    BY <1>1
  <2>3. Block(m) = (x + h) \div U32
    BY DEF Block
  <2> HIDE DEF x, h
  <2> QED
    BY <1>1, <2>1, <2>2, <2>3, Remainder
<1>3. Signed(m) = v
  BY DEF Signed
<1> HIDE DEF h, k, x
<1>4. PICK r \in 0 .. U32 - 1 : x + h = k * U32 + r
  <2> DEFINE y == x + h
  <2>1. y \in Int /\ k = y \div U32
    BY <1>1, <1>2
  <2> HIDE DEF y
  <2>2. y % U32 \in 0 .. U32 - 1 /\ y = (y \div U32) * U32 + (y % U32)
    BY <1>1, <2>1, Remainder
  <2> DEFINE z == y % U32
  <2>3. z \in 0 .. U32 - 1 /\ x + h = k * U32 + z
    BY <2>1, <2>2 DEF y
  <2> HIDE DEF z
  <2> QED
    BY <2>3
<1>5. v \in Int /\ v = r - h /\ k * U32 \in Int
  BY <1>1, <1>2, <1>4
<1>6. - h <= v /\ v < h
  BY <1>1, <1>4, <1>5
<1>7. CASE 0 <= v
  <2>1. v \in 0 .. U32 - 1 /\ x = k * U32 + v
    BY <1>1, <1>5, <1>6, <1>7
  <2> HIDE DEF v
  <2>2. x % U32 = v
    BY <1>1, <1>2, <2>1, SameTurn
  <2>3. SinkAt(m) = v
    BY <1>6, <2>2 DEF SinkAt, x, h
  <2> QED
    BY <1>1, <1>3, <1>5, <1>6, <1>7, <2>3
<1>8. CASE v < 0
  <2>1. U32 + v \in 0 .. U32 - 1 /\ k - 1 \in Int /\ (k - 1) * U32 = k * U32 - U32
    BY <1>1, <1>2, <1>5, <1>6, <1>8
  <2>2. x = (k - 1) * U32 + (U32 + v)
    BY <1>1, <1>5, <2>1
  <2> HIDE DEF v
  <2>3. x % U32 = U32 + v
    <3> DEFINE w == U32 + v
               j == k - 1
    <3>1. w \in 0 .. U32 - 1 /\ j \in Int /\ x = j * U32 + w /\ x \in Int
      BY <1>1, <2>1, <2>2
    <3> HIDE DEF w, j
    <3>2. x % U32 = w
      BY <1>1, <3>1, SameTurn
    <3> QED
      BY <3>2 DEF w
  <2>4. ~ (U32 + v < h)
    BY <1>1, <1>5, <1>6
  <2>5. SinkAt(m) = U64 - U32 + (U32 + v)
    BY <2>3, <2>4 DEF SinkAt, x, h
  <2>6. SinkAt(m) = U64 + v
    BY <1>1, <1>5, <2>5
  <2>7. - U32 < v /\ v < U32 /\ ~ (0 <= v)
    BY <1>1, <1>5, <1>6, <1>8
  <2> QED
    BY <1>3, <1>5, <2>6, <2>7
<1> QED
  BY <1>5, <1>7, <1>8

(* It runs with the time, but for a step of 2^64 where it becomes zero.    *)
LEMMA SinkRuns ==
  ASSUME NoWrap, NEW m \in 0 .. MaxTime, NEW n \in 0 .. MaxTime, m <= n
  PROVE  SinkAt(n) - SinkAt(m) \in {n - m, n - m - U64}
<1>1. /\ Signed(m) \in Int /\ Signed(n) \in Int
      /\ SinkAt(m) = IF 0 <= Signed(m) THEN Signed(m) ELSE U64 + Signed(m)
      /\ SinkAt(n) = IF 0 <= Signed(n) THEN Signed(n) ELSE U64 + Signed(n)
  BY SinkSigned
<1>2. Signed(n) = Signed(m) + (n - m)
  <2> DEFINE b == Block(0) * U32
  <2>1. b \in Int /\ SinkStart \in Int /\ m \in Int /\ n \in Int
    <3>1. SinkStart \in Nat /\ U32 \in Nat \ {0} /\ MaxTime \in Nat
      BY SchedulerAssumption
    <3>2. SinkStart + 0 + U32 \div 2 \in Int
      BY <3>1
    <3>3. Block(0) \in Int
      BY <3>1, <3>2, Remainder DEF Block
    <3> QED
      BY <3>1, <3>3
  <2>2. Signed(m) = (SinkStart + m) - b /\ Signed(n) = (SinkStart + n) - b
    BY DEF Signed
  <2> HIDE DEF b
  <2> QED
    BY <2>1, <2>2
<1>3. U64 \in Nat /\ m \in Int /\ n \in Int
  BY SchedulerAssumption
<1> QED
  BY <1>1, <1>2, <1>3

LEMMA ClockFacts ==
  ASSUME ClockTyped, InStep, NoWrap
  PROVE  /\ now \in Nat /\ SourceStart \in Nat /\ DelayMs \in Nat
         /\ U64 \in Nat \ {0} /\ MaxTime \in Nat /\ now <= MaxTime
         /\ pcr_time \in Nat /\ pcr_received_time \in Nat /\ pcr_now \in Nat
         /\ curr_time \in Nat
         /\ SourceTime = SourceStart + now /\ SinkTime = SinkAt(now)
         /\ SourceTime % U64 = SourceTime /\ SourceTime < U64
         /\ pcr_pipe \in Seq(Time)
<1>1. /\ now \in Nat /\ SourceStart \in Nat /\ DelayMs \in Nat
      /\ U64 \in Nat \ {0} /\ MaxTime \in Nat /\ now <= MaxTime
  BY SchedulerAssumption DEF ClockTyped, InStep
<1>2. /\ pcr_time \in Nat /\ pcr_received_time \in Nat /\ pcr_now \in Nat
      /\ curr_time \in Nat /\ pcr_pipe \in Seq(Time)
  BY <1>1 DEF ClockTyped, Time
<1>3. SourceTime = SourceStart + now
  BY DEF SourceTime
<1>4. SourceTime < U64
  BY <1>1, <1>3 DEF NoWrap
<1>5. SourceTime % U64 = SourceTime
  <2>1. SourceTime \in 0 .. U64 - 1
    BY <1>1, <1>3, <1>4
  <2> QED
    BY <1>1, <2>1
<1>6. SinkTime = SinkAt(now)
  BY DEF SinkTime, SinkAt
<1> QED
  BY <1>1, <1>2, <1>3, <1>4, <1>5, <1>6

LEMMA InStepInit == SchedulerInit => InStep
<1> SUFFICES ASSUME SchedulerInit PROVE InStep
  OBVIOUS
<1>1. now \in 0 .. MaxTime
  BY SchedulerAssumption DEF SchedulerInit
<1>2. Len(pcr_pipe) = 0
  BY EmptyElements DEF SchedulerInit
<1> QED
  BY <1>1, <1>2 DEF SchedulerInit, InStep

LEMMA InStepNext ==
  ASSUME ClockTyped, InStep, NoWrap, [SchedulerNext]_schedulerVars
  PROVE  InStep'
<1>0. /\ now \in Nat /\ SourceStart \in Nat /\ DelayMs \in Nat
      /\ U64 \in Nat \ {0} /\ MaxTime \in Nat /\ now <= MaxTime
      /\ pcr_time \in Nat /\ pcr_received_time \in Nat /\ pcr_now \in Nat
      /\ curr_time \in Nat
      /\ SourceTime = SourceStart + now /\ SinkTime = SinkAt(now)
      /\ SourceTime % U64 = SourceTime /\ SourceTime < U64
      /\ pcr_pipe \in Seq(Time)
  BY ClockFacts
<1>1. CASE Tick
  <2>1. /\ now' = now + 1 /\ now < MaxTime
        /\ UNCHANGED <<pcr_pipe, clock>>
    BY <1>1 DEF Tick, arrivals
  <2>2. now' \in 0 .. MaxTime
    BY <1>0, <2>1
  <2>3. SourceTime' = SourceTime + 1
    BY <1>0, <2>1 DEF SourceTime
  <2>4. \A r : Sampled(r) => Sampled(r)'
    BY <1>0, <2>3 DEF Sampled
  <2>5. /\ 0 .. now \subseteq 0 .. now' /\ \A m : Noted(m) => Noted(m)'
        /\ UNCHANGED <<pcr_pc, pcr_now, curr_time, pcr_known, synced>>
    BY <1>0, <2>1 DEF clock, Noted
  <2>6. synced => curr_time + DelayMs <= SourceTime'
    BY <1>0, <2>3 DEF InStep
  <2>7. (pcr_known /\ pcr_pc = "set" =>
          \E m \in 0 .. now, n \in 0 .. now : m <= n /\ Noted(m) /\ pcr_now = SinkAt(n))'
    BY <2>5 DEF InStep
  <2> QED
    BY <2>1, <2>2, <2>4, <2>5, <2>6, <2>7 DEF InStep, clock
<1>2. CASE PcrArrives
  <2>1. pcr_pipe' = Append(pcr_pipe, SourceTime) /\ UNCHANGED <<now, clock>>
    BY <1>0, <1>2 DEF PcrArrives
  <2>2. SourceTime \in Time /\ Sampled(SourceTime)
    BY <1>0 DEF Time, Sampled
  <2>3. /\ Len(pcr_pipe) \in Nat /\ Len(pcr_pipe') = Len(pcr_pipe) + 1
        /\ \A i \in 1 .. Len(pcr_pipe) : pcr_pipe'[i] = pcr_pipe[i]
        /\ pcr_pipe'[Len(pcr_pipe) + 1] = SourceTime
    BY <1>0, <2>1, <2>2, AppendElements
  <2>4. \A i \in 1 .. Len(pcr_pipe') : Sampled(pcr_pipe'[i])
    <3> SUFFICES ASSUME NEW i \in 1 .. Len(pcr_pipe) + 1 PROVE Sampled(pcr_pipe'[i])
      BY <2>3
    <3>1. i = Len(pcr_pipe) + 1 \/ i \in 1 .. Len(pcr_pipe)
      BY <2>3
    <3> QED
      BY <2>2, <2>3, <3>1 DEF InStep
  <2>5. SourceTime' = SourceTime /\ \A r : Sampled(r) => Sampled(r)'
    BY <2>1 DEF SourceTime, Sampled
  <2>6. \A i \in 1 .. Len(pcr_pipe') : Sampled(pcr_pipe[i])'
    BY <2>1, <2>4 DEF SourceTime, Sampled
  <2> QED
    BY <2>1, <2>5, <2>6 DEF InStep, clock, Noted
<1>3. CASE PcrGet
  <2>0. UNCHANGED <<now, pcr_received_time, pcr_now, curr_time, synced>> /\ pcr_pc = "get"
    BY <1>3 DEF PcrGet
  <2>1. SourceTime' = SourceTime /\ \A r : Sampled(r) => Sampled(r)'
    BY <2>0 DEF SourceTime, Sampled
  <2>2. CASE pcr_pipe = <<>>
    <3>1. pcr_pc' = "now" /\ UNCHANGED <<pcr_pipe, pcr_time, pcr_known>>
      BY <1>3, <2>2 DEF PcrGet
    <3> QED
      BY <2>0, <2>1, <3>1 DEF InStep, Noted
  <2>3. CASE pcr_pipe # <<>>
    <3>1. /\ pcr_time' = Head(pcr_pipe) /\ pcr_pipe' = Tail(pcr_pipe)
          /\ pcr_known' = TRUE /\ pcr_pc' = "recv"
      BY <1>3, <2>3 DEF PcrGet
    <3>2. /\ Len(pcr_pipe) \in Nat \ {0} /\ Head(pcr_pipe) = pcr_pipe[1]
          /\ Len(pcr_pipe') = Len(pcr_pipe) - 1
          /\ \A i \in 1 .. Len(pcr_pipe') : pcr_pipe'[i] = pcr_pipe[i + 1]
      BY <1>0, <2>3, <3>1, HeadTailElements
    <3>3. /\ 1 \in 1 .. Len(pcr_pipe)
          /\ \A i \in 1 .. Len(pcr_pipe') : i + 1 \in 1 .. Len(pcr_pipe)
      BY <3>2
    <3>4. \A i \in 1 .. Len(pcr_pipe') : Sampled(pcr_pipe[i])'
      BY <2>0, <3>2, <3>3 DEF InStep, Sampled, SourceTime
    <3>5. Sampled(pcr_time)'
      BY <2>0, <3>1, <3>2, <3>3 DEF InStep, Sampled, SourceTime
    <3> QED
      BY <2>0, <2>1, <3>1, <3>4, <3>5 DEF InStep
  <2> QED
    BY <2>2, <2>3
<1>4. CASE PcrRecv
  <2>1. /\ pcr_pc = "recv" /\ pcr_pc' = "now" /\ pcr_received_time' = SinkAt(now)
        /\ UNCHANGED <<now, pcr_pipe, pcr_time, pcr_now, curr_time, pcr_known, synced>>
    BY <1>0, <1>4 DEF PcrRecv, arrivals
  <2>2. SourceTime' = SourceTime /\ \A r : Sampled(r) => Sampled(r)'
    BY <2>1 DEF SourceTime, Sampled
  <2>3. pcr_time - SourceStart <= now
    BY <1>0, <2>1 DEF InStep, Sampled
  <2>4. now \in 0 .. now' /\ Noted(now)'
    BY <1>0, <2>1, <2>3 DEF Noted
  <2> QED
    BY <2>1, <2>2, <2>4 DEF InStep
<1>5. CASE PcrNow
  <2>1. /\ pcr_pc = "now" /\ pcr_pc' = "set" /\ pcr_now' = SinkAt(now)
        /\ UNCHANGED <<now, pcr_pipe, pcr_time, pcr_received_time, curr_time, pcr_known,
                       synced>>
    BY <1>0, <1>5 DEF PcrNow, arrivals
  <2>2. SourceTime' = SourceTime /\ \A r : Sampled(r) => Sampled(r)'
    BY <2>1 DEF SourceTime, Sampled
  <2>3. \A m : Noted(m)' <=> Noted(m)
    BY <2>1 DEF Noted
  <2>4. pcr_known =>
          \E m \in 0 .. now, n \in 0 .. now : m <= n /\ Noted(m) /\ pcr_now' = SinkAt(n)
    <3> SUFFICES ASSUME pcr_known
                 PROVE  \E m \in 0 .. now, n \in 0 .. now :
                          m <= n /\ Noted(m) /\ pcr_now' = SinkAt(n)
      OBVIOUS
    <3>1. PICK m \in 0 .. now : Noted(m)
      BY <2>1 DEF InStep
    <3>2. now \in 0 .. now /\ m <= now
      BY <1>0
    <3> QED
      BY <2>1, <3>1, <3>2
  <2> QED
    BY <2>1, <2>2, <2>3, <2>4 DEF InStep
<1>6. CASE PcrSet
  <2>1. /\ pcr_pc = "set" /\ pcr_pc' = "get" /\ curr_time' = Estimate /\ synced' = pcr_known
        /\ UNCHANGED <<now, pcr_pipe, pcr_time, pcr_received_time, pcr_now, pcr_known>>
    BY <1>6 DEF PcrSet, arrivals
  <2>2. SourceTime' = SourceTime /\ \A r : Sampled(r) => Sampled(r)'
    BY <2>1 DEF SourceTime, Sampled
  <2>3. pcr_known => Estimate + DelayMs <= SourceTime
    <3> SUFFICES ASSUME pcr_known PROVE Estimate + DelayMs <= SourceTime
      OBVIOUS
    <3>1. PICK m \in 0 .. now, n \in 0 .. now : m <= n /\ Noted(m) /\ pcr_now = SinkAt(n)
      BY <2>1 DEF InStep
    <3> DEFINE d == pcr_now - pcr_received_time
               e == pcr_time + (n - m) - DelayMs
    <3>2. m \in 0 .. MaxTime /\ n \in 0 .. MaxTime
      BY <1>0
    <3>3. d \in {n - m, n - m - U64}
      BY <3>1, <3>2, SinkRuns DEF Noted
    <3>4. /\ SourceStart <= pcr_time /\ pcr_time - SourceStart <= m
          /\ DelayMs <= SourceStart
      BY <2>1, <3>1 DEF InStep, Sampled, Noted, NoWrap
    <3>5. e \in 0 .. U64 - 1 /\ e + DelayMs <= SourceTime
      BY <1>0, <3>1, <3>4
    <3>6. pcr_time + d - DelayMs \in {e, e - U64}
      BY <1>0, <3>3
    <3>7. Estimate = (pcr_time + d - DelayMs) % U64
      BY DEF Estimate
    <3> HIDE DEF d, e
    <3>8. e % U64 = e /\ (e - U64) % U64 = e
      <4>1. e = 0 * U64 + e /\ e - U64 = (-1) * U64 + e /\ e \in Int /\ e - U64 \in Int
        BY <1>0, <3>5
      <4> QED
        BY <1>0, <3>5, <4>1, SameTurn
    <3> QED
      BY <3>5, <3>6, <3>7, <3>8
  <2> QED
    BY <2>1, <2>2, <2>3 DEF InStep, Noted
<1>7. CASE UNCHANGED <<now, pcr_pipe, clock>>
  BY <1>7 DEF InStep, Sampled, Noted, SourceTime, clock
<1>8. ASSUME SliceArrives \/ EmptyBufferDone \/ Packing \/ Presenting \/ UNCHANGED schedulerVars
      PROVE  UNCHANGED <<now, pcr_pipe, clock>>
  BY <1>8 DEF SliceArrives, EmptyBufferDone, Packing, PackLen, PackNothing, PackPull, PackGet,
              PackPut, Presenting, Take, Present, Show, schedulerVars, arrivals
<1> QED
  BY <1>1, <1>2, <1>3, <1>4, <1>5, <1>6, <1>7, <1>8 DEF SchedulerNext, Pcr

(* Only Present begins to show a slice.                                    *)
LEMMA PresentShows ==
  ASSUME [SchedulerNext]_schedulerVars, show_pc = "take", show_pc' = "show" PROVE Present
<1>1. ASSUME Tick \/ SliceArrives \/ PcrArrives \/ EmptyBufferDone \/ Packing \/ Take \/ Pcr
               \/ UNCHANGED schedulerVars
      PROVE  UNCHANGED show_pc
  BY <1>1 DEF Tick, SliceArrives, PcrArrives, EmptyBufferDone, Packing, PackLen, PackNothing,
              PackPull, PackGet, PackPut, Take, Pcr, PcrGet, PcrRecv, PcrNow, PcrSet, schedulerVars,
              showing
<1>2. CASE Show
  BY <1>2 DEF Show
<1> QED
  BY <1>1, <1>2 DEF SchedulerNext, Presenting

(***************************************************************************)
(* Once the estimate is made from a clock reference, no slice goes to the  *)
(* decoder before the source's clock is DelayMs past its time, however     *)
(* long references wait and whatever happens between reading the sink's    *)
(* clock, setting the estimate and comparing it, wherever the sink's clock *)
(* stands: provided that the source's clock started DelayMs after zero and *)
(* that the behaviour crosses none of the moments, one in 49.7 days, at    *)
(* which the product of tv_sec and 1000 overflows (NoWrap).                *)
(***************************************************************************)
THEOREM ShownInTime == ASSUME NoWrap PROVE SchedulerSpec => NeverEarly
<1> DEFINE Inv == ClockTyped /\ InStep
           Late == show_pc = "take" /\ show_pc' = "show" /\ synced
                     => SourceTime > TimeOf(presenting.slice) + DelayMs
<1>1. SchedulerInit => Inv
  BY ClockInit, InStepInit
<1>2. Inv /\ [SchedulerNext]_schedulerVars => Inv'
  BY ClockNext, InStepNext
<1>3. Inv /\ BuffersOK /\ [SchedulerNext]_schedulerVars => Late
  <2> SUFFICES ASSUME Inv, BuffersOK, [SchedulerNext]_schedulerVars, show_pc = "take", show_pc' = "show", synced
               PROVE  SourceTime > TimeOf(presenting.slice) + DelayMs
    OBVIOUS
  <2> DEFINE p == TimeOf(presenting.slice)
  <2>1. curr_time > p
    BY PresentShows DEF Present, Due
  <2>2. curr_time + DelayMs <= SourceTime
    BY DEF InStep
  <2>3. /\ curr_time \in Nat /\ DelayMs \in Nat /\ SourceStart \in Nat /\ now \in Nat
        /\ SourceTime = SourceStart + now
    BY ClockFacts
  <2>4. p \in Nat
    <3>1. presenting.slice \in Nat /\ FirstPts \in Nat
      BY SchedulerAssumption DEF BuffersOK, BuffersTyped, Slices
    <3>2. presenting.slice \div 2 \in Nat
      BY <3>1
    <3> QED
      BY <3>1, <3>2 DEF TimeOf
  <2> HIDE DEF p
  <2>5. SourceTime > p + DelayMs
    BY <2>1, <2>2, <2>3, <2>4
  <2> QED
    BY <2>5 DEF p
<1>4. SchedulerInit => BuffersOK
  BY BuffersInit
<1>5. BuffersOK /\ [SchedulerNext]_schedulerVars => BuffersOK'
  BY BuffersNext
<1>6. Inv /\ BuffersOK /\ [SchedulerNext]_schedulerVars => [Late]_schedulerVars
  BY <1>3
<1> HIDE DEF Inv, Late
<1>7. SchedulerSpec => [][Late]_schedulerVars
  BY <1>1, <1>2, <1>4, <1>5, <1>6, PTL DEF SchedulerSpec, SchedulerSafeSpec
<1> QED
  BY <1>7 DEF NeverEarly, Late
=============================================================================
