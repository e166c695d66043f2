----------------------------- MODULE SoundProofs ------------------------------
(***************************************************************************)
(* Theorems about the path of the sound: first the audio decoder, which    *)
(* cuts the packets into units, then the audio scheduler, which takes the  *)
(* units from the pipe between the two and keeps the hardware fed.         *)
(***************************************************************************)
EXTENDS AudioDecoder, AudioScheduler, SequenceLemmas

(***************************************************************************)
(* For units of any size cut in any way, any losses and any order of       *)
(* arrival: the flags of the LPCM thread and its chain agree, and a packet *)
(* is freed once and never while it is in a unit (ChainIsKept).  If no gap *)
(* is as long as the sequence numbers are wide, a unit that starts without *)
(* an adaptation field is put on the pipe whole or not at all              *)
(* (UnitsIfGapsSeen), and makes no assert fail (AbortsNeedAField).  From a *)
(* source that sends no such fields, while packets come in order, one gap  *)
(* costs two units at most (GapCostsOneUnitMore).                          *)
(*                                                                         *)
(* The second part needs to know where in its unit a packet lies, which    *)
(* the packet does not say: the invariant states that there is a function  *)
(* off that tells it (Cut).                                                *)
(***************************************************************************)

Waiting == ToSet(queue)

Arrived == Waiting \cup Gathered \cup Dumped \cup freed

Known == \A p \in Arrived : p.nr < seq

Apart ==
  /\ IsInjective(queue)
  /\ Waiting \cap (Gathered \cup Dumped \cup freed) = {}
  /\ Gathered \cap (Dumped \cup freed) = {}
  /\ Dumped \cap freed = {}

Flags ==
  /\ looking <=> ~ continuing
  /\ continuing <=> slice_chain # <<>>

IInv == TypeOK /\ Known /\ Apart /\ (~ aborted => Flags)

-----------------------------------------------------------------------------
LEMMA Lengths ==
  ASSUME TypeOK
  PROVE  /\ Len(queue) \in Nat /\ Len(slice_chain) \in Nat /\ Len(slices) \in Nat
         /\ slice_chain = <<>> <=> Len(slice_chain) = 0
         /\ queue = <<>> <=> Len(queue) = 0
BY LenProperties, EmptyElements DEF TypeOK

LEMMA DumpedElements ==
  \A x : x \in Dumped <=> \E i \in 1 .. Len(slices) : x \in ToSet(slices[i])
BY DEF Dumped

LEMMA Sizes ==
  /\ U16Mod \in Nat \ {0} /\ U32Mod \in Nat /\ U16Mod < U32Mod
  /\ UnitBytes \in Nat \ {0} /\ UnitBytes < U32Mod
  /\ 0 \in U32 /\ Announced \in U32 /\ \A p : PesLen(p) \subseteq U32
BY ConstantsAssumption DEF PesLen, Announced, U32

LEMMA InvInit == Init => IInv
<1> SUFFICES ASSUME Init PROVE IInv
  OBVIOUS
<1> USE DEF Init
<1>1. Waiting = {} /\ Gathered = {} /\ Len(slices) = 0
  BY EmptyElements DEF Waiting, Gathered
<1>2. \A i \in 1 .. 0 : FALSE
  OBVIOUS
<1>3. Dumped = {}
  BY <1>1, <1>2, DumpedElements
<1>4. Arrived = {}
  BY <1>1, <1>3 DEF Arrived
<1>5. TypeOK
  <2>1. queue \in Seq(Packet) /\ slice_chain \in Seq(Packet) /\ slices \in Seq(Seq(Packet))
    BY EmptyElements
  <2>2. 0 \in U32 /\ 0 \in 0 .. U16Mod - 1 /\ 0 \in 0 .. UnitBytes
    BY Sizes DEF U32
  <2> QED
    BY <2>1, <2>2 DEF TypeOK
<1>6. Known /\ Apart /\ Flags
  BY <1>1, <1>3, <1>4, EmptyElements DEF Known, Apart, Flags
<1> QED
  BY <1>5, <1>6 DEF IInv

LEMMA ArrivedArePackets == ASSUME TypeOK PROVE Arrived \subseteq Packet
<1>1. Waiting \subseteq Packet /\ Gathered \subseteq Packet
  BY ToSetElements DEF TypeOK, Waiting, Gathered
<1>2. Dumped \subseteq Packet
  <2> SUFFICES ASSUME NEW y \in Dumped PROVE y \in Packet
    OBVIOUS
  <2>1. PICK i \in 1 .. Len(slices) : y \in ToSet(slices[i])
    BY DumpedElements
  <2>2. slices[i] \in Seq(Packet)
    BY ElementOfSeq DEF TypeOK
  <2> QED
    BY <2>1, <2>2, ToSetElements
<1> QED
  BY <1>1, <1>2 DEF Arrived, TypeOK

(* What the two ways of sending have in common.                            *)
LEMMA SendFacts ==
  ASSUME TypeOK, SendStart \/ SendMore
  PROVE  \E p \in Packet :
           /\ p.nr = seq /\ Transmit(p)
           /\ unit' \in Nat /\ left' \in 0 .. UnitBytes
           /\ p.unit = unit' /\ p.bytes \in Nat \ {0}
           /\ Stuffing \subseteq {0} \/ ~ p.start => p.counted = p.bytes
           /\ p.start => left = 0 /\ left' = UnitBytes - p.bytes /\ unit' = unit + 1
           /\ ~ p.start => left > 0 /\ left' = left - p.bytes /\ unit' = unit
<1>1. /\ PktBytes \subseteq Nat \ {0} /\ Stuffing \subseteq Nat /\ UnitBytes \in Nat
      /\ unit \in Nat /\ left \in 0 .. UnitBytes /\ seq \in Nat
  BY ConstantsAssumption DEF TypeOK
<1>2. CASE SendStart
  <2>1. PICK n \in PktBytes, s \in Stuffing :
          /\ n + s <= UnitBytes /\ left' = UnitBytes - n
          /\ Transmit([unit |-> unit + 1, start |-> TRUE, nr |-> seq,
                       bytes |-> n, counted |-> n + s])
    BY <1>2 DEF SendStart
  <2> DEFINE p == [unit |-> unit + 1, start |-> TRUE, nr |-> seq, bytes |-> n, counted |-> n + s]
  <2>2. n \in Nat \ {0} /\ s \in Nat /\ n <= UnitBytes
    BY <1>1, <2>1
  <2>3. p \in Packet /\ p.nr = seq /\ p.bytes = n /\ p.counted = n + s /\ p.start /\ p.unit = unit + 1
    BY <1>1, <2>2 DEF Packet
  <2>4. left = 0 /\ unit' = unit + 1
    BY <1>2 DEF SendStart
  <2>5. Stuffing \subseteq {0} => s = 0
    OBVIOUS
  <2> HIDE DEF p
  <2>6. Transmit(p)
    BY <2>1 DEF p
  <2>7. left' = UnitBytes - n /\ left' \in 0 .. UnitBytes /\ unit' \in Nat
    BY <1>1, <2>1, <2>2, <2>4
  <2>8. Stuffing \subseteq {0} \/ ~ p.start => p.counted = p.bytes
    BY <2>2, <2>3, <2>5
  <2> QED
    BY <2>2, <2>3, <2>4, <2>6, <2>7, <2>8
<1>3. CASE SendMore
  <2>1. PICK n \in PktBytes :
          /\ n <= left /\ left' = left - n
          /\ Transmit([unit |-> unit, start |-> FALSE, nr |-> seq, bytes |-> n, counted |-> n])
    BY <1>3 DEF SendMore
  <2> DEFINE p == [unit |-> unit, start |-> FALSE, nr |-> seq, bytes |-> n, counted |-> n]
  <2>2. n \in Nat \ {0}
    BY <1>1, <2>1
  <2>3. p \in Packet /\ p.nr = seq /\ p.bytes = n /\ p.counted = n /\ ~ p.start /\ p.unit = unit
    BY <1>1, <2>2 DEF Packet
  <2>4. left > 0 /\ unit' = unit
    BY <1>3 DEF SendMore
  <2> HIDE DEF p
  <2>5. Transmit(p)
    BY <2>1 DEF p
  <2>6. left' = left - n /\ left' \in 0 .. UnitBytes
    BY <1>1, <2>1, <2>2
  <2> QED
    BY <1>1, <2>2, <2>3, <2>4, <2>5, <2>6
<1> QED
  BY <1>2, <1>3

LEMMA SendInv == ASSUME IInv, SendStart \/ SendMore PROVE IInv'
<1>1. TypeOK /\ Known /\ Apart /\ (~ aborted => Flags)
  BY DEF IInv
<1>2. PICK p \in Packet :
        p.nr = seq /\ Transmit(p) /\ unit' \in Nat /\ left' \in 0 .. UnitBytes
  BY <1>1, SendFacts
<1>3. /\ seq' = seq + 1 /\ seq \in Nat /\ seq' \in Nat
      /\ UNCHANGED <<other, overtakes, looking, continuing, pes_len, byte_count, last_seq_num,
                     slice_chain, slices, freed, leaked, aborted>>
  BY <1>1, <1>2 DEF Transmit, f_cblk, TypeOK
<1>4. p \notin Arrived
  BY <1>1, <1>2, <1>3 DEF Known
<1>5. /\ queue' \in Seq(Packet) /\ IsInjective(queue') /\ lost' \subseteq Packet
      /\ Waiting' \subseteq Waiting \cup {p}
  <2>1. queue \in Seq(Packet) /\ IsInjective(queue) /\ p \notin ToSet(queue) /\ lost \subseteq Packet
    BY <1>1, <1>4 DEF TypeOK, Apart, Arrived, Waiting
  <2>2. CASE queue' = Append(queue, p) /\ UNCHANGED lost
    BY <2>1, <2>2, AppendElements, AppendInjectiveSeq DEF Waiting
  <2>3. CASE lost' = lost \cup {p} /\ UNCHANGED queue
    BY <2>1, <2>3 DEF Waiting
  <2> QED
    BY <1>2, <2>2, <2>3 DEF Transmit
<1>6. Gathered' = Gathered /\ Dumped' = Dumped /\ Arrived' \subseteq Arrived \cup {p}
  BY <1>3, <1>5 DEF Gathered, Dumped, Arrived
<1>7. TypeOK'
  BY <1>1, <1>2, <1>3, <1>5 DEF TypeOK
<1>8. Known'
  <2> SUFFICES ASSUME NEW x \in Arrived' PROVE x.nr < seq'
    BY DEF Known
  <2>1. CASE x = p
    BY <1>2, <1>3, <2>1
  <2>2. CASE x \in Arrived
    <3>1. x.nr < seq /\ x.nr \in Nat
      BY <1>1, <2>2, ArrivedArePackets DEF Known, Packet
    <3> QED
      BY <1>3, <3>1
  <2> QED
    BY <1>6, <2>1, <2>2
<1>9. Apart'
  BY <1>1, <1>3, <1>4, <1>5, <1>6 DEF Apart, Arrived
<1>10. (~ aborted => Flags)'
  BY <1>1, <1>3 DEF Flags
<1> QED
  BY <1>7, <1>8, <1>9, <1>10 DEF IInv

LEMMA OvertakeInv == ASSUME IInv, Overtake PROVE IInv' /\ Arrived' = Arrived /\ Waiting' = Waiting
<1>1. TypeOK /\ Known /\ Apart /\ (~ aborted => Flags)
  BY DEF IInv
<1>2. /\ overtakes' \in Nat
      /\ UNCHANGED <<unit, left, seq, other, lost, looking, continuing, pes_len, byte_count,
                     last_seq_num, slice_chain, slices, freed, leaked, aborted>>
  BY <1>1, SMTT(30) DEF Overtake, f_cblk, TypeOK
<1>3. queue' \in Seq(Packet) /\ IsInjective(queue') /\ Waiting' = Waiting
  <2>1. PICK i \in 1 .. Len(queue) - 1 :
          queue' = [queue EXCEPT ![i] = queue[i + 1], ![i + 1] = queue[i]]
    BY DEF Overtake
  <2>2. queue \in Seq(Packet) /\ IsInjective(queue)
    BY <1>1 DEF TypeOK, Apart
  <2>3. /\ queue' \in Seq(Packet) /\ Len(queue') = Len(queue)
        /\ queue'[i] = queue[i + 1] /\ queue'[i + 1] = queue[i]
        /\ \A j \in 1 .. Len(queue) : j # i /\ j # i + 1 => queue'[j] = queue[j]
    BY <2>1, <2>2, SwapIsSeq
  <2>4. ToSet(queue') = ToSet(queue) /\ IsInjective(queue')
    BY <2>2, <2>3, SwapElements
  <2> QED
    BY <2>3, <2>4 DEF Waiting
<1>4. Gathered' = Gathered /\ Dumped' = Dumped /\ Arrived' = Arrived
  BY <1>2, <1>3 DEF Gathered, Dumped, Arrived
<1>5. TypeOK'
  BY <1>1, <1>2, <1>3 DEF TypeOK
<1>6. Known' /\ (~ aborted => Flags)'
  BY <1>1, <1>2, <1>4 DEF Known, Flags
<1>7. Apart'
  BY <1>1, <1>2, <1>3, <1>4 DEF Apart
<1> QED
  BY <1>3, <1>4, <1>5, <1>6, <1>7 DEF IInv

-----------------------------------------------------------------------------
(* The packet the decoder takes is in no other place.                      *)
LEMMA DecodeFacts ==
  ASSUME IInv, Decode
  PROVE  LET p == Head(queue) IN
         /\ ~ aborted /\ Flags
         /\ queue \in Seq(Packet) /\ queue # <<>> /\ p \in Packet /\ p = queue[1]
         /\ queue' \in Seq(Packet) /\ IsInjective(queue')
         /\ Len(queue) \in Nat \ {0} /\ Len(queue') = Len(queue) - 1
         /\ \A i \in 1 .. Len(queue') : queue'[i] = queue[i + 1]
         /\ Waiting = {p} \cup Waiting' /\ p \notin Waiting'
         /\ p \notin Gathered \cup Dumped \cup freed /\ p \in Arrived
         /\ Skip(p) \/ Begin(p) \/ Continue(p) \/ Gap(p)
         /\ UNCHANGED <<unit, left, seq, other, lost, overtakes>>
<1>1. /\ queue \in Seq(Packet) /\ queue # <<>> /\ IsInjective(queue) /\ queue' = Tail(queue)
      /\ Waiting \cap (Gathered \cup Dumped \cup freed) = {}
      /\ ~ aborted /\ Flags
  BY DEF IInv, TypeOK, Apart, Decode
<1> DEFINE p == Head(queue)
<1>2. /\ p \in Packet /\ p = queue[1] /\ queue' \in Seq(Packet)
      /\ Len(queue) \in Nat \ {0} /\ Len(queue') = Len(queue) - 1
      /\ \A i \in 1 .. Len(queue') : queue'[i] = queue[i + 1]
      /\ Waiting = {p} \cup Waiting'
  BY <1>1, HeadTailElements DEF Waiting
<1>3. IsInjective(queue') /\ p \notin Waiting'
  BY <1>1, TailInjectiveSeq DEF Waiting
<1>4. Skip(p) \/ Begin(p) \/ Continue(p) \/ Gap(p)
  BY DEF Decode
<1>5. UNCHANGED <<unit, left, seq, other, lost, overtakes>>
  BY DEF Decode
<1> HIDE DEF p
<1>6. p \notin Gathered \cup Dumped \cup freed /\ p \in Arrived
  BY <1>1, <1>2 DEF Arrived
<1> QED
  BY <1>1, <1>2, <1>3, <1>4, <1>5, <1>6 DEF p

(* A dumped chain becomes one more of the units.                           *)
LEMMA DumpFacts ==
  ASSUME TypeOK, NEW c \in Seq(Packet), slices' = Append(slices, c)
  PROVE  /\ slices' \in Seq(Seq(Packet)) /\ Len(slices) \in Nat /\ Len(slices') = Len(slices) + 1
         /\ \A i \in 1 .. Len(slices) : slices'[i] = slices[i]
         /\ slices'[Len(slices) + 1] = c
         /\ Dumped' = Dumped \cup ToSet(c)
<1>1. /\ slices' \in Seq(Seq(Packet)) /\ Len(slices) \in Nat /\ Len(slices') = Len(slices) + 1
      /\ \A i \in 1 .. Len(slices) : slices'[i] = slices[i]
      /\ slices'[Len(slices) + 1] = c
  BY AppendElements DEF TypeOK
<1>2. ASSUME NEW x PROVE x \in Dumped' <=> x \in Dumped \/ x \in ToSet(c)
  <2>1. x \in Dumped' <=> \E i \in 1 .. Len(slices') : x \in ToSet(slices'[i])
    BY DEF Dumped
  <2>2. Len(slices) + 1 \in 1 .. Len(slices')
    BY <1>1
  <2>3. \A i \in 1 .. Len(slices') : i \in 1 .. Len(slices) \/ i = Len(slices) + 1
    BY <1>1
  <2>4. \A i \in 1 .. Len(slices) : i \in 1 .. Len(slices')
    BY <1>1
  <2> QED
    BY <1>1, <2>1, <2>2, <2>3, <2>4, DumpedElements
<1> QED
  BY <1>1, <1>2

(* The three ends of an accepted packet.                                   *)
Refuse(p) == aborted' = TRUE /\ UNCHANGED <<slice_chain, slices>>

Gather(p) ==
  /\ slice_chain' = Append(slice_chain, p)
  /\ looking' = FALSE /\ continuing' = TRUE
  /\ UNCHANGED <<slices, aborted>>

Finish(p) ==
  /\ slices' = Append(slices, Append(slice_chain, p))
  /\ slice_chain' = <<>>
  /\ looking' = TRUE /\ continuing' = FALSE
  /\ UNCHANGED aborted

LEMMA AcceptFacts ==
  ASSUME NEW p \in Packet, NEW count \in U32, NEW len \in U32, Accept(p, count, len)
  PROVE  LET total == (count + p.counted) % U32Mod IN
         /\ total \in U32 /\ byte_count' = total /\ pes_len' = len
         /\ last_seq_num' = SeqNum(p) /\ SeqNum(p) \in 0 .. U16Mod - 1
         /\ looking' \in BOOLEAN /\ continuing' \in BOOLEAN
         /\ UNCHANGED <<freed, leaked>>
         /\ \/ total > len /\ Refuse(p)
            \/ total < len /\ Gather(p)
            \/ total = len /\ Finish(p)
<1> DEFINE total == (count + p.counted) % U32Mod
<1>1. total \in U32 /\ SeqNum(p) \in 0 .. U16Mod - 1 /\ len \in Nat
  BY Sizes DEF U32, Packet, SeqNum
<1>2. /\ byte_count' = total /\ pes_len' = len /\ last_seq_num' = SeqNum(p)
      /\ UNCHANGED <<freed, leaked>>
      /\ looking' \in BOOLEAN /\ continuing' \in BOOLEAN
  BY DEF Accept
<1>3. \/ total > len /\ Refuse(p)
      \/ total <= len /\ total # len /\ Gather(p)
      \/ total <= len /\ total = len /\ Finish(p)
  BY DEF Accept, Complete, Refuse, Gather, Finish
<1> HIDE DEF total
<1>4. total \in Nat /\ len \in Nat
  BY <1>1 DEF U32
<1>5. total <= len /\ total # len => total < len
  BY <1>4
<1> QED
  BY <1>1, <1>2, <1>3, <1>5 DEF total

LEMMA AcceptInv ==
  ASSUME IInv, Decode, NEW count \in U32, NEW len \in U32, Accept(Head(queue), count, len)
  PROVE  IInv' /\ Arrived' \subseteq Arrived
<1> DEFINE p == Head(queue)
<1>1. TypeOK /\ Known /\ Apart /\ ~ aborted
  BY DEF IInv, Decode
<1>2. /\ p \in Packet /\ queue' \in Seq(Packet) /\ IsInjective(queue')
      /\ Waiting = {p} \cup Waiting' /\ p \notin Waiting'
      /\ p \notin Gathered \cup Dumped \cup freed /\ p \in Arrived
      /\ UNCHANGED <<unit, left, seq, other, lost, overtakes>>
  BY DecodeFacts
<1>3. Accept(p, count, len)
  OBVIOUS
<1> HIDE DEF p
<1>4. /\ byte_count' \in U32 /\ pes_len' \in U32 /\ last_seq_num' \in 0 .. U16Mod - 1
      /\ looking' \in BOOLEAN /\ continuing' \in BOOLEAN
      /\ UNCHANGED <<freed, leaked>>
      /\ Refuse(p) \/ Gather(p) \/ Finish(p)
  BY <1>2, <1>3, AcceptFacts
<1>5. /\ slice_chain \in Seq(Packet) /\ slices \in Seq(Seq(Packet))
      /\ Append(slice_chain, p) \in Seq(Packet) /\ Append(slice_chain, p) # <<>>
      /\ ToSet(Append(slice_chain, p)) = Gathered \cup {p}
  <2>1. slice_chain \in Seq(Packet) /\ slices \in Seq(Seq(Packet)) /\ p \in Packet
    BY <1>1, <1>2 DEF TypeOK
  <2> QED
    BY <2>1, AppendElements DEF Gathered
<1>6. /\ slice_chain' \in Seq(Packet) /\ slices' \in Seq(Seq(Packet)) /\ aborted' \in BOOLEAN
      /\ Gathered' \cup Dumped' \subseteq Gathered \cup Dumped \cup {p}
      /\ Gathered' \cap Dumped' = {}
      /\ (~ aborted => Flags)'
  <2>1. CASE Refuse(p)
    <3>1. UNCHANGED <<slice_chain, slices>> /\ aborted' = TRUE
      BY <2>1 DEF Refuse
    <3>2. Gathered' = Gathered /\ Dumped' = Dumped
      BY <3>1 DEF Gathered, Dumped
    <3> QED
      BY <1>1, <1>5, <3>1, <3>2 DEF Apart
  <2>2. CASE Gather(p)
    <3>1. Gathered' = Gathered \cup {p} /\ Dumped' = Dumped
      BY <1>5, <2>2 DEF Gather, Gathered, Dumped
    <3>2. Flags'
      BY <1>5, <2>2 DEF Gather, Flags
    <3>3. aborted' = aborted /\ aborted \in BOOLEAN
      BY <1>1, <2>2 DEF Gather, TypeOK
    <3> QED
      BY <1>1, <1>2, <1>5, <2>2, <3>1, <3>2, <3>3 DEF Gather, Apart
  <2>3. CASE Finish(p)
    <3>1. Gathered' = {} /\ slice_chain' = <<>> /\ slice_chain' \in Seq(Packet)
      BY <2>3, EmptyElements DEF Finish, Gathered
    <3>2. slices' \in Seq(Seq(Packet)) /\ Dumped' = Dumped \cup Gathered \cup {p}
      <4>1. slices' = Append(slices, Append(slice_chain, p))
        BY <2>3 DEF Finish
      <4> QED
        BY <1>1, <1>5, <4>1, DumpFacts
    <3>3. Flags'
      BY <2>3, <3>1 DEF Finish, Flags
    <3>4. aborted' = aborted /\ aborted \in BOOLEAN
      BY <1>1, <2>3 DEF Finish, TypeOK
    <3> QED
      BY <3>1, <3>2, <3>3, <3>4
  <2> QED
    BY <1>4, <2>1, <2>2, <2>3
<1>7. Arrived' \subseteq Arrived
  BY <1>2, <1>4, <1>6 DEF Arrived
<1>8. TypeOK'
  BY <1>1, <1>2, <1>4, <1>6 DEF TypeOK
<1>9. Known'
  BY <1>1, <1>2, <1>7 DEF Known
<1>10. Apart'
  BY <1>1, <1>2, <1>4, <1>6 DEF Apart
<1> QED
  BY <1>6, <1>7, <1>8, <1>9, <1>10 DEF IInv

LEMMA SkipInv == ASSUME IInv, Decode, Skip(Head(queue)) PROVE IInv' /\ Arrived' \subseteq Arrived
<1> DEFINE p == Head(queue)
<1>1. TypeOK /\ Known /\ Apart /\ (~ aborted => Flags)
  BY DEF IInv
<1>2. /\ p \in Packet /\ queue' \in Seq(Packet) /\ IsInjective(queue')
      /\ Waiting = {p} \cup Waiting'
      /\ UNCHANGED <<unit, left, seq, other, lost, overtakes>>
  BY DecodeFacts
<1>3. /\ leaked' = leaked \cup {p}
      /\ UNCHANGED <<looking, continuing, pes_len, byte_count, last_seq_num, slice_chain,
                     slices, freed, aborted>>
  BY DEF Skip, f_cblk
<1> HIDE DEF p
<1>4. Gathered' = Gathered /\ Dumped' = Dumped
  BY <1>3 DEF Gathered, Dumped
<1>5. Arrived' \subseteq Arrived
  BY <1>2, <1>3, <1>4 DEF Arrived
<1>6. TypeOK'
  BY <1>1, <1>2, <1>3 DEF TypeOK
<1>7. Known' /\ (~ aborted => Flags)'
  BY <1>1, <1>2, <1>3, <1>5 DEF Known, Flags
<1>8. Apart'
  BY <1>1, <1>2, <1>3, <1>4 DEF Apart
<1> QED
  BY <1>5, <1>6, <1>7, <1>8 DEF IInv

LEMMA GapInv == ASSUME IInv, Decode, Gap(Head(queue)) PROVE IInv' /\ Arrived' \subseteq Arrived
<1> DEFINE p == Head(queue)
<1>1. TypeOK /\ Known /\ Apart
  BY DEF IInv
<1>2. /\ p \in Packet /\ queue' \in Seq(Packet) /\ IsInjective(queue')
      /\ Waiting = {p} \cup Waiting'
      /\ UNCHANGED <<unit, left, seq, other, lost, overtakes>>
  BY DecodeFacts
<1>3. /\ leaked' = leaked \cup {p} /\ freed' = freed \cup Gathered /\ slice_chain' = <<>>
      /\ continuing' = FALSE /\ looking' = TRUE
      /\ UNCHANGED <<pes_len, byte_count, last_seq_num, slices, aborted>>
  BY DEF Gap, DropChain, Gathered
<1> HIDE DEF p
<1>4. Gathered' = {} /\ Dumped' = Dumped /\ slice_chain' \in Seq(Packet)
  BY <1>3, EmptyElements DEF Gathered, Dumped
<1>5. Arrived' \subseteq Arrived
  BY <1>2, <1>3, <1>4 DEF Arrived
<1>6. Gathered \subseteq Packet
  BY <1>1, ToSetElements DEF Gathered, TypeOK
<1>7. TypeOK'
  BY <1>1, <1>2, <1>3, <1>4, <1>6 DEF TypeOK
<1>8. Known' /\ Flags'
  BY <1>1, <1>2, <1>3, <1>5 DEF Known, Flags
<1>9. Apart'
  BY <1>1, <1>2, <1>3, <1>4 DEF Apart
<1> QED
  BY <1>5, <1>7, <1>8, <1>9 DEF IInv

LEMMA BadLengthInv ==
  ASSUME IInv, Decode, NEW len \in U32, BadLength(len)
  PROVE  IInv' /\ Arrived' \subseteq Arrived
<1> DEFINE p == Head(queue)
<1>1. TypeOK /\ Known /\ Apart
  BY DEF IInv
<1>2. /\ p \in Packet /\ queue' \in Seq(Packet) /\ IsInjective(queue')
      /\ Waiting = {p} \cup Waiting'
      /\ UNCHANGED <<unit, left, seq, other, lost, overtakes>>
  BY DecodeFacts
<1>3. /\ pes_len' \in U32 /\ aborted' = TRUE
      /\ UNCHANGED <<looking, continuing, byte_count, last_seq_num, slice_chain, slices, freed,
                     leaked>>
  BY DEF BadLength
<1> HIDE DEF p
<1>4. Gathered' = Gathered /\ Dumped' = Dumped
  BY <1>3 DEF Gathered, Dumped
<1>5. Arrived' \subseteq Arrived
  BY <1>2, <1>3, <1>4 DEF Arrived
<1>6. TypeOK'
  BY <1>1, <1>2, <1>3 DEF TypeOK
<1>7. Known' /\ Apart'
  BY <1>1, <1>2, <1>3, <1>4, <1>5 DEF Known, Apart
<1> QED
  BY <1>3, <1>5, <1>6, <1>7 DEF IInv

(* A packet that is looked into: its unit goes on, or the assert about the *)
(* length fails.                                                           *)
LEMMA Counted ==
  ASSUME TypeOK, NEW p, Begin(p) \/ Continue(p)
  PROVE  \/ \E count \in U32, len \in U32 : Accept(p, count, len)
         \/ \E len \in U32 : BadLength(len)
<1>1. CASE Begin(p)
  BY <1>1, Sizes DEF Begin
<1>2. CASE Continue(p)
  BY <1>2 DEF Continue, TypeOK
<1> QED
  BY <1>1, <1>2

LEMMA DecodeInv == ASSUME IInv, Decode PROVE IInv' /\ Arrived' \subseteq Arrived
<1> DEFINE p == Head(queue)
<1>1. Skip(p) \/ Begin(p) \/ Continue(p) \/ Gap(p)
  BY DecodeFacts
<1>2. CASE Skip(p)
  BY <1>2, SkipInv
<1>3. CASE Begin(p) \/ Continue(p)
  <2>1. \/ \E count \in U32, len \in U32 : Accept(p, count, len)
        \/ \E len \in U32 : BadLength(len)
    BY <1>3, Counted DEF IInv
  <2> QED
    BY <2>1, AcceptInv, BadLengthInv
<1>4. CASE Gap(p)
  BY <1>4, GapInv
<1> QED
  BY <1>1, <1>2, <1>3, <1>4

LEMMA InvNext == IInv /\ [Next]_vars => IInv'
<1> SUFFICES ASSUME IInv, [Next]_vars PROVE IInv'
  OBVIOUS
<1>1. CASE SendStart \/ SendMore
  BY <1>1, SendInv
<1>2. CASE SendOther
  <2>1. TypeOK /\ Known /\ Apart /\ (~ aborted => Flags)
    BY DEF IInv
  <2>2. /\ seq \in Nat /\ seq' = seq + 1 /\ other' \in Nat
        /\ UNCHANGED <<unit, left, queue, lost, overtakes, looking, continuing, pes_len, byte_count,
                       last_seq_num, slice_chain, slices, freed, leaked, aborted>>
    BY <1>2, <2>1 DEF SendOther, f_cblk, TypeOK
  <2>3. Waiting' = Waiting /\ Gathered' = Gathered /\ Dumped' = Dumped /\ Arrived' = Arrived
    BY <2>2 DEF Waiting, Gathered, Dumped, Arrived
  <2>4. TypeOK' /\ Apart' /\ (~ aborted => Flags)'
    BY <2>1, <2>2, <2>3 DEF TypeOK, Apart, Flags
  <2>5. \A p \in Arrived : p.nr \in Nat /\ p.nr < seq
    BY <2>1, ArrivedArePackets DEF Known, Packet
  <2>6. Known'
    BY <2>2, <2>3, <2>5 DEF Known
  <2> QED
    BY <2>4, <2>6 DEF IInv
<1>3. CASE Overtake
  BY <1>3, OvertakeInv
<1>4. CASE Decode
  BY <1>4, DecodeInv
<1>5. CASE UNCHANGED vars
  BY <1>5 DEF vars, network, f_cblk, IInv, TypeOK, Known, Apart, Flags, Arrived, Waiting, Gathered,
              Dumped
<1> QED
  BY <1>1, <1>2, <1>3, <1>4, <1>5 DEF Next

THEOREM DecoderInvariant == Spec => []IInv
BY InvInit, InvNext, PTL DEF Spec

(* While the process lives, the flags and the chain of the LPCM thread     *)
(* agree, and no packet that was freed is in use: for any cut, any loss    *)
(* and any order, and whatever the starts announce.                        *)
THEOREM ChainIsKept == Spec => []ChainKept
<1>1. IInv => ChainKept
  BY DEF IInv, Flags, Apart, ChainKept
<1> QED
  BY <1>1, DecoderInvariant, PTL

-----------------------------------------------------------------------------
(* The sound in a chain is a sum over it.                                  *)
LEMMA SoundIsSum ==
  ASSUME NEW c \in Seq(Packet)
  PROVE  \E g \in [0 .. Len(c) -> Nat] :
            IsSum(g, [i \in 1 .. Len(c) |-> c[i].bytes], Len(c)) /\ Sound(c) = g[Len(c)]
<1> DEFINE h == [i \in 1 .. Len(c) |-> c[i].bytes]
           E(g) == g = [i \in 0 .. Len(c) |-> IF i = 0 THEN 0 ELSE g[i - 1] + c[i].bytes]
           G == CHOOSE g : E(g)
<1>1. Len(c) \in Nat /\ \A i \in 1 .. Len(c) : h[i] \in Nat
  <2>1. \A i \in 1 .. Len(c) : c[i] \in Packet
    BY ElementOfSeq
  <2> QED
    BY <2>1, LenProperties DEF Packet
<1>2. ASSUME NEW g PROVE E(g) <=> IsSum(g, h, Len(c))
  <2>1. \A i \in 0 .. Len(c) : i # 0 => i \in 1 .. Len(c) /\ h[i] = c[i].bytes
    BY <1>1
  <2> HIDE DEF h
  <2>2. [i \in 0 .. Len(c) |-> IF i = 0 THEN 0 ELSE g[i - 1] + c[i].bytes]
        = [i \in 0 .. Len(c) |-> IF i = 0 THEN 0 ELSE g[i - 1] + h[i]]
    BY <2>1
  <2> QED
    BY <2>2 DEF IsSum
<1>3. PICK f \in [0 .. Len(c) -> Nat] : IsSum(f, h, Len(c))
  BY <1>1, SumExists
<1>4. E(f)
  BY <1>2, <1>3
<1> HIDE DEF E, h
<1>5. E(G)
  BY <1>4
<1>6. Sound(c) = G[Len(c)]
  BY DEF Sound, E, G
<1>7. IsSum(G, h, Len(c))
  BY <1>2, <1>5
<1> HIDE DEF G
<1>8. \A i \in 0 .. Len(c) : G[i] = f[i]
  BY <1>1, <1>3, <1>7, SumsAgree
<1>9. Sound(c) = f[Len(c)]
  BY <1>1, <1>6, <1>8
<1> QED
  BY <1>3, <1>9 DEF h

LEMMA SoundOfNone == Sound(<<>>) = 0
<1>1. <<>> \in Seq(Packet) /\ Len(<<>>) = 0
  BY EmptyElements
<1>2. PICK g \in [0 .. 0 -> Nat] : IsSum(g, [i \in 1 .. 0 |-> <<>>[i].bytes], 0) /\ Sound(<<>>) = g[0]
  BY <1>1, SoundIsSum
<1> QED
  BY <1>2 DEF IsSum

LEMMA SoundOfAppend ==
  ASSUME NEW c \in Seq(Packet), NEW p \in Packet
  PROVE  Sound(Append(c, p)) = Sound(c) + p.bytes
<1> DEFINE d == Append(c, p)
           h == [i \in 1 .. Len(c) |-> c[i].bytes]
           k == [i \in 1 .. Len(d) |-> d[i].bytes]
<1>1. /\ d \in Seq(Packet) /\ Len(c) \in Nat /\ Len(d) = Len(c) + 1
      /\ \A i \in 1 .. Len(c) : d[i] = c[i]
      /\ d[Len(c) + 1] = p
  BY AppendElements
<1> HIDE DEF d
<1>2. /\ \A i \in 1 .. Len(c) : h[i] = k[i]
      /\ k[Len(c) + 1] = p.bytes
  BY <1>1
<1> HIDE DEF h, k
<1>3. PICK f \in [0 .. Len(c) -> Nat] : IsSum(f, h, Len(c)) /\ Sound(c) = f[Len(c)]
  BY SoundIsSum DEF h
<1>4. PICK g \in [0 .. Len(d) -> Nat] : IsSum(g, k, Len(d)) /\ Sound(d) = g[Len(d)]
  BY <1>1, SoundIsSum DEF k
<1>5. f[Len(c)] = g[Len(c)]
  <2>1. Len(d) \in Nat /\ Len(c) <= Len(d) /\ Len(c) \in 0 .. Len(c)
    BY <1>1
  <2> QED
    BY <1>1, <1>2, <1>3, <1>4, <2>1, SumsAgree, SMTT(30)
<1>6. g[Len(d)] = g[Len(c)] + p.bytes
  <2>1. \A i \in 0 .. Len(d) : g[i] = IF i = 0 THEN 0 ELSE g[i - 1] + k[i]
    BY <1>4 DEF IsSum
  <2>2. Len(d) \in 0 .. Len(d) /\ Len(d) # 0 /\ Len(d) - 1 = Len(c)
    BY <1>1
  <2> QED
    BY <1>1, <1>2, <2>1, <2>2
<1> QED
  BY <1>3, <1>4, <1>5, <1>6 DEF d

-----------------------------------------------------------------------------
(* The sequence number that is expected next is also that of every packet  *)
(* whole turns of the UINT16 away.  GapsSeen asks of the network that the  *)
(* packet at the head of the queue is no such one.                         *)
NrSeen(p, q) == p.nr + 1 - U16Mod < q.nr /\ q.nr < p.nr + 1 + U16Mod

GapsSeen ==
  queue # <<>> /\ slice_chain # <<>> => NrSeen(slice_chain[Len(slice_chain)], queue[1])

(* What the decoder took off the queue, and all that was sent.             *)
Consumed == Gathered \cup Dumped \cup freed \cup leaked

Sent == Waiting \cup Consumed \cup lost

(* Where a packet ends in its unit, for a source that sends the packets of *)
(* a unit in sequence and leaves no unit unfinished.                       *)
Offsets(off) ==
  /\ \A p \in Arrived :
       /\ ~ p.start => Plain(p)
       /\ p.start => off[p] = p.bytes
       /\ p.nr + 1 = seq => off[p] = UnitBytes - left /\ p.unit = unit
  /\ \A p, q \in Arrived :
       q.nr = p.nr + 1 /\ off[p] < UnitBytes =>
         ~ q.start /\ q.unit = p.unit /\ off[q] = off[p] + q.bytes
  /\ \A p \in Arrived :
       off[p] < UnitBytes /\ p.nr + 1 < seq =>
         \E q \in Sent : q.nr = p.nr + 1 /\ q.unit = p.unit

ChainEnds(off) ==
  slice_chain # <<>> /\ Plain(slice_chain[1]) =>
    LET l == slice_chain[Len(slice_chain)]
    IN  byte_count = off[l] /\ off[l] < UnitBytes /\ last_seq_num = SeqNum(l)

Cut == \E off \in [Arrived -> 1 .. UnitBytes] : Offsets(off) /\ ChainEnds(off)

IsRun(c) ==
  /\ c[1].start
  /\ \A k \in 1 .. Len(c) - 1 : c[k + 1].unit = c[k].unit /\ c[k + 1].nr = c[k].nr + 1

ChainRuns ==
  slice_chain # <<>> =>
    /\ slice_chain[1].start
    /\ Plain(slice_chain[1]) =>
         IsRun(slice_chain) /\ Sound(slice_chain) = byte_count /\ pes_len = UnitBytes

(* For any source; and for one that sends no adaptation field in a start.  *)
CutInv == UnitsAreExact /\ (~ aborted => Cut /\ ChainRuns)

AllPlain == \A p \in Arrived : Plain(p)

UInv == ~ aborted /\ AllPlain /\ CutInv

(* Numbers that follow each other modulo U16Mod, less than that apart, are *)
(* successive.                                                             *)
LEMMA NrStep ==
  ASSUME NEW l \in Nat, NEW f \in Nat, f % U16Mod = ((l % U16Mod) + 1) % U32Mod,
         l + 1 - U16Mod < f, f < l + 1 + U16Mod
  PROVE  f = l + 1
<1>1. U16Mod \in Nat /\ U16Mod > 0 /\ U32Mod \in Nat /\ U16Mod < U32Mod
  BY Sizes
<1>2. \A n \in Nat : n % U16Mod \in 0 .. U16Mod - 1 /\ \E q \in Nat : n = q * U16Mod + (n % U16Mod)
  <2> SUFFICES ASSUME NEW n \in Nat
               PROVE  n % U16Mod \in 0 .. U16Mod - 1 /\ \E q \in Nat : n = q * U16Mod + (n % U16Mod)
    OBVIOUS
  <2>1. n % U16Mod \in 0 .. U16Mod - 1 /\ n \div U16Mod \in Nat
    BY <1>1
  <2>2. n = (n \div U16Mod) * U16Mod + (n % U16Mod)
    BY <1>1
  <2> QED
    BY <2>1, <2>2
<1> DEFINE r == l % U16Mod
           s == f % U16Mod
<1>3. r \in 0 .. U16Mod - 1 /\ s \in 0 .. U16Mod - 1
  BY <1>2
<1>4. s = r + 1
  <2>1. r + 1 \in 0 .. U32Mod - 1
    BY <1>1, <1>3
  <2>2. \A n \in 0 .. U32Mod - 1 : n % U32Mod = n
    BY <1>1
  <2> QED
    BY <2>1, <2>2
<1>5. PICK a \in Nat : l = a * U16Mod + r
  BY <1>2
<1>6. PICK c \in Nat : f = c * U16Mod + s
  BY <1>2
<1> HIDE DEF r, s
<1> DEFINE k == c - a
<1>7. f - (l + 1) = k * U16Mod /\ k \in Int
  <2>1. k * U16Mod = c * U16Mod - a * U16Mod
    BY <1>1
  <2> QED
    BY <1>1, <1>3, <1>4, <1>5, <1>6, <2>1
<1> HIDE DEF k
<1>8. k = 0
  <2>1. k * U16Mod < U16Mod /\ - U16Mod < k * U16Mod
    BY <1>1, <1>7
  <2>2. k >= 1 => k * U16Mod >= U16Mod
    BY <1>1, <1>7
  <2>3. k <= -1 => k * U16Mod <= - U16Mod
    BY <1>1, <1>7
  <2> QED
    BY <1>1, <1>7, <2>1, <2>2, <2>3
<1> QED
  BY <1>1, <1>7, <1>8

LEMMA UnitsInit == Init => UInv
<1> SUFFICES ASSUME Init PROVE UInv
  OBVIOUS
<1>1. Len(slices) = 0 /\ slice_chain = <<>> /\ ~ aborted
  BY EmptyElements DEF Init
<1>2. \A i \in 1 .. 0 : FALSE
  OBVIOUS
<1>3. Arrived = {}
  <2>1. Dumped = {}
    BY <1>1, <1>2, DumpedElements
  <2> QED
    BY <2>1, EmptyElements DEF Init, Arrived, Waiting, Gathered
<1>4. Cut
  <2> DEFINE off == [x \in Arrived |-> 1]
  <2>1. 1 \in 1 .. UnitBytes
    BY Sizes
  <2>2. off \in [Arrived -> 1 .. UnitBytes]
    BY <2>1
  <2>3. Offsets(off) /\ ChainEnds(off)
    BY <1>1, <1>3 DEF Offsets, ChainEnds
  <2> QED
    BY <2>2, <2>3 DEF Cut
<1> QED
  BY <1>1, <1>2, <1>3, <1>4 DEF UInv, AllPlain, CutInv, ChainRuns, UnitsAreExact

(* The ends of the chain have arrived, and so the last has a number.       *)
LEMMA ChainEnd ==
  ASSUME IInv, slice_chain # <<>>
  PROVE  LET l == slice_chain[Len(slice_chain)] IN
         /\ l \in Arrived /\ l \in Packet /\ l.nr \in Nat /\ l.nr < seq
         /\ slice_chain[1] \in Arrived
<1>1. TypeOK /\ Known
  BY DEF IInv
<1>2. Len(slice_chain) \in 1 .. Len(slice_chain) /\ 1 \in 1 .. Len(slice_chain)
  BY <1>1, Lengths
<1>3. slice_chain[Len(slice_chain)] \in Gathered /\ slice_chain[1] \in Gathered
  BY <1>1, <1>2, ToSetElements DEF TypeOK, Gathered
<1> QED
  BY <1>1, <1>3, ArrivedArePackets DEF Arrived, Packet, Known

(* Nothing that was sent is forgotten, unless the assert fails.            *)
LEMMA SendKeeps ==
  ASSUME TypeOK, NEW p \in Packet, Transmit(p)
  PROVE  Sent' = Sent \cup {p} /\ Consumed' = Consumed
<1>1. UNCHANGED <<slice_chain, slices, freed, leaked>>
  BY DEF Transmit, f_cblk
<1>2. Consumed' = Consumed
  BY <1>1 DEF Consumed, Gathered, Dumped
<1>3. CASE queue' = Append(queue, p) /\ UNCHANGED lost
  <2>1. Waiting' = Waiting \cup {p}
    BY <1>3, AppendElements DEF TypeOK, Waiting
  <2> QED
    BY <1>2, <1>3, <2>1 DEF Sent
<1>4. CASE lost' = lost \cup {p} /\ UNCHANGED queue
  <2>1. Waiting' = Waiting
    BY <1>4 DEF Waiting
  <2> QED
    BY <1>2, <1>4, <2>1 DEF Sent
<1> QED
  BY <1>2, <1>3, <1>4 DEF Transmit

LEMMA DecodeKeeps ==
  ASSUME IInv, Decode, ~ aborted'
  PROVE  Sent' = Sent /\ Consumed' = Consumed \cup {Head(queue)}
<1> DEFINE p == Head(queue)
<1>1. /\ p \in Packet /\ Waiting = {p} \cup Waiting' /\ lost' = lost
      /\ Skip(p) \/ Begin(p) \/ Continue(p) \/ Gap(p)
  BY DecodeFacts
<1>2. TypeOK /\ slice_chain \in Seq(Packet)
  BY DEF IInv, TypeOK
<1> HIDE DEF p
<1>3. CASE Skip(p)
  <2>1. leaked' = leaked \cup {p} /\ UNCHANGED <<slice_chain, slices, freed>>
    BY <1>3 DEF Skip, f_cblk
  <2>2. Gathered' = Gathered /\ Dumped' = Dumped
    BY <2>1 DEF Gathered, Dumped
  <2> QED
    BY <1>1, <2>1, <2>2 DEF Sent, Consumed, p
<1>4. CASE Gap(p)
  <2>1. /\ leaked' = leaked \cup {p} /\ freed' = freed \cup Gathered
        /\ slice_chain' = <<>> /\ slices' = slices
    BY <1>4 DEF Gap, DropChain, Gathered
  <2>2. Gathered' = {} /\ Dumped' = Dumped
    BY <2>1, EmptyElements DEF Gathered, Dumped
  <2> QED
    BY <1>1, <2>1, <2>2 DEF Sent, Consumed, p
<1>5. CASE Begin(p) \/ Continue(p)
  <2>1. PICK count \in U32, len \in U32 : Accept(p, count, len)
    BY <1>2, <1>5, Counted DEF BadLength
  <2>2. UNCHANGED <<freed, leaked>> /\ (Refuse(p) \/ Gather(p) \/ Finish(p))
    BY <1>1, <2>1, AcceptFacts
  <2> DEFINE d == Append(slice_chain, p)
  <2>3. d \in Seq(Packet) /\ ToSet(d) = Gathered \cup {p}
    BY <1>1, <1>2, AppendElements DEF Gathered
  <2> HIDE DEF d
  <2>4. CASE Gather(p)
    <3>1. Gathered' = Gathered \cup {p} /\ Dumped' = Dumped
      BY <2>3, <2>4 DEF Gather, Gathered, Dumped, d
    <3> QED
      BY <1>1, <2>2, <3>1 DEF Sent, Consumed, p
  <2>5. CASE Finish(p)
    <3>1. slice_chain' = <<>> /\ slices' = Append(slices, d)
      BY <2>5 DEF Finish, d
    <3>2. Gathered' = {} /\ Dumped' = Dumped \cup Gathered \cup {p}
      BY <1>2, <2>3, <3>1, DumpFacts, EmptyElements DEF Gathered
    <3> QED
      BY <1>1, <2>2, <3>2 DEF Sent, Consumed, p
  <2> QED
    BY <2>2, <2>4, <2>5 DEF Refuse
<1> QED
  BY <1>1, <1>3, <1>4, <1>5

LEMMA SendUnits ==
  ASSUME IInv, CutInv, ~ aborted, SendStart \/ SendMore
  PROVE  CutInv'
<1>1. TypeOK /\ Known
  BY DEF IInv
<1>2. PICK p \in Packet :
        /\ p.nr = seq /\ Transmit(p)
        /\ left' \in 0 .. UnitBytes /\ p.unit = unit'
        /\ p.bytes \in Nat \ {0} /\ (~ p.start => p.counted = p.bytes)
        /\ p.start => left = 0 /\ left' = UnitBytes - p.bytes
        /\ ~ p.start => left > 0 /\ left' = left - p.bytes /\ unit' = unit
  BY <1>1, SendFacts
<1>3. /\ seq' = seq + 1 /\ seq \in Nat /\ left \in 0 .. UnitBytes /\ UnitBytes \in Nat
      /\ UNCHANGED <<pes_len, byte_count, last_seq_num, slice_chain, slices, freed, aborted>>
  BY <1>1, <1>2, Sizes DEF Transmit, f_cblk, TypeOK
<1>4. Arrived' \subseteq Arrived \cup {p}
  <2>1. Gathered' = Gathered /\ Dumped' = Dumped
    BY <1>3 DEF Gathered, Dumped
  <2>2. Waiting' \subseteq Waiting \cup {p}
    <3>1. CASE queue' = Append(queue, p)
      BY <1>1, <3>1, AppendElements DEF TypeOK, Waiting
    <3>2. CASE UNCHANGED queue
      BY <3>2 DEF Waiting
    <3> QED
      BY <1>2, <3>1, <3>2 DEF Transmit
  <2> QED
    BY <1>3, <2>1, <2>2 DEF Arrived
<1>5. \A x \in Arrived : x.nr \in Nat /\ x.nr < seq
  BY <1>1, ArrivedArePackets DEF Known, Packet
<1>6. PICK off \in [Arrived -> 1 .. UnitBytes] : Offsets(off) /\ ChainEnds(off)
  BY DEF CutInv, Cut
<1>7. UnitBytes - left' \in 1 .. UnitBytes
  <2> DEFINE b == p.bytes
  <2>1. b \in Nat \ {0} /\ (left' = UnitBytes - b \/ left' = left - b)
    BY <1>2
  <2>2. left' \in 0 .. UnitBytes /\ left \in 0 .. UnitBytes /\ UnitBytes \in Nat
    BY <1>2, <1>3
  <2> HIDE DEF b
  <2>3. left' \in Int /\ left \in Int /\ UnitBytes \in Int /\ b \in Int
        /\ 0 <= left' /\ left <= UnitBytes /\ 1 <= b
    BY <2>1, <2>2
  <2>4. left' < UnitBytes
    BY <2>1, <2>3
  <2>5. \A n, m \in Int : 0 <= n /\ n < m => m - n \in 1 .. m
    OBVIOUS
  <2> QED
    BY <2>3, <2>4, <2>5
<1>8. PICK new \in [Arrived' -> 1 .. UnitBytes] :
        \A x \in Arrived' : new[x] = IF x = p THEN UnitBytes - left' ELSE off[x]
  <2>1. \A x \in Arrived' : x # p => x \in Arrived
    BY <1>4
  <2>2. [x \in Arrived' |-> IF x = p THEN UnitBytes - left' ELSE off[x]]
          \in [Arrived' -> 1 .. UnitBytes]
    BY <1>6, <1>7, <2>1
  <2> QED
    BY <2>2
<1>9. Offsets(new)'
  <2>1. ASSUME NEW x \in Arrived'
        PROVE  /\ ~ x.start => Plain(x)
               /\ x.start => new[x] = x.bytes
               /\ x.nr + 1 = seq' => new[x] = UnitBytes - left' /\ x.unit = unit'
    <3>1. CASE x = p
      <4>1. p.start => UnitBytes - left' = p.bytes
        BY <1>2, <1>3
      <4>2. ~ p.start => Plain(p)
        BY <1>2 DEF Plain
      <4> QED
        BY <1>2, <1>8, <3>1, <4>1, <4>2
    <3>2. CASE x \in Arrived /\ x # p
      <4>1. x.nr + 1 # seq'
        BY <1>3, <1>5, <3>2
      <4> QED
        BY <1>6, <1>8, <3>2, <4>1 DEF Offsets
    <3> QED
      BY <1>4, <3>1, <3>2
  <2>2. ASSUME NEW x \in Arrived', NEW y \in Arrived', y.nr = x.nr + 1, new[x] < UnitBytes
        PROVE  ~ y.start /\ y.unit = x.unit /\ new[y] = new[x] + y.bytes
    <3>1. CASE x \in Arrived /\ x # p /\ y \in Arrived /\ y # p
      BY <1>6, <1>8, <2>2, <3>1 DEF Offsets
    <3>2. CASE x \in Arrived /\ x # p /\ y = p
      <4>1. off[x] = UnitBytes - left /\ x.unit = unit /\ new[x] = off[x]
        BY <1>2, <1>6, <1>8, <2>2, <3>2 DEF Offsets
      <4>2. left > 0
        BY <1>3, <2>2, <4>1
      <4>3. ~ p.start /\ left' = left - p.bytes /\ unit' = unit
        BY <1>2, <4>2
      <4>4. new[y] = UnitBytes - left'
        BY <1>8, <3>2
      <4> QED
        BY <1>2, <1>3, <3>2, <4>1, <4>3, <4>4
    <3>3. CASE x = p
      <4>1. y.nr = seq + 1 /\ y # p
        BY <1>2, <1>3, <2>2, <3>3
      <4>2. y \in Arrived
        BY <1>4, <4>1
      <4> QED
        BY <1>3, <1>5, <4>1, <4>2
    <3> QED
      BY <1>4, <3>1, <3>2, <3>3
  <2>3. ASSUME NEW x \in Arrived', new[x] < UnitBytes, x.nr + 1 < seq'
        PROVE  \E y \in Sent' : y.nr = x.nr + 1 /\ y.unit = x.unit
    <3>1. Sent' = Sent \cup {p}
      BY <1>1, <1>2, SendKeeps
    <3>2. x \in Arrived /\ x # p
      <4>1. p.nr + 1 = seq'
        BY <1>2, <1>3
      <4> QED
        BY <1>3, <1>4, <2>3, <4>1
    <3>3. new[x] = off[x] /\ x.nr \in Nat /\ x.nr < seq
      BY <1>5, <1>8, <3>2
    <3>4. CASE x.nr + 1 < seq
      BY <1>6, <2>3, <3>1, <3>2, <3>3, <3>4 DEF Offsets
    <3>5. CASE x.nr + 1 = seq
      <4>1. off[x] = UnitBytes - left /\ x.unit = unit
        BY <1>6, <3>2, <3>5 DEF Offsets
      <4>2. left > 0
        BY <1>3, <2>3, <3>3, <4>1
      <4> QED
        BY <1>2, <3>1, <3>5, <4>1, <4>2
    <3> QED
      BY <1>3, <3>3, <3>4, <3>5
  <2> QED
    BY <2>1, <2>2, <2>3 DEF Offsets
<1>10. ChainEnds(new)'
  <2> DEFINE l == slice_chain[Len(slice_chain)]
  <2> SUFFICES ASSUME slice_chain # <<>>, Plain(slice_chain[1])
               PROVE  byte_count = new[l] /\ new[l] < UnitBytes /\ last_seq_num = SeqNum(l)
    BY <1>3 DEF ChainEnds, l
  <2>1. l \in Gathered /\ l \in Arrived /\ l.nr < seq
    <3>1. Len(slice_chain) \in 1 .. Len(slice_chain)
      BY <1>1, Lengths
    <3>2. l \in Gathered
      BY <1>1, <3>1, ToSetElements DEF TypeOK, Gathered
    <3> QED
      BY <3>2, ChainEnd DEF Arrived
  <2>2. l \in Arrived'
    <3>1. Gathered' = Gathered
      BY <1>3 DEF Gathered
    <3> QED
      BY <2>1, <3>1 DEF Arrived
  <2>3. new[l] = off[l]
    BY <1>2, <1>3, <1>8, <2>1, <2>2
  <2> QED
    BY <1>6, <2>3 DEF ChainEnds
<1>11. Cut'
  BY <1>8, <1>9, <1>10 DEF Cut
<1> QED
  BY <1>3, <1>11 DEF CutInv, ChainRuns, UnitsAreExact

(* What no longer is in any place needs no offset.                         *)
LEMMA OffsetsShrink ==
  ASSUME NEW off \in [Arrived -> 1 .. UnitBytes], Offsets(off), Arrived' \subseteq Arrived,
         Sent' = Sent, UNCHANGED <<unit, left, seq>>
  PROVE  \E new \in [Arrived' -> 1 .. UnitBytes] :
           Offsets(new)' /\ \A x \in Arrived' : new[x] = off[x]
<1>1. PICK new \in [Arrived' -> 1 .. UnitBytes] : \A x \in Arrived' : new[x] = off[x]
  <2>1. [x \in Arrived' |-> off[x]] \in [Arrived' -> 1 .. UnitBytes]
    OBVIOUS
  <2> QED
    BY <2>1
<1>2. Offsets(new)'
  BY <1>1 DEF Offsets
<1> QED
  BY <1>1, <1>2

(* A run and the packet behind it.                                         *)
LEMMA RunExtended ==
  ASSUME NEW c \in Seq(Packet), NEW p \in Packet, c # <<>>, IsRun(c),
         p.unit = c[Len(c)].unit, p.nr = c[Len(c)].nr + 1
  PROVE  IsRun(Append(c, p))
<1> DEFINE d == Append(c, p)
<1>1. /\ Len(c) \in Nat \ {0} /\ Len(d) = Len(c) + 1
      /\ \A i \in 1 .. Len(c) : d[i] = c[i]
      /\ d[Len(c) + 1] = p
  BY AppendElements, EmptyElements
<1> HIDE DEF d
<1>2. d[1].start
  BY <1>1 DEF IsRun
<1>3. ASSUME NEW k \in 1 .. Len(d) - 1
      PROVE  d[k + 1].unit = d[k].unit /\ d[k + 1].nr = d[k].nr + 1
  <2>1. CASE k = Len(c)
    BY <1>1, <2>1
  <2>2. CASE k \in 1 .. Len(c) - 1
    <3>1. d[k] = c[k] /\ d[k + 1] = c[k + 1]
      BY <1>1, <2>2
    <3> QED
      BY <2>2, <3>1 DEF IsRun
  <2> QED
    BY <1>1, <2>1, <2>2
<1> QED
  BY <1>2, <1>3 DEF IsRun, d

(* One unit among those that are dumped.                                   *)
IsUnit(c) ==
  /\ c[1].start
  /\ Plain(c[1]) =>
       /\ Sound(c) = UnitBytes
       /\ \A k \in 1 .. Len(c) - 1 : c[k + 1].unit = c[k].unit /\ c[k + 1].nr = c[k].nr + 1

LEMMA OneMoreUnit ==
  ASSUME UnitsAreExact, NEW d, IsUnit(d), Len(slices) \in Nat, Len(slices') = Len(slices) + 1,
         \A i \in 1 .. Len(slices) : slices'[i] = slices[i], slices'[Len(slices) + 1] = d
  PROVE  UnitsAreExact'
<1>1. \A i \in 1 .. Len(slices) : IsUnit(slices[i])
  BY DEF UnitsAreExact, IsUnit
<1>2. \A i \in 1 .. Len(slices') : i \in 1 .. Len(slices) \/ i = Len(slices) + 1
  OBVIOUS
<1>3. \A i \in 1 .. Len(slices') : IsUnit(slices'[i])
  BY <1>1, <1>2
<1> QED
  BY <1>3 DEF UnitsAreExact, IsUnit, Plain

(* A packet that comes where it should is gathered or makes up the unit.   *)
LEMMA AcceptUnits ==
  ASSUME IInv, CutInv, Decode, NEW p, p = Head(queue), NEW count \in U32,
         Accept(p, count, UnitBytes), Plain(p),
         NEW off \in [Arrived -> 1 .. UnitBytes], Offsets(off), off[p] = count + p.bytes,
         Sound(slice_chain) = count, IsRun(Append(slice_chain, p))
  PROVE  CutInv' /\ ~ aborted'
<1>1. TypeOK /\ ~ aborted /\ UnitsAreExact
  BY DEF IInv, CutInv, Decode
<1>2. p \in Packet /\ p \in Arrived /\ UNCHANGED <<unit, left, seq>> /\ Arrived' \subseteq Arrived
  BY DecodeFacts, DecodeInv
<1>3. count + p.counted = off[p] /\ off[p] \in 1 .. UnitBytes
  BY <1>2 DEF Plain
<1>4. (count + p.counted) % U32Mod = off[p]
  <2>1. \A n \in 0 .. U32Mod - 1 : n % U32Mod = n
    BY Sizes
  <2>2. off[p] \in 0 .. U32Mod - 1
    BY <1>3, Sizes
  <2> QED
    BY <1>3, <2>1, <2>2
<1>5. /\ byte_count' = off[p] /\ pes_len' = UnitBytes /\ last_seq_num' = SeqNum(p)
      /\ \/ off[p] > UnitBytes /\ Refuse(p)
         \/ off[p] < UnitBytes /\ Gather(p)
         \/ off[p] = UnitBytes /\ Finish(p)
  <2>1. UnitBytes \in U32
    BY Sizes DEF U32
  <2> QED
    BY <1>2, <1>4, <2>1, AcceptFacts
<1>6. ~ (off[p] > UnitBytes)
  BY <1>3, Sizes
<1> DEFINE d == Append(slice_chain, p)
<1>7. /\ d \in Seq(Packet) /\ d # <<>> /\ Len(d) \in Nat \ {0} /\ d[Len(d)] = p
      /\ p \in ToSet(d)
      /\ IsRun(d) /\ Sound(d) = off[p]
  <2>1. slice_chain \in Seq(Packet)
    BY <1>1 DEF TypeOK
  <2>2. /\ d \in Seq(Packet) /\ d # <<>> /\ Len(d) \in Nat \ {0} /\ d[Len(d)] = p
        /\ p \in ToSet(d)
    BY <1>2, <2>1, AppendElements
  <2>3. Sound(d) = off[p]
    BY <1>2, <2>1, SoundOfAppend
  <2> QED
    BY <2>2, <2>3
<1>8. PICK new \in [Arrived' -> 1 .. UnitBytes] :
        Offsets(new)' /\ \A x \in Arrived' : new[x] = off[x]
  <2>1. ~ aborted'
    BY <1>1, <1>5, <1>6 DEF Gather, Finish
  <2>2. Sent' = Sent
    BY <2>1, DecodeKeeps
  <2> QED
    BY <1>2, <2>2, OffsetsShrink
<1> HIDE DEF d
<1>9. CASE off[p] < UnitBytes /\ Gather(p)
  <2>1. slice_chain' = d /\ UNCHANGED <<slices, aborted>>
    BY <1>9 DEF Gather, d
  <2>2. p \in Arrived'
    BY <1>7, <2>1 DEF Arrived, Gathered
  <2>3. ChainEnds(new)'
    BY <1>5, <1>7, <1>8, <1>9, <2>1, <2>2 DEF ChainEnds
  <2>4. ChainRuns'
    <3>1. d[1].start
      BY <1>7 DEF IsRun
    <3> QED
      BY <1>5, <1>7, <2>1, <3>1 DEF ChainRuns
  <2>5. Cut'
    BY <1>8, <2>3 DEF Cut
  <2>6. UnitsAreExact'
    BY <1>1, <2>1 DEF UnitsAreExact
  <2> QED
    BY <1>1, <2>1, <2>4, <2>5, <2>6 DEF CutInv
<1>10. CASE off[p] = UnitBytes /\ Finish(p)
  <2>1. slice_chain' = <<>> /\ UNCHANGED aborted /\ slices' = Append(slices, d)
    BY <1>10 DEF Finish, d
  <2>2. /\ Len(slices) \in Nat /\ Len(slices') = Len(slices) + 1
        /\ \A i \in 1 .. Len(slices) : slices'[i] = slices[i]
        /\ slices'[Len(slices) + 1] = d
    BY <1>1, <1>7, <2>1, DumpFacts
  <2>3. UnitsAreExact'
    <3>1. IsUnit(d)
      BY <1>7, <1>10 DEF IsUnit, IsRun
    <3> QED
      BY <1>1, <2>2, <3>1, OneMoreUnit
  <2> QED
    BY <1>1, <1>8, <2>1, <2>3 DEF CutInv, Cut, ChainEnds, ChainRuns
<1> QED
  BY <1>5, <1>6, <1>9, <1>10

(* Of a unit that starts with an adaptation field no more is known than    *)
(* that it is the start the chain begins with.                             *)
LEMMA AcceptLoosely ==
  ASSUME IInv, CutInv, Decode, NEW p, p = Head(queue), NEW count \in U32, NEW len \in U32,
         Accept(p, count, len),
         LET f == Append(slice_chain, p)[1] IN f.start /\ ~ Plain(f)
  PROVE  CutInv'
<1>1. TypeOK /\ ~ aborted /\ UnitsAreExact /\ slice_chain \in Seq(Packet)
  BY DEF IInv, TypeOK, CutInv, Decode
<1>2. p \in Packet /\ UNCHANGED <<unit, left, seq>> /\ Arrived' \subseteq Arrived
  BY DecodeFacts, DecodeInv
<1>3. Refuse(p) \/ Gather(p) \/ Finish(p)
  BY <1>2, AcceptFacts
<1> DEFINE d == Append(slice_chain, p)
<1>4. d \in Seq(Packet) /\ d[1].start /\ ~ Plain(d[1])
  BY <1>1, <1>2, AppendElements
<1>5. ~ aborted' => \E new \in [Arrived' -> 1 .. UnitBytes] : Offsets(new)'
  BY <1>1, <1>2, DecodeKeeps, OffsetsShrink DEF CutInv, Cut
<1> HIDE DEF d
<1>6. CASE Refuse(p)
  BY <1>1, <1>6 DEF Refuse, CutInv, UnitsAreExact
<1>7. CASE Gather(p)
  <2>1. slice_chain' = d /\ UNCHANGED slices
    BY <1>7 DEF Gather, d
  <2> QED
    BY <1>1, <1>4, <1>5, <2>1 DEF CutInv, Cut, ChainEnds, ChainRuns, UnitsAreExact
<1>8. CASE Finish(p)
  <2>1. slice_chain' = <<>> /\ slices' = Append(slices, d)
    BY <1>8 DEF Finish, d
  <2>2. /\ Len(slices) \in Nat /\ Len(slices') = Len(slices) + 1
        /\ \A i \in 1 .. Len(slices) : slices'[i] = slices[i]
        /\ slices'[Len(slices) + 1] = d
    BY <1>1, <1>4, <2>1, DumpFacts
  <2>3. UnitsAreExact'
    BY <1>1, <1>4, <2>2, OneMoreUnit DEF IsUnit
  <2> QED
    BY <1>5, <2>1, <2>3 DEF CutInv, Cut, ChainEnds, ChainRuns
<1> QED
  BY <1>3, <1>6, <1>7, <1>8

LEMMA DecodeUnits ==
  ASSUME ~ ZeroLength, IInv, CutInv, GapsSeen, Decode
  PROVE  CutInv' /\ (Plain(UnitStart) => ~ aborted')
<1> DEFINE p == Head(queue)
<1>1. TypeOK /\ ~ aborted /\ UnitsAreExact /\ ChainRuns /\ Flags
  BY DecodeFacts DEF IInv, CutInv
<1>2. /\ p \in Packet /\ p \in Arrived /\ p = queue[1] /\ queue # <<>>
      /\ UNCHANGED <<unit, left, seq>> /\ Arrived' \subseteq Arrived
      /\ Skip(p) \/ Begin(p) \/ Continue(p) \/ Gap(p)
  BY DecodeFacts, DecodeInv
<1>3. PICK off \in [Arrived -> 1 .. UnitBytes] : Offsets(off) /\ ChainEnds(off)
  BY <1>1 DEF CutInv, Cut
<1>4. ~ aborted' => \E new \in [Arrived' -> 1 .. UnitBytes] : Offsets(new)'
  <2> SUFFICES ASSUME ~ aborted' PROVE \E new \in [Arrived' -> 1 .. UnitBytes] : Offsets(new)'
    OBVIOUS
  <2>1. Sent' = Sent
    BY DecodeKeeps
  <2> QED
    BY <1>2, <1>3, <2>1, OffsetsShrink
<1>5. slice_chain \in Seq(Packet) /\ byte_count \in U32 /\ UnitBytes \in Nat
  BY <1>1, Sizes DEF TypeOK
<1>6. CASE Skip(p)
  <2>1. slice_chain = <<>> /\ UNCHANGED <<slice_chain, slices, aborted>>
    BY <1>1, <1>6 DEF Skip, Flags, f_cblk
  <2> QED
    BY <1>1, <1>4, <2>1 DEF CutInv, Cut, ChainEnds, ChainRuns, UnitsAreExact
<1>7. CASE Begin(p) /\ Plain(p)
  <2>1. p.start /\ slice_chain = <<>> /\ Accept(p, 0, UnitBytes)
    BY <1>1, <1>7 DEF Begin, Starting, Flags, PesLen, Announced, Admitted, Plain
  <2>2. off[p] = 0 + p.bytes /\ 0 \in U32
    <3>1. off[p] = p.bytes /\ p.bytes \in Nat
      BY <1>2, <1>3, <2>1 DEF Offsets, Packet
    <3> QED
      BY <3>1, Sizes DEF U32
  <2>3. Sound(slice_chain) = 0
    BY <2>1, SoundOfNone
  <2>4. IsRun(Append(slice_chain, p))
    <3> DEFINE d == Append(slice_chain, p)
    <3>1. Len(slice_chain) = 0
      BY <2>1, EmptyElements
    <3>2. Len(d) = 1 /\ d[1] = p
      BY <1>2, <1>5, <3>1, AppendElements
    <3>3. \A k \in 1 .. 1 - 1 : FALSE
      OBVIOUS
    <3> HIDE DEF d
    <3>4. IsRun(d)
      BY <2>1, <3>2, <3>3 DEF IsRun
    <3> QED
      BY <3>4 DEF d
  <2> HIDE DEF p
  <2> QED
    BY <1>3, <1>7, <2>1, <2>2, <2>3, <2>4, AcceptUnits DEF p
<1>8. CASE Begin(p) /\ ~ Plain(p)
  <2>1. p.start /\ slice_chain = <<>>
    BY <1>1, <1>8 DEF Begin, Starting, Flags
  <2>2. PICK len \in U32 : Accept(p, 0, len) \/ BadLength(len)
    BY <1>8, Sizes DEF Begin
  <2>3. Append(slice_chain, p)[1] = p
    <3>1. Len(slice_chain) = 0
      BY <2>1, EmptyElements
    <3> QED
      BY <1>2, <1>5, <3>1, AppendElements
  <2>4. CASE Accept(p, 0, len)
    <3>1. 0 \in U32
      BY Sizes
    <3> HIDE DEF p
    <3> QED
      BY <1>8, <2>1, <2>3, <2>4, <3>1, AcceptLoosely DEF p, UnitStart
  <2>5. CASE BadLength(len)
    BY <1>1, <1>8, <2>1, <2>5 DEF BadLength, CutInv, UnitsAreExact, UnitStart
  <2> QED
    BY <2>2, <2>4, <2>5
<1>9. CASE Continue(p) /\ ~ Plain(slice_chain[1])
  <2>1. slice_chain # <<>> /\ Accept(p, byte_count, pes_len) /\ slice_chain[1].start
        /\ pes_len \in U32
    BY <1>1, <1>9 DEF Continue, Flags, ChainRuns, TypeOK
  <2>2. Append(slice_chain, p)[1] = slice_chain[1]
    <3>1. 1 \in 1 .. Len(slice_chain)
      BY <1>1, <2>1, Lengths
    <3> QED
      BY <1>2, <1>5, <3>1, AppendElements
  <2> HIDE DEF p
  <2> QED
    BY <1>5, <1>9, <2>1, <2>2, AcceptLoosely DEF p, UnitStart
<1>10. CASE Continue(p) /\ Plain(slice_chain[1])
  <2> DEFINE l == slice_chain[Len(slice_chain)]
  <2>1. InSequence(p) /\ slice_chain # <<>> /\ Accept(p, byte_count, UnitBytes)
        /\ IsRun(slice_chain) /\ Sound(slice_chain) = byte_count
    BY <1>1, <1>10 DEF Continue, Flags, ChainRuns
  <2>2. l \in Arrived /\ l.nr \in Nat /\ p.nr \in Nat
    BY <1>2, <2>1, ChainEnd DEF Packet
  <2>3. byte_count = off[l] /\ off[l] < UnitBytes /\ last_seq_num = SeqNum(l)
    BY <1>3, <1>10, <2>1 DEF ChainEnds
  <2>4. p.nr = l.nr + 1
    <3>1. p.nr % U16Mod = ((l.nr % U16Mod) + 1) % U32Mod
      BY <2>1, <2>3 DEF InSequence, SeqNum
    <3>2. l.nr + 1 - U16Mod < p.nr /\ p.nr < l.nr + 1 + U16Mod
      BY <1>2, <2>1 DEF GapsSeen, NrSeen
    <3> HIDE DEF l, p
    <3> QED
      BY <2>2, <3>1, <3>2, NrStep
  <2>5. ~ p.start /\ p.unit = l.unit /\ off[p] = byte_count + p.bytes
    BY <1>2, <1>3, <2>2, <2>3, <2>4 DEF Offsets
  <2>6. Plain(p)
    BY <1>2, <1>3, <2>5 DEF Offsets
  <2>7. IsRun(Append(slice_chain, p))
    BY <1>2, <1>5, <2>1, <2>4, <2>5, RunExtended
  <2> HIDE DEF p
  <2> QED
    BY <1>3, <1>5, <2>1, <2>5, <2>6, <2>7, AcceptUnits DEF p
<1>11. CASE Gap(p)
  <2>1. slice_chain' = <<>> /\ UNCHANGED <<slices, aborted>>
    BY <1>11 DEF Gap, DropChain
  <2> QED
    BY <1>1, <1>4, <2>1 DEF CutInv, Cut, ChainEnds, ChainRuns, UnitsAreExact
<1> QED
  BY <1>2, <1>6, <1>7, <1>8, <1>9, <1>10, <1>11

LEMMA CutNext ==
  ASSUME ~ ZeroLength, IInv, CutInv, GapsSeen, [Next]_vars
  PROVE  CutInv'
<1>0. CASE aborted
  <2>1. UNCHANGED <<slices, aborted>>
    BY <1>0 DEF Next, SendStart, SendMore, SendOther, Overtake, Decode, Transmit, vars
  <2> QED
    BY <1>0, <2>1 DEF CutInv, UnitsAreExact
<1> SUFFICES ASSUME ~ aborted PROVE CutInv'
  BY <1>0
<1>1. CASE SendStart \/ SendMore
  BY <1>1, SendUnits
<1>2. CASE SendOther
  <2>1. /\ seq' = seq + 1 /\ seq \in Nat
        /\ UNCHANGED <<unit, left, queue, pes_len, byte_count, last_seq_num, slice_chain, slices,
                       freed, aborted>>
    BY <1>2 DEF SendOther, f_cblk, IInv, TypeOK
  <2>2. Arrived' = Arrived
    BY <2>1 DEF Arrived, Waiting, Gathered, Dumped
  <2>3. \A x \in Arrived : x.nr \in Nat /\ x.nr < seq
    BY ArrivedArePackets DEF IInv, Known, Packet
  <2>4. PICK off \in [Arrived -> 1 .. UnitBytes] : Offsets(off) /\ ChainEnds(off)
    BY DEF CutInv, Cut
  <2>5. \A x \in Arrived : x.nr + 1 # seq'
    BY <2>1, <2>3
  <2>6. Offsets(off)' /\ ChainEnds(off)'
    <3>1. Sent' = Sent
      BY <1>2, <2>1 DEF SendOther, Sent, Consumed, Waiting, Gathered, Dumped
    <3>2. ASSUME NEW x \in Arrived, off[x] < UnitBytes, x.nr + 1 < seq'
          PROVE  \E y \in Sent' : y.nr = x.nr + 1 /\ y.unit = x.unit
      <4>1. x.nr + 1 # seq
        <5>1. x.nr + 1 = seq => off[x] = UnitBytes - left
          BY <2>4 DEF Offsets
        <5>2. left = 0 /\ UnitBytes \in Nat
          BY <1>2, Sizes DEF SendOther
        <5> QED
          BY <3>2, <5>1, <5>2
      <4>2. x.nr + 1 < seq
        BY <2>1, <2>3, <3>2, <4>1
      <4> QED
        BY <2>4, <3>1, <3>2, <4>2 DEF Offsets
    <3> QED
      BY <2>1, <2>2, <2>4, <2>5, <3>2 DEF Offsets, ChainEnds
  <2>7. Cut'
    BY <2>2, <2>6 DEF Cut
  <2> QED
    BY <2>1, <2>7 DEF CutInv, ChainRuns, UnitsAreExact
<1>3. CASE Overtake \/ UNCHANGED vars
  <2>1. /\ UNCHANGED <<unit, left, seq, pes_len, byte_count, last_seq_num, slice_chain, slices,
                       aborted>>
    BY <1>3 DEF Overtake, vars, network, f_cblk
  <2>2. Arrived' = Arrived
    <3>1. CASE Overtake
      BY <3>1, OvertakeInv
    <3>2. CASE UNCHANGED vars
      BY <3>2 DEF vars, network, f_cblk, Arrived, Waiting, Gathered, Dumped
    <3> QED
      BY <1>3, <3>1, <3>2
  <2>3. Sent' = Sent
    <3>1. CASE Overtake
      <4>1. Waiting' = Waiting
        BY <3>1, OvertakeInv
      <4> QED
        BY <3>1, <4>1 DEF Overtake, f_cblk, Sent, Consumed, Gathered, Dumped
    <3>2. CASE UNCHANGED vars
      BY <3>2 DEF vars, network, f_cblk, Sent, Consumed, Waiting, Gathered, Dumped
    <3> QED
      BY <1>3, <3>1, <3>2
  <2> QED
    BY <2>1, <2>2, <2>3 DEF CutInv, Cut, Offsets, ChainEnds, ChainRuns, UnitsAreExact
<1>4. CASE Decode
  BY <1>4, DecodeUnits
<1> QED
  BY <1>1, <1>2, <1>3, <1>4 DEF Next

LEMMA PlainNext ==
  ASSUME Stuffing \subseteq {0}, IInv, AllPlain, [Next]_vars
  PROVE  AllPlain'
<1>1. CASE SendStart \/ SendMore
  <2>1. PICK p \in Packet : Transmit(p) /\ p.counted = p.bytes
    BY <1>1, SendFacts DEF IInv
  <2>2. Gathered' = Gathered /\ Dumped' = Dumped /\ freed' = freed
    BY <2>1 DEF Transmit, f_cblk, Gathered, Dumped
  <2>3. Waiting' \subseteq Waiting \cup {p}
    <3>1. CASE queue' = Append(queue, p)
      BY <3>1, AppendElements DEF IInv, TypeOK, Waiting
    <3>2. CASE UNCHANGED queue
      BY <3>2 DEF Waiting
    <3> QED
      BY <2>1, <3>1, <3>2 DEF Transmit
  <2>4. Arrived' \subseteq Arrived \cup {p}
    BY <2>2, <2>3 DEF Arrived
  <2>5. Plain(p)
    BY <2>1 DEF Plain
  <2> QED
    BY <2>4, <2>5 DEF AllPlain
<1>2. CASE Overtake
  BY <1>2, OvertakeInv DEF AllPlain
<1>3. CASE Decode
  BY <1>3, DecodeInv DEF AllPlain
<1>4. CASE SendOther \/ UNCHANGED vars
  BY <1>4 DEF SendOther, vars, network, f_cblk, AllPlain, Arrived, Waiting, Gathered, Dumped
<1> QED
  BY <1>1, <1>2, <1>3, <1>4 DEF Next

LEMMA UnitsNext ==
  ASSUME Stuffing \subseteq {0}, ~ ZeroLength, IInv, UInv, GapsSeen, [Next]_vars
  PROVE  UInv'
<1>1. CutInv' /\ AllPlain'
  BY CutNext, PlainNext DEF UInv
<1>2. ~ aborted'
  <2>1. CASE Decode
    <3>1. queue # <<>> /\ Head(queue) \in Arrived
      BY <2>1, DecodeFacts
    <3>2. Plain(UnitStart)
      BY <3>1, ChainEnd DEF UInv, AllPlain, UnitStart
    <3> QED
      BY <2>1, <3>2, DecodeUnits DEF UInv
  <2>2. CASE ~ Decode
    BY <2>2 DEF UInv, Next, SendStart, SendMore, SendOther, Overtake, Transmit, vars
  <2> QED
    BY <2>1, <2>2
<1> QED
  BY <1>1, <1>2 DEF UInv

(* If no two packets that meet in the decoder are 2^16 numbers apart, what *)
(* reaches the scheduler begins with a start and, unless that start had an *)
(* adaptation field, is exactly one unit: for any cut, any loss and any    *)
(* order, and whatever the fields make of the lengths of other units.      *)
THEOREM UnitsIfGapsSeen ==
  ASSUME ~ ZeroLength
  PROVE  Spec /\ []GapsSeen => []UnitsAreExact
<1>1. Init => CutInv
  BY UnitsInit DEF UInv
<1>2. IInv /\ CutInv /\ GapsSeen /\ [Next]_vars => CutInv'
  BY CutNext
<1>3. CutInv => UnitsAreExact
  BY DEF CutInv
<1> QED
  BY <1>1, <1>2, <1>3, DecoderInvariant, PTL DEF Spec

(* The asserts about the length and the byte count fail in no unit whose   *)
(* start has no adaptation field: for any cut, any loss and any order, and *)
(* whatever the fields did to the units before it.                         *)
THEOREM AbortsNeedAField ==
  ASSUME ~ ZeroLength
  PROVE  Spec /\ []GapsSeen => AbortsOnlyOnField
<1>1. Init => CutInv
  BY UnitsInit DEF UInv
<1>2. IInv /\ CutInv /\ GapsSeen /\ [Next]_vars => CutInv'
  BY CutNext
<1>3. IInv /\ CutInv /\ GapsSeen /\ [Next]_vars =>
        [aborted' /\ ~ aborted => ~ Plain(UnitStart)]_vars
  <2> SUFFICES ASSUME IInv, CutInv, GapsSeen, Next, aborted', ~ aborted, Plain(UnitStart)
               PROVE  FALSE
    OBVIOUS
  <2>1. CASE Decode
    BY <2>1, DecodeUnits
  <2>2. CASE ~ Decode
    BY <2>2 DEF Next, SendStart, SendMore, SendOther, Overtake, Transmit
  <2> QED
    BY <2>1, <2>2
<1> QED
  BY <1>1, <1>2, <1>3, DecoderInvariant, PTL DEF Spec, AbortsOnlyOnField

-----------------------------------------------------------------------------
(* When GapsSeen holds.  While packets arrive in order, a gap between the  *)
(* chain and the queue, or inside the queue, or behind it, is made of lost *)
(* packets and of packets of other kinds alone.                            *)
Between(L, l, f) == {p \in L : l < p.nr /\ p.nr < f}

Wide(L, o, l, f) == l < f /\ f - l - 1 <= Cardinality(Between(L, l, f)) + o

LastBefore(i) == IF i = 1 THEN slice_chain[Len(slice_chain)].nr ELSE queue[i - 1].nr

HasBefore(i) == i > 1 \/ slice_chain # <<>>

LostKnown ==
  /\ IsFiniteSet(lost) /\ Cardinality(lost) <= MaxLost /\ other <= MaxOther
  /\ \A p \in lost : p.nr < seq

GapsCounted ==
  /\ \A i \in 1 .. Len(queue) : HasBefore(i) => Wide(lost, other, LastBefore(i), queue[i].nr)
  /\ HasBefore(Len(queue) + 1) => Wide(lost, other, LastBefore(Len(queue) + 1), seq)

GInv == LostKnown /\ (overtakes = 0 /\ ~ aborted => GapsCounted)

LEMMA BetweenFinite ==
  ASSUME NEW L, IsFiniteSet(L), NEW l, NEW f
  PROVE  IsFiniteSet(Between(L, l, f)) /\ Cardinality(Between(L, l, f)) \in Nat
<1>1. Between(L, l, f) \subseteq L
  BY DEF Between
<1> QED
  BY <1>1, FS_Subset, FS_CardinalityType

(* A packet lost later makes no earlier gap too long, and makes the last   *)
(* one longer by one; so does a packet of another kind.                    *)
LEMMA WideKept ==
  ASSUME NEW L, IsFiniteSet(L), NEW p, NEW l \in Nat, NEW f \in Nat, NEW o \in Nat,
         Wide(L, o, l, f)
  PROVE  Wide(L \cup {p}, o, l, f)
<1> DEFINE A == Between(L, l, f)
           B == Between(L \cup {p}, l, f)
<1>1. IsFiniteSet(L \cup {p})
  BY FS_AddElement
<1>2. A \subseteq B
  BY DEF Between
<1>3. IsFiniteSet(B) /\ Cardinality(B) \in Nat /\ Cardinality(A) \in Nat
  BY <1>1, BetweenFinite
<1>4. Cardinality(A) <= Cardinality(B)
  BY <1>2, <1>3, FS_Subset
<1>5. l < f /\ f - l - 1 <= Cardinality(A) + o
  BY DEF Wide
<1> HIDE DEF A, B
<1>6. f - l - 1 <= Cardinality(B) + o
  BY <1>3, <1>4, <1>5
<1> QED
  BY <1>5, <1>6 DEF Wide, B

LEMMA WideGrows ==
  ASSUME NEW L, IsFiniteSet(L), \A x \in L : x.nr \in Nat,
         NEW p, NEW l \in Nat, NEW f \in Nat, NEW o \in Nat, Wide(L, o, l, f),
         p \notin L, p.nr = f
  PROVE  Wide(L \cup {p}, o, l, f + 1)
<1> DEFINE A == Between(L, l, f)
           B == Between(L \cup {p}, l, f + 1)
<1>1. IsFiniteSet(L \cup {p})
  BY FS_AddElement
<1>2. IsFiniteSet(A) /\ Cardinality(A) \in Nat /\ IsFiniteSet(B) /\ Cardinality(B) \in Nat
  BY <1>1, BetweenFinite
<1>3. A \cup {p} \subseteq B
  <2>1. p \in B
    BY DEF Between, Wide
  <2>2. ASSUME NEW x \in A PROVE x \in B
    <3>1. x \in L /\ x.nr \in Nat /\ l < x.nr /\ x.nr < f
      BY DEF Between
    <3>2. x.nr < f + 1
      BY <3>1
    <3> QED
      BY <3>1, <3>2 DEF Between
  <2> QED
    BY <2>1, <2>2
<1>4. Cardinality(A \cup {p}) = Cardinality(A) + 1
  <2>1. p \notin A
    BY DEF Between
  <2> QED
    BY <1>2, <2>1, FS_AddElement
<1>5. Cardinality(A) + 1 <= Cardinality(B)
  <2>1. Cardinality(A \cup {p}) <= Cardinality(B)
    BY <1>2, <1>3, FS_Subset
  <2> QED
    BY <1>4, <2>1
<1>6. l < f /\ f - l - 1 <= Cardinality(A) + o
  BY DEF Wide
<1> HIDE DEF A, B
<1>7. l < f + 1 /\ f + 1 - l - 1 <= Cardinality(B) + o
  BY <1>2, <1>5, <1>6
<1> QED
  BY <1>7 DEF Wide, B

LEMMA WideOther ==
  ASSUME NEW L, IsFiniteSet(L), \A x \in L : x.nr \in Nat,
         NEW l \in Nat, NEW f \in Nat, NEW o \in Nat, Wide(L, o, l, f)
  PROVE  Wide(L, o + 1, l, f) /\ Wide(L, o + 1, l, f + 1)
<1> DEFINE A == Between(L, l, f)
           B == Between(L, l, f + 1)
<1>1. IsFiniteSet(A) /\ Cardinality(A) \in Nat /\ IsFiniteSet(B) /\ Cardinality(B) \in Nat
  BY BetweenFinite
<1>2. A \subseteq B
  <2> SUFFICES ASSUME NEW x \in A PROVE x \in B
    OBVIOUS
  <2>1. x \in L /\ x.nr \in Nat /\ l < x.nr /\ x.nr < f
    BY DEF Between
  <2>2. x.nr < f + 1
    BY <2>1
  <2> QED
    BY <2>1, <2>2 DEF Between
<1>3. Cardinality(A) <= Cardinality(B)
  BY <1>1, <1>2, FS_Subset
<1>4. l < f /\ f - l - 1 <= Cardinality(A) + o
  BY DEF Wide
<1> HIDE DEF A, B
<1>5. f - l - 1 <= Cardinality(A) + (o + 1) /\ f + 1 - l - 1 <= Cardinality(B) + (o + 1) /\ l < f + 1
  BY <1>1, <1>3, <1>4
<1> QED
  BY <1>4, <1>5 DEF Wide, A, B

LEMMA GapsInit == Init => GInv
<1> SUFFICES ASSUME Init PROVE GInv
  OBVIOUS
<1>1. Len(queue) = 0 /\ slice_chain = <<>> /\ lost = {} /\ other = 0
  BY EmptyElements DEF Init
<1>2. \A i \in 1 .. 0 : FALSE
  OBVIOUS
<1>3. LostKnown
  BY <1>1, FS_EmptySet, ConstantsAssumption DEF LostKnown
<1>4. GapsCounted
  BY <1>1, <1>2 DEF GapsCounted, HasBefore
<1> QED
  BY <1>3, <1>4 DEF GInv

(* The ends between which the gaps lie are sequence numbers.               *)
LEMMA EndsAreNat ==
  ASSUME IInv, NEW i \in 1 .. Len(queue) + 1, HasBefore(i)
  PROVE  LastBefore(i) \in Nat /\ (i \in 1 .. Len(queue) => queue[i].nr \in Nat)
<1>1. TypeOK /\ Len(queue) \in Nat
  BY Lengths DEF IInv
<1>2. \A j \in 1 .. Len(queue) : queue[j].nr \in Nat
  <2> SUFFICES ASSUME NEW j \in 1 .. Len(queue) PROVE queue[j] \in Packet
    BY DEF Packet
  <2> QED
    BY <1>1, ElementOfSeq DEF TypeOK
<1>3. CASE i = 1
  <2>1. slice_chain # <<>>
    BY <1>3 DEF HasBefore
  <2> QED
    BY <1>2, <1>3, <2>1, ChainEnd DEF LastBefore
<1>4. CASE i # 1
  <2>1. i - 1 \in 1 .. Len(queue)
    BY <1>1, <1>4
  <2> QED
    BY <1>2, <1>4, <2>1 DEF LastBefore
<1> QED
  BY <1>3, <1>4

LEMMA LostFacts ==
  ASSUME IInv, LostKnown
  PROVE  /\ IsFiniteSet(lost) /\ Cardinality(lost) \in Nat /\ Cardinality(lost) <= MaxLost
         /\ \A x \in lost : x.nr \in Nat /\ x.nr < seq
         /\ other \in Nat /\ other <= MaxOther /\ seq \in Nat
         /\ MaxLost \in Nat /\ MaxOther \in Nat
BY FS_CardinalityType, ConstantsAssumption DEF LostKnown, IInv, TypeOK, Packet

LEMMA SendGaps == ASSUME IInv, GInv, SendStart \/ SendMore PROVE GInv'
<1>1. TypeOK /\ LostKnown
  BY DEF IInv, GInv
<1>2. PICK p \in Packet : p.nr = seq /\ Transmit(p)
  BY <1>1, SendFacts
<1>3. /\ seq' = seq + 1 /\ Len(queue) \in Nat
      /\ UNCHANGED <<other, overtakes, slice_chain, aborted>>
  BY <1>1, <1>2, Lengths DEF Transmit, f_cblk
<1>4. /\ IsFiniteSet(lost) /\ Cardinality(lost) \in Nat /\ Cardinality(lost) <= MaxLost
      /\ \A x \in lost : x.nr \in Nat /\ x.nr < seq
      /\ other \in Nat /\ other <= MaxOther /\ seq \in Nat /\ MaxLost \in Nat
  BY <1>1, LostFacts
<1>5. CASE queue' = Append(queue, p) /\ UNCHANGED lost
  <2>1. LostKnown'
    BY <1>3, <1>4, <1>5 DEF LostKnown
  <2>2. ASSUME overtakes = 0, ~ aborted PROVE GapsCounted'
    <3>1. GapsCounted
      BY <2>2 DEF GInv
    <3>2. /\ Len(queue') = Len(queue) + 1 /\ queue'[Len(queue) + 1] = p
          /\ \A i \in 1 .. Len(queue) : queue'[i] = queue[i]
      BY <1>1, <1>5, AppendElements DEF TypeOK
    <3>3. ASSUME NEW i \in 1 .. Len(queue'), HasBefore(i)'
          PROVE  Wide(lost', other', LastBefore(i)', queue'[i].nr)
      <4>1. HasBefore(i) /\ LastBefore(i)' = LastBefore(i)
        <5>1. i > 1 => i - 1 \in 1 .. Len(queue)
          BY <1>3, <3>2
        <5> QED
          BY <1>3, <3>2, <3>3, <5>1 DEF HasBefore, LastBefore
      <4>2. CASE i \in 1 .. Len(queue)
        BY <1>3, <1>5, <3>1, <3>2, <4>1, <4>2 DEF GapsCounted
      <4>3. CASE i = Len(queue) + 1
        BY <1>2, <1>3, <1>5, <3>1, <3>2, <4>1, <4>3 DEF GapsCounted
      <4> QED
        BY <1>3, <3>2, <4>2, <4>3
    <3>4. Wide(lost, other, LastBefore(Len(queue) + 1), seq)'
      <4>1. (LastBefore(Len(queue) + 1) = p.nr)'
        BY <1>3, <3>2 DEF LastBefore
      <4>2. Cardinality(Between(lost', p.nr, seq')) \in Nat
        BY <1>4, <1>5, BetweenFinite
      <4> QED
        BY <1>2, <1>3, <1>4, <4>1, <4>2 DEF Wide
    <3> QED
      BY <3>3, <3>4 DEF GapsCounted
  <2> QED
    BY <1>3, <2>1, <2>2 DEF GInv
<1>6. CASE Cardinality(lost) < MaxLost /\ lost' = lost \cup {p} /\ UNCHANGED queue
  <2>1. p \notin lost
    BY <1>2, <1>4
  <2>2. LostKnown'
    <3>1. IsFiniteSet(lost') /\ Cardinality(lost') = Cardinality(lost) + 1
      BY <1>4, <1>6, <2>1, FS_AddElement
    <3>2. \A x \in lost' : x.nr < seq'
      BY <1>2, <1>3, <1>4, <1>6
    <3> QED
      BY <1>3, <1>4, <1>6, <3>1, <3>2 DEF LostKnown
  <2>3. ASSUME overtakes = 0, ~ aborted PROVE GapsCounted'
    <3>1. GapsCounted
      BY <2>3 DEF GInv
    <3>2. \A i \in 1 .. Len(queue) + 1 : /\ HasBefore(i)' <=> HasBefore(i)
                                         /\ LastBefore(i)' = LastBefore(i)
      BY <1>3, <1>6 DEF HasBefore, LastBefore
    <3>3. ASSUME NEW i \in 1 .. Len(queue), HasBefore(i)
          PROVE  Wide(lost', other, LastBefore(i), queue[i].nr)
      <4>1. i \in 1 .. Len(queue) + 1
        BY <1>3
      <4>2. LastBefore(i) \in Nat /\ queue[i].nr \in Nat
        BY <3>3, <4>1, EndsAreNat
      <4>3. Wide(lost, other, LastBefore(i), queue[i].nr)
        BY <3>1, <3>3 DEF GapsCounted
      <4> QED
        BY <1>4, <1>6, <4>2, <4>3, WideKept
    <3>4. ASSUME HasBefore(Len(queue) + 1)
          PROVE  Wide(lost', other, LastBefore(Len(queue) + 1), seq')
      <4>1. LastBefore(Len(queue) + 1) \in Nat
        BY <1>3, <3>4, EndsAreNat
      <4>2. Wide(lost, other, LastBefore(Len(queue) + 1), seq)
        BY <3>1, <3>4 DEF GapsCounted
      <4> QED
        BY <1>2, <1>3, <1>4, <1>6, <2>1, <4>1, <4>2, WideGrows
    <3>5. \A i \in 1 .. Len(queue) : i \in 1 .. Len(queue) + 1
      BY <1>3
    <3>6. Len(queue) + 1 \in 1 .. Len(queue) + 1
      BY <1>3
    <3> QED
      BY <1>3, <1>6, <3>2, <3>3, <3>4, <3>5, <3>6 DEF GapsCounted
  <2> QED
    BY <1>3, <2>2, <2>3 DEF GInv
<1> QED
  BY <1>2, <1>5, <1>6 DEF Transmit

LEMMA OtherGaps == ASSUME IInv, GInv, SendOther PROVE GInv'
<1>1. /\ seq' = seq + 1 /\ other' = other + 1 /\ other < MaxOther
      /\ UNCHANGED <<queue, lost, overtakes, slice_chain, aborted>>
      /\ TypeOK /\ LostKnown /\ Len(queue) \in Nat
  BY Lengths DEF SendOther, f_cblk, IInv, GInv
<1>2. /\ IsFiniteSet(lost) /\ \A x \in lost : x.nr \in Nat /\ x.nr < seq
      /\ other \in Nat /\ seq \in Nat /\ MaxOther \in Nat
  BY <1>1, LostFacts
<1>3. LostKnown'
  BY <1>1, <1>2 DEF LostKnown
<1>4. ASSUME overtakes = 0, ~ aborted PROVE GapsCounted'
  <2>1. GapsCounted
    BY <1>4 DEF GInv
  <2>2. \A i \in 1 .. Len(queue) + 1 : /\ HasBefore(i)' <=> HasBefore(i)
                                       /\ LastBefore(i)' = LastBefore(i)
    BY <1>1 DEF HasBefore, LastBefore
  <2>3. ASSUME NEW i \in 1 .. Len(queue), HasBefore(i)
        PROVE  Wide(lost, other', LastBefore(i), queue[i].nr)
    <3>1. i \in 1 .. Len(queue) + 1
      BY <1>1
    <3>2. LastBefore(i) \in Nat /\ queue[i].nr \in Nat
      BY <2>3, <3>1, EndsAreNat
    <3>3. Wide(lost, other, LastBefore(i), queue[i].nr)
      BY <2>1, <2>3 DEF GapsCounted
    <3> QED
      BY <1>1, <1>2, <3>2, <3>3, WideOther
  <2>4. ASSUME HasBefore(Len(queue) + 1)
        PROVE  Wide(lost, other', LastBefore(Len(queue) + 1), seq')
    <3>1. LastBefore(Len(queue) + 1) \in Nat
      BY <1>1, <2>4, EndsAreNat
    <3>2. Wide(lost, other, LastBefore(Len(queue) + 1), seq)
      BY <2>1, <2>4 DEF GapsCounted
    <3> QED
      BY <1>1, <1>2, <3>1, <3>2, WideOther
  <2>5. \A i \in 1 .. Len(queue) : i \in 1 .. Len(queue) + 1
    BY <1>1
  <2>6. Len(queue) + 1 \in 1 .. Len(queue) + 1
    BY <1>1
  <2> QED
    BY <1>1, <2>2, <2>3, <2>4, <2>5, <2>6 DEF GapsCounted
<1> QED
  BY <1>1, <1>3, <1>4 DEF GInv

(* After a step of the decoder the chain, if there is one, ends with the   *)
(* packet that was taken.                                                  *)
LEMMA DecodeEnd ==
  ASSUME IInv, Decode, ~ aborted', slice_chain' # <<>>
  PROVE  slice_chain'[Len(slice_chain')] = queue[1]
<1> DEFINE p == Head(queue)
<1>1. /\ p \in Packet /\ p = queue[1] /\ Flags
      /\ Skip(p) \/ Begin(p) \/ Continue(p) \/ Gap(p)
  BY DecodeFacts
<1>2. slice_chain \in Seq(Packet) /\ byte_count \in U32 /\ pes_len \in U32
  BY DEF IInv, TypeOK
<1> HIDE DEF p
<1>3. ~ Skip(p) /\ ~ Gap(p)
  BY <1>1 DEF Skip, Gap, DropChain, f_cblk, Flags
<1>4. PICK count \in U32, len \in U32 : Accept(p, count, len)
  <2>1. TypeOK /\ (Begin(p) \/ Continue(p))
    BY <1>1, <1>3 DEF IInv
  <2> QED
    BY <2>1, Counted DEF BadLength
<1>5. slice_chain' = Append(slice_chain, p)
  BY <1>1, <1>4, AcceptFacts DEF Refuse, Gather, Finish
<1>6. Len(slice_chain') = Len(slice_chain) + 1 /\ slice_chain'[Len(slice_chain) + 1] = p
  BY <1>1, <1>2, <1>5, AppendElements
<1> QED
  BY <1>1, <1>6

LEMMA DecodeGaps == ASSUME IInv, GInv, Decode PROVE GInv'
<1>1. /\ UNCHANGED <<lost, overtakes, other, seq>> /\ LostKnown /\ ~ aborted
      /\ Len(queue) \in Nat \ {0} /\ Len(queue') = Len(queue) - 1
      /\ \A i \in 1 .. Len(queue') : queue'[i] = queue[i + 1]
  BY DecodeFacts DEF GInv
<1>2. LostKnown'
  BY <1>1 DEF LostKnown
<1>3. ASSUME ~ aborted', NEW i \in 1 .. Len(queue), HasBefore(i)'
      PROVE  HasBefore(i + 1) /\ LastBefore(i)' = LastBefore(i + 1)
  <2>1. CASE i = 1
    <3>1. slice_chain' # <<>>
      BY <1>3, <2>1 DEF HasBefore
    <3> QED
      BY <1>3, <2>1, <3>1, DecodeEnd DEF HasBefore, LastBefore
  <2>2. CASE i # 1
    <3>1. i - 1 \in 1 .. Len(queue') /\ (i - 1) + 1 = i /\ (i + 1) - 1 = i /\ i + 1 > 1 /\ i + 1 # 1
      BY <1>1, <2>2
    <3> QED
      BY <1>1, <2>2, <3>1 DEF HasBefore, LastBefore
  <2> QED
    BY <2>1, <2>2
<1>4. ASSUME overtakes = 0, ~ aborted' PROVE GapsCounted'
  <2>1. GapsCounted
    BY <1>1, <1>4 DEF GInv
  <2>2. \A i \in 1 .. Len(queue') : i \in 1 .. Len(queue) /\ i + 1 \in 1 .. Len(queue)
    BY <1>1
  <2>3. \A i \in 1 .. Len(queue') :
          HasBefore(i)' => Wide(lost', other', LastBefore(i)', queue'[i].nr)
    BY <1>1, <1>3, <1>4, <2>1, <2>2 DEF GapsCounted
  <2>4. (HasBefore(Len(queue) + 1) => Wide(lost, other, LastBefore(Len(queue) + 1), seq))'
    <3>1. PICK k \in 1 .. Len(queue) : k = Len(queue)
      BY <1>1
    <3>2. HasBefore(k)' => Wide(lost', other', LastBefore(k)', seq')
      BY <1>1, <1>3, <1>4, <2>1, <3>1 DEF GapsCounted
    <3>3. k = Len(queue') + 1
      BY <1>1, <3>1
    <3> QED
      BY <3>2, <3>3 DEF HasBefore, LastBefore
  <2> QED
    BY <2>3, <2>4 DEF GapsCounted
<1> QED
  BY <1>1, <1>2, <1>4 DEF GInv

LEMMA GapsNext == IInv /\ GInv /\ [Next]_vars => GInv'
<1> SUFFICES ASSUME IInv, GInv, [Next]_vars PROVE GInv'
  OBVIOUS
<1>1. CASE SendStart \/ SendMore
  BY <1>1, SendGaps
<1>2. CASE SendOther
  BY <1>2, OtherGaps
<1>3. CASE Decode
  BY <1>3, DecodeGaps
<1>4. CASE Overtake
  <2>1. overtakes' # 0
    BY <1>4 DEF Overtake, IInv, TypeOK
  <2>2. UNCHANGED <<lost, seq, other>>
    BY <1>4 DEF Overtake
  <2> QED
    BY <2>1, <2>2 DEF GInv, LostKnown
<1>5. CASE UNCHANGED vars
  <2>1. UNCHANGED <<seq, queue, lost, overtakes, other, slice_chain, aborted>>
    BY <1>5 DEF vars, network, f_cblk
  <2> QED
    BY <2>1 DEF GInv, LostKnown, GapsCounted, HasBefore, LastBefore
<1> QED
  BY <1>1, <1>2, <1>3, <1>4, <1>5 DEF Next

(* What the gaps add up to.                                                *)
LEMMA GapsAreSeen ==
  ASSUME MaxLost + MaxOther < U16Mod, IInv, GInv, overtakes = 0, ~ aborted
  PROVE  GapsSeen
<1> SUFFICES ASSUME queue # <<>>, slice_chain # <<>>
             PROVE  NrSeen(slice_chain[Len(slice_chain)], queue[1])
  BY DEF GapsSeen
<1>1. TypeOK /\ GapsCounted /\ LostKnown /\ U16Mod \in Nat
  BY Sizes DEF IInv, GInv
<1> DEFINE l == slice_chain[Len(slice_chain)].nr
           f == queue[1].nr
           B == Between(lost, l, f)
<1>2. Len(queue) \in Nat \ {0} /\ 1 \in 1 .. Len(queue) /\ 1 \in 1 .. Len(queue) + 1
  BY <1>1, Lengths
<1>3. HasBefore(1) /\ LastBefore(1) = l
  BY DEF HasBefore, LastBefore
<1>4. l \in Nat /\ f \in Nat
  BY <1>2, <1>3, EndsAreNat
<1>5. Wide(lost, other, l, f)
  BY <1>1, <1>2, <1>3 DEF GapsCounted
<1>6. Cardinality(B) \in Nat /\ Cardinality(B) <= MaxLost
  <2>1. B \subseteq lost /\ IsFiniteSet(lost)
    BY <1>1 DEF Between, LostKnown
  <2>2. Cardinality(B) \in Nat /\ Cardinality(B) <= Cardinality(lost) /\ Cardinality(lost) \in Nat
    BY <2>1, FS_Subset, FS_CardinalityType
  <2> QED
    BY <1>1, <2>2, LostFacts
<1>7. l < f /\ f - l - 1 <= Cardinality(B) + other
  BY <1>5 DEF Wide
<1>8. other \in Nat /\ other <= MaxOther /\ MaxLost \in Nat /\ MaxOther \in Nat
  BY <1>1, LostFacts
<1> HIDE DEF l, f, B
<1>9. l + 1 - U16Mod < f /\ f < l + 1 + U16Mod
  BY <1>1, <1>4, <1>6, <1>7, <1>8
<1> QED
  BY <1>9 DEF NrSeen, l, f

LEMMA OvertakesOnlyGrow ==
  ASSUME IInv, [Next]_vars
  PROVE  overtakes' = 0 => overtakes = 0
<1>1. overtakes \in Nat
  BY DEF IInv, TypeOK
<1>2. CASE Overtake
  BY <1>1, <1>2 DEF Overtake
<1>3. CASE SendStart \/ SendMore \/ SendOther \/ Decode \/ UNCHANGED vars
  BY <1>3 DEF SendStart, SendMore, SendOther, Transmit, Decode, vars, network
<1> QED
  BY <1>2, <1>3 DEF Next

LEMMA OrderedUnitsNext ==
  ASSUME Stuffing \subseteq {0}, ~ ZeroLength, MaxLost + MaxOther < U16Mod,
         IInv, GInv, overtakes = 0 => UInv, [Next]_vars
  PROVE  overtakes' = 0 => UInv'
<1>1. overtakes' = 0 => overtakes = 0
  BY OvertakesOnlyGrow
<1>2. overtakes = 0 => UInv /\ GapsSeen
  BY GapsAreSeen DEF UInv
<1> QED
  BY <1>1, <1>2, UnitsNext

(* While packets arrive in order and those that may be lost or of another  *)
(* kind are fewer than the sequence numbers, the byte counter is right and *)
(* what reaches the scheduler is exactly one unit.                         *)
THEOREM UnitsInOrder ==
  ASSUME Stuffing \subseteq {0}, ~ ZeroLength, MaxLost + MaxOther < U16Mod
  PROVE  Spec => [](overtakes = 0 => ~ aborted /\ UnitsAreExact)
<1> DEFINE Q == overtakes = 0 => UInv
<1>1. Init => Q
  BY UnitsInit
<1>2. IInv /\ GInv /\ Q /\ [Next]_vars => Q'
  BY OrderedUnitsNext
<1>3. IInv /\ Q => (overtakes = 0 => ~ aborted /\ UnitsAreExact)
  BY DEF UInv, CutInv
<1> HIDE DEF Q
<1> QED
  BY <1>1, <1>2, <1>3, GapsInit, GapsNext, DecoderInvariant, PTL DEF Spec

-----------------------------------------------------------------------------
(* OneUnitPerGap.  Numbers tell the order of units, no unit is without a   *)
(* packet, and while none overtakes another the decoder takes them in that *)
(* order.  So what lies between the end of the chain and the start that is *)
(* refused is lost, and a packet of the unit before that start is there:   *)
(* the one behind the chain's last, whose unit is not complete, or any.    *)
Numbered == \A x \in Sent : x \in Packet /\ x.nr < seq /\ x.unit <= unit

UnitsRise ==
  \A x, y \in Sent :
    /\ x.nr = y.nr => x = y
    /\ x.nr < y.nr => x.unit <= y.unit /\ (y.start => x.unit < y.unit)

UnitsSent == \A k \in 1 .. unit : \E x \in Sent : x.unit = k

InOrder ==
  /\ \A i, j \in 1 .. Len(queue) : i < j => queue[i].nr < queue[j].nr
  /\ \A x \in Consumed, y \in Waiting : x.nr < y.nr
  /\ slice_chain # <<>> => \A x \in Consumed : x.nr <= slice_chain[Len(slice_chain)].nr

HInv == Numbered /\ UnitsRise /\ UnitsSent /\ InOrder

(* For whom no start has a field.                                          *)
Refusals == \A p \in leaked : p.start => LostOf(p.unit - 1) # {}

LEMMA HistoryInit == Init => HInv /\ Refusals
<1> SUFFICES ASSUME Init PROVE HInv /\ Refusals
  OBVIOUS
<1>1. /\ Len(queue) = 0 /\ Waiting = {} /\ slice_chain = <<>> /\ leaked = {} /\ lost = {}
      /\ freed = {} /\ unit = 0
  BY EmptyElements DEF Init, Waiting
<1>2. Gathered = {}
  BY <1>1, EmptyElements DEF Gathered
<1>3. \A i \in 1 .. 0 : FALSE
  OBVIOUS
<1>4. Dumped = {}
  BY <1>3, DumpedElements, EmptyElements DEF Init
<1>5. Sent = {} /\ Consumed = {}
  BY <1>1, <1>2, <1>4 DEF Sent, Consumed
<1>6. InOrder
  BY <1>1, <1>3, <1>5 DEF InOrder
<1> QED
  BY <1>1, <1>3, <1>5, <1>6 DEF HInv, Numbered, UnitsRise, UnitsSent, Refusals

LEMMA SentFacts ==
  ASSUME IInv, Numbered
  PROVE  /\ \A x \in Sent : x.nr \in Nat /\ x.nr < seq /\ x.unit \in Nat /\ x.unit <= unit
         /\ seq \in Nat /\ unit \in Nat /\ Consumed \subseteq Sent /\ Waiting \subseteq Sent
         /\ \A x : x \in Waiting <=> \E i \in 1 .. Len(queue) : x = queue[i]
<1>1. \A x \in Sent : x.nr \in Nat /\ x.nr < seq /\ x.unit \in Nat /\ x.unit <= unit
  BY DEF Numbered, Packet
<1>2. seq \in Nat /\ unit \in Nat /\ queue \in Seq(Packet)
  BY DEF IInv, TypeOK
<1>3. \A x : x \in Waiting <=> \E i \in 1 .. Len(queue) : x = queue[i]
  BY <1>2, ToSetElements DEF Waiting
<1> QED
  BY <1>1, <1>2, <1>3 DEF Sent

LEMMA SendHistory ==
  ASSUME IInv, HInv, SendStart \/ SendMore
  PROVE  HInv'
<1>1. TypeOK /\ Len(queue) \in Nat
  BY Lengths DEF IInv
<1>2. PICK p \in Packet :
        /\ p.nr = seq /\ Transmit(p) /\ unit' \in Nat /\ p.unit = unit'
        /\ p.start => unit' = unit + 1
        /\ ~ p.start => unit' = unit
  BY <1>1, SendFacts
<1>3. /\ \A x \in Sent : x.nr \in Nat /\ x.nr < seq /\ x.unit \in Nat /\ x.unit <= unit
      /\ seq \in Nat /\ unit \in Nat /\ Consumed \subseteq Sent /\ Waiting \subseteq Sent
      /\ \A x : x \in Waiting <=> \E i \in 1 .. Len(queue) : x = queue[i]
  BY SentFacts DEF HInv
<1>4. /\ seq' = seq + 1 /\ UNCHANGED slice_chain
      /\ Sent' = Sent \cup {p} /\ Consumed' = Consumed
  BY <1>1, <1>2, SendKeeps DEF Transmit, f_cblk
<1>5. unit' = unit \/ unit' = unit + 1
  BY <1>2
<1>6. Numbered'
  <2> SUFFICES ASSUME NEW x \in Sent' PROVE x \in Packet /\ x.nr < seq' /\ x.unit <= unit'
    BY DEF Numbered
  <2>1. CASE x = p
    BY <1>2, <1>3, <1>4, <2>1
  <2>2. CASE x \in Sent
    <3>1. x \in Packet
      BY <2>2 DEF HInv, Numbered
    <3>2. x.nr < seq + 1
      BY <1>3, <2>2
    <3>3. x.unit <= unit'
      BY <1>3, <1>5, <2>2
    <3> QED
      BY <1>4, <3>1, <3>2, <3>3
  <2> QED
    BY <1>4, <2>1, <2>2
<1>7. UnitsRise'
  <2> SUFFICES ASSUME NEW x \in Sent', NEW y \in Sent'
               PROVE  /\ x.nr = y.nr => x = y
                      /\ x.nr < y.nr => x.unit <= y.unit /\ (y.start => x.unit < y.unit)
    BY DEF UnitsRise
  <2>1. CASE x \in Sent /\ y \in Sent
    BY <2>1 DEF HInv, UnitsRise
  <2>2. CASE x \in Sent /\ y = p
    <3>1. x.nr # y.nr
      BY <1>2, <1>3, <2>2
    <3>2. x.unit <= y.unit /\ (y.start => x.unit < y.unit)
      BY <1>2, <1>3, <1>5, <2>2
    <3> QED
      BY <3>1, <3>2
  <2>3. CASE x = p /\ y \in Sent
    <3>1. x.nr # y.nr /\ ~ (x.nr < y.nr)
      BY <1>2, <1>3, <2>3
    <3> QED
      BY <3>1
  <2>4. CASE x = p /\ y = p
    <3>1. ~ (x.nr < y.nr)
      BY <1>2, <1>3, <2>4
    <3> QED
      BY <2>4, <3>1
  <2> QED
    BY <1>4, <2>1, <2>2, <2>3, <2>4
<1>8. UnitsSent'
  <2> SUFFICES ASSUME NEW k \in 1 .. unit' PROVE \E x \in Sent' : x.unit = k
    BY DEF UnitsSent
  <2>1. CASE k \in 1 .. unit
    BY <1>4, <2>1 DEF HInv, UnitsSent
  <2>2. CASE k = unit'
    BY <1>2, <1>4, <2>2
  <2> QED
    BY <1>3, <1>5, <2>1, <2>2
<1>9. InOrder'
  <2>1. \A x \in Consumed', y \in Waiting' : x.nr < y.nr
    <3> SUFFICES ASSUME NEW x \in Consumed, NEW y \in Waiting' PROVE x.nr < y.nr
      BY <1>4
    <3>1. CASE y \in Waiting
      BY <3>1 DEF HInv, InOrder
    <3>2. CASE y = p
      BY <1>2, <1>3, <3>2
    <3>3. Waiting' \subseteq Waiting \cup {p}
      <4>1. CASE queue' = Append(queue, p)
        BY <1>1, <4>1, AppendElements DEF TypeOK, Waiting
      <4>2. CASE UNCHANGED queue
        BY <4>2 DEF Waiting
      <4> QED
        BY <1>2, <4>1, <4>2 DEF Transmit
    <3> QED
      BY <3>1, <3>2, <3>3
  <2>2. \A i, j \in 1 .. Len(queue') : i < j => queue'[i].nr < queue'[j].nr
    <3>1. CASE UNCHANGED queue
      BY <3>1 DEF HInv, InOrder
    <3>2. CASE queue' = Append(queue, p)
      <4>1. /\ Len(queue') = Len(queue) + 1 /\ queue'[Len(queue) + 1] = p
            /\ \A i \in 1 .. Len(queue) : queue'[i] = queue[i]
        BY <1>1, <3>2, AppendElements DEF TypeOK
      <4> SUFFICES ASSUME NEW i \in 1 .. Len(queue'), NEW j \in 1 .. Len(queue'), i < j
                   PROVE  queue'[i].nr < queue'[j].nr
        OBVIOUS
      <4>2. i \in 1 .. Len(queue)
        BY <1>1, <4>1
      <4>3. CASE j \in 1 .. Len(queue)
        BY <4>1, <4>2, <4>3 DEF HInv, InOrder
      <4>4. CASE j = Len(queue) + 1
        <5>1. queue[i].nr < seq
          BY <1>3, <4>2
        <5> QED
          BY <1>2, <4>1, <4>2, <4>4, <5>1
      <4> QED
        BY <1>1, <4>1, <4>3, <4>4
    <3> QED
      BY <1>2, <3>1, <3>2 DEF Transmit
  <2>3. slice_chain # <<>> => \A x \in Consumed' : x.nr <= slice_chain[Len(slice_chain)].nr
    BY <1>4 DEF HInv, InOrder
  <2> QED
    BY <1>4, <2>1, <2>2, <2>3 DEF InOrder
<1> QED
  BY <1>6, <1>7, <1>8, <1>9 DEF HInv

LEMMA DecodeHistory ==
  ASSUME IInv, HInv, Decode, ~ aborted'
  PROVE  HInv'
<1> DEFINE p == Head(queue)
<1>1. /\ p = queue[1] /\ p \in Packet /\ Waiting = {p} \cup Waiting'
      /\ Len(queue) \in Nat \ {0} /\ Len(queue') = Len(queue) - 1
      /\ \A i \in 1 .. Len(queue') : queue'[i] = queue[i + 1]
      /\ queue' \in Seq(Packet) /\ UNCHANGED <<unit, seq>>
  BY DecodeFacts
<1>2. Sent' = Sent /\ Consumed' = Consumed \cup {p}
  BY DecodeKeeps
<1> HIDE DEF p
<1>3. Numbered' /\ UnitsRise' /\ UnitsSent'
  BY <1>1, <1>2 DEF HInv, Numbered, UnitsRise, UnitsSent
<1>4. \A i \in 1 .. Len(queue') :
        /\ i \in 1 .. Len(queue) /\ i + 1 \in 1 .. Len(queue) /\ 1 \in 1 .. Len(queue)
        /\ 1 < i + 1
  BY <1>1
<1>5. \A i, j \in 1 .. Len(queue) : i < j => queue[i].nr < queue[j].nr
  BY DEF HInv, InOrder
<1>6. \A i, j \in 1 .. Len(queue') : i < j => queue'[i].nr < queue'[j].nr
  <2> SUFFICES ASSUME NEW i \in 1 .. Len(queue'), NEW j \in 1 .. Len(queue'), i < j
               PROVE  queue'[i].nr < queue'[j].nr
    OBVIOUS
  <2>1. i + 1 < j + 1
    BY <1>1
  <2> QED
    BY <1>1, <1>4, <1>5, <2>1
<1>7. \A y \in Waiting' : p.nr < y.nr
  <2> SUFFICES ASSUME NEW y \in Waiting' PROVE p.nr < y.nr
    OBVIOUS
  <2>1. PICK i \in 1 .. Len(queue') : y = queue'[i]
    BY <1>1, ToSetElements DEF Waiting
  <2> QED
    BY <1>1, <1>4, <1>5, <2>1
<1>8. \A x \in Consumed, y \in Waiting : x.nr < y.nr
  BY DEF HInv, InOrder
<1>9. slice_chain' # <<>> =>
        \A x \in Consumed' : x.nr <= slice_chain'[Len(slice_chain')].nr
  <2> SUFFICES ASSUME slice_chain' # <<>>, NEW x \in Consumed'
               PROVE  x.nr <= slice_chain'[Len(slice_chain')].nr
    OBVIOUS
  <2>1. slice_chain'[Len(slice_chain')] = p
    BY <1>1, DecodeEnd
  <2>2. CASE x \in Consumed
    <3>1. x.nr < p.nr /\ x.nr \in Nat /\ p.nr \in Nat
      BY <1>1, <1>8, <2>2, SentFacts DEF HInv
    <3> QED
      BY <2>1, <3>1
  <2>3. CASE x = p
    <3>1. p.nr \in Nat
      BY <1>1 DEF Packet
    <3> QED
      BY <2>1, <2>3, <3>1
  <2> QED
    BY <1>2, <2>2, <2>3
<1>10. InOrder'
  BY <1>1, <1>2, <1>6, <1>7, <1>8, <1>9 DEF InOrder
<1> QED
  BY <1>3, <1>10 DEF HInv

(* The start that is refused, and what was lost before it.                 *)
LEMMA RefusedStart ==
  ASSUME IInv, UInv, HInv, Decode, Gap(Head(queue)), Head(queue).start
  PROVE  LostOf(Head(queue).unit - 1) # {}
<1> DEFINE p == Head(queue)
           l == slice_chain[Len(slice_chain)]
<1>1. p \in Waiting /\ p = queue[1] /\ Flags /\ queue # <<>>
  BY DecodeFacts
<1>2. slice_chain # <<>>
  BY <1>1 DEF Gap, Flags
<1>3. /\ \A x \in Sent : x.nr \in Nat /\ x.nr < seq /\ x.unit \in Nat /\ x.unit <= unit
      /\ seq \in Nat /\ unit \in Nat /\ Consumed \subseteq Sent /\ Waiting \subseteq Sent
      /\ \A x : x \in Waiting <=> \E i \in 1 .. Len(queue) : x = queue[i]
  BY SentFacts DEF HInv
<1>4. l \in Gathered /\ l \in Consumed /\ l \in Arrived
  <2>1. Len(slice_chain) \in 1 .. Len(slice_chain) /\ slice_chain \in Seq(Packet)
    BY <1>2, Lengths DEF IInv, TypeOK
  <2>2. l \in Gathered
    BY <2>1, ToSetElements DEF Gathered
  <2> QED
    BY <2>2 DEF Consumed, Arrived
<1>5. p.start
  OBVIOUS
<1>6. /\ \A x \in Consumed, y \in Waiting : x.nr < y.nr
      /\ \A x \in Consumed : x.nr <= l.nr
  BY <1>2 DEF HInv, InOrder
<1>7. \A y \in Waiting : p.nr <= y.nr
  <2> SUFFICES ASSUME NEW y \in Waiting PROVE p.nr <= y.nr
    OBVIOUS
  <2>1. PICK i \in 1 .. Len(queue) : y = queue[i]
    BY <1>3
  <2>2. CASE i = 1
    BY <1>1, <1>3, <2>1, <2>2
  <2>3. CASE i # 1
    <3>1. 1 \in 1 .. Len(queue) /\ 1 < i
      BY <2>1, <2>3
    <3>2. queue[1].nr < queue[i].nr
      BY <3>1, <2>1 DEF HInv, InOrder
    <3> QED
      BY <1>1, <1>3, <2>1, <3>2
  <2> QED
    BY <2>2, <2>3
<1>8. PICK off \in [Arrived -> 1 .. UnitBytes] : Offsets(off) /\ ChainEnds(off)
  BY DEF UInv, CutInv, Cut
<1> DEFINE k == p.unit - 1
<1>9. l \in Sent /\ p \in Sent /\ l.nr < p.nr /\ l.unit < p.unit
  <2>1. l \in Sent /\ p \in Sent /\ l.nr < p.nr
    BY <1>1, <1>3, <1>4, <1>6
  <2> HIDE DEF l, p
  <2> QED
    BY <1>5, <2>1 DEF HInv, UnitsRise
<1>10. \E z \in Sent : z.unit = k /\ l.nr < z.nr
  <2>1. CASE l.unit = k
    <3>1. off[l] < UnitBytes
      <4>1. Plain(slice_chain[1])
        BY <1>2, ChainEnd DEF UInv, AllPlain
      <4> QED
        BY <1>2, <1>8, <4>1 DEF ChainEnds
    <3>2. l.nr + 1 < seq
      BY <1>3, <1>9
    <3>3. PICK z \in Sent : z.nr = l.nr + 1 /\ z.unit = l.unit
      BY <1>4, <1>8, <3>1, <3>2 DEF Offsets
    <3> QED
      BY <1>3, <1>9, <2>1, <3>3
  <2>2. CASE l.unit # k
    <3>1. k \in 1 .. unit /\ l.unit < k
      BY <1>3, <1>9, <2>2
    <3>2. PICK z \in Sent : z.unit = k
      BY <3>1 DEF HInv, UnitsSent
    <3>3. ~ (z.nr = l.nr) /\ ~ (z.nr < l.nr)
      <4>1. l.unit \in Nat /\ z.unit \in Nat
        BY <1>3, <1>9, <3>2
      <4>2. /\ z.nr = l.nr => z = l
            /\ z.nr < l.nr => z.unit <= l.unit
        BY <1>9, <3>2 DEF HInv, UnitsRise
      <4> HIDE DEF k, l
      <4> QED
        BY <3>1, <3>2, <4>1, <4>2
    <3>4. z.nr \in Nat /\ l.nr \in Nat
      BY <1>3, <1>9, <3>2
    <3> QED
      BY <3>2, <3>3, <3>4
  <2> QED
    BY <2>1, <2>2
<1>11. PICK z \in Sent : z.unit = k /\ l.nr < z.nr
  BY <1>10
<1> HIDE DEF l, p
<1>12. z \notin Consumed
  BY <1>3, <1>6, <1>9, <1>11
<1>13. z \notin Waiting
  <2> SUFFICES ASSUME z \in Waiting PROVE FALSE
    OBVIOUS
  <2>1. p.nr <= z.nr /\ p.nr \in Nat /\ z.nr \in Nat /\ p.unit \in Nat /\ z.unit = p.unit - 1
    BY <1>3, <1>7, <1>9, <1>11
  <2>2. z.unit < p.unit
    BY <2>1
  <2>3. p.nr = z.nr => z = p
    BY <1>9 DEF HInv, UnitsRise
  <2>4. p.nr < z.nr => p.unit <= z.unit
    BY <1>9 DEF HInv, UnitsRise
  <2> QED
    BY <2>1, <2>2, <2>3, <2>4
<1>14. z \in lost /\ z.unit = p.unit - 1
  BY <1>11, <1>12, <1>13 DEF Sent
<1> QED
  BY <1>14 DEF LostOf, p

LEMMA DecodeRefuses ==
  ASSUME IInv, UInv, HInv, Refusals, Decode, overtakes = 0
  PROVE  Refusals'
<1> DEFINE p == Head(queue)
<1>1. /\ UNCHANGED <<lost, overtakes>> /\ Flags
      /\ Skip(p) \/ Begin(p) \/ Continue(p) \/ Gap(p)
  BY DecodeFacts
<1>2. \A x \in leaked : x.start => LostOf(x.unit - 1) # {}
  BY DEF Refusals
<1>3. leaked' \subseteq leaked \cup {p}
      /\ (p \in leaked' => p \in leaked \/ (p.start => Gap(p)))
  BY <1>1 DEF Skip, Begin, Continue, Gap, Accept, BadLength, Starting, Flags
<1>4. Gap(p) /\ p.start => LostOf(p.unit - 1) # {}
  BY RefusedStart
<1> HIDE DEF p
<1>5. \A x \in leaked' : x.start => LostOf(x.unit - 1) # {}
  BY <1>2, <1>3, <1>4
<1> QED
  BY <1>1, <1>5 DEF Refusals, LostOf

LEMMA HistoryNext ==
  ASSUME IInv, UInv, ~ aborted', HInv, Refusals, overtakes = 0, overtakes' = 0, [Next]_vars
  PROVE  HInv' /\ Refusals'
<1>1. CASE SendStart \/ SendMore
  <2>1. HInv'
    BY <1>1, SendHistory
  <2>2. UNCHANGED leaked /\ lost \subseteq lost'
    BY <1>1 DEF SendStart, SendMore, Transmit
  <2>3. \A s : LostOf(s) \subseteq LostOf(s)'
    BY <2>2 DEF LostOf
  <2> QED
    BY <2>1, <2>2, <2>3 DEF Refusals
<1>2. CASE SendOther
  <2>1. seq' = seq + 1 /\ seq \in Nat /\ UNCHANGED <<unit, queue, lost, slice_chain, slices, freed, leaked>>
    BY <1>2 DEF SendOther, f_cblk, IInv, TypeOK
  <2>2. Sent' = Sent /\ Consumed' = Consumed /\ Waiting' = Waiting
    BY <2>1 DEF Sent, Consumed, Waiting, Gathered, Dumped
  <2>3. Numbered'
    <3>1. \A x \in Sent : x.nr \in Nat /\ x.nr < seq /\ x.unit <= unit /\ x \in Packet
      BY DEF HInv, Numbered, Packet
    <3>2. \A x \in Sent : x.nr < seq'
      BY <2>1, <3>1
    <3> QED
      BY <2>1, <2>2, <3>1, <3>2 DEF Numbered
  <2> QED
    BY <2>1, <2>2, <2>3 DEF HInv, UnitsRise, UnitsSent, InOrder, Refusals, LostOf
<1>3. CASE Decode
  BY <1>3, DecodeHistory, DecodeRefuses
<1>4. CASE Overtake
  BY <1>4 DEF Overtake
<1>5. CASE UNCHANGED vars
  <2>1. UNCHANGED <<unit, seq, queue, lost, slice_chain, slices, freed, leaked>>
    BY <1>5 DEF vars, network, f_cblk
  <2>2. Sent' = Sent /\ Consumed' = Consumed /\ Waiting' = Waiting
    BY <2>1 DEF Sent, Consumed, Waiting, Gathered, Dumped
  <2> QED
    BY <2>1, <2>2 DEF HInv, Numbered, UnitsRise, UnitsSent, InOrder, Refusals, LostOf
<1> QED
  BY <1>1, <1>2, <1>3, <1>4, <1>5 DEF Next

(* A start is refused only if the unit directly before it lost a packet:   *)
(* a gap, the false one at the wrap of the numbers too, never costs more   *)
(* than the unit it is in and the next, however many there are and however *)
(* much other media takes of the numbers.  What is asked of the network is *)
(* asked of each gap by itself: that it is not as long as the numbers are  *)
(* wide.                                                                   *)
THEOREM GapCostsOneUnitMore ==
  ASSUME Stuffing \subseteq {0}, ~ ZeroLength
  PROVE  Spec /\ []GapsSeen => []OneUnitPerGap
<1> DEFINE Q == overtakes = 0 => HInv /\ Refusals
<1>1. Init => UInv /\ Q
  BY UnitsInit, HistoryInit
<1>2. IInv /\ UInv /\ GapsSeen /\ Q /\ [Next]_vars => UInv' /\ Q'
  <2> SUFFICES ASSUME IInv, UInv, GapsSeen, Q, [Next]_vars PROVE UInv' /\ Q'
    OBVIOUS
  <2>1. UInv' /\ ~ aborted'
    BY UnitsNext DEF UInv
  <2>2. ASSUME overtakes' = 0 PROVE HInv' /\ Refusals'
    BY <2>1, <2>2, OvertakesOnlyGrow, HistoryNext
  <2> QED
    BY <2>1, <2>2
<1>3. Q => OneUnitPerGap
  BY DEF OneUnitPerGap, Refusals
<1> HIDE DEF Q
<1> QED
  BY <1>1, <1>2, <1>3, DecoderInvariant, PTL DEF Spec

-----------------------------------------------------------------------------
(***************************************************************************)
(* For any unit length, thresholds and number of buffers (with the buffers *)
(* BuffersAssumption asks for) and any number of units: the audio          *)
(* scheduler never queues more than one unit above HighMs, never runs out  *)
(* of buffers, stops only when it is drained, speeds up only when late,    *)
(* and keeps the units in order.                                           *)
(*                                                                         *)
(* LatencyBound is not inductive: inside the loop the units still to be    *)
(* queued must fit too (Budget).  BufferAvailable follows from it, because *)
(* the buffers are conserved and the hardware's share of them is bounded   *)
(* by the sound it has left (BuffersCounted).                              *)
(* The order of the sound needs that no buffer is in two places, so that   *)
(* the copy into one never reaches another's sound (OInv).                 *)
(***************************************************************************)

Dumping == pc \in {"measure", "speed", "get", "set"}

Budget ==
  /\ ms_left <= HighMs + SliceMs
  /\ pc = "pull" \/ Dumping =>
       /\ slices_to_queue >= 1
       /\ ms_left + slices_to_queue * SliceMs <= HighMs + SliceMs

BuffersCounted ==
  /\ Len(in_list) + Len(user_buffer_list) + Len(device) = NumBuffers
  /\ Len(user_buffer_list) = IF pc = "set" THEN 1 ELSE 0
  /\ Len(device) > MaxLag => (Len(device) - MaxLag - 1) * SliceMs < ms_left

UnitsCounted ==
  /\ desc # 0 <=> Dumping
  /\ Len(submitted) + Len(pipe) + (IF desc = 0 THEN 0 ELSE 1) = produced

Readings ==
  /\ pc = "speed" => data_left_ms <= Len(pipe) * SliceMs
  /\ pc = "check" /\ data_left_ms = 0 => Len(submitted) >= seen

SchedulerInv == SchedulerTypeOK /\ Budget /\ BuffersCounted /\ UnitsCounted /\ Readings /\ BufferAvailable

-----------------------------------------------------------------------------
(* What the loop is about to queue fits above the reading it starts from.  *)
LEMMA SlicesFit ==
  ASSUME NEW q \in Nat, q < HighMs
  PROVE  /\ SlicesToQueue(q) \in Nat /\ SlicesToQueue(q) >= 1
         /\ q + SlicesToQueue(q) * SliceMs <= HighMs + SliceMs
<1> DEFINE a == HighMs - q + SliceMs
<1>1. a \in Nat /\ a >= SliceMs /\ SliceMs \in Nat \ {0} /\ HighMs \in Nat
  BY SchedulerAssumption
<1>2. a \div SliceMs \in Nat /\ a \div SliceMs >= 1 /\ (a \div SliceMs) * SliceMs <= a
  <2> HIDE DEF a
  <2> QED
    BY <1>1
<1>3. SlicesToQueue(q) = a \div SliceMs
  BY DEF SlicesToQueue
<1> QED
  BY <1>1, <1>2, <1>3

LEMMA UnitTimes ==
  /\ \A n \in Nat : n * SliceMs \in Nat /\ (n + 1) * SliceMs = n * SliceMs + SliceMs
  /\ \A n \in Nat : n * SliceMs = 0 => n = 0
  /\ \A n \in Nat : n >= 1 => n * SliceMs >= SliceMs /\ (n - 1) * SliceMs = n * SliceMs - SliceMs
BY SchedulerAssumption

LEMMA SchedulerInvInit == SchedulerInit => SchedulerInv
<1> SUFFICES ASSUME SchedulerInit PROVE SchedulerInv
  OBVIOUS
<1> USE SchedulerAssumption DEF SchedulerInit
<1>1. in_list \in Seq(Buffers) /\ Len(in_list) = NumBuffers
  <2>1. \A b \in 1 .. NumBuffers : b \in Buffers
    BY DEF Buffers
  <2>2. in_list = [b \in 1 .. NumBuffers |-> b]
    BY DEF Buffers
  <2> QED
    BY <2>1, <2>2, IsASeq
<1>2. /\ pipe \in Seq(Nat \ {0}) /\ submitted \in Seq(Nat)
      /\ user_buffer_list \in Seq(Buffers) /\ device \in Seq(Buffers)
      /\ Len(pipe) = 0 /\ Len(submitted) = 0 /\ Len(user_buffer_list) = 0 /\ Len(device) = 0
  BY EmptySeq
<1>3. SchedulerTypeOK
  BY <1>1, <1>2 DEF SchedulerTypeOK
<1>4. Budget /\ UnitsCounted /\ Readings /\ BufferAvailable
  BY <1>2 DEF Budget, Dumping, UnitsCounted, Readings, BufferAvailable
<1>5. BuffersCounted
  BY <1>1, <1>2 DEF BuffersCounted
<1> QED
  BY <1>3, <1>4, <1>5 DEF SchedulerInv

-----------------------------------------------------------------------------
LEMMA ProduceInv == ASSUME SchedulerInv, Produce PROVE SchedulerInv'
<1> USE DEF SchedulerInv, Produce, SchedulerTypeOK, thread, buffers
<1>1. /\ pipe' \in Seq(Nat \ {0}) /\ Len(pipe') = Len(pipe) + 1
  <2>1. pipe \in Seq(Nat \ {0}) /\ produced + 1 \in Nat \ {0} /\ pipe' = Append(pipe, produced + 1)
    OBVIOUS
  <2> QED
    BY <2>1, AppendProperties
<1>2. Len(pipe) \in Nat /\ Len(submitted) \in Nat
  BY LenProperties
<1>3. SchedulerTypeOK'
  BY <1>1
<1>4. Budget' /\ BuffersCounted' /\ BufferAvailable'
  BY DEF Budget, BuffersCounted, BufferAvailable, Dumping
<1>5. UnitsCounted'
  BY <1>1, <1>2 DEF UnitsCounted, Dumping
<1>6. Readings'
  BY <1>1, <1>2, UnitTimes, SchedulerAssumption DEF Readings
<1> QED
  BY <1>3, <1>4, <1>5, <1>6

LEMMA PlayInv == ASSUME SchedulerInv, Play PROVE SchedulerInv'
<1> USE SchedulerAssumption DEF SchedulerInv, Play, SchedulerTypeOK, thread, buffers
<1>1. SchedulerTypeOK'
  OBVIOUS
<1>2. Budget' /\ UnitsCounted' /\ Readings' /\ BufferAvailable'
  BY DEF Budget, UnitsCounted, Readings, BufferAvailable, Dumping
<1>3. BuffersCounted'
  BY DEF BuffersCounted
<1> QED
  BY <1>1, <1>2, <1>3

LEMMA EmptyBufferDoneInv == ASSUME SchedulerInv, EmptyBufferDone PROVE SchedulerInv'
<1> USE DEF SchedulerInv, EmptyBufferDone, SchedulerTypeOK, thread
<1>1. /\ Head(device) \in Buffers
      /\ device' \in Seq(Buffers) /\ Len(device') = Len(device) - 1
  <2>1. device \in Seq(Buffers) /\ device # <<>> /\ device' = Tail(device)
    OBVIOUS
  <2> QED
    BY <2>1, HeadTailProperties
<1>2. in_list' \in Seq(Buffers) /\ Len(in_list') = Len(in_list) + 1
  <2>1. in_list \in Seq(Buffers) /\ in_list' = Append(in_list, Head(device))
    OBVIOUS
  <2> QED
    BY <1>1, <2>1, AppendProperties
<1>3. Len(device) \in Nat /\ Len(in_list) \in Nat /\ Len(user_buffer_list) \in Nat
  BY LenProperties
<1>4. SchedulerTypeOK'
  BY <1>1, <1>2
<1>5. Budget' /\ UnitsCounted' /\ Readings' /\ BufferAvailable'
  BY DEF Budget, UnitsCounted, Readings, BufferAvailable, Dumping
<1>6. BuffersCounted'
  <2>1. ASSUME Len(device') > MaxLag
        PROVE  (Len(device') - MaxLag - 1) * SliceMs < ms_left'
    <3> DEFINE n == Len(device) - MaxLag - 1
    <3>1. n \in Nat /\ n >= 1 /\ Len(device') - MaxLag - 1 = n - 1
      BY <1>1, <1>3, <2>1, SchedulerAssumption
    <3>2. n * SliceMs < ms_left
      BY <1>1, <1>3, <2>1, SchedulerAssumption DEF BuffersCounted
    <3>3. (n - 1) * SliceMs < ms_left
      <4> HIDE DEF n
      <4> QED
        BY <3>1, <3>2, UnitTimes, SchedulerAssumption
    <3>4. (Len(device') - MaxLag - 1) * SliceMs < ms_left'
      <4>1. Len(device') - MaxLag - 1 = n - 1 /\ ms_left' = ms_left
        BY <3>1
      <4> HIDE DEF n
      <4> QED
        BY <3>3, <4>1
    <3> QED
      BY <3>4
  <2>2. Len(device') > MaxLag => (Len(device') - MaxLag - 1) * SliceMs < ms_left'
    BY <2>1
  <2>3. user_buffer_list' = user_buffer_list /\ pc' = pc
    OBVIOUS
  <2>4. /\ Len(in_list) + Len(user_buffer_list) + Len(device) = NumBuffers
        /\ Len(user_buffer_list) = IF pc = "set" THEN 1 ELSE 0
    BY DEF BuffersCounted
  <2> HIDE DEF SchedulerInv, EmptyBufferDone, SchedulerTypeOK
  <2>5. Len(in_list') + Len(user_buffer_list') + Len(device') = NumBuffers
    BY <1>1, <1>2, <1>3, <2>3, <2>4, SchedulerAssumption
  <2> QED
    BY <2>2, <2>3, <2>4, <2>5 DEF BuffersCounted
<1> QED
  BY <1>4, <1>5, <1>6

LEMMA StartInv == ASSUME SchedulerInv, Start PROVE SchedulerInv'
<1> USE DEF SchedulerInv, Start, SchedulerTypeOK, buffers
<1>1. SchedulerTypeOK'
  OBVIOUS
<1>2. Budget' /\ BuffersCounted' /\ UnitsCounted' /\ Readings' /\ BufferAvailable'
  BY DEF Budget, BuffersCounted, UnitsCounted, Readings, BufferAvailable, Dumping
<1> QED
  BY <1>1, <1>2

(* An empty pipe and no unit in hand: all that was produced is submitted.  *)
LEMMA ReadDataLeftInv == ASSUME SchedulerInv, ReadDataLeft PROVE SchedulerInv'
<1> USE DEF SchedulerInv, ReadDataLeft, SchedulerTypeOK, buffers
<1>1. Len(pipe) \in Nat /\ Len(submitted) \in Nat
  BY LenProperties
<1>2. data_left_ms' \in Nat /\ (data_left_ms' = 0 => Len(pipe) = 0)
  BY <1>1, UnitTimes
<1>3. SchedulerTypeOK'
  BY <1>2
<1>4. Budget' /\ BuffersCounted' /\ UnitsCounted' /\ BufferAvailable'
  BY DEF Budget, BuffersCounted, UnitsCounted, BufferAvailable, Dumping
<1>5. Readings'
  BY <1>1, <1>2 DEF Readings, UnitsCounted, Dumping
<1> QED
  BY <1>3, <1>4, <1>5

LEMMA ReadQueuedInv == ASSUME SchedulerInv, ReadQueued PROVE SchedulerInv'
<1> USE DEF SchedulerInv, ReadQueued, SchedulerTypeOK, buffers
<1>1. pc' = "pull" => /\ slices_to_queue' \in Nat /\ slices_to_queue' >= 1
                      /\ ms_left + slices_to_queue' * SliceMs <= HighMs + SliceMs
  BY SlicesFit
<1>2. SchedulerTypeOK'
  BY <1>1
<1>3. Budget'
  BY <1>1 DEF Budget, Dumping
<1>4. BuffersCounted' /\ UnitsCounted' /\ Readings' /\ BufferAvailable'
  BY DEF BuffersCounted, UnitsCounted, Readings, BufferAvailable, Dumping
<1> QED
  BY <1>2, <1>3, <1>4

LEMMA PullNothingInv == ASSUME SchedulerInv, PullNothing PROVE SchedulerInv'
<1> USE DEF SchedulerInv, PullNothing, SchedulerTypeOK, buffers
<1>1. SchedulerTypeOK'
  OBVIOUS
<1>2. Budget' /\ BuffersCounted' /\ UnitsCounted' /\ Readings' /\ BufferAvailable'
  BY DEF Budget, BuffersCounted, UnitsCounted, Readings, BufferAvailable, Dumping
<1> QED
  BY <1>1, <1>2

LEMMA PullInv == ASSUME SchedulerInv, Pull PROVE SchedulerInv'
<1> USE DEF SchedulerInv, Pull, SchedulerTypeOK, buffers
<1>1. /\ Head(pipe) \in Nat \ {0}
      /\ pipe' \in Seq(Nat \ {0}) /\ Len(pipe') = Len(pipe) - 1
  <2>1. pipe \in Seq(Nat \ {0}) /\ pipe # <<>> /\ pipe' = Tail(pipe)
    OBVIOUS
  <2> QED
    BY <2>1, HeadTailProperties
<1>2. Len(pipe) \in Nat /\ Len(submitted) \in Nat
  BY LenProperties
<1>3. SchedulerTypeOK'
  BY <1>1
<1>4. Budget' /\ BuffersCounted' /\ Readings' /\ BufferAvailable'
  BY DEF Budget, BuffersCounted, Readings, BufferAvailable, Dumping
<1>5. UnitsCounted'
  <2>1. /\ desc = 0 /\ desc' # 0 /\ Dumping'
        /\ submitted' = submitted /\ produced' = produced /\ produced \in Nat
        /\ Len(submitted) + Len(pipe) + (IF desc = 0 THEN 0 ELSE 1) = produced
    BY <1>1 DEF UnitsCounted, Dumping
  <2> HIDE DEF SchedulerInv, Pull, SchedulerTypeOK
  <2> QED
    BY <1>1, <1>2, <2>1 DEF UnitsCounted
<1> QED
  BY <1>3, <1>4, <1>5

LEMMA MeasureDataInv == ASSUME SchedulerInv, MeasureData PROVE SchedulerInv'
<1> USE DEF SchedulerInv, MeasureData, SchedulerTypeOK, buffers
<1>1. Len(pipe) \in Nat
  BY LenProperties
<1>2. data_left_ms' \in Nat
  BY <1>1, UnitTimes
<1>3. SchedulerTypeOK'
  BY <1>2
<1>4. Budget' /\ BuffersCounted' /\ UnitsCounted' /\ BufferAvailable'
  BY DEF Budget, BuffersCounted, UnitsCounted, BufferAvailable, Dumping
<1>5. Readings'
  BY <1>2 DEF Readings
<1> QED
  BY <1>3, <1>4, <1>5

LEMMA SetSpeedInv == ASSUME SchedulerInv, SetSpeed PROVE SchedulerInv'
<1> USE DEF SchedulerInv, SetSpeed, SchedulerTypeOK, buffers
<1>1. SchedulerTypeOK'
  BY DEF SpeedFor
<1>2. Budget' /\ BuffersCounted' /\ UnitsCounted' /\ Readings' /\ BufferAvailable'
  BY DEF Budget, BuffersCounted, UnitsCounted, Readings, BufferAvailable, Dumping
<1> QED
  BY <1>1, <1>2

(* If the hardware had all the buffers it would have more sound left than  *)
(* the budget allows while a unit is still to be queued.                   *)
LEMMA BufferThere == ASSUME SchedulerInv, pc = "get" PROVE in_list # <<>>
<1> SUFFICES ASSUME in_list = <<>> PROVE FALSE
  OBVIOUS
<1> DEFINE n == NumBuffers - MaxLag - 1
<1>1. Len(in_list) = 0
  BY EmptySeq
<1>2. Len(device) = NumBuffers
  <2>1. Len(device) \in Nat
    BY LenProperties DEF SchedulerInv, SchedulerTypeOK
  <2> QED
    BY <1>1, <2>1 DEF SchedulerInv, BuffersCounted
<1>3. ms_left <= HighMs
  <2>1. slices_to_queue * SliceMs >= SliceMs /\ slices_to_queue * SliceMs \in Nat
    BY UnitTimes DEF SchedulerInv, SchedulerTypeOK, Budget, Dumping
  <2>2. ms_left + slices_to_queue * SliceMs <= HighMs + SliceMs
    BY DEF SchedulerInv, Budget, Dumping
  <2> DEFINE m == slices_to_queue * SliceMs
  <2>3. m >= SliceMs /\ m \in Nat /\ ms_left + m <= HighMs + SliceMs /\ ms_left \in Nat
    BY <2>1, <2>2 DEF SchedulerInv, SchedulerTypeOK
  <2> HIDE DEF m
  <2> QED
    BY <2>3, SchedulerAssumption
<1>4. n >= 1 /\ n \in Nat
  <2>1. n * SliceMs >= HighMs /\ n \in Int
    BY BuffersAssumption, SchedulerAssumption
  <2> HIDE DEF n
  <2> QED
    BY <2>1, SchedulerAssumption
<1>5. n * SliceMs < ms_left
  BY <1>2, <1>4, SchedulerAssumption DEF SchedulerInv, BuffersCounted
<1>6. n * SliceMs >= HighMs /\ n * SliceMs \in Nat
  BY <1>4, BuffersAssumption, UnitTimes
<1> DEFINE m == n * SliceMs
<1>7. m \in Nat /\ m >= HighMs /\ m < ms_left /\ ms_left \in Nat
  BY <1>5, <1>6 DEF SchedulerInv, SchedulerTypeOK
<1> HIDE DEF m
<1> QED
  BY <1>3, <1>7, SchedulerAssumption

LEMMA BufferGetInv == ASSUME SchedulerInv, BufferGet PROVE SchedulerInv'
<1> USE DEF SchedulerInv, BufferGet, SchedulerTypeOK
<1>1. /\ in_list # <<>> /\ pc = "get" /\ pc' = "set"
      /\ buf' = Head(in_list) /\ in_list' = Tail(in_list)
      /\ user_buffer_list' = <<Head(in_list)>> \o user_buffer_list
  BY BufferThere
<1>2. /\ Head(in_list) \in Buffers
      /\ in_list' \in Seq(Buffers) /\ Len(in_list') = Len(in_list) - 1
  <2>1. in_list \in Seq(Buffers)
    OBVIOUS
  <2> QED
    BY <1>1, <2>1, HeadTailProperties
<1>3. user_buffer_list = <<>>
  <2>1. user_buffer_list \in Seq(Buffers) /\ Len(user_buffer_list) = 0
    BY <1>1 DEF BuffersCounted
  <2> QED
    BY <2>1, EmptySeq
<1>4. user_buffer_list' \in Seq(Buffers) /\ Len(user_buffer_list') = 1
  <2> DEFINE h == Head(in_list)
  <2>1. user_buffer_list' = <<h>> \o <<>> /\ h \in Buffers
    BY <1>1, <1>2, <1>3
  <2> HIDE DEF h
  <2> HIDE DEF SchedulerInv, BufferGet, SchedulerTypeOK
  <2>2. <<h>> \in Seq(Buffers) /\ <<h>> \o <<>> = <<h>> /\ Len(<<h>>) = 1
    BY <2>1
  <2> QED
    BY <2>1, <2>2
<1>5. /\ Len(in_list) \in Nat /\ Len(device) \in Nat /\ Len(user_buffer_list) = 0
      /\ buf' \in Nat
  BY <1>1, <1>2, <1>3, LenProperties, EmptySeq DEF Buffers
<1>6. SchedulerTypeOK'
  BY <1>1, <1>2, <1>4, <1>5
<1>7. Budget' /\ UnitsCounted' /\ Readings' /\ BufferAvailable'
  BY <1>1 DEF Budget, UnitsCounted, Readings, BufferAvailable, Dumping
<1>8. BuffersCounted'
  <2>1. device' = device /\ ms_left' = ms_left
    OBVIOUS
  <2>2. Len(in_list) + Len(user_buffer_list) + Len(device) = NumBuffers
    BY DEF BuffersCounted
  <2>3. Len(device) > MaxLag => (Len(device) - MaxLag - 1) * SliceMs < ms_left
    BY DEF BuffersCounted
  <2> HIDE DEF SchedulerInv, BufferGet, SchedulerTypeOK
  <2>4. Len(in_list') + Len(user_buffer_list') + Len(device') = NumBuffers
    BY <1>2, <1>4, <1>5, <2>1, <2>2, SchedulerAssumption
  <2> QED
    BY <1>1, <1>4, <2>1, <2>3, <2>4 DEF BuffersCounted
<1> QED
  BY <1>6, <1>7, <1>8

LEMMA BufferSetInv == ASSUME SchedulerInv, BufferSet PROVE SchedulerInv'
<1> USE DEF SchedulerInv, BufferSet, SchedulerTypeOK, PlayedHeader
<1>1. /\ Head(user_buffer_list) \in Buffers
      /\ user_buffer_list' \in Seq(Buffers) /\ Len(user_buffer_list') = 0
  <2>1. user_buffer_list \in Seq(Buffers) /\ Len(user_buffer_list) = 1
    BY DEF BuffersCounted
  <2>2. user_buffer_list # <<>>
    <3> HIDE DEF SchedulerInv, BufferSet, SchedulerTypeOK
    <3> QED
      BY <2>1, EmptySeq
  <2>3. user_buffer_list' = Tail(user_buffer_list)
    OBVIOUS
  <2> QED
    BY <2>1, <2>2, <2>3, HeadTailProperties
<1>2. device' \in Seq(Buffers) /\ Len(device') = Len(device) + 1
  <2>1. device \in Seq(Buffers) /\ device' = Append(device, Head(user_buffer_list))
    OBVIOUS
  <2> QED
    BY <1>1, <2>1, AppendProperties
<1>3. submitted' \in Seq(Nat) /\ Len(submitted') = Len(submitted) + 1
  <2>1. submitted \in Seq(Nat) /\ desc \in Nat /\ submitted' = Append(submitted, desc)
    OBVIOUS
  <2> QED
    BY <2>1, AppendProperties
<1>4. /\ Len(pipe) \in Nat /\ Len(submitted) \in Nat
      /\ Len(device) \in Nat /\ Len(in_list) \in Nat
  BY LenProperties
<1>5. slices_to_queue >= 1 /\ ms_left + slices_to_queue * SliceMs <= HighMs + SliceMs
  BY DEF Budget, Dumping
<1>6. SchedulerTypeOK'
  <2>1. ms_left' \in Nat /\ slices_to_queue' \in Nat /\ desc' \in Nat /\ buf' \in Nat
    BY <1>5, SchedulerAssumption
  <2>2. content' \in [Buffers -> Nat]
    OBVIOUS
  <2>3. /\ pipe' \in Seq(Nat \ {0}) /\ produced' \in Nat
        /\ state' \in {"INACTIVE", "ACTIVE"}
        /\ data_left_ms' \in Nat /\ playback_speed' \in 0 .. 2
        /\ in_list' \in Seq(Buffers) /\ seen' \in Nat /\ pc' \in {"pull", "iter"}
    OBVIOUS
  <2> HIDE DEF SchedulerInv, BufferSet
  <2> QED
    BY <1>1, <1>2, <1>3, <2>1, <2>2, <2>3
<1>7. Budget'
  <2> DEFINE m == slices_to_queue * SliceMs
  <2>1. /\ m \in Nat /\ m >= SliceMs
        /\ slices_to_queue' * SliceMs = m - SliceMs
        /\ ms_left + m <= HighMs + SliceMs
    BY <1>5, UnitTimes
  <2>2. /\ ms_left' = ms_left + SliceMs /\ ms_left \in Nat
        /\ slices_to_queue \in Nat /\ slices_to_queue' = slices_to_queue - 1
        /\ pc' = IF slices_to_queue > 1 THEN "pull" ELSE "iter"
    OBVIOUS
  <2> HIDE DEF m
  <2>3. ms_left' <= HighMs + SliceMs /\ ms_left' + (m - SliceMs) <= HighMs + SliceMs
    BY <2>1, <2>2, SchedulerAssumption
  <2>4. pc' = "pull" => slices_to_queue' >= 1
    BY <2>2
  <2> QED
    BY <2>1, <2>2, <2>3, <2>4 DEF Budget, Dumping
<1>8. BuffersCounted'
  <2>1. in_list' = in_list /\ pc = "set" /\ pc' # "set" /\ ms_left' = ms_left + SliceMs /\ ms_left \in Nat
    OBVIOUS
  <2>2. Len(in_list') + Len(user_buffer_list') + Len(device') = NumBuffers
    <3>1. Len(in_list) + 1 + Len(device) = NumBuffers
      BY <2>1 DEF BuffersCounted
    <3> HIDE DEF SchedulerInv, BufferSet, SchedulerTypeOK
    <3> QED
      BY <1>1, <1>2, <1>4, <2>1, <3>1, SchedulerAssumption
  <2>3. ASSUME Len(device') > MaxLag
        PROVE  (Len(device') - MaxLag - 1) * SliceMs < ms_left'
    <3> DEFINE n == Len(device) - MaxLag
    <3>1. n \in Nat /\ Len(device') - MaxLag - 1 = n
      BY <1>2, <1>4, <2>3, SchedulerAssumption
    <3>2. n >= 1 => (n - 1) * SliceMs < ms_left
      BY <1>4, SchedulerAssumption DEF BuffersCounted
    <3> HIDE DEF n
    <3>3. n * SliceMs < ms_left + SliceMs
      BY <2>1, <3>1, <3>2, UnitTimes, SchedulerAssumption
    <3> QED
      BY <2>1, <3>1, <3>3
  <2> QED
    BY <1>1, <2>1, <2>2, <2>3 DEF BuffersCounted
<1>9. UnitsCounted' /\ Readings' /\ BufferAvailable'
  BY <1>3, <1>4 DEF UnitsCounted, Readings, BufferAvailable, Dumping
<1> QED
  BY <1>6, <1>7, <1>8, <1>9

LEMMA SchedulerInvNext == SchedulerInv /\ [SchedulerNext]_schedulerVars => SchedulerInv'
<1> SUFFICES ASSUME SchedulerInv, [SchedulerNext]_schedulerVars PROVE SchedulerInv'
  OBVIOUS
<1>1. CASE Produce \/ Play \/ EmptyBufferDone
  BY <1>1, ProduceInv, PlayInv, EmptyBufferDoneInv
<1>2. CASE Pass
  BY <1>2, StartInv, ReadDataLeftInv, ReadQueuedInv, PullNothingInv, PullInv,
     MeasureDataInv, SetSpeedInv, BufferGetInv, BufferSetInv DEF Pass
<1>3. CASE UNCHANGED schedulerVars
  BY <1>3 DEF schedulerVars, thread, buffers, SchedulerInv, SchedulerTypeOK, Budget, BuffersCounted, UnitsCounted,
     Readings, BufferAvailable, Dumping
<1> QED
  BY <1>1, <1>2, <1>3 DEF SchedulerNext

THEOREM SchedulerInvariant == SchedulerSafeSpec => []SchedulerInv
<1> QED
  BY SchedulerInvInit, SchedulerInvNext, PTL DEF SchedulerSafeSpec

-----------------------------------------------------------------------------
(* audio_scheduler_thread never queues more than HighMs and one unit, and  *)
(* the count of units to queue (a UINT32 in the code) never passes below   *)
(* zero.                                                                   *)
THEOREM LatencyBounded == SchedulerSafeSpec => []LatencyBound
<1>1. SchedulerInv => LatencyBound
  BY DEF SchedulerInv, Budget, LatencyBound
<1> QED
  BY <1>1, SchedulerInvariant, PTL

(* The assertion in sx_audio_sink_buffer_get never fails.                  *)
THEOREM AlwaysABuffer == SchedulerSafeSpec => []BufferAvailable
<1>1. SchedulerInv => BufferAvailable
  BY DEF SchedulerInv
<1> QED
  BY <1>1, SchedulerInvariant, PTL

(* The thread becomes inactive only when hardware and pipe were empty.     *)
THEOREM StopsOnlyDrained == SchedulerSafeSpec => InactiveOnlyDrained
<1>1. SchedulerInv /\ [SchedulerNext]_schedulerVars =>
        [state = "ACTIVE" /\ state' = "INACTIVE" => ms_left = 0 /\ Len(submitted) >= seen]_schedulerVars
  <2> SUFFICES ASSUME SchedulerInv, SchedulerNext, state = "ACTIVE", state' = "INACTIVE"
               PROVE  ms_left = 0 /\ Len(submitted) >= seen
    OBVIOUS
  <2>1. ReadQueued
    BY DEF SchedulerNext, Produce, Play, EmptyBufferDone, Pass, Start, ReadDataLeft, PullNothing, Pull,
       MeasureData, SetSpeed, BufferGet, BufferSet, thread
  <2>2. pc = "check" /\ data_left_ms + ms_left = 0
    BY <2>1 DEF ReadQueued, Drained
  <2>3. data_left_ms = 0 /\ ms_left = 0
    BY <2>2 DEF SchedulerInv, SchedulerTypeOK
  <2> QED
    BY <2>2, <2>3 DEF SchedulerInv, Readings
<1> QED
  BY <1>1, SchedulerInvariant, PTL DEF SchedulerSafeSpec, InactiveOnlyDrained

(* The clock is sped up only when more than FastMs of sound is waiting.    *)
THEOREM SpeedsUpWhenLate == SchedulerSafeSpec => SpeedsUpOnlyWhenLate
<1>1. SchedulerInv /\ [SchedulerNext]_schedulerVars =>
        [playback_speed' = 2 /\ playback_speed # 2 => Len(pipe) * SliceMs + ms_left > FastMs]_schedulerVars
  <2> SUFFICES ASSUME SchedulerInv, SchedulerNext, playback_speed' = 2, playback_speed # 2
               PROVE  Len(pipe) * SliceMs + ms_left > FastMs
    OBVIOUS
  <2>1. SetSpeed
    BY DEF SchedulerNext, Produce, Play, EmptyBufferDone, Pass, Start, ReadDataLeft, ReadQueued, PullNothing,
       Pull, MeasureData, BufferGet, BufferSet, thread
  <2>2. pc = "speed" /\ data_left_ms + ms_left > FastMs
    BY <2>1 DEF SetSpeed, SpeedFor
  <2>3. Len(pipe) \in Nat
    BY LenProperties DEF SchedulerInv, SchedulerTypeOK
  <2> DEFINE m == Len(pipe) * SliceMs
  <2>4. m \in Nat /\ data_left_ms <= m /\ data_left_ms \in Nat /\ ms_left \in Nat
    BY <2>2, <2>3, UnitTimes DEF SchedulerInv, SchedulerTypeOK, Readings
  <2> HIDE DEF m
  <2>5. m + ms_left > FastMs
    BY <2>2, <2>4, SchedulerAssumption
  <2> QED
    BY <2>5 DEF m
<1> QED
  BY <1>1, SchedulerInvariant, PTL DEF SchedulerSafeSpec, SpeedsUpOnlyWhenLate

(* Both decisions of the thread, to stop and to speed up, are taken on two *)
(* readings of different moments and are right when they are taken.        *)
THEOREM DecisionsHold == SchedulerSafeSpec => ReadingsStillTrue
  BY StopsOnlyDrained, SpeedsUpWhenLate DEF ReadingsStillTrue

-----------------------------------------------------------------------------
(* SoundInOrder.  The units are the numbers 1, 2, ... cut in three places; *)
(* a buffer is in one place, the one in hand too, so the copy into it      *)
(* disturbs none that the hardware has; and what the hardware has are the  *)
(* units submitted last.                                                   *)
InHandLen == IF desc = 0 THEN 0 ELSE 1

PlayedInOrder ==
  /\ \A i \in 1 .. Len(submitted) : submitted[i] = i
  /\ desc # 0 => desc = Len(submitted) + 1
  /\ \A i \in 1 .. Len(pipe) : pipe[i] = Len(submitted) + InHandLen + i

BuffersDistinct ==
  /\ \A i, j \in 1 .. Len(in_list) : i # j => in_list[i] # in_list[j]
  /\ \A i, j \in 1 .. Len(device) : i # j => device[i] # device[j]
  /\ \A i \in 1 .. Len(in_list), j \in 1 .. Len(device) : in_list[i] # device[j]
  /\ pc = "set" =>
       /\ user_buffer_list = <<buf>>
       /\ \A i \in 1 .. Len(in_list) : in_list[i] # buf
       /\ \A i \in 1 .. Len(device) : device[i] # buf

SoundKept ==
  /\ Len(device) <= Len(submitted)
  /\ \A i \in 1 .. Len(device) : content[device[i]] = Len(submitted) - Len(device) + i

OInv == PlayedInOrder /\ BuffersDistinct /\ SoundKept

LEMMA LengthsNat ==
  ASSUME SchedulerTypeOK
  PROVE  Len(pipe) \in Nat /\ Len(submitted) \in Nat /\ Len(in_list) \in Nat /\ Len(device) \in Nat
BY LenProperties DEF SchedulerTypeOK

LEMMA OrderInit == SchedulerInit => OInv
<1> SUFFICES ASSUME SchedulerInit PROVE OInv
  OBVIOUS
<1>1. Len(pipe) = 0 /\ Len(submitted) = 0 /\ Len(device) = 0 /\ pc # "set"
  BY EmptySeq DEF SchedulerInit
<1>2. Len(in_list) = NumBuffers /\ \A i \in 1 .. NumBuffers : in_list[i] = i
  <2>1. \A b \in 1 .. NumBuffers : b \in Buffers
    BY DEF Buffers
  <2>2. in_list = [b \in 1 .. NumBuffers |-> b]
    BY DEF SchedulerInit, Buffers
  <2> QED
    BY <2>1, <2>2, IsASeq, SchedulerAssumption
<1>3. \A i \in 1 .. 0 : FALSE
  OBVIOUS
<1>4. PlayedInOrder
  <2>1. desc = 0
    BY DEF SchedulerInit
  <2> QED
    BY <1>1, <1>3, <2>1 DEF PlayedInOrder
<1>5. BuffersDistinct
  BY <1>1, <1>2, <1>3 DEF BuffersDistinct
<1>6. SoundKept
  BY <1>1, <1>3 DEF SoundKept
<1> QED
  BY <1>4, <1>5, <1>6 DEF OInv

LEMMA ProduceOrder == ASSUME SchedulerInv, OInv, Produce PROVE OInv'
<1>1. /\ Len(pipe') = Len(pipe) + 1
      /\ \A i \in 1 .. Len(pipe) : pipe'[i] = pipe[i]
      /\ pipe'[Len(pipe) + 1] = produced + 1
  <2>1. pipe \in Seq(Nat \ {0}) /\ produced + 1 \in Nat \ {0} /\ pipe' = Append(pipe, produced + 1)
    BY DEF SchedulerInv, SchedulerTypeOK, Produce
  <2> QED
    BY <2>1, AppendProperties
<1>2. Len(pipe) \in Nat /\ Len(submitted) \in Nat
  BY LengthsNat DEF SchedulerInv
<1>3. Len(submitted) + Len(pipe) + InHandLen = produced
  BY DEF SchedulerInv, UnitsCounted, InHandLen
<1>4. PlayedInOrder'
  <2>1. submitted' = submitted /\ desc' = desc
    BY DEF Produce, thread
  <2>2. InHandLen' = InHandLen /\ InHandLen \in {0, 1}
    BY <2>1 DEF InHandLen
  <2>3. \A i \in 1 .. Len(pipe) : pipe[i] = Len(submitted) + InHandLen + i
    BY DEF OInv, PlayedInOrder
  <2>4. \A i \in 1 .. Len(pipe') : pipe'[i] = Len(submitted) + InHandLen + i
    <3> SUFFICES ASSUME NEW i \in 1 .. Len(pipe')
                 PROVE  pipe'[i] = Len(submitted) + InHandLen + i
      OBVIOUS
    <3>1. CASE i = Len(pipe) + 1
      BY <1>1, <1>2, <1>3, <2>2, <3>1
    <3>2. CASE i \in 1 .. Len(pipe)
      BY <1>1, <2>3, <3>2
    <3> QED
      BY <1>1, <1>2, <3>1, <3>2
  <2> QED
    BY <2>1, <2>2, <2>4 DEF OInv, PlayedInOrder
<1>5. BuffersDistinct' /\ SoundKept'
  BY DEF OInv, Produce, thread, buffers, BuffersDistinct, SoundKept
<1> QED
  BY <1>4, <1>5 DEF OInv

LEMMA EmptyBufferDoneOrder == ASSUME SchedulerInv, OInv, EmptyBufferDone PROVE OInv'
<1>1. device \in Seq(Buffers) /\ device # <<>> /\ in_list \in Seq(Buffers)
  BY DEF SchedulerInv, SchedulerTypeOK, EmptyBufferDone
<1>2. Len(device) \in Nat \ {0} /\ Len(in_list) \in Nat /\ Len(submitted) \in Nat
  BY <1>1, EmptySeq, LengthsNat DEF SchedulerInv
<1>3. /\ Len(device') = Len(device) - 1
      /\ \A i \in 1 .. Len(device') : device'[i] = device[i + 1]
      /\ Head(device) = device[1] /\ device[1] \in Buffers
  <2>1. device' = Tail(device)
    BY DEF EmptyBufferDone
  <2> QED
    BY <1>1, <1>2, <2>1, HeadTailProperties, ElementOfSeq
<1>4. /\ Len(in_list') = Len(in_list) + 1
      /\ \A i \in 1 .. Len(in_list) : in_list'[i] = in_list[i]
      /\ in_list'[Len(in_list) + 1] = device[1]
  <2>1. in_list' = Append(in_list, device[1])
    BY <1>3 DEF EmptyBufferDone
  <2> QED
    BY <1>1, <1>3, <2>1, AppendProperties
<1>5. /\ \A i, j \in 1 .. Len(in_list) : i # j => in_list[i] # in_list[j]
      /\ \A i, j \in 1 .. Len(device) : i # j => device[i] # device[j]
      /\ \A i \in 1 .. Len(in_list), j \in 1 .. Len(device) : in_list[i] # device[j]
  BY DEF OInv, BuffersDistinct
<1>6. BuffersDistinct'
  <2>1. \A i, j \in 1 .. Len(in_list') : i # j => in_list'[i] # in_list'[j]
    BY <1>2, <1>4, <1>5
  <2>2. \A i, j \in 1 .. Len(device') : i # j => device'[i] # device'[j]
    BY <1>2, <1>3, <1>5
  <2>3. \A i \in 1 .. Len(in_list'), j \in 1 .. Len(device') : in_list'[i] # device'[j]
    BY <1>2, <1>3, <1>4, <1>5, SMTT(30)
  <2>4. ASSUME pc' = "set"
        PROVE  /\ user_buffer_list' = <<buf'>>
               /\ \A i \in 1 .. Len(in_list') : in_list'[i] # buf'
               /\ \A i \in 1 .. Len(device') : device'[i] # buf'
    <3>1. /\ user_buffer_list' = user_buffer_list /\ buf' = buf
          /\ user_buffer_list = <<buf>>
          /\ \A i \in 1 .. Len(in_list) : in_list[i] # buf
          /\ \A i \in 1 .. Len(device) : device[i] # buf
      BY <2>4 DEF EmptyBufferDone, thread, OInv, BuffersDistinct
    <3>2. \A i \in 1 .. Len(in_list') : in_list'[i] # buf'
      BY <1>2, <1>4, <3>1
    <3>3. \A i \in 1 .. Len(device') : device'[i] # buf'
      BY <1>2, <1>3, <3>1
    <3> QED
      BY <3>1, <3>2, <3>3
  <2> QED
    BY <2>1, <2>2, <2>3, <2>4 DEF BuffersDistinct
<1>7. SoundKept'
  <2>1. submitted' = submitted /\ content' = content
    BY DEF EmptyBufferDone
  <2>2. /\ Len(device) <= Len(submitted)
        /\ \A i \in 1 .. Len(device) : content[device[i]] = Len(submitted) - Len(device) + i
    BY DEF OInv, SoundKept
  <2>3. \A i \in 1 .. Len(device') : content[device'[i]] = Len(submitted) - Len(device') + i
    <3> SUFFICES ASSUME NEW i \in 1 .. Len(device')
                 PROVE  content[device'[i]] = Len(submitted) - Len(device') + i
      OBVIOUS
    <3>1. i + 1 \in 1 .. Len(device) /\ device'[i] = device[i + 1]
      BY <1>2, <1>3
    <3>2. content[device[i + 1]] = Len(submitted) - Len(device) + (i + 1)
      BY <2>2, <3>1
    <3> QED
      BY <1>2, <1>3, <3>1, <3>2
  <2> QED
    BY <1>2, <1>3, <2>1, <2>2, <2>3 DEF SoundKept
<1>8. PlayedInOrder'
  BY DEF OInv, PlayedInOrder, InHandLen, EmptyBufferDone, thread
<1> QED
  BY <1>6, <1>7, <1>8 DEF OInv

LEMMA PullOrder == ASSUME SchedulerInv, OInv, Pull PROVE OInv'
<1>1. pipe \in Seq(Nat \ {0}) /\ pipe # <<>> /\ pipe' = Tail(pipe) /\ desc' = Head(pipe)
  BY DEF SchedulerInv, SchedulerTypeOK, Pull
<1>2. Len(pipe) \in Nat \ {0} /\ Len(submitted) \in Nat
  BY <1>1, EmptySeq, LengthsNat DEF SchedulerInv
<1>3. /\ Len(pipe') = Len(pipe) - 1 /\ desc' = pipe[1] /\ desc' # 0
      /\ \A i \in 1 .. Len(pipe') : pipe'[i] = pipe[i + 1]
  BY <1>1, HeadTailProperties
<1>4. desc = 0 /\ submitted' = submitted
  BY DEF SchedulerInv, UnitsCounted, Dumping, Pull
<1>5. /\ \A i \in 1 .. Len(submitted) : submitted[i] = i
      /\ \A i \in 1 .. Len(pipe) : pipe[i] = Len(submitted) + i
  <2>1. InHandLen = 0
    BY <1>4 DEF InHandLen
  <2> QED
    BY <1>2, <2>1 DEF OInv, PlayedInOrder
<1>6. PlayedInOrder'
  <2>1. InHandLen' = 1
    BY <1>3 DEF InHandLen
  <2>2. desc' = Len(submitted) + 1
    BY <1>2, <1>3, <1>5
  <2>3. \A i \in 1 .. Len(pipe') : pipe'[i] = Len(submitted) + 1 + i
    BY <1>2, <1>3, <1>5
  <2> QED
    BY <1>4, <1>5, <2>1, <2>2, <2>3 DEF PlayedInOrder
<1>7. BuffersDistinct' /\ SoundKept'
  BY DEF OInv, Pull, buffers, BuffersDistinct, SoundKept
<1> QED
  BY <1>6, <1>7 DEF OInv

LEMMA BufferGetOrder == ASSUME SchedulerInv, OInv, BufferGet PROVE OInv'
<1>1. /\ in_list # <<>> /\ in_list \in Seq(Buffers) /\ pc = "get" /\ pc' = "set"
      /\ buf' = Head(in_list) /\ in_list' = Tail(in_list)
      /\ user_buffer_list' = <<Head(in_list)>> \o user_buffer_list
      /\ device' = device
  BY BufferThere DEF SchedulerInv, SchedulerTypeOK, BufferGet
<1>2. Len(in_list) \in Nat \ {0}
  BY <1>1, EmptySeq
<1>3. /\ Len(in_list') = Len(in_list) - 1 /\ buf' = in_list[1] /\ in_list[1] \in Buffers
      /\ \A i \in 1 .. Len(in_list') : in_list'[i] = in_list[i + 1]
  BY <1>1, HeadTailProperties
<1>4. user_buffer_list' = <<buf'>>
  <2>1. user_buffer_list = <<>>
    <3>1. user_buffer_list \in Seq(Buffers) /\ Len(user_buffer_list) = 0
      BY <1>1 DEF SchedulerInv, SchedulerTypeOK, BuffersCounted
    <3> QED
      BY <3>1, EmptySeq
  <2> DEFINE h == Head(in_list)
  <2>2. user_buffer_list' = <<h>> \o <<>> /\ h \in Buffers /\ buf' = h
    BY <1>1, <1>3, <2>1
  <2> HIDE DEF h
  <2>3. <<h>> \o <<>> = <<h>>
    BY <2>2
  <2> QED
    BY <2>2, <2>3
<1>5. /\ \A i, j \in 1 .. Len(in_list) : i # j => in_list[i] # in_list[j]
      /\ \A i, j \in 1 .. Len(device) : i # j => device[i] # device[j]
      /\ \A i \in 1 .. Len(in_list), j \in 1 .. Len(device) : in_list[i] # device[j]
  BY DEF OInv, BuffersDistinct
<1>6. BuffersDistinct'
  <2>1. \A i, j \in 1 .. Len(in_list') : i # j => in_list'[i] # in_list'[j]
    BY <1>2, <1>3, <1>5
  <2>2. \A i \in 1 .. Len(in_list'), j \in 1 .. Len(device') : in_list'[i] # device'[j]
    BY <1>1, <1>2, <1>3, <1>5
  <2>3. /\ \A i \in 1 .. Len(in_list') : in_list'[i] # buf'
        /\ \A i \in 1 .. Len(device') : device'[i] # buf'
    BY <1>1, <1>2, <1>3, <1>5
  <2>4. \A i, j \in 1 .. Len(device') : i # j => device'[i] # device'[j]
    BY <1>1, <1>5
  <2> QED
    BY <1>1, <1>4, <2>1, <2>2, <2>3, <2>4 DEF BuffersDistinct
<1>7. PlayedInOrder' /\ SoundKept'
  BY DEF OInv, BufferGet, PlayedInOrder, InHandLen, SoundKept
<1> QED
  BY <1>6, <1>7 DEF OInv

(* The unit goes into the buffer whose header play_buffer takes.           *)
LEMMA BufferSetOrder == ASSUME SchedulerInv, OInv, BufferSet PROVE OInv'
<1>1. /\ pc = "set" /\ pc' # "set" /\ desc' = 0 /\ pipe' = pipe /\ in_list' = in_list
      /\ content' = [content EXCEPT ![buf] = desc]
      /\ submitted' = Append(submitted, desc)
      /\ device' = Append(device, Head(user_buffer_list))
  BY DEF BufferSet, PlayedHeader
<1>2. /\ Len(pipe) \in Nat /\ Len(submitted) \in Nat /\ Len(device) \in Nat
      /\ Len(in_list) \in Nat
  BY LengthsNat DEF SchedulerInv
<1>3. /\ user_buffer_list = <<buf>> /\ Head(user_buffer_list) = buf /\ buf \in Buffers
      /\ \A i \in 1 .. Len(in_list) : in_list[i] # buf
      /\ \A i \in 1 .. Len(device) : device[i] # buf
  <2>1. /\ user_buffer_list = <<buf>>
        /\ \A i \in 1 .. Len(in_list) : in_list[i] # buf
        /\ \A i \in 1 .. Len(device) : device[i] # buf
    BY <1>1 DEF OInv, BuffersDistinct
  <2>2. user_buffer_list \in Seq(Buffers) /\ user_buffer_list # <<>>
    BY <2>1 DEF SchedulerInv, SchedulerTypeOK
  <2>3. Head(user_buffer_list) = buf
    BY <2>1
  <2> QED
    BY <2>1, <2>2, <2>3, HeadTailProperties
<1>4. /\ Len(submitted') = Len(submitted) + 1 /\ desc = Len(submitted) + 1
      /\ \A i \in 1 .. Len(submitted) : submitted'[i] = submitted[i]
      /\ submitted'[Len(submitted) + 1] = desc
  <2>1. submitted \in Seq(Nat) /\ desc \in Nat
    BY DEF SchedulerInv, SchedulerTypeOK
  <2>2. desc # 0
    BY <1>1 DEF SchedulerInv, UnitsCounted, Dumping
  <2> QED
    BY <1>1, <2>1, <2>2, AppendProperties DEF OInv, PlayedInOrder
<1>5. /\ Len(device') = Len(device) + 1
      /\ \A i \in 1 .. Len(device) : device'[i] = device[i] /\ device[i] \in Buffers
      /\ device'[Len(device) + 1] = buf
  <2>1. device \in Seq(Buffers) /\ device' = Append(device, buf)
    BY <1>1, <1>3 DEF SchedulerInv, SchedulerTypeOK
  <2> QED
    BY <1>3, <2>1, AppendProperties, ElementOfSeq
<1>6. PlayedInOrder'
  <2>1. /\ \A i \in 1 .. Len(submitted) : submitted[i] = i
        /\ \A i \in 1 .. Len(pipe) : pipe[i] = Len(submitted) + InHandLen + i
    BY DEF OInv, PlayedInOrder
  <2>2. InHandLen = 1 /\ InHandLen' = 0
    BY <1>1, <1>2, <1>4 DEF InHandLen
  <2>3. \A i \in 1 .. Len(submitted') : submitted'[i] = i
    BY <1>2, <1>4, <2>1
  <2>4. \A i \in 1 .. Len(pipe') : pipe'[i] = Len(submitted') + InHandLen' + i
    BY <1>1, <1>2, <1>4, <2>1, <2>2
  <2> QED
    BY <1>1, <2>3, <2>4 DEF PlayedInOrder
<1>7. BuffersDistinct'
  <2>1. /\ \A i, j \in 1 .. Len(in_list) : i # j => in_list[i] # in_list[j]
        /\ \A i, j \in 1 .. Len(device) : i # j => device[i] # device[j]
        /\ \A i \in 1 .. Len(in_list), j \in 1 .. Len(device) : in_list[i] # device[j]
    BY DEF OInv, BuffersDistinct
  <2>2. \A i, j \in 1 .. Len(device') : i # j => device'[i] # device'[j]
    BY <1>2, <1>3, <1>5, <2>1
  <2>3. \A i \in 1 .. Len(in_list'), j \in 1 .. Len(device') : in_list'[i] # device'[j]
    BY <1>1, <1>2, <1>3, <1>5, <2>1
  <2> QED
    BY <1>1, <2>1, <2>2, <2>3 DEF BuffersDistinct
<1>8. SoundKept'
  <2>1. /\ Len(device) <= Len(submitted)
        /\ \A i \in 1 .. Len(device) : content[device[i]] = Len(submitted) - Len(device) + i
    BY DEF OInv, SoundKept
  <2>2. /\ content'[buf] = Len(submitted) + 1
        /\ \A b \in Buffers : b # buf => content'[b] = content[b]
    BY <1>1, <1>3, <1>4 DEF SchedulerInv, SchedulerTypeOK
  <2>3. \A i \in 1 .. Len(device') : content'[device'[i]] = Len(submitted') - Len(device') + i
    <3> SUFFICES ASSUME NEW i \in 1 .. Len(device')
                 PROVE  content'[device'[i]] = Len(submitted') - Len(device') + i
      OBVIOUS
    <3>1. CASE i = Len(device) + 1
      BY <1>2, <1>4, <1>5, <2>2, <3>1
    <3>2. CASE i \in 1 .. Len(device)
      <4>1. content'[device'[i]] = content[device[i]]
        BY <1>3, <1>5, <2>2, <3>2
      <4> QED
        BY <1>2, <1>4, <1>5, <2>1, <3>2, <4>1
    <3> QED
      BY <1>2, <1>5, <3>1, <3>2
  <2> QED
    BY <1>2, <1>4, <1>5, <2>1, <2>3 DEF SoundKept
<1> QED
  BY <1>6, <1>7, <1>8 DEF OInv

LEMMA OrderNext == SchedulerInv /\ OInv /\ [SchedulerNext]_schedulerVars => OInv'
<1> SUFFICES ASSUME SchedulerInv, OInv, [SchedulerNext]_schedulerVars PROVE OInv'
  OBVIOUS
<1>1. CASE Produce \/ EmptyBufferDone \/ Pull \/ BufferGet \/ BufferSet
  BY <1>1, ProduceOrder, EmptyBufferDoneOrder, PullOrder, BufferGetOrder, BufferSetOrder
<1>2. CASE Play
  BY <1>2 DEF Play, thread, buffers, OInv, PlayedInOrder, InHandLen, BuffersDistinct, SoundKept
<1>3. CASE Start \/ ReadDataLeft \/ ReadQueued \/ PullNothing \/ MeasureData \/ SetSpeed
  <2>1. pc' # "set" /\ UNCHANGED <<pipe, desc, in_list, device, content, submitted>>
    BY <1>3 DEF Start, ReadDataLeft, ReadQueued, PullNothing, MeasureData, SetSpeed, buffers
  <2> QED
    BY <2>1 DEF OInv, PlayedInOrder, InHandLen, BuffersDistinct, SoundKept
<1>4. CASE UNCHANGED schedulerVars
  BY <1>4 DEF schedulerVars, thread, buffers, OInv, PlayedInOrder, InHandLen, BuffersDistinct, SoundKept
<1> QED
  BY <1>1, <1>2, <1>3, <1>4 DEF SchedulerNext, Pass

(* What the hardware was handed, the unit in hand and the pipe are the     *)
(* units of the decoder in their order, and the buffers the hardware has   *)
(* hold the last of them: audio_scheduler_slice_dump never writes into a   *)
(* buffer that is still to be played.                                      *)
THEOREM SoundKeptInOrder == SchedulerSafeSpec => []SoundInOrder
<1>1. SchedulerInv /\ OInv => SoundInOrder
  <2> SUFFICES ASSUME SchedulerInv, OInv PROVE SoundInOrder
    OBVIOUS
  <2>1. /\ Len(pipe) \in Nat /\ Len(submitted) \in Nat /\ Len(device) \in Nat
        /\ submitted \in Seq(Nat) /\ pipe \in Seq(Nat) /\ desc \in Nat /\ produced \in Nat
    BY LengthsNat, SeqMonotonic DEF SchedulerInv, SchedulerTypeOK
  <2>2. InHand \in Seq(Nat) /\ Len(InHand) = InHandLen /\ (desc # 0 => InHand[1] = desc)
    BY <2>1 DEF InHand, InHandLen
  <2>3. Len(submitted) + Len(pipe) + InHandLen = produced /\ InHandLen \in {0, 1}
    BY DEF SchedulerInv, UnitsCounted, InHandLen
  <2> DEFINE front == submitted \o InHand
  <2>4. /\ front \in Seq(Nat) /\ Len(front) = Len(submitted) + InHandLen
        /\ \A i \in 1 .. Len(front) :
             front[i] = IF i <= Len(submitted) THEN submitted[i] ELSE InHand[i - Len(submitted)]
    BY <2>1, <2>2, ConcatProperties, ZenonT(60)
  <2>5. \A i \in 1 .. Len(front) : front[i] = i
    <3>1. /\ \A i \in 1 .. Len(submitted) : submitted[i] = i
          /\ desc # 0 => desc = Len(submitted) + 1
      BY DEF OInv, PlayedInOrder
    <3> HIDE DEF front
    <3> SUFFICES ASSUME NEW i \in 1 .. Len(front) PROVE front[i] = i
      OBVIOUS
    <3>2. CASE i <= Len(submitted)
      BY <2>1, <2>4, <3>1, <3>2, SMTT(30)
    <3>3. CASE ~ (i <= Len(submitted))
      <4>1. desc # 0 /\ i = Len(submitted) + 1
        BY <2>1, <2>4, <3>3 DEF InHandLen
      <4>2. front[i] = InHand[1]
        BY <2>1, <2>4, <3>3, <4>1
      <4> QED
        BY <2>2, <3>1, <4>1, <4>2
    <3> QED
      BY <3>2, <3>3
  <2> HIDE DEF front
  <2>6. /\ front \o pipe \in Seq(Nat) /\ Len(front \o pipe) = produced
        /\ \A i \in 1 .. produced :
             (front \o pipe)[i] = IF i <= Len(front) THEN front[i] ELSE pipe[i - Len(front)]
    <3>1. Len(front) + Len(pipe) = produced
      BY <2>1, <2>3, <2>4
    <3> QED
      BY <2>1, <2>4, <3>1, ConcatProperties
  <2>7. \A i \in 1 .. produced : (front \o pipe)[i] = i
    <3>1. \A i \in 1 .. Len(pipe) : pipe[i] = Len(front) + i
      BY <2>4 DEF OInv, PlayedInOrder
    <3>2. Len(front) \in Nat /\ Len(front) + Len(pipe) = produced
      BY <2>1, <2>3, <2>4
    <3> QED
      BY <2>1, <2>5, <2>6, <3>1, <3>2
  <2>8. front \o pipe = [i \in 1 .. produced |-> i]
    <3>1. /\ DOMAIN (front \o pipe) = 1 .. produced
          /\ front \o pipe = [i \in DOMAIN (front \o pipe) |-> (front \o pipe)[i]]
      BY <2>6, LenProperties
    <3> QED
      BY <2>7, <3>1
  <2>9. \A i \in 1 .. Len(device) :
          content[device[i]] = submitted[Len(submitted) - Len(device) + i]
    <3> SUFFICES ASSUME NEW i \in 1 .. Len(device)
                 PROVE  content[device[i]] = submitted[Len(submitted) - Len(device) + i]
      OBVIOUS
    <3>1. content[device[i]] = Len(submitted) - Len(device) + i /\ Len(device) <= Len(submitted)
      BY DEF OInv, SoundKept
    <3>2. Len(submitted) - Len(device) + i \in 1 .. Len(submitted)
      BY <2>1, <3>1
    <3> QED
      BY <3>1, <3>2 DEF OInv, PlayedInOrder
  <2> QED
    BY <2>8, <2>9 DEF SoundInOrder, front, OInv, SoundKept
<1> QED
  BY <1>1, SchedulerInvInit, SchedulerInvNext, OrderInit, OrderNext, PTL DEF SchedulerSafeSpec
=============================================================================
