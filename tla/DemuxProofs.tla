------------------------------ MODULE DemuxProofs ------------------------------
(***************************************************************************)
(* For any layouts of packets, readings of the clock, size of the receive  *)
(* buffer and number of packets: what the receive thread and the process   *)
(* thread put on the pipes is what the router owes to each line, in order  *)
(* and no more; so every packet has one owner, the clock is ahead of every *)
(* packet, and the two threads and the pipes implement the router.         *)
(*                                                                         *)
(* One number places everything, the count of the packets the process      *)
(* thread is done with: the invariant says what each pipe holds by it.     *)
(***************************************************************************)
EXTENDS Demux, SequenceLemmas

-----------------------------------------------------------------------------
(* What is read from a packet.                                             *)
LEMMA FirstCellIs ==
  ASSUME NEW p \in Packets, NEW K
  PROVE  LET i == FirstCell(p, K) IN
         /\ i \in 0 .. Len(p.cells) /\ Len(p.cells) \in Nat \ {0}
         /\ i # 0 => p.cells[i] \in K /\ \A j \in 1 .. i - 1 : p.cells[j] \notin K
         /\ i = 0 => \A j \in 1 .. Len(p.cells) : p.cells[j] \notin K
<1>1. p.cells \in Seq({"pcr", "video", "audio", "other"}) /\ p.cells # <<>>
  BY DemuxAssumption DEF Packets
<1>2. Len(p.cells) \in Nat \ {0}
  BY <1>1, EmptySeq, LenProperties
<1> DEFINE I == {i \in 1 .. Len(p.cells) : p.cells[i] \in K}
<1>3. FirstCell(p, K) = IF I # {} THEN Min(I) ELSE 0
  BY DEF FirstCell, SelectInSeq
<1>4. CASE I = {}
  BY <1>2, <1>3, <1>4
<1>5. CASE I # {}
  <2>1. I \in SUBSET Nat
    BY <1>2
  <2>2. PICK m \in I : \A k \in I : m <= k
    BY <1>5, <2>1, LeastNumber
  <2> DEFINE i == FirstCell(p, K)
  <2>3. i \in I /\ \A k \in I : i <= k
    BY <1>3, <1>5, <2>2 DEF Min
  <2> HIDE DEF i
  <2>4. i \in 1 .. Len(p.cells) /\ p.cells[i] \in K
    BY <2>3
  <2>5. ASSUME NEW j \in 1 .. i - 1 PROVE p.cells[j] \notin K
    <3>1. j \in 1 .. Len(p.cells) /\ ~ (i <= j)
      BY <1>2, <2>4
    <3>2. j \notin I
      BY <2>3, <3>1
    <3> QED
      BY <3>1, <3>2
  <2>6. i # 0 /\ i \in 0 .. Len(p.cells)
    BY <1>2, <2>4
  <2> QED
    BY <1>2, <2>4, <2>5, <2>6 DEF i
<1> QED
  BY <1>4, <1>5

LEMMA PcrGetType ==
  ASSUME NEW p \in Packets PROVE PcrGet(p) \in Nat
<1> DEFINE i == FirstCell(p, {"pcr"})
<1>1. i \in Nat
  BY FirstCellIs
<1>2. p.ticks \in Nat
  BY DemuxAssumption DEF Packets
<1>3. i # 0 => PcrField(p, i) \in Nat
  BY <1>1, <1>2 DEF PcrField
<1> QED
  BY <1>1, <1>3 DEF PcrGet, Milliseconds

(* A field holds the clock exactly: what is read is the time in ms.        *)
LEMMA FieldIsRead ==
  ASSUME NEW p \in Packets, NEW i \in Nat \ {0}
  PROVE  Milliseconds(PcrField(p, i)) = p.ticks \div 27000 + (i - 1)
<1> DEFINE t == p.ticks + 27000 * (i - 1)
           b == t \div 300
           e == (t % 300)
<1>1. p.ticks \in Nat /\ i - 1 \in Nat /\ t \in Nat
  <2>1. p.ticks \in Nat
    BY DemuxAssumption DEF Packets
  <2>2. i - 1 \in Nat
    OBVIOUS
  <2>3. \A n, k \in Nat : n + 27000 * k \in Nat
    OBVIOUS
  <2> QED
    BY <2>1, <2>2, <2>3
<1>2. b \in Nat /\ e \in 0 .. 299 /\ b * 300 + e = t
  <2> HIDE DEF t
  <2> QED
    BY <1>1
<1>3. PcrField(p, i) = b * 32768 + 63 * 512 + e
  BY DEF PcrField
<1>4. /\ (b * 32768 + 63 * 512 + e) \div 32768 = b
      /\ ((b * 32768 + 63 * 512 + e) % 512) = e
  <2> HIDE DEF b, e
  <2> QED
    BY <1>2
<1>5. Milliseconds(PcrField(p, i)) = (b * 300 + e) \div 27000
  <2> HIDE DEF b, e
  <2> QED
    BY <1>3, <1>4 DEF Milliseconds
<1>6. \A n, k \in Nat : (n + 27000 * k) \div 27000 = n \div 27000 + k
  OBVIOUS
<1>7. t \div 27000 = p.ticks \div 27000 + (i - 1)
  BY <1>1, <1>6
<1> HIDE DEF t, b, e
<1> QED
  BY <1>2, <1>5, <1>7

(* What a packet brings to a line is what the code does with it.           *)
LEMMA OwedIs ==
  ASSUME NEW p \in Packets
  PROVE  /\ R!Owed("video", p) = IF PktType(p) = "video" THEN <<p>> ELSE <<>>
         /\ R!Owed("audio", p) = IF PktType(p) = "audio" THEN <<p>> ELSE <<>>
         /\ R!Owed("reference", p) = IF PcrGet(p) > 0 THEN <<PcrGet(p)>> ELSE <<>>
<1> DEFINE n == Len(p.cells)
<1>1. p.cells \in Seq({"pcr", "video", "audio", "other"}) /\ n \in Nat \ {0}
  BY DemuxAssumption, FirstCellIs DEF Packets
<1>2. DOMAIN p.cells = 1 .. n
  BY <1>1, LenProperties
<1>3. ASSUME NEW K
      PROVE  LET f == FirstCell(p, K) IN
             /\ f \in 0 .. n
             /\ \A i \in 1 .. n : R!FirstIs(p, i, K) <=> f = i
  <2> DEFINE f == FirstCell(p, K)
  <2>1. /\ f \in 0 .. n
        /\ f # 0 => p.cells[f] \in K /\ \A j \in 1 .. f - 1 : p.cells[j] \notin K
        /\ f = 0 => \A j \in 1 .. n : p.cells[j] \notin K
    BY FirstCellIs
  <2> HIDE DEF f
  <2>2. ASSUME NEW i \in 1 .. n PROVE R!FirstIs(p, i, K) <=> f = i
    <3>1. CASE f = 0
      BY <2>1, <3>1 DEF R!FirstIs
    <3>2. CASE f = i
      BY <1>1, <2>1, <3>2 DEF R!FirstIs
    <3>3. CASE f # 0 /\ f # i
      <4>1. f < i => f \in 1 .. i - 1
        BY <1>1, <2>1, <3>3
      <4>2. i < f => i \in 1 .. f - 1
        BY <1>1, <2>1, <3>3
      <4>3. f < i \/ i < f
        BY <1>1, <2>1, <3>3
      <4> QED
        BY <2>1, <3>3, <4>1, <4>2, <4>3 DEF R!FirstIs
    <3> QED
      BY <3>1, <3>2, <3>3
  <2> QED
    BY <2>1, <2>2 DEF f
<1> HIDE DEF n
<1>4. ASSUME NEW r \in {"video", "audio"}
      PROVE  R!Owed(r, p) = IF PktType(p) = r THEN <<p>> ELSE <<>>
  <2> DEFINE f == FirstCell(p, {"video", "audio"})
  <2>1. /\ f \in 0 .. n
        /\ \A i \in 1 .. n : R!FirstIs(p, i, {"video", "audio"}) <=> f = i
    BY <1>3
  <2>2. PktType(p) = IF f = 0 THEN "null" ELSE p.cells[f]
    BY DEF PktType
  <2> HIDE DEF f
  <2>3. PktType(p) = r <=> \E i \in 1 .. n : f = i /\ p.cells[i] = r
    BY <1>1, <2>1, <2>2
  <2>4. R!Owed(r, p) = IF \E i \in 1 .. n : R!FirstIs(p, i, {"video", "audio"}) /\ p.cells[i] = r
                       THEN <<p>> ELSE <<>>
    BY <1>2 DEF R!Owed
  <2> QED
    BY <2>1, <2>3, <2>4
<1>5. R!Owed("reference", p) = IF PcrGet(p) > 0 THEN <<PcrGet(p)>> ELSE <<>>
  <2> DEFINE f == FirstCell(p, {"pcr"})
             Is(i) == R!FirstIs(p, i, {"pcr"})
  <2>1. f \in 0 .. n /\ \A i \in 1 .. n : Is(i) <=> f = i
    BY <1>3
  <2>2. PcrGet(p) = IF f = 0 THEN 0 ELSE Milliseconds(PcrField(p, f))
    BY DEF PcrGet
  <2> HIDE DEF f
  <2>3. f # 0 => f \in Nat \ {0} /\ PcrGet(p) = R!CellMs(p, f)
    BY <1>1, <2>1, <2>2, FieldIsRead DEF R!CellMs, R!TicksPerMs
  <2>4. R!Owed("reference", p) =
          IF \E i \in 1 .. n : Is(i) /\ R!CellMs(p, i) > 0
          THEN LET i == CHOOSE i \in 1 .. n : Is(i) IN <<R!CellMs(p, i)>>
          ELSE <<>>
    BY <1>2 DEF R!Owed
  <2> HIDE DEF Is
  <2>5. CASE f = 0
    <3>1. \A i \in 1 .. n : ~ Is(i)
      BY <1>1, <2>1, <2>5
    <3> QED
      BY <2>2, <2>4, <2>5, <3>1
  <2>6. CASE f # 0
    <3>1. f \in 1 .. n
      BY <1>1, <2>1, <2>6
    <3>2. (CHOOSE i \in 1 .. n : Is(i)) = f
      BY <2>1, <3>1
    <3>3. (\E i \in 1 .. n : Is(i) /\ R!CellMs(p, i) > 0) <=> R!CellMs(p, f) > 0
      BY <2>1, <3>1
    <3> QED
      BY <2>3, <2>4, <2>6, <3>2, <3>3
  <2> QED
    BY <2>5, <2>6
<1> QED
  BY <1>4, <1>5

-----------------------------------------------------------------------------
(* Where the packets are, by the number of those the process thread is     *)
(* done with: each pipe, with what was taken off it, holds exactly what    *)
(* the packets up to there bring to its line.                              *)
Count(p) == IF p = NoPacket THEN 0 ELSE 1

Routed == Len(received) - Count(pkt) - Len(pkt_queue) - Count(desc)

Published == IF stage = "route" THEN Routed + 1 ELSE Routed

BroughtBy(r, s, k) == FlattenSeq([i \in 1 .. k |-> R!Owed(r, s[i])])

Brings(r, k) == BroughtBy(r, received, k)

Numbered ==
  /\ arrived = Len(received) + Len(socket)
  /\ \A i \in 1 .. Len(received) : received[i].num = i
  /\ \A i \in 1 .. Len(socket) : socket[i].num = Len(received) + i

Waiting ==
  /\ Routed >= 0
  /\ pkt # NoPacket => pkt = received[Len(received)]
  /\ \A i \in 1 .. Len(pkt_queue) : pkt_queue[i] = received[Routed + Count(desc) + i]
  /\ desc # NoPacket => desc = received[Routed + 1]

Delivered ==
  /\ video_taken \o video_pkt_queue = Brings("video", Routed)
  /\ lpcm_taken \o lpcm = Brings("audio", Routed)
  /\ pcr_taken \o pcr = Brings("reference", Published)
  /\ freed = {i \in 1 .. Routed : PktType(received[i]) = "null"}

IInv == TypeOK /\ Numbered /\ Waiting /\ Delivered

(* What one packet more brings.                                            *)
LEMMA OwedType ==
  ASSUME NEW p \in Packets
  PROVE  /\ R!Owed("video", p) \in Seq(Packets) /\ R!Owed("audio", p) \in Seq(Packets)
         /\ R!Owed("reference", p) \in Seq(References)
<1>1. <<>> \in Seq(Packets) /\ <<>> \in Seq(References) /\ <<p>> \in Seq(Packets)
  BY EmptySeq
<1>2. PcrGet(p) > 0 => <<PcrGet(p)>> \in Seq(References)
  <2>1. PcrGet(p) > 0 => PcrGet(p) \in References
    BY PcrGetType DEF References
  <2>2. \A n \in References : <<n>> \in Seq(References)
    OBVIOUS
  <2> QED
    BY <2>1, <2>2
<1> QED
  BY <1>1, <1>2, OwedIs

LEMMA BringsNext ==
  ASSUME NEW s \in Seq(Packets), NEW k \in 0 .. Len(s) - 1,
         NEW r \in {"video", "audio", "reference"}
  PROVE  BroughtBy(r, s, k + 1) = BroughtBy(r, s, k) \o R!Owed(r, s[k + 1])
<1> DEFINE S == IF r = "reference" THEN References ELSE Packets
           f == [i \in 1 .. k |-> R!Owed(r, s[i])]
           g == [i \in 1 .. k + 1 |-> R!Owed(r, s[i])]
           e == R!Owed(r, s[k + 1])
<1>1. Len(s) \in Nat /\ k \in Nat /\ k + 1 \in 1 .. Len(s) /\ \A i \in 1 .. Len(s) : s[i] \in Packets
  BY LenProperties, ElementOfSeq
<1>2. \A i \in 1 .. k + 1 : R!Owed(r, s[i]) \in Seq(S)
  <2> SUFFICES ASSUME NEW i \in 1 .. k + 1 PROVE R!Owed(r, s[i]) \in Seq(S)
    OBVIOUS
  <2>1. s[i] \in Packets
    BY <1>1
  <2> QED
    BY <2>1, OwedType
<1> HIDE DEF S
<1>3. f \in Seq(Seq(S)) /\ Len(f) = k /\ e \in Seq(S)
  BY <1>1, <1>2, IsASeq
<1>4. g = Append(f, e)
  <2>1. Append(f, e) \in Seq(Seq(S)) /\ Len(Append(f, e)) = k + 1
        /\ (\A i \in 1 .. k : Append(f, e)[i] = f[i]) /\ Append(f, e)[k + 1] = e
    <3> HIDE DEF f, e
    <3> QED
      BY <1>3, AppendElements
  <2>2. DOMAIN Append(f, e) = 1 .. k + 1 /\ Append(f, e) = [i \in 1 .. k + 1 |-> Append(f, e)[i]]
    <3> HIDE DEF f, e
    <3> QED
      BY <2>1, LenProperties
  <2>3. \A i \in 1 .. k + 1 : Append(f, e)[i] = R!Owed(r, s[i])
    <3>1. \A i \in 1 .. k + 1 : i \in 1 .. k \/ i = k + 1
      BY <1>1
    <3> QED
      BY <2>1, <3>1
  <2> QED
    BY <2>2, <2>3
<1>5. FlattenSeq(Append(f, e)) = FlattenSeq(f) \o e
  <2> HIDE DEF f, e
  <2> QED
    BY <1>3, FlattenAppend
<1> QED
  BY <1>4, <1>5 DEF BroughtBy

-----------------------------------------------------------------------------
LEMMA InvInit == Init => IInv
<1> SUFFICES ASSUME Init PROVE IInv
  OBVIOUS
<1> USE DEF Init
<1>1. TypeOK
  BY EmptyElements, DemuxAssumption DEF TypeOK
<1>2. Numbered
  BY EmptyElements DEF Numbered
<1>3. Routed = 0 /\ Published = 0
  BY EmptyElements DEF Routed, Published, Count
<1>4. Waiting
  BY <1>3, EmptyElements DEF Waiting
<1>5. \A r : Brings(r, 0) = <<>>
  <2> SUFFICES ASSUME NEW r PROVE Brings(r, 0) = <<>>
    OBVIOUS
  <2>1. [i \in 1 .. 0 |-> R!Owed(r, received[i])] = <<>>
    OBVIOUS
  <2> QED
    BY <2>1, FlattenEmpty DEF Brings, BroughtBy
<1>6. Delivered
  <2>1. \A s : s = <<>> => s \o s = <<>>
    OBVIOUS
  <2> QED
    BY <1>3, <1>5, <2>1 DEF Delivered
<1> QED
  BY <1>1, <1>2, <1>4, <1>6 DEF IInv

(* The counts, as numbers.                                                 *)
LEMMA Counts ==
  ASSUME IInv
  PROVE  /\ Len(received) \in Nat /\ Len(pkt_queue) \in Nat /\ Len(socket) \in Nat
         /\ Count(pkt) \in {0, 1} /\ Count(desc) \in {0, 1}
         /\ Routed \in Nat
         /\ Routed + Count(desc) + Len(pkt_queue) + Count(pkt) = Len(received)
         /\ Published = IF stage = "route" THEN Routed + 1 ELSE Routed
         /\ \A i \in 1 .. Len(received) : received[i] \in Packets
<1>1. /\ received \in Seq(Packets) /\ pkt_queue \in Seq(Packets) /\ socket \in Seq(Packets)
      /\ Routed >= 0
  BY DEF IInv, TypeOK, Waiting
<1>2. Len(received) \in Nat /\ Len(pkt_queue) \in Nat /\ Len(socket) \in Nat
  BY <1>1, LenProperties
<1>3. Count(pkt) \in {0, 1} /\ Count(desc) \in {0, 1}
  BY DEF Count
<1>4. \A i \in 1 .. Len(received) : received[i] \in Packets
  BY <1>1, ElementOfSeq
<1> QED
  BY <1>1, <1>2, <1>3, <1>4 DEF Routed, Published

(* A step that receives nothing, or one packet, leaves what those before   *)
(* it bring.                                                               *)
LEMMA BringsKept ==
  ASSUME IInv, NEW k \in 0 .. Len(received), NEW r,
         \A i \in 1 .. Len(received) : received'[i] = received[i]
  PROVE  Brings(r, k)' = Brings(r, k)
<1>1. \A i \in 1 .. k : i \in 1 .. Len(received)
  BY Counts
<1>2. \A i \in 1 .. k : R!Owed(r, received'[i]) = R!Owed(r, received[i])
  BY <1>1
<1>3. [i \in 1 .. k |-> R!Owed(r, received'[i])] = [i \in 1 .. k |-> R!Owed(r, received[i])]
  BY <1>2
<1> QED
  BY <1>3 DEF Brings, BroughtBy

LEMMA ArriveInv == ASSUME IInv, Arrive PROVE IInv'
<1>1. PICK c \in Clocks, l \in Layouts :
        /\ clock' = c /\ arrived' = arrived + 1
        /\ socket' = Append(socket, [num |-> arrived + 1, cells |-> l, ticks |-> c])
  BY DEF Arrive
<1> DEFINE p == [num |-> arrived + 1, cells |-> l, ticks |-> c]
<1>2. UNCHANGED <<received, pkt, pkt_queue, process, pipes, taken, freed>>
  BY DEF Arrive
<1>3. arrived \in 0 .. MaxPackets /\ arrived < MaxPackets /\ socket \in Seq(Packets)
  BY DEF IInv, TypeOK, Arrive
<1>4. p \in Packets /\ p.num = arrived + 1
  BY <1>3, DemuxAssumption DEF Packets
<1>5. socket' = Append(socket, p)
  BY <1>1
<1> HIDE DEF p
<1>6. /\ socket' \in Seq(Packets) /\ Len(socket) \in Nat /\ Len(socket') = Len(socket) + 1
      /\ \A i \in 1 .. Len(socket) : socket'[i] = socket[i]
      /\ socket'[Len(socket) + 1] = p
  BY <1>3, <1>4, <1>5, AppendElements
<1>7. TypeOK'
  <2>1. Len(socket) < SocketSize /\ SocketSize \in Nat
    BY DemuxAssumption DEF Arrive
  <2>2. Len(socket') <= SocketSize /\ arrived' \in 0 .. MaxPackets
    BY <1>1, <1>3, <1>6, <2>1, DemuxAssumption
  <2> QED
    BY <1>1, <1>2, <1>6, <2>2 DEF IInv, TypeOK, process, pipes, taken
<1>8. Numbered'
  <2>1. /\ arrived = Len(received) + Len(socket)
        /\ \A i \in 1 .. Len(received) : received[i].num = i
        /\ \A i \in 1 .. Len(socket) : socket[i].num = Len(received) + i
        /\ Len(received) \in Nat /\ received' = received
    BY <1>2, Counts DEF IInv, Numbered
  <2>2. arrived' = Len(received') + Len(socket')
    BY <1>1, <1>6, <2>1
  <2>3. ASSUME NEW i \in 1 .. Len(socket') PROVE socket'[i].num = Len(received') + i
    <3>1. CASE i \in 1 .. Len(socket)
      BY <1>6, <2>1, <3>1
    <3>2. CASE i = Len(socket) + 1
      BY <1>4, <1>6, <2>1, <3>2
    <3> QED
      BY <1>6, <3>1, <3>2
  <2> QED
    BY <2>1, <2>2, <2>3 DEF Numbered
<1>9. Waiting' /\ Delivered'
  BY <1>2 DEF IInv, Waiting, Delivered, Routed, Published, Count, Brings, process, pipes, taken
<1> QED
  BY <1>7, <1>8, <1>9 DEF IInv

LEMMA ReceiveInv == ASSUME IInv, Receive PROVE IInv'
<1> DEFINE p == Head(socket)
<1>1. /\ pkt = NoPacket /\ pkt' = p /\ socket' = Tail(socket)
      /\ received' = Append(received, p) /\ socket # <<>>
      /\ UNCHANGED <<clock, arrived, pkt_queue, process, pipes, taken, freed>>
  BY DEF Receive
<1>2. socket \in Seq(Packets) /\ received \in Seq(Packets)
  BY DEF IInv, TypeOK
<1>3. /\ Len(socket) \in Nat \ {0} /\ p = socket[1] /\ p \in Packets
      /\ socket' \in Seq(Packets) /\ Len(socket') = Len(socket) - 1
      /\ \A i \in 1 .. Len(socket') : socket'[i] = socket[i + 1]
  BY <1>1, <1>2, HeadTailElements
<1> HIDE DEF p
<1>4. /\ received' \in Seq(Packets) /\ Len(received) \in Nat
      /\ Len(received') = Len(received) + 1
      /\ \A i \in 1 .. Len(received) : received'[i] = received[i]
      /\ received'[Len(received) + 1] = p
  BY <1>1, <1>2, <1>3, AppendElements
<1>5. p # NoPacket
  BY <1>3, NoPacketAssumption
<1>6. TypeOK'
  <2>1. Len(socket) <= SocketSize /\ SocketSize \in Nat
    BY DemuxAssumption DEF IInv, TypeOK
  <2>2. Len(socket') <= SocketSize
    BY <1>3, <2>1
  <2> QED
    BY <1>1, <1>3, <1>4, <2>2 DEF IInv, TypeOK, process, pipes, taken
<1>7. Numbered'
  <2>1. /\ arrived = Len(received) + Len(socket)
        /\ \A i \in 1 .. Len(received) : received[i].num = i
        /\ \A i \in 1 .. Len(socket) : socket[i].num = Len(received) + i
    BY DEF IInv, Numbered
  <2>2. arrived' = Len(received') + Len(socket')
    BY <1>1, <1>3, <1>4, <2>1
  <2>3. ASSUME NEW i \in 1 .. Len(received') PROVE received'[i].num = i
    <3>1. CASE i \in 1 .. Len(received)
      BY <1>4, <2>1, <3>1
    <3>2. CASE i = Len(received) + 1
      <4>1. received'[i] = socket[1] /\ socket[1].num = Len(received) + 1
        BY <1>3, <1>4, <2>1, <3>2
      <4> QED
        BY <3>2, <4>1
    <3> QED
      BY <1>4, <3>1, <3>2
  <2>4. ASSUME NEW i \in 1 .. Len(socket') PROVE socket'[i].num = Len(received') + i
    <3>1. i + 1 \in 1 .. Len(socket)
      BY <1>3
    <3> QED
      BY <1>3, <1>4, <2>1, <3>1
  <2> QED
    BY <2>2, <2>3, <2>4 DEF Numbered
<1>8. Routed' = Routed /\ Published' = Published /\ Routed \in 0 .. Len(received)
      /\ Published \in 0 .. Len(received)
  <2>1. Count(pkt) = 0 /\ Count(pkt') = 1 /\ Count(desc') = Count(desc)
    BY <1>1, <1>5 DEF Count, process
  <2>2. stage = "route" => Count(desc) = 1
    BY DEF Count, IInv, TypeOK
  <2> QED
    BY <1>1, <1>4, <2>1, <2>2, Counts DEF Routed, Published, process
<1>9. Waiting'
  <2>1. /\ \A i \in 1 .. Len(pkt_queue) : pkt_queue[i] = received[Routed + Count(desc) + i]
        /\ desc # NoPacket => desc = received[Routed + 1]
        /\ Count(pkt) = 0
    BY <1>1 DEF IInv, Waiting, Count
  <2>2. pkt' = received'[Len(received')]
    BY <1>1, <1>4
  <2>3. ASSUME NEW i \in 1 .. Len(pkt_queue)
        PROVE  pkt_queue[i] = received'[Routed + Count(desc) + i]
    <3>1. Routed + Count(desc) + i \in 1 .. Len(received)
      BY <2>1, Counts
    <3> QED
      BY <1>4, <2>1, <3>1
  <2>4. desc # NoPacket => desc = received'[Routed + 1]
    <3>1. desc # NoPacket => Routed + 1 \in 1 .. Len(received)
      BY Counts DEF Count
    <3> QED
      BY <1>4, <2>1, <3>1
  <2>5. Count(desc)' = Count(desc) /\ desc' = desc /\ pkt_queue' = pkt_queue /\ Routed' >= 0
    BY <1>1, <1>8, Counts DEF Count, process
  <2> QED
    BY <1>8, <2>2, <2>3, <2>4, <2>5 DEF Waiting
<1>10. Delivered'
  <2>1. \A r : Brings(r, Routed)' = Brings(r, Routed) /\ Brings(r, Published)' = Brings(r, Published)
    <3> SUFFICES ASSUME NEW r
                 PROVE  Brings(r, Routed)' = Brings(r, Routed) /\ Brings(r, Published)' = Brings(r, Published)
      OBVIOUS
    <3>1. PICK k \in 0 .. Len(received), m \in 0 .. Len(received) :
            k = Routed /\ m = Published /\ k = Routed' /\ m = Published'
      BY <1>8
    <3>2. Brings(r, k)' = Brings(r, k) /\ Brings(r, m)' = Brings(r, m)
      BY <1>4, BringsKept
    <3> QED
      BY <3>1, <3>2
  <2>2. {i \in 1 .. Routed' : PktType(received'[i]) = "null"}
         = {i \in 1 .. Routed : PktType(received[i]) = "null"}
    <3>1. \A i \in 1 .. Routed : received'[i] = received[i]
      BY <1>4, <1>8
    <3> QED
      BY <1>8, <3>1
  <2> QED
    BY <1>1, <2>1, <2>2 DEF IInv, Delivered, pipes, taken
<1> QED
  BY <1>6, <1>7, <1>9, <1>10 DEF IInv

(* The steps after the receiving leave this alone.                         *)
ReceivedKept == UNCHANGED <<socket, arrived, received>>

LEMMA NumberedKept == ASSUME IInv, ReceivedKept PROVE Numbered'
  BY DEF IInv, ReceivedKept, Numbered

LEMMA BringsSame ==
  ASSUME IInv, ReceivedKept, Routed' = Routed, Published' = Published,
         video_taken' \o video_pkt_queue' = video_taken \o video_pkt_queue,
         lpcm_taken' \o lpcm' = lpcm_taken \o lpcm,
         pcr_taken' \o pcr' = pcr_taken \o pcr, freed' = freed
  PROVE  Delivered'
  BY DEF IInv, ReceivedKept, Delivered, Brings

LEMMA PutPacketInv == ASSUME IInv, PutPacket PROVE IInv'
<1>1. /\ pkt # NoPacket /\ pkt' = NoPacket /\ pkt_queue' = Append(pkt_queue, pkt)
      /\ UNCHANGED <<clock, socket, arrived, received, process, pipes, taken, freed>>
  BY DEF PutPacket
<1>2. pkt \in Packets /\ pkt_queue \in Seq(Packets)
  BY <1>1 DEF IInv, TypeOK
<1>3. /\ pkt_queue' \in Seq(Packets) /\ Len(pkt_queue) \in Nat
      /\ Len(pkt_queue') = Len(pkt_queue) + 1
      /\ \A i \in 1 .. Len(pkt_queue) : pkt_queue'[i] = pkt_queue[i]
      /\ pkt_queue'[Len(pkt_queue) + 1] = pkt
  BY <1>1, <1>2, AppendElements
<1>4. TypeOK'
  BY <1>1, <1>3 DEF IInv, TypeOK, process, pipes, taken
<1>5. /\ Count(pkt) = 1 /\ Count(pkt)' = 0 /\ Count(desc)' = Count(desc)
      /\ Routed' = Routed /\ Published' = Published
  <2>1. Count(pkt) = 1 /\ Count(pkt)' = 0 /\ Count(desc)' = Count(desc)
    BY <1>1 DEF Count, process
  <2> QED
    BY <1>1, <1>3, <2>1, Counts DEF Routed, Published, process
<1>6. Waiting'
  <2>1. /\ pkt = received[Len(received)]
        /\ \A i \in 1 .. Len(pkt_queue) : pkt_queue[i] = received[Routed + Count(desc) + i]
        /\ desc # NoPacket => desc = received[Routed + 1]
    BY <1>1 DEF IInv, Waiting
  <2>2. ASSUME NEW i \in 1 .. Len(pkt_queue')
        PROVE  pkt_queue'[i] = received[Routed + Count(desc) + i]
    <3>1. CASE i \in 1 .. Len(pkt_queue)
      BY <1>3, <2>1, <3>1
    <3>2. CASE i = Len(pkt_queue) + 1
      <4>1. Routed + Count(desc) + i = Len(received)
        BY <1>5, <3>2, Counts
      <4> QED
        BY <1>3, <2>1, <3>2, <4>1
    <3> QED
      BY <1>3, <3>1, <3>2
  <2>3. received' = received /\ desc' = desc /\ Routed' >= 0
    BY <1>1, <1>5, Counts DEF process
  <2> QED
    BY <1>1, <1>5, <2>1, <2>2, <2>3 DEF Waiting
<1>7. Numbered' /\ Delivered'
  BY <1>1, <1>5, NumberedKept, BringsSame DEF ReceivedKept, pipes, taken
<1> QED
  BY <1>4, <1>6, <1>7 DEF IInv

LEMMA GetInv == ASSUME IInv, Get("reference") PROVE IInv'
<1>1. /\ stage = "get" /\ stage' = "reference" /\ desc' = Head(pkt_queue) /\ pkt_queue # <<>>
      /\ pkt_queue' = Tail(pkt_queue)
      /\ UNCHANGED <<rx, pipes, taken, freed>>
  BY DEF Get
<1>2. pkt_queue \in Seq(Packets) /\ desc = NoPacket
  BY <1>1 DEF IInv, TypeOK
<1>3. /\ Len(pkt_queue) \in Nat \ {0} /\ desc' = pkt_queue[1] /\ desc' \in Packets
      /\ pkt_queue' \in Seq(Packets) /\ Len(pkt_queue') = Len(pkt_queue) - 1
      /\ \A i \in 1 .. Len(pkt_queue') : pkt_queue'[i] = pkt_queue[i + 1]
  BY <1>1, <1>2, HeadTailElements
<1>4. desc' # NoPacket
  BY <1>3, NoPacketAssumption
<1>5. TypeOK'
  BY <1>1, <1>3, <1>4 DEF IInv, TypeOK, rx, pipes, taken
<1>6. /\ Count(desc) = 0 /\ Count(desc)' = 1
      /\ Routed' = Routed /\ Published' = Published /\ Published = Routed
  <2>1. Count(desc) = 0 /\ Count(desc)' = 1 /\ Count(pkt)' = Count(pkt)
    BY <1>1, <1>2, <1>4 DEF Count, rx
  <2> QED
    BY <1>1, <1>3, <2>1, Counts DEF Routed, Published, rx
<1>7. Waiting'
  <2>1. /\ \A i \in 1 .. Len(pkt_queue) : pkt_queue[i] = received[Routed + Count(desc) + i]
        /\ pkt # NoPacket => pkt = received[Len(received)]
    BY DEF IInv, Waiting
  <2>2. desc' = received[Routed + 1]
    BY <1>3, <1>6, <2>1, Counts
  <2>3. ASSUME NEW i \in 1 .. Len(pkt_queue') PROVE pkt_queue'[i] = received[Routed + 1 + i]
    <3>1. i + 1 \in 1 .. Len(pkt_queue) /\ Routed + Count(desc) + (i + 1) = Routed + 1 + i
      BY <1>3, <1>6, Counts
    <3> QED
      BY <1>3, <2>1, <3>1
  <2>4. received' = received /\ pkt' = pkt /\ Routed' >= 0
    BY <1>1, <1>6, Counts DEF rx
  <2> QED
    BY <1>6, <2>1, <2>2, <2>3, <2>4 DEF Waiting
<1>8. Numbered' /\ Delivered'
  BY <1>1, <1>6, NumberedKept, BringsSame DEF ReceivedKept, pipes, taken, rx
<1> QED
  BY <1>5, <1>7, <1>8 DEF IInv

(* What the packet in hand brings to a line is what comes next on it.      *)
LEMMA InHand ==
  ASSUME IInv, desc # NoPacket, NEW r \in {"video", "audio", "reference"}
  PROVE  /\ desc \in Packets /\ desc = received[Routed + 1] /\ Routed \in 0 .. Len(received) - 1
         /\ Brings(r, Routed + 1) = Brings(r, Routed) \o R!Owed(r, desc)
<1>1. received \in Seq(Packets) /\ desc \in Packets /\ desc = received[Routed + 1]
  BY DEF IInv, TypeOK, Waiting
<1>2. Routed \in 0 .. Len(received) - 1
  BY Counts DEF Count
<1> PICK k \in 0 .. Len(received) - 1 : k = Routed
  BY <1>2
<1>3. BroughtBy(r, received, k + 1)
        = BroughtBy(r, received, k) \o R!Owed(r, received[k + 1])
  BY <1>1, BringsNext
<1> QED
  BY <1>1, <1>2, <1>3 DEF Brings

LEMMA PutReferenceInv == ASSUME IInv, PutReference("route") PROVE IInv'
<1>1. /\ stage = "reference" /\ stage' = "route" /\ desc' = desc
      /\ pcr' = IF PcrGet(desc) > 0 THEN Append(pcr, PcrGet(desc)) ELSE pcr
      /\ UNCHANGED <<rx, pkt_queue, video_pkt_queue, lpcm, taken, freed>>
  BY DEF PutReference, Continue
<1>2. desc # NoPacket /\ pcr \in Seq(References) /\ pcr_taken \in Seq(References)
  BY <1>1 DEF IInv, TypeOK
<1>3. /\ desc \in Packets
      /\ Brings("reference", Routed + 1) = Brings("reference", Routed) \o R!Owed("reference", desc)
  BY <1>2, InHand
<1>4. pcr' \in Seq(References) /\ pcr_taken \o pcr' = (pcr_taken \o pcr) \o R!Owed("reference", desc)
  <2>1. CASE PcrGet(desc) > 0
    <3>1. PcrGet(desc) \in References /\ pcr' = Append(pcr, PcrGet(desc))
          /\ R!Owed("reference", desc) = <<PcrGet(desc)>>
      BY <1>1, <1>3, <2>1, PcrGetType, OwedIs DEF References
    <3>2. PICK x \in References : x = PcrGet(desc)
      BY <3>1
    <3>3. pcr_taken \o Append(pcr, x) = (pcr_taken \o pcr) \o <<x>> /\ Append(pcr, x) \in Seq(References)
      BY <1>2, PutOnPipe
    <3> QED
      BY <3>1, <3>2, <3>3
  <2>2. CASE ~ (PcrGet(desc) > 0)
    <3>1. pcr' = pcr /\ R!Owed("reference", desc) = <<>>
      BY <1>1, <1>3, <2>2, OwedIs
    <3>2. pcr_taken \o pcr \in Seq(References)
      BY <1>2, ConcatProperties
    <3> QED
      BY <1>2, <3>1, <3>2, ConcatEmptySeq
  <2> QED
    BY <2>1, <2>2
<1>5. TypeOK'
  BY <1>1, <1>2, <1>4 DEF IInv, TypeOK, rx, taken
<1>6. Routed' = Routed /\ Published = Routed /\ Published' = Routed + 1
  BY <1>1 DEF Routed, Published, Count, rx
<1>7. Waiting'
  BY <1>1, <1>6 DEF IInv, Waiting, Count, rx
<1>8. Delivered'
  <2>1. received' = received /\ \A r : (Brings(r, Routed)' = Brings(r, Routed))
    BY <1>1, <1>6 DEF Brings, rx
  <2>2. Brings("reference", Published)' = Brings("reference", Routed + 1)
    BY <1>6, <2>1 DEF Brings
  <2> QED
    BY <1>1, <1>3, <1>4, <1>6, <2>1, <2>2 DEF IInv, Delivered, taken
<1>9. Numbered'
  BY <1>1, NumberedKept DEF ReceivedKept, rx
<1> QED
  BY <1>5, <1>7, <1>8, <1>9 DEF IInv

LEMMA RouteInv == ASSUME IInv, Route("get") PROVE IInv'
<1>1. /\ stage = "route" /\ stage' = "get" /\ desc' = NoPacket /\ Switch(desc)
      /\ UNCHANGED <<rx, pkt_queue, pcr, taken>>
  BY DEF Route, Continue
<1>2. /\ desc # NoPacket
      /\ video_pkt_queue \in Seq(Packets) /\ video_taken \in Seq(Packets)
      /\ lpcm \in Seq(Packets) /\ lpcm_taken \in Seq(Packets)
      /\ freed \subseteq 1 .. MaxPackets
  BY <1>1 DEF IInv, TypeOK
<1>3. /\ desc \in Packets /\ desc = received[Routed + 1] /\ Routed \in 0 .. Len(received) - 1
      /\ Brings("video", Routed + 1) = Brings("video", Routed) \o R!Owed("video", desc)
      /\ Brings("audio", Routed + 1) = Brings("audio", Routed) \o R!Owed("audio", desc)
  BY <1>2, InHand
<1>4. video_pkt_queue' \in Seq(Packets)
      /\ video_taken \o video_pkt_queue' = (video_taken \o video_pkt_queue) \o R!Owed("video", desc)
  <2>1. CASE PktType(desc) = "video"
    <3>1. video_pkt_queue' = Append(video_pkt_queue, desc) /\ R!Owed("video", desc) = <<desc>>
      BY <1>1, <1>3, <2>1, OwedIs DEF Switch
    <3>2. desc \in Packets /\ video_pkt_queue \in Seq(Packets) /\ video_taken \in Seq(Packets)
      BY <1>2, <1>3
    <3>3. /\ video_taken \o Append(video_pkt_queue, desc) = (video_taken \o video_pkt_queue) \o <<desc>>
          /\ Append(video_pkt_queue, desc) \in Seq(Packets)
      BY <3>2, PutOnPipe
    <3> QED
      BY <3>1, <3>3
  <2>2. CASE PktType(desc) # "video"
    <3>1. video_pkt_queue' = video_pkt_queue /\ R!Owed("video", desc) = <<>>
      BY <1>1, <1>3, <2>2, OwedIs DEF Switch
    <3>2. video_taken \o video_pkt_queue \in Seq(Packets)
      BY <1>2, ConcatProperties
    <3> QED
      BY <1>2, <3>1, <3>2, ConcatEmptySeq
  <2> QED
    BY <2>1, <2>2
<1>5. lpcm' \in Seq(Packets) /\ lpcm_taken \o lpcm' = (lpcm_taken \o lpcm) \o R!Owed("audio", desc)
  <2>1. CASE PktType(desc) = "audio"
    <3>1. lpcm' = Append(lpcm, desc) /\ R!Owed("audio", desc) = <<desc>>
      BY <1>1, <1>3, <2>1, OwedIs DEF Switch
    <3>2. desc \in Packets /\ lpcm \in Seq(Packets) /\ lpcm_taken \in Seq(Packets)
      BY <1>2, <1>3
    <3>3. /\ lpcm_taken \o Append(lpcm, desc) = (lpcm_taken \o lpcm) \o <<desc>>
          /\ Append(lpcm, desc) \in Seq(Packets)
      BY <3>2, PutOnPipe
    <3> QED
      BY <3>1, <3>3
  <2>2. CASE PktType(desc) # "audio"
    <3>1. lpcm' = lpcm /\ R!Owed("audio", desc) = <<>>
      BY <1>1, <1>3, <2>2, OwedIs DEF Switch
    <3>2. lpcm_taken \o lpcm \in Seq(Packets)
      BY <1>2, ConcatProperties
    <3> QED
      BY <1>2, <3>1, <3>2, ConcatEmptySeq
  <2> QED
    BY <2>1, <2>2
<1>6. desc.num = Routed + 1 /\ Routed + 1 \in 1 .. MaxPackets
  <2>1. Routed + 1 \in 1 .. Len(received) /\ desc.num = Routed + 1
    BY <1>3, Counts DEF IInv, Numbered
  <2>2. desc.num \in 1 .. MaxPackets
    BY <1>3 DEF Packets
  <2> QED
    BY <2>1, <2>2
<1>7. freed' = IF PktType(desc) = "null" THEN freed \cup {Routed + 1} ELSE freed
  BY <1>1, <1>6 DEF Switch, DescPut
<1>8. TypeOK'
  BY <1>1, <1>2, <1>4, <1>5, <1>6, <1>7 DEF IInv, TypeOK, rx, taken
<1>9. /\ Count(desc) = 1 /\ Count(desc)' = 0 /\ Count(pkt)' = Count(pkt)
      /\ Routed' = Routed + 1 /\ Published = Routed + 1 /\ Published' = Routed + 1
  <2>1. Count(desc) = 1 /\ Count(desc)' = 0 /\ Count(pkt)' = Count(pkt)
    BY <1>1, <1>2 DEF Count, rx
  <2> QED
    BY <1>1, <2>1, Counts DEF Routed, Published, rx
<1>10. Waiting'
  <2>1. /\ \A i \in 1 .. Len(pkt_queue) : pkt_queue[i] = received[Routed + Count(desc) + i]
        /\ pkt # NoPacket => pkt = received[Len(received)]
    BY DEF IInv, Waiting
  <2>2. \A i \in 1 .. Len(pkt_queue) : Routed + Count(desc) + i = Routed' + Count(desc)' + i
    BY <1>9, Counts
  <2>3. received' = received /\ pkt' = pkt /\ pkt_queue' = pkt_queue /\ Routed' >= 0
    BY <1>1, <1>9, Counts DEF rx
  <2> QED
    BY <1>1, <2>1, <2>2, <2>3 DEF Waiting
<1>11. Delivered'
  <2>1. received' = received /\ \A r : (Brings(r, Routed)' = Brings(r, Routed + 1))
    BY <1>1, <1>9 DEF Brings, rx
  <2>2. Brings("reference", Published)' = Brings("reference", Published)
    BY <1>1, <1>9 DEF Brings, rx
  <2>3. freed' = {i \in 1 .. Routed + 1 : PktType(received[i]) = "null"}
    <3>1. freed = {i \in 1 .. Routed : PktType(received[i]) = "null"} /\ Routed \in Nat
      BY Counts DEF IInv, Delivered
    <3>2. \A i : i \in 1 .. Routed + 1 <=> i \in 1 .. Routed \/ i = Routed + 1
      BY <3>1
    <3> QED
      BY <1>3, <1>7, <3>1, <3>2
  <2> QED
    BY <1>1, <1>3, <1>4, <1>5, <1>9, <2>1, <2>2, <2>3 DEF IInv, Delivered, taken
<1>12. Numbered'
  BY <1>1, NumberedKept DEF ReceivedKept, rx
<1> QED
  BY <1>8, <1>10, <1>11, <1>12 DEF IInv

LEMMA TakeInv ==
  ASSUME IInv, TakeVideo \/ TakeAudio \/ TakeReference PROVE IInv'
<1>1. /\ video_pkt_queue \in Seq(Packets) /\ video_taken \in Seq(Packets)
      /\ lpcm \in Seq(Packets) /\ lpcm_taken \in Seq(Packets)
      /\ pcr \in Seq(References) /\ pcr_taken \in Seq(References)
  BY DEF IInv, TypeOK
<1>2. /\ video_pkt_queue' \in Seq(Packets) /\ video_taken' \in Seq(Packets)
      /\ video_taken' \o video_pkt_queue' = video_taken \o video_pkt_queue
  <2>1. CASE TakeVideo
    <3>1. video_pkt_queue # <<>> /\ video_taken' = Append(video_taken, Head(video_pkt_queue))
          /\ video_pkt_queue' = Tail(video_pkt_queue)
      BY <2>1 DEF TakeVideo
    <3>2. /\ Append(video_taken, Head(video_pkt_queue)) \o Tail(video_pkt_queue) = video_taken \o video_pkt_queue
          /\ Append(video_taken, Head(video_pkt_queue)) \in Seq(Packets) /\ Tail(video_pkt_queue) \in Seq(Packets)
      <4>1. video_pkt_queue # <<>> /\ video_pkt_queue \in Seq(Packets) /\ video_taken \in Seq(Packets)
        BY <1>1, <3>1
      <4> QED
        BY <4>1, TakeOffPipe
    <3> QED
      BY <3>1, <3>2
  <2>2. CASE TakeAudio \/ TakeReference
    BY <1>1, <2>2 DEF TakeAudio, TakeReference
  <2> QED
    BY <2>1, <2>2
<1>3. /\ lpcm' \in Seq(Packets) /\ lpcm_taken' \in Seq(Packets)
      /\ lpcm_taken' \o lpcm' = lpcm_taken \o lpcm
  <2>1. CASE TakeAudio
    <3>1. lpcm # <<>> /\ lpcm_taken' = Append(lpcm_taken, Head(lpcm)) /\ lpcm' = Tail(lpcm)
      BY <2>1 DEF TakeAudio
    <3>2. /\ Append(lpcm_taken, Head(lpcm)) \o Tail(lpcm) = lpcm_taken \o lpcm
          /\ Append(lpcm_taken, Head(lpcm)) \in Seq(Packets) /\ Tail(lpcm) \in Seq(Packets)
      <4>1. lpcm # <<>> /\ lpcm \in Seq(Packets) /\ lpcm_taken \in Seq(Packets)
        BY <1>1, <3>1
      <4> QED
        BY <4>1, TakeOffPipe
    <3> QED
      BY <3>1, <3>2
  <2>2. CASE TakeVideo \/ TakeReference
    BY <1>1, <2>2 DEF TakeVideo, TakeReference
  <2> QED
    BY <2>1, <2>2
<1>4. /\ pcr' \in Seq(References) /\ pcr_taken' \in Seq(References)
      /\ pcr_taken' \o pcr' = pcr_taken \o pcr
  <2>1. CASE TakeReference
    <3>1. pcr # <<>> /\ pcr_taken' = Append(pcr_taken, Head(pcr)) /\ pcr' = Tail(pcr)
      BY <2>1 DEF TakeReference
    <3>2. /\ Append(pcr_taken, Head(pcr)) \o Tail(pcr) = pcr_taken \o pcr
          /\ Append(pcr_taken, Head(pcr)) \in Seq(References) /\ Tail(pcr) \in Seq(References)
      <4>1. pcr # <<>> /\ pcr \in Seq(References) /\ pcr_taken \in Seq(References)
        BY <1>1, <3>1
      <4> QED
        BY <4>1, TakeOffPipe
    <3> QED
      BY <3>1, <3>2
  <2>2. CASE TakeVideo \/ TakeAudio
    BY <1>1, <2>2 DEF TakeVideo, TakeAudio
  <2> QED
    BY <2>1, <2>2
<1>5. UNCHANGED <<rx, pkt_queue, process, freed>>
  BY DEF TakeVideo, TakeAudio, TakeReference
<1>6. TypeOK'
  BY <1>2, <1>3, <1>4, <1>5 DEF IInv, TypeOK, rx, process
<1>7. Routed' = Routed /\ Published' = Published
  BY <1>5 DEF Routed, Published, Count, rx, process
<1>8. Waiting'
  BY <1>5, <1>7 DEF IInv, Waiting, Count, rx, process
<1>9. Numbered' /\ Delivered'
  BY <1>2, <1>3, <1>4, <1>5, <1>7, NumberedKept, BringsSame DEF ReceivedKept, rx
<1> QED
  BY <1>6, <1>8, <1>9 DEF IInv

LEMMA InvNext == IInv /\ [Next]_vars => IInv'
<1> SUFFICES ASSUME IInv, [Next]_vars PROVE IInv'
  OBVIOUS
<1>1. CASE UNCHANGED vars
  BY <1>1 DEF vars, rx, process, pipes, taken, IInv, TypeOK, Numbered, Waiting, Delivered,
              Routed, Published, Count, Brings
<1> QED
  BY <1>1, ArriveInv, ReceiveInv, PutPacketInv, GetInv, PutReferenceInv, RouteInv, TakeInv
     DEF Next, Process

(* Each pipe, with what was taken off it, holds exactly what the packets   *)
(* bring that the process thread is done with, in the order of arrival.    *)
THEOREM DemuxInvariant == Spec => []IInv
<1> QED
  BY InvInit, InvNext, PTL DEF Spec

-----------------------------------------------------------------------------
(* What the first packets of a sequence bring to a line: on the lines of   *)
(* video and audio each its own packets, in rising order; on the line of   *)
(* references one for each packet that has one; and what they bring is the *)
(* beginning of what more packets bring.                                   *)
IsNumbered(s) == s \in Seq(Packets) /\ \A i \in 1 .. Len(s) : s[i].num = i

Rising(b) == \A i, j \in 1 .. Len(b) : i < j => b[i].num < b[j].num

Belongs(r, s, k) == {j \in 1 .. k : PktType(s[j]) = r}

LEMMA NumsAre ==
  ASSUME NEW b \in Seq(Packets)
  PROVE  \A n : n \in Nums(b) <=> \E i \in 1 .. Len(b) : n = b[i].num
<1>1. DOMAIN b = 1 .. Len(b)
  BY LenProperties
<1> QED
  BY <1>1 DEF Nums

LEMMA BroughtNothing == ASSUME NEW s, NEW r PROVE BroughtBy(r, s, 0) = <<>>
<1>1. [i \in 1 .. 0 |-> R!Owed(r, s[i])] = <<>>
  OBVIOUS
<1> QED
  BY <1>1, FlattenEmpty DEF BroughtBy

LEMMA BroughtOwn ==
  ASSUME NEW s, IsNumbered(s), NEW r \in {"video", "audio"}, NEW n \in 0 .. Len(s)
  PROVE  /\ BroughtBy(r, s, n) \in Seq(Packets)
         /\ Nums(BroughtBy(r, s, n)) = Belongs(r, s, n)
         /\ Rising(BroughtBy(r, s, n))
<1> DEFINE B(k) == BroughtBy(r, s, k)
           P(k) == /\ B(k) \in Seq(Packets) /\ Nums(B(k)) = Belongs(r, s, k)
                   /\ Rising(B(k))
           T == {k \in Nat : k <= Len(s) => P(k)}
<1>1. Len(s) \in Nat /\ s \in Seq(Packets) /\ \A i \in 1 .. Len(s) : s[i] \in Packets /\ s[i].num = i
  BY LenProperties, ElementOfSeq DEF IsNumbered
<1>2. 0 \in T
  <2>1. B(0) = <<>> /\ <<>> \in Seq(Packets) /\ Len(<<>>) = 0 /\ DOMAIN <<>> = {}
    BY BroughtNothing, EmptyElements
  <2>2. Nums(<<>>) = {} /\ Belongs(r, s, 0) = {} /\ Rising(<<>>)
    BY <2>1 DEF Nums, Belongs, Rising
  <2> HIDE DEF B
  <2> QED
    BY <2>1, <2>2
<1>3. ASSUME NEW k \in T PROVE k + 1 \in T
  <2> SUFFICES ASSUME k + 1 <= Len(s) PROVE P(k + 1)
    OBVIOUS
  <2> DEFINE p == s[k + 1]
             b == B(k)
             o == R!Owed(r, p)
  <2>1. /\ P(k) /\ k \in 0 .. Len(s) - 1 /\ k + 1 \in 1 .. Len(s)
        /\ p \in Packets /\ p.num = k + 1
    BY <1>1
  <2>2. B(k + 1) = b \o o /\ o = IF PktType(p) = r THEN <<p>> ELSE <<>>
    BY <1>1, <2>1, BringsNext, OwedIs, ZenonT(60)
  <2>3. b \in Seq(Packets) /\ Nums(b) = Belongs(r, s, k) /\ Rising(b)
    BY <2>1
  <2>4. Belongs(r, s, k + 1) = IF PktType(p) = r THEN Belongs(r, s, k) \cup {k + 1}
                               ELSE Belongs(r, s, k)
    <3>1. \A j : j \in 1 .. k + 1 <=> j \in 1 .. k \/ j = k + 1
      BY <2>1
    <3> QED
      BY <3>1 DEF Belongs
  <2> HIDE DEF p, b, o, B
  <2>5. CASE PktType(p) = r
    <3>1. B(k + 1) = Append(b, p)
      BY <2>1, <2>2, <2>3, <2>5, AppendIsConcat
    <3> DEFINE c == Append(b, p)
    <3>2. /\ c \in Seq(Packets) /\ Len(b) \in Nat /\ Len(c) = Len(b) + 1
          /\ \A i \in 1 .. Len(b) : c[i] = b[i]
          /\ c[Len(b) + 1] = p
      BY <2>1, <2>3, AppendElements
    <3> HIDE DEF c
    <3>3. \A i \in 1 .. Len(b) : b[i].num \in 1 .. k
      BY <2>3, NumsAre DEF Belongs
    <3>4. Rising(c)
      <4> SUFFICES ASSUME NEW i \in 1 .. Len(c), NEW j \in 1 .. Len(c), i < j
                   PROVE  c[i].num < c[j].num
        BY DEF Rising
      <4>1. i \in 1 .. Len(b) /\ (j \in 1 .. Len(b) \/ j = Len(b) + 1)
        BY <3>2
      <4>2. CASE j \in 1 .. Len(b)
        BY <2>3, <3>2, <4>1, <4>2 DEF Rising
      <4>3. CASE j = Len(b) + 1
        <5>1. c[i].num \in 1 .. k /\ c[j].num = k + 1
          BY <2>1, <3>2, <3>3, <4>1, <4>3
        <5> QED
          BY <2>1, <5>1
      <4> QED
        BY <4>1, <4>2, <4>3
    <3>5. Nums(c) = Nums(b) \cup {k + 1}
      <4>1. ASSUME NEW n2 PROVE n2 \in Nums(c) <=> n2 \in Nums(b) \/ n2 = k + 1
        <5>1. n2 \in Nums(c) <=> \E i \in 1 .. Len(c) : n2 = c[i].num
          BY <3>2, NumsAre
        <5>2. n2 \in Nums(b) <=> \E i \in 1 .. Len(b) : n2 = b[i].num
          BY <2>3, NumsAre
        <5>3. \A i : i \in 1 .. Len(c) <=> i \in 1 .. Len(b) \/ i = Len(b) + 1
          BY <3>2
        <5>4. c[Len(b) + 1].num = k + 1
          BY <2>1, <3>2
        <5> QED
          BY <3>2, <5>1, <5>2, <5>3, <5>4
      <4> QED
        BY <4>1
    <3> QED
      BY <2>3, <2>4, <2>5, <3>1, <3>2, <3>4, <3>5 DEF c
  <2>6. CASE PktType(p) # r
    <3>1. B(k + 1) = b
      BY <2>2, <2>3, <2>6, ConcatEmptySeq
    <3> QED
      BY <2>3, <2>4, <2>6, <3>1
  <2> QED
    BY <2>5, <2>6
<1> HIDE DEF P
<1>4. T = Nat
  BY <1>2, <1>3, NumberInduction
<1>5. n \in T
  BY <1>1, <1>4
<1> QED
  BY <1>1, <1>5 DEF P

LEMMA BroughtReferences ==
  ASSUME NEW s, IsNumbered(s), NEW n \in 0 .. Len(s)
  PROVE  /\ BroughtBy("reference", s, n) \in Seq(References)
         /\ IsFiniteSet({j \in 1 .. n : PcrGet(s[j]) > 0})
         /\ Len(BroughtBy("reference", s, n)) = Cardinality({j \in 1 .. n : PcrGet(s[j]) > 0})
<1> DEFINE B(k) == BroughtBy("reference", s, k)
           H(k) == {j \in 1 .. k : PcrGet(s[j]) > 0}
           P(k) == /\ B(k) \in Seq(References) /\ IsFiniteSet(H(k))
                   /\ Len(B(k)) = Cardinality(H(k))
           T == {k \in Nat : k <= Len(s) => P(k)}
<1>1. Len(s) \in Nat /\ s \in Seq(Packets) /\ \A i \in 1 .. Len(s) : s[i] \in Packets
  BY LenProperties, ElementOfSeq DEF IsNumbered
<1>2. 0 \in T
  <2>1. B(0) = <<>> /\ <<>> \in Seq(References) /\ Len(<<>>) = 0
    BY BroughtNothing, EmptyElements
  <2>2. H(0) = {}
    OBVIOUS
  <2> HIDE DEF B, H
  <2> QED
    BY <2>1, <2>2, FS_EmptySet
<1>3. ASSUME NEW k \in T PROVE k + 1 \in T
  <2> SUFFICES ASSUME k + 1 <= Len(s) PROVE P(k + 1)
    OBVIOUS
  <2> DEFINE p == s[k + 1]
             b == B(k)
             o == R!Owed("reference", p)
  <2>1. /\ P(k) /\ k \in 0 .. Len(s) - 1 /\ k + 1 \in 1 .. Len(s) /\ p \in Packets
    BY <1>1
  <2>2. B(k + 1) = b \o o /\ o = IF PcrGet(p) > 0 THEN <<PcrGet(p)>> ELSE <<>>
    BY <1>1, <2>1, BringsNext, OwedIs
  <2>3. b \in Seq(References) /\ IsFiniteSet(H(k)) /\ Len(b) = Cardinality(H(k))
    BY <2>1
  <2>4. H(k + 1) = IF PcrGet(p) > 0 THEN H(k) \cup {k + 1} ELSE H(k)
    <3>1. \A j : j \in 1 .. k + 1 <=> j \in 1 .. k \/ j = k + 1
      BY <2>1
    <3> QED
      BY <3>1
  <2>5. k + 1 \notin H(k)
    BY <2>1
  <2>6. PcrGet(p) \in Nat
    BY <2>1, PcrGetType
  <2> HIDE DEF p, b, o, B, H
  <2>7. CASE PcrGet(p) > 0
    <3>1. PICK x \in References : x = PcrGet(p)
      BY <2>6, <2>7 DEF References
    <3>2. B(k + 1) = Append(b, x)
      BY <2>2, <2>3, <2>7, <3>1, AppendIsConcat
    <3>3. Append(b, x) \in Seq(References) /\ Len(Append(b, x)) = Len(b) + 1
      BY <2>3, <3>1, AppendElements
    <3>4. IsFiniteSet(H(k) \cup {k + 1}) /\ Cardinality(H(k) \cup {k + 1}) = Cardinality(H(k)) + 1
      BY <2>3, <2>5, FS_AddElement
    <3> QED
      BY <2>3, <2>4, <2>7, <3>2, <3>3, <3>4
  <2>8. CASE ~ (PcrGet(p) > 0)
    <3>1. B(k + 1) = b
      BY <2>2, <2>3, <2>8, ConcatEmptySeq
    <3> QED
      BY <2>3, <2>4, <2>8, <3>1
  <2> QED
    BY <2>7, <2>8
<1> HIDE DEF P
<1>4. T = Nat
  BY <1>2, <1>3, NumberInduction
<1>5. n \in T
  BY <1>1, <1>4
<1> QED
  BY <1>1, <1>5 DEF P

(* Each line carries what it should.                                       *)
Lines == {"video", "audio", "reference"}

Goods(r) == IF r = "reference" THEN References ELSE Packets

LEMMA BroughtType ==
  ASSUME NEW s, IsNumbered(s), NEW r \in Lines, NEW n \in 0 .. Len(s)
  PROVE  BroughtBy(r, s, n) \in Seq(Goods(r))
<1>1. CASE r = "reference"
  BY <1>1, BroughtReferences DEF Goods
<1>2. CASE r \in {"video", "audio"}
  BY <1>2, BroughtOwn DEF Goods
<1> QED
  BY <1>1, <1>2 DEF Lines

IsBeginning(b, c) == Len(b) <= Len(c) /\ \A i \in 1 .. Len(b) : b[i] = c[i]

LEMMA BroughtFirst ==
  ASSUME NEW s, IsNumbered(s), NEW r \in Lines, NEW m \in 0 .. Len(s), NEW n \in m .. Len(s)
  PROVE  IsBeginning(BroughtBy(r, s, m), BroughtBy(r, s, n))
<1> DEFINE B(k) == BroughtBy(r, s, k)
           P(k) == IsBeginning(B(m), B(k))
           T == {k \in Nat : m + k <= Len(s) => P(m + k)}
<1>1. Len(s) \in Nat /\ m \in Nat /\ s \in Seq(Packets) /\ \A i \in 1 .. Len(s) : s[i] \in Packets
  BY LenProperties, ElementOfSeq DEF IsNumbered
<1>2. \A k \in 0 .. Len(s) : B(k) \in Seq(Goods(r)) /\ Len(B(k)) \in Nat
  BY BroughtType, LenProperties
<1> HIDE DEF B
<1>3. 0 \in T
  BY <1>1, <1>2 DEF IsBeginning
<1>4. ASSUME NEW k \in T PROVE k + 1 \in T
  <2> SUFFICES ASSUME m + (k + 1) <= Len(s) PROVE P(m + (k + 1))
    OBVIOUS
  <2> DEFINE j == m + k
             o == R!Owed(r, s[j + 1])
  <2>1. j \in 0 .. Len(s) - 1 /\ j + 1 \in 1 .. Len(s) /\ m + (k + 1) = j + 1 /\ P(j)
    BY <1>1
  <2>2. B(j + 1) = B(j) \o o
    BY <1>1, <2>1, BringsNext DEF B, Lines
  <2>3. o \in Seq(Goods(r))
    BY <1>1, <2>1, OwedType DEF Lines, Goods
  <2>4. B(j) \in Seq(Goods(r)) /\ B(m) \in Seq(Goods(r)) /\ Len(B(j)) \in Nat /\ Len(B(m)) \in Nat
    BY <1>1, <1>2, <2>1
  <2> HIDE DEF o, j
  <2>5. /\ Len(B(j) \o o) = Len(B(j)) + Len(o) /\ Len(o) \in Nat
        /\ \A i \in 1 .. Len(B(j)) + Len(o) :
             (B(j) \o o)[i] = IF i <= Len(B(j)) THEN B(j)[i] ELSE o[i - Len(B(j))]
    BY <2>3, <2>4, ConcatProperties, LenProperties
  <2>6. ASSUME NEW i \in 1 .. Len(B(m)) PROVE B(m)[i] = (B(j) \o o)[i]
    <3>1. i <= Len(B(j)) /\ i \in 1 .. Len(B(j)) + Len(o) /\ B(m)[i] = B(j)[i]
      BY <2>1, <2>4, <2>5 DEF IsBeginning
    <3> QED
      BY <2>5, <3>1
  <2>7. Len(B(m)) <= Len(B(j) \o o)
    BY <2>1, <2>4, <2>5 DEF IsBeginning
  <2> QED
    BY <2>1, <2>2, <2>6, <2>7 DEF IsBeginning
<1> HIDE DEF P
<1>5. T = Nat
  BY <1>3, <1>4, NumberInduction
<1>6. n - m \in Nat /\ m + (n - m) = n /\ n <= Len(s)
  BY <1>1
<1>7. P(n)
  <2>1. n - m \in T
    BY <1>5, <1>6
  <2>2. m + (n - m) <= Len(s) => P(m + (n - m))
    BY <2>1
  <2> QED
    BY <1>6, <2>2
<1> QED
  BY <1>7 DEF P, B

-----------------------------------------------------------------------------
(* A pipe and what was taken off it have no packet in common, and          *)
(* together those of what was brought.                                     *)
LEMMA PipeNums ==
  ASSUME NEW s \in Seq(Packets), NEW t \in Seq(Packets)
  PROVE  /\ Nums(s \o t) = Nums(s) \cup Nums(t)
         /\ Rising(s \o t) => Nums(s) \cap Nums(t) = {}
<1> DEFINE b == s \o t
           m == Len(s)
           n == Len(t)
<1>1. /\ b \in Seq(Packets) /\ Len(b) = m + n /\ m \in Nat /\ n \in Nat
      /\ \A i \in 1 .. m + n : b[i] = IF i <= m THEN s[i] ELSE t[i - m]
  BY ConcatProperties, LenProperties
<1> HIDE DEF b
<1>2. /\ \A x : x \in Nums(s) <=> \E i \in 1 .. m : x = s[i].num
      /\ \A x : x \in Nums(t) <=> \E i \in 1 .. n : x = t[i].num
      /\ \A x : x \in Nums(b) <=> \E i \in 1 .. m + n : x = b[i].num
  BY <1>1, NumsAre
<1> HIDE DEF m, n
<1>3. \A i \in 1 .. m : i \in 1 .. m + n /\ b[i] = s[i]
  BY <1>1
<1>4. ASSUME NEW i \in 1 .. n PROVE m + i \in 1 .. m + n /\ b[m + i] = t[i]
  <2>1. m + i \in 1 .. m + n /\ ~ (m + i <= m) /\ (m + i) - m = i
    BY <1>1
  <2> QED
    BY <1>1, <2>1
<1>5. ASSUME NEW i \in 1 .. m + n, i \notin 1 .. m PROVE i - m \in 1 .. n /\ b[i] = t[i - m]
  BY <1>1, <1>5
<1>6. Nums(b) = Nums(s) \cup Nums(t)
  <2>1. ASSUME NEW x \in Nums(s) \cup Nums(t) PROVE x \in Nums(b)
    BY <1>2, <1>3, <1>4
  <2>2. ASSUME NEW x \in Nums(b) PROVE x \in Nums(s) \cup Nums(t)
    <3>1. PICK i \in 1 .. m + n : x = b[i].num
      BY <1>2
    <3> QED
      BY <1>2, <1>3, <1>5, <3>1
  <2> QED
    BY <2>1, <2>2
<1>7. ASSUME Rising(b), NEW x \in Nums(s), x \in Nums(t) PROVE FALSE
  <2>1. PICK i \in 1 .. m : x = s[i].num
    BY <1>2
  <2>2. PICK j \in 1 .. n : x = t[j].num
    BY <1>2, <1>7
  <2>3. i \in 1 .. m + n /\ m + j \in 1 .. m + n /\ i < m + j
    BY <1>1
  <2>6. b[i].num = x /\ b[m + j].num = x
    BY <1>3, <1>4, <2>1, <2>2
  <2>4. b[i].num < b[m + j].num
    BY <1>1, <1>7, <2>3 DEF Rising
  <2>5. x \in Nat
    <3>1. s[i] \in Packets
      BY <2>1, ElementOfSeq DEF m
    <3> QED
      BY <2>1, <3>1 DEF Packets
  <2> QED
    BY <2>4, <2>5, <2>6
<1> QED
  BY <1>6, <1>7 DEF b

(* The invariant places every number.                                      *)
LEMMA PlacesAre ==
  ASSUME IInv
  PROVE  /\ Nums(received) = 1 .. Len(received)
         /\ Held(pkt) = IF Count(pkt) = 1 THEN {Len(received)} ELSE {}
         /\ Nums(pkt_queue) = Routed + Count(desc) + 1 .. Routed + Count(desc) + Len(pkt_queue)
         /\ Held(desc) = IF Count(desc) = 1 THEN {Routed + 1} ELSE {}
         /\ Nums(video_taken) \cup Nums(video_pkt_queue) = Belongs("video", received, Routed)
         /\ Nums(video_taken) \cap Nums(video_pkt_queue) = {}
         /\ Nums(lpcm_taken) \cup Nums(lpcm) = Belongs("audio", received, Routed)
         /\ Nums(lpcm_taken) \cap Nums(lpcm) = {}
         /\ freed = Belongs("null", received, Routed)
<1>1. /\ received \in Seq(Packets) /\ pkt_queue \in Seq(Packets)
      /\ video_pkt_queue \in Seq(Packets) /\ video_taken \in Seq(Packets)
      /\ lpcm \in Seq(Packets) /\ lpcm_taken \in Seq(Packets)
  BY DEF IInv, TypeOK
<1>2. IsNumbered(received) /\ Routed \in 0 .. Len(received)
  BY <1>1, Counts DEF IInv, Numbered, IsNumbered
<1>3. Nums(received) = 1 .. Len(received)
  <2>1. \A n : n \in Nums(received) <=> \E i \in 1 .. Len(received) : n = received[i].num
    BY <1>1, NumsAre
  <2>2. \A i \in 1 .. Len(received) : received[i].num = i
    BY <1>2 DEF IsNumbered
  <2>3. \A n : n \in Nums(received) <=> n \in 1 .. Len(received)
    BY <2>1, <2>2
  <2> QED
    BY <2>3
<1>4. Held(pkt) = IF Count(pkt) = 1 THEN {Len(received)} ELSE {}
  <2>1. pkt # NoPacket => pkt = received[Len(received)] /\ Len(received) \in 1 .. Len(received)
    BY Counts DEF IInv, Waiting, Count
  <2>2. pkt # NoPacket => pkt.num = Len(received)
    BY <1>2, <2>1 DEF IsNumbered
  <2>3. CASE pkt = NoPacket
    BY <2>3 DEF Held, Count
  <2>4. CASE pkt # NoPacket
    BY <2>2, <2>4 DEF Held, Count
  <2> QED
    BY <2>3, <2>4
<1>5. Held(desc) = IF Count(desc) = 1 THEN {Routed + 1} ELSE {}
  <2>1. desc # NoPacket => desc = received[Routed + 1] /\ Routed + 1 \in 1 .. Len(received)
    BY Counts DEF IInv, Waiting, Count
  <2>2. desc # NoPacket => desc.num = Routed + 1
    BY <1>2, <2>1 DEF IsNumbered
  <2>3. CASE desc = NoPacket
    BY <2>3 DEF Held, Count
  <2>4. CASE desc # NoPacket
    BY <2>2, <2>4 DEF Held, Count
  <2> QED
    BY <2>3, <2>4
<1>6. Nums(pkt_queue) = Routed + Count(desc) + 1 .. Routed + Count(desc) + Len(pkt_queue)
  <2> DEFINE k == Routed + Count(desc)
  <2>1. k \in Nat /\ Len(pkt_queue) \in Nat /\ \A i \in 1 .. Len(pkt_queue) : k + i \in 1 .. Len(received)
    BY Counts
  <2>2. \A i \in 1 .. Len(pkt_queue) : pkt_queue[i] = received[k + i]
    BY DEF IInv, Waiting
  <2> HIDE DEF k
  <2>3. \A i \in 1 .. Len(pkt_queue) : pkt_queue[i].num = k + i
    BY <1>2, <2>1, <2>2 DEF IsNumbered
  <2>4. \A n : n \in Nums(pkt_queue) <=> \E i \in 1 .. Len(pkt_queue) : n = pkt_queue[i].num
    BY <1>1, NumsAre
  <2>5. ASSUME NEW n \in k + 1 .. k + Len(pkt_queue) PROVE n \in Nums(pkt_queue)
    <3>1. n - k \in 1 .. Len(pkt_queue) /\ k + (n - k) = n
      BY <2>1
    <3> QED
      BY <2>3, <2>4, <3>1
  <2>6. ASSUME NEW n \in Nums(pkt_queue) PROVE n \in k + 1 .. k + Len(pkt_queue)
    <3>1. PICK i \in 1 .. Len(pkt_queue) : n = k + i
      BY <2>3, <2>4
    <3> QED
      BY <2>1, <3>1
  <2> QED
    BY <2>5, <2>6 DEF k
<1>7. /\ Nums(video_taken \o video_pkt_queue) = Belongs("video", received, Routed)
      /\ Rising(video_taken \o video_pkt_queue)
      /\ Nums(lpcm_taken \o lpcm) = Belongs("audio", received, Routed)
      /\ Rising(lpcm_taken \o lpcm)
  BY <1>2, BroughtOwn DEF IInv, Delivered, Brings
<1>8. freed = Belongs("null", received, Routed)
  BY DEF IInv, Delivered, Belongs
<1> QED
  BY <1>1, <1>3, <1>4, <1>5, <1>6, <1>7, <1>8, PipeNums

LEMMA PktTypeIs ==
  ASSUME NEW p \in Packets PROVE PktType(p) \in {"video", "audio", "null"}
<1>1. LET i == FirstCell(p, {"video", "audio"}) IN i # 0 => p.cells[i] \in {"video", "audio"}
  BY FirstCellIs
<1> QED
  BY <1>1 DEF PktType

(* Every packet received has exactly one owner: no thread, pipe or decoder *)
(* has a buffer that another one has or that is freed, and none is lost.   *)
THEOREM EveryPacketHasOneOwner == Spec => []OneOwner
<1>1. IInv => OneOwner
  <2> SUFFICES ASSUME IInv, NEW n \in Nums(received)
               PROVE  \E i \in DOMAIN Places :
                        n \in Places[i] /\ \A j \in DOMAIN Places \ {i} : n \notin Places[j]
    BY DEF OneOwner, IInv
  <2> DEFINE P == Places
             k == Routed
             c == Count(desc)
             l == Len(pkt_queue)
             q == Count(pkt)
             N == Len(received)
             Only(i) == n \in P[i] /\ \A j \in 1 .. 8 : j # i => n \notin P[j]
  <2>1. /\ k \in Nat /\ l \in Nat /\ N \in Nat /\ c \in {0, 1} /\ q \in {0, 1}
        /\ k + c + l + q = N /\ n \in 1 .. N
    BY Counts, PlacesAre
  <2>2. /\ P[1] = Held(pkt) /\ P[2] = Nums(pkt_queue) /\ P[3] = Held(desc)
        /\ P[4] = Nums(video_pkt_queue) /\ P[5] = Nums(video_taken)
        /\ P[6] = Nums(lpcm) /\ P[7] = Nums(lpcm_taken) /\ P[8] = freed
        /\ DOMAIN P = 1 .. 8
    BY DEF Places
  <2>3. /\ n \in P[1] <=> q = 1 /\ n = N
        /\ n \in P[2] <=> n \in k + c + 1 .. k + c + l
        /\ n \in P[3] <=> c = 1 /\ n = k + 1
    BY <2>2, PlacesAre
  <2>4. /\ n \in P[4] \/ n \in P[5] <=> n \in 1 .. k /\ PktType(received[n]) = "video"
        /\ ~ (n \in P[4] /\ n \in P[5])
        /\ n \in P[6] \/ n \in P[7] <=> n \in 1 .. k /\ PktType(received[n]) = "audio"
        /\ ~ (n \in P[6] /\ n \in P[7])
        /\ n \in P[8] <=> n \in 1 .. k /\ PktType(received[n]) = "null"
    BY <2>2, PlacesAre DEF Belongs
  <2>5. PktType(received[n]) \in {"video", "audio", "null"}
    BY <2>1, Counts, PktTypeIs
  <2> HIDE DEF P, k, c, l, q, N
  <2>6. CASE n <= k
    <3>1. n \notin P[1] /\ n \notin P[2] /\ n \notin P[3] /\ n \in 1 .. k
      BY <2>1, <2>3, <2>6
    <3> QED
      BY <2>2, <2>4, <2>5, <3>1 DEF P
  <2>7. CASE ~ (n <= k)
    <3>1. n \notin 1 .. k
      BY <2>1, <2>7
    <3>2. n \notin P[4] /\ n \notin P[5] /\ n \notin P[6] /\ n \notin P[7] /\ n \notin P[8]
      BY <2>4, <3>1
    <3>3. \/ n \in P[1] /\ n \notin P[2] /\ n \notin P[3]
          \/ n \notin P[1] /\ n \in P[2] /\ n \notin P[3]
          \/ n \notin P[1] /\ n \notin P[2] /\ n \in P[3]
      BY <2>1, <2>3, <2>7
    <3> QED
      BY <2>2, <3>2, <3>3 DEF P
  <2> QED
    BY <2>6, <2>7
<1> QED
  BY <1>1, DemuxInvariant, PTL

(* No packet is ahead of the clock: when a decoder can have it, its own    *)
(* reference and those of all packets before it are published.             *)
THEOREM ClockComesFirst == Spec => []ReferenceFirst
<1>1. IInv => ReferenceFirst
  <2> DEFINE V == video_pkt_queue \o video_taken
             A == V \o lpcm
             B == A \o lpcm_taken
             H(n) == {i \in DOMAIN received : received[i].num <= n /\ PcrGet(received[i]) > 0}
             K == {i \in 1 .. Published : PcrGet(received[i]) > 0}
  <2> SUFFICES ASSUME IInv, NEW n \in Nums(B)
               PROVE  Len(pcr_taken \o pcr) >= Cardinality(H(n))
    BY DEF ReferenceFirst
  <2>1. /\ received \in Seq(Packets)
        /\ video_pkt_queue \in Seq(Packets) /\ video_taken \in Seq(Packets)
        /\ lpcm \in Seq(Packets) /\ lpcm_taken \in Seq(Packets)
    BY DEF IInv, TypeOK
  <2>2. n \in Nums(video_pkt_queue) \cup Nums(video_taken) \cup Nums(lpcm) \cup Nums(lpcm_taken)
    <3>1. V \in Seq(Packets) /\ Nums(V) = Nums(video_pkt_queue) \cup Nums(video_taken)
      BY <2>1, PipeNums, ConcatProperties
    <3> HIDE DEF V
    <3>2. A \in Seq(Packets) /\ Nums(A) = Nums(V) \cup Nums(lpcm)
      BY <2>1, <3>1, PipeNums, ConcatProperties
    <3> HIDE DEF A
    <3>3. Nums(B) = Nums(A) \cup Nums(lpcm_taken)
      BY <2>1, <3>2, PipeNums
    <3> QED
      BY <3>1, <3>2, <3>3
  <2>3. n \in 1 .. Routed
    BY <2>2, PlacesAre DEF Belongs
  <2>4. Published \in 0 .. Len(received) /\ Routed <= Published /\ Routed \in Nat
    <3>1. stage = "route" => Count(desc) = 1
      BY DEF Count, IInv, TypeOK
    <3> QED
      BY <3>1, Counts
  <2>5. IsNumbered(received)
    BY <2>1 DEF IInv, Numbered, IsNumbered
  <2>6. /\ IsFiniteSet(K)
        /\ Len(BroughtBy("reference", received, Published)) = Cardinality(K)
    <3>1. PICK m \in 0 .. Len(received) : m = Published
      BY <2>4
    <3>2. /\ IsFiniteSet({j \in 1 .. m : PcrGet(received[j]) > 0})
          /\ Len(BroughtBy("reference", received, m)) = Cardinality({j \in 1 .. m : PcrGet(received[j]) > 0})
      BY <2>5, BroughtReferences
    <3> QED
      BY <3>1, <3>2
  <2>7. H(n) \subseteq K
    <3>1. DOMAIN received = 1 .. Len(received)
      BY <2>1, LenProperties
    <3>2. \A i \in DOMAIN received : i \in Nat /\ i >= 1 /\ received[i].num = i
      BY <2>5, <3>1 DEF IsNumbered
    <3>3. \A i \in DOMAIN received : received[i].num <= n => i \in 1 .. Published
      BY <2>3, <2>4, <3>2
    <3> QED
      BY <3>3
  <2>8. pcr_taken \o pcr = BroughtBy("reference", received, Published)
    BY DEF IInv, Delivered, Brings
  <2> HIDE DEF H, K
  <2>9. Cardinality(H(n)) <= Cardinality(K) /\ Cardinality(H(n)) \in Nat /\ Cardinality(K) \in Nat
    BY <2>6, <2>7, FS_Subset, FS_CardinalityType
  <2> QED
    BY <2>6, <2>8, <2>9
<1> QED
  BY <1>1, DemuxInvariant, PTL

-----------------------------------------------------------------------------
(* What is next on a pipe is what is due next on its line.                 *)
LEMMA NextOnLine ==
  ASSUME IInv, NEW r \in Lines, NEW k \in 0 .. Len(received),
         NEW took \in Seq(Goods(r)), NEW pipe \in Seq(Goods(r)), pipe # <<>>,
         took \o pipe = BroughtBy(r, received, k)
  PROVE  Len(took) < Len(R!Due(r)) /\ R!Due(r)[Len(took) + 1] = Head(pipe)
<1> DEFINE b == took \o pipe
           d == R!Due(r)
           i == Len(took) + 1
<1>1. received \in Seq(Packets) /\ Len(received) \in Nat /\ IsNumbered(received)
  BY Counts DEF IInv, TypeOK, Numbered, IsNumbered
<1>2. d = BroughtBy(r, received, Len(received))
  <2>1. DOMAIN received = 1 .. Len(received)
    BY <1>1, LenProperties
  <2>2. \A q : R!FlattenSeq(q) = FlattenSeq(q)
    BY DEF R!FlattenSeq, FlattenSeq
  <2>3. d = FlattenSeq([n \in DOMAIN received |-> R!Owed(r, received[n])])
    BY <2>2 DEF R!Due
  <2> QED
    BY <2>1, <2>3 DEF BroughtBy
<1>3. d \in Seq(Goods(r)) /\ Len(d) \in Nat
  BY <1>1, <1>2, BroughtType, LenProperties
<1>4. IsBeginning(b, d)
  <2>1. Len(received) \in k .. Len(received)
    BY <1>1
  <2>2. IsBeginning(BroughtBy(r, received, k), BroughtBy(r, received, Len(received)))
    BY <1>1, <2>1, BroughtFirst
  <2> QED
    BY <1>2, <2>2
<1>5. Len(took) \in Nat /\ Len(pipe) \in Nat \ {0} /\ pipe[1] = Head(pipe)
  BY HeadTailElements, LenProperties
<1>6. /\ Len(b) = Len(took) + Len(pipe)
      /\ \A j \in 1 .. Len(took) + Len(pipe) :
           b[j] = IF j <= Len(took) THEN took[j] ELSE pipe[j - Len(took)]
  BY ConcatProperties
<1>7. i \in 1 .. Len(took) + Len(pipe) /\ ~ (i <= Len(took)) /\ i - Len(took) = 1
  BY <1>5
<1> HIDE DEF b, d, i
<1>8. b[i] = Head(pipe) /\ i \in 1 .. Len(b)
  BY <1>5, <1>6, <1>7
<1>9. d[i] = Head(pipe) /\ i <= Len(d)
  BY <1>3, <1>4, <1>5, <1>6, <1>7, <1>8 DEF IsBeginning
<1> QED
  BY <1>3, <1>5, <1>9 DEF d, i

LEMMA RefNext == ASSUME IInv, [Next]_vars PROVE [R!Next]_(R!vars)
<1> USE DEF R!vars
<1>1. CASE UNCHANGED vars
  BY <1>1 DEF vars, rx, taken
<1>2. CASE Arrive
  BY <1>2 DEF Arrive, taken
<1>3. CASE Receive
  <2>1. socket \in Seq(Packets)
    BY DEF IInv, TypeOK
  <2>2. Head(socket) \in Packets /\ received' = Append(received, Head(socket)) /\ UNCHANGED taken
    BY <1>3, <2>1, HeadTailElements DEF Receive
  <2> QED
    BY <2>2 DEF taken, R!Next, R!Arrive
<1>4. CASE PutPacket \/ Process
  BY <1>4 DEF PutPacket, Process, Get, PutReference, Route, rx, taken
<1>5. Routed \in 0 .. Len(received) /\ Published \in 0 .. Len(received)
  <2>1. stage = "route" => Count(desc) = 1
    BY DEF Count, IInv, TypeOK
  <2> QED
    BY <2>1, Counts
<1>6. CASE TakeVideo
  <2>1. /\ video_pkt_queue # <<>> /\ video_taken' = Append(video_taken, Head(video_pkt_queue))
        /\ UNCHANGED <<received, lpcm_taken, pcr_taken>>
    BY <1>6 DEF TakeVideo, rx
  <2>2. /\ "video" \in Lines /\ video_pkt_queue \in Seq(Goods("video"))
        /\ video_taken \in Seq(Goods("video"))
        /\ video_taken \o video_pkt_queue = BroughtBy("video", received, Routed)
    BY DEF IInv, TypeOK, Lines, Goods, Delivered, Brings
  <2>3. Len(video_taken) < Len(R!Due("video"))
        /\ R!Due("video")[Len(video_taken) + 1] = Head(video_pkt_queue)
    BY <1>5, <2>1, <2>2, NextOnLine
  <2>4. R!Deliver("video")
    BY <2>1, <2>3, SMTT(30) DEF R!Deliver
  <2> QED
    BY <2>4 DEF R!Next, R!Lines
<1>7. CASE TakeAudio
  <2>1. /\ lpcm # <<>> /\ lpcm_taken' = Append(lpcm_taken, Head(lpcm))
        /\ UNCHANGED <<received, video_taken, pcr_taken>>
    BY <1>7 DEF TakeAudio, rx
  <2>2. /\ "audio" \in Lines /\ lpcm \in Seq(Goods("audio"))
        /\ lpcm_taken \in Seq(Goods("audio"))
        /\ lpcm_taken \o lpcm = BroughtBy("audio", received, Routed)
    BY DEF IInv, TypeOK, Lines, Goods, Delivered, Brings
  <2>3. Len(lpcm_taken) < Len(R!Due("audio"))
        /\ R!Due("audio")[Len(lpcm_taken) + 1] = Head(lpcm)
    BY <1>5, <2>1, <2>2, NextOnLine
  <2>4. R!Deliver("audio")
    <3> DEFINE old == [video |-> video_taken, audio |-> lpcm_taken, reference |-> pcr_taken]
    <3>1. [video |-> video_taken, audio |-> lpcm_taken', reference |-> pcr_taken]
            = [old EXCEPT !["audio"] = lpcm_taken']
      OBVIOUS
    <3>2. old["audio"] = lpcm_taken
      OBVIOUS
    <3> QED
      BY <2>1, <2>3, <3>1, <3>2 DEF R!Deliver
  <2> QED
    BY <2>4 DEF R!Next, R!Lines
<1>8. CASE TakeReference
  <2>1. /\ pcr # <<>> /\ pcr_taken' = Append(pcr_taken, Head(pcr))
        /\ UNCHANGED <<received, video_taken, lpcm_taken>>
    BY <1>8 DEF TakeReference, rx
  <2>2. /\ "reference" \in Lines /\ pcr \in Seq(Goods("reference"))
        /\ pcr_taken \in Seq(Goods("reference"))
        /\ pcr_taken \o pcr = BroughtBy("reference", received, Published)
    BY DEF IInv, TypeOK, Lines, Goods, Delivered, Brings
  <2>3. Len(pcr_taken) < Len(R!Due("reference"))
        /\ R!Due("reference")[Len(pcr_taken) + 1] = Head(pcr)
    BY <1>5, <2>1, <2>2, NextOnLine
  <2>4. R!Deliver("reference")
    BY <2>1, <2>3, SMTT(30) DEF R!Deliver
  <2> QED
    BY <2>4 DEF R!Next, R!Lines
<1> QED
  BY <1>1, <1>2, <1>3, <1>4, <1>6, <1>7, <1>8 DEF Next

(* Whatever the threads and pipes between do, and however the reference is *)
(* cut into fields and put together again, what the decoders and the clock *)
(* are given, and in which order, is what the router gives them.           *)
THEOREM RoutesInOrder == Spec => R!SafeSpec
<1>1. Init => R!Init
  BY DEF Init, R!Init, R!Lines
<1>2. IInv /\ [Next]_vars => [R!Next]_(R!vars)
  BY RefNext
<1> QED
  BY <1>1, <1>2, DemuxInvariant, PTL DEF Spec, R!SafeSpec
=============================================================================
