---------------------------- MODULE VideoDecoder ----------------------------
(***************************************************************************)
(* mgmt_video_decoder/src/sx_mgmt_video_decoder.c: the thread that gathers *)
(* the RTP packets of one PES unit (a slice) into a chain and puts it on   *)
(* the SLICE pipe, and that drops what it has when the continuity counters *)
(* show a loss.                                                            *)
(*                                                                         *)
(* The source sends slice 1, 2, ..., each as one or more packets; a packet *)
(* carries one or more transport stream cells of the video PID.  Cells are *)
(* numbered from 1 across all packets, and the counter of a cell is its    *)
(* number modulo CCMod (16 in the format).  A slice starts in the first    *)
(* packet that carries it and the presentation times of the slices grow,   *)
(* so the number of a slice stands for its time.  UDP may lose a packet or *)
(* let one overtake another.                                               *)
(*                                                                         *)
(* A definition whose comment begins with "Slip" is not part of the        *)
(* specification: put in the place of the one it is named after, it is a   *)
(* plausible mistake that breaks the property it names.                    *)
(***************************************************************************)
EXTENDS Naturals, Sequences, FiniteSets, SequencesExt

CONSTANTS
  CCMod,        \* continuity counters are counted modulo this (16)
  CellCounts,   \* how many video cells a packet may carry
  MaxSlices,    \* bound: slices the source sends
  MaxPkts,      \* bound: packets in a slice
  MaxQueue,     \* bound: packets waiting in the video packet queue
  MaxLost,      \* bound: packets the network loses
  MaxOvertakes  \* bound: packets that overtake the one before them

ASSUME ConstantsAssumption ==
  /\ CCMod \in Nat \ {0}
  /\ CellCounts \subseteq Nat \ {0}
  /\ {MaxSlices, MaxPkts, MaxQueue, MaxLost, MaxOvertakes} \subseteq Nat

VARIABLES
  sent,             \* source: how many packets of each slice were sent
  cell,             \* source: the number of the last cell sent
  queue,            \* the pipe SX_VRDMA_VIDEO_PKT_QUEUE
  lost, overtakes,  \* what the network did
  looking,          \* f_cblk.look_for_new_slice
  last_cc,          \* f_cblk.last_cc
  slice_pkt_count,  \* f_cblk.slice_pkt_count
  slice_pts_ms,     \* f_cblk.slice_pts_ms
  slice_count,      \* f_cblk.slice_count
  slice_chain,      \* f_cblk.slice_chain
  slices,           \* all that was put on the pipe SX_VRDMA_SLICE
  freed, leaked     \* packets given back, and packets nobody refers to

network == <<sent, cell, queue, lost, overtakes>>
f_cblk  == <<looking, last_cc, slice_pkt_count, slice_pts_ms, slice_count, slice_chain>>
vars    == <<network, f_cblk, slices, freed, leaked>>

Packet == [slice : Nat, idx : Nat, first : Nat, last : Nat]
Slice  == [timestamp : Nat, chain : Seq(Packet)]

IsStart(p) == p.idx = 1          \* slice_start_find finds a start in p
PtsOf(p)   == p.slice            \* ... and returns its time
CC(n)      == n % CCMod

TypeOK ==
  /\ sent \in Seq(Nat \ {0}) /\ cell \in Nat
  /\ queue \in Seq(Packet)
  /\ lost \in SUBSET Packet /\ overtakes \in Nat
  /\ looking \in BOOLEAN
  /\ last_cc \in 0 .. CCMod - 1
  /\ slice_pkt_count \in Nat /\ slice_pts_ms \in Nat /\ slice_count \in Nat
  /\ slice_chain \in Seq(Packet)
  /\ slices \in Seq(Slice)
  /\ freed \in SUBSET Packet /\ leaked \in SUBSET Packet

Init ==
  /\ sent = <<>> /\ cell = 0 /\ queue = <<>> /\ lost = {} /\ overtakes = 0
  /\ looking = TRUE
  /\ last_cc = 0 /\ slice_pkt_count = 0 /\ slice_pts_ms = 0 /\ slice_count = 0
  /\ slice_chain = <<>>
  /\ slices = <<>> /\ freed = {} /\ leaked = {}

-----------------------------------------------------------------------------
(* The source and the network.                                             *)
Transmit(p) ==
  /\ cell' = p.last
  /\ \/ /\ Len(queue) < MaxQueue
        /\ queue' = Append(queue, p)
        /\ UNCHANGED lost
     \/ /\ Cardinality(lost) < MaxLost
        /\ lost' = lost \cup {p}
        /\ UNCHANGED queue
  /\ UNCHANGED <<overtakes, f_cblk, slices, freed, leaked>>

SendStart ==
  /\ Len(sent) < MaxSlices
  /\ sent' = Append(sent, 1)
  /\ \E n \in CellCounts :
       Transmit([slice |-> Len(sent) + 1, idx |-> 1, first |-> cell + 1, last |-> cell + n])

SendMore ==
  /\ sent # <<>>
  /\ Last(sent) < MaxPkts
  /\ sent' = [sent EXCEPT ![Len(sent)] = @ + 1]
  /\ \E n \in CellCounts :
       Transmit([slice |-> Len(sent), idx |-> Last(sent) + 1,
                 first |-> cell + 1, last |-> cell + n])

Overtake ==
  /\ overtakes < MaxOvertakes
  /\ overtakes' = overtakes + 1
  /\ \E i \in 1 .. Len(queue) - 1 :
       queue' = [queue EXCEPT ![i] = queue[i + 1], ![i + 1] = queue[i]]
  /\ UNCHANGED <<sent, cell, lost, f_cblk, slices, freed, leaked>>

-----------------------------------------------------------------------------
(* The decoder thread: one iteration per packet.                           *)
ContinuityOK(p) == (last_cc + 1) % CCMod = CC(p.first)

(* video_decoder_slice_dump(pts, slice_get())                              *)
Dump(pts) == slices' = Append(slices, [timestamp |-> pts, chain |-> slice_chain])

(* Slip, WholeSlicesAreDumped: the counter of the packet's first cell is   *)
(* cached, not the one of its last cell.                                   *)
Gather_CachesFirst(chain, count, p) ==
  /\ last_cc' = CC(p.first)
  /\ slice_chain' = Append(chain, p)
  /\ slice_pkt_count' = count + 1

(* m2ts_data_interpret, the caching of the last counter and slice_pkt_add. *)
Gather(chain, count, p) ==
  /\ last_cc' = CC(p.last)
  /\ slice_chain' = Append(chain, p)
  /\ slice_pkt_count' = count + 1

(* Only the very first slice start sets the time by itself.                *)
PtsAtStart(p) == IF slice_count = 0 THEN PtsOf(p) ELSE slice_pts_ms

(* slice_drop hands the whole chain to sx_desc_put.                        *)
DropChain ==
  /\ freed' = freed \cup ToSet(slice_chain)
  /\ slice_chain' = <<>>

(* Looking for a start, and this packet has none: it is forgotten.         *)
Skip(p) ==
  /\ looking /\ ~ IsStart(p)
  /\ leaked' = leaked \cup {p}
  /\ UNCHANGED <<f_cblk, slices, freed>>

(* A start with no chain behind it.                                        *)
StartFresh(p) ==
  /\ IsStart(p) /\ slice_pkt_count = 0
  /\ looking' = FALSE
  /\ slice_count' = slice_count + 1
  /\ slice_pts_ms' = PtsAtStart(p)
  /\ Gather(slice_chain, slice_pkt_count, p)
  /\ UNCHANGED <<slices, freed, leaked>>

(* Slip, StampsInOrder: the time is updated before the dump.               *)
StartNext_StampsNext(p) ==
  /\ IsStart(p) /\ slice_pkt_count > 0
  /\ looking' = FALSE
  /\ slice_count' = slice_count + 1
  /\ slice_pts_ms' = PtsOf(p)
  /\ Dump(PtsOf(p))
  /\ Gather(<<>>, 0, p)
  /\ UNCHANGED <<freed, leaked>>

(* A start ends the slice that was being gathered.                         *)
StartNext(p) ==
  /\ IsStart(p) /\ slice_pkt_count > 0
  /\ looking' = FALSE
  /\ slice_count' = slice_count + 1
  /\ Dump(PtsAtStart(p))
  /\ slice_pts_ms' = PtsOf(p)
  /\ Gather(<<>>, 0, p)
  /\ UNCHANGED <<freed, leaked>>

Extend(p) ==
  /\ ~ looking /\ ~ IsStart(p)
  /\ slice_pkt_count = 0 \/ ContinuityOK(p)
  /\ Gather(slice_chain, slice_pkt_count, p)
  /\ UNCHANGED <<looking, slice_pts_ms, slice_count, slices, freed, leaked>>

(* Slip, SlicesArePrefixes: after a drop the decoder does not look for the *)
(* next start.                                                             *)
Drop_KeepsDecoding(p) ==
  /\ ~ looking /\ ~ IsStart(p)
  /\ slice_pkt_count # 0 /\ ~ ContinuityOK(p)
  /\ DropChain
  /\ slice_pkt_count' = 0
  /\ leaked' = leaked \cup {p}
  /\ UNCHANGED <<looking, last_cc, slice_pts_ms, slice_count, slices>>

(* Slip, ChainKept: the packet counter is not reset.                       *)
Drop_KeepsCount(p) ==
  /\ ~ looking /\ ~ IsStart(p)
  /\ slice_pkt_count # 0 /\ ~ ContinuityOK(p)
  /\ DropChain
  /\ looking' = TRUE
  /\ leaked' = leaked \cup {p}
  /\ UNCHANGED <<last_cc, slice_pkt_count, slice_pts_ms, slice_count, slices>>

(* A gap: the chain is freed, and this packet is forgotten with it.        *)
Drop(p) ==
  /\ ~ looking /\ ~ IsStart(p)
  /\ slice_pkt_count # 0 /\ ~ ContinuityOK(p)
  /\ DropChain
  /\ looking' = TRUE
  /\ slice_pkt_count' = 0
  /\ leaked' = leaked \cup {p}
  /\ UNCHANGED <<last_cc, slice_pts_ms, slice_count, slices>>

Decode ==
  /\ queue # <<>>
  /\ queue' = Tail(queue)
  /\ LET p == Head(queue) IN
       Skip(p) \/ StartFresh(p) \/ StartNext(p) \/ Extend(p) \/ Drop(p)
  /\ UNCHANGED <<sent, cell, lost, overtakes>>

Next == SendStart \/ SendMore \/ Overtake \/ Decode

(* The decoder thread polls its queue for ever; nothing obliges the source *)
(* to send.                                                                *)
Spec == Init /\ [][Next]_vars /\ WF_vars(Decode)

-----------------------------------------------------------------------------
Gathered == ToSet(slice_chain)
Dumped   == UNION {ToSet(slices[i].chain) : i \in 1 .. Len(slices)}

(* Each packet is in one place: a chain is never freed and then dumped, or *)
(* dumped twice.                                                           *)
Ownership ==
  /\ Cardinality(Dumped) + Len(slice_chain) + Cardinality(freed) + Cardinality(leaked)
       = Cardinality(Dumped \cup Gathered \cup freed \cup leaked)
  /\ \A i, j \in 1 .. Len(slices) :
       i # j => ToSet(slices[i].chain) \cap ToSet(slices[j].chain) = {}

(* What slice_drop hands to sx_desc_put is never NULL: the packet counter  *)
(* and the chain agree, and there is nothing to drop while looking.        *)
ChainCounted ==
  /\ slice_pkt_count = Len(slice_chain)
  /\ looking <=> slice_chain = <<>>

(* Over any sequence of losses, drops and dumps the chain, its counter and *)
(* the looking flag agree, and no packet is in two places.                 *)
ChainKept == TypeOK /\ Ownership /\ ChainCounted

(* A chain is an unbroken run of packets from the start of one slice.      *)
IsPrefixOfSlice(c) ==
  /\ c # <<>> /\ IsStart(c[1])
  /\ \A i \in 1 .. Len(c) - 1 :
       /\ c[i + 1].slice = c[i].slice
       /\ c[i + 1].first = c[i].last + 1

(* What reaches the scheduler is the beginning of one slice without a gap, *)
(* although a counter of 16 values is all there is to see a loss by.       *)
SlicesArePrefixes == \A i \in 1 .. Len(slices) : IsPrefixOfSlice(slices[i].chain)

(* As long as packets arrive in order, no slice is stamped later than its  *)
(* own time, and the stamps of successive slices grow: the scheduler never *)
(* holds a slice back because of the one before it.                        *)
StampsInOrder ==
  overtakes = 0 =>
    \A i \in 1 .. Len(slices) :
      /\ slices[i].timestamp <= PtsOf(slices[i].chain[1])
      /\ i > 1 => slices[i - 1].timestamp < slices[i].timestamp

(* A slice that arrives whole is dumped whole, whatever was lost before it *)
(* and after it, provided that the first packet to arrive after it is a    *)
(* start: when the start of the next slice is lost and the rest of it is   *)
(* not, the gap costs the slice before, too.                               *)
LostOf(s) == {p \in lost : p.slice = s}

ArrivedWhole(s) == s < Len(sent) /\ LostOf(s) = {}

StartArrivedNext(s) ==
  \E j \in s + 1 .. Len(sent) :
    /\ ~ \E p \in LostOf(j) : IsStart(p)
    /\ \A k \in s + 1 .. j - 1 : Cardinality(LostOf(k)) = sent[k]

DumpedWhole(s) ==
  s \in 1 .. Len(sent) /\ \E i \in 1 .. Len(slices) :
    LET c == slices[i].chain
    IN  Len(c) = sent[s] /\ \A k \in 1 .. Len(c) : c[k].slice = s

WholeSlicesAreDumped ==
  \A s \in 1 .. MaxSlices :
    (ArrivedWhole(s) /\ StartArrivedNext(s) /\ overtakes = 0)
      ~> (DumpedWhole(s) \/ overtakes > 0)
=============================================================================
