---------------------------- MODULE AudioDecoder ----------------------------
(***************************************************************************)
(* mgmt_audio_decoder/src/sx_mgmt_audio_decoder.c: the thread that puts    *)
(* the RTP packets of one PES unit of LPCM (10 ms of sound, 1920 bytes) in *)
(* a chain, and the chain on the LPCM_SLICE pipe once its bytes add up.    *)
(*                                                                         *)
(* The source sends units 1, 2, ... of UnitBytes each, cut into packets;   *)
(* `bytes' of a packet is the sound it carries and `counted' what          *)
(* pes_payload_size finds in it.  The cell a unit starts in may have an    *)
(* adaptation field, which the thread does not skip: it takes the field    *)
(* for sound, and reads the length of the unit from the bytes that are     *)
(* where the length would be without one.  The packets of a unit follow    *)
(* each other in the RTP stream; packets of other kinds come between units *)
(* and take sequence numbers.  Sequence numbers are UINT16 on the wire (U16Mod) and *)
(* kept in a UINT32 (U32Mod).                                              *)
(*                                                                         *)
(* A definition whose comment begins with "Slip" is not part of the        *)
(* specification: put in the place of the one it is named after, it is a   *)
(* plausible mistake that breaks the property it names.                    *)
(***************************************************************************)
EXTENDS Naturals, Sequences, FiniteSets, SequencesExt

CONSTANTS
  U16Mod, U32Mod,  \* 2^16 and 2^32
  UnitBytes,       \* the sound in a unit (1920)
  PktBytes,        \* how much of it a packet may carry
  Stuffing,        \* what the adaptation field of a start takes up, or 0
  Misread,         \* what such a field gives for the length of the unit
  ZeroLength,      \* whether the source announces the length zero (Xperia)
  MaxUnits,        \* bound: units the source sends
  MaxOther,        \* bound: packets of other kinds between units
  MaxQueue,        \* bound: packets waiting in the LPCM queue
  MaxLost,         \* bound: packets the network loses
  MaxOvertakes     \* bound: packets that overtake the one before them

ASSUME ConstantsAssumption ==
  /\ U16Mod \in Nat \ {0} /\ U32Mod \in Nat /\ U16Mod < U32Mod
  /\ UnitBytes \in Nat \ {0} /\ UnitBytes < U32Mod - 1
  /\ PktBytes \subseteq Nat \ {0} /\ Stuffing \subseteq Nat
  /\ Misread \subseteq 0 .. U32Mod - 1
  /\ ZeroLength \in BOOLEAN
  /\ {MaxUnits, MaxOther, MaxQueue, MaxLost, MaxOvertakes} \subseteq Nat

VARIABLES
  unit, left,        \* source: the unit being sent, its bytes not sent yet
  seq,               \* source: RTP packets sent so far
  other,             \* source: packets of other kinds sent so far
  queue,             \* the pipe SX_VRDMA_LPCM
  lost, overtakes,   \* what the network did
  looking,           \* f_cblk.look_for_new_slice
  continuing,        \* f_cblk.continue_current_slice
  pes_len,           \* f_cblk.pes_len
  byte_count,        \* f_cblk.pes_curr_byte_count
  last_seq_num,      \* f_cblk.last_seq_num
  slice_chain,       \* f_cblk.slice_chain
  slices,            \* all that was put on the pipe SX_VRDMA_LPCM_SLICE
  freed, leaked,     \* packets given back, and packets nobody refers to
  aborted            \* an assert failed: the process is gone

network == <<unit, left, seq, other, queue, lost, overtakes>>
f_cblk  == <<looking, continuing, pes_len, byte_count, last_seq_num, slice_chain>>
vars    == <<network, f_cblk, slices, freed, leaked, aborted>>

Packet == [unit : Nat, start : BOOLEAN, nr : Nat, bytes : Nat, counted : Nat]
U32    == 0 .. U32Mod - 1

TypeOK ==
  /\ unit \in Nat /\ left \in 0 .. UnitBytes /\ seq \in Nat /\ other \in Nat
  /\ queue \in Seq(Packet)
  /\ lost \in SUBSET Packet /\ overtakes \in Nat
  /\ looking \in BOOLEAN /\ continuing \in BOOLEAN /\ aborted \in BOOLEAN
  /\ pes_len \in U32 /\ byte_count \in U32 /\ last_seq_num \in 0 .. U16Mod - 1
  /\ slice_chain \in Seq(Packet)
  /\ slices \in Seq(Seq(Packet))
  /\ freed \in SUBSET Packet /\ leaked \in SUBSET Packet

Init ==
  /\ unit = 0 /\ left = 0 /\ seq = 0 /\ other = 0 /\ queue = <<>>
  /\ lost = {} /\ overtakes = 0
  /\ looking = TRUE /\ continuing = FALSE
  /\ pes_len = 0 /\ byte_count = 0 /\ last_seq_num = 0
  /\ slice_chain = <<>> /\ slices = <<>> /\ freed = {} /\ leaked = {}
  /\ aborted = FALSE

-----------------------------------------------------------------------------
(* The source and the network.                                             *)
Transmit(p) ==
  /\ seq' = seq + 1
  /\ \/ /\ Len(queue) < MaxQueue
        /\ queue' = Append(queue, p)
        /\ UNCHANGED lost
     \/ /\ Cardinality(lost) < MaxLost
        /\ lost' = lost \cup {p}
        /\ UNCHANGED queue
  /\ UNCHANGED <<other, overtakes, f_cblk, slices, freed, leaked, aborted>>

SendStart ==
  /\ left = 0 /\ unit < MaxUnits
  /\ unit' = unit + 1
  /\ \E n \in PktBytes, s \in Stuffing :
       /\ n + s <= UnitBytes
       /\ left' = UnitBytes - n
       /\ Transmit([unit |-> unit + 1, start |-> TRUE, nr |-> seq,
                    bytes |-> n, counted |-> n + s])

SendMore ==
  /\ left > 0
  /\ \E n \in PktBytes :
       /\ n <= left
       /\ left' = left - n
       /\ Transmit([unit |-> unit, start |-> FALSE, nr |-> seq,
                    bytes |-> n, counted |-> n])
  /\ UNCHANGED unit

SendOther ==
  /\ left = 0 /\ other < MaxOther
  /\ other' = other + 1
  /\ seq' = seq + 1
  /\ UNCHANGED <<unit, left, queue, lost, overtakes, f_cblk, slices, freed, leaked, aborted>>

Overtake ==
  /\ overtakes < MaxOvertakes
  /\ overtakes' = overtakes + 1
  /\ \E i \in 1 .. Len(queue) - 1 :
       queue' = [queue EXCEPT ![i] = queue[i + 1], ![i + 1] = queue[i]]
  /\ UNCHANGED <<unit, left, seq, other, lost, f_cblk, slices, freed, leaked, aborted>>

-----------------------------------------------------------------------------
(* The decoder thread: one iteration per packet.                           *)

(* ntohs(rtp_hdr->sequence_num)                                            *)
SeqNum(p) == p.nr % U16Mod

(* What slice_start_find reads for ntohs(length) - 14, and what of it      *)
(* passes the assert: 1920, and -14, here U32Mod - 1.                      *)
Announced == IF ZeroLength THEN U32Mod - 1 ELSE UnitBytes
PesLen(p) == IF p.counted = p.bytes THEN {Announced} ELSE Misread
Admitted  == {UnitBytes, U32Mod - 1}

(* Slip, AcceptedUnitsAreDumped: the number expected next is off by one.   *)
InSequence_Off(p) == SeqNum(p) = last_seq_num

InSequence(p) == SeqNum(p) = (last_seq_num + 1) % U32Mod

Starting(p) == looking /\ p.start

(* slice_drop hands the whole chain to sx_desc_put.                        *)
DropChain ==
  /\ freed' = freed \cup ToSet(slice_chain)
  /\ slice_chain' = <<>>

(* Slip, UnitsAreExact: a unit is taken for complete one byte early.       *)
Complete_Early(total, len) == total + 1 = len \/ total = len

Complete(total, len) == total = len

(* pes_payload_size, the assert, slice_pkt_add, and the dump of a chain    *)
(* whose bytes add up; count and len are what the unit has so far.         *)
Accept(p, count, len) ==
  LET total == (count + p.counted) % U32Mod IN
  /\ last_seq_num' = SeqNum(p)
  /\ byte_count' = total
  /\ pes_len' = len
  /\ \/ /\ total > len
        /\ aborted' = TRUE
        /\ looking' = FALSE /\ continuing' = TRUE
        /\ UNCHANGED <<slice_chain, slices>>
     \/ /\ total <= len /\ ~ Complete(total, len)
        /\ slice_chain' = Append(slice_chain, p)
        /\ looking' = FALSE /\ continuing' = TRUE
        /\ UNCHANGED <<slices, aborted>>
     \/ /\ total <= len /\ Complete(total, len)
        /\ slices' = Append(slices, Append(slice_chain, p))
        /\ slice_chain' = <<>>
        /\ looking' = TRUE /\ continuing' = FALSE
        /\ UNCHANGED aborted
  /\ UNCHANGED <<freed, leaked>>

(* Neither in a unit nor a start: the packet is forgotten.                 *)
Skip(p) ==
  /\ ~ Starting(p) /\ ~ continuing
  /\ leaked' = leaked \cup {p}
  /\ UNCHANGED <<f_cblk, slices, freed, aborted>>

(* slice_start_find asserts before the flags change.                       *)
BadLength(len) ==
  /\ pes_len' = len /\ aborted' = TRUE
  /\ UNCHANGED <<looking, continuing, byte_count, last_seq_num, slice_chain, slices, freed,
                 leaked>>

(* Slip, AbortsOnlyOnField: the byte count is not reset at a start.        *)
Begin_KeepsCount(p) ==
  /\ Starting(p)
  /\ \E len \in PesLen(p) :
       \/ len \in Admitted /\ Accept(p, byte_count, len)
       \/ len \notin Admitted /\ BadLength(len)

(* A start sets last_seq_num so that it is in sequence itself.             *)
Begin(p) ==
  /\ Starting(p)
  /\ \E len \in PesLen(p) :
       \/ len \in Admitted /\ Accept(p, 0, len)
       \/ len \notin Admitted /\ BadLength(len)

Continue(p) ==
  /\ ~ Starting(p) /\ continuing /\ InSequence(p)
  /\ Accept(p, byte_count, pes_len)

(* Slip, ChainKept: the flag that a unit is being gathered is not reset.   *)
Gap_KeepsContinuing(p) ==
  /\ ~ Starting(p) /\ continuing /\ ~ InSequence(p)
  /\ DropChain
  /\ looking' = TRUE
  /\ leaked' = leaked \cup {p}
  /\ UNCHANGED <<continuing, pes_len, byte_count, last_seq_num, slices, aborted>>

(* Slip, OneUnitPerGap: the decoder does not look for the next start.      *)
Gap_StopsLooking(p) ==
  /\ ~ Starting(p) /\ continuing /\ ~ InSequence(p)
  /\ DropChain
  /\ continuing' = FALSE
  /\ leaked' = leaked \cup {p}
  /\ UNCHANGED <<looking, pes_len, byte_count, last_seq_num, slices, aborted>>

(* A gap: the chain is freed, and the packet that shows it is forgotten,   *)
(* even if it is the start of the next unit.                               *)
Gap(p) ==
  /\ ~ Starting(p) /\ continuing /\ ~ InSequence(p)
  /\ DropChain
  /\ continuing' = FALSE /\ looking' = TRUE
  /\ leaked' = leaked \cup {p}
  /\ UNCHANGED <<pes_len, byte_count, last_seq_num, slices, aborted>>

Decode ==
  /\ ~ aborted
  /\ queue # <<>>
  /\ queue' = Tail(queue)
  /\ LET p == Head(queue) IN Skip(p) \/ Begin(p) \/ Continue(p) \/ Gap(p)
  /\ UNCHANGED <<unit, left, seq, other, lost, overtakes>>

Next == SendStart \/ SendMore \/ SendOther \/ Overtake \/ Decode

(* The decoder thread polls its queue for ever; nothing obliges the source *)
(* to send.                                                                *)
Spec == Init /\ [][Next]_vars /\ WF_vars(Decode)

-----------------------------------------------------------------------------
Gathered == ToSet(slice_chain)
Dumped   == UNION {ToSet(slices[i]) : i \in 1 .. Len(slices)}

(* The sound in a chain.                                                   *)
Sound(c) ==
  LET upTo[k \in 0 .. Len(c)] == IF k = 0 THEN 0 ELSE upTo[k - 1] + c[k].bytes
  IN  upTo[Len(c)]

(* The chain that slice_drop hands to sx_desc_put is never NULL: outside   *)
(* an iteration the two flags exclude each other and a unit that is being  *)
(* gathered has a packet.  No packet is freed that is still in use.        *)
ChainKept ==
  /\ TypeOK
  /\ ~ aborted =>
       /\ looking <=> ~ continuing
       /\ continuing <=> slice_chain # <<>>
  /\ freed \cap (Gathered \cup Dumped) = {} /\ Gathered \cap Dumped = {}

(* No adaptation field was taken for sound.                                *)
Plain(p) == p.counted = p.bytes

(* Where the unit begins that the next packet is taken into.               *)
UnitStart == IF slice_chain = <<>> THEN Head(queue) ELSE slice_chain[1]

(* The asserts of the length (line 258) and of the byte count (line 351)   *)
(* fail only in a unit whose start has an adaptation field, which is       *)
(* counted as sound and makes the length come from other bytes: not in a   *)
(* unit after it, and not whatever is lost or comes late.                  *)
AbortsOnlyOnField ==
  [][aborted' /\ ~ aborted => ~ Plain(UnitStart)]_vars

(* What reaches the scheduler is exactly one unit, in order: it relies on  *)
(* that when it asserts that it copied 1920 bytes                          *)
(* (sx_mgmt_audio_scheduler.c, line 242).  A unit whose start has an       *)
(* adaptation field is cut wrongly, but none of the units after it is.     *)
UnitsAreExact ==
  \A i \in 1 .. Len(slices) :
    LET c == slices[i] IN
      /\ c[1].start
      /\ Plain(c[1]) =>
           /\ Sound(c) = UnitBytes
           /\ \A k \in 1 .. Len(c) - 1 :
                c[k + 1].unit = c[k].unit /\ c[k + 1].nr = c[k].nr + 1

LostOf(s) == {p \in lost : p.unit = s}

SentWhole(s) == s < unit \/ (s = unit /\ left = 0)

(* The unit's numbers run over the end of the UINT16.                      *)
PktsOf(s)    == {p \in Gathered \cup Dumped \cup freed \cup leaked \cup lost : p.unit = s}
Straddles(s) == \E p, q \in PktsOf(s) : p.nr \div U16Mod # q.nr \div U16Mod

(* Nothing the decoder has seen had an adaptation field.                   *)
NoField == ~ aborted /\ \A p \in Gathered \cup Dumped \cup freed \cup leaked : Plain(p)

(* A start is refused (Gap) only if the unit directly before it lost a     *)
(* packet: one gap costs the unit it is in and at most the one after it.   *)
(* A false gap, at the wrap of the numbers, costs no start, for it shows   *)
(* inside a unit.                                                          *)
OneUnitPerGap ==
  overtakes = 0 /\ NoField =>
    \A p \in leaked : p.start => LostOf(p.unit - 1) # {}

(* A unit whose start is accepted and whose packets all arrive is dumped,  *)
(* until there is an adaptation field.                                     *)
AcceptedUnitsAreDumped ==
  \A s \in 1 .. MaxUnits :
    ( /\ \E p \in Gathered \cup Dumped \cup freed : p.unit = s /\ p.start
      /\ SentWhole(s) /\ LostOf(s) = {} /\ overtakes = 0 )
    ~> ( \/ \E p \in Dumped : p.unit = s
         \/ Straddles(s) \/ overtakes > 0 \/ ~ NoField )

(* "Check for missing packets." (sx_mgmt_data.c, line 71, where the number *)
(* expected next is taken modulo 2^16): no unit is dropped when no packet  *)
(* is missing.                                                             *)
NoLossNoDrop == lost = {} /\ overtakes = 0 => freed = {}

(* "PES packet length is zero for Sony Xperia" (line 257, and the assert   *)
(* below it): units of such a source that arrive reach the scheduler.      *)
UnitsReachScheduler ==
  (unit = MaxUnits /\ left = 0 /\ lost = {} /\ overtakes = 0)
    ~> (slices # <<>> \/ overtakes > 0)
=============================================================================
