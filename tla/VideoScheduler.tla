---------------------------- MODULE VideoScheduler ----------------------------
(***************************************************************************)
(* mgmt_video_scheduler/src/sx_mgmt_video_scheduler.c, three threads:      *)
(*   - slice_packing_thread copies slices from the pipe SLICE into buffers *)
(*     of the video hardware and puts them on the pipe SLICE_READY;        *)
(*   - pcr_update_thread estimates the source's clock, less the delays the *)
(*     sink wants, from the clock references on the pipe PCR;              *)
(*   - video_scheduler_thread hands a slice to the hardware when the       *)
(*     estimate has passed the slice's time.                               *)
(* f_cblk.curr_time is the only thing the last two share.                  *)
(*                                                                         *)
(* A slice is a number of pieces (the payloads of its cells), HwCap of     *)
(* which fill one hardware buffer.  Source and sink clocks run at the same *)
(* rate; sink_time_get multiplies a 32-bit second count by 1000 and widens *)
(* the result, so it wraps with a sign: 2^32 and 2^64 are U32 and U64.     *)
(*                                                                         *)
(* The hardware (the OpenMAX component "video_decode") is external; when   *)
(* it is given a buffer it holds fewer than DecoderHolds others.           *)
(*                                                                         *)
(* A definition whose comment begins with "Slip" is not part of the        *)
(* specification: put in the place of the one it is named after, it is a   *)
(* plausible mistake that breaks the property it names.                    *)
(***************************************************************************)
EXTENDS Integers, Sequences, SequencesExt

CONSTANTS
  HighSlices,    \* slices kept ready (10)
  DelayMs,       \* SX_SYSTEM_AUDIO_SOURCE_DELAY_MS + SX_SYSTEM_DELAY_MS (500)
  U32, U64,      \* the widths of the clocks
  SourceStart,   \* the source's clock when the threads start
  SinkStart,     \* the sink's clock then
  FirstPts,      \* the time of the first slice
  Garbage,       \* what pcr_time and pcr_received_time hold uninitialized
  NumHwBuffers,  \* input buffers of the decoder
  HwCap,         \* pieces in a hardware buffer (81920 bytes)
  DecoderHolds,  \* buffers the decoder holds
  Sizes,         \* pieces of a slice
  MaxArrivals,     \* bound: slices
  MaxPcrs,       \* bound: clock references
  MaxPcrWait,    \* bound: milliseconds a clock reference waits
  MaxTime        \* bound: milliseconds

ASSUME SchedulerAssumption ==
  /\ HighSlices \in Nat \ {0} /\ DelayMs \in Nat
  /\ U32 \in Nat \ {0} /\ U64 \in Nat \ {0} /\ U32 % 2 = 0 /\ U32 < U64
  /\ {SourceStart, SinkStart, FirstPts} \subseteq Nat /\ Garbage \subseteq 0 .. U64 - 1
  /\ NumHwBuffers \in Nat /\ HwCap \in Nat \ {0} /\ DecoderHolds \in Nat \ {0}
  /\ Sizes \subseteq Nat \ {0}
  /\ {MaxArrivals, MaxPcrs, MaxPcrWait, MaxTime} \subseteq Nat

VARIABLES
  now,               \* milliseconds since the threads started
  sizes,             \* the sizes of the slices sent so far
  slice_pipe,        \* the pipe SX_VRDMA_SLICE
  pack_pc,           \* where slice_packing_thread is
  slices_to_dump,    \* its count
  slice,             \* the slice it packs, 0 if none
  copied,            \* pieces of it that are copied
  hw_chain,          \* the hardware buffers filled with it
  ready,             \* the pipe SX_VRDMA_SLICE_READY
  presenting,        \* video_scheduler_thread's slice and its buffers left
  show_pc,           \* where it is
  in_list,           \* hardware buffers free
  decoder,           \* hardware buffers with the decoder
  shown,             \* history: what the decoder was given
  pcr_pipe,          \* the pipe SX_VRDMA_PCR: the source's times
  pcrs,              \* how many came
  pcr_pc,            \* where pcr_update_thread is
  pcr_time, pcr_received_time, pcr_now,    \* its locals
  curr_time,         \* f_cblk.curr_time
  pcr_known, synced  \* history: a reference was taken, curr_time is from one

packing  == <<pack_pc, slices_to_dump, slice, copied, hw_chain>>
showing  == <<presenting, show_pc, shown>>
clock    == <<pcr_pc, pcr_time, pcr_received_time, pcr_now, curr_time, pcr_known, synced>>
arrivals == <<sizes, pcr_pipe, pcrs>>
schedulerVars == <<now, arrivals, slice_pipe, packing, ready, showing, in_list, decoder, clock>>

Time   == 0 .. U64 - 1
Buffer == Seq(Nat \X Nat)
Nobody == [slice |-> 0, chain |-> <<>>]

SourceTime == SourceStart + now

(* sink_time_get: long arithmetic, then widened to UINT64.                 *)
SinkTime ==
  LET t == (SinkStart + now) % U32
  IN  IF t < U32 \div 2 THEN t ELSE U64 - U32 + t

(* The time of slice n: two slices make a picture, one a millisecond.      *)
TimeOf(n) == FirstPts + n \div 2

SchedulerTypeOK ==
  /\ now \in Nat /\ sizes \in Seq(Nat) /\ slice_pipe \in Seq(Nat)
  /\ pack_pc \in {"len", "pull", "get", "put", "aborted"}
  /\ slices_to_dump \in 0 .. HighSlices /\ slice \in Nat /\ copied \in Nat
  /\ hw_chain \in Seq(Buffer)
  /\ ready \in Seq([slice : Nat, chain : Seq(Buffer)])
  /\ presenting \in [slice : Nat, chain : Seq(Buffer)]
  /\ show_pc \in {"take", "show"}
  /\ in_list \in 0 .. NumHwBuffers /\ decoder \in 0 .. DecoderHolds
  /\ shown \in Seq(Buffer)
  /\ pcr_pipe \in Seq(Time) /\ pcrs \in Nat
  /\ pcr_pc \in {"get", "recv", "now", "set"}
  /\ {pcr_time, pcr_received_time, pcr_now, curr_time} \subseteq Time
  /\ pcr_known \in BOOLEAN /\ synced \in BOOLEAN

SchedulerInit ==
  /\ now = 0 /\ sizes = <<>> /\ slice_pipe = <<>>
  /\ pack_pc = "len" /\ slices_to_dump = 0 /\ slice = 0 /\ copied = 0 /\ hw_chain = <<>>
  /\ ready = <<>> /\ presenting = Nobody /\ show_pc = "take"
  /\ in_list = NumHwBuffers /\ decoder = 0 /\ shown = <<>>
  /\ pcr_pipe = <<>> /\ pcrs = 0
  /\ pcr_pc = "get" /\ pcr_time \in Garbage /\ pcr_received_time \in Garbage /\ pcr_now = 0
  /\ curr_time = 0 /\ pcr_known = FALSE /\ synced = FALSE

-----------------------------------------------------------------------------
Tick ==
  /\ now < MaxTime
  /\ \A i \in 1 .. Len(pcr_pipe) : SourceTime < pcr_pipe[i] + MaxPcrWait
  /\ pcr_pc = "recv" => SourceTime < pcr_time + MaxPcrWait
  /\ now' = now + 1
  /\ UNCHANGED <<arrivals, slice_pipe, packing, ready, showing, in_list, decoder, clock>>

(* The video decoder puts a slice on the pipe, early or late.              *)
SliceArrives ==
  /\ Len(sizes) < MaxArrivals
  /\ \E n \in Sizes : sizes' = Append(sizes, n)
  /\ slice_pipe' = Append(slice_pipe, Len(sizes) + 1)
  /\ UNCHANGED <<now, pcr_pipe, pcrs, packing, ready, showing, in_list, decoder, clock>>

(* The transport stream demultiplexer puts the source's time on the pipe.  *)
PcrArrives ==
  /\ pcrs < MaxPcrs
  /\ pcrs' = pcrs + 1
  /\ pcr_pipe' = Append(pcr_pipe, SourceTime % U64)
  /\ UNCHANGED <<now, sizes, slice_pipe, packing, ready, showing, in_list, decoder, clock>>

(* The decoder is done with a buffer.                                      *)
EmptyBufferDone ==
  /\ decoder > 0
  /\ decoder' = decoder - 1 /\ in_list' = in_list + 1
  /\ UNCHANGED <<now, arrivals, slice_pipe, packing, ready, showing, clock>>

-----------------------------------------------------------------------------
(* Slip, HwBufferAvailable: those ready are not counted.     *)
PackLen_All ==
  /\ pack_pc = "len" /\ Len(ready) < HighSlices
  /\ slices_to_dump' = HighSlices
  /\ pack_pc' = "pull"
  /\ UNCHANGED <<now, arrivals, slice_pipe, slice, copied, hw_chain, ready, showing,
                 in_list, decoder, clock>>

(* slice_packing_thread: how many slices are missing.                      *)
PackLen ==
  /\ pack_pc = "len" /\ Len(ready) < HighSlices
  /\ slices_to_dump' = HighSlices - Len(ready)
  /\ pack_pc' = "pull"
  /\ UNCHANGED <<now, arrivals, slice_pipe, slice, copied, hw_chain, ready, showing,
                 in_list, decoder, clock>>

PackNothing ==
  /\ pack_pc = "pull" /\ slice_pipe = <<>>
  /\ pack_pc' = "len"
  /\ UNCHANGED <<now, arrivals, slice_pipe, slices_to_dump, slice, copied, hw_chain, ready,
                 showing, in_list, decoder, clock>>

PackPull ==
  /\ pack_pc = "pull" /\ slice_pipe # <<>>
  /\ slice' = Head(slice_pipe) /\ slice_pipe' = Tail(slice_pipe)
  /\ copied' = 0 /\ hw_chain' = <<>>
  /\ pack_pc' = "get"
  /\ UNCHANGED <<now, arrivals, slices_to_dump, ready, showing, in_list, decoder, clock>>

(* The pieces of slice n from the i-th to the j-th.                        *)
Pieces(n, i, j) == [k \in 1 .. j - i + 1 |-> <<n, i + k - 1>>]

(* Slip, DecoderGetsSlices: the new descriptor takes the place of the old  *)
(* one instead of being linked to it.                                      *)
Link_Replaces(buffer) == <<buffer>>

Link(buffer) == Append(hw_chain, buffer)

(* sx_video_sink_buf_get, at the start and when a buffer is full; the      *)
(* assertions fail when there is none.  The buffer is filled.              *)
PackGet ==
  /\ pack_pc = "get"
  /\ IF in_list = 0
     THEN /\ pack_pc' = "aborted"
          /\ UNCHANGED <<in_list, copied, hw_chain>>
     ELSE /\ in_list' = in_list - 1
          /\ copied' = IF copied + HwCap < sizes[slice] THEN copied + HwCap ELSE sizes[slice]
          /\ hw_chain' = Link(Pieces(slice, copied + 1, copied'))
          /\ pack_pc' = IF copied' = sizes[slice] THEN "put" ELSE "get"
  /\ UNCHANGED <<now, arrivals, slice_pipe, slices_to_dump, slice, ready, showing, decoder, clock>>

(* The packets are given back and the slice goes on the pipe SLICE_READY.  *)
PackPut ==
  /\ pack_pc = "put"
  /\ ready' = Append(ready, [slice |-> slice, chain |-> hw_chain])
  /\ slice' = 0 /\ copied' = 0 /\ hw_chain' = <<>>
  /\ slices_to_dump' = slices_to_dump - 1
  /\ pack_pc' = IF slices_to_dump > 1 THEN "pull" ELSE "len"
  /\ UNCHANGED <<now, arrivals, slice_pipe, showing, in_list, decoder, clock>>

-----------------------------------------------------------------------------
(* video_scheduler_thread takes a slice and keeps it until its time.       *)
Take ==
  /\ show_pc = "take" /\ presenting = Nobody /\ ready # <<>>
  /\ presenting' = Head(ready) /\ ready' = Tail(ready)
  /\ UNCHANGED <<now, arrivals, slice_pipe, packing, show_pc, shown, in_list, decoder, clock>>

Due(pts) == curr_time > pts

Present ==
  /\ show_pc = "take" /\ presenting # Nobody
  /\ Due(TimeOf(presenting.slice))
  /\ show_pc' = "show"
  /\ UNCHANGED <<now, arrivals, slice_pipe, packing, ready, presenting, shown, in_list, decoder,
                 clock>>

(* sx_video_sink_buf_set, one buffer of the chain after the other.         *)
Show ==
  /\ show_pc = "show" /\ decoder < DecoderHolds
  /\ decoder' = decoder + 1
  /\ shown' = Append(shown, Head(presenting.chain))
  /\ presenting' = IF Len(presenting.chain) = 1 THEN Nobody
                   ELSE [presenting EXCEPT !.chain = Tail(@)]
  /\ show_pc' = IF Len(presenting.chain) = 1 THEN "take" ELSE "show"
  /\ UNCHANGED <<now, arrivals, slice_pipe, packing, ready, in_list, clock>>

-----------------------------------------------------------------------------
(* Slip, EverySliceShown: without a reference the estimate is not renewed. *)
PcrGet_OnlyReferences ==
  /\ pcr_pc = "get" /\ pcr_pipe # <<>>
  /\ pcr_time' = Head(pcr_pipe) /\ pcr_pipe' = Tail(pcr_pipe)
  /\ pcr_known' = TRUE
  /\ pcr_pc' = "recv"
  /\ UNCHANGED <<now, sizes, pcrs, slice_pipe, packing, ready, showing, in_list, decoder,
                 pcr_received_time, pcr_now, curr_time, synced>>

(* pcr_update_thread: take a reference if there is one ...                 *)
PcrGet ==
  /\ pcr_pc = "get"
  /\ IF pcr_pipe = <<>>
     THEN pcr_pc' = "now" /\ UNCHANGED <<pcr_pipe, pcr_time, pcr_known>>
     ELSE /\ pcr_time' = Head(pcr_pipe) /\ pcr_pipe' = Tail(pcr_pipe)
          /\ pcr_known' = TRUE
          /\ pcr_pc' = "recv"
  /\ UNCHANGED <<now, sizes, pcrs, slice_pipe, packing, ready, showing, in_list, decoder,
                 pcr_received_time, pcr_now, curr_time, synced>>

(* Slip, NeverEarly: the time it was taken is noted once only.             *)
PcrRecv_Once ==
  /\ pcr_pc = "recv"
  /\ pcr_received_time' = IF synced THEN pcr_received_time ELSE SinkTime
  /\ pcr_pc' = "now"
  /\ UNCHANGED <<now, arrivals, slice_pipe, packing, ready, showing, in_list, decoder,
                 pcr_time, pcr_now, curr_time, pcr_known, synced>>

(* ... note when it was taken ...                                          *)
PcrRecv ==
  /\ pcr_pc = "recv"
  /\ pcr_received_time' = SinkTime
  /\ pcr_pc' = "now"
  /\ UNCHANGED <<now, arrivals, slice_pipe, packing, ready, showing, in_list, decoder,
                 pcr_time, pcr_now, curr_time, pcr_known, synced>>

(* ... read the time again ...                                             *)
PcrNow ==
  /\ pcr_pc = "now"
  /\ pcr_now' = SinkTime
  /\ pcr_pc' = "set"
  /\ UNCHANGED <<now, arrivals, slice_pipe, packing, ready, showing, in_list, decoder,
                 pcr_time, pcr_received_time, curr_time, pcr_known, synced>>

Estimate == (pcr_time + (pcr_now - pcr_received_time) - DelayMs) % U64

(* ... and set the estimate under the lock.                                *)
PcrSet ==
  /\ pcr_pc = "set"
  /\ curr_time' = Estimate /\ synced' = pcr_known
  /\ pcr_pc' = "get"
  /\ UNCHANGED <<now, arrivals, slice_pipe, packing, ready, showing, in_list, decoder,
                 pcr_time, pcr_received_time, pcr_now, pcr_known>>

-----------------------------------------------------------------------------
Packing    == PackLen \/ PackNothing \/ PackPull \/ PackGet \/ PackPut
Presenting == Take \/ Present \/ Show
Pcr        == PcrGet \/ PcrRecv \/ PcrNow \/ PcrSet

SchedulerNext ==
  Tick \/ SliceArrives \/ PcrArrives \/ EmptyBufferDone \/ Packing \/ Presenting \/ Pcr

(* The threads wake up every millisecond or two, the decoder goes on and   *)
(* time passes.  Slices and references may stop coming.                    *)
SchedulerFairness == /\ WF_schedulerVars(Tick) /\ WF_schedulerVars(EmptyBufferDone)
            /\ WF_schedulerVars(Packing) /\ WF_schedulerVars(Presenting) /\ WF_schedulerVars(Pcr)

SchedulerSafeSpec == SchedulerInit /\ [][SchedulerNext]_schedulerVars
SchedulerSpec     == SchedulerSafeSpec /\ SchedulerFairness

-----------------------------------------------------------------------------
(* No more than HighSlices are ready or being packed.                      *)
ReadyBounded == Len(ready) + (IF slice = 0 THEN 0 ELSE 1) <= HighSlices

(* video_scheduler_slice_dump finds a hardware buffer whenever it needs    *)
(* one (its assertions on hw_buf never fail), because no more slices are   *)
(* ready than are wanted although the packing thread reads the length of   *)
(* SLICE_READY only once for a burst of slices.                            *)
HwBufferAvailable == SchedulerTypeOK /\ ReadyBounded /\ pack_pc # "aborted"

(* What the decoder was given, the buffers on their way to it and what is  *)
(* not copied yet make up the slices in order and piece by piece, across   *)
(* the buffers a large slice is split over.                                *)
AllOf(ns) == FlattenSeq([i \in 1 .. Len(ns) |-> Pieces(ns[i], 1, sizes[ns[i]])])
Copied    == FlattenSeq(shown \o presenting.chain
                        \o FlattenSeq([i \in 1 .. Len(ready) |-> ready[i].chain]) \o hw_chain)
Uncopied  == (IF slice = 0 THEN <<>> ELSE Pieces(slice, copied + 1, sizes[slice]))
             \o AllOf(slice_pipe)

DecoderGetsSlices == Copied \o Uncopied = AllOf([i \in 1 .. Len(sizes) |-> i])

(* Once the estimate is made from a clock reference, no slice goes to the  *)
(* decoder before the source's clock is DelayMs past the slice's time,     *)
(* however long references waited and whatever happened between reading    *)
(* the clock, setting the estimate and comparing it.                       *)
NeverEarly ==
  [][show_pc = "take" /\ show_pc' = "show" /\ synced
       => SourceTime > TimeOf(presenting.slice) + DelayMs]_schedulerVars

(* Once there is a clock reference, every slice is shown to its last       *)
(* piece, also when no further reference comes.                            *)
EverySliceShown ==
  \A n \in 1 .. MaxArrivals :
    (pcr_known /\ Len(sizes) >= n)
      ~> (\E i \in 1 .. Len(shown) : LET p == Last(shown[i])
                                     IN  p[1] = n /\ p[2] = sizes[n])

(* "Get estimated source time." (line 204): an estimate less the delays is *)
(* not ahead of the source.  It is, before the first clock reference, and  *)
(* when the unsigned subtraction or the sink's clock wraps.                *)
EstimateNotAhead == curr_time <= SourceTime
=============================================================================
