---------------------------- MODULE AudioScheduler ----------------------------
(***************************************************************************)
(* mgmt_audio_scheduler/src/sx_mgmt_audio_scheduler.c and                  *)
(* audio_sink/src/sx_audio_sink.c: the thread that takes sound units of    *)
(* SliceMs milliseconds from the LPCM_SLICE pipe and keeps the audio       *)
(* hardware HighMs ahead, and the buffers that go round between the        *)
(* thread and the hardware.                                                *)
(*                                                                         *)
(* The pipe is read by this thread alone, but the audio decoder puts units *)
(* on it at any time, and the hardware plays at any time: between two      *)
(* reads of the thread the pipe may grow and the hardware queue shrink.    *)
(* Time is counted in the milliseconds sx_audio_sink_ms_left_get returns.  *)
(*                                                                         *)
(* The hardware (the OpenMAX component "audio_render") is external.  It    *)
(* returns buffers in the order it got them, as early as it likes, and at  *)
(* any time has at most MaxLag buffers whose sound is already out.         *)
(*                                                                         *)
(* A definition whose comment begins with "Slip" is not part of the        *)
(* specification: put in the place of the one it is named after, it is a   *)
(* plausible mistake that breaks the property it names.                    *)
(***************************************************************************)
EXTENDS Integers, Sequences, SequencesExt

CONSTANTS
  SliceMs,      \* length of one unit (10: 1920 bytes at 48 kHz)
  HighMs,       \* the thread tops the hardware up below this (200)
  StartLen,     \* units in the pipe above which playback starts (10)
  FastMs,       \* with more than this left, play faster (200)
  SlowMs,       \* with less than this left, play slower (150)
  NumBuffers,   \* buffers of the hardware (100)
  MaxLag,       \* buffers the hardware may return late
  MaxProduced      \* bound: units the decoder produces

ASSUME SchedulerAssumption ==
  /\ SliceMs \in Nat \ {0} /\ HighMs \in Nat \ {0} /\ StartLen \in Nat
  /\ FastMs \in Nat /\ SlowMs \in Nat /\ NumBuffers \in Nat
  /\ MaxLag \in Nat /\ MaxProduced \in Nat

(* The hardware has a buffer for HighMs and for those it returns late.     *)
ASSUME BuffersAssumption == (NumBuffers - MaxLag - 1) * SliceMs >= HighMs

VARIABLES
  pipe,             \* the pipe SX_VRDMA_LPCM_SLICE: numbers of units
  produced,         \* units put on it so far
  state,            \* f_cblk.state
  pc,               \* where the thread is
  data_left_ms,     \* the local of that name, or data_left of the callee
  slices_to_queue,  \* the local of that name
  desc,             \* the unit in hand, 0 if none
  buf,              \* the buffer in hand, 0 if none
  playback_speed,   \* the static of that name: 0 slow, 1 normal, 2 fast
  in_list,          \* buffers returned by the hardware, oldest first
  user_buffer_list, \* st->user_buffer_list, newest first
  device,           \* buffers the hardware has, oldest first
  content,          \* which unit each buffer holds
  ms_left,          \* milliseconds of sound in the hardware queue
  submitted,        \* history: units handed to the hardware
  seen              \* history: produced when data_left_ms was last read

thread   == <<state, pc, data_left_ms, slices_to_queue, desc, buf, playback_speed>>
buffers  == <<in_list, user_buffer_list, device, content>>
schedulerVars == <<pipe, produced, thread, buffers, ms_left, submitted, seen>>

Buffers == 1 .. NumBuffers

SchedulerTypeOK ==
  /\ pipe \in Seq(Nat \ {0}) /\ produced \in Nat
  /\ state \in {"INACTIVE", "ACTIVE"}
  /\ pc \in {"iter", "check", "pull", "measure", "speed", "get", "set", "aborted"}
  /\ data_left_ms \in Nat /\ slices_to_queue \in Nat
  /\ desc \in Nat /\ buf \in Nat /\ playback_speed \in 0 .. 2
  /\ in_list \in Seq(Buffers) /\ user_buffer_list \in Seq(Buffers)
  /\ device \in Seq(Buffers) /\ content \in [Buffers -> Nat]
  /\ ms_left \in Nat /\ submitted \in Seq(Nat) /\ seen \in Nat

SchedulerInit ==
  /\ pipe = <<>> /\ produced = 0
  /\ state = "INACTIVE" /\ pc = "iter"
  /\ data_left_ms = 0 /\ slices_to_queue = 0 /\ desc = 0 /\ buf = 0
  /\ playback_speed = 1
  /\ in_list = [b \in Buffers |-> b] /\ user_buffer_list = <<>> /\ device = <<>>
  /\ content = [b \in Buffers |-> 0]
  /\ ms_left = 0 /\ submitted = <<>> /\ seen = 0

-----------------------------------------------------------------------------
(* The audio decoder puts a unit on the pipe.                              *)
Produce ==
  /\ produced < MaxProduced
  /\ produced' = produced + 1
  /\ pipe' = Append(pipe, produced + 1)
  /\ UNCHANGED <<thread, buffers, ms_left, submitted, seen>>

(* A millisecond of sound is played.                                       *)
Play ==
  /\ ms_left > 0
  /\ Len(device) > MaxLag => (Len(device) - MaxLag - 1) * SliceMs < ms_left - 1
  /\ ms_left' = ms_left - 1
  /\ UNCHANGED <<pipe, produced, thread, buffers, submitted, seen>>

(* The hardware returns the buffer it got first.                           *)
EmptyBufferDone ==
  /\ device # <<>>
  /\ in_list' = Append(in_list, Head(device))
  /\ device' = Tail(device)
  /\ UNCHANGED <<pipe, produced, thread, user_buffer_list, content, ms_left, submitted, seen>>

-----------------------------------------------------------------------------
(* One pass of audio_scheduler_thread while it is inactive.                *)
Start ==
  /\ pc = "iter" /\ state = "INACTIVE"
  /\ Len(pipe) > StartLen
  /\ state' = "ACTIVE"
  /\ UNCHANGED <<pipe, produced, pc, data_left_ms, slices_to_queue, desc, buf, playback_speed,
                 buffers, ms_left, submitted, seen>>

(* One pass while it is active reads the pipe first ...                    *)
ReadDataLeft ==
  /\ pc = "iter" /\ state = "ACTIVE"
  /\ data_left_ms' = Len(pipe) * SliceMs /\ seen' = produced
  /\ pc' = "check"
  /\ UNCHANGED <<pipe, produced, state, slices_to_queue, desc, buf, playback_speed,
                 buffers, ms_left, submitted>>

Drained(queued_ms) == data_left_ms + queued_ms = 0

(* Slip, LatencyBound: one unit too many.                                  *)
SlicesToQueue_OneMore(queued_ms) == (HighMs - queued_ms + 2 * SliceMs) \div SliceMs

SlicesToQueue(queued_ms) == (HighMs - queued_ms + SliceMs) \div SliceMs

(* Slip, StartedUnitsArePlayed: the last unit on the pipe waits for more.  *)
ReadQueued_KeepsLast ==
  /\ pc = "check"
  /\ state' = IF Drained(ms_left) THEN "INACTIVE" ELSE state
  /\ pc' = IF ~Drained(ms_left) /\ ms_left < HighMs /\ data_left_ms > SliceMs
           THEN "pull" ELSE "iter"
  /\ slices_to_queue' = IF pc' = "pull" THEN SlicesToQueue(ms_left) ELSE 0
  /\ UNCHANGED <<pipe, produced, data_left_ms, desc, buf, playback_speed,
                 buffers, ms_left, submitted, seen>>

(* ... and the hardware queue second, and decides.                         *)
ReadQueued ==
  /\ pc = "check"
  /\ state' = IF Drained(ms_left) THEN "INACTIVE" ELSE state
  /\ pc' = IF ~Drained(ms_left) /\ ms_left < HighMs THEN "pull" ELSE "iter"
  /\ slices_to_queue' = IF pc' = "pull" THEN SlicesToQueue(ms_left) ELSE 0
  /\ UNCHANGED <<pipe, produced, data_left_ms, desc, buf, playback_speed,
                 buffers, ms_left, submitted, seen>>

PullNothing ==
  /\ pc = "pull" /\ pipe = <<>>
  /\ pc' = "iter"
  /\ UNCHANGED <<pipe, produced, state, data_left_ms, slices_to_queue, desc, buf, playback_speed,
                 buffers, ms_left, submitted, seen>>

Pull ==
  /\ pc = "pull" /\ pipe # <<>>
  /\ desc' = Head(pipe) /\ pipe' = Tail(pipe)
  /\ pc' = "measure"
  /\ UNCHANGED <<produced, state, data_left_ms, slices_to_queue, buf, playback_speed,
                 buffers, ms_left, submitted, seen>>

-----------------------------------------------------------------------------
(* audio_scheduler_slice_dump: audio_total_remaining_ms reads the pipe ... *)
MeasureData ==
  /\ pc = "measure"
  /\ data_left_ms' = Len(pipe) * SliceMs
  /\ pc' = "speed"
  /\ UNCHANGED <<pipe, produced, state, slices_to_queue, desc, buf, playback_speed,
                 buffers, ms_left, submitted, seen>>

(* Slip, ReadingsStillTrue: the unit in hand is counted as waiting.        *)
SpeedFor_CountsUnitInHand(total_ms) ==
  IF total_ms + SliceMs > FastMs THEN 2 ELSE IF total_ms < SlowMs THEN 0 ELSE 1

SpeedFor(total_ms) ==
  IF total_ms > FastMs THEN 2 ELSE IF total_ms < SlowMs THEN 0 ELSE 1

(* ... and the hardware queue, and the clock's scale is set on a change.   *)
SetSpeed ==
  /\ pc = "speed"
  /\ playback_speed' = SpeedFor(data_left_ms + ms_left)
  /\ pc' = "get"
  /\ UNCHANGED <<pipe, produced, state, data_left_ms, slices_to_queue, desc, buf,
                 buffers, ms_left, submitted, seen>>

(* Slip, SoundInOrder: the buffer stays on in_list.                 *)
BufferGet_StaysListed ==
  /\ pc = "get" /\ in_list # <<>>
  /\ buf' = Head(in_list)
  /\ user_buffer_list' = <<Head(in_list)>> \o user_buffer_list
  /\ pc' = "set"
  /\ UNCHANGED <<pipe, produced, state, data_left_ms, slices_to_queue, desc, playback_speed,
                 in_list, device, content, ms_left, submitted, seen>>

(* sx_audio_sink_buffer_get: the assertion fails without a free buffer.    *)
BufferGet ==
  /\ pc = "get"
  /\ pc' = IF in_list = <<>> THEN "aborted" ELSE "set"
  /\ buf' = IF in_list = <<>> THEN 0 ELSE Head(in_list)
  /\ in_list' = IF in_list = <<>> THEN <<>> ELSE Tail(in_list)
  /\ user_buffer_list' = IF in_list = <<>> THEN user_buffer_list
                         ELSE <<Head(in_list)>> \o user_buffer_list
  /\ UNCHANGED <<pipe, produced, state, data_left_ms, slices_to_queue, desc, playback_speed,
                 device, content, ms_left, submitted, seen>>

(* The header audioplay_play_buffer takes off user_buffer_list.  Its loop  *)
(* goes on only past a header that is another buffer's and too short, and  *)
(* every buffer is as long as a unit: it takes the first one.              *)
PlayedHeader == Head(user_buffer_list)

(* Slip, BufferAvailable: the loop never counts down.                      *)
BufferSet_NoCount ==
  /\ pc = "set"
  /\ content' = [content EXCEPT ![buf] = desc]
  /\ device' = Append(device, PlayedHeader)
  /\ user_buffer_list' = Tail(user_buffer_list)
  /\ ms_left' = ms_left + SliceMs
  /\ submitted' = Append(submitted, desc)
  /\ desc' = 0 /\ buf' = 0
  /\ pc' = "pull"
  /\ UNCHANGED <<pipe, produced, state, data_left_ms, slices_to_queue, playback_speed, in_list, seen>>

(* The unit is copied into the buffer and its packets are given back,      *)
(* sx_audio_sink_buffer_set hands the buffer over, and the loop goes on.   *)
BufferSet ==
  /\ pc = "set"
  /\ content' = [content EXCEPT ![buf] = desc]
  /\ device' = Append(device, PlayedHeader)
  /\ user_buffer_list' = Tail(user_buffer_list)
  /\ ms_left' = ms_left + SliceMs
  /\ submitted' = Append(submitted, desc)
  /\ desc' = 0 /\ buf' = 0
  /\ slices_to_queue' = slices_to_queue - 1
  /\ pc' = IF slices_to_queue > 1 THEN "pull" ELSE "iter"
  /\ UNCHANGED <<pipe, produced, state, data_left_ms, playback_speed, in_list, seen>>

-----------------------------------------------------------------------------
Pass == \/ Start \/ ReadDataLeft \/ ReadQueued \/ PullNothing \/ Pull
        \/ MeasureData \/ SetSpeed \/ BufferGet \/ BufferSet

SchedulerNext == Produce \/ Play \/ EmptyBufferDone \/ Pass

(* The thread wakes up every 5 ms and sleeps on nothing else; the hardware *)
(* plays what it has and gives the buffers back.  The decoder may stop.    *)
SchedulerFairness ==
  WF_schedulerVars(Pass) /\ WF_schedulerVars(Play) /\ WF_schedulerVars(EmptyBufferDone)

SchedulerSafeSpec == SchedulerInit /\ [][SchedulerNext]_schedulerVars
SchedulerSpec     == SchedulerSafeSpec /\ SchedulerFairness

-----------------------------------------------------------------------------
(* The hardware queue never holds more than one unit above HighMs, however *)
(* the hardware plays between the thread's reads and its writes: what      *)
(* audio_scheduler_thread computes from an old reading is never too much,  *)
(* nor less than none (SchedulerTypeOK): slices_to_queue is a UINT32.      *)
LatencyBound == SchedulerTypeOK /\ ms_left <= HighMs + SliceMs

(* sx_audio_sink_buffer_get finds a buffer whenever the thread needs one   *)
(* (the assertion at sx_audio_sink.c:459 never fails), although nothing    *)
(* makes the thread wait for the hardware to return one.                   *)
BufferAvailable == pc # "aborted"

(* What was handed to the hardware, the unit in hand and the pipe make up  *)
(* the decoder's units in their order: none lost, repeated or overtaken by *)
(* the thread's going on and off.  And the buffers the hardware has hold   *)
(* the units last submitted, in order: audio_scheduler_slice_dump never    *)
(* writes into one, and play_buffer hands over the header of the buffer    *)
(* that was written.                                                       *)
InHand == IF desc = 0 THEN <<>> ELSE <<desc>>

SoundInOrder ==
  /\ submitted \o InHand \o pipe = [i \in 1 .. produced |-> i]
  /\ Len(device) <= Len(submitted)
  /\ \A i \in 1 .. Len(device) :
       content[device[i]] = submitted[Len(submitted) - Len(device) + i]

(* The thread goes inactive only when the hardware is silent and has had   *)
(* every unit that was on the pipe when its length was read; the two       *)
(* readings are of different moments.                                      *)
InactiveOnlyDrained ==
  [][state = "ACTIVE" /\ state' = "INACTIVE" => ms_left = 0 /\ Len(submitted) >= seen]_schedulerVars

(* The clock is sped up only when more than FastMs really are waiting at   *)
(* that moment, although the two lengths are read one after the other.     *)
SpeedsUpOnlyWhenLate ==
  [][playback_speed' = 2 /\ playback_speed # 2
       => Len(pipe) * SliceMs + ms_left > FastMs]_schedulerVars

(* Both decisions taken on two readings of different moments are right.    *)
ReadingsStillTrue == InactiveOnlyDrained /\ SpeedsUpOnlyWhenLate

(* Once more than StartLen units wait, all that were produced by then are  *)
(* handed to the hardware.  (StartLen units or fewer may wait for ever.)   *)
StartedUnitsArePlayed ==
  \A k \in 1 .. MaxProduced :
    (produced = k /\ Len(pipe) > StartLen) ~> Len(submitted) >= k
=============================================================================
