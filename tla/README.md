# A TLA+ verification of Piracast

Piracast turns a Raspberry Pi into a Wi-Fi Display (Miracast) sink. Python
scripts let a phone connect and talk RTSP to it; a C program, the *core*, takes
the MPEG transport stream it then sends over UDP and plays it on the Broadcom
video hardware. This directory holds TLA+ models of both halves, the TLC runs
that check them on small instances, and TLAPS proofs, for every size, of every safety
invariant the runs check.

Contents

1. The system: inventory
2. The plan: modules, compositions, abstract specifications
3. Modules and code
4. The runs, their bounds, and what they show
5. Fairness
6. The proofs
7. Where the code does not do what it says
8. What is not modelled
9. What is left

How to run, in this directory:

    tlc -workers 2 -config SxQueue_main.cfg MCSxQueue     # any pair of section 4
    tlapm SxQueueProofs.tla                               # any module of section 6

`PROJECT.json` lists runs, hazards, findings and theorems, maps every
definition to the lines it stands for, and names for each checked property a
*mutant*: a plausible slip in one definition that makes the property fail. The
mutants are the definitions `<Definition>_<Slip>` of the modules, under a comment
that begins with "Slip"; no specification uses them.


## 1. The system: inventory

### The core (C)

Eight pthreads joined by *pipes* (a ninth, of `mgmt_sys`, only sleeps); nothing else is
shared except one time value.
All are created by `mgmt_sys` after every pipe and manager has been initialised,
and all of them poll: pull, or sleep a few milliseconds. The initialisers of the
video scheduler, audio decoder and audio scheduler build the chains of OpenMAX
components through `libs/ilclient`; from then on a thread of the firmware's
library calls back into `ilclient_event_handler` at any moment.

    UDP 50000 -> [rx] -PKT_QUEUE-> [m2ts process]
         |-- PCR ---------> [pcr_update] -- f_cblk.curr_time --.
         |-- VIDEO_PKT ---> [video decoder] -- SLICE -> [packing] -- SLICE_READY -> [presenter] -> video HW
         '-- LPCM --------> [audio decoder] -- LPCM_SLICE -> [audio scheduler] -> audio HW

| component | source | state | operations | correct when |
|---|---|---|---|---|
| queue | `common/src/sx_queue.c` | `head`, `tail`, `len`, mutex, heap nodes | push, pull, len_get (destroy has no caller) | every operation is atomic on a FIFO; no freed node is touched; asserts hold |
| pipes | `pipe/src/sx_pipe.c` | an array of queues | put, get, len_get | as the queue |
| descriptors | `desc/src/sx_desc.c` | linked chains of buffers | get, put of a chain | one owner at a time |
| receiver | `mgmt_data`, `common/src/sx_udp.c` | socket, one packet | receive and put | every packet received goes on, in order |
| demultiplexer | `mgmt_m2ts_decoder` | one packet | publish the clock reference, route by PID | exactly one owner; references first |
| video decoder | `mgmt_video_decoder` | `look_for_new_slice`, `last_cc`, count, chain, time | per packet: start, extend, dump, drop | a slice passed on is an unbroken run with the right time; losses stay local |
| audio decoder | `mgmt_audio_decoder` | two flags, byte count, last number, chain | per packet: begin, continue, dump, gap | a unit passed on is exact (1920 bytes) |
| audio scheduler | `mgmt_audio_scheduler` | `INACTIVE`/`ACTIVE`, burst counter, speed | start, top up, stop, set speed | bounded delay, order, no failed assert |
| audio sink | `audio_sink` | `user_buffer_list`, buffers, clock scale | buffer_get, buffer_set, ms_left_get | plays what was written |
| video scheduler | `mgmt_video_scheduler` | `curr_time`, each thread's locals | pack, present, estimate the clock | no slice early, none lost, no failed assert |
| video sink | `video_sink` | hardware buffers, `port_setting_changed` | init, buf_get, buf_set | buffers come back; the picture's way is connected once its size is known |
| OpenMAX client | `libs/ilclient/ilclient.c` | per component: event list, flags, `related`, `error_mask`, `in_list`; per client: spare event structures | create, disable/enable port, tunnels, buffers, change state, wait, event handler | no wake-up lost, no wait endless, an answer belongs to its command, no event structure lost |
| OpenMAX core | `libs/ilclient/ilcore.c` | users, handles | init, deinit, get/free handle, tunnel | counts agree |
| system manager | `mgmt_sys`, `target` | the threads | init, open | everything is set up before the first thread runs |

### The session (Python)

| component | source | state | operations | correct when |
|---|---|---|---|---|
| RTSP sink | `scripts/sink.py` | position in the exchange, `cseq` | M1 to M7, keepalives, end | answers match requests; play follows a granted session |
| session loop | `scripts/piracast.py` | `prev_ts`, `ip`, running daemons | DHCP, lease file, connect, stop, kill core | the source called is the one that came; the loop goes on |
| Wi-Fi Direct | `scripts/wfd.py` | the driver's state | reset, poll status, scan, negotiate, hostapd, WPS | a source can always come back |

Interactions: `piracast.py` calls `wfd_connection_wait`, waits for a new lease, calls
`source_connect`, which returns when the session ends. Session and core never
talk: the core's control socket (`mgmt_ctl`, `core_channel.py`) is commented out on
both sides. The script kills the core and does not start it again.

### What is hard here

- *Interleaving.* Producers, consumers and the hardware move between any two
  reads of a thread: lengths and times are read, then used (audio scheduler,
  packing thread, clock thread).
- *Loss and reordering* of UDP packets, seen only through 4-bit continuity
  counters (video) or 16-bit sequence numbers (audio).
- *Byte streams.* `recv` is taken to return exactly one RTSP message.
- *Widths.* A 16-bit number compared in 32 bits; `(UINT32)(0 - 14)`; unsigned
  subtraction of delays; `tv_sec * 1000` in 32 bits; the 33-bit PCR base.
- *Commands and events.* A command is accepted at once and answered later, by an
  event on another thread; commands of two components may wait for each other;
  errors that end a command and errors that do not arrive in between.
- *Limits.* Hardware buffers are asserted to be there, never waited for.
- *Other parties.* Sources leave at any moment; DHCP leases are renewed whenever
  the source likes; a driver's status is polled.

`PROJECT.json`, "hazards", lists each at its line with the properties aimed at it.


## 2. The plan

In order of importance to the program:

1. **SxQueue**, refining **Fifo**: everything else stands on it. Once it is shown
   atomic, the other modules may use a sequence for a pipe, one step per call.
2. **VideoDecoder**, **AudioDecoder**: reassembly under loss and reordering.
3. **AudioScheduler**, **VideoScheduler**: timing, bounds, stale readings.
4. **Demux**, refining **Router**: the front of the pipeline.
5. **Session**, which extends **Rtsp**: the scripts.
6. **OmxCore**, **IlClient**, **VideoSink**, **AudioSink**, **Startup**, each extending the
   one before (the sinks both extend IlClient; Startup composes them): from `main`
   to the first picture.
7. A *Pipeline* module that joins decoder and scheduler (section 9; not written).

Abstract specifications: `Fifo` (the atomic queue), refined by `SxQueue` and proved to
be; `Router` (three lines; what arrives is delivered, in order), refined by `Demux`, its
safety proved, its liveness model-checked.

Theorems worth having, and their state: section 6 (proved) and 9 (open).

No module uses a RECURSIVE operator, so each can be proved about.


## 3. Modules and code

Every `MC*` module extends the one it is named after and only defines the sets a
`.cfg` cannot write. The proofs of section 6 are in modules of their own, which extend the
modules they are about: `SxQueueProofs`, `DemuxProofs`, `SessionProofs`; `SoundProofs` and
`PictureProofs`, each for a decoder and the scheduler it feeds (so the schedulers' `Init`,
`Next`, `Spec` and so on carry the prefix `Scheduler`); `StartupMachine` and `StartupProofs`.
`SequenceLemmas` holds what they share.

**SxQueue.** One step per critical-section statement group: `PushAlloc` builds the
node before the lock, `PushLock`, `PushLinkFirst`/`PushLinkLast`, `PushCount` with the
unlock; `PullLock`, `PullEmpty`/`PullOnly`/`PullHead` (the code's three branches, with the
free), `PullCount`; `LenLock`, `LenRead`, `LenUnlock`. The heap is explicit: a node is an
address, `malloc` returns any address that is not allocated, so a freed address
comes back at the worst moment. `chain` is auxiliary: the linked nodes in order;
`ListShape` says that the pointers spell it. `Fifo` has `Put`, `Get`, `GetEmpty`, `LenGet` on
a sequence between a call and its return, so refinement means linearisability.

**Demux.** `Receive`, `PutPacket` are `pkt_rx_thread`; `Process` is `pkt_process_thread` in
three stages, each ending with a call on a pipe: `Get`, `PutReference`, `Route`. A packet is
its arrival number, the kinds of its cells and the source's clock when it left.
`PcrField` and `Milliseconds` do the real arithmetic of the 48-bit field: base times
2^15, six reserved bits (ones), nine bits of extension, to milliseconds. Time 0 is
the code's "no reference". `Router` states the same with no threads, no pipes and no
field: the n-th cell of a packet leaves n - 1 milliseconds after it.

**VideoDecoder.** `Decode` is one iteration of `video_decoder_thread`: `Skip`, `StartFresh`,
`StartNext` (dumps the slice before), `Extend`, `Drop`. Source and network are actions
too: slices of several packets, packets of several cells; a packet may be lost or
overtaken. A slice's number stands for its time.

**AudioDecoder.** `Decode` is one iteration of `audio_decoder_thread`: `Skip`, `Begin`,
`Continue`, `Gap`, with `Accept` for the byte count, the assert and the dump. The order of
the tests is the code's: the "looking" branch can set the expected number so that
the second test passes. Numbers are `U16Mod` on the wire, `U32Mod` in the variable.

**AudioScheduler.** A pass of `audio_scheduler_thread` is cut wherever it reads
something another party changes: pipe length (`ReadDataLeft`, `MeasureData`), hardware
queue (`ReadQueued`, `SetSpeed`), pipe (`Pull`), buffers (`BufferGet`, `BufferSet`). `Produce`
(audio decoder), `Play` and `EmptyBufferDone` (hardware) come between any two.
`PlayedHeader` is the header `audioplay_play_buffer` really takes: its loop condition has
`&&` where `||` is needed, so it stops at the first one.

**VideoScheduler.** The three threads of `sx_mgmt_video_scheduler.c`, cut in the same
way: `Pack*` (`slice_packing_thread`), `Take`, `Present`, `Show` (`video_scheduler_thread`), `Pcr*`
(`pcr_update_thread`). Clocks are explicit, and unsigned arithmetic is modulo `U64`;
`SinkTime` sign-extends a 32-bit product as the code does. `Garbage` is what the two
uninitialised locals may hold.

**Rtsp.** `source_connect`. `Exchange` is the table of what the code sends when the `recv` of
a stage returns, whatever it returned; `Receivable` is what it may return: any number
of the messages that wait, or nothing at the end of the stream. The source is a
correct one (one request open at a time) that may leave whenever it likes; then
sends reset the connection and calls on the socket may raise.

**Session.** `piracast.py`'s loop and `wfd_connection_wait`, one action per blocking or
state-changing call. `Environment` has the driver's transitions (discovery, giving up,
agreement), push-button association of any device, DHCP leases and renewals. The
lease file is a sequence, its time stamp the length. `renewed` is auxiliary: it marks
that a lease was written between the reading of the stamp and the killing of
hostapd.


**OmxCore.** `ilcore.c`, and the firmware's components behind it. A component has a state,
enabled ports, tunnels and supplied buffers; a command is `pending` until `Perform` or
`Reject` answers it. `Ready` says when the firmware can do it: a port of a tunnel
completes with its partner, a component becomes Idle when its enabled ports have
their buffers. This part is external: it is read off the order in which `ilclient.c`
sends and waits, what it cleans up after an error, and the error codes it tests. A
PortEnable fails too when its partner's has (`orphans`); a StateSet goes on waiting,
which is what the dual wait is for.

**IlClient.** Two threads. The program's is a stack machine: `todo` holds the steps still
to take, `ret` the last result, and each library function is the sequence of its steps
(`ilclient_enable_tunnel(t)` reads like the code); one action takes each kind of step. The
firmware's thread runs `Handler`. Each critical section under `event_sema` is one action
and everything else interleaves: in particular between the search of a list (`check`,
`look`, `look for error`) and the sleep on the flags (`suspend`). `Startled` is the sleep that
ends for nothing, since a flag of an earlier answer can still be set.
`assert` and `vc_assert` abort the program (`failed`).

**VideoSink**, **AudioSink**. The set-up sequences of the two sinks with every assertion and
every result that is ignored; `Settings` and `Submit` are the halves of
`sx_video_sink_buf_set`. What is set with OMX_SetParameter is left out, that it may be
refused is not. **Startup** calls the initialisers in the order of `mgmt_sys_init`, then
runs the presenter against the firmware.


## 4. The runs

Sizes and times are of two workers on a small machine.

| run | module, config | states | checks |
|---|---|---|---|
| sxqueue | MCSxQueue, SxQueue_main | 28 k, 18 s | `ListShape NoDangling PullAsserts`, `ImplementsFifo`, `ImplementsFifoLive` |
| demux | MCDemux, Demux_main | 62 k, 24 s | `OneOwner ReferenceFirst`, `ImplementsRouter` |
| video_decoder | MCVideoDecoder, VideoDecoder_main | 161 k, 22 s | `ChainKept SlicesArePrefixes StampsInOrder`, `WholeSlicesAreDumped` |
| audio_decoder | MCAudioDecoder, AudioDecoder_main | 1232 k, 155 s | `ChainKept UnitsAreExact OneUnitPerGap`, `AbortsOnlyOnField`, `AcceptedUnitsAreDumped` |
| audio_scheduler | MCAudioScheduler, AudioScheduler_main | 20 k, 9 s | `LatencyBound BufferAvailable SoundInOrder`, `ReadingsStillTrue`, `StartedUnitsArePlayed` |
| video_scheduler | MCVideoScheduler, VideoScheduler_main | 280 k, 110 s | `HwBufferAvailable DecoderGetsSlices`, `NeverEarly`, `EverySliceShown` |
| session | MCSession, Session_main | 97 k, 14 s | `TypeOK PlayGranted AnswersInTurn DiesForAReason`, `HandshakeCompletes`, `BackAtTheTop` |
| startup | MCStartup, Startup_main | 50 k, 60 s | `NoLostWakeup PoolKept AbortsForAReason SetUpIsWhole NothingLeftOver`, `AnsweredTruly`, `StartupEnds`, `PictureComes` |

Where `TypeOK` is not listed, an invariant of the run has it as a conjunct: `ListShape`,
`OneOwner`, `ChainKept`, `LatencyBound`, `HwBufferAvailable`, `PoolKept`.

Four more runs end in a violation; they are the findings of section 7. Deadlock is
checked only in `sxqueue`. Elsewhere the bounds on what the environment sends, and in
`session` the end of the script, stop the system on purpose.

What they show, and why the bounds suffice:

- **sxqueue.** Three threads, three node addresses, two values. Three threads put one
  inside the lock, one waiting and one returning with a freed address; three
  addresses give lists of none, one, two and three nodes, the last case for each
  branch, and force reuse.
- **demux.** Three packets, a receive buffer of one. The six layouts are the classes
  the code tells apart: each kind alone, a reference before and behind media, two
  references, two media. The clock of 299 ticks reads 0 ms and exercises the
  extension; 27000 reads 1.
- **video_decoder.** Four slices of up to three packets, three losses, one overtaking.
  Three losses remove a whole slice, or hit three slices in a row; the fourth slice
  shows recovery. Packets have two cells, so first and last counter differ. The
  run of cells lost stays below 16, for more is invisible by the format's design:
  eight such packets lost in a row are taken for none. `SlicesArePrefixes` allows
  a lost *tail*: a start is never tested for continuity. `WholeSlicesAreDumped` is the
  exact condition under which a slice that arrives whole gets through.
- **audio_decoder.** Units of three bytes in packets of one or two, so a unit has two
  or three packets; numbers modulo 7, so they wrap inside a unit or between two.
  Two losses, one overtaking, one foreign packet. A start has an adaptation field or
  none, from unit to unit: "Sony Xperia" sends them (lines 142-144). The code does not
  skip the field: it counts it as sound and reads the unit's length from other bytes.
  `Misread` has what can come of that: the right length, zero, and one that the assert of
  line 258 does not admit. A unit with such a start is cut wrongly, or fails an assert.
  What is left, and checked, is that nothing of this reaches any other unit: those after
  it are exact (`UnitsAreExact`), and no assert fails in a unit whose start has no field
  (`AbortsOnlyOnField`). `OneUnitPerGap` and `AcceptedUnitsAreDumped` are about streams without
  fields, up to the first one.
- **audio_scheduler.** Units of 2 ms, hardware topped up below 4, playback above one
  unit, and exactly the buffers `BuffersAssumption` asks for; six units cover start,
  top-up, drain, stop and restart.
- **video_scheduler.** Three slices of two hardware buffers each, two kept ready,
  seven buffers: `(HighSlices + 1)` times the two of a slice, and one with the decoder. Six
  are too few. The program keeps ten ready and has about twenty buffers: enough for
  slices of one buffer (80 KB), not of two. Two references and three milliseconds
  with a delay of one: early and late references, one that waits a millisecond, and
  none at all. Two slices have the same millisecond, the third the next.
- **session.** Two sources, two discovery requests, two leases, two keepalives: two
  sessions in a row, of one source or of two, with failed scans around; or one
  session and a renewal that races with the next. The renewal race needs exactly
  two leases.
- **startup.** All eight components of the program (`Components`; the second renderer and
  clock of the second `sx_audio_sink_init` included), two buffers for each of the ports the
  client feeds, the code's 100 event structures, one refusal of the firmware anywhere,
  two reports that answer no command (a picture size, again, damaged data). One refusal
  reaches every cleanup path from its beginning. The invariants are proved for any
  number of refusals (and were run with up to four first). `AnsweredTruly` is limited to
  one refusal; of two it is not true, which `startup_two_refusals` shows (section 7).
  `PictureComes` excuses a refusal, a wait that timed out (`ilclient_setup_tunnel` gives up
  waiting for the scheduler's report, and the sink asserts), and a source that stops before the
  report was looked for: the presenter then waits for a slice for ever.

The exceptions that `DiesForAReason` lets pass are real, see section 7; the property
says that they are all.


## 5. Fairness

Threads of the core never wait for each other except for the queue's mutex; they
poll in endless loops. So each thread's step has weak fairness, also the hardware's
(it plays what it has and gives buffers back) and time's. Nothing is assumed of
whoever sends: packets, slices, references, requests and leases may stop.

- `SxQueue`: a thread inside the critical section only computes (WF). Taking the lock is
  strongly fair: every thread sleeps or blocks between operations, so a waiter finds
  the lock free again and again. Nobody must start an operation.
- `Demux`: WF of the two threads and the three consumers.
- `VideoDecoder`, `AudioDecoder`: WF of the thread.
- `AudioScheduler`, `VideoScheduler`: WF per thread, of the hardware, of `Tick`.
- `Startup`: WF of the program's thread (a wait with a limit ends), of the answer to some
  pending command, and of buffers coming back. That a slice comes for the presenter, that the
  firmware accepts a command, or reports a size or an error, is not assumed; nor that a sleep ends for nothing (`Startled`), on which nothing may rely.
- `Session`: WF of the main loop, the RTSP sink, and the answers of a source that
  talks. That a source comes, agrees, associates, gets an address or stays is not
  assumed, nor that the driver answers.


## 6. The proofs

Every module with a specification has its proofs; TLAPS checks every leaf. For each a
strengthened invariant is stated, proved inductive with one lemma per action, and the
theorems are drawn from it. Strengthenings were first checked as invariants of the run of
the module. Each theorem holds for all values of the constants that satisfy the module's
assumptions and the hypotheses named here; bounds (`MaxLost` and the like) are constants
too, so a theorem holds for any of them.

| property | theorem | hypotheses |
|---|---|---|
| `ListShape NoDangling PullAsserts` | `NothingLost NoUseAfterFree PullAssertsHold` | |
| `ImplementsFifo` | `Linearizable` | |
| `OneOwner ReferenceFirst` | `EveryPacketHasOneOwner ClockComesFirst` | |
| safety of `ImplementsRouter` | `RoutesInOrder` | |
| VideoDecoder `ChainKept StampsInOrder` | `ChainIsKept StampsAreInOrder` | |
| `SlicesArePrefixes` | `PrefixesIfGapsSeen` | gaps show in the counter |
| | `PrefixesInOrder` | no overtaking; `N * MaxLost < CCMod`, N cells at most |
| AudioDecoder `ChainKept` | `ChainIsKept` | |
| `UnitsAreExact` | `UnitsIfGapsSeen` | no zero length; gaps show |
| `AbortsOnlyOnField` | `AbortsNeedAField` | the same |
| `UnitsAreExact`, and no assert fails | `UnitsInOrder` | no zero length, no adaptation field in a start; no overtaking; `MaxLost + MaxOther < U16Mod` |
| `OneUnitPerGap` | `GapCostsOneUnitMore` | no zero length, no such field; gaps show |
| `LatencyBound BufferAvailable` | `LatencyBounded AlwaysABuffer` | `BuffersAssumption` |
| `ReadingsStillTrue SoundInOrder` | `DecisionsHold SoundKeptInOrder` | |
| `HwBufferAvailable` | `BuffersSuffice` | `NumHwBuffers >= (HighSlices + 1) * M + DecoderHolds`, slices of M buffers at most |
| `DecoderGetsSlices` | `PiecesInOrder` | |
| `NeverEarly` | `ShownInTime` | `NoWrap` |
| Session `TypeOK PlayGranted AnswersInTurn DiesForAReason` | `TypesAreKept SetUpBeforePlay AnswersAreInTurn DeathHasAReason` | |
| Startup `NoLostWakeup` | `NoWakeupIsLost` | `ComponentsAssumption EnoughEvents` |
| `PoolKept AbortsForAReason` | `PoolIsKept AbortsAreJustified` | the same |
| `SetUpIsWhole NothingLeftOver` | `SetUpIsComplete NoAnswerIsLeft` | the same |

The configurations of the runs satisfy the hypotheses, but for overtaking and adaptation
fields, which some of their behaviours have: there `PrefixesIfGapsSeen` and `UnitsIfGapsSeen` still apply where gaps
show. Without the other hypotheses the properties are false: see section 7 for the
zero length, the clocks and the adaptation field, section 4 for the buffers and
losses as long as the counter.

**SxQueueProofs.** `IInv == TypeOK /\ Exclusion /\ Linked /\ NoDangling /\ Counted`. None of the
parts is inductive by itself: `Linked` needs `Exclusion` (no other thread in the section)
and that a pusher's private node is on no list (`NoDangling`); `NoDangling` needs that the
pointers spell a list without repetition (`Linked`), or freeing the head could free a
later node. For the refinement, linking is the moment a push takes effect, unlinking
a pull's, reading a length's; every other step stutters. `Counted` is needed for the
length: under the lock the counter equals the list's length. `NoLeak`, which completes
`ListShape`, is inductive together with `IInv`: a node leaves the list only in the step that
frees it, and malloc gives an address to one thread.

**DemuxProofs.** One number places everything: `Routed`, how many packets the process
thread is done with. `IInv` says what every pipe, taken or waiting, holds by it (`Brings`), and
that the thread's locals belong to packet `Routed + 1`. What the pipes hold is a
concatenation over the packets, so the proof needs the lemmas about `FlattenSeq`. `RoutesInOrder` maps each step to `Router`'s: a receive is an
arrival on all lines at once, a take is a delivery, the threads' steps stutter.

**The decoders (PictureProofs, SoundProofs).** That no packet is in two places (`Apart`) is not
inductive, since a packet just sent must be new to all of them: its cells or its
number are above all that arrived (`Known`). What is on the pipe is unbroken only if a
gap shows, and a counter modulo `CCMod` or `U16Mod` does not show every gap. So the theorems
take it as a hypothesis on the network (`GapsSeen`: the packet at the head of the queue
is nearer to the chain's end than the counter is wide), in whatever order packets
arrive, and a second theorem discharges it for packets in order: what lies between
two packets that arrived one after the other was lost or, for sound, is of another
kind, and there is not that much of it. For sound the invariant must also tell where
in its unit a packet ends, which the packet does not say: `Cut` states that a function
`off` exists that tells it, and the byte counter equals `off` of the chain's last packet.
`OneUnitPerGap` is about packets that are gone: `HInv` says of all that was sent that numbers
tell the order of units and no unit is without a packet, and of the decoder that it
takes packets in that order. Then a packet of the unit before a refused start lies
between the end of the chain and that start, and so was lost: the successor of the
chain's last packet, whose unit is not complete, or any packet of a unit between.
`GapCostsOneUnitMore` needs of the network only `GapsSeen`, which is about one gap at a time: how
much is lost in all, and how many packets of other kinds the stream has, does not matter.
The proof showed the property to be weaker than it could be: it allowed a start to
be refused because of the wrap of the numbers in an earlier unit, which never happens.

**The audio scheduler (SoundProofs)**, under `SchedulerAssumption` and `BuffersAssumption`:
`(NumBuffers - MaxLag - 1) * SliceMs >= HighMs`. The program has 100 buffers of 10 ms for 200 ms, so
up to 79 may be returned late.

- `LatencyBounded`: the hardware queue never exceeds `HighMs + SliceMs`. The strengthening is
  `Budget`: while a burst lasts, what is queued and what is still to be queued stay
  within the bound, since playing only lowers it.
- `AlwaysABuffer`: the assertion of `sx_audio_sink_buffer_get` holds. `BuffersCounted` says where the
  buffers are and that the hardware holds at most `MaxLag` beyond what its sound
  accounts for.
- `DecisionsHold`, from `StopsOnlyDrained` and `SpeedsUpWhenLate`: what is decided on two readings
  of different moments is true when it is decided. `UnitsCounted` and `Readings` carry
  the first reading to the second.
- `SoundKeptInOrder` needs `BuffersDistinct`: a buffer is in one place, the one in hand
  included, so writing into it disturbs none that the hardware has.

**The video scheduler (PictureProofs).** That a buffer is there when one is needed is a matter of where
the others are. `Counted`: all are somewhere. `Wanted`: a burst makes no more slices ready
than are wanted, although the length of SLICE_READY is read once, since only the
packing thread fills that pipe. `Where`: the buffers of the slice being packed are full,
so it never has more than its size needs. `BuffersSuffice` adds the bound on slices
(`Fit`). `PiecesInOrder` is the invariant itself under the concatenations' lemmas. `ShownInTime`
rests on `InStep`, what each local of `pcr_update_thread` means at each of its steps: the
estimate is never ahead of the source's clock less the delay, also between the reading
and the setting, because clocks only advance meanwhile. `NoWrap` asks
that the source's clock does not start below the delay nor reach its width, and that the
sink's 32-bit product does not overflow meanwhile. It may have overflowed before, any number of
times, and may be negative: only the difference of two readings matters, and that is right
modulo 2^64 unless one of those moments, 49.7 days apart, lies between them.

**SessionProofs.** `AnswersInTurn` is not inductive: that an answer bears the right number
depends on the request the source has open, and that on all that was sent. `InStep` says
at which places of the conversation the two sides can be, by the stage of the sink
(`AtM1` to `AtPlay`), each with the messages on their way and the numbers on both sides;
merged messages show as places with nothing left to receive. `SetUp` ties what was granted to
it. `DiesForAReason` needs `Called` (where the script is tells whether there is a
connection) and `Fresh`: leases written since the stamp are of stations of the present
access point, unless one was written before the last one was killed.

**StartupMachine, StartupProofs**, under `ComponentsAssumption` (the components are the eight the
program creates) and `EnoughEvents` (`NumEvents >= 64`; the code has 100), for any number of
buffers, of refusals and of reports. The state of the program's thread is a stack of
steps (`todo`), and a step may push whole cleanups, so an invariant that lists the stacks
that can be reached would be the program's text again, once per path. Instead the invariant
says of the stack what a program logic says of a program:

- A state `S` of `StartupMachine` is what the program *knows*: for each component the command
  under way, if any; whom it is related to, whose errors are masked; the world it has
  built (`S.world`: states, ports, tunnels, buffers). After an answer that was not the
  expected one (`S.doom`) it knows only which clients and handles it must still give back
  and whose error it has not read (`S.told`).
- `Nexts(f, k, S)` are the stacks and states that step `f` may leave before the rest `k`, whatever
  the firmware does; `Good(f, k, S)` is what the step relies on: a "send" that nothing is
  under way at that component, a "call" that the world is that of a finished set-up, an
  "assert" that a result that is not 0 has a reason.
- `Safe(p, S)` is the greatest set of stacks closed under these: the first step is good, and
  every outcome is safe. It is defined as the union of the sets closed in this way, so that
  what is safe stays safe needs no induction. `Runs(P, p, Q)` is the rule for a piece of text:
  from `P` it ends in `Q`, and it composes (`RunSeq`). Each call of `IlClient` gets its rule, then
  the parts of the sinks, then `main` (`MainSafe`). The presenter's endless loop is one of the
  closed sets (`RestSafe`, `HandedSafe`).
- `Rel(S)` ties knowledge to the variables. `Common`: handles, types, and that every event
  structure is on its client's list of spares or on one of its components' lists, where the
  handler has left no duplicates: sixteen for a component at most, hence 64. `InStep`: a
  command that is under way is pending, or its one answer is on the list (`After` says what the
  component is like then), or one refusal is. `Blamed`: something was refused or a wait
  timed out.
- `Heeded` and `Before` are about the next step: an error on a list has its flag raised or is
  about to be looked for, and whoever goes to sleep with no flag raised has nothing on the
  list that it waits for. This is where the critical sections matter: the handler adds an
  event and raises the flag in one of them, for the component and for the one that waits on
  it (`Tell`).

`IInv` says: the program has aborted for a reason, or its stack is `Safe` for some `S` with `Rel(S)`
and the two. One lemma per kind of step of the program (`StepSend`, `StepCheck`, ...) and per
action of the firmware (`StepAnswer`, `StepReport`, ...) shows that the new stack, with one of the
states of `Nexts`, is so again. `NoLostWakeup` is read off `Before`, `PoolKept` off `Common`;
`SetUpIsWhole` and `NothingLeftOver` off `Good` of "call" and "present" with `InStep`, where `Excused` bounds
the components that did not start by the commands refused. The proof showed two
properties weaker than they could be: `NothingLeftOver` allowed answers to stay behind once
something was refused, and the run had eight event structures where only 64 are shown to
be always enough.

**SequenceLemmas.** Appending, taking the head, elements, distinctness, concatenation; and
sums over a sequence. Those need induction over data: the library's induction
theorems take an operator as a parameter and cannot be instantiated, so `NumberInduction`
restates induction over a *set* of numbers, from the well-foundedness of the naturals,
and each use defines the set of lengths for which its claim holds. So a recursive
function is shown to exist (`SumExists`, `FlatExists`) and to be the only one that obeys its
recursion (`SumsAgree`, `FlatsAgree`), which ties `Sound` and `FlattenSeq` to what one more
element adds to them.

**Only model-checked.**

- All liveness: `ImplementsFifoLive`, `WholeSlicesAreDumped`, `AcceptedUnitsAreDumped`,
  `StartedUnitsArePlayed`, `EverySliceShown`, `HandshakeCompletes`, `BackAtTheTop`, `StartupEnds`,
  `PictureComes`, and the fairness half of `ImplementsRouter`. It needs ENABLED, which is out of
  the prover's reach.
- `AnsweredTruly`, with one refusal: with two it is false (`AnsweredAlways`, section 7), and what makes it
  true with one is that every path of a cleanup meets only answers of its own.


## 7. Where the code does not do what it says

With a run that ends in a violation:

- `audio_decoder_wrap`: the UINT16 number is compared with a UINT32 `last_seq_num + 1`, so
  65535 to 0 is a gap: a unit is dropped every 65536 packets without any loss
  (`sx_mgmt_audio_decoder.c:328`). `mgmt_data` casts, and gets it right.
- `audio_decoder_zero_length`: the length 0 of "Sony Xperia" passes the assert and
  becomes 4294967282, which no count reaches: no unit is ever dumped (line 255).
- `video_scheduler_estimate`: before the first reference the estimate is made of
  uninitialised locals (`sx_mgmt_video_scheduler.c:390`).
- `startup_two_refusals` (`ilclient.c:983` and 1218). `ilclient_disable_port_buffers` takes any
  error that ends a command for the answer to its PortDisable. When the renderer refuses a
  buffer, and then also the PortEnable that is still under way, that older error ends the
  cleanup; the answer to the PortDisable comes later. If it is "same state", the cleanup of
  `audioplay_create` takes it for the answer to its change to Loaded, which has not happened.
  The program asserts soon after, so the invariants hold.

Met while modelling, described by a property's exception or a hazard:

- *Stale lease* (`piracast.py:73`, `wfd.py:225`). The stamp is read before hostapd is killed.
  A station of the session before that renews its lease in between ends the next
  wait at once; the old address is called, and nothing catches the exception.
- *Merged messages* (`sink.py:107`). If `recv` returns the answer to M2 and the request M3
  together, the sink waits for an M3 it has read, and the source for its answer.
- *Source leaves in the handshake* (`sink.py:144`). `match.group` is called on None.
- *Core not restarted* (`piracast.py:110`; starting it, lines 57-58 and 65-67, is commented
  out). It is killed after each session; the second session has no receiver.
- *No way out* of the loops that wait for negotiation, WPS, a station or a lease.
- *Mixed packets* (`sx_mgmt_m2ts_decoder.c:182`). The first media cell routes the packet.
- *Clock start-up*: a source clock below 500 ms underflows a UINT64 (line 390).
- *Old time* (`sx_mgmt_video_decoder.c:487`). After a drop the next slice is dumped with the dropped
  slice's time. `slice_pts_ms` is set at a start only if it is the first ever or a chain is
  being dumped (`sx_mgmt_video_decoder.c:482, 487`). `StampsInOrder` shows the harm is bounded:
  never late, and still growing.
- *Adaptation field* (`sx_mgmt_audio_decoder.c:248-255`). An adaptation field in a start
  cell is admitted ("This makes Piracast to work with Sony Xperia. As it sends afc with payload (11b)", lines 142-144) but never skipped.
  The length is read at a fixed place (line 255): with a field of four bytes that is the
  `00 00` at the head of the PES, a length of zero, and the unit never ends; with a clock
  reference it is part of that clock; of other values the assert of line 258 fails. When it
  happens to be 1920, the field is counted as sound and either the assert of line 351
  fails or a short unit reaches the scheduler, whose own assert (`sx_mgmt_audio_scheduler.c:242`)
  then fails. These are the units `Plain` leaves out of
  `UnitsAreExact` and `AbortsOnlyOnField`.
- *Overflow* (`sx_mgmt_video_scheduler.c:197`). `tv_sec * 1000` overflows its 32-bit `long` every 49.7
  days; an estimate made across that moment is 2^64 - 2^32 too far,
  and until the next reference every slice is shown at once. `ShownInTime` excludes it (`NoWrap`).
- *Two sound chains* (`sx_audio_sink.c:435`). `sx_audio_sink_init` runs twice; the second call
  replaces `st` and the first renderer and clock stay Executing for ever, with all
  their buffers. `SetUpIsWhole` counts both.
- *Ignored results* (`sx_video_sink.c:137, 183, 202, 262, 268`; `sx_audio_sink.c:181, 276, 294`).
  A state change that is refused goes unnoticed and the sink starts without one
  component: the exception in `SetUpIsWhole`, and in `PictureComes`.
- *One report* (`sx_video_sink.c:250`). After the first picture size the others stay on the
  list, one of each kind; a change of resolution is not followed.
- *Wrong structure* (`sx_audio_sink.c:262-267`). The fields of `ref_clock` are written to `param`; the
  call gets zeros.
- *Early return* (`ilclient.c:913`). When a refused PortEnable leaves the port disabled,
  `ilclient_disable_port_buffers` returns at once and the buffers supplied so far stay on
  `in_list`. Also there: line 951 follows the address of the link instead of the link,
  which only a component with two client-fed ports would reach.
- *Unanswered answer* (`ilclient.c:595`). When the sink's PortEnable is refused in the
  Loaded branch, the source's answer stays on its list. It does no harm in this program:
  the sinks assert that the tunnel was enabled, so no call ends well after it, which is
  what `NothingLeftOver` says.


## 8. What is not modelled

- Of `ilclient.c`, what the program never calls: state transitions of several
  components, flush and teardown of tunnels, enabling a port alone, output buffers,
  the blocking get, waits for configuration changes, port indices. Callbacks that
  the program registers do nothing.
- Event flags of commands are lowered with the answer and raised at will (`Startled`),
  which includes everything the real flags do and keeps the state small.
- Parameters of the OpenMAX components, port streams (the program's components have
  none), and the initialisers of `mgmt_sys` that only fill in fields: they are the
  `Init` of their modules.
- How fast pipes fill: none has a bound (`sx_queue.c:121`), and the speeds of threads are
  not in the code. The schedulers' own limits are checked.
- Thread priorities: every interleaving is explored whatever they are.
- `mgmt_ctl`, `core_channel.py`, `mgmt_env`: not called. `env`, `release`: copy files. `vgfont`: unused.
- Malformed packets and socket errors, on which the code aborts.
- Partial RTSP messages; the parameters given to the Wi-Fi driver.


## 9. What is left

*Modelling.* A `Pipeline` composition (VideoDecoder into VideoScheduler) in which a slice's
wrong time meets the presenter; the descriptor heap below chains; `Startup` against an
abstract specification of the client library (a call that returns success has done it),
which is true with one refusal only.

*Proofs.* Every safety invariant of the runs is proved. `AnsweredTruly` could be proved for
one refusal, with an `S` that keeps its knowledge through the cleanups.
