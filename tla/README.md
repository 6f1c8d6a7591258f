# e-drummer: TLA+ models of the capture box and the brain

This directory holds the verification project of the e-drum system: TLA+
modules, TLC configurations and TLAPS proofs, each module translated from the
code it names. `PROJECT.json` maps every definition to its source lines.

Paths below are relative to `src/`. The firmware is in
`e-drum capture/e-drummer` (`core` stands for its `lib/edrum_core/src/edrum`,
`platform` for `lib/edrum_platform/src/edrum/platform`, `fw` for its `src`); the
host program is in `e-drum brain/edrum` (`brain`).

    tlc -workers 2 -config RingMC.cfg RingMC
    tlapm RingProofs.tla          # and ControlPlane-, SessionLog-, Recorder-,
                                  # SyncLink-, Grading-, Runner-, ReplayProofs

## 1. Inventory

The box sits between an electronic drum kit (USB MIDI) and an SD card. Two cores
share one lock-free ring: the capture side stamps and interprets what the kit
sends, the storage side writes it to the card, so that a card that stalls for
seconds never smears a timestamp. Afterwards a host program pulls the session
files off the box and analyses them.

    kit --USB--> UsbHost --> CaptureSink --> SessionController --> SpscRing --> LogWriter --> SD card
                                 |                ^                                              |
                           GestureDetector        | ControlDispatcher                     SyncService
                                 +---------------->|                                              |
                     console task --control_queue--+                              serial line, framed
                                 |                                                               |
                           ClickScheduler --> click task                                     brain: sync
                                                                       brain: read_log -> reduce_session -> analysis

| Component | State | Operations | Talks to | What makes it hard | What makes it correct |
|---|---|---|---|---|---|
| `SpscRing` (core/ring.h) | slots, two free-running 32-bit counters, high-water mark | `push`, `pop` | capture task, storage task | no lock; stale copies of counters; wrap | it is a bounded FIFO; no slot is open on both sides; what is accepted arrives |
| `SessionController` (core/session_fsm.*) | session, pause, grid and enrollment spans, timeline origin, cache of controller positions with set and dirty bits | `on_event`, `on_ctrl`, `on_sysex`, `tick`, `bookmark`, `grid_*`, `enroll_*`, `end_session` | called by capture task, pushes into the ring | long call sequences; three flags per controller; two timeouts; references into the past | the file of a session tells everything about it: state at every hit, closed spans, exact monotonic stamps |
| `LogWriter`, SD adapter (core/logwriter.*, platform/sd_storage.h) | open file, latch, error count, unsynced bytes | `handle`, `idle` | storage task, card | each card call may fail; loss of power anywhere | one session per file, no gap, tail damage only, pending data synced in the end |
| `read_log`, `reduce_session` (brain io/logfile.py, engine/session.py) | - | fold of a file | brain | torn and damaged files | accepts what the firmware may leave behind |
| capture task (fw/capture_task.cpp) | burst generator | loop: USB, control queue, burst, tick, gesture | everything on core 0 | order within an iteration; times taken before and after | times never precede the session they are given to |
| Control path (fw/console.cpp, core/control_dispatch.*) | control queue, click settings | console commands, `dispatch` | console task to capture task | flags of another task read without a lock; queue may be full | an open span names the click that is running |
| `GestureDetector` (core/gesture.*) | half chords, chord count, span | `on_event`, `poll`, `reset` | capture task | sequence gap against poll; end of session | a declaration comes from one uninterrupted sequence |
| Click (core/click_sched.h, click_render.*, fw/click_task.cpp) | running, tempo, start, next beat | `start`, `stop`, `advance`, snapshot | console, click task, capture task under a spin lock | integer rounding of beats | beats and declared downbeats agree |
| Sync (core/sync_service.*, frame.*, brain io/devlink.py, framing.py) | service: open name; client: pending frames | HELLO, LIST, FETCH, CRC, DELETE, BYE | serial line | loss, late answers, retries, resumed files | the replica is a byte-exact copy of closed sessions |
| Mode switch (fw/console.cpp, storage_task.cpp) | `sync_mode`, `in_sync`, accumulator | enter, pump, leave | console and storage task | flag set and cleared by two tasks | each sync starts clean, the console comes back |
| Wall clock (platform/esp32_wallclock.h) | offset, saved epoch | `begin`, `set_time`, `checkpoint` | storage task, sync | power cycles | dates of sessions never go back |
| USB host (platform/usb_host_midi.*, core/usbmidi.*) | device, transfers, pending flags, SysEx buffer | event callbacks, `poll` | driver, capture task | plug and unplug in any order; lost resubmissions | a plugged kit ends up streaming |
| Recorder (brain io/capture.py, sources.py, `SessionWriter`) | queue, writer | `events`, `append`, `close`, Ctrl-C | MIDI thread, main thread | interrupts, late messages | every file it leaves can be read; Ctrl-C costs at most the record in hand |
| Analysis (brain engine/*) | the fold of a log; results and their quality | `reduce_session`, `segment_for`, `nearest_gridline`, the analyzers, `run_analyses` | reader | declarations in the millisecond of a hit, logs that break off, gestures known only after their hits, a graph of analyzers | each hit is graded against the nearest line of the grid in force and counts once where it should; order, refusals and quality follow the graph |
| Records and replay (brain engine/records.py, cli/main.py) | - | `parse_line`, `to_line`, `replay` | reader | what a constructor accepts, what a round trip keeps | replay is identical exactly if nothing was lost |

Configuration, waveform synthesis and the thin platform adapters carry no control
worth a model; they are listed as not modelled.

## 2. Plan

Done, in this order:

1. **Ring**: `BoundedFifo` (what a queue promises) and `Ring` (what `ring.h`
   does), refinement checked and proved.
2. **Session stream**: `SessionFsm` (the state machine), `SessionFold` (the
   brain's fold), `SessionProtocol` (what a record stream promises), composed in
   `SessionStream`.
3. **Session log**: `LogWriter`, `LogReader`, composed with the abstract queue
   and the abstract producer in `SessionLog`. The writer is thus checked against
   the two abstract specifications that `Ring` and `SessionStream` are shown to
   implement, so that the three runs together speak of the whole path without
   multiplying their state spaces.
   Proofs about the stream, refinement included.
4. **Recorder**: the other producer of session files, `edrum record`, checked
   against the same `LogReader`.
5. **SyncDevice**, **SyncLink**: both ends of the sync protocol with the hand-over
   of the line, and the replication.
6. **Grid**, **Grading**, **Runner**: what the analysis takes into account, and
   the order and refusals of its analyzers. Proofs about the spans and the grid.
7. **Records**, **Replay**: the lines of a log and the replay gate, which ties
   `LogReader` to the parser.

8. **Gesture**, **Click**, **ControlPlane**: the real callers of the session state
   machine, which `SessionStream` had as an environment: the console and its queue,
   the dispatcher, the gesture detector, the click. Proofs that they are callers
   `SessionStream` allows, and of the one invariant that ties gestures to sessions.

Left: **WallClock**, **UsbHost**, the burst generator, the click renderer, the
framing byte by byte, and the second setter of `sync_mode`. Of the properties that
the passing runs check, every invariant and every action property is a theorem.

## 3. Modules

### BoundedFifo, Ring, RingProofs

`BoundedFifo` is a queue with three actions, `Accept`, `Refuse` and `Take`.
`Ring` has the two counters, the slots, and for each side a program counter and
its local copies. A step is one access to a shared word; the copy of a record is
two steps, with `Torn` in the slot between them. Counters are taken modulo
`W = Laps * N`, the role 2^32 plays for 512 slots; the proofs need no more than
that a slot count divides the counter range, which is what the `static_assert`
on powers of two secures. The C++ acquire and release pairs are modelled as
sequentially consistent accesses with a delay: an acquire load that returns an
old value is a load made earlier, and loads may be made arbitrarily early before
their test. Reordering that the release and acquire order forbids is not modelled.

A refused `push` linearises where it loads `tail_` (the ring was full then, it may
not be when `push` returns), an accepted one at the store of `head_`, a `pop` at
the store of `tail_`: the refinement mapping `Backlog`, `Told`.

### SessionFsm, SessionFold, SessionProtocol, SessionStream

`SessionFsm` has the variables of `SessionController` under their own names. A
call that pushes more than one record is split at its pushes (`pc`: `start`
before `ensure_session`, `flush` within `flush_cache`, `body` before the call's
own record, `end` within `end_session`), because the ring may be drained, or be
full, between two pushes of one call. `out` is the record the step pushes.
The channel and kind of a controller message are one model value, a controller;
cacheable messages are `OnCtrl`, all others and SysEx `OnRaw`. Clocks are
microseconds, stamps are `UsPerMs` of them; `U64` and `U32` are the widths of the
subtraction and of a stamp. Wall-clock dates, session ids and counters are left out.

`SessionStream` adds the callers (the capture task calls between two polls, in
any order), a clock, and three observers: `kit`, what the kit last sent; `rd`, the
brain's fold of the session so far; `view`, the controller positions that the
session's own records give. `SessionProtocol` is the abstract producer; the
run shows the refinement `live <- in_session`, `mark <- last_t`.

The hits of a gesture lie `TrigLags` back: pairs, for the first and the last of them.

### Gesture, Click, ControlPlane

`ControlPlane` extends `SessionStream` and gives it its real callers. `task` is where
the capture task's loop is: taking messages of the kit, draining the control queue,
polling the gestures; `tick` is the step between the last two. `Dispatch` is
`ControlDispatcher::dispatch`; the call it makes into the state machine starts
there and ends with `Proceed`, so that the console can read `grid_open` and
`enroll_open` between the dispatcher's snapshot of the click and the flag that
the declaration sets. In the console, reading the clock, starting the click behind its
lock, reading each of the two flags and posting each message are steps of their own
(`ClickStart`, `ClickBegins`, `LookGrid`, `PostGrid`, `LookEnroll`, `PostEnroll`); `Post` drops the message when the queue is full, as
`xQueueSend` without a wait does. The console may be given any command while there
are commands left; a `click` is given a tempo of `Click`.

`Gesture` is the detector in clock milliseconds that wrap, a half chord being the set
of its time; `Click` the scheduler in the integers of the code. `fresh` and `blind`
are histories: which spans have been declared on the running click, and whether the
console could not know that one needs it.

Three things that follow from the code and that its documents put differently:

- `edrum-capture-spec.md:73` ("Changing BPM/subdivision re-declares any open span at
  the change point so its snapshot never goes stale"): it does go stale when the
  span opens just while the console reads the flag, and when the queue is full.
  These are the two cases of `blind`, and `SnapshotFresh` says that there is no
  other.
- The flags are read before the queue is drained: `grid end` and `click 130` sent in
  one piece post `GridStart` behind `GridEnd` and open the span again; `end` and
  `click 130` begin a session.
- "The first beat edge at or after `now_us`" (`click_sched.h:40`) may be the second:
  the two roundings disagree by up to half a microsecond in the beat (bpm 23, 2608696 us
  after the start). It is never before now, which is what the timeline needs.

A fourth is a design choice: a chord that comes after the gap, before the capture task
has come round to notice it, starts a new sequence, and the finished one declares
nothing.

### LogReader, LogWriter, SessionLog

`LogWriter` splits `handle` at its storage calls, `step` naming the next one. Each
call may succeed or fail; a failed append may leave nothing or a piece of the
line. A line weighs one unit of `unsynced`. Whether the sync interval is up is left
open after a record and assumed to come when the task is idle. The card keeps
for each file what is durable; `Cuts` gives what a loss of power may leave: at
least what was synced, at most everything, cut anywhere. `clean` remembers that
every append succeeded. `LogReader` is `read_log` on such files.

`SessionLog` composes them with `SessionProtocol` and `BoundedFifo`. Records are
numbered by their stamps, so that gaps and duplicates can be seen.

### Recorder

`edrum record`. The MIDI backend's thread is `Stamp` and `Put` (a record exists,
but is not queued, between them); the main thread is a place in the command
(`mode`: before the `try`, in `run_capture`, in the handler of
KeyboardInterrupt, in `finally`) and a step (`pc`). `Interrupt` is Ctrl-C, which
Python raises in the main thread between any two of its steps: in `run` it is
caught and the queue is drained, in `drain` it goes on to `finally`, elsewhere
it ends the program. `FlushFails` is a full disk: part of the buffer is out, the
rest stays in the `BufferedWriter` and goes out with the next flush. Records
carry a number that the program does not have. Hits and controller messages are
one kind, since nothing in this path tells them apart.

Two things the run taught, which are design rather than defect: a record that is
out of the queue and not yet written when Ctrl-C is pressed is gone, though
`cli/main.py:121` speaks of never dropping an event (`KeptUpToInterrupt` says that
one Ctrl-C costs at most that one); and if the disk fills up while the queue is
drained, what is queued is lost although `session_end` is still written.

### SyncDevice, SyncLink

`SyncDevice` answers requests (`Answers`), one frame a step, as `pump_sync` works
through a chunk of bytes, unless the card fails in the middle of it (`CardFails`: an
ERR, after which `storage_ok` still holds); the listing is in the order of the directory (`Sorted` of
`Ascending`, which stands for the loop over it); `over` is its local of that name, so that a BYE and
the frames behind it are dealt with before the line is handed back. `Console`
reads the same line when `sync_mode` is off. `SyncLink` is the host. `Ask`,
`TimeOut`, `Answered` and `OnError` are `_request` and `list_sessions`; `pc`, `todo`,
`goal`, `offset` and `crc` are the place in `sync_sessions` and `file_crc`.
`final` and `part` are the sessions directory. `Kill` leaves any prefix of the
`.part` that is open. The next command finds the line and the box as they are.

A file is a sequence of units and its checksum that sequence: chained, and
without collisions, which is what the code takes CRC-16 for. A damaged frame is a
lost one, since both accumulators drop it. Opening the serial port empties the
host's input. The host repeats a request for at most 6 s, so that the box's
10 s of silence mean that no command is running (`IdleExit`). A program takes
longer to start than the box to finish its chunk (`~ over` in `Start`); one that
starts while frames of its predecessor are on the line counts as a late answer.
A request that the card failed in counts among the lost frames (`LoseRequest`): the
command has no more to go on than if its answers had been lost, but is told so.

Observations. Answers carry no number. A checksum that arrives after its request
was repeated leaves the second answer on the line for the next request: the chained
sum of an identical file then comes out wrong, and the file is reported as a
CONFLICT, although `devlink.py:301` says that those differ. It is not touched, and the
next sync says "skipped"; `VerdictsGenuine` is about runs in which no answer came late.

The same two answers can make a wrong file pass for a right one. With two retries (the
default, `devlink.py:157`), `a` in the directory, `b` not, and a `.part` of `b` that is
as long as `b` but has other content: if both repeats of the checksum of `a` are answered
late, what they leave on the line is taken for the checksum of the `.part` and then for
that of the whole file, and the `.part` is renamed. The comment at `devlink.py:198`
("anything still pending is a stale leftover ... and is dropped") is about frames that
have been read; what is still under way is not dropped. It takes a damaged `.part`
and two late answers, which is why the run with its one retry does not show it: the
attempt to prove it did. `ReplicaExact` therefore promises of a new file, once an
answer was late, no more than its length and that `read_log` accepts it.

BYE that is repeated because its answer was lost is not answered,
for the box is back at its console. `edrum sync` then fails after it has
replicated everything. `check_schema_compatible` and the host's time are left out.

### Grid, Grading

`Grid` is `engine/grid.py` over integers: a tick is a whole number of units. The
code computes in floating point, so that a hit within an ulp of the middle between
two lines may fall either way there.

`Grading` reads a log record by record (`ReadEvent` and its like are the branches of
`reduce_session`) and defines what the analyzers make of what has been read, at
every prefix: `Track` and `Enrolled` with the automatic end of open spans,
`Segments`, `DeviationOf`, `Groups` (timing), `Pairs` (ioi; a stream is the set of its
hits, and the loop passes over the others), `Observed`, `PerNote`,
`PerLane` (velocity), `Density`. Every prefix is a log that may be read, as a
crash leaves it. Hits are known by their place; a mean is determined by the set of
hits it is taken over, and the sets are what is modelled. `declared` and
an event's `grid` are histories.

Stamps do not decrease, as `SessionWriter` and `KeepsProtocol` secure for both
producers. For a foreign log that runs backwards `reduce_session` warns, and a
`grid_start` that lies before the span it closes gives a segment that ends
before it starts: `grid_end` is clamped there, `grid_start` is not. Nothing
promises otherwise. A kit profile is in use throughout; without one there are no
lanes, and no groups by lane.

### Runner

`_resolve` and `run_analyses` over an arbitrary registry. The two recursions are
walks with an explicit stack (`CloseDep`, `VisitDep`), the inner loop's place in
each frame. `Choose` is the dict comprehension that takes a repeated id once. What the
walks are measured against, `Behind` and `Closure`, is the least set closed under
requirements, not another walk. A quality is the calibration, if there is one, and the flags; its
field `of` is a history of the analyzers whose results have gone into it.
An analyzer may return no result; it then has no quality to pass on.

### Records, Replay

`Records` has, for each record type, the classes of value its constructor accepts
of each field, and what parsing and writing a line keep of it. `BoxLines` are the
lines that `serialize.cpp` writes, `HostRecords` the records the host makes. A value
is a class such as "a negative integer" or "a list that is no span"; canonical
spelling and blanks around a line are a flag each. `Replay` is `read_log` line by
line and `edrum replay`'s comparison; `Image` is the same file as `LogReader` sees
it, and `ReaderAgrees` says that both come to one verdict.

Observations: an unknown record type is kept "byte-faithfully" (`records.py:18`)
but for the blanks and carriage returns around it, so that a foreign log with
CRLF fails the gate; so does a valid log of a later producer that has a field
more in a known type, which is what `ReplayTells` rests on.

## 4. Runs

| Run | Question | Bounds and why they do |
|---|---|---|
| `ring` | Is the ring a queue under every interleaving, across the wrap? | 2 slots, 2 records, counters modulo 8: every fill level meets every slot and the counters wrap at an even multiple of the slots, as in the code. |
| `session` | Does every legal call sequence give a stream the brain reads without a warning and from which the kit can be reconstructed at every hit? | 2 controllers with 2 positions (one in a file while the other is dirty), clock 0..6 of 2 us per ms, pause after 1 ms, idle after 2 ms: a session can start, pause, resume, idle out, and be followed by another before the clock stops. A gesture's hits lie 3 us back, before the session if it is young. Symmetry over controllers and positions, which no property names. |
| `log` | What is on the card, at any moment, after faults and a loss of power? | 2 sessions of 3 records, ring of 2, sync every 2 lines, 3 faults (the latch is 3), 1 loss of power at any step. The producer stops after two sessions: deadlock is not checked. |
| `log_faults` (violation) | Is a file "valid up to the last synced line by construction"? | 1 fault. |
| `record` | What is in the file when the program is interrupted, killed, or out of disk space, at any step? | 3 messages, 2 ms (stamps may tie and may differ), 2 Ctrl-C (the second falls into the handler, the drain or `finally`), 2 full-disk errors. |
| `sync` | Is the replica exact, and does sync converge? | 2 files: a chunk and a half, and less than a chunk, with 2 units to a chunk; directories that are empty, complete, partial or differ; a `.part` that is a true prefix, a false one, or too long; 1 retry, 2 faults among late answers, lost frames, requests the card fails in, and kills; 1 `edrum rm`; the session in the first file still open or not; card missing or not. Two faults are what it takes to get a stale answer and use it. |
| `grading` | Which hits go into which number? | 4 hits on 2 pads (one unknown to the profile) and 2 other records within 3 stamps: a span can be opened, changed and left open, with hits before, in, on the boundary and after; ticks of 2 and 3 units, calibration of 1, so that ties and hits before the downbeat occur. |
| `runner` | Do the walks give the order that the graph demands? | 3 analyzers with up to 2 upstreams, among them cycles, self-loops, diamonds and an id that is not registered; requests in several orders, with a repetition and an unknown id. |
| `replay` | Does the replay gate tell the truth? | 3 lines: the second is any line of either program, or a sample of each type with a field removed, added, or set to every class of value. |
| `replay_tail` (violation) | Is an unparseable last line dropped? | as `replay`. |
| `sync_blocked` (violation) | Does one bad file hold up the others? | no faults; the first file is empty. |
| `control` | Do console, dispatcher, gestures and click keep to what the state machine expects, and do they agree about spans, sessions and the click? | clock 0..2 us of 1 us per ms, since gestures live in milliseconds; one ms of chord window, no gap between chords, pause after 1 and idle after 2 ms, the least that `SilenceIsLonger` admits, so that the timeouts race; 1 tempo whose beats are 3/2 us, so that edges round, and a first beat that comes with the command, so that 2 us after it the two roundings disagree (the box puts it 200 ms ahead; a declaration before the first beat, which gets that beat for its anchor, is covered by `AnchorStays` only); a queue of 1, so that it is full; 2 console commands, which is what it takes to change the click under a span; up to 4 chords, the longest gesture; no controllers, which are the `session` run's. |

Properties, by run:

- `ring`: `NoSlotRace`, `HighWaterBounds`, `ImplementsFifo`, `Delivered`
  (liveness) and `IndInv` (the invariant of the proofs).
- `session`: `NothingToWarnOf` (of the warnings of `reduce_session` none can be
  provoked), `HitsSeeTheKit`, `SpansAgree`, `AnchorsInPlace`, `StampsExact`
  (an action property), `KeepsProtocol` (refinement) and `TypeOK`.
- `log`: `CleanLogsRecover`, `LogsHoldOneSession`, `CaughtUpMeansComplete`,
  `FailSoft` (action property), `EventuallyDurable` (liveness) and `TypeOK`.
- `record`: `AlwaysRecoverable`, `KeptUpToInterrupt`, `ClosedProperly`, `Ends`
  (liveness).
- `sync`: `ReplicaExact`, `VerdictsGenuine`, `CleanSyncsSucceed`, `Converges`
  (liveness).
- `grading`: `GradedByTheGridInForce`, `SpansInOrder`, `NearestOfAll`,
  `PairsAreStrokes`, `HitsCountOnce`.
- `runner`: `ResolvesExactly`, `RefusedExactly`, `QualityInherited`.
- `replay`: `ReplayTells`, `ReaderAgrees`.
- `control`: `GesturesBelong`, `SnapshotFresh`, `DownbeatInPlace` (action property)
  and `ImplementsStream` (refinement).

**What `log_faults` shows.** `open_session` ignores whether the append of the meta
line succeeded and goes on; the next record becomes line 1 of the file, is
synced, and `read_log` refuses the whole file. `logwriter.h` promises otherwise.
The same holds for a short write in the middle of a file, which is why
`CleanLogsRecover` is conditional on `clean`.

**What `replay_tail` shows.** `json.loads` raises `UnicodeDecodeError` on bytes
that are not UTF-8, which `parse_line` does not turn into a `RecordError`: such a
tail is not dropped but ends `read_log`, and with it `replay`, `dump`, `analyze`
and `sync`.

**What `sync_blocked` shows.** A file that was created and never written to
(power lost before its first sync) is refused by `read_log` with an error that
nothing catches. It is first in the listing every time, and what is behind it is
never replicated.

Each property has a mutant in `PROJECT.json`, an operator marked `mutant` in front
of the definition it replaces: a plausible bug under which the property fails.

## 5. Fairness

`Ring!FairSpec`: weak fairness of the consumer, which is an endless loop that
never blocks on anything else (`storage_task`). None of the producer: `Delivered`
does not depend on further hits. `SessionLog!Spec`: weak fairness of the storage
task as a whole; failures are bounded, so retries end.

`Recorder!Spec`: weak fairness of the main thread, whose `get` times out, and of
`Put`, which cannot block; none of Ctrl-C, messages, or the clock.
`SyncLink!Spec`: weak fairness of the host's command, of the box, of the player
typing `edrum sync` again when no command runs, and of a card being put in;
faults are bounded, so that "in the end" means after the last of them.
`Runner!Spec`: weak fairness of the only thread. The others state safety only.

## 6. Proofs

`RingProofs`, for every `N`, every number of laps (at least two) and every set
of records:

- `Invariance`: `Spec => []IndInv`. The invariant has four parts. `TypeOK`;
  `StaleCopiesAreSafe`: the producer's idea of the backlog is the true one plus
  what has been popped since it looked, and at most `N`, the consumer's is the
  true one less what has been pushed since; `NothingTornInside`: the slots from
  `tail_` to `head_` hold complete records; `CopiesHold`: a copied record is still
  in its slot. The property alone is not inductive: that the slots differ
  follows from the distance of the counters, and that distance is known only
  through the stale copies.
- `SlotExclusion`: `NoSlotRace`, from `0 < Depth < N` and `SlotsDiffer`.
- `HighWater`: by a second induction on top of the invariant.
- `Implements`: `Spec => ImplementsFifo`; `StepFifo` has one step per action.

The arithmetic that SMT does not know (a difference modulo `W` is a distance on
a circle, `N` divides `W`, counters less than `N` apart have different slots) is
in lemmas at the top of the module, from `RingAssumption` alone.

The first part of `ControlPlaneProofs` is about `SessionStream`, for any set of
controllers, positions and timeouts, from `FsmAssumption` and `StreamAssumption`
alone (no proof of that part cites `ControlAssumption`); the latter says that the device's clock stops
before its milliseconds need more than `U32` values. That clock counts from power on, so
that it is the box that may be up for 49 days, whatever the length of a session. Beyond
that what the properties say is no longer true of the code: a stamp wraps if the session
itself is that long, and in any session the detector's 32 bits of milliseconds have lost
their upper part when they are scaled back to microseconds (`capture_task.cpp:198`):

- `Invariance`: `Spec => []IInv`. Its parts: `Types`; `Timeline`, no stamp is ahead
  of the clock, and the records of one flush carry the stamp of their call;
  `Control`, at which of its pushes a call may be; `Calls`, what the call in
  progress was given, while the clock stands still; `Cached`, whatever the records
  do not tell about the kit is marked dirty while the session is paused, or is
  among what the flush has left to push; `Reader`, the spans as the fold of the
  brain has them are those of the state machine, up to the record that is about
  to be pushed; `Output`, what the record just pushed may be. The properties speak
  of a finished stream or of one record and say nothing of a call that is half done,
  so that none of them is inductive.
- `TypeCorrect`, `NoWarnings`, `SelfContained`, `SpansShared`, `Anchored`: the five
  invariants of the run.
- `Exact` and `Implements`: `StampsExact` and `KeepsProtocol`. Both rest on
  `Steady`: a step of the machine pushes nothing, begins a session, or pushes a
  record whose stamp is not before the last.

`SessionLogProofs`, for any ring, any number of sessions, faults and losses of
power, from `WriterAssumption` and `LogAssumption` (stamps are naturals with 0):

- `Invariance`: `Spec => []IInv`. Its parts: `Types`; `WriterOK`, what the writer's
  `step`, `open` and latch say of the file it has; `FilesOK`, of every file on the
  card: what is durable is a prefix of what was written, a file whose appends all
  succeeded is a meta line and records of one session, numbered without a gap;
  `NewestOK`, the file in hand is the last one; `Positioned` and `Chained`, the
  records in the ring and in the writer's hand continue what is in that file;
  `Faultless`, what holds while nothing has failed. The properties are about files; that a file
  has no gap after the next append follows only from what is still in the ring.
  After a fault the writer may throw records away, and the record last taken then
  says nothing of the file; `Tracking` is when it does.
- `TypeCorrect`, `Recovery`, `OneSession`, `NothingLost`, `LatchHolds`: `TypeOK`,
  `CleanLogsRecover`, `LogsHoldOneSession`, `CaughtUpMeansComplete`, `FailSoft`.

The second part of `ControlPlaneProofs`, for any queue length, windows, tempi and any number of commands,
from `ControlAssumption` and two proportions of the constants. `StreamWideEnough`
says that `SessionStream`'s bounds leave room for these callers. `SilenceIsLonger`
says that a session does not idle out within the gap of a sequence and one turn of the
capture task, nor within the window of a chord. Every configuration of the box is of that kind:
`config.cpp:101` takes no idle end below 5 s (the default is 300 s), and the 700 ms and
120 ms cannot be configured (`main.cpp:83` sets the detector's notes and its switch only).

- `ControlInvariance`: `IInv` of the first part, with `Shared` (what is in
  the queue is a message, the click that runs or is about to was put at most its lead ahead)
  and `Heard` (the detector has heard nothing after now, at most one hit waits on
  either pad).
- `ImplementsSession`: `ImplementsStream`. A step is one of `SessionStream` or leaves it
  alone (`StreamStep`); the work is in showing that the click's next edge is at
  most a beat ahead (`EdgeBounds`, `NextEdge`) and that a gesture's hits are in order
  and at least a gap old (`TriggerFits`), across the conversions to milliseconds.
  All theorems of the first part thereby hold under the real callers.
- `GesturesStay`: `GesturesBelong`. On its own it says nothing of the half chords and
  of the sequences that have not ended yet. `Belong` says that in a session what
  waits is from that session, or too old to become part of a chord; and that between sessions
  nothing waits at all. `Recent` and `Timely` (a hit is activity; a sequence that is still
  counted had not ended at the last poll) are what makes silence long enough to
  secure that, `SilenceQuiets`.

- `SnapshotStays`: `SnapshotFresh`. `GridFollows` and `EnrollFollows` say where the
  re-declaration of a span is while it has not reached the dispatcher: the console has yet
  to look, is about to post, or its message is in the queue. A span counts from the
  dispatcher's snapshot on (`GridUnderway`), not from its flag.
- `AnchorStays`: `DownbeatInPlace`, from integer arithmetic alone. `EdgeBounds` gives that
  the edge is not past, `OneBeatSkipped` that it is at most the second; it needs that a
  beat is no shorter than a microsecond, which the console's limit of 400 bpm secures
  (`console_cmd.cpp:95`).

`GradingProofs`, for logs of any length with any stamps, grids, pads, kit profile
and calibration, from `GradingAssumption` alone (ticks are positive, which
`records.py` secures by refusing a `grid_start` whose bpm or subdiv is not):

- `Placement`: `Spec => []IInv`. Its parts: `Types`; `Sorted`, the hits by stamp;
  `ClosedInOrder` for grids and for enrolments, the closed spans in order before
  the open one; `Anchored`, segments begin and end at declarations; and
  `HitsPlaced`: a hit not in the millisecond of a declaration is inside the span
  of its grid, be it still open or closed, or outside every span if it had none.
  The properties speak of `Track`, where the open span has been closed by the
  last hit, and are not inductive: the next record may move that end, or put a
  real end in its place. `IInv` speaks of closed and open spans apart, and the
  properties follow for any end (`LastEvent`, `Closing`). `Anchored` is what makes
  the segment unique (`OneSegment`): two segments meet at most in a boundary, and
  a boundary is a declaration.
- `TypeCorrect`, and `SpanOrder` and `GradedInForce`: `SpansInOrder` and
  `GradedByTheGridInForce` of the run.
- `GradedByTheNearest`: `NearestOfAll`. `DeviationHalf` bounds the deviation by
  half a tick, from the defining property of the ceiling (`CeilBounds`); a line
  with another index is a tick away at least (`StepUp`). The arithmetic is that of
  integers; the code's is floating point, where the result is the nearest line
  up to an ulp.

- `CountedOnce`: `HitsCountOnce`. Each grouping of each analyzer splits the hits it takes
  into classes (`Splits`), and what is split is in just one class (`InOneClass`).
- `PairedAsPlayed`: `PairsAreStrokes`. `PairedUpTo` is the invariant of the loop in
  `Pairs`: `prev` is the last stroke, `barrier` says that a hit of the stream lies behind it,
  the intervals are those between neighbours so far. `OneMore` is one turn. That the
  recursive function exists (`LoopExists`) and that the invariant holds to the end are
  both argued from a least counterexample, since induction theorems cannot be cited here.

`RecorderProofs`, for any number of messages, of Ctrl-C and of failed flushes, at any
moment, without an assumption:

- `Inductive`: `Spec => []IInv`. `file` is the lines of the session, those in the buffer
  included, so that a flush, whole or in part, does not change it (`Flushed`,
  `PartlyFlushed`). Its parts: `Types`; `Where`, what each place of the main thread implies;
  `OnTheWay`, the records at the MIDI thread, in the queue and in hand are in order of number and
  of time; `Filed`, so are the lines; `Closing`, `session_end` is there exactly in the end;
  `Ahead`, what is on its way is behind all lines, and not before `last_t` while lines
  may still be appended: this is why the writer never refuses one; `Cost`, of what
  was queued at the first Ctrl-C all but one number is in the file, the queue or in hand. The
  properties see only the file, and say nothing of records that are not there yet.
- `RecordingRecovers`, `OneLostAtMost`, `EndWritten`: `AlwaysRecoverable`,
  `KeptUpToInterrupt`, `ClosedProperly`. The first strips the torn piece (`TornStripped`)
  and goes through `LogReader`'s definitions.

`SyncLinkProofs`, for any files, chunk sizes, directories, `.part` files, retries and
faults, from `DeviceAssumption` and `LinkAssumption` (files are sequences of units, a
chunk has at least one):

- `Inductive`: `Spec => []IInv`. It has three layers, since three kinds of runs keep
  different things. `Base`, always: `Types`; `Phase`, which request the command waits for;
  `Purpose`, what the checksum in progress is taken for and which files exist then; `Kept`.
  `InTime`, as long as nothing was late: `Lockstep`, either the request is under way, or
  its answer is and fits it (`Fits`), or neither; `Progress`, the checksum and the
  `.part` are those of the box's file up to `offset`; `Verdicts`. `Prompt`, as long
  as there was no fault at all: the answer is never an error, nothing times out without
  one under way, and what has been listed is on the card. `Lockstep` is where the protocol
  without numbers in its answers is shown sound, and it is exactly what a late answer breaks.
- `Replicated`, `ToldTruly`, `SyncsSucceed`: `ReplicaExact` from `Kept` and `Verdicts`,
  `VerdictsGenuine` from `Verdicts`, `CleanSyncsSucceed` from `Prompt`.

`RunnerProofs`, for any set of ids, any registry over them and any request, from
`RunnerAssumption` (the shape of an analyzer):

- `Inductive`: `Spec => []IInv`. Its parts: `Types`; `Begun`, what each part of the run
  finds; `Closing`, in the first walk everything chosen is still to be looked into, is
  on the stack, or has its requirements chosen (`Opened`); `Ordering`, in the second a
  frame on the stack rests on the one above it, what it has passed is in the order
  (`Settled`), and the stack is a path (each `Behind` those below it), so that
  meeting an id on the stack is a cycle; `Running`, what has been computed and refused
  is what the graph says of the analyzers so far.
- `ResolvedExactly`, `RefusedForCause`, `QualityKept`: `ResolvesExactly`,
  `RefusedExactly`, `QualityInherited`. The last is a part of the invariant itself.

`ReplayProofs`, for files of any length made of any lines, from `ReplayAssumption` (`Lines`
is a sequence of sets; nothing is assumed of a line):

- `Inductive`: `Spec => []IInv`. `Progress`: what has been parsed are the records of the
  lines so far, less a last line that recovery took off; `Judged`: the seven reasons to
  end, each with its verdict. The two properties look at the end only and are
  not inductive.
- `GateTells`: `ReplayTells`. `RoundTrip` says that a line of a known type which names no
  field that its type does not know, leaves out optional fields only, and spells no null for
  those, comes back as it was; `BoxCanonical` and `HostCanonical` that either
  program's lines, record type by record type, are such lines.
  `NothingUnseen` is the converse: what came back has had no field dropped.
- `GateAgrees`: `ReaderAgrees`. The loop of `read_log` and `LogReader`, which
  the proofs about the card and the recorder use, are thereby the same reader.

Only model-checked: liveness (`Delivered`, `EventuallyDurable`, `Ends`,
`Converges`), which is out of the prover's reach; that a recorder that
is interrupted comes to an end is therefore TLC's result, on the instance of its run.

## 7. Not modelled

- **Burst generator** (fw/capture_task.cpp): the bench's synthetic hits, stamped by their
  schedule and not by the clock. With it `ImplementsStream` would not hold: `end` and
  `mark` taken in one turn of a running burst begin a session at a time that the
  next synthetic hit precedes.
- **Click task, renderer and waveform**: samples and real time. The scheduler they read
  is `Click`.
- **Wall clock** and **USB host**: adapters whose behaviour is that of a vendor
  library; what may be relied on is not in this repository.
- **Framing** byte by byte (SLIP escapes, CRC-16): a frame arrives whole or not at
  all. The second setter of `sync_mode`: a `sync` that arrives before the storage task has
  seen the flag clear. After a BYE it at most spoils the frame that is half received;
  after ten seconds of silence `last_rx_us` is as old as that, and the new sync can be
  over before its first byte.
- **LIST**'s cut after 64 files: the archives of the model fit.
- **Kit profiles** as files (`profiles.parse_profile`) and configuration: values
  are checked once, at the start, and nothing changes afterwards.
- **Floats**: rounding, and the statistics over the sets that `Grading` gives.
- What `report`, `dump` and the help texts print.
- Vendor libraries under the platform adapters, of which only what the code relies
  on appears (`Cuts` for the file system).
