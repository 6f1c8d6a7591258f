---------------------------- MODULE ControlPlane ----------------------------
(***************************************************************************)
(* The control plane of the box: the console on one core posts             *)
(* declarations to the capture task on the other one, which applies them   *)
(* through ControlDispatcher between the hits of the kit and the gestures  *)
(* it finds in them.  The console also starts the click, and then reads    *)
(* the flags of the session state machine to re-declare what is open.      *)
(*                                                                         *)
(* The state machine and the reader behind it are those of SessionStream,  *)
(* of which this is an implementation: here its callers are the real ones. *)
(***************************************************************************)
EXTENDS SessionStream, Sequences

CONSTANTS
  Anonymous,               \* the empty profile reference
  ChordMs, SeqGapMs, CountWrap, BeatUnit,   \* see Gesture and Click
  StartLeadUs,             \* how far ahead the console puts the first beat
  QueueLen,                \* kControlQueueLen
  LoopUs,                  \* longest time between two turns of the capture task
  MaxTyped, MaxChords      \* bounds: console commands, chords of a sequence

Detector == INSTANCE Gesture WITH MsWrap <- U32
Sched == INSTANCE Click

ASSUME ControlAssumption ==
  /\ Anonymous \in Ref
  /\ Click \subseteq 1..BeatUnit /\ BeatUnit \in Nat /\ StartLeadUs \in Nat
  /\ ChordMs \in Nat /\ SeqGapMs \in Nat /\ CountWrap \in Nat \ {0}
  /\ QueueLen \in Nat \ {0} /\ LoopUs \in Nat /\ MaxTyped \in Nat /\ MaxChords \in Nat

\* What these constants can make of a trigger and of an anchor, SessionStream allows.
ASSUME StreamWideEnough ==
  /\ \A d, e \in (SeqGapMs + 1) * UsPerMs .. MaxUs : <<d, e>> \in TrigLags
  /\ 0..BeatUnit \subseteq BeatLead /\ 0..StartLeadUs \subseteq BeatLead

\* A session is not ended by silence before a sequence of chords has timed out and
\* the capture task has come round, nor within the window of a chord: config.cpp takes
\* no idle end below 5 s, and the 700 ms and 120 ms are not to be configured.
ASSUME SilenceIsLonger ==
  /\ (SeqGapMs + 1) * UsPerMs + LoopUs <= IdleMs * UsPerMs
  /\ ChordMs < IdleMs

VARIABLES
  task,      \* where the capture task's loop is: "usb", "drain" or "poll"
  polled,    \* when it last came round
  gestures,  \* the gesture detector
  queue,     \* control_queue
  click,     \* click_sched, behind click_mux
  console,   \* what the console is about to do, with which reference or click
  typed,     \* commands it has been given
  fresh,     \* history: the spans last declared on the click that is running
  blind      \* history: the console could not see that its click needs declaring

captureVars == <<task, polled, gestures>>
consoleVars == <<click, console, typed, blind>>
controlVars == <<vars, captureVars, consoleVars, queue, fresh>>

Prompt == [at |-> "prompt", ref |-> Anonymous, next |-> Sched!Silent]

ControlInit ==
  /\ Init
  /\ task = "usb" /\ polled = 0 /\ gestures = Detector!Reset
  /\ queue = <<>> /\ click = Sched!Silent /\ console = Prompt /\ typed = 0
  /\ fresh = {} /\ blind = FALSE

-----------------------------------------------------------------------------
(* ControlDispatcher::dispatch.  A call into the state machine is its      *)
(* first step; the others follow as Continue.                              *)

Ms(us) == (us \div UsPerMs) % U32

Still == UNCHANGED vars

\* start_grid and start_enroll: the click is snapshot behind its lock, once
StartGrid(trig) ==
  \/ /\ click.running
     /\ GridStart(clock, click.bpm, Sched!NextEdgeAtOrAfter(click, clock), trig)
     /\ Quietly
     /\ fresh' = fresh \cup {"grid"}
  \/ ~ click.running /\ Still /\ UNCHANGED fresh

StartEnroll(ref, trig) ==
  \/ /\ click.running
     /\ EnrollStart(clock, ref, click.bpm, Sched!NextEdgeAtOrAfter(click, clock), trig)
     /\ Quietly
     /\ fresh' = fresh \cup {"enroll"}
  \/ ~ click.running /\ Still /\ UNCHANGED fresh

EndGrid(trig) ==
  /\ \/ GridEnd(clock, trig) /\ Quietly
     \/ ~ (in_session /\ grid_open) /\ Still
  /\ UNCHANGED fresh

EndEnroll(trig) ==
  /\ \/ EnrollEnd(clock, trig) /\ Quietly
     \/ ~ (in_session /\ enroll_open) /\ Still
  /\ UNCHANGED fresh

\* mutant: the gestures in progress outlive the session
DispatchKeepsGestures(op, ref, trig, heard) ==
  /\ pc = "ready"
  /\ CASE op = "Bookmark" -> Bookmark(clock, trig) /\ Quietly /\ UNCHANGED fresh
       [] op = "GridStart" -> StartGrid(trig)
       [] op = "GridEnd" -> EndGrid(trig)
       [] op = "GridToggle" -> IF grid_open THEN EndGrid(trig) ELSE StartGrid(trig)
       [] op = "EnrollStart" -> StartEnroll(ref, trig)
       [] op = "EnrollEnd" -> EndEnroll(trig)
       [] op = "EnrollToggle" ->
            IF enroll_open THEN EndEnroll(trig) ELSE StartEnroll(Anonymous, trig)
       [] op = "EndSession" ->
            /\ \/ EndSession(clock) /\ Quietly
               \/ ~ in_session /\ Still
            /\ UNCHANGED fresh
       [] op = "None" -> Still /\ UNCHANGED fresh
  /\ gestures' = heard

Dispatch(op, ref, trig, heard) ==
  /\ pc = "ready"
  /\ CASE op = "Bookmark" -> Bookmark(clock, trig) /\ Quietly /\ UNCHANGED fresh
       [] op = "GridStart" -> StartGrid(trig)
       [] op = "GridEnd" -> EndGrid(trig)
       [] op = "GridToggle" -> IF grid_open THEN EndGrid(trig) ELSE StartGrid(trig)
       [] op = "EnrollStart" -> StartEnroll(ref, trig)
       [] op = "EnrollEnd" -> EndEnroll(trig)
       [] op = "EnrollToggle" ->
            IF enroll_open THEN EndEnroll(trig) ELSE StartEnroll(Anonymous, trig)
       [] op = "EndSession" ->
            /\ \/ EndSession(clock) /\ Quietly
               \/ ~ in_session /\ Still
            /\ UNCHANGED fresh
       [] op = "None" -> Still /\ UNCHANGED fresh
  /\ gestures' = IF op = "EndSession" THEN Detector!Reset ELSE heard

-----------------------------------------------------------------------------
(* capture_task: one turn of its loop is "usb", "drain" (the queue), tick  *)
(* and "poll" (the gestures).                                              *)

\* CaptureSink::on_midi with a hit: the state machine first, then the detector
Hit(pad) ==
  /\ task = "usb"
  /\ OnEvent(clock) /\ Quietly
  /\ gestures' = Detector!Hear(gestures, pad, Ms(clock))
  /\ gestures'.count <= MaxChords
  /\ UNCHANGED <<task, polled, consoleVars, queue, fresh>>

\* on_midi with a controller message, and on_sysex: the detector does not hear them.
Message ==
  /\ task = "usb"
  /\ Turn \/ (OnRaw(clock) /\ Quietly)
  /\ UNCHANGED <<captureVars, consoleVars, queue, fresh>>

\* Once a message is taken, no hit is until the turn is over.
Receive ==
  /\ task \in {"usb", "drain"} /\ queue # <<>>
  /\ Dispatch(Head(queue).op, Head(queue).ref, NoTrig, gestures)
  /\ queue' = Tail(queue)
  /\ task' = "drain"
  /\ UNCHANGED <<polled, consoleVars>>

\* The queue is found empty, and `now' is read for the rest of the turn.
TickStep ==
  /\ task \in {"usb", "drain"} /\ queue = <<>> /\ pc = "ready"
  /\ \/ Tick(clock) /\ Quietly
     \/ ~ in_session /\ Still
  /\ task' = "poll"
  /\ UNCHANGED <<polled, gestures, consoleVars, queue, fresh>>

\* mutant: the ends of the trigger are swapped
PollSwapsEnds ==
  /\ task = "poll" /\ pc = "ready"
  /\ IF Detector!Closes(gestures, Ms(clock))
       THEN Dispatch(Detector!Meaning(gestures), Anonymous,
                     <<gestures.last * UsPerMs, gestures.t0 * UsPerMs>>, Detector!Reset)
       ELSE Still /\ UNCHANGED <<gestures, fresh>>
  /\ task' = "usb" /\ polled' = clock
  /\ UNCHANGED <<consoleVars, queue>>

\* The hits that made the gesture go with its declaration, as microseconds.
Poll ==
  /\ task = "poll" /\ pc = "ready"
  /\ IF Detector!Closes(gestures, Ms(clock))
       THEN Dispatch(Detector!Meaning(gestures), Anonymous,
                     <<gestures.t0 * UsPerMs, gestures.last * UsPerMs>>, Detector!Reset)
       ELSE Still /\ UNCHANGED <<gestures, fresh>>
  /\ task' = "usb" /\ polled' = clock
  /\ UNCHANGED <<consoleVars, queue>>

\* The rest of a call into the state machine
Proceed ==
  /\ Continue /\ Quietly
  /\ UNCHANGED <<captureVars, consoleVars, queue, fresh>>

\* The loop comes round often: usb->poll waits for kCapturePollMs at most.
Elapse ==
  /\ task \in {"usb", "drain"}
  /\ clock - polled < LoopUs
  /\ Pass
  /\ UNCHANGED <<captureVars, consoleVars, queue, fresh>>

-----------------------------------------------------------------------------
(* console.cpp, execute.  Reading a flag and posting are steps of their    *)
(* own; the label is read with its flag.                                   *)

Fits == Len(queue) < QueueLen

\* xQueueSend without waiting: a full queue refuses the message
Post(op, ref) ==
  queue' = IF Fits THEN Append(queue, [op |-> op, ref |-> ref]) ELSE queue

Type ==
  /\ console.at = "prompt" /\ typed < MaxTyped
  /\ typed' = typed + 1
  /\ Still /\ UNCHANGED captureVars

Command ==
  /\ Type
  /\ \/ \E op \in {"Bookmark", "GridStart", "GridEnd", "EnrollEnd", "EndSession"} :
          Post(op, Anonymous)
     \/ \E ref \in Ref : Post("EnrollStart", ref)
  /\ UNCHANGED <<click, console, blind, fresh>>

\* The clock is read before the lock is taken, and the first beat put after it.
ClickStart ==
  /\ Type
  /\ \E bpm \in Click :
       console' = [Prompt EXCEPT !.at = "click", !.next = Sched!Start(clock + StartLeadUs, bpm)]
  /\ UNCHANGED <<click, queue, blind, fresh>>

ClickBegins ==
  /\ console.at = "click"
  /\ click' = console.next
  /\ console' = [Prompt EXCEPT !.at = "grid"]
  /\ fresh' = {} /\ blind' = FALSE
  /\ Still /\ UNCHANGED <<captureVars, typed, queue>>

ClickStop ==
  /\ Type
  /\ click' = Sched!Silent
  /\ UNCHANGED <<console, queue, blind, fresh>>

\* A declaration is between its snapshot of another click and its flag.
Between(op, span) == pc # "ready" /\ call.op = op /\ span \notin fresh

LookGrid ==
  /\ console.at = "grid"
  /\ console' = [console EXCEPT !.at = IF grid_open THEN "postGrid" ELSE "enroll"]
  /\ blind' = (blind \/ (~ grid_open /\ Between("GridStart", "grid")))
  /\ Still /\ UNCHANGED <<captureVars, click, typed, queue, fresh>>

\* mutant: `else if' for the second span
PostGridOnly ==
  /\ console.at = "postGrid"
  /\ Post("GridStart", Anonymous)
  /\ console' = Prompt
  /\ blind' = (blind \/ ~ Fits)
  /\ Still /\ UNCHANGED <<captureVars, click, typed, fresh>>

PostGrid ==
  /\ console.at = "postGrid"
  /\ Post("GridStart", Anonymous)
  /\ console' = [console EXCEPT !.at = "enroll"]
  /\ blind' = (blind \/ ~ Fits)
  /\ Still /\ UNCHANGED <<captureVars, click, typed, fresh>>

LookEnroll ==
  /\ console.at = "enroll"
  /\ console' = IF enroll_open THEN [Prompt EXCEPT !.at = "postEnroll", !.ref = enroll_ref] ELSE Prompt
  /\ blind' = (blind \/ (~ enroll_open /\ Between("EnrollStart", "enroll")))
  /\ Still /\ UNCHANGED <<captureVars, click, typed, queue, fresh>>

PostEnroll ==
  /\ console.at = "postEnroll"
  /\ Post("EnrollStart", console.ref)
  /\ console' = Prompt
  /\ blind' = (blind \/ ~ Fits)
  /\ Still /\ UNCHANGED <<captureVars, click, typed, fresh>>

-----------------------------------------------------------------------------
CaptureTask ==
  \/ \E pad \in Detector!Pad : Hit(pad)
  \/ Message \/ Receive \/ TickStep \/ Poll \/ Proceed

ConsoleTask ==
  \/ Command \/ ClickStart \/ ClickBegins \/ ClickStop
  \/ LookGrid \/ PostGrid \/ LookEnroll \/ PostEnroll

ControlNext == Elapse \/ CaptureTask \/ ConsoleTask

ControlSpec == ControlInit /\ [][ControlNext]_controlVars

-----------------------------------------------------------------------------
\* A gesture never declares anything in a session its hits are not part of, nor
\* begins one: gestures in progress are forgotten when a session is ended by
\* command, and have timed out long before it is ended by silence.
GesturesBelong ==
  /\ task = "poll" /\ pc = "ready"
  /\ Detector!Closes(gestures, Ms(clock)) /\ gestures.count >= 2
  => in_session /\ Ms(session_start_us) <= gestures.t0

\* The snapshot of an open span never goes stale: when the console is back at its
\* prompt and what it posted is applied, the open spans were declared on the click
\* that is running, unless the console looked at a flag just while a declaration was
\* on its way from its snapshot to that flag, or found the queue full.
SnapshotFresh ==
  /\ console.at = "prompt" /\ queue = <<>> /\ pc = "ready"
  /\ click.running /\ ~ blind
  => /\ grid_open => "grid" \in fresh
     /\ enroll_open => "enroll" \in fresh

\* The anchor of a declaration is a beat of its click that is not past, and at most
\* one beat is skipped on the way to it (the two roundings do not quite agree).
DownbeatInPlace ==
  [][call.op = "None" /\ call'.op \in {"GridStart", "EnrollStart"} =>
       LET \* no more beats can pass before the clock stops
           beats == {Sched!BeatUs(click, n) : n \in 0..(MaxUs + 1) * click.bpm}
       IN  /\ call'.click = click.bpm
           /\ call'.downbeat \in beats /\ clock <= call'.downbeat
           /\ \A x, y \in beats : clock <= x /\ x < y => call'.downbeat <= y
    ]_controlVars

\* The callers of the state machine are among those it is checked with: what
\* SessionStream shows of a session holds under the real console, dispatcher,
\* gestures and click.
ImplementsStream == Spec
=============================================================================
