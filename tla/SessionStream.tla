--------------------------- MODULE SessionStream ---------------------------
(***************************************************************************)
(* A session from the kit to the brain: the controller of SessionFsm, its  *)
(* callers in the capture task, and a reader that folds the records of the *)
(* latest session as the brain does.  Nothing is lost on the way here (the *)
(* ring, the card and the link have modules of their own).                 *)
(***************************************************************************)
EXTENDS SessionFsm, SessionFold

CONSTANTS
  Click,      \* tempo settings of the metronome
  MaxUs,      \* bound: the clock stops there
  TrigLags,   \* bound: how long before a gesture's declaration its first hit and
              \* its last hit were, in pairs
  BeatLead    \* bound: how far ahead the next beat may be

\* The clock, which counts from power on, stops before 32 bits of its milliseconds wrap
\* (49 days), and with them a stamp, a reference to the next beat, or the hits of a
\* gesture, which the detector counts in such milliseconds.
ASSUME StreamAssumption ==
  /\ MaxUs \in Nat /\ TrigLags \subseteq Nat \X Nat /\ BeatLead \subseteq Nat
  /\ \A lead \in BeatLead \cup {0} : MaxUs + lead < UsPerMs * U32

VARIABLES
  clock,      \* the device's microsecond clock
  kit,        \* what the kit last sent for each controller
  rd,         \* the brain's fold of the session's records so far
  view        \* controller values the session's records give, so far

vars == <<fsmVars, clock, kit, rd, view>>

Init ==
  /\ FsmInit
  /\ clock = 0
  /\ kit = cache
  /\ rd = Fresh
  /\ view = [c \in Ctrl |-> Unset]

\* A session_start opens a new file, so a new fold; its line 1 is not a record.
Fold ==
  /\ rd' = CASE out'.type = "None" -> rd
             [] out'.type = "SessionStart" -> Fresh
             [] OTHER -> Read(rd, out')
  /\ view' = CASE out'.type = "SessionStart" -> [c \in Ctrl |-> Unset]
               [] out'.type = "Ctrl" -> [view EXCEPT ![out'.ctrl] = out'.val]
               [] OTHER -> view

\* No hit of the gesture is younger than its declaration; the detector waits for
\* the sequence to time out.
Trigs ==
  {NoTrig} \cup
  {<<clock - lags[1], clock - lags[2]>> :
     lags \in {l \in TrigLags : l[2] <= l[1] /\ l[1] <= clock}}

Declare ==
  \E trig \in Trigs :
    \/ Bookmark(clock, trig)
    \/ GridEnd(clock, trig)
    \/ EnrollEnd(clock, trig)
    \/ \E k \in Click, lead \in BeatLead :
         \/ GridStart(clock, k, clock + lead, trig)
         \/ \E r \in Ref : EnrollStart(clock, r, k, clock + lead, trig)

Play == OnEvent(clock) \/ OnRaw(clock)

Stop == Tick(clock) \/ EndSession(clock)

Quietly == UNCHANGED <<clock, kit>> /\ Fold

\* A message the kit sends is the news of its controller.
Turn == \E c \in Ctrl, v \in Val :
  /\ OnCtrl(clock, c, v)
  /\ kit' = [kit EXCEPT ![c] = v]
  /\ UNCHANGED clock
  /\ Fold

\* Time passes between calls; during one, its own `now' counts.
Pass ==
  /\ pc = "ready"
  /\ clock < MaxUs
  /\ clock' = clock + 1
  /\ out' = NoRec
  /\ UNCHANGED <<in_session, paused, spanVars, timeVars, cacheVars, pc, call, kit>>
  /\ Fold

Next ==
  \/ Pass \/ Turn
  \/ (Play /\ Quietly) \/ (Stop /\ Quietly) \/ (Continue /\ Quietly)
  \/ (Declare /\ Quietly)

Spec == Init /\ [][Next]_vars

-----------------------------------------------------------------------------
RecType == {"None", "SessionStart", "SessionEnd", "Event", "Bookmark", "Ctrl",
            "Raw", "GridStart", "GridEnd", "EnrollStart", "EnrollEnd"}

Triggered == {"Bookmark", "GridStart", "GridEnd", "EnrollStart", "EnrollEnd"}

TypeOK ==
  /\ in_session \in BOOLEAN /\ paused \in BOOLEAN
  /\ grid_open \in BOOLEAN /\ enroll_open \in BOOLEAN /\ enroll_ref \in Ref
  /\ session_start_us \in Nat /\ last_event_us \in Nat
  /\ last_activity_us \in Nat /\ last_t \in 0..(U32 - 1)
  /\ cache \in [Ctrl -> Val \cup {Unset}]
  /\ kit \in [Ctrl -> Val \cup {Unset}]
  /\ view \in [Ctrl -> Val \cup {Unset}]
  /\ dirty \in SUBSET Ctrl /\ left \in SUBSET Ctrl
  /\ pc \in {"ready", "start", "flush", "body", "end"}
  /\ out.type \in RecType /\ out.t \in 0..(U32 - 1)
  /\ out.type = "Ctrl" => out.ctrl \in Ctrl /\ out.val \in Val
  /\ clock \in Nat
  /\ rd.warned \in SUBSET Warning

\* The brain never has anything to warn about in what the firmware records:
\* stamps never go back, every end has its start, an enrollment never starts
\* inside another, nothing follows session_end and nothing is left open there.
NothingToWarnOf ==
  /\ rd.warned = {}
  /\ rd.ended => AtEnd(rd) = {}

\* A session is self-contained (the t=0 flush, the write-through, the delta at
\* the end of a pause): whoever replays its records knows, at every hit, each
\* controller's position at that hit, whatever was turned before the session
\* and during its pauses.
HitsSeeTheKit == out.type = "Event" => view = kit

\* The spans the brain has open are those the controller believes open: what a
\* toggle or a re-declaration decides on agrees with what the log says.
SpansAgree ==
  in_session =>
    /\ grid_open <=> rd.grid # {}
    /\ enroll_open <=> rd.enroll # {}

\* What a declaration points at is in place on the session's timeline: the hits
\* of its gesture are bracketed in order and not after it, though they may have
\* been played before the session began, and its click anchor is not before it.
AnchorsInPlace ==
  /\ out.type \in Triggered /\ out.trig # NoTrig =>
       out.trig[1] <= out.trig[2] /\ out.trig[2] <= out.t
  /\ out.type \in {"GridStart", "EnrollStart"} => out.t <= out.downbeat

\* t is session-relative and never rebased: every stamp is the exact distance of
\* its call from the start of the session, pauses included, and that start never
\* moves.  The clamp in stamp() never alters one.
StampsExact ==
  [][/\ out'.type # "None" =>
          out'.t = (clock - session_start_us') \div UsPerMs
     /\ in_session /\ in_session' => session_start_us' = session_start_us]_vars

\* The stream keeps the promise its consumers are built on: sessions never
\* nest or overlap, and none starts while the previous one is open.
Kind(type) == CASE type = "None" -> "none"
                [] type = "SessionStart" -> "start"
                [] type = "SessionEnd" -> "end"
                [] OTHER -> "body"

Protocol == INSTANCE SessionProtocol WITH
  Time <- 0..(U32 - 1), live <- in_session, mark <- last_t,
  sent <- [kind |-> Kind(out.type), t |-> out.t]

KeepsProtocol == Protocol!ProtoSpec
=============================================================================
