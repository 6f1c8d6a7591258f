------------------------ MODULE ControlPlaneProofs ------------------------
(***************************************************************************)
(* Proofs about SessionStream, and about ControlPlane, which drives it.    *)
(*                                                                         *)
(* Of SessionStream: for any number of controllers, positions, profiles    *)
(* and tempi, any limits, and any clock that stops before the stamps wrap. *)
(* Of these proofs none cites ControlAssumption.                           *)
(*                                                                         *)
(* Of ControlPlane: for any lengths of queue, windows and gaps, any tempi  *)
(* and any number of commands, it implements SessionStream, its gestures   *)
(* stay within their session, and what it declares is the click that is    *)
(* running.                                                                *)
(***************************************************************************)
EXTENDS ControlPlane, TLAPS

(***************************************************************************)
(*                             SessionStream                               *)
(***************************************************************************)

-----------------------------------------------------------------------------
(* The inductive invariant *)

\* The milliseconds from the start of the session
Distance == (clock - session_start_us) \div UsPerMs

Types ==
  /\ in_session \in BOOLEAN /\ paused \in BOOLEAN
  /\ grid_open \in BOOLEAN /\ enroll_open \in BOOLEAN /\ enroll_ref \in Ref
  /\ clock \in 0..MaxUs
  /\ session_start_us \in 0..clock /\ last_event_us \in 0..clock
  /\ last_activity_us \in 0..clock
  /\ last_t \in 0..(U32 - 1)
  /\ cache \in [Ctrl -> Val \cup {Unset}] /\ view \in [Ctrl -> Val \cup {Unset}]
  /\ dirty \in SUBSET Ctrl /\ left \in SUBSET Ctrl

\* What has been stamped is not ahead of the clock, and a flush has its call's stamp
Timeline ==
  in_session => last_t <= Distance /\ (pc = "flush" => last_t = Distance)

\* Where a call in progress may be
Control ==
  /\ pc \in {"ready", "start", "flush", "body", "end"}
  /\ pc = "start" => ~ in_session
  /\ pc \in {"flush", "body", "end"} => in_session
  /\ ~ in_session => ~ grid_open /\ ~ enroll_open
  /\ pc # "flush" => left = {}
  /\ pc = "body" /\ call.op = "Event" => ~ paused

\* The clock stands still while a call is in progress
Calls ==
  pc # "ready" =>
    /\ call.now = clock
    /\ call.op \in {"Bookmark", "GridStart", "EnrollStart"} => call.trig \in Trigs
    /\ call.op \in {"GridStart", "EnrollStart"} =>
         \E lead \in BeatLead : call.downbeat = clock + lead
    /\ call.op = "EnrollStart" => call.ref \in Ref

\* What the session's records do not tell about the kit is marked: dirty while
\* paused, still to be written while flushing
Cached ==
  /\ kit = cache
  /\ \A c \in dirty \cup left : cache[c] \in Val
  /\ in_session /\ ~ paused /\ pc # "flush" => dirty = {}
  /\ in_session =>
       \A c \in Ctrl : \/ view[c] = cache[c]
                       \/ c \in (IF pc = "flush" THEN left ELSE dirty)

Reader ==
  /\ rd.warned = {} /\ rd.last \in Nat /\ rd.ended \in BOOLEAN
  /\ \A t \in rd.grid : t \in Nat /\ t <= rd.last
  /\ rd.ended => rd.grid = {} /\ rd.enroll = {}
  /\ in_session => /\ ~ rd.ended /\ rd.last <= last_t
                   /\ grid_open <=> rd.grid # {}
                   /\ enroll_open <=> rd.enroll # {}

\* What a step has handed to the sink
Output ==
  /\ out.type \in RecType /\ out.t \in 0..(U32 - 1)
  /\ out.type = "Ctrl" => out.ctrl \in Ctrl /\ out.val \in Val
  /\ HitsSeeTheKit /\ AnchorsInPlace

IInv == Types /\ Timeline /\ Control /\ Calls /\ Cached /\ Reader /\ Output

\* What a step is to the stream
QuietStep ==
  /\ out' = NoRec /\ in_session' = in_session /\ last_t <= last_t'
  /\ session_start_us' = session_start_us
BeginStep ==
  /\ ~ in_session /\ in_session' /\ session_start_us' = clock /\ last_t' = 0
  /\ out' = [type |-> "SessionStart", t |-> 0]
RecordStep ==
  /\ in_session /\ session_start_us' = session_start_us
  /\ last_t <= last_t' /\ last_t' = Distance /\ out'.t = last_t'
  /\ out'.type \in RecType \ {"None", "SessionStart"}
  /\ in_session' = (out'.type # "SessionEnd")

-----------------------------------------------------------------------------
(* Time *)

\* Whole milliseconds of a time.
LEMMA Quotient ==
  ASSUME NEW a \in Nat, NEW m \in Nat \ {0}
  PROVE  a \div m \in Nat /\ m * (a \div m) <= a /\ a < m * (a \div m) + m
<1>1. a \div m \in Int /\ m * (a \div m) <= a /\ a < m * (a \div m + 1)
  OBVIOUS
<1>2. PICK q \in Int : q = a \div m
  BY <1>1
<1>3. m * (q + 1) = m * q + m
  OBVIOUS
<1>4. q >= 0
  <2>1. ASSUME q < 0 PROVE FALSE
    <3>1. PICK d \in Nat : q = -1 - d
      <4>1. -1 - q \in Nat /\ q = -1 - (-1 - q)
        BY <2>1
      <4> QED
        BY <4>1
    <3>2. m * q = -m - m * d /\ m * d \in Nat
      BY <3>1
    <3> QED
      BY <1>1, <1>2, <1>3, <3>2
  <2> QED
    BY <2>1
<1> QED
  BY <1>1, <1>2, <1>3, <1>4

\* A product with a positive factor is monotonic in the other one.
LEMMA Product ==
  ASSUME NEW m \in Nat \ {0}, NEW i \in Nat, NEW j \in Nat, i <= j
  PROVE  m * i <= m * j /\ m * i \in Nat /\ m * j \in Nat
<1>1. PICK d \in Nat : j = i + d
  <2>1. j - i \in Nat /\ j = i + (j - i)
    OBVIOUS
  <2> QED
    BY <2>1
<1>2. m * j = m * i + m * d
  BY <1>1
<1>3. m * d \in Nat /\ m * i \in Nat
  OBVIOUS
<1> QED
  BY <1>2, <1>3

\* Milliseconds are monotonic, and fit where the microseconds do.
LEMMA Milliseconds ==
  ASSUME NEW a \in Nat, NEW b \in Nat, a <= b, NEW m \in Nat \ {0}, NEW u \in Nat, b < m * u
  PROVE  a \div m \in Nat /\ a \div m <= b \div m /\ b \div m < u
<1>1. PICK p \in Nat : p = a \div m /\ m * p <= a /\ a < m * p + m
  BY Quotient
<1>2. PICK q \in Nat : q = b \div m /\ m * q <= b /\ b < m * q + m
  BY Quotient
<1>3. m * p \in Nat /\ m * q \in Nat /\ m * u \in Nat /\ m * (q + 1) = m * q + m
  OBVIOUS
<1>4. p <= q
  <2>1. ASSUME q + 1 <= p PROVE FALSE
    <3>1. m * (q + 1) <= m * p
      BY <2>1, Product
    <3> QED
      BY <1>1, <1>2, <1>3, <3>1
  <2> QED
    BY <2>1
<1>5. q < u
  <2>1. ASSUME u <= q PROVE FALSE
    <3>1. m * u <= m * q
      BY <2>1, Product
    <3> QED
      BY <1>2, <1>3, <3>1
  <2> QED
    BY <2>1
<1> QED
  BY <1>1, <1>2, <1>4, <1>5

\* No time is no millisecond.
LEMMA DivZero == 0 \div UsPerMs = 0
<1>1. 0 \div UsPerMs \in Nat /\ UsPerMs * (0 \div UsPerMs) <= 0
  BY FsmAssumption, Quotient
<1>2. PICK q \in Nat : q = 0 \div UsPerMs
  BY <1>1
<1>3. q # 0 => UsPerMs * 1 <= UsPerMs * q
  BY <1>2, FsmAssumption, Product
<1> QED
  BY <1>1, <1>2, <1>3, FsmAssumption

\* Before the clock can wrap, stamp() is the exact distance from the session's start,
\* whatever it was clamped to.
LEMMA StampNow ==
  ASSUME Types, Timeline, in_session
  PROVE  Stamp(clock) = Distance /\ Distance \in 0..(U32 - 1) /\ last_t <= Distance
<1>1. /\ clock \in Nat /\ session_start_us \in Nat /\ session_start_us <= clock
      /\ clock <= MaxUs /\ last_t \in Nat /\ U32 \in Nat /\ UsPerMs \in Nat \ {0} /\ MaxUs \in Nat
  BY FsmAssumption, StreamAssumption DEF Types
<1>2. MaxUs < UsPerMs * U32
  <2>1. MaxUs + 0 < UsPerMs * U32
    BY StreamAssumption
  <2> QED
    BY <1>1, <2>1
<1>3. UsPerMs * U32 \in Nat
  BY <1>1
<1>4. clock - session_start_us \in Nat /\ clock - session_start_us < UsPerMs * U32
  BY <1>1, <1>2, <1>3
<1>5. PICK d \in Nat : d = Distance /\ d < U32
  <2>1. PICK a \in Nat : a = clock - session_start_us
    BY <1>4
  <2>2. a \div UsPerMs \in Nat /\ a \div UsPerMs < U32
    BY <1>1, <1>4, <2>1, Milliseconds
  <2> QED
    BY <2>1, <2>2 DEF Distance
<1>6. Elapsed(clock, session_start_us) = d
  BY <1>1, <1>5 DEF Elapsed, Since, Distance
<1>7. last_t <= d
  BY <1>5 DEF Timeline
<1>8. (IF d < last_t THEN last_t ELSE d) = d
  BY <1>1, <1>7
<1>9. d % U32 = d
  BY <1>1, <1>5
<1> QED
  BY <1>1, <1>5, <1>6, <1>7, <1>8, <1>9 DEF Stamp

\* rel_ms() keeps the order of what it is given, and gives the time of the call its stamp.
LEMMA RelOrder ==
  ASSUME Types, NEW x \in Nat, NEW y \in Nat, x <= y, y < UsPerMs * U32
  PROVE  RelMs(x) \in Nat /\ RelMs(x) <= RelMs(y) /\ RelMs(clock) = Distance
<1>1. /\ clock \in Nat /\ session_start_us \in Nat /\ session_start_us <= clock
      /\ clock <= MaxUs /\ U32 \in Nat \ {0} /\ UsPerMs \in Nat \ {0} /\ MaxUs \in Nat
  BY FsmAssumption, StreamAssumption DEF Types
<1>2. UsPerMs * U32 \in Nat /\ MaxUs < UsPerMs * U32
  <2>1. MaxUs + 0 < UsPerMs * U32
    BY StreamAssumption
  <2> QED
    BY <1>1, <2>1
<1>3. 0 % U32 = 0
  BY <1>1
<1>4. ASSUME NEW z \in Nat, z < UsPerMs * U32, session_start_us <= z
      PROVE  /\ RelMs(z) = (z - session_start_us) \div UsPerMs
             /\ (z - session_start_us) \div UsPerMs \in Nat
  <2>1. z - session_start_us \in Nat /\ z - session_start_us < UsPerMs * U32
    BY <1>1, <1>2, <1>4
  <2>2. PICK d \in Nat : d = (z - session_start_us) \div UsPerMs /\ d < U32
    BY <1>1, <2>1, Milliseconds
  <2>3. d % U32 = d
    BY <1>1, <2>2
  <2> QED
    BY <1>1, <1>4, <2>2, <2>3 DEF RelMs
<1>5. ASSUME NEW z \in Nat, z < session_start_us PROVE RelMs(z) = 0
  BY <1>3, <1>5 DEF RelMs
<1>6. RelMs(clock) = Distance
  BY <1>1, <1>2, <1>4 DEF Distance
<1>7. CASE session_start_us <= x
  <2>1. x < UsPerMs * U32 /\ session_start_us <= y
    BY <1>1, <1>2, <1>7
  <2>2. /\ x - session_start_us \in Nat /\ y - session_start_us \in Nat
        /\ x - session_start_us <= y - session_start_us
        /\ y - session_start_us < UsPerMs * U32
    BY <1>1, <1>2, <1>7, <2>1
  <2>3. (x - session_start_us) \div UsPerMs <= (y - session_start_us) \div UsPerMs
    BY <1>1, <2>2, Milliseconds
  <2> QED
    BY <1>4, <1>6, <1>7, <2>1, <2>3
<1>8. CASE x < session_start_us
  <2>1. RelMs(x) = 0
    BY <1>5, <1>8
  <2>2. RelMs(y) \in Nat
    <3>1. CASE session_start_us <= y
      BY <1>4, <3>1
    <3>2. CASE y < session_start_us
      BY <1>5, <3>2
    <3> QED
      BY <1>1, <3>1, <3>2
  <2> QED
    BY <1>6, <2>1, <2>2
<1> QED
  BY <1>1, <1>7, <1>8

\* The bracket of a gesture is in order and not behind the call that declares it.
LEMMA Bracket ==
  ASSUME Types, NEW trig \in Trigs
  PROVE  LET span == TrigSpan(trig) IN
         span # NoTrig => span[1] <= span[2] /\ span[2] <= Distance
<1>1. CASE trig = NoTrig
  <2>1. DOMAIN trig = {}
    BY <1>1 DEF NoTrig
  <2>2. TrigSpan(trig) = NoTrig
    BY <2>1 DEF TrigSpan, NoTrig
  <2> QED
    BY <2>2
<1>2. ASSUME NEW d \in Nat, NEW e \in Nat, e <= d, d <= clock,
             trig = <<clock - d, clock - e>>
      PROVE  TrigSpan(trig)[1] <= TrigSpan(trig)[2] /\ TrigSpan(trig)[2] <= Distance
  <2>1. clock \in Nat /\ d \in Nat /\ e \in Nat /\ clock <= MaxUs /\ MaxUs \in Nat
    BY StreamAssumption DEF Types
  <2>2. /\ clock - d \in Nat /\ clock - e \in Nat
        /\ clock - d <= clock - e /\ clock - e <= clock
    BY <1>2, <2>1
  <2>3. clock < UsPerMs * U32
    <3>1. MaxUs + 0 < UsPerMs * U32 /\ UsPerMs * U32 \in Nat
      BY FsmAssumption, StreamAssumption
    <3> QED
      BY <2>1, <3>1
  <2>4. RelMs(clock - e) <= RelMs(clock) /\ RelMs(clock) = Distance
    BY <2>1, <2>2, <2>3, RelOrder
  <2>5. clock - e < UsPerMs * U32
    BY <2>1, <2>2, <2>3, FsmAssumption
  <2>6. RelMs(clock - d) <= RelMs(clock - e)
    BY <2>1, <2>2, <2>5, RelOrder
  <2>7. TrigSpan(trig)[1] = RelMs(clock - d) /\ TrigSpan(trig)[2] = RelMs(clock - e)
    BY <1>2 DEF TrigSpan
  <2> QED
    BY <2>4, <2>6, <2>7
<1>3. CASE trig # NoTrig
  <2>1. PICK lags \in TrigLags :
          lags[2] <= lags[1] /\ lags[1] <= clock
            /\ trig = <<clock - lags[1], clock - lags[2]>>
    BY <1>3 DEF Trigs
  <2>2. lags[1] \in Nat /\ lags[2] \in Nat
    BY <2>1, StreamAssumption
  <2> QED
    BY <1>2, <2>1, <2>2
<1> QED
  BY <1>1, <1>3

\* A click anchor is not before the call that declares it.
LEMMA Anchor ==
  ASSUME Types, NEW lead \in BeatLead
  PROVE  RelMs(clock + lead) \in Nat /\ Distance <= RelMs(clock + lead)
<1>1. clock \in Nat /\ lead \in Nat /\ clock <= MaxUs /\ MaxUs \in Nat
  BY StreamAssumption DEF Types
<1>2. MaxUs + lead < UsPerMs * U32 /\ UsPerMs * U32 \in Nat
  BY FsmAssumption, StreamAssumption
<1>3. PICK b \in Nat : b = clock + lead
  BY <1>1
<1>4. clock <= b /\ b < UsPerMs * U32
  BY <1>1, <1>2, <1>3
<1>5. RelMs(clock) <= RelMs(b) /\ RelMs(clock) = Distance
  BY <1>1, <1>4, RelOrder
<1>6. RelMs(b) \in Nat
  BY <1>3, <1>4, RelOrder
<1> QED
  BY <1>3, <1>5, <1>6

-----------------------------------------------------------------------------
(* The reader, record by record *)

\* A record written in an open session gives the brain nothing to warn of, and leaves
\* its spans as the controller has them.
LEMMA ReaderStep ==
  ASSUME Types, Reader, RecordStep, Fold, last_t' \in Nat,
         out'.type = "GridEnd" => grid_open,
         out'.type = "EnrollEnd" => enroll_open,
         out'.type = "EnrollStart" => ~ enroll_open,
         out'.type = "SessionEnd" => ~ grid_open /\ ~ enroll_open,
         grid_open' = IF out'.type = "GridStart" THEN TRUE
                      ELSE IF out'.type = "GridEnd" THEN FALSE ELSE grid_open,
         enroll_open' = IF out'.type = "EnrollStart" THEN TRUE
                        ELSE IF out'.type = "EnrollEnd" THEN FALSE ELSE enroll_open
  PROVE  Reader'
<1>1. rd' = Read(rd, out')
  BY DEF Fold, RecordStep
<1>2. /\ rd.warned = {} /\ rd.last \in Nat /\ rd.ended = FALSE /\ rd.last <= last_t
      /\ grid_open <=> rd.grid # {}
      /\ enroll_open <=> rd.enroll # {}
      /\ \A t \in rd.grid : t \in Nat /\ t <= rd.last
  BY DEF Reader, RecordStep
<1>3. last_t \in Nat /\ last_t <= last_t' /\ out'.t = last_t'
  BY FsmAssumption DEF RecordStep, Types
<1>4. rd'.last = last_t'
  BY <1>1, <1>2, <1>3 DEF Read
<1>5. rd'.warned = {}
  <2>1. Suspicious(rd, out') = {}
    <3>1. ~ (out'.t < rd.last)
      BY <1>2, <1>3
    <3>2. ~ rd.ended
      BY <1>2
    <3> QED
      BY <3>1, <3>2 DEF Suspicious
  <2>2. OfType(rd, out') = {}
    <3>1. ~ \E t \in rd.grid : out'.t < t
      BY <1>2, <1>3
    <3> QED
      BY <1>2, <3>1 DEF OfType
  <2> QED
    BY <1>1, <1>2, <2>1, <2>2 DEF Read
<1>6. rd'.ended = (out'.type = "SessionEnd") /\ rd'.ended \in BOOLEAN
  BY <1>1 DEF Read
<1>7. rd'.grid = IF out'.type = "GridStart" THEN {last_t'}
                 ELSE IF out'.type = "GridEnd" THEN {} ELSE rd.grid
  BY <1>1, <1>3 DEF Read
<1>8. rd'.enroll = IF out'.type = "EnrollStart" THEN {last_t'}
                   ELSE IF out'.type = "EnrollEnd" THEN {} ELSE rd.enroll
  BY <1>1, <1>3 DEF Read
<1>9. \A t \in rd'.grid : t \in Nat /\ t <= rd'.last
  BY <1>2, <1>3, <1>4, <1>7
<1>10. grid_open' <=> rd'.grid # {}
  BY <1>2, <1>7
<1>11. enroll_open' <=> rd'.enroll # {}
  BY <1>2, <1>8
<1>12. rd'.ended => rd'.grid = {} /\ rd'.enroll = {}
  BY <1>2, <1>6, <1>7, <1>8
<1>13. in_session' => ~ rd'.ended
  BY <1>6 DEF RecordStep
<1> QED
  BY <1>3, <1>4, <1>5, <1>6, <1>9, <1>10, <1>11, <1>12, <1>13 DEF Reader

\* A step without a record leaves the reader alone.
LEMMA ReaderWaits ==
  ASSUME Types, Reader, QuietStep, Fold, last_t' \in Nat, UNCHANGED <<grid_open, enroll_open>>
  PROVE  Reader' /\ rd' = rd /\ view' = view
<1>1. rd' = rd /\ view' = view
  BY DEF Fold, QuietStep, NoRec
<1>2. last_t \in Nat /\ last_t <= last_t'
  BY FsmAssumption DEF Types, QuietStep
<1> QED
  BY <1>1, <1>2 DEF Reader, QuietStep

-----------------------------------------------------------------------------
(* What is common to steps of one kind *)

\* A record of a session, by Emit: the stamp is exact and the bracket in place.
LEMMA Emitted ==
  ASSUME Types, Timeline, in_session, NEW type \in RecType \ {"None", "SessionStart"},
         NEW trig \in Trigs, Emit(type, clock, trig), session_start_us' = session_start_us,
         in_session' = (type # "SessionEnd")
  PROVE  /\ RecordStep /\ last_t' \in 0..(U32 - 1) /\ out'.type = type
         /\ out'.trig # NoTrig => out'.trig[1] <= out'.trig[2] /\ out'.trig[2] <= out'.t
<1>1. Stamp(clock) = Distance /\ Distance \in 0..(U32 - 1) /\ last_t <= Distance
  BY StampNow
<1>2. /\ last_t' = Distance /\ out'.t = Distance /\ out'.type = type
      /\ out'.trig = TrigSpan(trig)
  BY <1>1 DEF Emit
<1> QED
  BY <1>1, <1>2, Bracket DEF RecordStep

\* NoTrig is the bracket of a call that no gesture made.
LEMMA NoTrigIsOne == NoTrig \in Trigs
BY DEF Trigs

\* Where the clock stands still and the session's start stays, so does the distance.
LEMMA SameDistance ==
  ASSUME UNCHANGED <<clock, session_start_us>>
  PROVE  Distance' = Distance
BY DEF Distance

\* The types that a call leaves alone unless it says so.
LEMMA OutputOfRecord ==
  ASSUME RecordStep, last_t' \in 0..(U32 - 1),
         out'.type \notin {"Ctrl", "Event"},
         out'.type \in Triggered => (out'.trig # NoTrig =>
            out'.trig[1] <= out'.trig[2] /\ out'.trig[2] <= out'.t),
         out'.type \in {"GridStart", "EnrollStart"} => out'.t <= out'.downbeat
  PROVE  Output'
BY DEF Output, RecordStep, HitsSeeTheKit, AnchorsInPlace

\* Nothing handed over, nothing to show.
LEMMA OutputOfNone ==
  ASSUME out' = NoRec
  PROVE  Output'
<1>1. 0 \in 0..(U32 - 1)
  BY FsmAssumption
<1> QED
  BY <1>1 DEF Output, NoRec, HitsSeeTheKit, AnchorsInPlace, RecType, Triggered

\* A step is one of the three.
Steady == QuietStep \/ BeginStep \/ RecordStep

-----------------------------------------------------------------------------
(* One lemma for each action *)

\* The clock ticks between calls: what is stamped falls further behind.
LEMMA PassInv == IInv /\ Pass => IInv' /\ Steady
<1> SUFFICES ASSUME IInv, Pass PROVE IInv' /\ Steady
  OBVIOUS
<1>0. Types /\ Timeline /\ Control /\ Calls /\ Cached /\ Reader
  BY DEF IInv
<1>1. /\ pc = "ready" /\ clock < MaxUs /\ clock' = clock + 1 /\ out' = NoRec /\ Fold
      /\ UNCHANGED <<in_session, paused, grid_open, enroll_open, enroll_ref, session_start_us,
                     last_event_us, last_activity_us, last_t, cache, dirty, left, pc, call, kit>>
  BY DEF Pass, spanVars, timeVars, cacheVars
<1>2. last_t \in Nat /\ clock \in Nat /\ MaxUs \in Nat /\ clock' \in 0..MaxUs
  BY <1>0, <1>1, FsmAssumption, StreamAssumption DEF Types
<1>3. QuietStep
  BY <1>1, <1>2 DEF QuietStep
<1>4. Reader' /\ rd' = rd /\ view' = view
  BY <1>0, <1>1, <1>2, <1>3, ReaderWaits
<1>5. Types'
  BY <1>0, <1>1, <1>2, <1>4 DEF Types
<1>6. Timeline'
  <2>1. ASSUME in_session PROVE last_t <= Distance'
    <3>1. /\ session_start_us \in Nat /\ session_start_us <= clock
          /\ UsPerMs \in Nat \ {0} /\ U32 \in Nat
      BY <1>0, FsmAssumption DEF Types
    <3>2. /\ clock - session_start_us \in Nat /\ clock + 1 - session_start_us \in Nat
          /\ clock - session_start_us <= clock + 1 - session_start_us
          /\ clock + 1 - session_start_us < UsPerMs * U32
      <4>1. MaxUs + 0 < UsPerMs * U32 /\ UsPerMs * U32 \in Nat
        BY FsmAssumption, StreamAssumption
      <4> QED
        BY <1>1, <1>2, <3>1, <4>1
    <3>3. PICK a \in Nat, b \in Nat : a = clock - session_start_us /\ b = clock + 1 - session_start_us
      BY <3>2
    <3>4. a \div UsPerMs \in Nat /\ a \div UsPerMs <= b \div UsPerMs /\ b \div UsPerMs \in Nat
      BY <3>1, <3>2, <3>3, Milliseconds
    <3>5. last_t <= a \div UsPerMs
      BY <1>0, <2>1, <3>3 DEF Timeline, Distance
    <3>6. Distance' = b \div UsPerMs
      <4>1. b = clock' - session_start_us'
        BY <1>1, <1>2, <3>1, <3>3
      <4> QED
        BY <4>1 DEF Distance
    <3> QED
      BY <1>2, <3>4, <3>5, <3>6
  <2> QED
    BY <1>1, <2>1 DEF Timeline
<1>7. Control' /\ Calls' /\ Cached'
  BY <1>0, <1>1, <1>4 DEF Control, Calls, Cached
<1>8. Output'
  BY <1>1, OutputOfNone
<1> QED
  BY <1>3, <1>4, <1>5, <1>6, <1>7, <1>8 DEF IInv, Steady

\* The kit turns a controller: written through in a session that is not paused, else
\* marked.
LEMMA TurnInv == IInv /\ Turn => IInv' /\ Steady
<1> SUFFICES ASSUME IInv, Turn PROVE IInv' /\ Steady
  OBVIOUS
<1>0. Types /\ Timeline /\ Control /\ Calls /\ Cached /\ Reader
  BY DEF IInv
<1>1. PICK c \in Ctrl, v \in Val : OnCtrl(clock, c, v) /\ kit' = [kit EXCEPT ![c] = v]
                                   /\ UNCHANGED clock /\ Fold
  BY DEF Turn
<1>2. /\ pc = "ready" /\ cache' = [cache EXCEPT ![c] = v]
      /\ UNCHANGED <<in_session, paused, grid_open, enroll_open, enroll_ref, session_start_us,
                     last_event_us, last_activity_us, left, pc, call, clock>>
  BY <1>1 DEF OnCtrl, spanVars
<1>3. last_t \in Nat /\ left = {} /\ Distance' = Distance
  BY <1>0, <1>2, FsmAssumption, SameDistance DEF Types, Control
<1>4. kit' = cache' /\ cache' \in [Ctrl -> Val \cup {Unset}] /\ cache'[c] = v
      /\ \A x \in Ctrl : x # c => cache'[x] = cache[x]
  BY <1>0, <1>1, <1>2 DEF Cached, Types
<1>5. CASE in_session /\ ~ paused
  <2>1. /\ dirty' = dirty \ {c} /\ last_t' = Stamp(clock)
        /\ out' = [type |-> "Ctrl", t |-> Stamp(clock), ctrl |-> c, val |-> v]
    BY <1>1, <1>5 DEF OnCtrl
  <2>2. Stamp(clock) = Distance /\ Distance \in 0..(U32 - 1) /\ last_t <= Distance
    BY <1>0, <1>5, StampNow
  <2>3. RecordStep
    BY <1>2, <1>5, <2>1, <2>2 DEF RecordStep, RecType
  <2>4. view' = [view EXCEPT ![c] = v]
    BY <1>1, <2>1 DEF Fold
  <2>5. Types'
    BY <1>0, <1>2, <1>4, <2>1, <2>2, <2>4 DEF Types
  <2>6. Timeline'
    BY <1>2, <1>3, <2>1, <2>2 DEF Timeline
  <2>7. Control' /\ Calls'
    BY <1>0, <1>2 DEF Control, Calls, Trigs
  <2>8. Cached'
    <3>1. dirty = {} /\ dirty' = {}
      BY <1>0, <1>2, <1>5, <2>1 DEF Cached
    <3>2. \A x \in Ctrl : view'[x] = cache'[x]
      BY <1>0, <1>2, <1>4, <1>5, <2>4, <3>1 DEF Cached, Types
    <3> QED
      BY <1>2, <1>3, <1>4, <3>1, <3>2 DEF Cached
  <2>9. Reader'
    BY <1>0, <1>1, <1>2, <2>1, <2>2, <2>3, ReaderStep
  <2>10. Output'
    BY <1>1, <2>1, <2>2 DEF Output, RecType, HitsSeeTheKit, AnchorsInPlace, Triggered
  <2> QED
    BY <2>3, <2>5, <2>6, <2>7, <2>8, <2>9, <2>10 DEF IInv, Steady
<1>6. CASE ~ (in_session /\ ~ paused)
  <2>1. dirty' = dirty \cup {c} /\ out' = NoRec /\ last_t' = last_t
    BY <1>1, <1>6 DEF OnCtrl
  <2>2. QuietStep
    BY <1>2, <1>3, <2>1 DEF QuietStep
  <2>3. Reader' /\ rd' = rd /\ view' = view
    BY <1>0, <1>1, <1>2, <1>3, <2>1, <2>2, ReaderWaits
  <2>4. Types'
    BY <1>0, <1>2, <1>4, <2>1, <2>3 DEF Types
  <2>5. Timeline'
    BY <1>0, <1>2, <1>3, <2>1 DEF Timeline
  <2>6. Control' /\ Calls'
    BY <1>0, <1>2 DEF Control, Calls, Trigs
  <2>7. Cached'
    <3>1. \A x \in dirty' \cup left' : cache'[x] \in Val
      BY <1>0, <1>2, <1>3, <1>4, <2>1 DEF Cached, Types
    <3>2. in_session => \A x \in Ctrl : view'[x] = cache'[x] \/ x \in dirty'
      BY <1>0, <1>2, <1>4, <2>1, <2>3 DEF Cached
    <3> QED
      BY <1>2, <1>4, <1>6, <3>1, <3>2 DEF Cached
  <2>8. Output'
    BY <2>1, OutputOfNone
  <2> QED
    BY <2>2, <2>3, <2>4, <2>5, <2>6, <2>7, <2>8 DEF IInv, Steady
<1> QED
  BY <1>5, <1>6

\* A call begins: nothing but the call changes.
LEMMA EnterInv ==
  ASSUME IInv, NEW request, Enter(request), Quietly,
         request.now = clock,
         request.op = "Event" => ~ (in_session /\ paused),
         request.op \in {"Bookmark", "GridStart", "EnrollStart"} => request.trig \in Trigs,
         request.op \in {"GridStart", "EnrollStart"} =>
           \E lead \in BeatLead : request.downbeat = clock + lead,
         request.op = "EnrollStart" => request.ref \in Ref
  PROVE  IInv' /\ Steady
<1>0. Types /\ Timeline /\ Control /\ Calls /\ Cached /\ Reader
  BY DEF IInv
<1>1. /\ pc = "ready" /\ call' = request /\ pc' = (IF in_session THEN "body" ELSE "start")
      /\ out' = NoRec /\ Fold
      /\ UNCHANGED <<in_session, paused, grid_open, enroll_open, enroll_ref, session_start_us,
                     last_event_us, last_activity_us, last_t, cache, dirty, left, clock, kit>>
  BY DEF Enter, Quietly, spanVars, timeVars, cacheVars
<1>2. last_t \in Nat /\ Distance' = Distance /\ left = {} /\ in_session \in BOOLEAN
  BY <1>0, <1>1, FsmAssumption, SameDistance DEF Types, Control
<1>3. QuietStep
  BY <1>1, <1>2 DEF QuietStep
<1>4. Reader' /\ rd' = rd /\ view' = view
  BY <1>0, <1>1, <1>2, <1>3, ReaderWaits
<1>5. Types'
  BY <1>0, <1>1, <1>4 DEF Types
<1>6. Timeline'
  BY <1>0, <1>1, <1>2 DEF Timeline
<1>7. Control'
  BY <1>0, <1>1, <1>2 DEF Control
<1>8. Calls'
  BY <1>1 DEF Calls, Trigs
<1>9. Cached'
  BY <1>0, <1>1, <1>2, <1>4 DEF Cached
<1>10. Output'
  BY <1>1, OutputOfNone
<1> QED
  BY <1>3, <1>4, <1>5, <1>6, <1>7, <1>8, <1>9, <1>10 DEF IInv, Steady

\* A hit: in a pause what changed since is to be written first.
LEMMA OnEventInv == IInv /\ OnEvent(clock) /\ Quietly => IInv' /\ Steady
<1> SUFFICES ASSUME IInv, OnEvent(clock), Quietly PROVE IInv' /\ Steady
  OBVIOUS
<1>0. Types /\ Timeline /\ Control /\ Calls /\ Cached /\ Reader
  BY DEF IInv
<1>1. CASE ~ (in_session /\ paused) /\ Enter([op |-> "Event", now |-> clock])
  BY <1>1, EnterInv
<1>2. CASE /\ in_session /\ paused /\ pc = "ready"
           /\ call' = [op |-> "Event", now |-> clock]
           /\ last_t' = Stamp(clock) /\ left' = dirty /\ pc' = "flush" /\ out' = NoRec
           /\ UNCHANGED <<in_session, paused, spanVars, session_start_us,
                          last_event_us, last_activity_us, cache, dirty>>
  <2>1. /\ Fold /\ UNCHANGED <<clock, kit, grid_open, enroll_open, enroll_ref>>
    BY <1>2 DEF Quietly, spanVars
  <2>2. Stamp(clock) = Distance /\ Distance \in 0..(U32 - 1) /\ last_t <= Distance
    BY <1>0, <1>2, StampNow
  <2>3. Distance' = Distance /\ Distance \in Nat
    BY <1>2, <2>1, <2>2, FsmAssumption, SameDistance
  <2>4. QuietStep
    BY <1>2, <2>2 DEF QuietStep
  <2>5. Reader' /\ rd' = rd /\ view' = view
    BY <1>0, <1>2, <2>1, <2>2, <2>3, <2>4, ReaderWaits
  <2>6. Types'
    BY <1>0, <1>2, <2>1, <2>2, <2>5 DEF Types
  <2>7. Timeline'
    BY <1>2, <2>2, <2>3 DEF Timeline
  <2>8. Control'
    BY <1>0, <1>2 DEF Control
  <2>9. Calls'
    BY <1>2, <2>1 DEF Calls
  <2>10. Cached'
    BY <1>0, <1>2, <2>1, <2>5 DEF Cached
  <2>11. Output'
    BY <1>2, OutputOfNone
  <2> QED
    BY <2>4, <2>5, <2>6, <2>7, <2>8, <2>9, <2>10, <2>11 DEF IInv, Steady
<1> QED
  BY <1>1, <1>2 DEF OnEvent

\* A step that hands over a record and leaves the kit, the cache and the flush alone.
LEMMA RecordInv ==
  ASSUME IInv, RecordStep, Fold, Output', last_t' \in 0..(U32 - 1),
         out'.type \notin {"Ctrl", "Event"},
         UNCHANGED <<clock, kit, cache, dirty, left, session_start_us>>,
         last_event_us' \in 0..clock, last_activity_us' \in 0..clock,
         grid_open' \in BOOLEAN, enroll_open' \in BOOLEAN, enroll_ref' \in Ref,
         paused' \in BOOLEAN, in_session' => paused' = paused,
         pc \in {"ready", "body", "end"},
         \/ pc' = "ready" /\ call' = call
         \/ pc' = "ready" /\ call' = NoCall
         \/ pc' = pc /\ call' = call /\ in_session',
         out'.type = "GridEnd" => grid_open,
         out'.type = "EnrollEnd" => enroll_open,
         out'.type = "EnrollStart" => ~ enroll_open,
         out'.type = "SessionEnd" => ~ grid_open /\ ~ enroll_open,
         grid_open' = IF out'.type = "GridStart" THEN TRUE
                      ELSE IF out'.type = "GridEnd" THEN FALSE ELSE grid_open,
         enroll_open' = IF out'.type = "EnrollStart" THEN TRUE
                        ELSE IF out'.type = "EnrollEnd" THEN FALSE ELSE enroll_open
  PROVE  IInv' /\ Steady
<1>0. Types /\ Timeline /\ Control /\ Calls /\ Cached /\ Reader
  BY DEF IInv
<1>1. view' = view
  BY DEF Fold, RecordStep
<1>2. last_t' \in Nat /\ Distance' = Distance /\ in_session' \in BOOLEAN
  BY FsmAssumption, SameDistance DEF RecordStep
<1>3. Types'
  BY <1>0, <1>1, <1>2 DEF Types
<1>4. Timeline'
  BY <1>2, FsmAssumption DEF Timeline, RecordStep
<1>5. Control'
  BY <1>0 DEF Control, RecordStep
<1>6. Calls'
  BY <1>0 DEF Calls, Trigs
<1>7. Cached'
  BY <1>0, <1>1 DEF Cached, RecordStep
<1>8. Reader'
  BY <1>0, <1>2, ReaderStep
<1> QED
  BY <1>3, <1>4, <1>5, <1>6, <1>7, <1>8 DEF IInv, Steady

\* Messages that are not cached are written as they come.
LEMMA OnRawInv == IInv /\ OnRaw(clock) /\ Quietly => IInv' /\ Steady
<1> SUFFICES ASSUME IInv, OnRaw(clock), Quietly PROVE IInv' /\ Steady
  OBVIOUS
<1>0. Types /\ Timeline
  BY DEF IInv
<1>1. /\ pc = "ready" /\ in_session /\ Emit("Raw", clock, NoTrig)
      /\ UNCHANGED <<in_session, paused, grid_open, enroll_open, enroll_ref, session_start_us,
                     last_event_us, last_activity_us, cache, dirty, left, pc, call, clock, kit>>
      /\ Fold
  BY DEF OnRaw, Quietly, spanVars, cacheVars
<1>2. /\ RecordStep /\ last_t' \in 0..(U32 - 1) /\ out'.type = "Raw"
  BY <1>0, <1>1, NoTrigIsOne, Emitted DEF RecType
<1>3. Output'
  BY <1>2, OutputOfRecord DEF Triggered
<1>4. /\ last_event_us' \in 0..clock /\ last_activity_us' \in 0..clock
      /\ grid_open' \in BOOLEAN /\ enroll_open' \in BOOLEAN /\ enroll_ref' \in Ref
      /\ paused' \in BOOLEAN
  BY <1>0, <1>1 DEF Types
<1> QED
  BY <1>1, <1>2, <1>3, <1>4, RecordInv

\* A span is closed, by its own end, by the end of the session, or by a new enrollment.
LEMMA CloseGridInv ==
  ASSUME IInv, NEW trig \in Trigs, CloseGrid(clock, trig), in_session, Quietly,
         pc \in {"ready", "body", "end"}, UNCHANGED <<pc, call>>
  PROVE  IInv' /\ Steady
<1>0. Types /\ Timeline
  BY DEF IInv
<1>1. /\ grid_open /\ Emit("GridEnd", clock, trig) /\ grid_open' = FALSE
      /\ last_activity_us' = clock
      /\ UNCHANGED <<in_session, paused, enroll_open, enroll_ref, session_start_us,
                     last_event_us, cache, dirty, left, clock, kit>>
      /\ Fold
  BY DEF CloseGrid, Quietly, cacheVars
<1>2. /\ RecordStep /\ last_t' \in 0..(U32 - 1) /\ out'.type = "GridEnd"
      /\ out'.trig # NoTrig => out'.trig[1] <= out'.trig[2] /\ out'.trig[2] <= out'.t
  BY <1>0, <1>1, Emitted DEF RecType
<1>3. Output'
  BY <1>2, OutputOfRecord
<1>4. /\ last_event_us' \in 0..clock /\ last_activity_us' \in 0..clock
      /\ enroll_open' \in BOOLEAN /\ enroll_ref' \in Ref /\ paused' \in BOOLEAN
  BY <1>0, <1>1 DEF Types
<1> QED
  BY <1>1, <1>2, <1>3, <1>4, RecordInv

\* The same for an enrollment, which a new one may close, too.
LEMMA CloseEnrollInv ==
  ASSUME IInv, NEW trig \in Trigs, CloseEnroll(clock, trig), in_session, Quietly,
         pc \in {"ready", "body", "end"}, UNCHANGED <<pc, call>>
  PROVE  IInv' /\ Steady
<1>0. Types /\ Timeline
  BY DEF IInv
<1>1. /\ enroll_open /\ Emit("EnrollEnd", clock, trig) /\ enroll_open' = FALSE
      /\ last_activity_us' = clock
      /\ UNCHANGED <<in_session, paused, grid_open, enroll_ref, session_start_us,
                     last_event_us, cache, dirty, left, clock, kit>>
      /\ Fold
  BY DEF CloseEnroll, Quietly, cacheVars
<1>2. /\ RecordStep /\ last_t' \in 0..(U32 - 1) /\ out'.type = "EnrollEnd"
      /\ out'.trig # NoTrig => out'.trig[1] <= out'.trig[2] /\ out'.trig[2] <= out'.t
  BY <1>0, <1>1, Emitted DEF RecType
<1>3. Output'
  BY <1>2, OutputOfRecord
<1>4. /\ last_event_us' \in 0..clock /\ last_activity_us' \in 0..clock
      /\ grid_open' \in BOOLEAN /\ enroll_ref' \in Ref /\ paused' \in BOOLEAN
  BY <1>0, <1>1 DEF Types
<1> QED
  BY <1>1, <1>2, <1>3, <1>4, RecordInv

\* A bookmark is written.
LEMMA BookmarkBodyInv == IInv /\ BookmarkBody /\ Quietly => IInv' /\ Steady
<1> SUFFICES ASSUME IInv, BookmarkBody, Quietly PROVE IInv' /\ Steady
  OBVIOUS
<1>0. Types /\ Timeline /\ Control /\ Calls
  BY DEF IInv
<1>1. /\ pc = "body" /\ call.op = "Bookmark" /\ Emit("Bookmark", call.now, call.trig)
      /\ last_activity_us' = call.now /\ pc' = "ready" /\ call' = NoCall
      /\ UNCHANGED <<in_session, paused, grid_open, enroll_open, enroll_ref, session_start_us,
                     last_event_us, cache, dirty, left, clock, kit>>
      /\ Fold
  BY DEF BookmarkBody, Return, Quietly, spanVars, cacheVars
<1>2. call.now = clock /\ call.trig \in Trigs /\ in_session
  BY <1>0, <1>1 DEF Calls, Control
<1>3. /\ RecordStep /\ last_t' \in 0..(U32 - 1) /\ out'.type = "Bookmark"
      /\ out'.trig # NoTrig => out'.trig[1] <= out'.trig[2] /\ out'.trig[2] <= out'.t
  BY <1>0, <1>1, <1>2, Emitted DEF RecType
<1>4. Output'
  BY <1>3, OutputOfRecord
<1>5. /\ last_event_us' \in 0..clock /\ last_activity_us' \in 0..clock
      /\ grid_open' \in BOOLEAN /\ enroll_open' \in BOOLEAN /\ enroll_ref' \in Ref
      /\ paused' \in BOOLEAN
  BY <1>0, <1>1, <1>2 DEF Types
<1> QED
  BY <1>1, <1>2, <1>3, <1>4, <1>5, RecordInv

\* A grid_start is written: within an open span it is the change of its parameters.
LEMMA GridStartBodyInv == IInv /\ GridStartBody /\ Quietly => IInv' /\ Steady
<1> SUFFICES ASSUME IInv, GridStartBody, Quietly PROVE IInv' /\ Steady
  OBVIOUS
<1>0. Types /\ Timeline /\ Control /\ Calls
  BY DEF IInv
<1>1. /\ pc = "body" /\ call.op = "GridStart" /\ last_t' = Stamp(call.now)
      /\ out' = [type |-> "GridStart", t |-> Stamp(call.now), trig |-> TrigSpan(call.trig),
                 click |-> call.click, downbeat |-> RelMs(call.downbeat)]
      /\ grid_open' = TRUE /\ last_activity_us' = call.now /\ pc' = "ready" /\ call' = NoCall
      /\ UNCHANGED <<in_session, paused, enroll_open, enroll_ref, session_start_us,
                     last_event_us, cache, dirty, left, clock, kit>>
      /\ Fold
  BY DEF GridStartBody, Return, Quietly, cacheVars
<1>2. call.now = clock /\ call.trig \in Trigs /\ in_session
  BY <1>0, <1>1 DEF Calls, Control
<1>3. PICK lead \in BeatLead : call.downbeat = clock + lead
  BY <1>0, <1>1 DEF Calls
<1>4. Stamp(clock) = Distance /\ Distance \in 0..(U32 - 1) /\ last_t <= Distance
  BY <1>0, <1>2, StampNow
<1>5. RecordStep
  BY <1>1, <1>2, <1>4 DEF RecordStep, RecType
<1>6. Distance <= RelMs(clock + lead)
  BY <1>0, Anchor
<1>7. Output'
  <2>1. out'.trig # NoTrig => out'.trig[1] <= out'.trig[2] /\ out'.trig[2] <= out'.t
    BY <1>0, <1>1, <1>2, <1>4, Bracket
  <2>2. out'.t <= out'.downbeat
    BY <1>1, <1>2, <1>3, <1>4, <1>6
  <2> QED
    BY <1>1, <1>2, <1>4, <1>5, <2>1, <2>2, OutputOfRecord
<1>8. /\ last_event_us' \in 0..clock /\ last_activity_us' \in 0..clock
      /\ enroll_open' \in BOOLEAN /\ enroll_ref' \in Ref /\ paused' \in BOOLEAN
  BY <1>0, <1>1, <1>2 DEF Types
<1> QED
  BY <1>1, <1>2, <1>4, <1>5, <1>7, <1>8, RecordInv

\* An enroll_start is written, no other enrollment being open by then.
LEMMA EnrollStartBodyInv == IInv /\ EnrollStartBody /\ Quietly => IInv' /\ Steady
<1> SUFFICES ASSUME IInv, EnrollStartBody, Quietly PROVE IInv' /\ Steady
  OBVIOUS
<1>0. Types /\ Timeline /\ Control /\ Calls
  BY DEF IInv
<1>1. /\ pc = "body" /\ call.op = "EnrollStart" /\ ~ enroll_open /\ last_t' = Stamp(call.now)
      /\ out' = [type |-> "EnrollStart", t |-> Stamp(call.now), trig |-> TrigSpan(call.trig),
                 ref |-> call.ref, click |-> call.click, downbeat |-> RelMs(call.downbeat)]
      /\ enroll_open' = TRUE /\ enroll_ref' = call.ref
      /\ last_activity_us' = call.now /\ pc' = "ready" /\ call' = NoCall
      /\ UNCHANGED <<in_session, paused, grid_open, session_start_us,
                     last_event_us, cache, dirty, left, clock, kit>>
      /\ Fold
  BY DEF EnrollStartBody, Return, Quietly, cacheVars
<1>2. call.now = clock /\ call.trig \in Trigs /\ call.ref \in Ref /\ in_session
  BY <1>0, <1>1 DEF Calls, Control
<1>3. PICK lead \in BeatLead : call.downbeat = clock + lead
  BY <1>0, <1>1 DEF Calls
<1>4. Stamp(clock) = Distance /\ Distance \in 0..(U32 - 1) /\ last_t <= Distance
  BY <1>0, <1>2, StampNow
<1>5. RecordStep
  BY <1>1, <1>2, <1>4 DEF RecordStep, RecType
<1>6. Distance <= RelMs(clock + lead)
  BY <1>0, Anchor
<1>7. Output'
  <2>1. out'.trig # NoTrig => out'.trig[1] <= out'.trig[2] /\ out'.trig[2] <= out'.t
    BY <1>0, <1>1, <1>2, <1>4, Bracket
  <2>2. out'.t <= out'.downbeat
    BY <1>1, <1>2, <1>3, <1>4, <1>6
  <2> QED
    BY <1>1, <1>2, <1>4, <1>5, <2>1, <2>2, OutputOfRecord
<1>8. /\ last_event_us' \in 0..clock /\ last_activity_us' \in 0..clock
      /\ grid_open' \in BOOLEAN /\ enroll_ref' \in Ref /\ paused' \in BOOLEAN
  BY <1>0, <1>1, <1>2 DEF Types
<1> QED
  BY <1>1, <1>2, <1>4, <1>5, <1>7, <1>8, RecordInv

\* The end of a session, its spans being closed.
LEMMA EndMarkInv == IInv /\ EndMark /\ Quietly => IInv' /\ Steady
<1> SUFFICES ASSUME IInv, EndMark, Quietly PROVE IInv' /\ Steady
  OBVIOUS
<1>0. Types /\ Timeline /\ Control /\ Calls
  BY DEF IInv
<1>1. /\ pc = "end" /\ ~ grid_open /\ ~ enroll_open
      /\ Emit("SessionEnd", call.now, NoTrig)
      /\ in_session' = FALSE /\ paused' = FALSE /\ pc' = "ready" /\ call' = NoCall
      /\ UNCHANGED <<grid_open, enroll_open, enroll_ref, session_start_us,
                     last_event_us, last_activity_us, cache, dirty, left, clock, kit>>
      /\ Fold
  BY DEF EndMark, Return, Quietly, spanVars, cacheVars
<1>2. call.now = clock /\ in_session
  BY <1>0, <1>1 DEF Calls, Control
<1>3. RecordStep /\ last_t' \in 0..(U32 - 1) /\ out'.type = "SessionEnd"
  BY <1>0, <1>1, <1>2, NoTrigIsOne, Emitted DEF RecType
<1>4. Output'
  BY <1>3, OutputOfRecord DEF Triggered
<1>5. /\ last_event_us' \in 0..clock /\ last_activity_us' \in 0..clock
      /\ grid_open' \in BOOLEAN /\ enroll_open' \in BOOLEAN /\ enroll_ref' \in Ref
  BY <1>0, <1>1 DEF Types
<1> QED
  BY <1>1, <1>2, <1>3, <1>4, <1>5, RecordInv

\* The hit itself: by then the records have told what the kit has been sent.
LEMMA EventBodyInv == IInv /\ EventBody /\ Quietly => IInv' /\ Steady
<1> SUFFICES ASSUME IInv, EventBody, Quietly PROVE IInv' /\ Steady
  OBVIOUS
<1>0. Types /\ Timeline /\ Control /\ Calls /\ Cached /\ Reader
  BY DEF IInv
<1>1. /\ pc = "body" /\ call.op = "Event" /\ Emit("Event", call.now, NoTrig)
      /\ last_event_us' = call.now /\ last_activity_us' = call.now
      /\ pc' = "ready" /\ call' = NoCall
      /\ UNCHANGED <<in_session, paused, grid_open, enroll_open, enroll_ref, session_start_us,
                     cache, dirty, left, clock, kit>>
      /\ Fold
  BY DEF EventBody, Return, Quietly, spanVars, cacheVars
<1>2. call.now = clock /\ in_session /\ ~ paused
  BY <1>0, <1>1 DEF Calls, Control
<1>3. RecordStep /\ last_t' \in 0..(U32 - 1) /\ out'.type = "Event"
  BY <1>0, <1>1, <1>2, NoTrigIsOne, Emitted DEF RecType
<1>4. view' = view
  BY <1>1, <1>3 DEF Fold
<1>5. last_t' \in Nat /\ Distance' = Distance
  BY <1>1, <1>3, FsmAssumption, SameDistance
<1>6. Types'
  BY <1>0, <1>1, <1>2, <1>3, <1>4 DEF Types
<1>7. Timeline'
  BY <1>3, <1>5 DEF Timeline, RecordStep
<1>8. Control' /\ Calls'
  BY <1>0, <1>1, <1>2 DEF Control, Calls
<1>9. Cached' /\ view = kit
  <2>1. dirty = {} /\ \A c \in Ctrl : view[c] = cache[c]
    BY <1>0, <1>1, <1>2 DEF Cached
  <2>2. view = kit
    BY <1>0, <2>1 DEF Cached, Types
  <2> QED
    BY <1>0, <1>1, <1>4, <2>1, <2>2 DEF Cached
<1>10. Reader'
  BY <1>0, <1>1, <1>3, <1>5, ReaderStep
<1>11. Output'
  BY <1>1, <1>3, <1>4, <1>9 DEF Output, RecordStep, HitsSeeTheKit, AnchorsInPlace, Triggered
<1> QED
  BY <1>3, <1>6, <1>7, <1>8, <1>9, <1>10, <1>11 DEF IInv, Steady

\* A session begins: a new timeline, a new reader, and a baseline to be written.
LEMMA EnsureSessionInv == IInv /\ EnsureSession /\ Quietly => IInv' /\ Steady
<1> SUFFICES ASSUME IInv, EnsureSession, Quietly PROVE IInv' /\ Steady
  OBVIOUS
<1>0. Types /\ Timeline /\ Control /\ Calls /\ Cached /\ Reader
  BY DEF IInv
<1>1. /\ pc = "start" /\ session_start_us' = call.now /\ last_event_us' = call.now
      /\ last_activity_us' = call.now /\ last_t' = 0 /\ paused' = FALSE /\ in_session' = TRUE
      /\ out' = [type |-> "SessionStart", t |-> 0]
      /\ left' = {c \in Ctrl : cache[c] # Unset} /\ pc' = "flush"
      /\ UNCHANGED <<grid_open, enroll_open, enroll_ref, cache, dirty, call, clock, kit>>
      /\ Fold
  BY DEF EnsureSession, Quietly, spanVars
<1>2. call.now = clock /\ ~ in_session /\ ~ grid_open /\ ~ enroll_open
  BY <1>0, <1>1 DEF Calls, Control
<1>3. rd' = Fresh /\ view' = [c \in Ctrl |-> Unset]
  BY <1>1 DEF Fold
<1>4. BeginStep
  BY <1>1, <1>2 DEF BeginStep
<1>5. clock \in Nat /\ 0 \in 0..(U32 - 1)
  BY <1>0, FsmAssumption, StreamAssumption DEF Types
<1>6. Types'
  <2>1. view' \in [Ctrl -> Val \cup {Unset}] /\ left' \in SUBSET Ctrl
    BY <1>1, <1>3
  <2>2. clock' \in 0..MaxUs /\ clock \in 0..clock
    BY <1>0, <1>1, <1>5 DEF Types
  <2> QED
    BY <1>0, <1>1, <1>2, <1>5, <2>1, <2>2 DEF Types
<1>7. Timeline'
  <2>1. clock' - session_start_us' = 0
    BY <1>1, <1>2, <1>5
  <2>2. 0 \div UsPerMs = 0
    BY DivZero
  <2>3. Distance' = 0
    BY <2>1, <2>2 DEF Distance
  <2> QED
    BY <1>1, <2>3 DEF Timeline
<1>8. Control' /\ Calls'
  BY <1>0, <1>1, <1>2 DEF Control, Calls, Trigs
<1>9. Cached'
  BY <1>0, <1>1, <1>3 DEF Cached, Types
<1>10. Reader'
  BY <1>1, <1>2, <1>3 DEF Reader, Fresh
<1>11. Output'
  BY <1>1, <1>5 DEF Output, RecType, HitsSeeTheKit, AnchorsInPlace, Triggered
<1> QED
  BY <1>4, <1>6, <1>7, <1>8, <1>9, <1>10, <1>11 DEF IInv, Steady

\* One record of a flush: the reader learns one position.
LEMMA FlushOneInv == IInv /\ FlushOne /\ Quietly => IInv' /\ Steady
<1> SUFFICES ASSUME IInv, FlushOne, Quietly PROVE IInv' /\ Steady
  OBVIOUS
<1>0. Types /\ Timeline /\ Control /\ Calls /\ Cached /\ Reader
  BY DEF IInv
<1>1. PICK c \in left : /\ out' = [type |-> "Ctrl", t |-> last_t, ctrl |-> c, val |-> cache[c]]
                        /\ left' = left \ {c}
  BY DEF FlushOne
<1>2. /\ pc = "flush" /\ Fold
      /\ UNCHANGED <<in_session, paused, grid_open, enroll_open, enroll_ref, session_start_us,
                     last_event_us, last_activity_us, last_t, cache, dirty, pc, call, clock, kit>>
  BY DEF FlushOne, Quietly, spanVars, timeVars
<1>3. in_session /\ last_t = Distance /\ c \in Ctrl /\ cache[c] \in Val
  BY <1>0, <1>2 DEF Control, Timeline, Types, Cached
<1>4. last_t \in Nat /\ Distance' = Distance
  BY <1>0, <1>2, FsmAssumption, SameDistance DEF Types
<1>5. RecordStep
  <2>1. in_session' = TRUE
    BY <1>0, <1>2, <1>3 DEF Types
  <2>2. last_t <= last_t'
    BY <1>2, <1>4
  <2>3. out'.type = "Ctrl" /\ out'.t = last_t'
    BY <1>1, <1>2
  <2> QED
    BY <1>2, <1>3, <2>1, <2>2, <2>3 DEF RecordStep, RecType
<1>6. view' = [view EXCEPT ![c] = cache[c]]
  BY <1>1, <1>2 DEF Fold
<1>7. Types'
  BY <1>0, <1>1, <1>2, <1>3, <1>6 DEF Types
<1>8. Timeline'
  BY <1>0, <1>2, <1>4 DEF Timeline
<1>9. Control' /\ Calls'
  BY <1>0, <1>2 DEF Control, Calls, Trigs
<1>10. Cached'
  <2>1. \A x \in Ctrl : view'[x] = cache[x] \/ x \in left'
    BY <1>0, <1>1, <1>2, <1>3, <1>6 DEF Cached, Types
  <2> QED
    BY <1>0, <1>1, <1>2, <2>1 DEF Cached
<1>11. Reader'
  BY <1>0, <1>1, <1>2, <1>4, <1>5, ReaderStep
<1>12. Output'
  BY <1>0, <1>1, <1>3 DEF Output, RecType, HitsSeeTheKit, AnchorsInPlace, Triggered, Types
<1> QED
  BY <1>5, <1>7, <1>8, <1>9, <1>10, <1>11, <1>12 DEF IInv, Steady

\* The flush is over: the records tell everything.
LEMMA FlushDoneInv == IInv /\ FlushDone /\ Quietly => IInv' /\ Steady
<1> SUFFICES ASSUME IInv, FlushDone, Quietly PROVE IInv' /\ Steady
  OBVIOUS
<1>0. Types /\ Timeline /\ Control /\ Calls /\ Cached /\ Reader
  BY DEF IInv
<1>1. /\ pc = "flush" /\ left = {} /\ dirty' = {} /\ paused' = FALSE /\ pc' = "body"
      /\ out' = NoRec /\ Fold
      /\ UNCHANGED <<in_session, grid_open, enroll_open, enroll_ref, session_start_us,
                     last_event_us, last_activity_us, last_t, cache, left, call, clock, kit>>
  BY DEF FlushDone, Quietly, spanVars, timeVars
<1>2. in_session /\ last_t \in Nat /\ Distance' = Distance
  BY <1>0, <1>1, FsmAssumption, SameDistance DEF Control, Types
<1>3. QuietStep
  BY <1>1, <1>2 DEF QuietStep
<1>4. Reader' /\ rd' = rd /\ view' = view
  BY <1>0, <1>1, <1>2, <1>3, ReaderWaits
<1>5. Types'
  BY <1>0, <1>1, <1>4 DEF Types
<1>6. Timeline'
  BY <1>0, <1>1, <1>2 DEF Timeline
<1>7. Control' /\ Calls'
  BY <1>0, <1>1, <1>2 DEF Control, Calls, Trigs
<1>8. Cached'
  BY <1>0, <1>1, <1>2, <1>4 DEF Cached
<1>9. Output'
  BY <1>1, OutputOfNone
<1> QED
  BY <1>3, <1>4, <1>5, <1>6, <1>7, <1>8, <1>9 DEF IInv, Steady

\* tick() and end_session(): at most a pause is noted, and an end begun.
LEMMA StopInv == IInv /\ Stop /\ Quietly => IInv' /\ Steady
<1> SUFFICES ASSUME IInv, Stop, Quietly PROVE IInv' /\ Steady
  OBVIOUS
<1>0. Types /\ Timeline /\ Control /\ Calls /\ Cached /\ Reader
  BY DEF IInv
<1>1. /\ pc = "ready" /\ in_session /\ out' = NoRec /\ Fold
      /\ paused' \in BOOLEAN /\ (paused => paused')
      /\ \/ pc' = "end" /\ call' = [op |-> "EndSession", now |-> clock]
         \/ UNCHANGED <<pc, call>>
      /\ UNCHANGED <<in_session, grid_open, enroll_open, enroll_ref, session_start_us,
                     last_event_us, last_activity_us, last_t, cache, dirty, left, clock, kit>>
  <2>1. CASE Tick(clock)
    <3>1. (paused' = (paused \/ Elapsed(clock, last_event_us) >= PauseMs)) /\ paused \in BOOLEAN
      BY <1>0, <2>1 DEF Tick, Types
    <3>2. paused' \in BOOLEAN /\ (paused => paused')
      BY <3>1, Zenon
    <3> QED
      BY <2>1, <3>2 DEF Tick, Quietly, spanVars, timeVars, cacheVars
  <2>2. CASE EndSession(clock)
    BY <1>0, <2>2 DEF EndSession, Quietly, Types, spanVars, timeVars, cacheVars
  <2> QED
    BY <2>1, <2>2 DEF Stop
<1>2. last_t \in Nat /\ Distance' = Distance
  BY <1>0, <1>1, FsmAssumption, SameDistance DEF Types
<1>3. QuietStep
  BY <1>1, <1>2 DEF QuietStep
<1>4. Reader' /\ rd' = rd /\ view' = view
  BY <1>0, <1>1, <1>2, <1>3, ReaderWaits
<1>5. Types'
  BY <1>0, <1>1, <1>4 DEF Types
<1>6. Timeline'
  BY <1>0, <1>1, <1>2 DEF Timeline
<1>7. Control' /\ Calls'
  BY <1>0, <1>1 DEF Control, Calls, Trigs
<1>8. Cached'
  BY <1>0, <1>1, <1>4 DEF Cached
<1>9. Output'
  BY <1>1, OutputOfNone
<1> QED
  BY <1>3, <1>4, <1>5, <1>6, <1>7, <1>8, <1>9 DEF IInv, Steady

\* The calls of the capture task that make a declaration.
LEMMA DeclareInv == IInv /\ Declare /\ Quietly => IInv' /\ Steady
<1> SUFFICES ASSUME IInv, Declare, Quietly PROVE IInv' /\ Steady
  OBVIOUS
<1>1. PICK trig \in Trigs :
        \/ Bookmark(clock, trig) \/ GridEnd(clock, trig) \/ EnrollEnd(clock, trig)
        \/ \E k \in Click, lead \in BeatLead :
             \/ GridStart(clock, k, clock + lead, trig)
             \/ \E r \in Ref : EnrollStart(clock, r, k, clock + lead, trig)
  BY DEF Declare
<1>2. CASE Bookmark(clock, trig)
  BY <1>2, EnterInv DEF Bookmark
<1>3. CASE GridEnd(clock, trig)
  BY <1>3, CloseGridInv DEF GridEnd
<1>4. CASE EnrollEnd(clock, trig)
  BY <1>4, CloseEnrollInv DEF EnrollEnd
<1>5. ASSUME NEW k \in Click, NEW lead \in BeatLead, GridStart(clock, k, clock + lead, trig)
      PROVE  IInv' /\ Steady
  BY <1>5, EnterInv DEF GridStart
<1>6. ASSUME NEW k \in Click, NEW lead \in BeatLead, NEW r \in Ref,
             EnrollStart(clock, r, k, clock + lead, trig)
      PROVE  IInv' /\ Steady
  BY <1>6, EnterInv DEF EnrollStart
<1> QED
  BY <1>1, <1>2, <1>3, <1>4, <1>5, <1>6

-----------------------------------------------------------------------------
(* The invariant *)

\* Before anything has been played.
LEMMA InitInv == Init => IInv
<1> SUFFICES ASSUME Init PROVE IInv
  OBVIOUS
<1>1. FsmInit /\ clock = 0 /\ kit = cache /\ rd = Fresh /\ view = [c \in Ctrl |-> Unset]
  BY DEF Init
<1>2. 0 \in 0..MaxUs /\ 0 \in 0..0 /\ 0 \in 0..(U32 - 1)
  BY FsmAssumption, StreamAssumption
<1>3. Types
  BY <1>1, <1>2 DEF FsmInit, Types
<1>4. Timeline /\ Control /\ Calls /\ Cached
  BY <1>1 DEF FsmInit, Timeline, Control, Calls, Cached
<1>5. Reader
  BY <1>1 DEF FsmInit, Reader, Fresh
<1>6. Output
  BY <1>1, <1>2 DEF FsmInit, Output, NoRec, RecType, HitsSeeTheKit, AnchorsInPlace, Triggered
<1> QED
  BY <1>3, <1>4, <1>5, <1>6 DEF IInv

\* The steps of a call in progress.
LEMMA ContinueInv == IInv /\ Continue /\ Quietly => IInv' /\ Steady
<1> SUFFICES ASSUME IInv, Continue, Quietly PROVE IInv' /\ Steady
  OBVIOUS
<1>0. Control /\ Calls
  BY DEF IInv
<1>1. CASE EnsureSession
  BY <1>1, EnsureSessionInv
<1>2. CASE FlushOne
  BY <1>2, FlushOneInv
<1>3. CASE FlushDone
  BY <1>3, FlushDoneInv
<1>4. CASE EventBody
  BY <1>4, EventBodyInv
<1>5. CASE BookmarkBody
  BY <1>5, BookmarkBodyInv
<1>6. CASE GridStartBody
  BY <1>6, GridStartBodyInv
<1>7. CASE EnrollStartClosesOld
  <2>1. /\ pc = "body" /\ in_session /\ call.now = clock /\ CloseEnroll(call.now, NoTrig)
        /\ UNCHANGED <<pc, call>>
    BY <1>0, <1>7 DEF EnrollStartClosesOld, Control, Calls
  <2>2. CloseEnroll(clock, NoTrig)
    BY <2>1
  <2> QED
    BY <2>1, <2>2, CloseEnrollInv, NoTrigIsOne
<1>8. CASE EnrollStartBody
  BY <1>8, EnrollStartBodyInv
<1>9. CASE EndClosesGrid
  <2>1. /\ pc = "end" /\ in_session /\ call.now = clock /\ CloseGrid(call.now, NoTrig)
        /\ UNCHANGED <<pc, call>>
    BY <1>0, <1>9 DEF EndClosesGrid, Control, Calls
  <2>2. CloseGrid(clock, NoTrig)
    BY <2>1
  <2> QED
    BY <2>1, <2>2, CloseGridInv, NoTrigIsOne
<1>10. CASE EndClosesEnroll
  <2>1. /\ pc = "end" /\ in_session /\ call.now = clock /\ CloseEnroll(call.now, NoTrig)
        /\ UNCHANGED <<pc, call>>
    BY <1>0, <1>10 DEF EndClosesEnroll, Control, Calls
  <2>2. CloseEnroll(clock, NoTrig)
    BY <2>1
  <2> QED
    BY <2>1, <2>2, CloseEnrollInv, NoTrigIsOne
<1>11. CASE EndMark
  BY <1>11, EndMarkInv
<1> QED
  BY <1>1, <1>2, <1>3, <1>4, <1>5, <1>6, <1>7, <1>8, <1>9, <1>10, <1>11 DEF Continue

\* Every step preserves the invariant and is quiet, a beginning, or a record.
LEMMA NextInv == IInv /\ Next => IInv' /\ Steady
<1> SUFFICES ASSUME IInv, Next PROVE IInv' /\ Steady
  OBVIOUS
<1>1. CASE Pass
  BY <1>1, PassInv
<1>2. CASE Turn
  BY <1>2, TurnInv
<1>3. CASE Play /\ Quietly
  BY <1>3, OnEventInv, OnRawInv DEF Play
<1>4. CASE Declare /\ Quietly
  BY <1>4, DeclareInv
<1>5. CASE Stop /\ Quietly
  BY <1>5, StopInv
<1>6. CASE Continue /\ Quietly
  BY <1>6, ContinueInv
<1> QED
  BY <1>1, <1>2, <1>3, <1>4, <1>5, <1>6 DEF Next

\* Between steps nothing changes, and the invariant is about nothing else.
LEMMA StutterInv == IInv /\ UNCHANGED vars => IInv'
<1> SUFFICES ASSUME IInv, UNCHANGED vars PROVE IInv'
  OBVIOUS
<1>0. UNCHANGED <<in_session, paused, grid_open, enroll_open, enroll_ref, session_start_us,
                  last_event_us, last_activity_us, last_t, cache, dirty, left, pc, call, out,
                  clock, kit, rd, view>>
  BY DEF vars, fsmVars, spanVars, timeVars, cacheVars
<1>1. Types' /\ Timeline' /\ Control'
  BY <1>0 DEF IInv, Types, Timeline, Control, Distance
<1>2. Calls' /\ Cached' /\ Reader'
  BY <1>0 DEF IInv, Calls, Trigs, Cached, Reader
<1>3. Output'
  BY <1>0 DEF IInv, Output, HitsSeeTheKit, AnchorsInPlace
<1> QED
  BY <1>1, <1>2, <1>3 DEF IInv

\* The inductive invariant: no call sequence, at no point within a call, leads out of it.
THEOREM Invariance == Spec => []IInv
<1>1. IInv /\ [Next]_vars => IInv'
  BY NextInv, StutterInv
<1> QED
  BY <1>1, InitInv, PTL DEF Spec

-----------------------------------------------------------------------------
(* The properties *)

\* The controller's fields and the record it hands over keep their types.
THEOREM TypeCorrect == Spec => []TypeOK
<1>1. ASSUME IInv PROVE TypeOK
  <2>1. Types /\ Control /\ Cached /\ Reader /\ Output
    BY <1>1 DEF IInv
  <2>2. clock \in Nat /\ session_start_us \in Nat /\ last_event_us \in Nat /\ last_activity_us \in Nat
    BY <2>1, StreamAssumption DEF Types
  <2>3. rd.warned \in SUBSET Warning
    BY <2>1 DEF Reader
  <2> QED
    BY <2>1, <2>2, <2>3 DEF TypeOK, Types, Control, Cached, Output
<1> QED
  BY <1>1, Invariance, PTL

\* NothingToWarnOf: none of the warnings of reduce_session can be provoked.
THEOREM NoWarnings == Spec => []NothingToWarnOf
<1>1. IInv => NothingToWarnOf
  BY DEF IInv, Reader, NothingToWarnOf, AtEnd
<1> QED
  BY <1>1, Invariance, PTL

\* HitsSeeTheKit: at every hit the session's own records give every controller's position.
THEOREM SelfContained == Spec => []HitsSeeTheKit
<1>1. IInv => HitsSeeTheKit
  BY DEF IInv, Output
<1> QED
  BY <1>1, Invariance, PTL

\* SpansAgree: controller and brain have the same spans open.
THEOREM SpansShared == Spec => []SpansAgree
<1>1. IInv => SpansAgree
  BY DEF IInv, Reader, SpansAgree
<1> QED
  BY <1>1, Invariance, PTL

\* AnchorsInPlace: gestures are bracketed before their declaration, clicks anchored behind.
THEOREM Anchored == Spec => []AnchorsInPlace
<1>1. IInv => AnchorsInPlace
  BY DEF IInv, Output
<1> QED
  BY <1>1, Invariance, PTL

\* StampsExact: a step writes the exact distance of its call from the session's start, and
\* moves that start only to begin a session.
THEOREM Exact == Spec => StampsExact
<1> DEFINE Exactly == /\ out'.type # "None" =>
                           out'.t = (clock - session_start_us') \div UsPerMs
                      /\ in_session /\ in_session' => session_start_us' = session_start_us
<1>1. ASSUME IInv, Next PROVE Exactly
  <2>1. CASE QuietStep
    BY <2>1 DEF QuietStep, NoRec
  <2>2. CASE BeginStep
    <3>1. IInv'
      BY <1>1, NextInv
    <3>2. out'.t = 0 /\ session_start_us' = clock /\ clock \in Nat
      BY <1>1, <2>2, StreamAssumption DEF BeginStep, IInv, Types
    <3>3. clock - session_start_us' = 0
      BY <3>2
    <3>4. 0 \div UsPerMs = 0
      BY DivZero
    <3> QED
      BY <2>2, <3>2, <3>3, <3>4 DEF BeginStep
  <2>3. CASE RecordStep
    BY <2>3 DEF RecordStep, Distance
  <2> QED
    BY <1>1, <2>1, <2>2, <2>3, NextInv DEF Steady
<1>2. ASSUME IInv, [Next]_vars PROVE [Exactly]_vars
  BY <1>1, <1>2
<1> QED
  BY <1>2, Invariance, PTL DEF Spec, StampsExact

\* KeepsProtocol: the stream of records implements SessionProtocol, whose sessions follow
\* one another, each a start at 0, stamps that never go back, and one end.
THEOREM Implements == Spec => KeepsProtocol
<1>1. ASSUME Init PROVE Protocol!ProtoInit
  <2>1. in_session = FALSE /\ last_t = 0 /\ out = NoRec
    BY <1>1 DEF Init, FsmInit
  <2> QED
    BY <2>1 DEF Protocol!ProtoInit, Protocol!Nothing, Kind, NoRec
<1>2. ASSUME IInv, [Next]_vars PROVE [Protocol!ProtoNext]_(Protocol!protoVars)
  <2>1. CASE UNCHANGED vars
    BY <2>1 DEF vars, fsmVars, timeVars, Protocol!protoVars
  <2>2. CASE Next
    <3>1. IInv' /\ Steady
      BY <1>2, <2>2, NextInv
    <3>2. last_t' \in 0..(U32 - 1)
      BY <3>1 DEF IInv, Types
    <3>3. CASE QuietStep
      BY <3>2, <3>3 DEF QuietStep, NoRec, Kind, Protocol!ProtoNext, Protocol!Quiet, Protocol!Nothing
    <3>4. CASE BeginStep
      <4>1. in_session' = TRUE
        BY <3>1, <3>4 DEF BeginStep, IInv, Types
      <4> QED
        BY <3>4, <4>1 DEF BeginStep, Kind, Protocol!ProtoNext, Protocol!Begin
    <3>5. CASE RecordStep /\ out'.type # "SessionEnd"
      <4>1. in_session' = in_session
        BY <1>2, <3>5 DEF RecordStep, IInv, Types
      <4>2. Kind(out'.type) = "body"
        BY <3>5 DEF RecordStep, RecType, Kind
      <4> QED
        BY <3>2, <3>5, <4>1, <4>2 DEF RecordStep, Protocol!ProtoNext, Protocol!Record
    <3>6. CASE RecordStep /\ out'.type = "SessionEnd"
      <4>1. in_session' = FALSE
        BY <3>6 DEF RecordStep
      <4>2. Kind(out'.type) = "end"
        BY <3>6 DEF Kind
      <4> QED
        BY <3>2, <3>6, <4>1, <4>2 DEF RecordStep, Protocol!ProtoNext, Protocol!End
    <3> QED
      BY <3>1, <3>3, <3>4, <3>5, <3>6 DEF Steady
  <2> QED
    BY <1>2, <2>1, <2>2
<1> QED
  BY <1>1, <1>2, Invariance, PTL DEF Spec, KeepsProtocol, Protocol!ProtoSpec

(***************************************************************************)
(*                             ControlPlane                                *)
(***************************************************************************)

-----------------------------------------------------------------------------
(* The inductive invariant *)

Op == {"Bookmark", "GridStart", "GridEnd", "GridToggle", "EnrollStart", "EnrollEnd",
       "EnrollToggle", "EndSession", "None"}

At == {"prompt", "click", "grid", "postGrid", "enroll", "postEnroll"}

Msg == [op : Op, ref : Ref]

Clicks == [running : BOOLEAN, bpm : Nat \ {0}, start : Nat]

\* A click that has been started, or is about to be
Startable(c) == c.running /\ c.bpm \in Click /\ c.start <= clock + StartLeadUs

\* What the tasks share
Shared ==
  /\ task \in {"usb", "drain", "poll"}
  /\ polled \in 0..clock
  /\ queue \in Seq(Msg)
  /\ console \in [at : At, ref : Ref, next : Clicks]
  /\ click \in Clicks
  /\ click.running => Startable(click)
  /\ console.at = "click" => Startable(console.next)

\* A detector that has heard nothing after m; at most one hit waits on either pad
HeardBy(g, m) ==
  /\ \A s, t \in g.a : s = t
  /\ \A s, t \in g.b : s = t
  /\ g \in [a : SUBSET (0..m), b : SUBSET (0..m), count : Nat, t0 : 0..m, last : 0..m]
  /\ g.t0 <= g.last

Heard == HeardBy(gestures, Ms(clock))

CInv == IInv /\ Shared /\ Heard

-----------------------------------------------------------------------------
(* Milliseconds of the clock *)

LEMMA ClockFits ==
  ASSUME NEW us \in Nat, us <= MaxUs
  PROVE  /\ Ms(us) = us \div UsPerMs /\ Ms(us) \in Nat /\ Ms(us) < U32
         /\ UsPerMs * Ms(us) <= us /\ us < UsPerMs * Ms(us) + UsPerMs
<1>1. UsPerMs \in Nat \ {0} /\ U32 \in Nat \ {0} /\ MaxUs \in Nat
  BY FsmAssumption, StreamAssumption
<1>2. us < UsPerMs * U32
  <2>1. MaxUs + 0 < UsPerMs * U32 /\ UsPerMs * U32 \in Nat
    BY <1>1, StreamAssumption
  <2> QED
    BY <1>1, <2>1
<1>3. us \div UsPerMs \in Nat /\ us \div UsPerMs < U32
  BY <1>1, <1>2, Milliseconds
<1>4. UsPerMs * (us \div UsPerMs) <= us /\ us < UsPerMs * (us \div UsPerMs) + UsPerMs
  BY <1>1, Quotient
<1>5. PICK q \in Nat : q = us \div UsPerMs
  BY <1>3
<1>6. q % U32 = q
  BY <1>1, <1>3, <1>5
<1> QED
  BY <1>3, <1>4, <1>5, <1>6 DEF Ms

LEMMA MsOrder ==
  ASSUME NEW x \in Nat, NEW y \in Nat, x <= y, y <= MaxUs
  PROVE  Ms(x) <= Ms(y)
<1>1. UsPerMs \in Nat \ {0} /\ U32 \in Nat \ {0} /\ MaxUs \in Nat
  BY FsmAssumption, StreamAssumption
<1>2. y < UsPerMs * U32
  <2>1. MaxUs + 0 < UsPerMs * U32 /\ UsPerMs * U32 \in Nat
    BY <1>1, StreamAssumption
  <2> QED
    BY <1>1, <2>1
<1>3. x \div UsPerMs <= y \div UsPerMs
  BY <1>1, <1>2, Milliseconds
<1>4. x <= MaxUs
  BY <1>1
<1>5. Ms(x) = x \div UsPerMs /\ Ms(y) = y \div UsPerMs
  BY <1>4, ClockFits
<1> QED
  BY <1>3, <1>5

-----------------------------------------------------------------------------
(* The anchor of a declaration *)

\* A quotient by at least 1 that is rounded up twice stays within one divisor.
LEMMA EdgeBounds ==
  ASSUME NEW e \in Nat, NEW bpm \in Nat \ {0}, NEW unit \in Nat \ {0}
  PROVE  LET n == (e * bpm + unit - 1) \div unit IN
         LET edge == (n * unit + bpm \div 2) \div bpm IN
         edge \in Nat /\ e <= edge /\ edge <= e + unit
<1>1. PICK n \in Nat : /\ n = (e * bpm + unit - 1) \div unit
                       /\ unit * n <= e * bpm + unit - 1
                       /\ e * bpm + unit - 1 < unit * n + unit
  <2>1. e * bpm + unit - 1 \in Nat
    <3>1. e * bpm \in Nat
      OBVIOUS
    <3> QED
      BY <3>1
  <2> QED
    BY <2>1, Quotient
<1>2. PICK h \in Nat : h = bpm \div 2 /\ 2 * h <= bpm
  BY Quotient
<1>3. n * unit + h \in Nat /\ unit * n = n * unit /\ n * unit \in Nat
  OBVIOUS
<1>4. PICK q \in Nat : /\ q = (n * unit + h) \div bpm
                       /\ bpm * q <= n * unit + h
                       /\ n * unit + h < bpm * q + bpm
  BY <1>3, Quotient
<1>5. PICK eb \in Nat : eb = e * bpm /\ eb = bpm * e
  OBVIOUS
<1>6. e <= q
  <2>1. ASSUME q + 1 <= e PROVE FALSE
    <3>1. bpm * (q + 1) <= bpm * e
      BY <2>1, Product
    <3>2. bpm * (q + 1) = bpm * q + bpm
      OBVIOUS
    <3> QED
      BY <1>1, <1>3, <1>4, <1>5, <3>1, <3>2
  <2> QED
    BY <2>1
<1>7. q <= e + unit
  <2>1. ASSUME e + unit + 1 <= q PROVE FALSE
    <3>1. bpm * (e + unit + 1) <= bpm * q
      BY <2>1, Product
    <3>2. bpm * (e + unit + 1) = bpm * e + bpm * unit + bpm
      OBVIOUS
    <3>3. unit * 1 <= unit * bpm /\ unit * bpm = bpm * unit /\ bpm * unit \in Nat
      BY Product
    <3> QED
      BY <1>1, <1>2, <1>3, <1>4, <1>5, <3>1, <3>2, <3>3
  <2> QED
    BY <2>1
<1> QED
  BY <1>1, <1>2, <1>4, <1>6, <1>7

LEMMA NextEdge ==
  ASSUME Shared, clock \in Nat, click.running
  PROVE  \E lead \in BeatLead : Sched!NextEdgeAtOrAfter(click, clock) = clock + lead
<1>1. /\ click.bpm \in Nat \ {0} /\ click.start \in Nat
      /\ click.start <= clock + StartLeadUs
      /\ BeatUnit \in Nat \ {0} /\ StartLeadUs \in Nat
  BY ControlAssumption DEF Shared, Clicks, Startable
<1>2. CASE clock <= click.start
  <2>1. click.start - clock \in 0..StartLeadUs
    BY <1>1, <1>2
  <2>2. click.start = clock + (click.start - clock)
    BY <1>1
  <2> QED
    BY <1>2, <2>1, <2>2, StreamWideEnough DEF Sched!NextEdgeAtOrAfter
<1>3. CASE ~ (clock <= click.start)
  <2>1. PICK e \in Nat : e = clock - click.start
    BY <1>1, <1>3
  <2>2. PICK n : n = (e * click.bpm + BeatUnit - 1) \div BeatUnit
    OBVIOUS
  <2>3. PICK edge \in Nat : /\ edge = (n * BeatUnit + click.bpm \div 2) \div click.bpm
                            /\ e <= edge /\ edge <= e + BeatUnit
    BY <1>1, <2>2, EdgeBounds
  <2>4. Sched!NextEdgeAtOrAfter(click, clock) = click.start + edge
    BY <1>3, <2>1, <2>2, <2>3 DEF Sched!NextEdgeAtOrAfter, Sched!BeatUs
  <2>5. edge - e \in 0..BeatUnit /\ click.start + edge = clock + (edge - e)
    BY <1>1, <2>1, <2>3
  <2> QED
    BY <2>4, <2>5, StreamWideEnough
<1> QED
  BY <1>2, <1>3
-----------------------------------------------------------------------------
(* The detector *)

\* The trigger of a gesture, in microseconds, is among those SessionStream has.
LEMMA TriggerFits ==
  ASSUME Types, Heard, Detector!Closes(gestures, Ms(clock))
  PROVE  <<gestures.t0 * UsPerMs, gestures.last * UsPerMs>> \in Trigs
<1>1. /\ clock \in Nat /\ clock <= MaxUs /\ MaxUs \in Nat
      /\ UsPerMs \in Nat \ {0} /\ U32 \in Nat \ {0} /\ SeqGapMs \in Nat
  BY FsmAssumption, StreamAssumption, ControlAssumption DEF Types
<1>2. PICK m \in Nat : m = Ms(clock) /\ m < U32 /\ UsPerMs * m <= clock
  BY <1>1, ClockFits
<1>3. PICK s \in Nat, t \in Nat : s = gestures.t0 /\ t = gestures.last /\ s <= t /\ t <= m
  BY <1>2 DEF Heard, HeardBy
<1>4. t + (SeqGapMs + 1) <= m
  <2>1. (m - t) % U32 = m - t
    <3>1. PICK d \in Nat : d = m - t
      BY <1>3
    <3>2. d < U32
      BY <1>1, <1>2, <1>3, <3>1
    <3> QED
      BY <1>1, <3>1, <3>2
  <2>2. (m - t) % U32 > SeqGapMs
    BY <1>2, <1>3 DEF Detector!Closes, Detector!Stale
  <2> QED
    BY <1>1, <1>3, <2>1, <2>2
<1>5. PICK su \in Nat, tu \in Nat, gu \in Nat :
        su = s * UsPerMs /\ tu = t * UsPerMs /\ gu = (SeqGapMs + 1) * UsPerMs
  BY <1>1
<1>6. su <= tu
  BY <1>1, <1>3, <1>5, Product
<1>7. tu + gu <= clock
  <2>1. UsPerMs * (t + (SeqGapMs + 1)) <= UsPerMs * m
    BY <1>1, <1>4, Product
  <2>2. UsPerMs * (t + (SeqGapMs + 1)) = tu + gu
    BY <1>1, <1>5
  <2>3. UsPerMs * m \in Nat
    BY <1>1
  <2> QED
    BY <1>1, <1>2, <2>1, <2>2, <2>3
<1>8. clock - su \in gu..MaxUs /\ clock - tu \in gu..MaxUs
  BY <1>1, <1>5, <1>6, <1>7
<1>9. <<clock - su, clock - tu>> \in TrigLags
  BY <1>5, <1>8, StreamWideEnough
<1>10. PICK l \in TrigLags : l = <<clock - su, clock - tu>>
  BY <1>9
<1>11. l[2] <= l[1] /\ l[1] <= clock /\ clock - l[1] = su /\ clock - l[2] = tu
  BY <1>1, <1>5, <1>6, <1>7, <1>10
<1>12. <<clock - l[1], clock - l[2]>> \in Trigs
  BY <1>10, <1>11 DEF Trigs
<1> QED
  BY <1>3, <1>5, <1>11, <1>12

\* A sequence means something the dispatcher knows.
LEMMA Meant == Detector!Meaning(gestures) \in Op \ {"EndSession"}
BY DEF Detector!Meaning, Op

-----------------------------------------------------------------------------
(* Every step is one of SessionStream's, or none *)

\* A declaration of the dispatcher is one of Declare.
LEMMA DispatchStep ==
  ASSUME IInv, Shared, NEW op \in Op, NEW ref \in Ref, NEW trig \in Trigs, NEW heard,
         Dispatch(op, ref, trig, heard)
  PROVE  /\ Next \/ UNCHANGED vars
         /\ clock' = clock
         /\ gestures' = IF op = "EndSession" THEN Detector!Reset ELSE heard
<1>0. clock \in Nat
  BY StreamAssumption DEF IInv, Types
<1>1. Still => clock' = clock
  BY DEF Still, vars
<1>2. Quietly => clock' = clock
  BY DEF Quietly
<1>3. ASSUME StartGrid(trig) PROVE (Next \/ UNCHANGED vars) /\ clock' = clock
  <2>1. CASE /\ click.running
             /\ GridStart(clock, click.bpm, Sched!NextEdgeAtOrAfter(click, clock), trig)
             /\ Quietly
    <3>1. PICK lead \in BeatLead : Sched!NextEdgeAtOrAfter(click, clock) = clock + lead
      BY <1>0, <2>1, NextEdge
    <3>2. click.bpm \in Click
      BY <2>1 DEF Shared, Clicks, Startable
    <3> QED
      BY <1>2, <2>1, <3>1, <3>2 DEF Next, Declare
  <2> QED
    BY <1>1, <1>3, <2>1 DEF StartGrid, Still
<1>4. ASSUME NEW r \in Ref, StartEnroll(r, trig)
      PROVE  (Next \/ UNCHANGED vars) /\ clock' = clock
  <2>1. CASE /\ click.running
             /\ EnrollStart(clock, r, click.bpm, Sched!NextEdgeAtOrAfter(click, clock), trig)
             /\ Quietly
    <3>1. PICK lead \in BeatLead : Sched!NextEdgeAtOrAfter(click, clock) = clock + lead
      BY <1>0, <2>1, NextEdge
    <3>2. click.bpm \in Click
      BY <2>1 DEF Shared, Clicks, Startable
    <3> QED
      BY <1>2, <2>1, <3>1, <3>2 DEF Next, Declare
  <2> QED
    BY <1>1, <1>4, <2>1 DEF StartEnroll, Still
<1>5. ASSUME EndGrid(trig) PROVE (Next \/ UNCHANGED vars) /\ clock' = clock
  BY <1>1, <1>2, <1>5 DEF EndGrid, Next, Declare, Still
<1>6. ASSUME EndEnroll(trig) PROVE (Next \/ UNCHANGED vars) /\ clock' = clock
  BY <1>1, <1>2, <1>6 DEF EndEnroll, Next, Declare, Still
<1>7. CASE op = "Bookmark"
  BY <1>2, <1>7 DEF Dispatch, Next, Declare
<1>8. CASE op \in {"GridStart", "GridEnd", "GridToggle"}
  BY <1>3, <1>5, <1>8 DEF Dispatch
<1>9. CASE op \in {"EnrollStart", "EnrollEnd", "EnrollToggle"}
  BY <1>4, <1>6, <1>9, ControlAssumption DEF Dispatch
<1>10. CASE op = "EndSession"
  BY <1>1, <1>2, <1>10 DEF Dispatch, Next, Stop, Still
<1>11. CASE op = "None"
  BY <1>1, <1>11 DEF Dispatch, Still
<1> QED
  BY <1>7, <1>8, <1>9, <1>10, <1>11 DEF Op, Dispatch

\* Every step is one of SessionStream's, or leaves it alone; time passes in one only.
LEMMA StreamStep ==
  ASSUME CInv, ControlNext
  PROVE  (Next \/ UNCHANGED vars) /\ (Elapse \/ clock' = clock)
<1>0. IInv /\ Shared /\ Heard
  BY DEF CInv
<1>1. CASE Elapse
  BY <1>1 DEF Elapse, Next
<1>2. ASSUME NEW pad \in Detector!Pad, Hit(pad) PROVE Next /\ clock' = clock
  BY <1>2 DEF Hit, Next, Play, Quietly
<1>3. CASE Receive
  <2>1. Head(queue).op \in Op /\ Head(queue).ref \in Ref
    <3>1. queue \in Seq(Msg) /\ queue # <<>>
      BY <1>0, <1>3 DEF Shared, Receive
    <3>2. PICK m \in Msg : m = Head(queue)
      BY <3>1
    <3>3. m.op \in Op /\ m.ref \in Ref
      BY DEF Msg
    <3> QED
      BY <3>2, <3>3
  <2>2. Dispatch(Head(queue).op, Head(queue).ref, NoTrig, gestures)
    BY <1>3 DEF Receive
  <2> QED
    BY <1>0, <2>1, <2>2, DispatchStep, NoTrigIsOne
<1>4. CASE TickStep
  BY <1>4 DEF TickStep, Next, Stop, Quietly, Still, vars
<1>5. CASE Poll
  <2>1. CASE ~ Detector!Closes(gestures, Ms(clock))
    BY <1>5, <2>1 DEF Poll, Still, vars
  <2>2. CASE Detector!Closes(gestures, Ms(clock))
    <3>1. <<gestures.t0 * UsPerMs, gestures.last * UsPerMs>> \in Trigs
      BY <1>0, <2>2, TriggerFits DEF IInv
    <3>2. Dispatch(Detector!Meaning(gestures), Anonymous,
                   <<gestures.t0 * UsPerMs, gestures.last * UsPerMs>>, Detector!Reset)
      BY <1>5, <2>2 DEF Poll
    <3>3. Detector!Meaning(gestures) \in Op /\ Anonymous \in Ref
      BY Meant, ControlAssumption
    <3> QED
      BY <1>0, <3>1, <3>2, <3>3, DispatchStep
  <2> QED
    BY <2>1, <2>2
<1>6. CASE Proceed
  BY <1>6 DEF Proceed, Next, Quietly
<1>7. CASE ConsoleTask
  BY <1>7 DEF ConsoleTask, Command, ClickStart, ClickBegins, ClickStop, Type, LookGrid, PostGrid,
              LookEnroll, PostEnroll, Still, vars
<1>8. CASE Message
  BY <1>8 DEF Message, Next, Play, Quietly, Turn
<1> QED
  BY <1>1, <1>2, <1>3, <1>4, <1>5, <1>6, <1>7, <1>8 DEF ControlNext, CaptureTask

-----------------------------------------------------------------------------
(* The invariant is kept *)

\* A chord takes its times from the hits it is made of.
LEMMA HearKeeps ==
  ASSUME NEW g, NEW m \in Nat, HeardBy(g, m), NEW pad \in Detector!Pad
  PROVE  HeardBy(Detector!Hear(g, pad, m), m)
<1>0. CountWrap \in Nat \ {0} /\ m \in 0..m
  BY ControlAssumption
<1>1. ASSUME NEW h, HeardBy(h, m) PROVE HeardBy(Detector!Pair(h, m), m)
  <2>1. CASE ~ (\E ta \in h.a, tb \in h.b : Detector!Apart(ta, tb) <= ChordMs)
    BY <1>1, <2>1 DEF Detector!Pair
  <2>2. CASE \E ta \in h.a, tb \in h.b : Detector!Apart(ta, tb) <= ChordMs
    <3>1. PICK ta, tb : /\ ta = (CHOOSE x \in h.a : TRUE) /\ tb = (CHOOSE x \in h.b : TRUE)
                        /\ ta \in h.a /\ tb \in h.b
      BY <2>2
    <3>2. Detector!Pair(h, m) = Detector!Chord(h, ta, tb, m)
      BY <2>2, <3>1 DEF Detector!Pair
    <3>3. ta \in 0..m /\ tb \in 0..m /\ h.count \in Nat /\ h.t0 \in 0..m
      BY <1>1, <3>1 DEF HeardBy
    <3>4. (h.count + 1) % CountWrap \in Nat
      BY <1>0, <3>3
    <3>5. Detector!Earlier(ta, tb) \in 0..m
      BY <3>3 DEF Detector!Earlier
    <3> QED
      BY <1>0, <3>2, <3>3, <3>4, <3>5 DEF HeardBy, Detector!Chord
  <2> QED
    BY <2>1, <2>2
<1>2. HeardBy([g EXCEPT !.a = {m}], m) /\ HeardBy([g EXCEPT !.b = {m}], m)
  BY <1>0 DEF HeardBy
<1> QED
  BY <1>1, <1>2 DEF Detector!Hear, Detector!Pad

LEMMA HeardLater ==
  ASSUME NEW g, NEW m \in Nat, NEW n \in Nat, m <= n, HeardBy(g, m)
  PROVE  HeardBy(g, n)
<1>1. 0..m \subseteq 0..n
  OBVIOUS
<1> QED
  BY <1>1 DEF HeardBy

LEMMA HeardReset ==
  ASSUME NEW m \in Nat
  PROVE  HeardBy(Detector!Reset, m)
BY DEF HeardBy, Detector!Reset

\* What is posted is a message, whether there is room for it or not.
LEMMA Posted ==
  ASSUME queue \in Seq(Msg), NEW op \in Op, NEW ref \in Ref, Post(op, ref)
  PROVE  queue' \in Seq(Msg)
<1>1. [op |-> op, ref |-> ref] \in Msg
  BY DEF Msg
<1> QED
  BY <1>1 DEF Post

\* What becomes of the detector
LEMMA DetectorStep ==
  ASSUME CInv, ControlNext
  PROVE  \/ UNCHANGED gestures
         \/ gestures' = Detector!Reset
         \/ \E pad \in Detector!Pad :
              Hit(pad) /\ gestures' = Detector!Hear(gestures, pad, Ms(clock))
<1>1. ASSUME NEW pad \in Detector!Pad, Hit(pad)
      PROVE  gestures' = Detector!Hear(gestures, pad, Ms(clock))
  BY <1>1 DEF Hit
<1>2. CASE Receive \/ Poll
  BY <1>2 DEF Receive, Poll, Dispatch
<1>3. CASE Elapse \/ Message \/ TickStep \/ Proceed
  BY <1>3 DEF Elapse, Message, TickStep, Proceed, captureVars
<1>4. CASE ConsoleTask
  BY <1>4 DEF ConsoleTask, Command, ClickStart, ClickBegins, ClickStop, Type, LookGrid, PostGrid,
              LookEnroll, PostEnroll, captureVars
<1> QED
  BY <1>1, <1>2, <1>3, <1>4 DEF ControlNext, CaptureTask

LEMMA HeardInv == CInv /\ ControlNext /\ IInv' => Heard'
<1> SUFFICES ASSUME CInv, ControlNext, IInv' PROVE Heard'
  OBVIOUS
<1>1. /\ clock \in Nat /\ clock <= MaxUs /\ clock' \in Nat /\ clock' <= MaxUs /\ Heard
  BY StreamAssumption DEF CInv, IInv, Types
<1>2. clock <= clock'
  BY <1>1, StreamStep DEF Elapse, Pass
<1>3. PICK m \in Nat : m = Ms(clock)
  BY <1>1, ClockFits
<1>4. PICK n \in Nat : n = Ms(clock')
  BY <1>1, ClockFits
<1>5. m <= n
  BY <1>1, <1>2, <1>3, <1>4, MsOrder
<1>6. Heard' = HeardBy(gestures', n)
  BY <1>4 DEF Heard, Ms
<1>7. HeardBy(gestures, m)
  BY <1>1, <1>3 DEF Heard
<1>8. CASE UNCHANGED gestures
  BY <1>5, <1>6, <1>7, <1>8, HeardLater
<1>9. CASE gestures' = Detector!Reset
  BY <1>6, <1>9, HeardReset
<1>10. ASSUME NEW pad \in Detector!Pad, gestures' = Detector!Hear(gestures, pad, Ms(clock))
       PROVE  Heard'
  BY <1>3, <1>5, <1>6, <1>7, <1>10, HearKeeps, HeardLater
<1> QED
  BY <1>8, <1>9, <1>10, DetectorStep

\* The console, wherever it goes from its prompt
LEMMA PromptTypes ==
  ASSUME NEW at \in At, NEW ref \in Ref, NEW c \in Clicks
  PROVE  LET Any == [at : At, ref : Ref, next : Clicks]
         IN  /\ Prompt \in Any /\ Prompt.at = "prompt"
             /\ [Prompt EXCEPT !.at = at] \in Any /\ [Prompt EXCEPT !.at = at].at = at
             /\ [Prompt EXCEPT !.at = at, !.ref = ref] \in Any
             /\ [Prompt EXCEPT !.at = at, !.ref = ref].at = at
             /\ [Prompt EXCEPT !.at = at, !.next = c] \in Any
             /\ [Prompt EXCEPT !.at = at, !.next = c].next = c
<1>1. Sched!Silent \in Clicks
  BY DEF Sched!Silent, Clicks
<1>2. Prompt \in [at : At, ref : Ref, next : Clicks] /\ Prompt.at = "prompt"
  BY <1>1, ControlAssumption DEF Prompt, At
<1> QED
  BY <1>2

LEMMA SharedInv == CInv /\ ControlNext /\ IInv' => Shared'
<1> SUFFICES ASSUME CInv, ControlNext, IInv' PROVE Shared'
  OBVIOUS
<1>0. /\ Shared /\ clock \in Nat /\ clock' \in Nat /\ enroll_ref \in Ref /\ Anonymous \in Ref
      /\ StartLeadUs \in Nat /\ queue \in Seq(Msg)
  BY StreamAssumption, ControlAssumption DEF CInv, IInv, Types, Shared
<1>1. clock <= clock'
  BY <1>0, StreamStep DEF Elapse, Pass
<1>2. CASE \/ Elapse \/ Message \/ TickStep \/ Proceed
           \/ \E pad \in Detector!Pad : Hit(pad)
  <2>1. UNCHANGED <<polled, queue, console, click>> /\ task' \in {task, "poll"}
    BY <1>2 DEF Elapse, Message, TickStep, Proceed, Hit, captureVars, consoleVars
  <2> QED
    BY <1>0, <1>1, <2>1 DEF Shared, Clicks, Startable
<1>3. CASE Receive
  <2>1. UNCHANGED <<polled, console, click>> /\ task' = "drain" /\ queue' = Tail(queue) /\ queue # <<>>
    BY <1>3 DEF Receive, consoleVars
  <2>2. queue' \in Seq(Msg)
    BY <1>0, <2>1
  <2> QED
    BY <1>0, <1>1, <2>1, <2>2 DEF Shared, Clicks, Startable
<1>4. CASE Poll
  <2>1. UNCHANGED <<queue, console, click>> /\ task' = "usb" /\ polled' = clock
    BY <1>4 DEF Poll, consoleVars
  <2> QED
    BY <1>0, <1>1, <2>1 DEF Shared, Clicks, Startable
<1>5. CASE ConsoleTask
  <2>0. UNCHANGED <<task, polled, clock>>
    BY <1>5 DEF ConsoleTask, Command, ClickStart, ClickBegins, ClickStop, Type, LookGrid, PostGrid,
                LookEnroll, PostEnroll, captureVars, Still, vars
  <2>1. CASE Command
    <3>1. queue' \in Seq(Msg)
      <4>1. \E op \in Op, ref \in Ref : Post(op, ref)
        BY <1>0, <2>1 DEF Command, Op
      <4> QED
        BY <1>0, <4>1, Posted
    <3>2. UNCHANGED <<console, click>>
      BY <2>1 DEF Command
    <3> QED
      BY <1>0, <2>0, <3>1, <3>2 DEF Shared, Clicks, Startable
  <2>2. CASE ClickStart
    <3>1. PICK bpm \in Click :
            console' = [Prompt EXCEPT !.at = "click", !.next = Sched!Start(clock + StartLeadUs, bpm)]
      BY <2>2 DEF ClickStart
    <3>2. UNCHANGED <<click, queue>>
      BY <2>2 DEF ClickStart
    <3> DEFINE c == Sched!Start(clock + StartLeadUs, bpm)
    <3>3. bpm \in Nat \ {0}
      BY ControlAssumption
    <3>4. c \in Clicks /\ Startable(c)
      BY <1>0, <3>3 DEF Sched!Start, Clicks, Startable
    <3> HIDE DEF c
    <3>5. console' \in [at : At, ref : Ref, next : Clicks] /\ console'.next = c
      BY <1>0, <3>1, <3>4, PromptTypes DEF At, c
    <3> QED
      BY <1>0, <2>0, <3>2, <3>4, <3>5 DEF Shared, Startable
  <2>3. CASE ClickBegins
    <3>1. /\ console.at = "click" /\ click' = console.next /\ UNCHANGED queue
          /\ console' = [Prompt EXCEPT !.at = "grid"]
      BY <2>3 DEF ClickBegins
    <3>2. console' \in [at : At, ref : Ref, next : Clicks] /\ console'.at = "grid"
      BY <1>0, <3>1, PromptTypes DEF At, Shared
    <3> QED
      BY <1>0, <2>0, <3>1, <3>2 DEF Shared, Startable
  <2>4. CASE ClickStop
    BY <1>0, <2>0, <2>4 DEF ClickStop, Shared, Clicks, Startable, Sched!Silent
  <2>5. CASE LookGrid \/ LookEnroll
    <3>1. UNCHANGED <<click, queue>>
      BY <2>5 DEF LookGrid, LookEnroll
    <3>2. LookGrid => console' \in [at : At, ref : Ref, next : Clicks] /\ console'.at # "click"
      BY <1>0 DEF LookGrid, Shared, At
    <3> DEFINE told == [Prompt EXCEPT !.at = "postEnroll", !.ref = enroll_ref]
    <3>3. click \in Clicks /\ "postEnroll" \in At
      BY <1>0 DEF Shared, At
    <3>4. told \in [at : At, ref : Ref, next : Clicks] /\ told.at = "postEnroll"
      BY <1>0, <3>3, PromptTypes
    <3>5. Prompt \in [at : At, ref : Ref, next : Clicks] /\ Prompt.at = "prompt"
      BY <1>0, <3>3, PromptTypes
    <3>6. LookEnroll => console' \in {told, Prompt}
      BY DEF LookEnroll
    <3> HIDE DEF told
    <3>7. LookEnroll => console' \in [at : At, ref : Ref, next : Clicks] /\ console'.at # "click"
      BY <3>4, <3>5, <3>6
    <3> QED
      BY <1>0, <2>0, <2>5, <3>1, <3>2, <3>7 DEF Shared, Startable
  <2>6. CASE PostGrid
    <3>1. queue' \in Seq(Msg)
      BY <1>0, <2>6, Posted DEF PostGrid, Op
    <3> QED
      BY <1>0, <2>0, <2>6, <3>1 DEF PostGrid, Shared, Clicks, Startable, At
  <2>7. CASE PostEnroll
    <3>1. queue' \in Seq(Msg)
      BY <1>0, <2>7, Posted DEF PostEnroll, Op, Shared
    <3> QED
      BY <1>0, <2>0, <2>7, <3>1, PromptTypes DEF PostEnroll, Shared, Startable, At
  <2> QED
    BY <1>5, <2>1, <2>2, <2>3, <2>4, <2>5, <2>6, <2>7 DEF ConsoleTask
<1> QED
  BY <1>2, <1>3, <1>4, <1>5 DEF ControlNext, CaptureTask

LEMMA InitCInv == ControlInit => CInv
<1> SUFFICES ASSUME ControlInit PROVE CInv
  OBVIOUS
<1>1. IInv /\ clock = 0
  BY InitInv DEF ControlInit, Init
<1>2. Ms(0) = 0
  BY FsmAssumption, DivZero DEF Ms
<1>3. Heard
  BY <1>1, <1>2, HeardReset DEF ControlInit, Heard
<1>4. Shared
  <2>1. queue \in Seq(Msg)
    BY DEF ControlInit
  <2> QED
    BY <1>1, <2>1, ControlAssumption DEF ControlInit, Shared, Clicks, Startable, Prompt, At, Sched!Silent
<1> QED
  BY <1>1, <1>3, <1>4 DEF CInv

LEMMA NextCInv == CInv /\ ControlNext => CInv'
<1> SUFFICES ASSUME CInv, ControlNext PROVE CInv'
  OBVIOUS
<1>1. IInv'
  BY StreamStep, NextInv, StutterInv DEF CInv
<1> QED
  BY <1>1, HeardInv, SharedInv DEF CInv

LEMMA StutterCInv == CInv /\ UNCHANGED controlVars => CInv'
<1> SUFFICES ASSUME CInv, UNCHANGED controlVars PROVE CInv'
  OBVIOUS
<1>1. UNCHANGED <<vars, clock, task, polled, gestures, queue, click, console>>
  BY DEF controlVars, captureVars, consoleVars, vars
<1>2. IInv'
  BY <1>1, StutterInv DEF CInv
<1>3. Shared' /\ Heard'
  BY <1>1 DEF CInv, Shared, Clicks, Startable, Heard, Ms
<1> QED
  BY <1>2, <1>3 DEF CInv

THEOREM ControlInvariance == ControlSpec => []CInv
<1>1. CInv /\ [ControlNext]_controlVars => CInv'
  BY NextCInv, StutterCInv
<1> QED
  BY <1>1, InitCInv, PTL DEF ControlSpec

-----------------------------------------------------------------------------
(* The refinement *)

\* What SessionStream allows its callers is all that the console, the dispatcher, the
\* gestures and the click do: every property of it is one of ControlPlane.
THEOREM ImplementsSession == ControlSpec => ImplementsStream
<1>1. ControlInit => Init
  BY DEF ControlInit
<1>2. CInv /\ [ControlNext]_controlVars => [Next]_vars
  BY StreamStep DEF controlVars
<1> QED
  BY <1>1, <1>2, ControlInvariance, PTL DEF ControlSpec, ImplementsStream, Spec

-----------------------------------------------------------------------------
(* Gestures and sessions *)

\* A session takes hits, or is about to
Live == (in_session \/ pc = "start") /\ pc # "end"

Origin == IF pc = "start" THEN clock ELSE session_start_us

\* From o on; what was heard before is too old for a chord with what comes
Rest(g, o) ==
  /\ g.count > 0 => o <= g.t0
  /\ \A t \in g.a \cup g.b : o <= t \/ t + ChordMs < o

\* No sequence, and too old at m for one
Quieted(g, m) == g.count = 0 /\ \A t \in g.a \cup g.b : t + ChordMs < m

Within(g, m) ==
  /\ g.count > 0 => g.last <= m
  /\ \A t \in g.a \cup g.b : t <= m

Belong == IF Live THEN Rest(gestures, Ms(Origin)) ELSE Quieted(gestures, Ms(clock))

\* What has been heard counts as activity
Recent == pc = "ready" /\ in_session => Within(gestures, Ms(last_activity_us))

\* A sequence that is still counted had not timed out when it was last polled
Timely ==
  /\ clock <= polled + LoopUs
  /\ gestures.count > 0 => Ms(polled) <= gestures.last + SeqGapMs

GInv == CInv /\ Belong /\ Recent /\ Timely

\* A chord is made of the hit just heard and one that is not too old.
LEMMA HearRest ==
  ASSUME NEW g, NEW m \in Nat, HeardBy(g, m), NEW o \in Nat, o <= m, Rest(g, o),
         NEW pad \in Detector!Pad
  PROVE  Rest(Detector!Hear(g, pad, m), o)
<1>0. ChordMs \in Nat /\ CountWrap \in Nat \ {0}
  BY ControlAssumption
<1>1. ASSUME NEW h, HeardBy(h, m), Rest(h, o),
             \A ta \in h.a, tb \in h.b : ta = m \/ tb = m
      PROVE  Rest(Detector!Pair(h, m), o)
  <2>1. CASE ~ (\E ta \in h.a, tb \in h.b : Detector!Apart(ta, tb) <= ChordMs)
    BY <1>1, <2>1 DEF Detector!Pair
  <2>2. CASE \E ta \in h.a, tb \in h.b : Detector!Apart(ta, tb) <= ChordMs
    <3>1. PICK ta \in h.a, tb \in h.b : Detector!Apart(ta, tb) <= ChordMs
      BY <2>2
    <3>2. ta = (CHOOSE x \in h.a : TRUE) /\ tb = (CHOOSE x \in h.b : TRUE)
      BY <1>1, <3>1 DEF HeardBy
    <3>3. Detector!Pair(h, m) = Detector!Chord(h, ta, tb, m)
      BY <2>2, <3>2 DEF Detector!Pair
    <3>4. ta \in 0..m /\ tb \in 0..m /\ h.count \in Nat /\ h.t0 \in 0..m
      BY <1>1, <3>1 DEF HeardBy
    <3>5. o <= ta /\ o <= tb
      <4>1. CASE ta = m
        <5>1. m - tb <= ChordMs
          BY <3>1, <3>4, <4>1 DEF Detector!Apart
        <5>2. o <= tb \/ tb + ChordMs < o
          BY <1>1, <3>1 DEF Rest
        <5> QED
          BY <1>0, <3>4, <4>1, <5>1, <5>2
      <4>2. CASE tb = m
        <5>1. m - ta <= ChordMs
          BY <3>1, <3>4, <4>2 DEF Detector!Apart
        <5>2. o <= ta \/ ta + ChordMs < o
          BY <1>1, <3>1 DEF Rest
        <5> QED
          BY <1>0, <3>4, <4>2, <5>1, <5>2
      <4> QED
        BY <1>1, <3>1, <4>1, <4>2
    <3>6. o <= Detector!Earlier(ta, tb)
      BY <3>5 DEF Detector!Earlier
    <3>7. h.count # 0 => o <= h.t0
      BY <1>1, <3>4 DEF Rest
    <3>8. o <= Detector!Chord(h, ta, tb, m).t0
      BY <3>6, <3>7 DEF Detector!Chord
    <3>9. Detector!Chord(h, ta, tb, m).a = {} /\ Detector!Chord(h, ta, tb, m).b = {}
      BY DEF Detector!Chord
    <3> QED
      BY <3>3, <3>8, <3>9 DEF Rest
  <2> QED
    BY <2>1, <2>2
<1>2. HeardBy([g EXCEPT !.a = {m}], m) /\ HeardBy([g EXCEPT !.b = {m}], m)
  BY DEF HeardBy
<1>3. Rest([g EXCEPT !.a = {m}], o) /\ Rest([g EXCEPT !.b = {m}], o)
  BY DEF HeardBy, Rest
<1>4. /\ [g EXCEPT !.a = {m}].a = {m}
      /\ [g EXCEPT !.b = {m}].b = {m}
  BY DEF HeardBy
<1> QED
  BY <1>1, <1>2, <1>3, <1>4 DEF Detector!Hear, Detector!Pad

LEMMA QuietedRests ==
  ASSUME NEW g, NEW m \in Nat, Quieted(g, m)
  PROVE  Rest(g, m)
BY DEF Quieted, Rest

LEMMA QuietedLater ==
  ASSUME NEW g, NEW m \in Nat, NEW n \in Nat, m <= n, HeardBy(g, m), Quieted(g, m)
  PROVE  Quieted(g, n)
BY ControlAssumption DEF Quieted, HeardBy

LEMMA ResetRests ==
  ASSUME NEW m \in Nat
  PROVE  /\ Rest(Detector!Reset, m) /\ Quieted(Detector!Reset, m)
         /\ Within(Detector!Reset, m) /\ Detector!Reset.count = 0
BY DEF Detector!Reset, Rest, Quieted, Within

\* A session that silence ends has no gesture in progress.
LEMMA SilenceQuiets ==
  ASSUME CInv, Recent, Timely, pc = "ready", in_session,
         Elapsed(clock, last_activity_us) >= IdleMs
  PROVE  Quieted(gestures, Ms(clock))
<1>1. /\ clock \in Nat /\ clock <= MaxUs /\ MaxUs \in Nat
      /\ last_activity_us \in Nat /\ last_activity_us <= clock
      /\ polled \in Nat /\ polled <= clock
      /\ UsPerMs \in Nat \ {0} /\ IdleMs \in Nat /\ SeqGapMs \in Nat /\ ChordMs \in Nat
      /\ LoopUs \in Nat
  BY FsmAssumption, StreamAssumption, ControlAssumption DEF CInv, IInv, Types, Shared
<1>2. PICK m \in Nat : m = Ms(clock) /\ UsPerMs * m <= clock /\ clock < UsPerMs * m + UsPerMs
  BY <1>1, ClockFits
<1>a. last_activity_us <= MaxUs /\ polled <= MaxUs
  BY <1>1
<1>3. PICK k \in Nat : k = Ms(last_activity_us) /\ UsPerMs * k <= last_activity_us
  BY <1>1, <1>a, ClockFits
<1>4. PICK p \in Nat : p = Ms(polled) /\ polled < UsPerMs * p + UsPerMs
  BY <1>1, <1>a, ClockFits
<1>5. HeardBy(gestures, m) /\ Within(gestures, k)
  BY <1>2, <1>3 DEF CInv, Heard, Recent
<1>6. last_activity_us + UsPerMs * IdleMs <= clock
  <2>1. PICK d \in Nat : d = clock - last_activity_us
    BY <1>1
  <2>2. PICK q \in Nat : q = d \div UsPerMs /\ UsPerMs * q <= d
    BY <1>1, Quotient
  <2>3. IdleMs <= q
    BY <1>1, <2>1, <2>2 DEF Elapsed, Since
  <2>4. UsPerMs * IdleMs <= UsPerMs * q
    BY <1>1, <2>3, Product
  <2> QED
    BY <1>1, <2>1, <2>2, <2>4
<1>7. k + IdleMs <= m
  <2>1. ASSUME m + 1 <= k + IdleMs PROVE FALSE
    <3>1. UsPerMs * (m + 1) <= UsPerMs * (k + IdleMs)
      BY <1>1, <2>1, Product
    <3>2. /\ UsPerMs * (m + 1) = UsPerMs * m + UsPerMs
          /\ UsPerMs * (k + IdleMs) = UsPerMs * k + UsPerMs * IdleMs
      BY <1>1
    <3>3. UsPerMs * m \in Nat /\ UsPerMs * k \in Nat /\ UsPerMs * IdleMs \in Nat
      BY <1>1
    <3> QED
      BY <1>1, <1>2, <1>3, <1>6, <3>1, <3>2, <3>3
  <2> QED
    BY <1>1, <2>1
<1>8. ASSUME NEW t \in gestures.a \cup gestures.b PROVE t + ChordMs < m
  <2>1. t \in Nat /\ t <= k
    BY <1>5 DEF HeardBy, Within
  <2> QED
    BY <1>1, <1>7, <2>1, SilenceIsLonger
<1>9. gestures.count = 0
  <2>1. gestures.count \in Nat /\ gestures.last \in Nat
    BY <1>5 DEF HeardBy
  <2>2. ASSUME gestures.count > 0 PROVE FALSE
    <3>1. PICK s \in Nat : s = gestures.last /\ s <= k /\ p <= s + SeqGapMs
      BY <1>4, <1>5, <2>1, <2>2 DEF Within, Timely
    <3>2. UsPerMs * (p + 1) <= UsPerMs * (s + SeqGapMs + 1)
      BY <1>1, <3>1, Product
    <3>3. UsPerMs * s <= UsPerMs * k
      BY <1>1, <3>1, Product
    <3>4. PICK gap \in Nat : gap = (SeqGapMs + 1) * UsPerMs
      BY <1>1
    <3>5. /\ UsPerMs * (p + 1) = UsPerMs * p + UsPerMs
          /\ UsPerMs * (s + SeqGapMs + 1) = UsPerMs * s + gap
      BY <1>1, <3>4
    <3>6. /\ UsPerMs * p \in Nat /\ UsPerMs * s \in Nat /\ UsPerMs * k \in Nat
          /\ UsPerMs * IdleMs \in Nat /\ UsPerMs * IdleMs = IdleMs * UsPerMs
      BY <1>1
    <3>7. gap + LoopUs <= IdleMs * UsPerMs
      BY <3>4, SilenceIsLonger
    <3>8. clock <= polled + LoopUs
      BY DEF Timely
    <3>9. polled < last_activity_us + gap
      BY <1>1, <1>3, <1>4, <3>2, <3>3, <3>5, <3>6
    <3> QED
      BY <1>1, <1>6, <3>6, <3>7, <3>8, <3>9
  <2> QED
    BY <2>1, <2>2
<1> QED
  BY <1>2, <1>8, <1>9 DEF Quieted

\* Where a session begins, and that its own records count as activity
LEMMA SessionStep ==
  ASSUME IInv, Next
  PROVE  /\ Live' => \/ Live /\ Origin' = Origin
                     \/ ~ Live /\ Origin' = clock /\ clock' = clock
         /\ pc' = "ready" /\ in_session' =>
              \/ last_activity_us' = clock /\ clock' = clock
              \/ pc = "ready" /\ in_session /\ UNCHANGED last_activity_us
<1> DEFINE Begins == Live' => \/ Live /\ Origin' = Origin
                              \/ ~ Live /\ Origin' = clock /\ clock' = clock
           Acts == pc' = "ready" /\ in_session' =>
                     \/ last_activity_us' = clock /\ clock' = clock
                     \/ pc = "ready" /\ in_session /\ UNCHANGED last_activity_us
<1>0. Control /\ Calls
  BY DEF IInv
<1>1. CASE Pass
  BY <1>1 DEF Pass, Live, Origin, timeVars
<1>2. CASE Turn
  BY <1>2 DEF Turn, OnCtrl, Live, Origin
<1>3. ASSUME NEW request, Enter(request), Quietly PROVE Begins /\ Acts
  BY <1>3 DEF Enter, Quietly, Live, Origin, timeVars
<1>4. CASE OnEvent(clock) /\ Quietly
  BY <1>3, <1>4 DEF OnEvent, Quietly, Live, Origin
<1>5. CASE OnRaw(clock) /\ Quietly
  BY <1>5 DEF OnRaw, Quietly, Live, Origin
<1>6. CASE Stop /\ Quietly
  BY <1>6 DEF Stop, Tick, EndSession, Quietly, Live, Origin, timeVars
<1>7. CASE Declare /\ Quietly
  <2>1. CASE \E trig \in Trigs : GridEnd(clock, trig) \/ EnrollEnd(clock, trig)
    BY <1>7, <2>1 DEF GridEnd, EnrollEnd, CloseGrid, CloseEnroll, Quietly, Live, Origin
  <2> QED
    BY <1>3, <1>7, <2>1 DEF Declare, Bookmark, GridStart, EnrollStart
<1>8. CASE Continue /\ Quietly
  <2>1. CASE EnsureSession
    BY <1>0, <1>8, <2>1 DEF EnsureSession, Calls, Quietly, Live, Origin
  <2>2. CASE FlushOne \/ FlushDone
    BY <1>0, <1>8, <2>2 DEF FlushOne, FlushDone, Control, Quietly, Live, Origin, timeVars
  <2>3. CASE EventBody \/ BookmarkBody \/ GridStartBody \/ EnrollStartBody
    BY <1>0, <1>8, <2>3 DEF EventBody, BookmarkBody, GridStartBody, EnrollStartBody,
                            Return, Control, Calls, Quietly, Live, Origin
  <2>4. CASE EnrollStartClosesOld
    BY <1>0, <1>8, <2>4 DEF EnrollStartClosesOld, CloseEnroll, Control, Quietly, Live, Origin
  <2>5. CASE EndClosesGrid \/ EndClosesEnroll
    BY <1>8, <2>5 DEF EndClosesGrid, EndClosesEnroll, CloseGrid, CloseEnroll, Quietly, Live
  <2>6. CASE EndMark
    BY <1>8, <2>6 DEF EndMark, Return, Quietly, Live
  <2> QED
    BY <1>8, <2>1, <2>2, <2>3, <2>4, <2>5, <2>6 DEF Continue
<1> QED
  BY <1>1, <1>2, <1>4, <1>5, <1>6, <1>7, <1>8 DEF Next, Play

\* A hit leaves a session, and a call in progress
LEMMA HitLive ==
  ASSUME NEW pad \in Detector!Pad, Hit(pad)
  PROVE  Live' /\ pc' # "ready"
BY DEF Hit, OnEvent, Enter, Live

\* The dispatcher ends a session only together with the gestures
LEMMA DispatchLive ==
  ASSUME IInv, NEW op \in Op, NEW ref, NEW trig, NEW heard,
         Dispatch(op, ref, trig, heard), Live, ~ Live'
  PROVE  op = "EndSession"
<1>1. pc = "ready" /\ in_session
  BY DEF Dispatch, Live
<1>2. ~ Still
  BY DEF Still, vars, fsmVars, Live
<1>3. ~ StartGrid(trig)
  BY <1>1, <1>2 DEF StartGrid, GridStart, Enter, Live
<1>4. ASSUME NEW r PROVE ~ StartEnroll(r, trig)
  BY <1>1, <1>2 DEF StartEnroll, EnrollStart, Enter, Live
<1>5. ~ EndGrid(trig)
  BY <1>1, <1>2 DEF EndGrid, GridEnd, CloseGrid, Live
<1>6. ~ EndEnroll(trig)
  BY <1>1, <1>2 DEF EndEnroll, EnrollEnd, CloseEnroll, Live
<1>7. ~ Bookmark(clock, trig)
  BY <1>1 DEF Bookmark, Enter, Live
<1>8. op # "Bookmark" /\ op # "None"
  BY <1>2, <1>7 DEF Dispatch
<1>9. op \notin {"GridStart", "GridEnd", "GridToggle"}
  BY <1>3, <1>5 DEF Dispatch
<1>10. op \notin {"EnrollStart", "EnrollEnd", "EnrollToggle"}
  BY <1>4, <1>6 DEF Dispatch
<1> QED
  BY <1>8, <1>9, <1>10 DEF Op

\* What ends a session: a command that forgets the gestures, or silence
LEMMA EndStep ==
  ASSUME CInv, ControlNext, Live, ~ Live'
  PROVE  \/ gestures' = Detector!Reset
         \/ /\ UNCHANGED <<gestures, clock>> /\ pc = "ready" /\ in_session
            /\ Elapsed(clock, last_activity_us) >= IdleMs
<1>0. IInv /\ Shared /\ Control
  BY DEF CInv, IInv
<1>1. CASE Elapse
  BY <1>1 DEF Elapse, Pass, Live
<1>2. ASSUME NEW pad \in Detector!Pad, Hit(pad) PROVE FALSE
  BY <1>2, HitLive
<1>3. CASE Message
  BY <1>3 DEF Message, Turn, OnCtrl, OnRaw, Quietly, Live
<1>4. CASE Receive
  <2>1. Head(queue).op \in Op
    <3>1. queue \in Seq(Msg) /\ queue # <<>>
      BY <1>0, <1>4 DEF Shared, Receive
    <3>2. PICK m \in Msg : m = Head(queue)
      BY <3>1
    <3>3. m.op \in Op
      BY DEF Msg
    <3> QED
      BY <3>2, <3>3
  <2>2. Dispatch(Head(queue).op, Head(queue).ref, NoTrig, gestures)
    BY <1>4 DEF Receive
  <2>3. Head(queue).op = "EndSession"
    BY <1>0, <2>1, <2>2, DispatchLive
  <2> QED
    BY <2>2, <2>3 DEF Dispatch
<1>5. CASE TickStep
  BY <1>5 DEF TickStep, Tick, Quietly, Still, vars, fsmVars, Live, timeVars
<1>6. CASE Poll
  <2>1. CASE ~ Detector!Closes(gestures, Ms(clock))
    BY <1>6, <2>1 DEF Poll, Still, vars, fsmVars, Live
  <2>2. CASE Detector!Closes(gestures, Ms(clock))
    BY <1>6, <2>2 DEF Poll, Dispatch
  <2> QED
    BY <2>1, <2>2
<1>7. CASE Proceed
  <2>1. pc \in {"start", "flush", "body"} /\ Continue
    <3>1. Continue => pc # "ready"
      BY DEF Continue, EnsureSession, FlushOne, FlushDone, EventBody, BookmarkBody,
             GridStartBody, EnrollStartClosesOld, EnrollStartBody, EndClosesGrid,
             EndClosesEnroll, EndMark
    <3> QED
      BY <1>0, <1>7, <3>1 DEF Proceed, Control, Live
  <2>2. CASE EnsureSession \/ FlushOne \/ FlushDone
    BY <1>0, <2>2 DEF EnsureSession, FlushOne, FlushDone, Control, Live
  <2>3. CASE EventBody \/ BookmarkBody \/ GridStartBody \/ EnrollStartBody
    BY <1>0, <2>3 DEF EventBody, BookmarkBody, GridStartBody, EnrollStartBody, Return,
                      Control, Live
  <2>4. CASE EnrollStartClosesOld
    BY <1>0, <2>4 DEF EnrollStartClosesOld, CloseEnroll, Control, Live
  <2>5. CASE EndClosesGrid \/ EndClosesEnroll \/ EndMark
    BY <2>1, <2>5 DEF EndClosesGrid, EndClosesEnroll, EndMark
  <2> QED
    BY <2>1, <2>2, <2>3, <2>4, <2>5 DEF Continue
<1>8. CASE ConsoleTask
  BY <1>8 DEF ConsoleTask, Command, ClickStart, ClickBegins, ClickStop, Type, LookGrid, PostGrid,
              LookEnroll, PostEnroll, Still, vars, fsmVars, Live
<1> QED
  BY <1>1, <1>2, <1>3, <1>4, <1>5, <1>6, <1>7, <1>8 DEF ControlNext, CaptureTask

LEMMA PolledStep ==
  ASSUME ControlNext
  PROVE  polled' = polled \/ (Poll /\ polled' = clock)
<1>1. CASE Elapse \/ CaptureTask
  BY <1>1 DEF CaptureTask, Elapse, Hit, Message, Receive, TickStep, Poll, Proceed,
              captureVars
<1>2. CASE ConsoleTask
  BY <1>2 DEF ConsoleTask, Command, ClickStart, ClickBegins, ClickStop, Type, LookGrid, PostGrid,
              LookEnroll, PostEnroll, captureVars
<1> QED
  BY <1>1, <1>2 DEF ControlNext

LEMMA BelongInv == GInv /\ ControlNext /\ CInv' => Belong'
<1> SUFFICES ASSUME GInv, ControlNext, CInv' PROVE Belong'
  OBVIOUS
<1>1. /\ clock \in Nat /\ clock <= MaxUs /\ clock' \in Nat /\ clock' <= MaxUs
      /\ Origin \in Nat /\ Origin <= clock /\ CInv
  BY StreamAssumption DEF GInv, CInv, IInv, Types, Origin
<1>2. clock <= clock'
  BY <1>1, StreamStep DEF Elapse, Pass
<1>3. PICK m \in Nat : m = Ms(clock)
  BY <1>1, ClockFits
<1>4. PICK n \in Nat : n = Ms(clock') /\ m <= n
  BY <1>1, <1>2, <1>3, ClockFits, MsOrder
<1>5. HeardBy(gestures, m) /\ Belong
  BY <1>3 DEF GInv, CInv, Heard
<1>6. Belong' = IF Live' THEN Rest(gestures', Ms(Origin')) ELSE Quieted(gestures', n)
  BY <1>4 DEF Belong, Ms
<1>7. CASE Live'
  <2>1. \/ Live /\ Origin' = Origin
        \/ ~ Live /\ Origin' = clock
    <3>1. CASE Next
      BY <1>1, <1>7, <3>1, SessionStep DEF CInv
    <3>2. CASE UNCHANGED vars
      BY <1>7, <3>2 DEF vars, fsmVars, timeVars, Live, Origin
    <3> QED
      BY <1>1, <3>1, <3>2, StreamStep
  <2>2. PICK o \in Nat : o = Ms(Origin') /\ o <= m /\ Rest(gestures, o)
    <3>1. CASE Live /\ Origin' = Origin
      <4>1. Origin <= MaxUs
        BY <1>1, StreamAssumption
      <4>2. Ms(Origin) \in Nat /\ Ms(Origin) <= m
        BY <1>1, <1>3, <4>1, ClockFits, MsOrder
      <4>3. Rest(gestures, Ms(Origin))
        BY <1>5, <3>1 DEF Belong
      <4> QED
        BY <3>1, <4>2, <4>3
    <3>2. CASE ~ Live /\ Origin' = clock
      <4>1. Quieted(gestures, m)
        BY <1>3, <1>5, <3>2 DEF Belong
      <4> QED
        BY <1>3, <3>2, <4>1, QuietedRests
    <3> QED
      BY <2>1, <3>1, <3>2
  <2>3. CASE UNCHANGED gestures
    BY <1>6, <1>7, <2>2, <2>3
  <2>4. CASE gestures' = Detector!Reset
    BY <1>6, <1>7, <2>2, <2>4, ResetRests
  <2>5. ASSUME NEW pad \in Detector!Pad,
               gestures' = Detector!Hear(gestures, pad, Ms(clock))
        PROVE  Belong'
    BY <1>3, <1>5, <1>6, <1>7, <2>2, <2>5, HearRest
  <2> QED
    BY <1>1, <2>3, <2>4, <2>5, DetectorStep
<1>8. CASE ~ Live'
  <2>1. CASE gestures' = Detector!Reset
    BY <1>4, <1>6, <1>8, <2>1, ResetRests
  <2>2. CASE Live /\ gestures' # Detector!Reset
    <3>1. /\ UNCHANGED <<gestures, clock>> /\ pc = "ready" /\ in_session
          /\ Elapsed(clock, last_activity_us) >= IdleMs
      BY <1>1, <1>8, <2>2, EndStep
    <3>2. Quieted(gestures, Ms(clock))
      BY <1>1, <3>1, SilenceQuiets DEF GInv
    <3> QED
      BY <1>4, <1>6, <1>8, <3>1, <3>2
  <2>3. CASE ~ Live /\ gestures' # Detector!Reset
    <3>1. Quieted(gestures, m)
      BY <1>3, <1>5, <2>3 DEF Belong
    <3>2. UNCHANGED gestures
      BY <1>1, <1>8, <2>3, DetectorStep, HitLive
    <3> QED
      BY <1>4, <1>5, <1>6, <1>8, <3>1, <3>2, QuietedLater
  <2> QED
    BY <2>1, <2>2, <2>3
<1> QED
  BY <1>7, <1>8

LEMMA RecentInv == GInv /\ ControlNext /\ CInv' => Recent'
<1> SUFFICES ASSUME GInv, ControlNext, CInv', pc' = "ready", in_session'
             PROVE  Within(gestures', Ms(last_activity_us'))
  BY DEF Recent, Within, Ms
<1>1. /\ last_activity_us \in Nat /\ last_activity_us <= MaxUs
      /\ clock \in Nat /\ clock <= MaxUs /\ CInv /\ IInv /\ Recent
  BY StreamAssumption DEF GInv, CInv, IInv, Types
<1>2. CASE last_activity_us' = clock /\ clock' = clock
  <2>1. PICK m \in Nat : m = Ms(clock)
    BY <1>1, ClockFits
  <2>2. HeardBy(gestures', m)
    BY <1>2, <2>1 DEF CInv, Heard, Ms
  <2>3. Within(gestures', m)
    BY <2>2 DEF HeardBy, Within
  <2> QED
    BY <1>2, <2>1, <2>3
<1>3. CASE pc = "ready" /\ in_session /\ UNCHANGED last_activity_us
  <2>1. PICK k \in Nat : k = Ms(last_activity_us)
    BY <1>1, ClockFits
  <2>2. Within(gestures, k)
    BY <1>1, <1>3, <2>1 DEF Recent
  <2>3. UNCHANGED gestures \/ gestures' = Detector!Reset
    BY <1>1, DetectorStep, HitLive
  <2> QED
    BY <1>3, <2>1, <2>2, <2>3, ResetRests
<1>4. CASE Next
  BY <1>1, <1>2, <1>3, <1>4, SessionStep
<1>5. CASE UNCHANGED vars
  BY <1>3, <1>5 DEF vars, fsmVars, timeVars
<1> QED
  BY <1>1, <1>4, <1>5, StreamStep

\* A chord is as recent as the hit that completes it.
LEMMA HearTimely ==
  ASSUME NEW g, NEW m \in Nat, HeardBy(g, m), NEW pad \in Detector!Pad, NEW p \in Nat, p <= m,
         g.count > 0 => p <= g.last + SeqGapMs,
         Detector!Hear(g, pad, m).count > 0
  PROVE  p <= Detector!Hear(g, pad, m).last + SeqGapMs
<1>0. SeqGapMs \in Nat
  BY ControlAssumption
<1>1. ASSUME NEW h, h.count = g.count, h.last = g.last,
             Detector!Pair(h, m).count > 0
      PROVE  p <= Detector!Pair(h, m).last + SeqGapMs
  <2>1. CASE Detector!Pair(h, m) = h
    BY <1>1, <2>1
  <2>2. CASE Detector!Pair(h, m).last = m
    BY <1>0, <2>2
  <2>3. Detector!Pair(h, m) = h \/ Detector!Pair(h, m).last = m
    BY DEF Detector!Pair, Detector!Chord
  <2> QED
    BY <2>1, <2>2, <2>3
<1>2. /\ [g EXCEPT !.a = {m}].count = g.count /\ [g EXCEPT !.a = {m}].last = g.last
      /\ [g EXCEPT !.b = {m}].count = g.count /\ [g EXCEPT !.b = {m}].last = g.last
  BY DEF HeardBy
<1> QED
  BY <1>1, <1>2 DEF Detector!Hear, Detector!Pad

LEMMA TimelyInv == GInv /\ ControlNext /\ CInv' => Timely'
<1> SUFFICES ASSUME GInv, ControlNext, CInv' PROVE Timely'
  OBVIOUS
<1>1. /\ clock \in Nat /\ clock <= MaxUs /\ MaxUs \in Nat /\ clock' \in Nat
      /\ polled \in Nat /\ polled <= clock /\ polled <= MaxUs
      /\ CInv /\ Timely /\ LoopUs \in Nat /\ SeqGapMs \in Nat /\ U32 \in Nat \ {0}
  BY FsmAssumption, StreamAssumption, ControlAssumption DEF GInv, CInv, IInv, Types, Shared
<1>2. PICK m \in Nat : m = Ms(clock) /\ m < U32
  BY <1>1, ClockFits
<1>3. PICK p \in Nat : p = Ms(polled) /\ p <= m
  BY <1>1, <1>2, ClockFits, MsOrder
<1>4. HeardBy(gestures, m) /\ (gestures.count > 0 => p <= gestures.last + SeqGapMs)
  BY <1>1, <1>2, <1>3 DEF CInv, Heard, Timely
<1>5. clock' <= polled' + LoopUs
  <2>1. CASE Elapse
    BY <1>1, <2>1 DEF Elapse, Pass, captureVars
  <2>2. CASE clock' = clock
    BY <1>1, <2>2, PolledStep DEF Timely
  <2> QED
    BY <1>1, <2>1, <2>2, StreamStep
<1>6. ASSUME gestures'.count > 0 PROVE Ms(polled') <= gestures'.last + SeqGapMs
  <2>1. CASE gestures' = Detector!Reset
    BY <1>6, <2>1, ResetRests
  <2>2. CASE Poll /\ polled' = clock /\ gestures' # Detector!Reset
    <3>1. ~ Detector!Closes(gestures, m) /\ UNCHANGED gestures
      BY <1>2, <2>2 DEF Poll, Dispatch
    <3>2. (m - gestures.last) % U32 <= SeqGapMs
      <4>1. ~ ((m - gestures.last) % U32 > SeqGapMs)
        BY <1>6, <3>1 DEF Detector!Closes, Detector!Stale
      <4>2. m - gestures.last \in Nat
        BY <1>4 DEF HeardBy
      <4>3. (m - gestures.last) % U32 \in Nat
        BY <1>1, <4>2
      <4> QED
        BY <1>1, <4>1, <4>3
    <3>3. (m - gestures.last) % U32 = m - gestures.last
      <4>1. PICK d \in Nat : d = m - gestures.last /\ d < U32
        BY <1>1, <1>2, <1>4 DEF HeardBy
      <4> QED
        BY <1>1, <4>1
    <3>4. m <= gestures.last + SeqGapMs
      BY <1>1, <1>4, <3>2, <3>3 DEF HeardBy
    <3> QED
      BY <1>2, <2>2, <3>1, <3>4
  <2>3. CASE polled' = polled /\ UNCHANGED gestures
    BY <1>3, <1>4, <1>6, <2>3
  <2>4. ASSUME NEW pad \in Detector!Pad, polled' = polled,
               gestures' = Detector!Hear(gestures, pad, Ms(clock))
        PROVE  Ms(polled') <= gestures'.last + SeqGapMs
    BY <1>2, <1>3, <1>4, <1>6, <2>4, HearTimely
  <2>5. Hit("a") \/ Hit("b") \/ Hit("other") => polled' = polled
    BY DEF Hit
  <2> QED
    BY <1>1, <2>1, <2>2, <2>3, <2>4, <2>5, DetectorStep, PolledStep DEF Detector!Pad
<1> QED
  BY <1>5, <1>6 DEF Timely, Ms

LEMMA InitGInv == ControlInit => GInv
<1> SUFFICES ASSUME ControlInit PROVE GInv
  OBVIOUS
<1>1. CInv /\ gestures = Detector!Reset /\ clock = 0 /\ polled = 0
  BY InitCInv DEF ControlInit, Init
<1>2. ~ Live /\ ~ in_session /\ Ms(0) = 0
  BY FsmAssumption, DivZero DEF ControlInit, Init, FsmInit, Live, Ms
<1>3. Belong
  BY <1>1, <1>2, ResetRests DEF Belong
<1>4. Recent /\ Timely
  BY <1>1, <1>2, ResetRests, ControlAssumption DEF Recent, Timely
<1> QED
  BY <1>1, <1>3, <1>4 DEF GInv

LEMMA NextGInv == GInv /\ ControlNext => GInv'
<1> SUFFICES ASSUME GInv, ControlNext PROVE GInv'
  OBVIOUS
<1>1. CInv'
  BY NextCInv DEF GInv
<1> QED
  BY <1>1, BelongInv, RecentInv, TimelyInv DEF GInv

LEMMA StutterGInv == GInv /\ UNCHANGED controlVars => GInv'
<1> SUFFICES ASSUME GInv, UNCHANGED controlVars PROVE GInv'
  OBVIOUS
<1>1. CInv'
  BY StutterCInv DEF GInv
<1>2. Belong' /\ Recent' /\ Timely'
  BY DEF GInv, Belong, Recent, Timely, Live, Origin, Rest, Quieted, Within, Ms,
         controlVars, captureVars, vars, fsmVars, timeVars
<1> QED
  BY <1>1, <1>2 DEF GInv

\* A gesture only ever declares something in the session its hits are part of: what a
\* session is ended by has forgotten the gestures or has waited for their end.
THEOREM GesturesStay == ControlSpec => []GesturesBelong
<1>1. GInv => GesturesBelong
  <2> SUFFICES ASSUME GInv, pc = "ready", gestures.count >= 2
               PROVE  in_session /\ Ms(session_start_us) <= gestures.t0
    BY DEF GesturesBelong
  <2>1. gestures.count > 0
    BY DEF GInv, CInv, Heard, HeardBy
  <2>2. Live
    BY <2>1 DEF GInv, Belong, Quieted
  <2>3. in_session /\ Origin = session_start_us
    BY <2>2 DEF Live, Origin
  <2>4. Rest(gestures, Ms(Origin))
    BY <2>2 DEF GInv, Belong
  <2> QED
    BY <2>1, <2>3, <2>4 DEF Rest
<1>2. GInv /\ [ControlNext]_controlVars => GInv'
  BY NextGInv, StutterGInv
<1> QED
  BY <1>1, <1>2, InitGInv, PTL DEF ControlSpec

-----------------------------------------------------------------------------
(* Open spans and the click that is running *)

\* Open, or being declared
GridUnderway == grid_open \/ (pc # "ready" /\ call.op = "GridStart")
EnrollUnderway == enroll_open \/ (pc # "ready" /\ call.op = "EnrollStart")

Queued(op) == \E k \in DOMAIN queue : queue[k].op = op

\* A span that has not been declared on the running click will be: the console has
\* yet to look at its flag, or has seen it, or its declaration is in the queue.
GridFollows ==
  click.running /\ ~ blind /\ "grid" \notin fresh /\ GridUnderway
  => console.at \in {"grid", "postGrid"} \/ Queued("GridStart")

EnrollFollows ==
  click.running /\ ~ blind /\ "enroll" \notin fresh /\ EnrollUnderway
  => console.at \in {"grid", "postGrid", "enroll", "postEnroll"} \/ Queued("EnrollStart")

FInv == CInv /\ GridFollows /\ EnrollFollows

\* The dispatcher takes the click that is running for every span it opens.
LEMMA DispatchDeclares ==
  ASSUME NEW op \in Op, NEW ref, NEW trig, NEW heard, Dispatch(op, ref, trig, heard)
  PROVE  /\ fresh \subseteq fresh'
         /\ op = "GridStart" /\ click.running => "grid" \in fresh'
         /\ op = "EnrollStart" /\ click.running => "enroll" \in fresh'
         /\ GridUnderway' => GridUnderway \/ "grid" \in fresh'
         /\ EnrollUnderway' => EnrollUnderway \/ "enroll" \in fresh'
<1> DEFINE Declared == /\ fresh \subseteq fresh'
                       /\ GridUnderway' => GridUnderway \/ "grid" \in fresh'
                       /\ EnrollUnderway' => EnrollUnderway \/ "enroll" \in fresh'
<1>1. Still /\ UNCHANGED fresh => Declared
  BY DEF Still, vars, fsmVars, spanVars, GridUnderway, EnrollUnderway
<1>2. ASSUME StartGrid(trig)
      PROVE  Declared /\ (click.running => "grid" \in fresh')
  BY <1>1, <1>2 DEF StartGrid, GridStart, Enter, spanVars, GridUnderway, EnrollUnderway
<1>3. ASSUME NEW r, StartEnroll(r, trig)
      PROVE  Declared /\ (click.running => "enroll" \in fresh')
  BY <1>1, <1>3 DEF StartEnroll, EnrollStart, Enter, spanVars, GridUnderway, EnrollUnderway
<1>4. EndGrid(trig) => Declared
  BY <1>1 DEF EndGrid, GridEnd, CloseGrid, GridUnderway, EnrollUnderway
<1>5. EndEnroll(trig) => Declared
  BY <1>1 DEF EndEnroll, EnrollEnd, CloseEnroll, GridUnderway, EnrollUnderway
<1>6. CASE op = "Bookmark"
  <2>1. Bookmark(clock, trig) /\ UNCHANGED fresh
    BY <1>6 DEF Dispatch
  <2> QED
    BY <1>6, <2>1 DEF Bookmark, Enter, spanVars, GridUnderway, EnrollUnderway
<1>7. CASE op = "EndSession"
  <2>1. (EndSession(clock) \/ Still) /\ UNCHANGED fresh
    BY <1>7 DEF Dispatch
  <2> QED
    BY <1>1, <1>7, <2>1 DEF EndSession, spanVars, GridUnderway, EnrollUnderway
<1>8. CASE op = "None"
  BY <1>1, <1>8 DEF Dispatch
<1>9. CASE op = "GridStart"
  BY <1>2, <1>9 DEF Dispatch
<1>10. CASE op \in {"GridEnd", "GridToggle"}
  BY <1>2, <1>4, <1>10 DEF Dispatch
<1>11. CASE op = "EnrollStart"
  BY <1>3, <1>11 DEF Dispatch
<1>12. CASE op \in {"EnrollEnd", "EnrollToggle"}
  BY <1>3, <1>5, <1>12 DEF Dispatch
<1> QED
  BY <1>6, <1>7, <1>8, <1>9, <1>10, <1>11, <1>12 DEF Op

\* Only the call that declares a span sets its flag.
LEMMA ProceedDeclares ==
  ASSUME CInv, Proceed
  PROVE  (GridUnderway' => GridUnderway) /\ (EnrollUnderway' => EnrollUnderway)
<1>0. Continue
  BY DEF Proceed
<1>1. CASE EnsureSession \/ FlushOne \/ FlushDone
  BY <1>1 DEF EnsureSession, FlushOne, FlushDone, spanVars, GridUnderway, EnrollUnderway
<1>2. CASE EventBody \/ BookmarkBody
  BY <1>2 DEF EventBody, BookmarkBody, Return, spanVars, GridUnderway, EnrollUnderway
<1>3. CASE GridStartBody
  BY <1>3 DEF GridStartBody, Return, GridUnderway, EnrollUnderway
<1>4. CASE EnrollStartBody
  BY <1>4 DEF EnrollStartBody, Return, GridUnderway, EnrollUnderway
<1>5. CASE EnrollStartClosesOld \/ EndClosesGrid \/ EndClosesEnroll
  BY <1>5 DEF EnrollStartClosesOld, EndClosesGrid, EndClosesEnroll, CloseGrid, CloseEnroll,
              GridUnderway, EnrollUnderway
<1>6. CASE EndMark
  BY <1>6 DEF EndMark, Return, spanVars, GridUnderway, EnrollUnderway
<1> QED
  BY <1>0, <1>1, <1>2, <1>3, <1>4, <1>5, <1>6 DEF Continue

\* What the capture task does to spans and to the record of their declarations
LEMMA CaptureDeclares ==
  ASSUME CInv, Elapse \/ CaptureTask
  PROVE  /\ UNCHANGED <<click, console, blind>> /\ fresh \subseteq fresh'
         /\ GridUnderway' => GridUnderway \/ "grid" \in fresh'
         /\ EnrollUnderway' => EnrollUnderway \/ "enroll" \in fresh'
         /\ \/ UNCHANGED queue
            \/ /\ queue # <<>> /\ queue \in Seq(Msg) /\ queue' = Tail(queue)
               /\ click.running /\ queue[1].op = "GridStart" => "grid" \in fresh'
               /\ click.running /\ queue[1].op = "EnrollStart" => "enroll" \in fresh'
<1>1. CASE Elapse
  BY <1>1 DEF Elapse, Pass, spanVars, consoleVars, GridUnderway, EnrollUnderway
<1>2. ASSUME NEW pad \in Detector!Pad, Hit(pad)
      PROVE  /\ UNCHANGED <<click, console, blind, fresh, queue>>
             /\ (GridUnderway' => GridUnderway) /\ (EnrollUnderway' => EnrollUnderway)
  BY <1>2 DEF Hit, OnEvent, Enter, spanVars, consoleVars, GridUnderway, EnrollUnderway
<1>3. CASE Message
  BY <1>3 DEF Message, Turn, OnCtrl, OnRaw, spanVars, consoleVars, GridUnderway, EnrollUnderway
<1>4. CASE TickStep
  BY <1>4 DEF TickStep, Tick, Still, vars, fsmVars, spanVars, consoleVars, GridUnderway,
              EnrollUnderway
<1>5. CASE Proceed
  BY <1>5, ProceedDeclares DEF Proceed, consoleVars
<1>6. CASE Receive
  <2>1. queue # <<>> /\ queue \in Seq(Msg) /\ queue' = Tail(queue)
        /\ UNCHANGED <<click, console, blind>>
    BY <1>6 DEF Receive, consoleVars, CInv, Shared
  <2>2. PICK msg \in Msg : msg = Head(queue) /\ msg = queue[1]
    BY <2>1
  <2>3. msg.op \in Op
    BY DEF Msg
  <2>4. Dispatch(msg.op, msg.ref, NoTrig, gestures)
    BY <1>6, <2>2 DEF Receive
  <2> QED
    BY <2>1, <2>2, <2>3, <2>4, DispatchDeclares
<1>7. CASE Poll
  <2>1. UNCHANGED <<click, console, blind, queue>>
    BY <1>7 DEF Poll, consoleVars
  <2>2. CASE ~ Detector!Closes(gestures, Ms(clock))
    <3>1. Still /\ UNCHANGED fresh
      BY <1>7, <2>2 DEF Poll
    <3> QED
      BY <2>1, <3>1 DEF Still, vars, fsmVars, spanVars, GridUnderway, EnrollUnderway
  <2>3. CASE Detector!Closes(gestures, Ms(clock))
    <3>1. Dispatch(Detector!Meaning(gestures), Anonymous,
                   <<gestures.t0 * UsPerMs, gestures.last * UsPerMs>>, Detector!Reset)
      BY <1>7, <2>3 DEF Poll
    <3>2. Detector!Meaning(gestures) \in Op
      BY Meant
    <3> QED
      BY <2>1, <3>1, <3>2, DispatchDeclares
  <2> QED
    BY <2>2, <2>3
<1> QED
  BY <1>1, <1>2, <1>3, <1>4, <1>5, <1>6, <1>7 DEF CaptureTask

\* The message behind the one that is taken stays.
LEMMA TailKeeps ==
  ASSUME queue \in Seq(Msg), queue # <<>>, queue' = Tail(queue), NEW op, Queued(op),
         queue[1].op # op
  PROVE  Queued(op)'
<1>1. PICK k \in DOMAIN queue : queue[k].op = op
  BY DEF Queued
<1>2. k \in 2..Len(queue)
  BY <1>1
<1>3. k - 1 \in DOMAIN queue' /\ queue'[k - 1] = queue[k]
  BY <1>2
<1> QED
  BY <1>1, <1>3 DEF Queued

LEMMA PostKeeps ==
  ASSUME queue \in Seq(Msg), NEW op \in Op, NEW ref \in Ref, Post(op, ref)
  PROVE  (\A o : Queued(o) => Queued(o)') /\ (Fits => Queued(op)')
<1>1. CASE Fits
  <2>1. queue' = Append(queue, [op |-> op, ref |-> ref])
    BY <1>1 DEF Post
  <2>2. /\ DOMAIN queue \subseteq DOMAIN queue' /\ \A k \in DOMAIN queue : queue'[k] = queue[k]
        /\ Len(queue) + 1 \in DOMAIN queue'
        /\ queue'[Len(queue) + 1] = [op |-> op, ref |-> ref]
    BY <2>1
  <2> QED
    BY <2>2 DEF Queued
<1>2. CASE ~ Fits
  BY <1>2 DEF Post, Queued
<1> QED
  BY <1>1, <1>2

LEMMA FollowsInv == FInv /\ ControlNext => GridFollows' /\ EnrollFollows'
<1> SUFFICES ASSUME FInv, ControlNext PROVE GridFollows' /\ EnrollFollows'
  OBVIOUS
<1>0. CInv /\ GridFollows /\ EnrollFollows /\ queue \in Seq(Msg) /\ console.ref \in Ref
      /\ Anonymous \in Ref
  BY ControlAssumption DEF FInv, CInv, Shared
<1>1. CASE Elapse \/ CaptureTask
  <2>1. CASE UNCHANGED queue
    BY <1>0, <1>1, <2>1, CaptureDeclares DEF GridFollows, EnrollFollows, Queued
  <2>2. CASE /\ queue # <<>> /\ queue' = Tail(queue)
             /\ click.running /\ queue[1].op = "GridStart" => "grid" \in fresh'
             /\ click.running /\ queue[1].op = "EnrollStart" => "enroll" \in fresh'
    <3>1. Queued("GridStart") /\ queue[1].op # "GridStart" => Queued("GridStart")'
      BY <1>0, <2>2, TailKeeps
    <3>2. Queued("EnrollStart") /\ queue[1].op # "EnrollStart" => Queued("EnrollStart")'
      BY <1>0, <2>2, TailKeeps
    <3>3. GridFollows'
      BY <1>0, <1>1, <2>2, <3>1, CaptureDeclares DEF GridFollows
    <3>4. EnrollFollows'
      BY <1>0, <1>1, <2>2, <3>2, CaptureDeclares DEF EnrollFollows
    <3> QED
      BY <3>3, <3>4
  <2> QED
    BY <1>0, <1>1, <2>1, <2>2, CaptureDeclares
<1>2. CASE ConsoleTask
  <2>1. UNCHANGED vars
    BY <1>2 DEF ConsoleTask, Command, ClickStart, ClickBegins, ClickStop, Type, LookGrid, PostGrid,
                LookEnroll, PostEnroll, Still
  <2>2. GridUnderway' = GridUnderway /\ EnrollUnderway' = EnrollUnderway
    BY <2>1 DEF vars, fsmVars, spanVars, GridUnderway, EnrollUnderway
  <2>3. CASE Command
    <3>1. \E op \in Op, ref \in Ref : Post(op, ref)
      BY <1>0, <2>3 DEF Command, Op
    <3>2. \A o : Queued(o) => Queued(o)'
      BY <1>0, <3>1, PostKeeps
    <3>3. UNCHANGED <<click, console, blind, fresh>>
      BY <2>3 DEF Command
    <3> QED
      BY <1>0, <2>2, <3>2, <3>3 DEF GridFollows, EnrollFollows
  <2>4. CASE ClickStart
    <3>1. UNCHANGED <<click, queue, blind, fresh>> /\ console.at = "prompt"
      BY <2>4 DEF ClickStart, Type
    <3>2. \A o : Queued(o)' = Queued(o)
      BY <3>1 DEF Queued
    <3> QED
      BY <1>0, <2>2, <3>1, <3>2 DEF GridFollows, EnrollFollows
  <2>5. CASE ClickBegins
    BY <2>5 DEF ClickBegins, Prompt, GridFollows, EnrollFollows
  <2>6. CASE ClickStop
    BY <2>6 DEF ClickStop, Sched!Silent, GridFollows, EnrollFollows
  <2>7. CASE LookGrid
    <3>1. UNCHANGED <<click, queue, fresh>> /\ console.at = "grid"
          /\ console' = [console EXCEPT !.at = IF grid_open THEN "postGrid" ELSE "enroll"]
          /\ blind' = (blind \/ (~ grid_open /\ Between("GridStart", "grid")))
      BY <2>7 DEF LookGrid
    <3>2. console'.at = IF grid_open THEN "postGrid" ELSE "enroll"
      BY <1>0, <3>1 DEF CInv, Shared
    <3> QED
      BY <2>2, <3>1, <3>2 DEF GridFollows, EnrollFollows, GridUnderway, Between
  <2>8. CASE PostGrid
    <3>1. UNCHANGED <<click, fresh>> /\ console.at = "postGrid" /\ blind' = (blind \/ ~ Fits)
          /\ Post("GridStart", Anonymous)
      BY <2>8 DEF PostGrid
    <3>2. console'.at = "enroll"
      BY <1>0, <2>8 DEF PostGrid, CInv, Shared
    <3>3. Fits => Queued("GridStart")'
      BY <1>0, <3>1, PostKeeps DEF Op
    <3> QED
      BY <3>1, <3>2, <3>3 DEF GridFollows, EnrollFollows
  <2>9. CASE LookEnroll
    <3>1. UNCHANGED <<click, queue, fresh>> /\ console.at = "enroll"
          /\ blind' = (blind \/ (~ enroll_open /\ Between("EnrollStart", "enroll")))
      BY <2>9 DEF LookEnroll
    <3>2. enroll_open => console'.at = "postEnroll"
      BY <2>9 DEF LookEnroll
    <3>3. Queued("GridStart")' = Queued("GridStart")
      BY <3>1 DEF Queued
    <3>4. GridFollows'
      BY <1>0, <2>2, <3>1, <3>3 DEF GridFollows
    <3>5. EnrollFollows'
      BY <2>2, <3>1, <3>2 DEF EnrollFollows, EnrollUnderway, Between
    <3> QED
      BY <3>4, <3>5
  <2>10. CASE PostEnroll
    <3>1. UNCHANGED <<click, fresh>> /\ console.at = "postEnroll" /\ blind' = (blind \/ ~ Fits)
          /\ Post("EnrollStart", console.ref)
      BY <2>10 DEF PostEnroll
    <3>2. /\ Queued("GridStart") => Queued("GridStart")'
          /\ Fits => Queued("EnrollStart")'
      BY <1>0, <3>1, PostKeeps DEF Op
    <3> QED
      BY <1>0, <2>2, <3>1, <3>2 DEF GridFollows, EnrollFollows
  <2> QED
    BY <1>2, <2>3, <2>4, <2>5, <2>6, <2>7, <2>8, <2>9, <2>10 DEF ConsoleTask
<1> QED
  BY <1>1, <1>2 DEF ControlNext

\* An open span is declared on the click that is running, once the console is done and
\* its messages are taken, but in the two cases of which the console cannot know.
THEOREM SnapshotStays == ControlSpec => []SnapshotFresh
<1>1. ControlInit => FInv
  BY InitCInv DEF ControlInit, Sched!Silent, FInv, GridFollows, EnrollFollows
<1>2. FInv /\ [ControlNext]_controlVars => FInv'
  <2>1. CASE ControlNext
    BY <2>1, FollowsInv, NextCInv DEF FInv
  <2>2. CASE UNCHANGED controlVars
    BY <2>2, StutterCInv DEF FInv, GridFollows, EnrollFollows, GridUnderway, EnrollUnderway,
       Queued, controlVars, consoleVars, vars, fsmVars, spanVars
  <2> QED
    BY <2>1, <2>2
<1>3. FInv => SnapshotFresh
  BY DEF FInv, GridFollows, EnrollFollows, GridUnderway, EnrollUnderway, Queued, SnapshotFresh
<1> QED
  BY <1>1, <1>2, <1>3, PTL DEF ControlSpec

-----------------------------------------------------------------------------
(* The anchor is a beat *)

LEMMA QuotientOrder ==
  ASSUME NEW x \in Nat, NEW y \in Nat, x <= y, NEW m \in Nat \ {0}
  PROVE  x \div m <= y \div m
<1>1. PICK p \in Nat : p = x \div m /\ m * p <= x /\ x < m * p + m
  BY Quotient
<1>2. PICK q \in Nat : q = y \div m /\ m * q <= y /\ y < m * q + m
  BY Quotient
<1>3. ASSUME q + 1 <= p PROVE FALSE
  <2>1. m * (q + 1) <= m * p /\ m * (q + 1) = m * q + m /\ m * p \in Nat /\ m * q \in Nat
    BY <1>3, Product
  <2> QED
    BY <1>1, <1>2, <2>1
<1> QED
  BY <1>1, <1>2, <1>3

\* The microseconds from the start of a click to its beat n
Beat(bpm, n) == (n * BeatUnit + bpm \div 2) \div bpm

LEMMA BeatOrder ==
  ASSUME NEW bpm \in Nat \ {0}, NEW i \in Nat, NEW j \in Nat, i <= j
  PROVE  Beat(bpm, i) \in Nat /\ Beat(bpm, j) \in Nat /\ Beat(bpm, i) <= Beat(bpm, j)
<1>0. BeatUnit \in Nat
  BY ControlAssumption
<1>1. PICK h \in Nat : h = bpm \div 2
  BY Quotient
<1>2. i * BeatUnit <= j * BeatUnit /\ i * BeatUnit \in Nat /\ j * BeatUnit \in Nat
  <2>1. CASE BeatUnit = 0
    BY <2>1
  <2>2. CASE BeatUnit # 0
    <3>1. BeatUnit * i <= BeatUnit * j
      BY <1>0, <2>2, Product
    <3>2. BeatUnit * i = i * BeatUnit /\ BeatUnit * j = j * BeatUnit
          /\ i * BeatUnit \in Nat /\ j * BeatUnit \in Nat
      BY <1>0
    <3> QED
      BY <3>1, <3>2
  <2> QED
    BY <2>1, <2>2
<1>3. i * BeatUnit + h \in Nat /\ j * BeatUnit + h \in Nat
      /\ i * BeatUnit + h <= j * BeatUnit + h
  BY <1>1, <1>2
<1> QED
  BY <1>1, <1>3, QuotientOrder, Quotient DEF Beat

\* The number rounded up is at most one more than that of a beat not before e.
LEMMA OneBeatSkipped ==
  ASSUME NEW bpm \in 1..BeatUnit, NEW e \in Nat, NEW i \in Nat, e <= Beat(bpm, i)
  PROVE  (e * bpm + BeatUnit - 1) \div BeatUnit <= i + 1
<1>0. BeatUnit \in Nat \ {0} /\ bpm \in Nat \ {0}
  BY ControlAssumption
<1>1. PICK h \in Nat : h = bpm \div 2 /\ 2 * h <= bpm
  BY <1>0, Quotient
<1>2. PICK iu \in Nat : iu = i * BeatUnit /\ iu = BeatUnit * i
  BY <1>0
<1>3. PICK q \in Nat : q = Beat(bpm, i) /\ bpm * q <= iu + h
  BY <1>0, <1>1, <1>2, Quotient DEF Beat
<1>4. PICK eb \in Nat : eb = e * bpm /\ eb = bpm * e
  BY <1>0
<1>5. eb <= iu + h
  <2>1. bpm * e <= bpm * q /\ bpm * q \in Nat
    BY <1>0, <1>3, Product
  <2> QED
    BY <1>3, <1>4, <2>1
<1>6. PICK n \in Nat : /\ n = (eb + BeatUnit - 1) \div BeatUnit
                       /\ BeatUnit * n <= eb + BeatUnit - 1
  <2>1. eb + BeatUnit - 1 \in Nat
    BY <1>0
  <2> QED
    BY <1>0, <2>1, Quotient
<1>7. ASSUME i + 2 <= n PROVE FALSE
  <2>1. BeatUnit * (i + 2) <= BeatUnit * n /\ BeatUnit * n \in Nat
    BY <1>0, <1>7, Product
  <2>2. BeatUnit * (i + 2) = iu + BeatUnit + BeatUnit
    BY <1>0, <1>2
  <2>3. BeatUnit + BeatUnit <= h + BeatUnit - 1
    BY <1>0, <1>5, <1>6, <2>1, <2>2
  <2>4. h <= BeatUnit
    BY <1>0, <1>1
  <2> QED
    BY <1>0, <1>1, <2>3, <2>4
<1> QED
  BY <1>4, <1>6, <1>7

\* The dispatcher's snapshot, in the words of DownbeatInPlace
LEMMA SnapshotInPlace ==
  ASSUME Shared, clock \in 0..MaxUs, click.running,
         NEW edge, edge = Sched!NextEdgeAtOrAfter(click, clock)
  PROVE  LET beats == {Sched!BeatUs(click, n) : n \in 0..(MaxUs + 1) * click.bpm}
         IN  /\ edge \in beats /\ clock <= edge
             /\ \A x, y \in beats : clock <= x /\ x < y => edge <= y
<1> DEFINE start == click.start
           bpm == click.bpm
           last == (MaxUs + 1) * bpm
           beats == {Sched!BeatUs(click, n) : n \in 0..last}
<1>0. /\ BeatUnit \in Nat \ {0} /\ bpm \in 1..BeatUnit /\ bpm \in Nat \ {0}
      /\ start \in Nat /\ MaxUs \in Nat /\ clock \in Nat /\ last \in Nat
  <2>1. bpm \in 1..BeatUnit /\ start \in Nat /\ MaxUs \in Nat /\ BeatUnit \in Nat
    BY StreamAssumption, ControlAssumption DEF Shared, Clicks, Startable
  <2> QED
    BY <2>1
<1>1. \A n : Sched!BeatUs(click, n) = start + Beat(bpm, n)
  BY DEF Sched!BeatUs, Beat
<1>2. ASSUME NEW n \in Nat PROVE Beat(bpm, n) \in Nat
  <2>1. n <= n
    OBVIOUS
  <2> QED
    BY <1>0, <2>1, BeatOrder
<1>3. PICK k \in 0..last :
        /\ edge = start + Beat(bpm, k) /\ clock <= edge
        /\ \A i \in Nat : clock <= start + Beat(bpm, i) => k <= i + 1
  <2>1. CASE clock <= start
    <3>1. Beat(bpm, 0) = 0
      <4>1. PICK h \in Nat : h = bpm \div 2 /\ 2 * h <= bpm
        BY <1>0, Quotient
      <4>2. PICK q \in Nat : q = h \div bpm /\ bpm * q <= h
        BY <1>0, <4>1, Quotient
      <4>3. q # 0 => bpm * 1 <= bpm * q
        BY <1>0, <4>2, Product
      <4>4. q = 0
        <5> HIDE DEF bpm
        <5> QED
          BY <1>0, <4>1, <4>2, <4>3
      <4>5. 0 * BeatUnit + bpm \div 2 = h
        BY <1>0, <4>1
      <4> QED
        BY <4>2, <4>4, <4>5 DEF Beat
    <3>2. edge = start
      BY <2>1 DEF Sched!NextEdgeAtOrAfter
    <3>3. 0 \in 0..last /\ edge = start + Beat(bpm, 0) /\ \A i \in Nat : 0 <= i + 1
      BY <1>0, <3>1, <3>2
    <3> QED
      BY <2>1, <3>2, <3>3
  <2>2. CASE ~ (clock <= start)
    <3>1. PICK e \in Nat : e = clock - start /\ e <= MaxUs
      BY <1>0, <2>2
    <3>2. PICK n : n = (e * bpm + BeatUnit - 1) \div BeatUnit
      OBVIOUS
    <3>3. n \in Nat /\ n <= last
      <4> HIDE DEF bpm, last
      <4>1. PICK eb \in Nat : eb = e * bpm
        BY <1>0
      <4>2. eb <= last
        <5>1. bpm * e <= bpm * (MaxUs + 1)
          BY <1>0, <3>1, Product
        <5>2. bpm * e = eb /\ bpm * (MaxUs + 1) = last
          BY <1>0, <3>1, <4>1 DEF last
        <5> QED
          BY <5>1, <5>2
      <4>3. eb + BeatUnit - 1 \in Nat
        BY <1>0, <4>1
      <4>4. n \in Nat /\ BeatUnit * n <= eb + BeatUnit - 1
        BY <1>0, <3>2, <4>1, <4>3, Quotient
      <4>5. ASSUME eb + 1 <= n PROVE FALSE
        <5>1. BeatUnit * (eb + 1) <= BeatUnit * n /\ BeatUnit * n \in Nat
          BY <1>0, <4>1, <4>4, <4>5, Product
        <5>2. BeatUnit * (eb + 1) = BeatUnit * eb + BeatUnit
          BY <1>0, <4>1
        <5>3. 1 * eb <= BeatUnit * eb /\ BeatUnit * eb \in Nat
          <6>1. CASE eb = 0
            BY <1>0, <6>1
          <6>2. CASE eb # 0
            <7>1. eb * 1 <= eb * BeatUnit
              BY <1>0, <4>1, <6>2, Product
            <7> QED
              BY <1>0, <4>1, <7>1
          <6> QED
            BY <6>1, <6>2
        <5> QED
          BY <1>0, <4>1, <4>4, <5>1, <5>2, <5>3
      <4> QED
        BY <1>0, <4>1, <4>2, <4>4, <4>5
    <3>4. edge = start + Beat(bpm, n)
      <4>1. edge = Sched!BeatUs(click, n)
        BY <2>2, <3>1, <3>2 DEF Sched!NextEdgeAtOrAfter
      <4> QED
        BY <1>1, <4>1
    <3>5. e <= Beat(bpm, n) /\ Beat(bpm, n) \in Nat
      BY <1>0, <3>2, EdgeBounds DEF Beat
    <3>6. clock <= edge
      <4> HIDE DEF start
      <4> QED
        BY <1>0, <3>1, <3>4, <3>5
    <3>7. ASSUME NEW i \in Nat, clock <= start + Beat(bpm, i) PROVE n <= i + 1
      <4>1. e <= Beat(bpm, i)
        <5> HIDE DEF start
        <5> QED
          BY <1>0, <1>2, <3>1, <3>7
      <4> QED
        BY <1>0, <3>2, <4>1, OneBeatSkipped
    <3>8. n \in 0..last
      BY <1>0, <3>3
    <3> QED
      BY <3>4, <3>6, <3>7, <3>8
  <2> QED
    BY <2>1, <2>2
<1>4. edge \in beats
  BY <1>1, <1>3
<1>5. ASSUME NEW x \in beats, NEW y \in beats, clock <= x, x < y PROVE edge <= y
  <2>1. PICK i \in 0..last : x = start + Beat(bpm, i)
    BY <1>1
  <2>2. PICK j \in 0..last : y = start + Beat(bpm, j)
    BY <1>1
  <2>3. i \in Nat /\ j \in Nat /\ k \in Nat
    BY <1>0, <1>3
  <2>4. k <= i + 1
    BY <1>3, <1>5, <2>1, <2>3
  <2>5. i < j
    <3>1. ASSUME j <= i PROVE FALSE
      <4>1. Beat(bpm, j) <= Beat(bpm, i)
        BY <1>0, <2>3, <3>1, BeatOrder
      <4> HIDE DEF start
      <4> QED
        BY <1>0, <1>2, <1>5, <2>1, <2>2, <2>3, <4>1
    <3> QED
      BY <2>3, <3>1
  <2>6. Beat(bpm, k) <= Beat(bpm, j)
    <3>1. k <= j
      BY <2>3, <2>4, <2>5
    <3> QED
      BY <1>0, <2>3, <3>1, BeatOrder
  <2> HIDE DEF start
  <2> QED
    BY <1>0, <1>2, <1>3, <2>2, <2>3, <2>6
<1> QED
  BY <1>3, <1>4, <1>5

\* Where a declaration begins, it takes the running click as it is.
LEMMA DispatchSnapshots ==
  ASSUME NEW op \in Op, NEW ref, NEW trig, NEW heard, Dispatch(op, ref, trig, heard),
         call.op = "None", call'.op \in {"GridStart", "EnrollStart"}
  PROVE  /\ click.running /\ call'.click = click.bpm
         /\ call'.downbeat = Sched!NextEdgeAtOrAfter(click, clock)
<1>1. ~ Still
  BY DEF Still, vars, fsmVars
<1>2. ~ EndGrid(trig) /\ ~ EndEnroll(trig)
  BY <1>1 DEF EndGrid, GridEnd, EndEnroll, EnrollEnd
<1>3. ~ Bookmark(clock, trig) /\ ~ EndSession(clock)
  BY DEF Bookmark, Enter, EndSession
<1>4. ASSUME StartGrid(trig) \/ \E r : StartEnroll(r, trig)
      PROVE  /\ click.running /\ call'.click = click.bpm
             /\ call'.downbeat = Sched!NextEdgeAtOrAfter(click, clock)
  BY <1>1, <1>4 DEF StartGrid, GridStart, StartEnroll, EnrollStart, Enter
<1>5. op \notin {"Bookmark", "EndSession", "None"}
  BY <1>1, <1>3 DEF Dispatch
<1>6. CASE op \in {"GridStart", "GridEnd", "GridToggle"}
  BY <1>2, <1>4, <1>6 DEF Dispatch
<1>7. CASE op \in {"EnrollStart", "EnrollEnd", "EnrollToggle"}
  BY <1>2, <1>4, <1>7 DEF Dispatch
<1> QED
  BY <1>5, <1>6, <1>7 DEF Op

LEMMA DeclarationStep ==
  ASSUME CInv, ControlNext, call.op = "None", call'.op \in {"GridStart", "EnrollStart"}
  PROVE  /\ click.running /\ call'.click = click.bpm
         /\ call'.downbeat = Sched!NextEdgeAtOrAfter(click, clock)
<1>1. UNCHANGED call => FALSE
  OBVIOUS
<1>2. CASE Elapse
  BY <1>1, <1>2 DEF Elapse, Pass
<1>3. ASSUME NEW pad \in Detector!Pad, Hit(pad) PROVE FALSE
  BY <1>3 DEF Hit, OnEvent, Enter
<1>4. CASE Message
  BY <1>1, <1>4 DEF Message, Turn, OnCtrl, OnRaw
<1>5. CASE TickStep
  BY <1>1, <1>5 DEF TickStep, Tick, Still, vars, fsmVars
<1>6. CASE Proceed
  <2>1. UNCHANGED call \/ call' = NoCall
    BY <1>6 DEF Proceed, Continue, EnsureSession, FlushOne, FlushDone, EventBody,
                BookmarkBody, GridStartBody, EnrollStartClosesOld, EnrollStartBody,
                EndClosesGrid, EndClosesEnroll, EndMark, Return
  <2> QED
    BY <1>1, <2>1 DEF NoCall
<1>7. CASE Receive
  <2>1. queue # <<>> /\ queue \in Seq(Msg)
    BY <1>7 DEF Receive, CInv, Shared
  <2>2. PICK msg \in Msg : msg = Head(queue)
    BY <2>1
  <2>3. msg.op \in Op
    BY DEF Msg
  <2>4. Dispatch(msg.op, msg.ref, NoTrig, gestures)
    BY <1>7, <2>2 DEF Receive
  <2> QED
    BY <2>3, <2>4, DispatchSnapshots
<1>8. CASE Poll
  <2>1. CASE ~ Detector!Closes(gestures, Ms(clock))
    BY <1>1, <1>8, <2>1 DEF Poll, Still, vars, fsmVars
  <2>2. CASE Detector!Closes(gestures, Ms(clock))
    <3>1. Dispatch(Detector!Meaning(gestures), Anonymous,
                   <<gestures.t0 * UsPerMs, gestures.last * UsPerMs>>, Detector!Reset)
      BY <1>8, <2>2 DEF Poll
    <3>2. Detector!Meaning(gestures) \in Op
      BY Meant
    <3> QED
      BY <3>1, <3>2, DispatchSnapshots
  <2> QED
    BY <2>1, <2>2
<1>9. CASE ConsoleTask
  BY <1>1, <1>9 DEF ConsoleTask, Command, ClickStart, ClickBegins, ClickStop, Type, LookGrid, PostGrid,
                    LookEnroll, PostEnroll, Still, vars, fsmVars
<1> QED
  BY <1>2, <1>3, <1>4, <1>5, <1>6, <1>7, <1>8, <1>9 DEF ControlNext, CaptureTask

\* For every tempo the console takes: a declaration's anchor is a beat of its click, not
\* past, and at most the second one ahead.
THEOREM AnchorStays == ControlSpec => DownbeatInPlace
<1> DEFINE InPlace ==
      call.op = "None" /\ call'.op \in {"GridStart", "EnrollStart"} =>
        LET beats == {Sched!BeatUs(click, n) : n \in 0..(MaxUs + 1) * click.bpm}
        IN  /\ call'.click = click.bpm
            /\ call'.downbeat \in beats /\ clock <= call'.downbeat
            /\ \A x, y \in beats : clock <= x /\ x < y => call'.downbeat <= y
<1>1. CInv /\ ControlNext => InPlace
  <2> SUFFICES ASSUME CInv, ControlNext, call.op = "None",
                      call'.op \in {"GridStart", "EnrollStart"}
               PROVE  InPlace
    OBVIOUS
  <2>1. Shared /\ clock \in 0..MaxUs
    BY DEF CInv, IInv, Types
  <2>2. /\ click.running /\ call'.click = click.bpm
        /\ call'.downbeat = Sched!NextEdgeAtOrAfter(click, clock)
    BY DeclarationStep
  <2> QED
    BY <2>1, <2>2, SnapshotInPlace
<1>2. CInv /\ UNCHANGED controlVars => InPlace
  BY DEF controlVars, vars, fsmVars
<1>3. CInv /\ [ControlNext]_controlVars => [InPlace]_controlVars
  BY <1>1, <1>2
<1> QED
  BY <1>3, ControlInvariance, PTL DEF ControlSpec, DownbeatInPlace

=============================================================================
