------------------------------ MODULE Grading ------------------------------
(***************************************************************************)
(* From a session log to numbers: reduce_session (engine/session.py) reads *)
(* the records one at a time, and the analyzers (engine/analysis.py,       *)
(* engine/analyzers/) look at what it has made of them.  Whatever has been *)
(* read may be the whole log, so the properties below are about every      *)
(* prefix, crash-recovered logs included.                                  *)
(*                                                                         *)
(* A mean or a deviation is what it is taken over: a set of hits.  Hits    *)
(* are known by their place among the events.                              *)
(***************************************************************************)
EXTENDS Grid, FiniteSets, SequencesExt

CONSTANTS
  MaxTime,      \* bound: stamps
  MaxHits,      \* bound: hits in a log
  MaxDecls,     \* bound: other records in a log
  Grids,        \* the declarable grids: [tick, lead], lead from start to downbeat
  Notes,        \* pads
  Lane,         \* the kit profile: a lane for some of the notes
  Calibrations  \* values of calibration_offset_ms, in units

\* What records.py requires of a grid_start: bpm and subdiv, hence the tick, above 0
ASSUME GradingAssumption ==
  /\ MaxTime \in Nat
  /\ Grids \subseteq [tick : Nat \ {0}, lead : Int]
  /\ Calibrations \subseteq Int

VARIABLES
  now,         \* the stamp of the last record
  decls,       \* records that are not hits, so far
  declared,    \* history: the stamps of grid_start and grid_end
  events,      \* Session.events, with the grid that was open before each
  grid_track, enrollment_spans, trigger_spans, end_t,  \* as in Session
  open_grid, open_enroll,  \* the declaration of the open span, or None
  cal          \* meta's calibration

vars == <<now, decls, declared, events, grid_track, enrollment_spans, trigger_spans, end_t,
          open_grid, open_enroll, cal>>

None == [t |-> -1, tick |-> 0, downbeat |-> 0]
Span(open, end) == [start |-> open.t, end |-> end, tick |-> open.tick, downbeat |-> open.downbeat]
Larger(a, b) == IF a > b THEN a ELSE b

Init ==
  /\ now = 0 /\ decls = 0 /\ declared = {} /\ events = <<>> /\ grid_track = <<>> /\ enrollment_spans = <<>>
  /\ trigger_spans = {} /\ end_t = -1
  /\ open_grid = None /\ open_enroll = None
  /\ cal \in Calibrations

-----------------------------------------------------------------------------
(* reduce_session: one action for each type of record *)

\* The next record but hits of a log whose producer's clock is monotonic.  A
\* declaration made by a gesture names the span of the hits that made it.
Reads(t, span) ==
  /\ decls < MaxDecls /\ decls' = decls + 1
  /\ now' = t /\ trigger_spans' = trigger_spans \cup span

ReadEvent(t, note) ==
  /\ Len(events) < MaxHits /\ now' = t
  /\ events' = Append(events, [t |-> t, note |-> note, grid |-> open_grid])
  /\ UNCHANGED <<decls, declared, grid_track, enrollment_spans, trigger_spans, end_t,
                 open_grid, open_enroll, cal>>

\* mutant: the new parameters take hold of the open span from its beginning
ReadGridStartLate(t, span, g) ==
  /\ Reads(t, span) /\ declared' = declared \cup {t}
  /\ open_grid' = [t |-> IF open_grid = None THEN t ELSE open_grid.t,
                   tick |-> g.tick, downbeat |-> t + g.lead]
  /\ UNCHANGED <<events, grid_track, enrollment_spans, end_t, open_enroll, cal>>

\* A grid_start in an open span ends it: the param-change rule
ReadGridStart(t, span, g) ==
  /\ Reads(t, span) /\ declared' = declared \cup {t}
  /\ grid_track' = IF open_grid = None THEN grid_track
                   ELSE Append(grid_track, Span(open_grid, t))
  /\ open_grid' = [t |-> t, tick |-> g.tick, downbeat |-> t + g.lead]
  /\ UNCHANGED <<events, enrollment_spans, end_t, open_enroll, cal>>

ReadGridEnd(t, span) ==
  /\ Reads(t, span) /\ declared' = declared \cup {t}
  /\ grid_track' = IF open_grid = None THEN grid_track
                   ELSE Append(grid_track, Span(open_grid, Larger(t, open_grid.t)))
  /\ open_grid' = None
  /\ UNCHANGED <<events, enrollment_spans, end_t, open_enroll, cal>>

ReadEnrollStart(t, span, g) ==
  /\ Reads(t, span) /\ UNCHANGED declared
  /\ enrollment_spans' = IF open_enroll = None THEN enrollment_spans
                         ELSE Append(enrollment_spans, Span(open_enroll, t))
  /\ open_enroll' = [t |-> t, tick |-> g.tick, downbeat |-> t + g.lead]
  /\ UNCHANGED <<events, grid_track, end_t, open_grid, cal>>

ReadEnrollEnd(t, span) ==
  /\ Reads(t, span) /\ UNCHANGED declared
  /\ enrollment_spans' = IF open_enroll = None THEN enrollment_spans
                         ELSE Append(enrollment_spans, Span(open_enroll, Larger(t, open_enroll.t)))
  /\ open_enroll' = None
  /\ UNCHANGED <<events, grid_track, end_t, open_grid, cal>>

ReadBookmark(t, span) ==
  /\ Reads(t, span) /\ UNCHANGED declared
  /\ UNCHANGED <<events, grid_track, enrollment_spans, end_t, open_grid, open_enroll, cal>>

ReadSessionEnd(t) ==
  /\ Reads(t, {}) /\ UNCHANGED declared
  /\ end_t' = t
  /\ UNCHANGED <<events, grid_track, enrollment_spans, open_grid, open_enroll, cal>>

\* The chord behind a gesture: the stamps of the last two hits
Chord ==
  IF Len(events) < 2 THEN {}
  ELSE {<<events[Len(events) - 1].t, events[Len(events)].t>>}

ReadDeclaration(t) ==
  \/ \E span \in {{}, Chord} :
       \/ \E g \in Grids : ReadGridStart(t, span, g) \/ ReadEnrollStart(t, span, g)
       \/ ReadGridEnd(t, span) \/ ReadEnrollEnd(t, span) \/ ReadBookmark(t, span)
  \/ ReadSessionEnd(t)

Next == \E t \in now..MaxTime : (\E n \in Notes : ReadEvent(t, n)) \/ ReadDeclaration(t)

Spec == Init /\ [][Next]_vars

-----------------------------------------------------------------------------
(* What the end of the log makes of it *)

\* mutant: the last event of the session, whether it is in the span or not
LastEventInAny(start) == IF events = <<>> THEN start ELSE events[Len(events)].t

\* _last_event_t_in: where a span that nobody ended is closed
LastEventIn(start) ==
  LET ts == {events[i].t : i \in {j \in DOMAIN events : events[j].t >= start}}
  IN  IF ts = {} THEN start ELSE events[Len(events)].t

Track ==
  IF open_grid = None THEN grid_track
  ELSE Append(grid_track, Span(open_grid, LastEventIn(open_grid.t)))
Enrolled ==
  IF open_enroll = None THEN enrollment_spans
  ELSE Append(enrollment_spans, Span(open_enroll, LastEventIn(open_enroll.t)))

\* mutant: the hit that completes a gesture is not part of it
ExcludedHalfOpen(i) == \E s \in trigger_spans : s[1] <= events[i].t /\ events[i].t < s[2]

\* build_inputs: a hit inside a gesture's span is excluded
Excluded(i) == \E s \in trigger_spans : s[1] <= events[i].t /\ events[i].t <= s[2]

\* normalize_event: a note that the profile does not know has a lane all the same
LaneOf(i) == IF events[i].note \in DOMAIN Lane THEN Lane[events[i].note] ELSE "UNMAPPED"

-----------------------------------------------------------------------------
(* The analyzers *)

\* timing.deviations: which segment each hit is a row of, and its place on the grid
Segments == LET track == Track IN [i \in DOMAIN events |-> SegmentFor(events[i].t, track)]
DeviationOf(i) ==
  LET seg == Track[SegmentFor(events[i].t, Track)]
  IN  Deviation(events[i].t - cal, seg.tick, seg.downbeat)

\* _grouped: what timing.rush_drag and timing.consistency compress, by scope: each
\* segment, each note and each lane in it, and the segments of one grid together
Groups ==
  LET track == Track
      seg == Segments
      included == {i \in DOMAIN events : seg[i] # 0 /\ ~ Excluded(i)}
      By(key(_), hits) == {{j \in hits : key(j) = key(i)} : i \in hits}
      Segment(i) == seg[i]
      NoteIn(i) == <<seg[i], events[i].note>>
      LaneIn(i) == <<seg[i], LaneOf(i)>>
      GridOf(i) == track[seg[i]].tick
  IN  [span |-> By(Segment, included), note |-> By(NoteIn, included),
       lane |-> By(LaneIn, included), grid |-> By(GridOf, included)]

\* mutant: an excluded hit does not keep its neighbours from being paired
PairBridging(acc, i) ==
  IF Excluded(i) THEN acc
  ELSE [rows |-> IF acc.prev = 0 THEN acc.rows ELSE acc.rows \cup {<<acc.prev, i>>},
        dropped |-> acc.dropped, prev |-> i, barrier |-> FALSE]

\* ioi._pairs_in: the loop, over the hits of a stream
Pair(acc, i) ==
  IF Excluded(i) THEN [acc EXCEPT !.barrier = acc.prev # 0]
  ELSE [rows |-> IF acc.prev # 0 /\ ~ acc.barrier
                   THEN acc.rows \cup {<<acc.prev, i>>} ELSE acc.rows,
        dropped |-> acc.dropped + (IF acc.prev # 0 /\ acc.barrier THEN 1 ELSE 0),
        prev |-> i, barrier |-> FALSE]
NoPair == [rows |-> {}, dropped |-> 0, prev |-> 0, barrier |-> FALSE]
Pairs(stream) ==
  LET upto[i \in 0..Len(events)] ==
        IF i = 0 THEN NoPair
        ELSE IF i \in stream THEN Pair(upto[i - 1], i) ELSE upto[i - 1]
  IN  upto[Len(events)]

\* ioi._pairs: the session's hits, and each note's
Streams ==
  {DOMAIN events} \cup
    {{i \in DOMAIN events : events[i].note = n} : n \in {events[i].note : i \in DOMAIN events}}

\* velocity.observations with per_note and per_lane, which group its rows
Observed == {i \in DOMAIN events : ~ Excluded(i)}
PerNote == {{i \in Observed : events[i].note = n} : n \in {events[i].note : i \in Observed}}
PerLane == {{i \in Observed : LaneOf(i) = l} : l \in {LaneOf(i) : i \in Observed}}

\* density.hits_per_minute: hits over a duration; no rate without one
Duration == IF end_t >= 0 THEN end_t ELSE IF events = <<>> THEN 0 ELSE events[Len(events)].t
Density == IF Duration > 0 THEN <<Cardinality(Observed), Duration>> ELSE <<>>

-----------------------------------------------------------------------------
TypeOK ==
  /\ \A seg \in Range(Track) \cup Range(Enrolled) :
       {seg.start, seg.end} \subseteq 0..MaxTime /\ seg.tick > 0
  /\ \A i \in DOMAIN events : events[i].t \in 0..MaxTime
  /\ open_grid.t \in -1..MaxTime /\ open_enroll.t \in -1..MaxTime

\* A hit is graded against the grid that was in force when it was recorded, the
\* crash-recovered end of a log included, or not at all if there was none; a
\* declaration in the same millisecond may claim it too.
GradedByTheGridInForce ==
  LET track == Track IN
  \A i \in DOMAIN events :
    LET k == SegmentFor(events[i].t, track)
        g == events[i].grid
    IN  events[i].t \notin declared =>
          IF g = None THEN k = 0
          ELSE k # 0 /\ track[k] = [Span(g, 0) EXCEPT !.end = track[k].end]

\* Spans of a monotonic log never run backwards and overlap at most in a boundary.
SpansInOrder ==
  \A spans \in {Track, Enrolled} : \A i, j \in DOMAIN spans :
    /\ spans[i].start <= spans[i].end
    /\ i < j => spans[i].end <= spans[j].start

\* The line a hit is graded against is the nearest of all, the earlier of two, and
\* one of the lines that gridlines_in draws around it.
NearestOfAll ==
  \A i \in DOMAIN events :
    LET k == SegmentFor(events[i].t, Track)
        t == events[i].t - cal
        seg == Track[k]
        line == t - DeviationOf(i)
        drawn == LinesIn(t - seg.tick, t + seg.tick + 1, seg.tick, seg.downbeat)
        Off(l) == IF t < l THEN l - t ELSE t - l
    IN  k # 0 =>
          /\ line \in drawn
          /\ \A l \in drawn : Off(l) > Off(line) \/ (Off(l) = Off(line) /\ l >= line)

\* An interval is between two strokes with nothing of their stream in between, not
\* even a hit that belongs to a gesture; those given up for that are counted.
PairsAreStrokes ==
  \A stream \in Streams :
    LET pairs == Pairs(stream)
        Kept == {i \in stream : ~ Excluded(i)}
        Neighbours(p, q) == p < q /\ \A r \in stream : ~ (p < r /\ r < q)
    IN  /\ pairs.rows = {s \in Kept \X Kept : Neighbours(s[1], s[2])}
        /\ pairs.dropped + Cardinality(pairs.rows) = Larger(Cardinality(Kept) - 1, 0)

\* Each hit that no gesture claims is in the session's counts once, under its note
\* and its lane once, and if it is graded once in each grouping of the grid metrics;
\* a gesture's hits are in none of them, on whatever side of the declaration they lie,
\* and not in the rate either.
HitsCountOnce ==
  LET groups == Groups
      seg == Segments
      In(gs, i) == Cardinality({g \in gs : i \in g})
      ByGesture(i) == \E s \in trigger_spans : s[1] <= events[i].t /\ events[i].t <= s[2]
  IN  /\ Density # <<>> =>
           Density[1] = Cardinality({i \in DOMAIN events : ~ ByGesture(i)})
      /\ \A i \in DOMAIN events :
        LET once == IF ByGesture(i) THEN 0 ELSE 1
        IN  /\ In(PerNote, i) = once /\ In(PerLane, i) = once
            /\ \A kind \in DOMAIN groups :
                 In(groups[kind], i) = IF seg[i] = 0 THEN 0 ELSE once
=============================================================================
