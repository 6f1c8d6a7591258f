--------------------------- MODULE GradingProofs ---------------------------
(***************************************************************************)
(* Proofs about Grading, for logs of any length, any grids, any kit and    *)
(* any calibration.                                                        *)
(***************************************************************************)
EXTENDS Grading, FiniteSetTheorems, WellFoundedInduction, TLAPS

-----------------------------------------------------------------------------
(* The lattice *)

\* Ceil is the least integer whose multiple of b reaches a.
LEMMA CeilBounds ==
  ASSUME NEW a \in Int, NEW b \in Nat \ {0}
  PROVE  /\ Ceil(a, b) \in Int
         /\ b * Ceil(a, b) >= a
         /\ b * (Ceil(a, b) - 1) < a
<1> DEFINE q == (-a) \div b
<1>1. -a \in Int /\ b \in Int /\ b > 0
  OBVIOUS
<1>2. ASSUME NEW x \in Int, NEW y \in Int, y > 0
      PROVE  x \div y \in Int /\ y * (x \div y) <= x /\ x < y * (x \div y + 1)
  BY <1>2
<1>3. q \in Int /\ b * q <= -a /\ -a < b * (q + 1)
  BY <1>1, <1>2
<1>4. PICK c \in Int : c = q
  BY <1>3
<1>5. b * (-c) = -(b * c) /\ b * (-c - 1) = -(b * (c + 1))
  BY <1>1
<1>6. b * c \in Int /\ b * (c + 1) \in Int
  BY <1>1
<1>7. b * (-c) >= a /\ b * (-c - 1) < a
  BY <1>3, <1>4, <1>5, <1>6
<1> QED
  BY <1>4, <1>7 DEF Ceil

\* A product with a positive factor grows by at least that factor.
LEMMA StepUp ==
  ASSUME NEW m \in Nat \ {0}, NEW i \in Int, NEW j \in Int, i < j
  PROVE  m * i + m <= m * j
<1>1. PICK d \in Nat : j = i + 1 + d
  <2>1. j - i - 1 \in Nat /\ j = i + 1 + (j - i - 1)
    OBVIOUS
  <2> QED
    BY <2>1
<1>2. m * j = m * i + m + m * d
  BY <1>1
<1>3. m * d \in Nat /\ m * i \in Int
  OBVIOUS
<1> QED
  BY <1>2, <1>3

\* The deviation from the line that nearest_gridline gives is in (-tick/2, tick/2].
LEMMA DeviationHalf ==
  ASSUME NEW t \in Int, NEW tick \in Nat \ {0}, NEW downbeat \in Int
  PROVE  /\ NearestIndex(t, tick, downbeat) \in Int
         /\ Deviation(t, tick, downbeat) \in Int
         /\ 2 * Deviation(t, tick, downbeat) <= tick
         /\ 2 * Deviation(t, tick, downbeat) > -tick
<1>1. 2 * (t - downbeat) - tick \in Int /\ 2 * tick \in Nat \ {0}
  OBVIOUS
<1>2. PICK k \in Int : k = NearestIndex(t, tick, downbeat)
  BY <1>1, CeilBounds DEF NearestIndex
<1>3. /\ (2 * tick) * k >= 2 * (t - downbeat) - tick
      /\ (2 * tick) * (k - 1) < 2 * (t - downbeat) - tick
  BY <1>1, <1>2, CeilBounds DEF NearestIndex
<1>4. PICK p \in Int : p = k * tick
  OBVIOUS
<1>5. (2 * tick) * k = 2 * p /\ (2 * tick) * (k - 1) = 2 * p - 2 * tick
  BY <1>4
<1>6. Deviation(t, tick, downbeat) = t - (downbeat + p)
  BY <1>2, <1>4 DEF Deviation, Line
<1> QED
  BY <1>2, <1>3, <1>5, <1>6

\* The line of nearest_gridline is the nearest of all, the earlier of two.
LEMMA NearestLine ==
  ASSUME NEW t \in Int, NEW tick \in Nat \ {0}, NEW downbeat \in Int, NEW j \in Int
  PROVE  LET line == t - Deviation(t, tick, downbeat)
             l == Line(j, tick, downbeat)
             Off(x) == IF t < x THEN x - t ELSE t - x
         IN  Off(l) > Off(line) \/ (Off(l) = Off(line) /\ l >= line)
<1>1. PICK d \in Int : d = Deviation(t, tick, downbeat) /\ 2 * d <= tick /\ 2 * d > -tick
  BY DeviationHalf
<1>2. PICK k \in Int : k = NearestIndex(t, tick, downbeat)
  BY DeviationHalf
<1>3. PICK p \in Int : p = tick * k
  OBVIOUS
<1>4. PICK r \in Int : r = tick * j
  OBVIOUS
<1>5. t - d = downbeat + p
  BY <1>1, <1>2, <1>3 DEF Deviation, Line
<1>6. Line(j, tick, downbeat) = downbeat + r
  BY <1>4 DEF Line
<1>7. j < k => r + tick <= p
  BY <1>3, <1>4, StepUp
<1>8. k < j => p + tick <= r
  BY <1>3, <1>4, StepUp
<1>9. j = k => r = p
  BY <1>3, <1>4
<1>10. CASE j < k
  BY <1>1, <1>5, <1>6, <1>7, <1>10
<1>11. CASE k < j
  BY <1>1, <1>5, <1>6, <1>8, <1>11
<1>12. CASE j = k
  BY <1>1, <1>5, <1>6, <1>9, <1>12
<1> QED
  BY <1>10, <1>11, <1>12

\* The line of nearest_gridline is among the lines drawn a tick to both sides of t,
\* and all that are drawn there are lines.
LEMMA NearestDrawn ==
  ASSUME NEW t \in Int, NEW tick \in Nat \ {0}, NEW downbeat \in Int
  PROVE  /\ t - Deviation(t, tick, downbeat) \in LinesIn(t - tick, t + tick + 1, tick, downbeat)
         /\ \A l \in LinesIn(t - tick, t + tick + 1, tick, downbeat) :
              \E j \in Int : l = Line(j, tick, downbeat)
<1>1. PICK d \in Int : d = Deviation(t, tick, downbeat) /\ 2 * d <= tick /\ 2 * d > -tick
  BY DeviationHalf
<1>2. PICK k \in Int : k = NearestIndex(t, tick, downbeat)
  BY DeviationHalf
<1>3. PICK p \in Int : p = tick * k
  OBVIOUS
<1>4. t - d = downbeat + p /\ Line(k, tick, downbeat) = t - d
  BY <1>1, <1>2, <1>3 DEF Deviation, Line
<1>5. t - tick - downbeat \in Int /\ t + tick + 1 - downbeat \in Int
  OBVIOUS
<1>6. PICK a \in Int : /\ a = Ceil(t - tick - downbeat, tick)
                       /\ tick * (a - 1) < t - tick - downbeat
  BY <1>5, CeilBounds
<1>7. PICK b \in Int : /\ b = Ceil(t + tick + 1 - downbeat, tick)
                       /\ tick * b >= t + tick + 1 - downbeat
  BY <1>5, CeilBounds
<1>8. a <= k
  <2>1. SUFFICES ASSUME k < a PROVE FALSE
    OBVIOUS
  <2>2. PICK q \in Int : q = tick * (a - 1)
    OBVIOUS
  <2>3. CASE k = a - 1
    BY <1>1, <1>3, <1>4, <1>6, <2>2, <2>3
  <2>4. CASE k < a - 1
    <3>1. p + tick <= q
      BY <1>3, <2>2, <2>4, StepUp
    <3> QED
      BY <1>1, <1>4, <1>6, <2>2, <3>1
  <2> QED
    BY <2>1, <2>3, <2>4
<1>9. k <= b
  <2>1. SUFFICES ASSUME b < k PROVE FALSE
    OBVIOUS
  <2>2. PICK q \in Int : q = tick * b
    OBVIOUS
  <2>3. q + tick <= p
    BY <1>3, <2>1, <2>2, StepUp
  <2> QED
    BY <1>1, <1>4, <1>7, <2>2, <2>3
<1>10. k \in {j \in a .. b : Line(j, tick, downbeat) < t + tick + 1}
  BY <1>1, <1>4, <1>8, <1>9
<1>11. LinesIn(t - tick, t + tick + 1, tick, downbeat)
         = {Line(j, tick, downbeat) :
              j \in {i \in a .. b : Line(i, tick, downbeat) < t + tick + 1}}
  BY <1>6, <1>7 DEF LinesIn
<1>12. t - Deviation(t, tick, downbeat) = Line(k, tick, downbeat)
  BY <1>1, <1>4
<1> QED
  BY <1>10, <1>11, <1>12

-----------------------------------------------------------------------------
(* The inductive invariant *)

Declaration == [t : 0..MaxTime, tick : Nat \ {0}, downbeat : Int]
SpanType == [start : 0..MaxTime, end : 0..MaxTime, tick : Nat \ {0}, downbeat : Int]
Hit == [t : 0..MaxTime, note : Notes, grid : Declaration \cup {None}]

Types ==
  /\ now \in 0..MaxTime
  /\ events \in Seq(Hit)
  /\ grid_track \in Seq(SpanType) /\ enrollment_spans \in Seq(SpanType)
  /\ open_grid \in Declaration \cup {None} /\ open_enroll \in Declaration \cup {None}
  /\ cal \in Int

Sorted ==
  /\ \A i \in DOMAIN events : events[i].t <= now
  /\ \A i, j \in DOMAIN events : i <= j => events[i].t <= events[j].t

\* The spans that have been closed lie in order before the one that is open
ClosedInOrder(spans, open, time) ==
  /\ \A i \in DOMAIN spans : /\ spans[i].start <= spans[i].end /\ spans[i].end <= time
                             /\ open # None => spans[i].end <= open.t
  /\ \A i, j \in DOMAIN spans : i < j => spans[i].end <= spans[j].start
  /\ open # None => open.t <= time

\* Segments begin and end at declarations
Anchored ==
  /\ \A k \in DOMAIN grid_track : {grid_track[k].start, grid_track[k].end} \subseteq declared
  /\ open_grid # None => open_grid.t \in declared

Of(g, k) == grid_track[k] = [start |-> g.t, end |-> grid_track[k].end,
                             tick |-> g.tick, downbeat |-> g.downbeat]

\* A hit in no grid is behind no open span and in no closed one; any other is in
\* its grid's span, be it open or closed
Placed(t, g) ==
  IF g = None THEN /\ \A k \in DOMAIN grid_track : ~ InSegment(t, grid_track[k])
                   /\ open_grid # None => t < open_grid.t
  ELSE \/ open_grid = g /\ g.t < t
       \/ \E k \in DOMAIN grid_track : InSegment(t, grid_track[k]) /\ Of(g, k)

HitsPlaced ==
  \A i \in DOMAIN events : events[i].t \notin declared => Placed(events[i].t, events[i].grid)

IInv ==
  /\ Types /\ Sorted
  /\ ClosedInOrder(grid_track, open_grid, now)
  /\ ClosedInOrder(enrollment_spans, open_enroll, now)
  /\ Anchored /\ HitsPlaced

-----------------------------------------------------------------------------
(* Lists of spans *)

\* What Append does to a sequence, place by place.
LEMMA AppendAt ==
  ASSUME NEW S, NEW s \in Seq(S), NEW e \in S
  PROVE  /\ Append(s, e) \in Seq(S)
         /\ DOMAIN Append(s, e) = DOMAIN s \cup {Len(s) + 1}
         /\ \A i \in DOMAIN s : Append(s, e)[i] = s[i] /\ i \in Nat /\ i < Len(s) + 1
         /\ Append(s, e)[Len(s) + 1] = e
OBVIOUS

\* An open span that is closed at a time not before it joins the others in order.
LEMMA CloseSpan ==
  ASSUME NEW spans \in Seq(SpanType), NEW open \in Declaration, NEW end \in 0..MaxTime,
         open.t <= end, NEW time \in 0..MaxTime, ClosedInOrder(spans, open, time)
  PROVE  LET new == Append(spans, Span(open, end)) IN
         /\ new \in Seq(SpanType)
         /\ DOMAIN new = DOMAIN spans \cup {Len(spans) + 1}
         /\ \A i \in DOMAIN spans : new[i] = spans[i]
         /\ new[Len(spans) + 1] = Span(open, end)
         /\ \A i \in DOMAIN new : new[i].start <= new[i].end /\ new[i].end <= end
         /\ \A i, j \in DOMAIN new : i < j => new[i].end <= new[j].start
<1> DEFINE new == Append(spans, Span(open, end))
<1>1. Span(open, end) \in SpanType
  BY GradingAssumption DEF Span, SpanType, Declaration
<1>2. /\ new \in Seq(SpanType)
      /\ DOMAIN new = DOMAIN spans \cup {Len(spans) + 1}
      /\ \A i \in DOMAIN spans : new[i] = spans[i] /\ i \in Nat /\ i < Len(spans) + 1
      /\ new[Len(spans) + 1] = Span(open, end)
  BY <1>1, AppendAt
<1>3. open # None
  BY DEF None, Declaration
<1>4. Span(open, end).start = open.t /\ Span(open, end).end = end
  BY DEF Span
<1>5. \A i \in DOMAIN spans : spans[i] \in SpanType
  OBVIOUS
<1>6. \A i \in DOMAIN spans : spans[i].start \in Int /\ spans[i].end \in Int
  BY <1>5, GradingAssumption DEF SpanType
<1>7. open.t \in Int /\ end \in Int
  BY GradingAssumption DEF Declaration
<1>8. ASSUME NEW i \in DOMAIN new
      PROVE  new[i].start <= new[i].end /\ new[i].end <= end
  <2>1. CASE i \in DOMAIN spans
    BY <1>2, <1>3, <1>6, <1>7, <2>1 DEF ClosedInOrder
  <2>2. CASE i = Len(spans) + 1
    BY <1>2, <1>4, <1>7, <2>2
  <2> QED
    BY <1>2, <2>1, <2>2
<1>9. ASSUME NEW i \in DOMAIN new, NEW j \in DOMAIN new, i < j
      PROVE  new[i].end <= new[j].start
  <2>1. CASE i \in DOMAIN spans /\ j \in DOMAIN spans
    BY <1>2, <1>9, <2>1 DEF ClosedInOrder
  <2>2. CASE i \in DOMAIN spans /\ j = Len(spans) + 1
    BY <1>2, <1>3, <1>4, <2>2 DEF ClosedInOrder
  <2>3. CASE i = Len(spans) + 1
    <3>1. i \in Nat /\ (j = i \/ (j \in Nat /\ j < i))
      BY <1>2, <2>3
    <3> QED
      BY <1>9, <3>1
  <2> QED
    BY <1>2, <2>1, <2>2, <2>3
<1> QED
  BY <1>2, <1>8, <1>9

\* A declaration that opens a span, after closing the one that is open
LEMMA OpenNext ==
  ASSUME NEW spans \in Seq(SpanType), NEW open \in Declaration \cup {None},
         NEW time \in 0..MaxTime, ClosedInOrder(spans, open, time),
         NEW t \in time..MaxTime, NEW next \in Declaration, next.t = t
  PROVE  LET new == IF open = None THEN spans ELSE Append(spans, Span(open, t))
         IN  new \in Seq(SpanType) /\ ClosedInOrder(new, next, t)
<1>1. t \in 0..MaxTime /\ t \in Int /\ time <= t
  BY GradingAssumption
<1>2. CASE open = None
  <2>1. \A i \in DOMAIN spans : spans[i].end \in Int
    <3>1. \A i \in DOMAIN spans : spans[i] \in SpanType
      OBVIOUS
    <3> QED
      BY <3>1, GradingAssumption DEF SpanType
  <2>2. \A i \in DOMAIN spans : spans[i].end <= t
    BY <1>1, <2>1 DEF ClosedInOrder
  <2> QED
    BY <1>1, <1>2, <2>2 DEF ClosedInOrder
<1>3. CASE open # None
  <2>1. open \in Declaration /\ open.t <= t
    <3>1. open \in Declaration /\ open.t <= time
      BY <1>3 DEF ClosedInOrder
    <3>2. open.t \in Int
      BY <3>1, GradingAssumption DEF Declaration
    <3> QED
      BY <1>1, <3>1, <3>2
  <2> DEFINE new == Append(spans, Span(open, t))
  <2>2. /\ new \in Seq(SpanType)
        /\ \A i \in DOMAIN new : new[i].start <= new[i].end /\ new[i].end <= t
        /\ \A i, j \in DOMAIN new : i < j => new[i].end <= new[j].start
    BY <1>1, <2>1, CloseSpan
  <2>3. ClosedInOrder(new, next, t)
    BY <1>1, <2>2 DEF ClosedInOrder
  <2> QED
    BY <1>3, <2>2, <2>3
<1> QED
  BY <1>2, <1>3

\* A declaration that only closes the span that is open
LEMMA CloseOpen ==
  ASSUME NEW spans \in Seq(SpanType), NEW open \in Declaration \cup {None},
         NEW time \in 0..MaxTime, ClosedInOrder(spans, open, time),
         NEW t \in time..MaxTime
  PROVE  LET new == IF open = None THEN spans
                    ELSE Append(spans, Span(open, Larger(t, open.t)))
         IN  /\ new \in Seq(SpanType) /\ ClosedInOrder(new, None, t)
             /\ open # None => Larger(t, open.t) = t
<1>1. t \in 0..MaxTime /\ t \in Int /\ time <= t
  BY GradingAssumption
<1>2. CASE open = None
  <2>1. \A i \in DOMAIN spans : spans[i].end \in Int
    <3>1. \A i \in DOMAIN spans : spans[i] \in SpanType
      OBVIOUS
    <3> QED
      BY <3>1, GradingAssumption DEF SpanType
  <2>2. \A i \in DOMAIN spans : spans[i].end <= t
    BY <1>1, <2>1 DEF ClosedInOrder
  <2> QED
    BY <1>1, <1>2, <2>2 DEF ClosedInOrder
<1>3. CASE open # None
  <2>1. open \in Declaration /\ open.t <= t /\ Larger(t, open.t) = t
    <3>1. open \in Declaration /\ open.t <= time
      BY <1>3 DEF ClosedInOrder
    <3>2. open.t \in Int
      BY <3>1, GradingAssumption DEF Declaration
    <3> QED
      BY <1>1, <3>1, <3>2 DEF Larger
  <2> DEFINE new == Append(spans, Span(open, t))
  <2>2. /\ new \in Seq(SpanType)
        /\ \A i \in DOMAIN new : new[i].start <= new[i].end /\ new[i].end <= t
        /\ \A i, j \in DOMAIN new : i < j => new[i].end <= new[j].start
    BY <1>1, <2>1, CloseSpan
  <2>3. ClosedInOrder(new, None, t)
    BY <1>1, <2>2 DEF ClosedInOrder
  <2> QED
    BY <1>3, <2>1, <2>2, <2>3
<1> QED
  BY <1>2, <1>3

\* The order of the spans is no worse for a later record.
LEMMA StillInOrder ==
  ASSUME NEW spans \in Seq(SpanType), NEW open \in Declaration \cup {None},
         NEW time \in 0..MaxTime, ClosedInOrder(spans, open, time),
         NEW t \in time..MaxTime
  PROVE  ClosedInOrder(spans, open, t)
<1>1. t \in Int /\ time \in Int /\ time <= t
  BY GradingAssumption
<1>2. \A i \in DOMAIN spans : spans[i].end \in Int
  <2>1. \A i \in DOMAIN spans : spans[i] \in SpanType
    OBVIOUS
  <2> QED
    BY <2>1, GradingAssumption DEF SpanType
<1>3. open.t \in Int
  BY GradingAssumption DEF Declaration, None
<1> QED
  BY <1>1, <1>2, <1>3 DEF ClosedInOrder

-----------------------------------------------------------------------------
(* The invariant is inductive *)

\* Nothing has been read: the invariant holds.
LEMMA InitInv == Init => IInv
<1> SUFFICES ASSUME Init PROVE IInv
  OBVIOUS
<1>1. events = <<>> /\ grid_track = <<>> /\ enrollment_spans = <<>> /\ now = 0
  BY DEF Init
<1>2. open_grid = None /\ open_enroll = None /\ cal \in Int
  BY GradingAssumption DEF Init
<1>3. Types
  BY <1>1, <1>2, GradingAssumption DEF Types
<1>4. Sorted /\ Anchored /\ HitsPlaced
  BY <1>1, <1>2 DEF Sorted, Anchored, HitsPlaced
<1>5. ClosedInOrder(<<>>, None, 0)
  BY DEF ClosedInOrder
<1> QED
  BY <1>1, <1>2, <1>3, <1>4, <1>5 DEF IInv

\* What a grid_start or an enroll_start declares is a declaration.
LEMMA Declares ==
  ASSUME NEW t \in 0..MaxTime, NEW g \in Grids
  PROVE  [t |-> t, tick |-> g.tick, downbeat |-> t + g.lead] \in Declaration
<1>1. g.tick \in Nat \ {0} /\ g.lead \in Int
  BY GradingAssumption
<1>2. t \in Int
  BY GradingAssumption
<1> QED
  BY <1>1, <1>2 DEF Declaration

\* A declaration of a grid, or of its end, leaves the hits where they belong: those of
\* the span it closes were recorded before it, and are in the segment that results.
LEMMA PlacedByDeclaration ==
  ASSUME IInv, NEW t \in now..MaxTime, NEW next \in Declaration \cup {None},
         next # None => next.t = t,
         open_grid' = next, declared' = declared \cup {t}, events' = events,
         grid_track' = IF open_grid = None THEN grid_track
                       ELSE Append(grid_track, Span(open_grid, t))
  PROVE  HitsPlaced' /\ Anchored'
<1>0. Types /\ Sorted /\ Anchored /\ HitsPlaced /\ ClosedInOrder(grid_track, open_grid, now)
  BY DEF IInv
<1>1. /\ DOMAIN grid_track \subseteq DOMAIN grid_track'
      /\ \A k \in DOMAIN grid_track : grid_track'[k] = grid_track[k]
      /\ \A k \in DOMAIN grid_track' :
           \/ k \in DOMAIN grid_track
           \/ open_grid \in Declaration /\ grid_track'[k] = Span(open_grid, t)
      /\ open_grid # None => \E k \in DOMAIN grid_track' : grid_track'[k] = Span(open_grid, t)
  <2>1. CASE open_grid = None
    BY <2>1
  <2>2. CASE open_grid # None
    <3>1. open_grid \in Declaration
      BY <1>0, <2>2 DEF Types
    <3>2. Span(open_grid, t) \in SpanType
      <4>1. t \in 0..MaxTime
        BY <1>0, GradingAssumption DEF Types
      <4> QED
        BY <3>1, <4>1 DEF Span, SpanType, Declaration
    <3>3. grid_track' = Append(grid_track, Span(open_grid, t)) /\ grid_track \in Seq(SpanType)
      BY <1>0, <2>2 DEF Types
    <3> QED
      BY <3>1, <3>2, <3>3, AppendAt
  <2> QED
    BY <2>1, <2>2
<1>2. Anchored'
  <2>1. ASSUME NEW k \in DOMAIN grid_track'
        PROVE  {grid_track'[k].start, grid_track'[k].end} \subseteq declared'
    <3>1. CASE k \in DOMAIN grid_track
      BY <1>0, <1>1, <3>1 DEF Anchored
    <3>2. CASE open_grid \in Declaration /\ grid_track'[k] = Span(open_grid, t)
      <4>1. open_grid # None
        BY <3>2 DEF None, Declaration
      <4> QED
        BY <1>0, <3>2, <4>1 DEF Anchored, Span
    <3> QED
      BY <1>1, <3>1, <3>2
  <2> QED
    BY <2>1 DEF Anchored
<1>3. ASSUME NEW i \in DOMAIN events, events[i].t \notin declared'
      PROVE  Placed(events[i].t, events[i].grid)'
  <2> DEFINE e == events[i].t
             g == events[i].grid
  <2>1. e \in 0..MaxTime /\ g \in Declaration \cup {None}
    <3>1. events[i] \in Hit
      BY <1>0 DEF Types
    <3> QED
      BY <3>1 DEF Hit
  <2>2. Placed(e, g) /\ e # t
    BY <1>0, <1>3 DEF HitsPlaced
  <2>3. e \in Int /\ t \in Int /\ e < t
    BY <1>0, <2>1, <2>2, GradingAssumption DEF Sorted, Types
  <2>4. events'[i].t = e /\ events'[i].grid = g
    OBVIOUS
  <2>5. CASE g = None
    <3>1. ASSUME NEW k \in DOMAIN grid_track' PROVE ~ InSegment(e, grid_track'[k])
      <4>1. CASE k \in DOMAIN grid_track
        BY <1>1, <2>2, <2>5, <4>1 DEF Placed
      <4>2. CASE open_grid \in Declaration /\ grid_track'[k] = Span(open_grid, t)
        <5>1. open_grid # None /\ open_grid.t \in Int
          BY <4>2, GradingAssumption DEF None, Declaration
        <5>2. e < open_grid.t
          BY <2>2, <2>5, <5>1 DEF Placed
        <5> QED
          BY <2>3, <4>2, <5>1, <5>2 DEF InSegment, Span
      <4> QED
        BY <1>1, <4>1, <4>2
    <3>2. open_grid' # None => e < open_grid'.t
      BY <2>3
    <3> QED
      BY <2>4, <2>5, <3>1, <3>2 DEF Placed
  <2>6. CASE g # None /\ open_grid = g /\ g.t < e
    <3>1. PICK k \in DOMAIN grid_track' : grid_track'[k] = Span(g, t)
      BY <1>1, <2>6
    <3>2. g.t \in Int
      BY <2>1, <2>6, GradingAssumption DEF Declaration
    <3>3. InSegment(e, grid_track'[k]) /\ Of(g, k)'
      BY <2>3, <2>6, <3>1, <3>2 DEF InSegment, Of, Span
    <3> QED
      BY <2>4, <2>6, <3>3 DEF Placed
  <2>7. CASE g # None /\ \E k \in DOMAIN grid_track : InSegment(e, grid_track[k]) /\ Of(g, k)
    <3>1. PICK k \in DOMAIN grid_track : InSegment(e, grid_track[k]) /\ Of(g, k)
      BY <2>7
    <3>2. k \in DOMAIN grid_track' /\ InSegment(e, grid_track'[k]) /\ Of(g, k)'
      BY <1>1, <3>1 DEF Of
    <3> QED
      BY <2>4, <2>7, <3>2 DEF Placed
  <2> QED
    BY <2>2, <2>5, <2>6, <2>7 DEF Placed
<1> QED
  BY <1>2, <1>3 DEF HitsPlaced

\* A hit belongs, when it is read, to the grid that is open.
LEMMA HitIsPlaced ==
  ASSUME IInv, NEW t \in now..MaxTime, t \notin declared
  PROVE  Placed(t, open_grid)
<1>0. Types /\ Anchored /\ ClosedInOrder(grid_track, open_grid, now)
  BY DEF IInv
<1>1. t \in Int /\ now \in Int /\ now <= t
  BY <1>0, GradingAssumption DEF Types
<1>2. CASE open_grid = None
  <2>1. ASSUME NEW k \in DOMAIN grid_track PROVE ~ InSegment(t, grid_track[k])
    <3>1. grid_track[k] \in SpanType
      BY <1>0 DEF Types
    <3>2. grid_track[k].end \in Int /\ grid_track[k].end <= now /\ grid_track[k].end \in declared
      BY <1>0, <3>1, GradingAssumption DEF SpanType, ClosedInOrder, Anchored
    <3> QED
      BY <1>1, <3>2 DEF InSegment
  <2> QED
    BY <1>2, <2>1 DEF Placed
<1>3. CASE open_grid # None
  <2>1. open_grid.t \in Int /\ open_grid.t <= now /\ open_grid.t \in declared
    BY <1>0, <1>3, GradingAssumption DEF Types, Declaration, ClosedInOrder, Anchored
  <2> QED
    BY <1>1, <1>3, <2>1 DEF Placed
<1> QED
  BY <1>2, <1>3

\* The invariant survives a hit.
LEMMA EventInv ==
  ASSUME IInv, NEW t \in now..MaxTime, NEW n \in Notes, ReadEvent(t, n)
  PROVE  IInv'
<1>0. /\ Types /\ Sorted /\ Anchored /\ HitsPlaced
      /\ ClosedInOrder(grid_track, open_grid, now)
      /\ ClosedInOrder(enrollment_spans, open_enroll, now)
  BY DEF IInv
<1>1. /\ now' = t /\ events' = Append(events, [t |-> t, note |-> n, grid |-> open_grid])
      /\ UNCHANGED <<declared, grid_track, enrollment_spans, open_grid, open_enroll, cal>>
  BY DEF ReadEvent
<1>2. t \in 0..MaxTime /\ t \in Int /\ now \in Int /\ now <= t
  BY <1>0, GradingAssumption DEF Types
<1>3. [t |-> t, note |-> n, grid |-> open_grid] \in Hit
  BY <1>0, <1>2 DEF Types, Hit
<1>4. events \in Seq(Hit)
  BY <1>0 DEF Types
<1>5. /\ events' \in Seq(Hit)
      /\ DOMAIN events' = DOMAIN events \cup {Len(events) + 1}
      /\ \A i \in DOMAIN events : events'[i] = events[i] /\ i \in Nat /\ i < Len(events) + 1
      /\ events'[Len(events) + 1] = [t |-> t, note |-> n, grid |-> open_grid]
  BY <1>1, <1>3, <1>4, AppendAt
<1>6. Types'
  BY <1>0, <1>1, <1>2, <1>5 DEF Types
<1>7. \A i \in DOMAIN events : events[i].t \in Int
  <2>1. \A i \in DOMAIN events : events[i] \in Hit
    BY <1>4
  <2> QED
    BY <2>1, GradingAssumption DEF Hit
<1>8. Sorted'
  <2>1. \A i \in DOMAIN events' : events'[i].t <= t
    BY <1>0, <1>2, <1>5, <1>7 DEF Sorted
  <2>2. ASSUME NEW i \in DOMAIN events', NEW j \in DOMAIN events', i <= j
        PROVE  events'[i].t <= events'[j].t
    <3>1. CASE j = Len(events) + 1
      BY <1>5, <2>1, <3>1
    <3>2. CASE i \in DOMAIN events /\ j \in DOMAIN events
      BY <1>0, <1>5, <2>2, <3>2 DEF Sorted
    <3>3. CASE i = Len(events) + 1 /\ j \in DOMAIN events
      <4>1. i \in Nat /\ j \in Nat /\ j < i
        BY <1>5, <3>3
      <4> QED
        BY <2>2, <4>1
    <3> QED
      BY <1>5, <3>1, <3>2, <3>3
  <2> QED
    BY <1>1, <2>1, <2>2 DEF Sorted
<1>9. ClosedInOrder(grid_track, open_grid, now)' /\ ClosedInOrder(enrollment_spans, open_enroll, now)'
  <2>1. ClosedInOrder(grid_track, open_grid, t) /\ ClosedInOrder(enrollment_spans, open_enroll, t)
    BY <1>0, StillInOrder DEF Types
  <2> QED
    BY <1>1, <2>1 DEF ClosedInOrder
<1>10. Anchored'
  BY <1>0, <1>1 DEF Anchored
<1>11. HitsPlaced'
  <2>1. ASSUME NEW i \in DOMAIN events', events'[i].t \notin declared'
        PROVE  Placed(events'[i].t, events'[i].grid)
    <3>1. CASE i \in DOMAIN events
      BY <1>0, <1>1, <1>5, <2>1, <3>1 DEF HitsPlaced
    <3>2. CASE i = Len(events) + 1
      BY <1>1, <1>5, <2>1, <3>2, HitIsPlaced
    <3> QED
      BY <1>5, <3>1, <3>2
  <2> QED
    BY <1>1, <2>1 DEF HitsPlaced, Placed, Of
<1> QED
  BY <1>6, <1>8, <1>9, <1>10, <1>11 DEF IInv

\* The invariant survives a record that leaves the grid and the enrolment alone.
LEMMA LaterInv ==
  ASSUME IInv, NEW t \in now..MaxTime, now' = t,
         UNCHANGED <<declared, events, grid_track, enrollment_spans, open_grid, open_enroll, cal>>
  PROVE  IInv'
<1>0. /\ Types /\ Sorted /\ Anchored /\ HitsPlaced
      /\ ClosedInOrder(grid_track, open_grid, now)
      /\ ClosedInOrder(enrollment_spans, open_enroll, now)
  BY DEF IInv
<1>1. t \in 0..MaxTime /\ t \in Int /\ now \in Int /\ now <= t
  BY <1>0, GradingAssumption DEF Types
<1>2. Types'
  BY <1>0, <1>1 DEF Types
<1>3. Sorted'
  <2>1. \A i \in DOMAIN events : events[i].t \in Int
    <3>1. \A i \in DOMAIN events : events[i] \in Hit
      BY <1>0 DEF Types
    <3> QED
      BY <3>1, GradingAssumption DEF Hit
  <2> QED
    BY <1>0, <1>1, <2>1 DEF Sorted
<1>4. ClosedInOrder(grid_track, open_grid, t) /\ ClosedInOrder(enrollment_spans, open_enroll, t)
  BY <1>0, StillInOrder DEF Types
<1> QED
  BY <1>0, <1>2, <1>3, <1>4 DEF IInv, Anchored, HitsPlaced, Placed, Of, ClosedInOrder

\* The invariant survives grid_start, grid_end, enroll_start and enroll_end: the spans
\* of the one kind stay in order, those of the other are none the worse for the time.
LEMMA DeclarationInv ==
  ASSUME IInv, NEW t \in now..MaxTime, NEW g, NEW span,
         \/ g \in Grids /\ (ReadGridStart(t, span, g) \/ ReadEnrollStart(t, span, g))
         \/ ReadGridEnd(t, span) \/ ReadEnrollEnd(t, span)
  PROVE  IInv'
<1>0. /\ Types /\ Sorted /\ Anchored /\ HitsPlaced
      /\ ClosedInOrder(grid_track, open_grid, now)
      /\ ClosedInOrder(enrollment_spans, open_enroll, now)
  BY DEF IInv
<1>1. now' = t /\ events' = events /\ cal' = cal
  BY DEF ReadGridStart, ReadGridEnd, ReadEnrollStart, ReadEnrollEnd, Reads
<1>2. t \in 0..MaxTime /\ t \in Int /\ now \in 0..MaxTime /\ now \in Int /\ now <= t
  BY <1>0, GradingAssumption DEF Types
<1>3. Sorted'
  <2>1. \A i \in DOMAIN events : events[i].t \in Int
    <3>1. \A i \in DOMAIN events : events[i] \in Hit
      BY <1>0 DEF Types
    <3> QED
      BY <3>1, GradingAssumption DEF Hit
  <2> QED
    BY <1>0, <1>1, <1>2, <2>1 DEF Sorted
<1> DEFINE next == [t |-> t, tick |-> g.tick, downbeat |-> t + g.lead]
<1>4. (g \in Grids => next \in Declaration) /\ next.t = t
  BY <1>2, Declares
<1>5. /\ grid_track \in Seq(SpanType) /\ enrollment_spans \in Seq(SpanType)
      /\ open_grid \in Declaration \cup {None} /\ open_enroll \in Declaration \cup {None}
      /\ events \in Seq(Hit) /\ cal \in Int
  BY <1>0 DEF Types
<1> HIDE DEF next
<1>6. /\ ClosedInOrder(grid_track, open_grid, t)
      /\ ClosedInOrder(enrollment_spans, open_enroll, t)
  BY <1>0, <1>2, <1>5, StillInOrder
<1>7. CASE g \in Grids /\ ReadGridStart(t, span, g)
  <2>1. /\ grid_track' = IF open_grid = None THEN grid_track
                         ELSE Append(grid_track, Span(open_grid, t))
        /\ open_grid' = next /\ declared' = declared \cup {t}
        /\ enrollment_spans' = enrollment_spans /\ open_enroll' = open_enroll
    BY <1>7 DEF ReadGridStart, next
  <2>2. grid_track' \in Seq(SpanType) /\ ClosedInOrder(grid_track', next, t)
    BY <1>0, <1>2, <1>4, <1>5, <1>7, <2>1, OpenNext
  <2>3. HitsPlaced' /\ Anchored'
    BY <1>1, <1>4, <1>7, <2>1, PlacedByDeclaration
  <2>4. Types'
    BY <1>1, <1>2, <1>4, <1>5, <1>7, <2>1, <2>2 DEF Types
  <2>5. ClosedInOrder(grid_track, open_grid, now)' /\ ClosedInOrder(enrollment_spans, open_enroll, now)'
    BY <1>1, <1>6, <2>1, <2>2 DEF ClosedInOrder
  <2> QED
    BY <1>3, <2>3, <2>4, <2>5 DEF IInv
<1>8. CASE ReadGridEnd(t, span)
  <2>1. /\ grid_track' = IF open_grid = None THEN grid_track
                         ELSE Append(grid_track, Span(open_grid, Larger(t, open_grid.t)))
        /\ open_grid' = None /\ declared' = declared \cup {t}
        /\ enrollment_spans' = enrollment_spans /\ open_enroll' = open_enroll
    BY <1>8 DEF ReadGridEnd
  <2>2. /\ grid_track' \in Seq(SpanType) /\ ClosedInOrder(grid_track', None, t)
        /\ open_grid # None => Larger(t, open_grid.t) = t
    BY <1>0, <1>2, <1>5, <2>1, CloseOpen
  <2>3. HitsPlaced' /\ Anchored'
    BY <1>1, <2>1, <2>2, PlacedByDeclaration
  <2>4. Types'
    BY <1>1, <1>2, <1>5, <2>1, <2>2 DEF Types
  <2>5. ClosedInOrder(grid_track, open_grid, now)' /\ ClosedInOrder(enrollment_spans, open_enroll, now)'
    BY <1>1, <1>6, <2>1, <2>2 DEF ClosedInOrder
  <2> QED
    BY <1>3, <2>3, <2>4, <2>5 DEF IInv
<1>9. ASSUME UNCHANGED <<declared, grid_track, open_grid>>,
             NEW open \in Declaration \cup {None}, open_enroll' = open,
             enrollment_spans' \in Seq(SpanType), ClosedInOrder(enrollment_spans', open, t)
      PROVE  IInv'
  <2>1. Types'
    BY <1>1, <1>2, <1>5, <1>9 DEF Types
  <2>2. ClosedInOrder(grid_track, open_grid, now)' /\ ClosedInOrder(enrollment_spans, open_enroll, now)'
    BY <1>1, <1>6, <1>9 DEF ClosedInOrder
  <2>3. Anchored' /\ HitsPlaced'
    BY <1>0, <1>1, <1>9 DEF Anchored, HitsPlaced, Placed, Of
  <2> QED
    BY <1>3, <2>1, <2>2, <2>3 DEF IInv
<1>10. CASE g \in Grids /\ ReadEnrollStart(t, span, g)
  <2>1. /\ enrollment_spans' = IF open_enroll = None THEN enrollment_spans
                               ELSE Append(enrollment_spans, Span(open_enroll, t))
        /\ open_enroll' = next /\ UNCHANGED <<declared, grid_track, open_grid>>
    BY <1>10 DEF ReadEnrollStart, next
  <2>2. enrollment_spans' \in Seq(SpanType) /\ ClosedInOrder(enrollment_spans', next, t)
    BY <1>0, <1>2, <1>4, <1>5, <1>10, <2>1, OpenNext
  <2> QED
    BY <1>4, <1>10, <1>9, <2>1, <2>2
<1>11. CASE ReadEnrollEnd(t, span)
  <2>1. /\ enrollment_spans' = IF open_enroll = None THEN enrollment_spans
                               ELSE Append(enrollment_spans, Span(open_enroll, Larger(t, open_enroll.t)))
        /\ open_enroll' = None /\ UNCHANGED <<declared, grid_track, open_grid>>
    BY <1>11 DEF ReadEnrollEnd
  <2>2. enrollment_spans' \in Seq(SpanType) /\ ClosedInOrder(enrollment_spans', None, t)
    BY <1>0, <1>2, <1>5, <2>1, CloseOpen
  <2> QED
    BY <1>9, <2>1, <2>2
<1> QED
  BY <1>7, <1>8, <1>10, <1>11

\* Every step preserves the invariant.
LEMMA NextInv == IInv /\ [Next]_vars => IInv'
<1> SUFFICES ASSUME IInv, [Next]_vars PROVE IInv'
  OBVIOUS
<1>1. CASE UNCHANGED vars
  <2>1. now \in now..MaxTime
    BY GradingAssumption DEF IInv, Types
  <2> QED
    BY <1>1, <2>1, LaterInv DEF vars
<1>2. CASE Next
  <2>1. PICK t \in now..MaxTime : (\E n \in Notes : ReadEvent(t, n)) \/ ReadDeclaration(t)
    BY <1>2 DEF Next
  <2>2. CASE \E n \in Notes : ReadEvent(t, n)
    BY <2>2, EventInv
  <2>3. CASE ReadSessionEnd(t)
    BY <2>3, LaterInv DEF ReadSessionEnd, Reads
  <2>4. CASE \E span \in {{}, Chord} : \E g \in Grids :
               ReadGridStart(t, span, g) \/ ReadEnrollStart(t, span, g)
    BY <2>4, DeclarationInv
  <2>5. CASE \E span \in {{}, Chord} : ReadGridEnd(t, span) \/ ReadEnrollEnd(t, span)
    BY <2>5, DeclarationInv
  <2>6. CASE \E span \in {{}, Chord} : ReadBookmark(t, span)
    BY <2>6, LaterInv DEF ReadBookmark, Reads
  <2> QED
    BY <2>1, <2>2, <2>3, <2>4, <2>5, <2>6 DEF ReadDeclaration
<1> QED
  BY <1>1, <1>2

\* The inductive invariant: whatever has been read, its spans are in order, they begin
\* and end at declarations, and the hits between declarations are in the span of the
\* grid that was open when they were played.
THEOREM Placement == Spec => []IInv
<1> QED
  BY InitInv, NextInv, PTL DEF Spec

-----------------------------------------------------------------------------
(* What is made of it: the end of the log *)

\* A span that nobody ended is closed at or behind its start, and behind every hit
\* from its start on.
LEMMA LastEvent ==
  ASSUME IInv, NEW start \in 0..MaxTime
  PROVE  /\ LastEventIn(start) \in 0..MaxTime /\ start <= LastEventIn(start)
         /\ \A i \in DOMAIN events : start <= events[i].t => events[i].t <= LastEventIn(start)
<1> DEFINE ts == {events[i].t : i \in {j \in DOMAIN events : events[j].t >= start}}
<1>0. events \in Seq(Hit) /\ Sorted
  BY DEF IInv, Types
<1>1. \A i \in DOMAIN events : events[i].t \in 0..MaxTime
  <2>1. \A i \in DOMAIN events : events[i] \in Hit
    BY <1>0
  <2> QED
    BY <2>1 DEF Hit
<1>2. LastEventIn(start) = IF ts = {} THEN start ELSE events[Len(events)].t
  BY DEF LastEventIn
<1>3. CASE ts = {}
  <2>1. \A i \in DOMAIN events : ~ (events[i].t >= start)
    BY <1>3
  <2> QED
    BY <1>1, <1>2, <1>3, <2>1, GradingAssumption
<1>4. CASE ts # {}
  <2>1. PICK j \in DOMAIN events : events[j].t >= start
    BY <1>4
  <2>2. /\ Len(events) \in DOMAIN events
        /\ \A i \in DOMAIN events : i <= Len(events)
    BY <1>0, <2>1
  <2>3. \A i \in DOMAIN events : events[i].t <= events[Len(events)].t
    BY <1>0, <2>2 DEF Sorted
  <2> QED
    <3> DEFINE last == events[Len(events)].t
    <3>1. last \in 0..MaxTime /\ events[j].t \in Int /\ events[j].t <= last
      BY <1>1, <2>1, <2>2, <2>3, GradingAssumption
    <3>2. start \in Int /\ last \in Int /\ start <= last
      BY <2>1, <3>1, GradingAssumption
    <3>3. LastEventIn(start) = last
      BY <1>2, <1>4
    <3> QED
      BY <2>3, <3>1, <3>2, <3>3
<1> QED
  BY <1>3, <1>4

\* The spans of a whole log are those that were closed and, last, the one that was open.
LEMMA Closing ==
  ASSUME IInv, NEW spans \in Seq(SpanType), NEW open \in Declaration \cup {None},
         ClosedInOrder(spans, open, now)
  PROVE  LET all == IF open = None THEN spans
                    ELSE Append(spans, Span(open, LastEventIn(open.t)))
         IN  /\ all \in Seq(SpanType)
             /\ DOMAIN all = DOMAIN spans \cup (IF open = None THEN {} ELSE {Len(spans) + 1})
             /\ \A k \in DOMAIN spans : all[k] = spans[k]
             /\ open # None => all[Len(spans) + 1] = Span(open, LastEventIn(open.t))
             /\ \A i \in DOMAIN all : all[i].start <= all[i].end
             /\ \A i, j \in DOMAIN all : i < j => all[i].end <= all[j].start
<1>1. CASE open = None
  BY <1>1 DEF ClosedInOrder
<1>2. CASE open # None
  <2>1. open \in Declaration /\ open.t \in 0..MaxTime
    BY <1>2 DEF Declaration
  <2>2. PICK end \in 0..MaxTime : end = LastEventIn(open.t) /\ open.t <= end
    BY <2>1, LastEvent
  <2>3. now \in 0..MaxTime
    BY DEF IInv, Types
  <2> DEFINE new == Append(spans, Span(open, end))
  <2>4. /\ new \in Seq(SpanType)
        /\ DOMAIN new = DOMAIN spans \cup {Len(spans) + 1}
        /\ \A i \in DOMAIN spans : new[i] = spans[i]
        /\ new[Len(spans) + 1] = Span(open, end)
        /\ \A i \in DOMAIN new : new[i].start <= new[i].end /\ new[i].end <= end
        /\ \A i, j \in DOMAIN new : i < j => new[i].end <= new[j].start
    BY <2>1, <2>2, <2>3, CloseSpan
  <2> HIDE DEF new
  <2>5. new = Append(spans, Span(open, LastEventIn(open.t)))
    BY <2>2 DEF new
  <2> QED
    BY <1>2, <2>2, <2>4, <2>5
<1> QED
  BY <1>1, <1>2

\* The two lists, closed.
LEMMA TrackEnrolled ==
  ASSUME IInv
  PROVE  /\ Track \in Seq(SpanType) /\ Enrolled \in Seq(SpanType)
         /\ DOMAIN Track = DOMAIN grid_track
                             \cup (IF open_grid = None THEN {} ELSE {Len(grid_track) + 1})
         /\ \A k \in DOMAIN grid_track : Track[k] = grid_track[k]
         /\ open_grid # None =>
              Track[Len(grid_track) + 1] = Span(open_grid, LastEventIn(open_grid.t))
         /\ SpansInOrder
<1>0. /\ grid_track \in Seq(SpanType) /\ enrollment_spans \in Seq(SpanType)
      /\ open_grid \in Declaration \cup {None} /\ open_enroll \in Declaration \cup {None}
      /\ ClosedInOrder(grid_track, open_grid, now)
      /\ ClosedInOrder(enrollment_spans, open_enroll, now)
  BY DEF IInv, Types
<1>1. /\ Track \in Seq(SpanType)
      /\ DOMAIN Track = DOMAIN grid_track
                          \cup (IF open_grid = None THEN {} ELSE {Len(grid_track) + 1})
      /\ \A k \in DOMAIN grid_track : Track[k] = grid_track[k]
      /\ open_grid # None =>
           Track[Len(grid_track) + 1] = Span(open_grid, LastEventIn(open_grid.t))
      /\ \A i \in DOMAIN Track : Track[i].start <= Track[i].end
      /\ \A i, j \in DOMAIN Track : i < j => Track[i].end <= Track[j].start
  BY <1>0, Closing DEF Track
<1>2. /\ Enrolled \in Seq(SpanType)
      /\ \A i \in DOMAIN Enrolled : Enrolled[i].start <= Enrolled[i].end
      /\ \A i, j \in DOMAIN Enrolled : i < j => Enrolled[i].end <= Enrolled[j].start
  BY <1>0, Closing DEF Enrolled
<1>3. SpansInOrder
  BY <1>1, <1>2 DEF SpansInOrder
<1> QED
  BY <1>1, <1>2, <1>3

\* Every stamp and span of what has been read is in range, and a tick is positive,
\* at every end that a log may have.
THEOREM TypeCorrect == Spec => []TypeOK
<1>1. ASSUME IInv PROVE TypeOK
  <2>1. Track \in Seq(SpanType) /\ Enrolled \in Seq(SpanType)
    BY <1>1, TrackEnrolled
  <2>2. \A seg \in Range(Track) \cup Range(Enrolled) : seg \in SpanType
    BY <2>1 DEF Range
  <2>3. \A seg \in Range(Track) \cup Range(Enrolled) :
          {seg.start, seg.end} \subseteq 0..MaxTime /\ seg.tick > 0
    BY <2>2 DEF SpanType
  <2>4. Types
    BY <1>1 DEF IInv
  <2>5. \A i \in DOMAIN events : events[i].t \in 0..MaxTime
    <3>1. \A i \in DOMAIN events : events[i] \in Hit
      BY <2>4 DEF Types
    <3> QED
      BY <3>1 DEF Hit
  <2>6. open_grid.t \in -1..MaxTime /\ open_enroll.t \in -1..MaxTime
    <3>1. \A open \in Declaration \cup {None} : open.t \in -1..MaxTime
      BY GradingAssumption DEF Declaration, None
    <3> QED
      BY <2>4, <3>1 DEF Types
  <2> QED
    BY <2>3, <2>5, <2>6 DEF TypeOK
<1> QED
  BY <1>1, Placement, PTL

\* SpansInOrder, at every end that a log may have: closing what is open by the
\* last hit can neither make a span run backwards nor let it reach into another.
THEOREM SpanOrder == Spec => []SpansInOrder
<1>1. IInv => SpansInOrder
  BY TrackEnrolled
<1> QED
  BY <1>1, Placement, PTL

-----------------------------------------------------------------------------
(* Which segment a hit is graded against *)

\* segment_for gives the last of the segments that t is in, if there is one.
LEMMA SegmentIsIn ==
  ASSUME NEW track \in Seq(SpanType), NEW t \in Int, SegmentFor(t, track) # 0
  PROVE  SegmentFor(t, track) \in DOMAIN track /\ InSegment(t, track[SegmentFor(t, track)])
<1> DEFINE in == {i \in DOMAIN track : InSegment(t, track[i])}
<1>1. in # {} /\ SegmentFor(t, track) = CHOOSE i \in in : \A j \in in : j <= i
  BY DEF SegmentFor
<1>2. \E i \in in : \A j \in in : j <= i
  <2>1. PICK n \in Nat : DOMAIN track = 1..n
    OBVIOUS
  <2> DEFINE up == {n - i : i \in in}
  <2>2. up \subseteq Nat /\ up # {}
    BY <1>1, <2>1
  <2>3. PICK x \in up : \A y \in up : ~ (<<y, x>> \in OpToRel(<, Nat))
    BY <2>2, NatLessThanWellFounded, WFMin
  <2>4. \A y \in up : ~ (y < x)
    BY <2>2, <2>3 DEF OpToRel
  <2>5. PICK i \in in : x = n - i
    BY <2>3
  <2>6. ASSUME NEW j \in in PROVE j <= i
    <3>1. ~ (n - j < n - i) /\ i \in Int /\ j \in Int
      BY <2>1, <2>4, <2>5
    <3> QED
      BY <3>1
  <2> QED
    BY <2>6
<1>3. SegmentFor(t, track) \in in
  BY <1>1, <1>2
<1> QED
  BY <1>3

\* A segment that alone has t in it is the one that segment_for gives.
LEMMA OnlySegment ==
  ASSUME NEW track \in Seq(SpanType), NEW t, NEW k \in DOMAIN track, InSegment(t, track[k]),
         \A j \in DOMAIN track : InSegment(t, track[j]) => j = k
  PROVE  SegmentFor(t, track) = k /\ k # 0
<1>1. {i \in DOMAIN track : InSegment(t, track[i])} = {k}
  OBVIOUS
<1>2. k \in Nat /\ k # 0
  OBVIOUS
<1> QED
  BY <1>1, <1>2 DEF SegmentFor

\* NearestOfAll: of all lines of its grid a hit is graded against the nearest, with
\* any calibration, before the downbeat as behind it.
THEOREM GradedByTheNearest == Spec => []NearestOfAll
<1>1. ASSUME IInv PROVE NearestOfAll
  <2>0. Track \in Seq(SpanType) /\ events \in Seq(Hit) /\ cal \in Int
    BY <1>1, TrackEnrolled DEF IInv, Types
  <2>1. ASSUME NEW i \in DOMAIN events, SegmentFor(events[i].t, Track) # 0
        PROVE  LET t == events[i].t - cal
                   seg == Track[SegmentFor(events[i].t, Track)]
                   line == t - DeviationOf(i)
                   drawn == LinesIn(t - seg.tick, t + seg.tick + 1, seg.tick, seg.downbeat)
                   Off(l) == IF t < l THEN l - t ELSE t - l
               IN  /\ line \in drawn
                   /\ \A l \in drawn : Off(l) > Off(line) \/ (Off(l) = Off(line) /\ l >= line)
    <3> DEFINE t == events[i].t - cal
               seg == Track[SegmentFor(events[i].t, Track)]
               line == t - DeviationOf(i)
               drawn == LinesIn(t - seg.tick, t + seg.tick + 1, seg.tick, seg.downbeat)
               Off(l) == IF t < l THEN l - t ELSE t - l
    <3>1. events[i].t \in Int
      <4>1. events[i] \in Hit
        BY <2>0
      <4> QED
        BY <4>1, GradingAssumption DEF Hit
    <3>2. seg \in SpanType
      BY <2>0, <2>1, <3>1, SegmentIsIn
    <3>3. t \in Int /\ seg.tick \in Nat \ {0} /\ seg.downbeat \in Int
      <4> HIDE DEF seg
      <4> QED
        BY <2>0, <3>1, <3>2 DEF SpanType
    <3>4. line = t - Deviation(t, seg.tick, seg.downbeat)
      BY DEF DeviationOf
    <3> HIDE DEF t, seg, line
    <3>5. line \in drawn /\ \A l \in drawn : \E j \in Int : l = Line(j, seg.tick, seg.downbeat)
      BY <3>3, <3>4, NearestDrawn
    <3>6. ASSUME NEW l \in drawn
          PROVE  Off(l) > Off(line) \/ (Off(l) = Off(line) /\ l >= line)
      <4>1. PICK j \in Int : l = Line(j, seg.tick, seg.downbeat)
        BY <3>5
      <4> QED
        BY <3>3, <3>4, <4>1, NearestLine
    <3> QED
      BY <3>5, <3>6 DEF t, seg, line
  <2> QED
    BY <2>1 DEF NearestOfAll
<1> QED
  BY <1>1, Placement, PTL

\* Between declarations no two segments claim a hit: each begins at a declaration, and
\* they meet at most there.
LEMMA OneSegment ==
  ASSUME IInv, NEW t \in Int, t \notin declared, NEW j \in DOMAIN Track, NEW k \in DOMAIN Track,
         InSegment(t, Track[j]), InSegment(t, Track[k])
  PROVE  j = k
<1>0. Track \in Seq(SpanType)
  BY TrackEnrolled
<1>1. \A n \in DOMAIN Track : Track[n].start \in declared
  <2>1. Anchored
    BY DEF IInv
  <2>2. ASSUME NEW n \in DOMAIN Track PROVE Track[n].start \in declared
    <3>1. CASE n \in DOMAIN grid_track
      BY <2>1, <3>1, TrackEnrolled DEF Anchored
    <3>2. CASE open_grid # None /\ n = Len(grid_track) + 1
      BY <2>1, <3>2, TrackEnrolled DEF Anchored, Span
    <3> QED
      BY <3>1, <3>2, TrackEnrolled
  <2> QED
    BY <2>2
<1>2. ASSUME NEW m \in DOMAIN Track, NEW n \in DOMAIN Track, m < n,
             InSegment(t, Track[m]), InSegment(t, Track[n])
      PROVE  FALSE
  <2>1. Track[m].end <= Track[n].start
    BY <1>2, TrackEnrolled DEF SpansInOrder
  <2>2. Track[m] \in SpanType /\ Track[n] \in SpanType
    BY <1>0
  <2>3. Track[m].end \in Int /\ Track[n].start \in Int
    BY <2>2, GradingAssumption DEF SpanType
  <2>4. t <= Track[m].end /\ Track[n].start <= t
    BY <1>2 DEF InSegment
  <2>5. t = Track[n].start
    BY <2>1, <2>3, <2>4
  <2> QED
    BY <1>1, <2>5
<1>3. j \in Int /\ k \in Int
  BY <1>0
<1> QED
  BY <1>2, <1>3

\* GradedByTheGridInForce: the segment that a hit is a row of is the one that its
\* grid_start opened, however it came to its end, and there is none if no grid was open.
THEOREM GradedInForce == Spec => []GradedByTheGridInForce
<1>1. ASSUME IInv PROVE GradedByTheGridInForce
  <2>0. Types /\ HitsPlaced /\ Anchored
    BY <1>1 DEF IInv
  <2>1. /\ Track \in Seq(SpanType)
        /\ \A n \in DOMAIN Track : \/ n \in DOMAIN grid_track /\ Track[n] = grid_track[n]
                                   \/ open_grid # None
                                        /\ Track[n] = Span(open_grid, LastEventIn(open_grid.t))
        /\ \A n \in DOMAIN grid_track : n \in DOMAIN Track /\ Track[n] = grid_track[n]
        /\ open_grid # None =>
             \E n \in DOMAIN Track : Track[n] = Span(open_grid, LastEventIn(open_grid.t))
    BY <1>1, TrackEnrolled
  <2>2. ASSUME NEW i \in DOMAIN events, events[i].t \notin declared
        PROVE  LET k == SegmentFor(events[i].t, Track)
                   g == events[i].grid
               IN  IF g = None THEN k = 0
                   ELSE k # 0 /\ Track[k] = [Span(g, 0) EXCEPT !.end = Track[k].end]
    <3> DEFINE t == events[i].t
               g == events[i].grid
    <3>1. t \in 0..MaxTime /\ t \in Int /\ g \in Declaration \cup {None}
      <4>1. events[i] \in Hit
        BY <2>0 DEF Types
      <4> QED
        BY <4>1, GradingAssumption DEF Hit
    <3>2. Placed(t, g)
      BY <2>0, <2>2 DEF HitsPlaced
    <3>3. CASE g = None
      <4>1. ASSUME NEW n \in DOMAIN Track PROVE ~ InSegment(t, Track[n])
        <5>1. CASE n \in DOMAIN grid_track /\ Track[n] = grid_track[n]
          BY <3>2, <3>3, <5>1 DEF Placed
        <5>2. CASE open_grid # None /\ Track[n] = Span(open_grid, LastEventIn(open_grid.t))
          <6>1. t < open_grid.t
            BY <3>2, <3>3, <5>2 DEF Placed
          <6>2. open_grid.t \in Int
            BY <2>0, <5>2, GradingAssumption DEF Types, Declaration
          <6> QED
            BY <3>1, <5>2, <6>1, <6>2 DEF InSegment, Span
        <5> QED
          BY <2>1, <5>1, <5>2
      <4>2. {n \in DOMAIN Track : InSegment(t, Track[n])} = {}
        BY <4>1
      <4>3. SegmentFor(t, Track) = 0
        BY <4>2 DEF SegmentFor
      <4> QED
        BY <3>3, <4>3
    <3>4. CASE g # None
      <4>1. PICK n \in DOMAIN Track :
              InSegment(t, Track[n]) /\ Track[n] = [Span(g, 0) EXCEPT !.end = Track[n].end]
        <5>1. CASE open_grid = g /\ g.t < t
          <6>1. PICK n \in DOMAIN Track : Track[n] = Span(g, LastEventIn(g.t))
            BY <2>1, <3>4, <5>1
          <6>2. g.t \in 0..MaxTime /\ g.t \in Int
            BY <3>1, <3>4, GradingAssumption DEF Declaration
          <6>3. t <= LastEventIn(g.t)
            BY <1>1, <3>1, <5>1, <6>2, LastEvent
          <6>4. InSegment(t, Track[n])
            BY <3>1, <5>1, <6>1, <6>2, <6>3 DEF InSegment, Span
          <6>5. Track[n] = [Span(g, 0) EXCEPT !.end = Track[n].end]
            BY <6>1 DEF Span
          <6> QED
            BY <6>4, <6>5
        <5>2. CASE \E n \in DOMAIN grid_track : InSegment(t, grid_track[n]) /\ Of(g, n)
          <6>1. PICK n \in DOMAIN grid_track : InSegment(t, grid_track[n]) /\ Of(g, n)
            BY <5>2
          <6>2. n \in DOMAIN Track /\ Track[n] = grid_track[n]
            BY <2>1
          <6>3. Track[n] = [Span(g, 0) EXCEPT !.end = Track[n].end]
            BY <6>1, <6>2 DEF Of, Span
          <6> QED
            BY <6>1, <6>2, <6>3
        <5> QED
          BY <3>2, <3>4, <5>1, <5>2 DEF Placed
      <4>2. \A j \in DOMAIN Track : InSegment(t, Track[j]) => j = n
        BY <1>1, <2>2, <3>1, <4>1, OneSegment
      <4>3. SegmentFor(t, Track) = n /\ n # 0
        BY <2>1, <4>1, <4>2, OnlySegment
      <4> QED
        BY <3>4, <4>1, <4>3
    <3> QED
      BY <3>3, <3>4
  <2> QED
    BY <2>2 DEF GradedByTheGridInForce
<1> QED
  BY <1>1, Placement, PTL
-----------------------------------------------------------------------------
(* What the analyzers count *)

Splits(G, H) ==
  /\ \A g \in G : g \subseteq H
  /\ \A i \in H : \E g \in G : i \in g
  /\ \A g, h \in G, i \in H : i \in g /\ i \in h => g = h

\* What is split into classes is in just one of them.
LEMMA InOneClass ==
  ASSUME NEW G, NEW H, Splits(G, H), NEW i
  PROVE  Cardinality({g \in G : i \in g}) = IF i \in H THEN 1 ELSE 0
<1>1. CASE i \in H
  <2>1. PICK g \in G : i \in g
    BY <1>1 DEF Splits
  <2>2. {h \in G : i \in h} = {g}
    BY <1>1, <2>1 DEF Splits
  <2> QED BY <1>1, <2>2, FS_Singleton
<1>2. CASE i \notin H
  <2>1. {g \in G : i \in g} = {}
    BY <1>2 DEF Splits
  <2> QED BY <1>2, <2>1, FS_EmptySet
<1> QED BY <1>1, <1>2

\* The classes by note and by lane, and the four groupings of the grid metrics
LEMMA SplitByPad == Splits(PerNote, Observed) /\ Splits(PerLane, Observed)
<1>1. Splits(PerNote, Observed)
  <2> DEFINE Class(k) == {j \in Observed : events[j].note = events[k].note}
  <2>1. /\ \A g \in PerNote : \E k \in Observed : g = Class(k)
        /\ \A k \in Observed : Class(k) \in PerNote
    BY DEF PerNote
  <2>2. /\ \A k \in Observed : Class(k) \subseteq Observed /\ k \in Class(k)
        /\ \A k, l, i \in Observed : i \in Class(k) /\ i \in Class(l) => Class(k) = Class(l)
    OBVIOUS
  <2> HIDE DEF Class
  <2> QED BY <2>1, <2>2 DEF Splits
<1>2. Splits(PerLane, Observed)
  <2> DEFINE Class(k) == {j \in Observed : LaneOf(j) = LaneOf(k)}
  <2>1. /\ \A g \in PerLane : \E k \in Observed : g = Class(k)
        /\ \A k \in Observed : Class(k) \in PerLane
    BY DEF PerLane
  <2>2. /\ \A k \in Observed : Class(k) \subseteq Observed /\ k \in Class(k)
        /\ \A k, l, i \in Observed : i \in Class(k) /\ i \in Class(l) => Class(k) = Class(l)
    OBVIOUS
  <2> HIDE DEF Class
  <2> QED BY <2>1, <2>2 DEF Splits
<1> QED BY <1>1, <1>2

included == {i \in DOMAIN events : Segments[i] # 0 /\ ~ Excluded(i)}
LEMMA SplitByScope == \A kind \in DOMAIN Groups : Splits(Groups[kind], included)
<1>1. DOMAIN Groups = {"span", "note", "lane", "grid"}
  BY DEF Groups
<1>2. Splits(Groups["span"], included)
  <2> DEFINE Class(k) == {j \in included : Segments[j] = Segments[k]}
  <2>1. /\ \A g \in Groups["span"] : \E k \in included : g = Class(k)
        /\ \A k \in included : Class(k) \in Groups["span"]
    BY DEF Groups, included
  <2>2. /\ \A k \in included : Class(k) \subseteq included /\ k \in Class(k)
        /\ \A k, l, i \in included : i \in Class(k) /\ i \in Class(l) => Class(k) = Class(l)
    OBVIOUS
  <2> HIDE DEF Class
  <2> QED BY <2>1, <2>2 DEF Splits
<1>3. Splits(Groups["note"], included)
  <2> DEFINE Class(k) == {j \in included : <<Segments[j], events[j].note>> = <<Segments[k], events[k].note>>}
  <2>1. /\ \A g \in Groups["note"] : \E k \in included : g = Class(k)
        /\ \A k \in included : Class(k) \in Groups["note"]
    BY DEF Groups, included
  <2>2. /\ \A k \in included : Class(k) \subseteq included /\ k \in Class(k)
        /\ \A k, l, i \in included : i \in Class(k) /\ i \in Class(l) => Class(k) = Class(l)
    OBVIOUS
  <2> HIDE DEF Class
  <2> QED BY <2>1, <2>2 DEF Splits
<1>4. Splits(Groups["lane"], included)
  <2> DEFINE Class(k) == {j \in included : <<Segments[j], LaneOf(j)>> = <<Segments[k], LaneOf(k)>>}
  <2>1. /\ \A g \in Groups["lane"] : \E k \in included : g = Class(k)
        /\ \A k \in included : Class(k) \in Groups["lane"]
    BY DEF Groups, included
  <2>2. /\ \A k \in included : Class(k) \subseteq included /\ k \in Class(k)
        /\ \A k, l, i \in included : i \in Class(k) /\ i \in Class(l) => Class(k) = Class(l)
    OBVIOUS
  <2> HIDE DEF Class
  <2> QED BY <2>1, <2>2 DEF Splits
<1>5. Splits(Groups["grid"], included)
  <2> DEFINE Class(k) == {j \in included : Track[Segments[j]].tick = Track[Segments[k]].tick}
  <2>1. /\ \A g \in Groups["grid"] : \E k \in included : g = Class(k)
        /\ \A k \in included : Class(k) \in Groups["grid"]
    BY DEF Groups, included
  <2>2. /\ \A k \in included : Class(k) \subseteq included /\ k \in Class(k)
        /\ \A k, l, i \in included : i \in Class(k) /\ i \in Class(l) => Class(k) = Class(l)
    OBVIOUS
  <2> HIDE DEF Class
  <2> QED BY <2>1, <2>2 DEF Splits
<1> QED BY <1>1, <1>2, <1>3, <1>4, <1>5

\* Each hit that no gesture claims is in every count just once, for any log.
THEOREM CountedOnce == Spec => []HitsCountOnce
<1>1. HitsCountOnce
  <2>1. Density # <<>> => Density[1] = Cardinality(Observed)
    BY DEF Density
  <2>2. \A i : /\ Cardinality({g \in PerNote : i \in g}) = IF i \in Observed THEN 1 ELSE 0
              /\ Cardinality({g \in PerLane : i \in g}) = IF i \in Observed THEN 1 ELSE 0
    BY SplitByPad, InOneClass
  <2>3. \A kind \in DOMAIN Groups : \A i :
          Cardinality({g \in Groups[kind] : i \in g}) = IF i \in included THEN 1 ELSE 0
    BY SplitByScope, InOneClass
  <2> QED BY <2>1, <2>2, <2>3 DEF HitsCountOnce, Observed, Excluded, included
<1> QED BY <1>1, PTL

-----------------------------------------------------------------------------
(* What ioi pairs *)

\* The hits of a stream that are strokes, as far as hit n
Strokes(stream, n) == {i \in stream : i <= n /\ ~ Excluded(i)}
Intervals(stream, n) ==
  {s \in Strokes(stream, n) \X Strokes(stream, n) :
     s[1] < s[2] /\ \A r \in stream : ~ (s[1] < r /\ r < s[2])}

\* What the loop has found when it is through with hit n
PairedUpTo(acc, stream, n) ==
  /\ acc.prev = 0 => Strokes(stream, n) = {}
  /\ acc.prev # 0 => acc.prev \in Strokes(stream, n) /\ \A i \in Strokes(stream, n) : i <= acc.prev
  /\ acc.barrier <=> acc.prev # 0 /\ \E r \in stream : acc.prev < r /\ r <= n
  /\ acc.rows = Intervals(stream, n)
  /\ IsFiniteSet(Strokes(stream, n)) /\ IsFiniteSet(acc.rows) /\ acc.dropped \in Nat
  /\ acc.dropped + Cardinality(acc.rows) = Larger(Cardinality(Strokes(stream, n)) - 1, 0)

Accs == [rows : SUBSET (Nat \X Nat), dropped : Nat, prev : Nat, barrier : BOOLEAN]

LEMMA Aside ==
  ASSUME NEW stream \in SUBSET (Nat \ {0}), NEW n \in Nat, n + 1 \notin stream \/ Excluded(n + 1)
  PROVE  Strokes(stream, n + 1) = Strokes(stream, n) /\ Intervals(stream, n + 1) = Intervals(stream, n)
<1>1. Strokes(stream, n + 1) = Strokes(stream, n)
  <2>1. \A i \in stream : i <= n + 1 => i <= n \/ i = n + 1
    OBVIOUS
  <2>2. \A i \in stream : i <= n => i <= n + 1
    OBVIOUS
  <2> QED BY <2>1, <2>2 DEF Strokes
<1> QED BY <1>1 DEF Intervals

\* One turn of the loop
LEMMA OneMore ==
  ASSUME NEW stream \in SUBSET (Nat \ {0}), NEW n \in Nat, n + 1 \in stream,
         NEW acc \in Accs, PairedUpTo(acc, stream, n)
  PROVE  Pair(acc, n + 1) \in Accs /\ PairedUpTo(Pair(acc, n + 1), stream, n + 1)
<1> DEFINE m == n + 1
           K == Strokes(stream, n)
           K1 == Strokes(stream, m)
           new == Pair(acc, m)
<1>0. m \in Nat /\ m # 0 /\ n < m /\ acc.prev \in Nat /\ acc.dropped \in Nat /\ acc.barrier \in BOOLEAN
      /\ acc.rows \in SUBSET (Nat \X Nat)
  BY DEF Accs
<1>1. CASE Excluded(m)
  <2>1. new = [rows |-> acc.rows, dropped |-> acc.dropped, prev |-> acc.prev, barrier |-> acc.prev # 0]
    BY <1>1 DEF Pair, Accs
  <2>2. K1 = K /\ Intervals(stream, m) = Intervals(stream, n)
    BY <1>1, Aside
  <2>3. acc.prev # 0 => acc.prev < m /\ m <= m
    BY <1>0 DEF PairedUpTo, Strokes
  <2> HIDE DEF K, K1, new
  <2>4. new \in Accs
    BY <1>0, <2>1 DEF Accs
  <2>5. /\ new.rows = acc.rows /\ new.dropped = acc.dropped /\ new.prev = acc.prev
        /\ new.barrier <=> acc.prev # 0
    BY <2>1
  <2> HIDE DEF m
  <2>6. PairedUpTo(new, stream, m)
    BY <2>2, <2>3, <2>5 DEF PairedUpTo, K, K1, m
  <2> QED BY <2>4, <2>6 DEF new, m
<1>2. CASE ~ Excluded(m)
  <2>1. /\ new.prev = m /\ new.barrier = FALSE
        /\ new.rows = IF acc.prev # 0 /\ ~ acc.barrier THEN acc.rows \cup {<<acc.prev, m>>} ELSE acc.rows
        /\ new.dropped = acc.dropped + (IF acc.prev # 0 /\ acc.barrier THEN 1 ELSE 0)
        /\ new = [rows |-> new.rows, dropped |-> new.dropped, prev |-> new.prev, barrier |-> new.barrier]
    BY <1>2 DEF Pair
  <2>2. K1 = K \cup {m} /\ m \notin K /\ K \subseteq stream /\ \A i \in K : i \in Nat /\ i < m
    <3>1. \A i \in stream : i \in Nat /\ (i <= m <=> i <= n \/ i = m)
      BY <1>0
    <3> HIDE DEF m
    <3>2. K1 = K \cup {m}
      BY <1>0, <1>2, <3>1 DEF Strokes, m
    <3>3. \A i \in K : i \in stream /\ i \in Nat /\ i <= n
      BY <3>1 DEF Strokes
    <3>4. \A i \in K : i < m
      BY <1>0, <3>3
    <3> HIDE DEF K, K1
    <3> QED BY <1>0, <3>2, <3>3, <3>4
  <2> HIDE DEF K, K1, new
  <2>3. new \in Accs
    <3>0. acc.dropped + 1 \in Nat /\ acc.dropped + 0 \in Nat
      BY <1>0
    <3>1. new.dropped \in Nat /\ new.prev \in Nat /\ new.barrier \in BOOLEAN
      BY <1>0, <2>1, <3>0
    <3>2. <<acc.prev, m>> \in Nat \X Nat
      BY <1>0
    <3>3. new.rows \in SUBSET (Nat \X Nat)
      BY <1>0, <2>1, <3>2
    <3>4. ASSUME NEW a \in SUBSET (Nat \X Nat), NEW b \in Nat, NEW c \in Nat, NEW d \in BOOLEAN
          PROVE  [rows |-> a, dropped |-> b, prev |-> c, barrier |-> d] \in Accs
      BY DEF Accs
    <3> HIDE DEF m
    <3>5. [rows |-> new.rows, dropped |-> new.dropped, prev |-> new.prev, barrier |-> new.barrier] \in Accs
      BY <3>1, <3>3, <3>4
    <3> QED BY <2>1, <3>5
  <2>4. ASSUME NEW p \in K
        PROVE  (\A r \in stream : ~ (p < r /\ r < m)) <=> (p = acc.prev /\ ~ acc.barrier)
    <3>1. acc.prev # 0 /\ acc.prev \in K /\ p <= acc.prev /\ acc.prev \in stream
      BY <2>2, <2>4 DEF PairedUpTo, K
    <3>2. p # acc.prev => p < acc.prev /\ acc.prev < m
      <4>1. p \in Nat /\ acc.prev \in Nat /\ acc.prev < m
        BY <1>0, <2>2, <3>1
      <4> QED BY <3>1, <4>1
    <3>3. \A r \in stream : r < m <=> r <= n
      BY <1>0
    <3> QED BY <3>1, <3>2, <3>3 DEF PairedUpTo
  <2>5. Intervals(stream, m) = new.rows
    <3>1. ASSUME NEW s \in Intervals(stream, m) PROVE s \in new.rows
      <4>1. s \in K1 \X K1 /\ s[1] < s[2] /\ \A r \in stream : ~ (s[1] < r /\ r < s[2])
        BY DEF Intervals, K1
      <4>2. CASE s[2] \in K
        <5>1. s[1] \in K
          <6>1. s[1] \in Nat /\ s[2] \in Nat /\ s[2] < m
            BY <1>0, <2>2, <4>1, <4>2
          <6>2. s[1] # m
            BY <1>0, <4>1, <6>1
          <6> QED BY <2>2, <4>1, <6>2
        <5>2. s \in acc.rows
          BY <4>1, <4>2, <5>1 DEF PairedUpTo, Intervals, K
        <5> QED BY <2>1, <5>2
      <4>3. CASE s[2] = m
        <5>1. s[1] \in K /\ s = <<s[1], m>>
          BY <1>0, <2>2, <4>1, <4>3
        <5>2. s[1] = acc.prev /\ ~ acc.barrier /\ acc.prev # 0
          BY <2>4, <4>1, <4>3, <5>1 DEF PairedUpTo, K
        <5> QED BY <2>1, <5>1, <5>2
      <4> QED BY <2>2, <4>1, <4>2, <4>3
    <3>2. ASSUME NEW s \in new.rows PROVE s \in Intervals(stream, m)
      <4>1. CASE s \in acc.rows
        BY <2>2, <4>1 DEF PairedUpTo, Intervals, K, K1
      <4>2. CASE s = <<acc.prev, m>> /\ acc.prev # 0 /\ ~ acc.barrier
        <5>1. acc.prev \in K
          BY <4>2 DEF PairedUpTo, K
        <5>2. acc.prev < m /\ \A r \in stream : ~ (acc.prev < r /\ r < m)
          BY <2>2, <2>4, <4>2, <5>1
        <5>3. s \in K1 \X K1 /\ s[1] = acc.prev /\ s[2] = m
          BY <2>2, <4>2, <5>1
        <5> QED BY <5>2, <5>3 DEF Intervals, K1
      <4> QED BY <2>1, <4>1, <4>2
    <3> QED BY <3>1, <3>2
  <2>6. <<acc.prev, m>> \notin acc.rows
    BY <2>2 DEF PairedUpTo, Intervals, K
  <2>7. /\ IsFiniteSet(K) /\ IsFiniteSet(acc.rows)
        /\ acc.dropped + Cardinality(acc.rows) = Larger(Cardinality(K) - 1, 0)
        /\ acc.prev = 0 <=> K = {}
    BY DEF PairedUpTo, K
  <2>8. /\ IsFiniteSet(K1) /\ Cardinality(K1) = Cardinality(K) + 1
        /\ Cardinality(K) \in Nat /\ Cardinality(acc.rows) \in Nat
        /\ Cardinality(K) = 0 <=> K = {}
    BY <2>2, <2>7, FS_AddElement, FS_CardinalityType, FS_EmptySet
  <2>9. /\ IsFiniteSet(new.rows)
        /\ Cardinality(new.rows) = Cardinality(acc.rows) + (IF acc.prev # 0 /\ ~ acc.barrier THEN 1 ELSE 0)
    <3>1. CASE acc.prev # 0 /\ ~ acc.barrier
      <4>1. new.rows = acc.rows \cup {<<acc.prev, m>>}
        BY <2>1, <3>1
      <4>2. /\ IsFiniteSet(acc.rows \cup {<<acc.prev, m>>})
            /\ Cardinality(acc.rows \cup {<<acc.prev, m>>}) = Cardinality(acc.rows) + 1
        BY <2>6, <2>7, FS_AddElement
      <4> QED BY <3>1, <4>1, <4>2
    <3>2. CASE ~ (acc.prev # 0 /\ ~ acc.barrier)
      <4>1. new.rows = acc.rows /\ Cardinality(acc.rows) + 0 = Cardinality(acc.rows)
        BY <2>1, <2>8, <3>2
      <4> QED BY <2>7, <3>2, <4>1
    <3> QED BY <3>1, <3>2
  <2>10. new.dropped + Cardinality(new.rows) = Larger(Cardinality(K1) - 1, 0)
    <3>1. CASE acc.prev = 0
      BY <1>0, <2>1, <2>7, <2>8, <2>9, <3>1 DEF Larger
    <3>2. CASE acc.prev # 0
      <4>1. new.dropped + Cardinality(new.rows) = acc.dropped + Cardinality(acc.rows) + 1
        BY <1>0, <2>1, <2>8, <2>9, <3>2
      <4> QED BY <1>0, <2>7, <2>8, <3>2, <4>1 DEF Larger
    <3> QED BY <3>1, <3>2
  <2>11. new.dropped \in Nat
    BY <2>3 DEF Accs
  <2>12. /\ m \in K1 /\ \A i \in K1 : i <= m
         /\ ~ \E r \in stream : m < r /\ r <= m
    BY <1>0, <2>2
  <2> HIDE DEF m
  <2>13. PairedUpTo(new, stream, m)
    BY <1>0, <2>1, <2>5, <2>8, <2>9, <2>10, <2>11, <2>12 DEF PairedUpTo, K1
  <2> QED BY <2>3, <2>13 DEF new, m
<1> QED BY <1>1, <1>2

\* The loop over the events as a function that is defined for all of them
Loop(f, stream, n) ==
  /\ f = [i \in 0..n |-> f[i]]
  /\ \A i \in 0..n : f[i] = IF i = 0 THEN NoPair
                           ELSE IF i \in stream THEN Pair(f[i - 1], i) ELSE f[i - 1]

LEMMA LoopExists ==
  ASSUME NEW stream, NEW n \in Nat
  PROVE  \E f : Loop(f, stream, n)
<1> DEFINE bad == {k \in Nat : ~ \E f : Loop(f, stream, k)}
<1>1. SUFFICES ASSUME bad # {} PROVE FALSE
  OBVIOUS
<1>2. PICK k \in bad : \A j \in bad : ~ (<<j, k>> \in OpToRel(<, Nat))
  BY <1>1, NatLessThanWellFounded, WFMin
<1>3. k \in Nat /\ ~ (\E f : Loop(f, stream, k)) /\ \A j \in Nat : j < k => \E f : Loop(f, stream, j)
  BY <1>2 DEF OpToRel
<1> HIDE DEF bad
<1>4. CASE k = 0
  <2> DEFINE f == [i \in 0..0 |-> NoPair]
  <2>1. Loop(f, stream, 0)
    BY DEF Loop
  <2> QED BY <1>3, <1>4, <2>1
<1>5. CASE k # 0
  <2>1. k - 1 \in Nat /\ k - 1 < k
    BY <1>3, <1>5
  <2>2. PICK f : Loop(f, stream, k - 1)
    BY <1>3, <2>1
  <2> DEFINE next == IF k \in stream THEN Pair(f[k - 1], k) ELSE f[k - 1]
             g == [i \in 0..k |-> IF i = k THEN next ELSE f[i]]
  <2> HIDE DEF next
  <2>3. \A i \in 0..k : i = k \/ (i \in 0..(k - 1) /\ i # k)
    BY <1>3
  <2>4. \A i \in 0..k : i # 0 => i - 1 \in 0..k /\ i - 1 # k
    BY <1>3
  <2>5. ASSUME NEW i \in 0..k
        PROVE  g[i] = IF i = 0 THEN NoPair ELSE IF i \in stream THEN Pair(g[i - 1], i) ELSE g[i - 1]
    <3>1. i # 0 => g[i - 1] = f[i - 1]
      BY <2>4
    <3>2. CASE i = k
      BY <1>5, <3>1, <3>2 DEF next
    <3>3. CASE i \in 0..(k - 1) /\ i # k
      BY <2>2, <3>1, <3>3 DEF Loop
    <3> QED BY <2>3, <3>2, <3>3
  <2>6. Loop(g, stream, k)
    BY <2>5 DEF Loop
  <2> QED BY <1>3, <2>6
<1> QED BY <1>4, <1>5

\* What it comes to
LEMMA Paired ==
  ASSUME NEW stream \in SUBSET (1..Len(events)), Len(events) \in Nat
  PROVE  PairedUpTo(Pairs(stream), stream, Len(events))
<1> DEFINE last == Len(events)
           upto == CHOOSE f : f = [i \in 0..last |-> IF i = 0 THEN NoPair
                                     ELSE IF i \in stream THEN Pair(f[i - 1], i) ELSE f[i - 1]]
<1>1. Loop(upto, stream, last)
  <2>1. PICK f : Loop(f, stream, last)
    BY LoopExists
  <2>2. f = [i \in 0..last |-> f[i]]
    BY <2>1 DEF Loop
  <2>3. f = [i \in 0..last |-> IF i = 0 THEN NoPair
                             ELSE IF i \in stream THEN Pair(f[i - 1], i) ELSE f[i - 1]]
    BY <2>1, <2>2 DEF Loop
  <2> HIDE DEF last
  <2>4. upto = [i \in 0..last |-> IF i = 0 THEN NoPair
                             ELSE IF i \in stream THEN Pair(upto[i - 1], i) ELSE upto[i - 1]]
    BY <2>3
  <2> QED BY <2>4 DEF Loop
<1>2. Pairs(stream) = upto[last]
  BY DEF Pairs
<1>3. stream \in SUBSET (Nat \ {0})
  OBVIOUS
<1> HIDE DEF upto
<1> DEFINE Good(n) == upto[n] \in Accs /\ PairedUpTo(upto[n], stream, n)
           bad == {k \in 0..last : ~ Good(k)}
<1>4. SUFFICES ASSUME bad # {} PROVE FALSE
  BY <1>2
<1> HIDE DEF Good
<1>5. PICK k \in bad : \A j \in bad : ~ (<<j, k>> \in OpToRel(<, Nat))
  <2>1. bad \subseteq Nat
    OBVIOUS
  <2> QED BY <1>4, <2>1, NatLessThanWellFounded, WFMin
<1>6. k \in 0..last /\ k \in Nat /\ ~ Good(k) /\ \A j \in 0..last : j < k => Good(j)
  <2>1. k \in 0..last /\ k \in Nat /\ ~ Good(k)
    OBVIOUS
  <2>2. ASSUME NEW j \in 0..last, j < k, ~ Good(j) PROVE FALSE
    <3>1. j \in bad /\ j \in Nat
      BY <2>2
    <3> QED BY <1>5, <2>1, <2>2, <3>1 DEF OpToRel
  <2> QED BY <2>1, <2>2
<1> HIDE DEF bad
<1> USE DEF Good
<1>7. CASE k = 0
  <2>1. upto[0] = NoPair
    BY <1>1 DEF Loop
  <2>2. Strokes(stream, 0) = {} /\ Intervals(stream, 0) = {}
    <3>0. \A i \in stream : ~ (i <= 0)
      OBVIOUS
    <3>1. Strokes(stream, 0) = {}
      BY <3>0 DEF Strokes
    <3> QED BY <3>1 DEF Intervals
  <2>3. /\ NoPair.prev = 0 /\ NoPair.barrier = FALSE /\ NoPair.rows = {} /\ NoPair.dropped = 0
        /\ NoPair \in Accs
    BY DEF NoPair, Accs
  <2>4. Larger(0 - 1, 0) = 0 /\ 0 + 0 = 0
    BY DEF Larger
  <2>5. PairedUpTo(NoPair, stream, 0)
    BY <2>2, <2>3, <2>4, FS_EmptySet DEF PairedUpTo
  <2> QED BY <1>6, <1>7, <2>1, <2>3, <2>5
<1>8. CASE k # 0
  <2> DEFINE n == k - 1
  <2>1. n \in Nat /\ k = n + 1 /\ n \in 0..last /\ n < k
    BY <1>6, <1>8
  <2> HIDE DEF n
  <2>2. Good(n)
    BY <1>6, <2>1
  <2>3. CASE k \in stream
    <3>1. upto[k] = Pair(upto[n], n + 1)
      BY <1>1, <1>6, <1>8, <2>1, <2>3 DEF Loop, n
    <3> QED BY <1>3, <1>6, <2>1, <2>2, <2>3, <3>1, OneMore
  <2>4. CASE k \notin stream
    <3>1. upto[k] = upto[n]
      BY <1>1, <1>6, <1>8, <2>1, <2>4 DEF Loop, n
    <3>2. Strokes(stream, k) = Strokes(stream, n) /\ Intervals(stream, k) = Intervals(stream, n)
      BY <1>3, <2>1, <2>4, Aside
    <3>3. \A r \in stream : r <= k <=> r <= n
      BY <1>3, <2>1, <2>4
    <3>4. PairedUpTo(upto[n], stream, k)
      BY <2>2, <3>2, <3>3 DEF PairedUpTo
    <3> QED BY <1>6, <2>2, <3>1, <3>4
  <2> QED BY <2>3, <2>4
<1> QED BY <1>7, <1>8

\* Two hits make an interval just if nothing of their stream lies between them.
THEOREM PairedAsPlayed == Spec => []PairsAreStrokes
<1>1. IInv => PairsAreStrokes
  <2> SUFFICES ASSUME IInv, NEW stream \in Streams
               PROVE  LET pairs == Pairs(stream)
                          Kept == {i \in stream : ~ Excluded(i)}
                          Neighbours(p, q) == p < q /\ \A r \in stream : ~ (p < r /\ r < q)
                      IN  /\ pairs.rows = {s \in Kept \X Kept : Neighbours(s[1], s[2])}
                          /\ pairs.dropped + Cardinality(pairs.rows) = Larger(Cardinality(Kept) - 1, 0)
    BY DEF PairsAreStrokes
  <2> DEFINE last == Len(events)
  <2>1. DOMAIN events = 1..last /\ last \in Nat
    BY DEF IInv, Types
  <2>2. stream \in SUBSET (1..last)
    BY <2>1 DEF Streams
  <2>3. PairedUpTo(Pairs(stream), stream, last)
    BY <2>1, <2>2, Paired
  <2>4. Strokes(stream, last) = {i \in stream : ~ Excluded(i)}
    <3>1. \A i \in stream : i <= last
      BY <2>1, <2>2
    <3> QED BY <3>1 DEF Strokes
  <2> QED BY <2>3, <2>4 DEF PairedUpTo, Intervals
<1> QED BY <1>1, Placement, PTL
=============================================================================
