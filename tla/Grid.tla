-------------------------------- MODULE Grid --------------------------------
(***************************************************************************)
(* engine/grid.py: the lattice of ticks that a declared span is graded     *)
(* against.  A tick is a whole number of units here, 60000 / bpm / subdiv  *)
(* there, and the arithmetic exact.                                        *)
(***************************************************************************)
EXTENDS Integers, Sequences

\* math.ceil(a / b), b > 0
Ceil(a, b) == -((-a) \div b)

\* mutant: rounding to the nearest index sends a tie to the later line
NearestIndexRounding(t, tick, downbeat) == (2 * (t - downbeat) + tick) \div (2 * tick)

\* nearest_gridline: k = ceil((t - downbeat) / tick - 0.5) and the line itself
NearestIndex(t, tick, downbeat) == Ceil(2 * (t - downbeat) - tick, 2 * tick)
Line(k, tick, downbeat) == downbeat + k * tick
Deviation(t, tick, downbeat) == t - Line(NearestIndex(t, tick, downbeat), tick, downbeat)

\* gridlines_in, and beats_in with a beat for a tick: the lines in [start, end),
\* from index Ceil(start - downbeat, tick) for as long as they lie before the end
LinesIn(start, end, tick, downbeat) ==
  {Line(k, tick, downbeat) : k \in {j \in Ceil(start - downbeat, tick) ..
                                          Ceil(end - downbeat, tick) :
                                        Line(j, tick, downbeat) < end}}

InSegment(t, seg) == seg.start <= t /\ t <= seg.end

\* segment_for: the last segment that t is in, as its index; 0 is free play
SegmentFor(t, track) ==
  LET in == {i \in DOMAIN track : InSegment(t, track[i])}
  IN  IF in = {} THEN 0 ELSE CHOOSE i \in in : \A j \in in : j <= i
=============================================================================
