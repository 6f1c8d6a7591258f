------------------------------ MODULE Gesture ------------------------------
(***************************************************************************)
(* GestureDetector (gesture.cpp), with gestures enabled: chords of kick    *)
(* and crash, counted into a sequence until it times out.  Times are clock *)
(* milliseconds cut to 32 bits.                                            *)
(***************************************************************************)
EXTENDS Integers

CONSTANTS
  ChordMs,   \* cfg_.chord_window_ms
  SeqGapMs,  \* cfg_.seq_gap_ms
  MsWrap,    \* 2^32
  CountWrap  \* 2^8, for chord_count_

\* A hit that is not part of a chord yet is the set of its time.  Of the fields that
\* are not read before they are set again (seq_t0_ and last_chord_t_ without a
\* chord), nothing is kept.
Reset == [a |-> {}, b |-> {}, count |-> 0, t0 |-> 0, last |-> 0]

Pad == {"a", "b", "other"}  \* "other": another pad, or too soft a hit

\* The window test takes the larger minus the smaller; the gap is a plain
\* uint32_t difference.
Apart(s, t) == IF s > t THEN s - t ELSE t - s

Stale(g, t) == (t - g.last) % MsWrap > SeqGapMs

Earlier(s, t) == IF s < t THEN s ELSE t

\* A chord of hits at ta and tb, complete at t
Chord(g, ta, tb, t) ==
  LET anew == g.count = 0 \/ Stale(g, t)
  IN  [a |-> {}, b |-> {},
       count |-> IF anew THEN 1 ELSE (g.count + 1) % CountWrap,
       t0 |-> IF anew THEN Earlier(ta, tb) ELSE g.t0,
       last |-> t]

Pair(g, t) ==
  IF \E ta \in g.a, tb \in g.b : Apart(ta, tb) <= ChordMs
    THEN Chord(g, CHOOSE ta \in g.a : TRUE, CHOOSE tb \in g.b : TRUE, t)
    ELSE g

\* on_event
Hear(g, pad, t) ==
  CASE pad = "a" -> Pair([g EXCEPT !.a = {t}], t)
    [] pad = "b" -> Pair([g EXCEPT !.b = {t}], t)
    [] OTHER -> g

\* poll(): whether a sequence closes at t (it then leaves Reset), and what it means
Closes(g, t) == g.count > 0 /\ Stale(g, t)

Meaning(g) ==
  CASE g.count = 2 -> "Bookmark"
    [] g.count = 3 -> "GridToggle"
    [] g.count >= 4 -> "EnrollToggle"
    [] OTHER -> "None"
=============================================================================
