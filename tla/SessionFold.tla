---------------------------- MODULE SessionFold ----------------------------
(***************************************************************************)
(* reduce_session (engine/session.py): the brain's fold of a session log.  *)
(* Read(s, rec) is one turn of its loop, AtEnd(s) what it still finds when *)
(* the records run out.  The lists it builds (events, segments, bookmarks) *)
(* are reduced to the span that is open, and the warnings to the set of    *)
(* their kinds.                                                            *)
(***************************************************************************)
EXTENDS Integers

\* An open span is the set of the start times of the declaration in force.
Fresh == [last |-> 0, grid |-> {}, enroll |-> {}, ended |-> FALSE, warned |-> {}]

Warning == {"non-monotonic t", "record after session_end",
            "unmatched grid_end", "unmatched enroll_end",
            "grid_end before its grid_start",
            "enroll_start while one open",
            "open grid span auto-closed", "open enrollment span auto-closed"}

\* What is wrong with a record before its type is looked at
Suspicious(s, rec) ==
  (IF rec.t < s.last THEN {"non-monotonic t"} ELSE {})
    \cup (IF s.ended THEN {"record after session_end"} ELSE {})

\* A grid_start inside a span closes it there: the param-change rule, no warning
OfType(s, rec) ==
  CASE rec.type = "GridEnd" /\ s.grid = {} -> {"unmatched grid_end"}
    [] rec.type = "GridEnd" /\ (\E t \in s.grid : rec.t < t) ->
         {"grid_end before its grid_start"}
    [] rec.type = "EnrollEnd" /\ s.enroll = {} -> {"unmatched enroll_end"}
    [] rec.type = "EnrollStart" /\ s.enroll # {} -> {"enroll_start while one open"}
    [] OTHER -> {}

Read(s, rec) ==
  [last   |-> IF rec.t > s.last THEN rec.t ELSE s.last,
   grid   |-> CASE rec.type = "GridStart" -> {rec.t}
                [] rec.type = "GridEnd" -> {}
                [] OTHER -> s.grid,
   enroll |-> CASE rec.type = "EnrollStart" -> {rec.t}
                [] rec.type = "EnrollEnd" -> {}
                [] OTHER -> s.enroll,
   ended  |-> rec.type = "SessionEnd",
   warned |-> s.warned \cup Suspicious(s, rec) \cup OfType(s, rec)]

\* Spans that were never closed are closed at the last event in them
AtEnd(s) ==
  s.warned \cup (IF s.grid # {} THEN {"open grid span auto-closed"} ELSE {})
           \cup (IF s.enroll # {} THEN {"open enrollment span auto-closed"} ELSE {})
=============================================================================
