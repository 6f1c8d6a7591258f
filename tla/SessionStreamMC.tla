-------------------------- MODULE SessionStreamMC --------------------------
(* Two controllers with two positions, one tempo, a clock of 2 us to the   *)
(* millisecond; the pause and idle limits fall well inside the clock's     *)
(* range, so that a session can pause, resume, idle out and be followed by *)
(* another one.                                                            *)
EXTENDS SessionStream, TLC

CONSTANTS hat, wheel, v1, v2, unset, anon, bpm

\* A gesture whose two ends are apart, and apart from its declaration
Lags == {<<3, 1>>}

CtrlSymmetry == Permutations(Ctrl) \cup Permutations(Val)
=============================================================================
