----------------------------- MODULE GradingMC -----------------------------
(* Four hits on two pads and two other records, in every order.            *)
EXTENDS Grading

TwoGrids == {[tick |-> 2, lead |-> 1], [tick |-> 3, lead |-> 0]}
Profile == [snare |-> "SNARE"]
=============================================================================
