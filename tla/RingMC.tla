------------------------------- MODULE RingMC -------------------------------
(* Two records, two slots and counters that wrap after eight pushes: four  *)
(* times round the slots.                                                  *)
EXTENDS Ring, TLC

CONSTANTS r1, r2
=============================================================================
