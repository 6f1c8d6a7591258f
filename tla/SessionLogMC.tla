---------------------------- MODULE SessionLogMC ----------------------------
(* Two sessions of at most three records, a ring of two, one power loss    *)
(* and as many faults as the latch takes.                                  *)
EXTENDS SessionLog
=============================================================================
