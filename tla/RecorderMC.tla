----------------------------- MODULE RecorderMC -----------------------------
(* Three records, two Ctrl-C and two failing flushes, at any moment.       *)
EXTENDS Recorder
=============================================================================
