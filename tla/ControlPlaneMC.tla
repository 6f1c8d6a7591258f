--------------------------- MODULE ControlPlaneMC ---------------------------
(* One tempo of 1.5 us to the beat, so that beats are rounded; the first   *)
(* one comes with the command, so that the clock gets to 2 us after it,    *)
(* where the two roundings disagree.  A click that is started again        *)
(* differs from the one before in its anchor.  The two hits of a chord may *)
(* be a millisecond apart, a sequence is over in the millisecond after its *)
(* last chord, and silence ends a session one later.  The queue takes one  *)
(* message, so that the second one posted after a change of the click may  *)
(* find it full.  There is no controller: what their messages do to a      *)
(* session is the session run's.                                           *)
EXTENDS ControlPlane

CONSTANTS anon

GestureLags == (1..MaxUs) \X (1..MaxUs)
=============================================================================
