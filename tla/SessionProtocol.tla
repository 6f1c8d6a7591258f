-------------------------- MODULE SessionProtocol --------------------------
(***************************************************************************)
(* What the capture task's record stream promises to everything behind it  *)
(* (session_fsm.h): sessions follow one another; each is one start at      *)
(* stamp 0, records whose stamps never go back, and one end.               *)
(***************************************************************************)
EXTENDS Naturals

CONSTANT Time   \* the stamps there are

VARIABLES
  live,  \* a session is open
  mark,  \* its latest stamp
  sent   \* the record of this step: its kind and stamp

protoVars == <<live, mark, sent>>

Nothing == [kind |-> "none", t |-> 0]

ProtoInit == live = FALSE /\ mark = 0 /\ sent = Nothing

Begin ==
  /\ ~ live
  /\ live' = TRUE
  /\ mark' = 0
  /\ sent' = [kind |-> "start", t |-> 0]

Record ==
  /\ live
  /\ live' = live
  /\ \E t \in Time :
       /\ mark <= t
       /\ mark' = t
       /\ sent' = [kind |-> "body", t |-> t]

End ==
  /\ live
  /\ live' = FALSE
  /\ \E t \in Time :
       /\ mark <= t
       /\ mark' = t
       /\ sent' = [kind |-> "end", t |-> t]

\* Time is noted without a record.
Quiet ==
  /\ live' = live
  /\ \E t \in Time : mark <= t /\ mark' = t
  /\ sent' = Nothing

ProtoNext == Begin \/ Record \/ End \/ Quiet

ProtoSpec == ProtoInit /\ [][ProtoNext]_protoVars
=============================================================================
