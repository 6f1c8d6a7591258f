---------------------------- MODULE BoundedFifo ----------------------------
(***************************************************************************)
(* What the seam between the capture task and the storage task promises    *)
(* (ring.h, first comment): a first-in first-out queue of at most N        *)
(* records.  A push is accepted iff there is room when it takes effect,    *)
(* otherwise it is refused and changes nothing; a pop takes the oldest     *)
(* record.                                                                 *)
(***************************************************************************)
EXTENDS Naturals, Sequences

CONSTANTS
  Data,   \* the records that may be pushed
  N       \* capacity

VARIABLES
  q,      \* the records accepted and not yet popped, oldest first
  got,    \* the result of the latest pop: a set of at most one record
  verdict \* what the latest push was told

fifoVars == <<q, got, verdict>>

FifoInit ==
  /\ q = <<>>
  /\ got = {}
  /\ verdict = "none"

\* mutant: no look at the room there is
AcceptAlways(v) ==
  /\ q' = Append(q, v)
  /\ verdict' = "accepted"
  /\ UNCHANGED got

Accept(v) ==
  /\ Len(q) < N
  /\ q' = Append(q, v)
  /\ verdict' = "accepted"
  /\ UNCHANGED got

Refuse ==
  /\ Len(q) = N
  /\ verdict' = "refused"
  /\ UNCHANGED <<q, got>>

Take ==
  /\ q # <<>>
  /\ q' = Tail(q)
  /\ got' = {Head(q)}
  /\ UNCHANGED verdict

FifoNext == (\E v \in Data : Accept(v)) \/ Refuse \/ Take

FifoSpec == FifoInit /\ [][FifoNext]_fifoVars
=============================================================================
