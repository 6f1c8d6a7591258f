-------------------------------- MODULE Ring --------------------------------
(***************************************************************************)
(* SpscRing (ring.h), the only channel between the two cores: the capture  *)
(* task pushes, the storage task pops, and neither takes a lock.  Every    *)
(* access to a shared word is a step of its own.  head and tail run freely *)
(* and wrap at the counter width; a counter read earlier is as stale as    *)
(* an acquire load may be.  A record is copied into and out of its slot    *)
(* in two steps, so that a torn copy would be seen.                        *)
(***************************************************************************)
EXTENDS Integers, Sequences

CONSTANTS
  Data,   \* the records that are pushed
  Torn,   \* what a slot holds while a record is being copied into it
  N,      \* slots; a power of two in the code, which makes it divide W
  Laps    \* how often a counter goes round the slots before it wraps

\* A power of two that does not exceed the counter width divides it, which is
\* all that the static_assert on N is for.
ASSUME RingAssumption ==
  /\ N \in Nat \ {0}
  /\ Laps \in Nat \ {0, 1}
  /\ Torn \notin Data

\* Counters are taken modulo W, 2^32 in the code.
W == Laps * N

VARIABLES
  buf,        \* buf_
  head, tail, \* head_, tail_
  high_water, \* high_water_
  pPc,        \* where the producer is inside push()
  pVal,       \* push's argument
  pTail,      \* push's local copy of tail_
  cPc,        \* where the consumer is inside pop()
  cHead,      \* pop's local copy of head_
  cOut,       \* pop's output parameter: a set of at most one record
  got,        \* what the latest successful pop() returned
  verdict     \* what the latest push() returned

producerVars == <<pPc, pVal, pTail, verdict, high_water>>
consumerVars == <<cPc, cHead, cOut, got>>
vars == <<buf, head, tail, producerVars, consumerVars>>

Slot == 0..(N - 1)
Counter == 0..(W - 1)

\* uint32_t subtraction and increment
Minus(a, b) == (a - b) % W
Inc(a) == (a + 1) % W
SlotOf(a) == a % N

Depth == Minus(head, tail)

\* The two tests: push() compares its copy of tail_, pop() its copy of head_.
IsFullLate(t) == Minus(head, t) > N             \* mutant: one slot too many
IsFull(t) == Minus(head, t) >= N
IsEmptyEarly(h) == Minus(h, tail) <= 1          \* mutant: leaves one behind
IsEmpty(h) == h = tail

Init ==
  /\ buf \in [Slot -> {Torn}]
  /\ head = 0 /\ tail = 0 /\ high_water = 0
  /\ pPc = "idle" /\ pVal \in Data /\ pTail = 0
  /\ cPc = "idle" /\ cHead = 0 /\ cOut = {}
  /\ got = {} /\ verdict = "none"

-----------------------------------------------------------------------------
(* push(): the capture task *)

PushLoadTail(v) ==
  /\ pPc = "idle"
  /\ pVal' = v
  /\ pTail' = tail
  /\ pPc' = "loaded"
  /\ UNCHANGED <<buf, head, tail, high_water, verdict, consumerVars>>

PushFull ==
  /\ pPc = "loaded"
  /\ IsFull(pTail)
  /\ verdict' = "refused"
  /\ pPc' = "idle"
  /\ UNCHANGED <<buf, head, tail, high_water, pVal, pTail, consumerVars>>

PushBeginCopy ==
  /\ pPc = "loaded"
  /\ ~ IsFull(pTail)
  /\ buf' = [buf EXCEPT ![SlotOf(head)] = Torn]
  /\ pPc' = "copying"
  /\ UNCHANGED <<head, tail, high_water, pVal, pTail, verdict, consumerVars>>

\* mutant: the record goes to the slot after the one that was tested
PushPastEnd ==
  /\ pPc = "copying"
  /\ buf' = [buf EXCEPT ![SlotOf(head + 1)] = pVal]
  /\ pPc' = "copied"
  /\ UNCHANGED <<head, tail, high_water, pVal, pTail, verdict, consumerVars>>

PushEndCopy ==
  /\ pPc = "copying"
  /\ buf' = [buf EXCEPT ![SlotOf(head)] = pVal]
  /\ pPc' = "copied"
  /\ UNCHANGED <<head, tail, high_water, pVal, pTail, verdict, consumerVars>>

PushPublish ==
  /\ pPc = "copied"
  /\ head' = Inc(head)
  /\ verdict' = "accepted"
  /\ pPc' = "published"
  /\ UNCHANGED <<buf, tail, high_water, pVal, pTail, consumerVars>>

\* mutant: the record just pushed is not counted
PushNoteOldDepth ==
  /\ pPc = "published"
  /\ high_water' = LET depth == Minus(head, pTail) - 1
                   IN  IF depth > high_water THEN depth ELSE high_water
  /\ pPc' = "idle"
  /\ UNCHANGED <<buf, head, tail, pVal, pTail, verdict, consumerVars>>

\* depth is computed from the locals: the head before the store, plus one
PushNoteDepth ==
  /\ pPc = "published"
  /\ high_water' = LET depth == Minus(head, pTail)
                   IN  IF depth > high_water THEN depth ELSE high_water
  /\ pPc' = "idle"
  /\ UNCHANGED <<buf, head, tail, pVal, pTail, verdict, consumerVars>>

-----------------------------------------------------------------------------
(* pop(): the storage task *)

PopLoadHead ==
  /\ cPc = "idle"
  /\ cHead' = head
  /\ cPc' = "loaded"
  /\ UNCHANGED <<buf, head, tail, cOut, got, producerVars>>

PopEmpty ==
  /\ cPc = "loaded"
  /\ IsEmpty(cHead)
  /\ cPc' = "idle"
  /\ UNCHANGED <<buf, head, tail, cHead, cOut, got, producerVars>>

\* mutant: pop() does not look whether there is anything
PopUntested ==
  /\ cPc = "loaded"
  /\ cPc' = "copying"
  /\ UNCHANGED <<buf, head, tail, cHead, cOut, got, producerVars>>

PopBeginCopy ==
  /\ cPc = "loaded"
  /\ ~ IsEmpty(cHead)
  /\ cPc' = "copying"
  /\ UNCHANGED <<buf, head, tail, cHead, cOut, got, producerVars>>

PopEndCopy ==
  /\ cPc = "copying"
  /\ cOut' = {buf[SlotOf(tail)]}
  /\ cPc' = "copied"
  /\ UNCHANGED <<buf, head, tail, cHead, got, producerVars>>

PopRelease ==
  /\ cPc = "copied"
  /\ tail' = Inc(tail)
  /\ got' = cOut
  /\ cPc' = "idle"
  /\ UNCHANGED <<buf, head, cHead, cOut, producerVars>>

-----------------------------------------------------------------------------
Push ==
  \/ \E v \in Data : PushLoadTail(v)
  \/ PushFull \/ PushBeginCopy \/ PushEndCopy \/ PushPublish \/ PushNoteDepth

Pop == PopLoadHead \/ PopEmpty \/ PopBeginCopy \/ PopEndCopy \/ PopRelease

Next == Push \/ Pop

Spec == Init /\ [][Next]_vars

\* storage_task pops in an endless loop and never blocks on anything else
FairSpec == Spec /\ WF_vars(Pop)

-----------------------------------------------------------------------------
TypeOK ==
  /\ buf \in [Slot -> Data \cup {Torn}]
  /\ head \in Counter /\ tail \in Counter
  /\ high_water \in 0..N
  /\ pPc \in {"idle", "loaded", "copying", "copied", "published"}
  /\ pVal \in Data /\ pTail \in Counter
  /\ cPc \in {"idle", "loaded", "copying", "copied"}
  /\ cHead \in Counter
  /\ cOut \in SUBSET (Data \cup {Torn})
  /\ got \in SUBSET Data
  /\ verdict \in {"none", "accepted", "refused"}

\* The two cores are never inside the same slot at once, whatever the
\* interleaving, the staleness of their counters and the wrap of the counters:
\* the absence of locks in push() and pop() is sound.
NoSlotRace ==
  ~ /\ pPc \in {"copying", "copied"}
    /\ cPc \in {"copying", "copied"}
    /\ SlotOf(head) = SlotOf(tail)

\* A record that is between tail and head is complete: the consumer can never
\* pick up a half-written one (the release store of head comes after the copy).
NothingTornInside ==
  \A i \in 0..(N - 1) :
    i < Depth => buf[SlotOf(tail + i)] \in Data

\* A counter read earlier errs on the safe side.  The producer's copy of tail_
\* never runs ahead of tail_, so that what it takes for the backlog is at least
\* the backlog; the consumer's copy of head_ never runs ahead of head_, so that
\* what it finds there is there: a wrap of the counters between the load and
\* the test does not upset either comparison in push() and pop().
StaleCopiesAreSafe ==
  /\ Depth <= N
  /\ pPc # "idle" =>
       /\ Minus(head, pTail) = Minus(tail, pTail) + Depth
       /\ Minus(head, pTail) <= N
  /\ pPc \in {"copying", "copied"} => ~ IsFull(pTail)
  /\ cPc = "loaded" => Minus(head, cHead) + Minus(cHead, tail) = Depth
  /\ cPc \in {"copying", "copied"} => Depth > 0

\* What has been copied stays as it was copied until it is published or
\* released.
CopiesHold ==
  /\ pPc = "copied" => buf[SlotOf(head)] = pVal
  /\ cPc = "copied" => cOut = {buf[SlotOf(tail)]}

\* The inductive invariant of the proofs in RingProofs
IndInv == TypeOK /\ StaleCopiesAreSafe /\ NothingTornInside /\ CopiesHold

\* high_water() never overstates the capacity and, when the producer is
\* between calls, is at least the present backlog ("deepest backlog ever
\* observed"): the two locals of push() are what makes it an upper bound.
HighWaterBounds ==
  /\ high_water <= N
  /\ pPc \notin {"published"} => Depth <= high_water

\* The ring is a bounded FIFO.  A refused push takes effect when the producer
\* loads tail_, since the ring is full then, though it may no longer be when
\* push() returns; an accepted one when head_ is stored; a pop when tail_ is.
Backlog == [i \in 1..Depth |-> buf[SlotOf(tail + i - 1)]]
Told == IF pPc = "loaded" /\ IsFull(pTail) THEN "refused" ELSE verdict

Fifo == INSTANCE BoundedFifo WITH q <- Backlog, verdict <- Told
ImplementsFifo == Fifo!FifoSpec

\* Nothing accepted stays in the ring for ever: the storage task's loop takes
\* every record that push() has accepted.
Delivered ==
  \A v \in Data : (\E i \in 1..Depth : Backlog[i] = v) ~> (got = {v})
=============================================================================
