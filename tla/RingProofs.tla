----------------------------- MODULE RingProofs -----------------------------
(***************************************************************************)
(* Proofs about Ring for every capacity N, every counter width that is a   *)
(* multiple of it and every set of records.                                *)
(***************************************************************************)
EXTENDS Ring, SequenceTheorems, TLAPS

-----------------------------------------------------------------------------
(* Arithmetic of counters and slots *)

LEMMA WidthType == W \in Nat /\ W > N /\ W >= 2 * N /\ N \in Nat \ {0}
<1>1. N \in Nat \ {0} /\ Laps \in Nat /\ Laps >= 2
  BY RingAssumption
<1>2. Laps * N >= 2 * N
  BY <1>1
<1>3. Laps * N \in Nat
  BY <1>1
<1> QED
  BY <1>1, <1>2, <1>3 DEF W

\* A counter difference is the distance from b up to a round the counter's circle.
LEMMA MinusIs ==
  ASSUME NEW a \in Counter, NEW b \in Counter
  PROVE  Minus(a, b) = IF a >= b THEN a - b ELSE a - b + W
<1>1. W \in Nat \ {0} /\ a \in 0..(W - 1) /\ b \in 0..(W - 1)
  BY WidthType DEF Counter
<1>2. CASE a >= b
  <2>1. a - b \in 0..(W - 1)
    BY <1>1, <1>2
  <2>2. (a - b) % W = a - b
    BY <1>1, <2>1
  <2> QED
    BY <1>2, <2>2 DEF Minus
<1>3. CASE a < b
  <2>1. a - b + W \in 0..(W - 1)
    BY <1>1, <1>3
  <2>2. ASSUME NEW m \in Nat \ {0}, NEW r \in 0..(m - 1)
        PROVE  (m * (-1) + r) % m = r
    OBVIOUS
  <2>3. a - b = W * (-1) + (a - b + W)
    BY <1>1
  <2>4. (W * (-1) + (a - b + W)) % W = a - b + W
    BY <1>1, <2>1, <2>2
  <2>5. (a - b) % W = a - b + W
    BY <2>3, <2>4
  <2> QED
    BY <1>1, <1>3, <2>5 DEF Minus
<1> QED
  BY <1>1, <1>2, <1>3

LEMMA MinusType ==
  ASSUME NEW a \in Counter, NEW b \in Counter
  PROVE  Minus(a, b) \in 0..(W - 1) /\ Minus(a, a) = 0
BY MinusIs, WidthType DEF Counter

LEMMA IncIs ==
  ASSUME NEW a \in Counter
  PROVE  /\ Inc(a) = IF a = W - 1 THEN 0 ELSE a + 1
         /\ Inc(a) \in Counter
<1>1. W \in Nat \ {0} /\ a \in 0..(W - 1)
  BY WidthType DEF Counter
<1>2. CASE a = W - 1
  <2>1. ASSUME NEW m \in Nat \ {0} PROVE m % m = 0
    OBVIOUS
  <2>2. a + 1 = W
    BY <1>1, <1>2
  <2> QED
    BY <1>1, <1>2, <2>1, <2>2 DEF Inc, Counter
<1>3. CASE a # W - 1
  <2>1. a + 1 \in 0..(W - 1)
    BY <1>1, <1>3
  <2>2. (a + 1) % W = a + 1
    BY <1>1, <2>1
  <2> QED
    BY <1>3, <2>1, <2>2 DEF Inc, Counter
<1> QED
  BY <1>2, <1>3

LEMMA SlotType == ASSUME NEW a \in Nat PROVE SlotOf(a) \in Slot
BY WidthType DEF SlotOf, Slot

\* A multiple of n is not strictly between 0 and n.
LEMMA NoMultipleBetween ==
  ASSUME NEW n \in Nat \ {0}, NEW k \in Int
  PROVE  n * k < 1 \/ n * k >= n
<1>1. CASE k <= 0
  <2>1. n * k <= 0
    BY <1>1
  <2> QED
    BY <2>1
<1>2. CASE k >= 1
  <2>1. n * k >= n * 1
    BY <1>2
  <2> QED
    BY <2>1
<1> QED
  BY <1>1, <1>2

\* Two counts less than n apart do not share a slot out of n.
LEMMA ModApart ==
  ASSUME NEW n \in Nat \ {0}, NEW a \in Int, NEW b \in Int, a - b \in 1..(n - 1)
  PROVE  a % n # b % n
<1> DEFINE x == a \div n
           y == b \div n
<1>1. a = n * x + (a % n) /\ x \in Int /\ a % n \in Int
  OBVIOUS
<1>2. b = n * y + (b % n) /\ y \in Int
  OBVIOUS
<1>3. n * x - n * y = n * (x - y)
  <2>1. ASSUME NEW u \in Int, NEW v \in Int PROVE n * u - n * v = n * (u - v)
    OBVIOUS
  <2> QED
    BY <2>1, <1>1, <1>2
<1> HIDE DEF x, y
<1>4. ASSUME a % n = b % n PROVE FALSE
  <2>1. a - b = n * (x - y)
    BY <1>1, <1>2, <1>3, <1>4
  <2>2. x - y \in Int
    BY <1>1, <1>2
  <2>3. n * (x - y) < 1 \/ n * (x - y) >= n
    BY <2>2, NoMultipleBetween
  <2> QED
    BY <2>1, <2>3
<1> QED
  BY <1>4

\* Going round the counter's circle does not change the slot: N divides W.
LEMMA SlotWraps ==
  ASSUME NEW a \in Nat
  PROVE  SlotOf(a + W) = SlotOf(a)
<1>1. N \in Nat \ {0} /\ Laps \in Nat
  BY RingAssumption
<1> DEFINE q == a \div N
           r == a % N
<1>2. a = N * q + r /\ q \in Int /\ r \in 0..(N - 1)
  BY <1>1
<1> HIDE DEF q, r
<1>3. a + W = N * (q + Laps) + r
  BY <1>1, <1>2 DEF W
<1>4. ASSUME NEW n \in Nat \ {0}, NEW k \in Int, NEW s \in 0..(n - 1)
      PROVE  (n * k + s) % n = s
  OBVIOUS
<1>5. (N * (q + Laps) + r) % N = r
  BY <1>1, <1>2, <1>4
<1> QED
  BY <1>3, <1>5 DEF SlotOf, r

\* The slots of two counters less than N apart differ.
LEMMA SlotsDiffer ==
  ASSUME NEW a \in Counter, NEW b \in Counter, Minus(a, b) \in 1..(N - 1)
  PROVE  SlotOf(a) # SlotOf(b)
<1>1. W \in Nat /\ N \in Nat \ {0} /\ a \in Nat /\ b \in Nat
  BY WidthType DEF Counter
<1>2. ASSUME NEW x \in Int, NEW y \in Int, x - y \in 1..(N - 1)
      PROVE  x % N # y % N
  BY <1>1, <1>2, ModApart
<1>3. CASE a >= b
  <2>1. a - b \in 1..(N - 1)
    BY <1>3, MinusIs
  <2> QED
    BY <1>1, <1>2, <2>1 DEF SlotOf
<1>4. CASE ~ (a >= b)
  <2>1. (a + W) - b \in 1..(N - 1)
    BY <1>1, <1>4, MinusIs
  <2>2. PICK x \in Int : x = a + W
    BY <1>1
  <2>3. x - b \in 1..(N - 1) /\ b \in Int
    BY <1>1, <2>1, <2>2
  <2>5. x % N # b % N
    BY <1>2, <2>3
  <2>4. x % N = SlotOf(a)
    BY <1>1, <2>2, SlotWraps DEF SlotOf
  <2> QED
    BY <2>4, <2>5 DEF SlotOf
<1> QED
  BY <1>3, <1>4

\* Advancing a counter that is not a whole circle ahead adds one to its lead.
LEMMA IncLeads ==
  ASSUME NEW a \in Counter, NEW b \in Counter, Minus(a, b) # W - 1
  PROVE  Minus(Inc(a), b) = Minus(a, b) + 1
<1>1. W \in Nat \ {0} /\ a \in 0..(W - 1) /\ b \in 0..(W - 1)
  BY WidthType DEF Counter
<1>2. Inc(a) = (IF a = W - 1 THEN 0 ELSE a + 1) /\ Inc(a) \in Counter
  BY IncIs
<1>3. Minus(a, b) = IF a >= b THEN a - b ELSE a - b + W
  BY MinusIs
<1>4. Minus(Inc(a), b) = IF Inc(a) >= b THEN Inc(a) - b ELSE Inc(a) - b + W
  BY <1>2, MinusIs
<1> QED
  BY <1>1, <1>2, <1>3, <1>4

\* Advancing the counter behind takes one off the lead of the one ahead.
LEMMA IncFollows ==
  ASSUME NEW a \in Counter, NEW b \in Counter, a # b
  PROVE  Minus(a, Inc(b)) = Minus(a, b) - 1
<1>1. W \in Nat \ {0} /\ a \in 0..(W - 1) /\ b \in 0..(W - 1)
  BY WidthType DEF Counter
<1>2. Inc(b) = (IF b = W - 1 THEN 0 ELSE b + 1) /\ Inc(b) \in Counter
  BY IncIs
<1>3. Minus(a, b) = IF a >= b THEN a - b ELSE a - b + W
  BY MinusIs
<1>4. Minus(a, Inc(b)) = IF a >= Inc(b) THEN a - Inc(b) ELSE a - Inc(b) + W
  BY <1>2, MinusIs
<1> QED
  BY <1>1, <1>2, <1>3, <1>4

\* The slots from b on, counted past the wrap, end at the slot of a.
LEMMA SlotAtLead ==
  ASSUME NEW a \in Counter, NEW b \in Counter
  PROVE  SlotOf(b + Minus(a, b)) = SlotOf(a)
<1>1. W \in Nat /\ a \in Nat /\ b \in Nat
  BY WidthType DEF Counter
<1>2. CASE a >= b
  <2>1. b + Minus(a, b) = a
    BY <1>1, <1>2, MinusIs
  <2> QED
    BY <2>1
<1>3. CASE ~ (a >= b)
  <2>1. b + Minus(a, b) = a + W
    BY <1>1, <1>3, MinusIs
  <2> QED
    BY <1>1, <2>1, SlotWraps
<1> QED
  BY <1>2, <1>3

\* A slot i places on from b is not the one of a, as long as a leads b by more
\* than i and by less than a whole round.
LEMMA SlotInside ==
  ASSUME NEW a \in Counter, NEW b \in Counter, NEW i \in Nat,
         i < Minus(a, b), Minus(a, b) < N
  PROVE  SlotOf(b + i) # SlotOf(a)
<1>1. N \in Nat \ {0} /\ b \in Nat /\ Minus(a, b) \in Nat
  BY WidthType, MinusType DEF Counter
<1>2. PICK x \in Int : x = b + Minus(a, b)
  BY <1>1
<1>3. PICK y \in Int : y = b + i
  BY <1>1
<1>4. x - y \in 1..(N - 1)
  BY <1>1, <1>2, <1>3
<1>5. x % N # y % N
  BY <1>1, <1>4, ModApart
<1> QED
  BY <1>2, <1>3, <1>5, SlotAtLead DEF SlotOf

\* Slots counted from the next counter are those counted from this one, one
\* place further on.
LEMMA SlotAfterInc ==
  ASSUME NEW b \in Counter, NEW i \in Nat
  PROVE  SlotOf(Inc(b) + i) = SlotOf(b + (i + 1))
<1>1. W \in Nat /\ b \in Nat
  BY WidthType DEF Counter
<1>2. CASE b = W - 1
  <2>1. Inc(b) + i = i /\ b + (i + 1) = i + W
    BY <1>1, <1>2, IncIs
  <2> QED
    BY <2>1, SlotWraps
<1>3. CASE b # W - 1
  <2>1. Inc(b) + i = b + (i + 1)
    BY <1>1, <1>3, IncIs
  <2> QED
    BY <2>1
<1> QED
  BY <1>2, <1>3

-----------------------------------------------------------------------------
(* The inductive invariant *)

LEMMA InitInv == Init => IndInv
<1> SUFFICES ASSUME Init PROVE IndInv
  OBVIOUS
<1>1. N \in Nat \ {0} /\ W \in Nat /\ W > N /\ 0 \in Counter
  BY WidthType DEF Counter
<1>2. Depth = 0
  BY <1>1, MinusType DEF Init, Depth
<1>3. TypeOK
  BY <1>1 DEF Init, TypeOK
<1>4. StaleCopiesAreSafe
  BY <1>1, <1>2 DEF Init, StaleCopiesAreSafe
<1>5. NothingTornInside
  BY <1>1, <1>2 DEF NothingTornInside
<1>6. CopiesHold
  BY DEF Init, CopiesHold
<1> QED
  BY <1>3, <1>4, <1>5, <1>6 DEF IndInv

\* The facts about counters that every step below uses
LEMMA Facts ==
  ASSUME TypeOK
  PROVE  /\ N \in Nat \ {0} /\ W \in Nat /\ W > N /\ W >= 2 * N
         /\ Depth \in Nat
         /\ Minus(head, pTail) \in Nat /\ Minus(tail, pTail) \in Nat
         /\ Minus(head, cHead) \in Nat /\ Minus(cHead, tail) \in Nat
         /\ SlotOf(head) \in Slot /\ SlotOf(tail) \in Slot
<1>1. /\ head \in Counter /\ tail \in Counter
      /\ pTail \in Counter /\ cHead \in Counter
  BY DEF TypeOK
<1>2. /\ N \in Nat \ {0} /\ W \in Nat /\ W > N /\ W >= 2 * N
      /\ Counter \subseteq Nat
  BY WidthType DEF Counter
<1>3. \A a \in Counter : \A b \in Counter : Minus(a, b) \in Nat
  BY <1>2, MinusType
<1>4. SlotOf(head) \in Slot /\ SlotOf(tail) \in Slot
  BY <1>1, <1>2, SlotType
<1> QED
  BY <1>1, <1>2, <1>3, <1>4 DEF Depth

LEMMA StepInv == IndInv /\ [Next]_vars => IndInv'
<1> SUFFICES ASSUME IndInv, [Next]_vars PROVE IndInv'
  OBVIOUS
<1> USE DEF IndInv
<1>1. /\ N \in Nat \ {0} /\ W \in Nat /\ W > N /\ W >= 2 * N
      /\ Depth \in Nat /\ Depth <= N
      /\ Minus(head, pTail) \in Nat /\ Minus(tail, pTail) \in Nat
      /\ Minus(head, cHead) \in Nat /\ Minus(cHead, tail) \in Nat
      /\ SlotOf(head) \in Slot /\ SlotOf(tail) \in Slot
  BY Facts DEF StaleCopiesAreSafe
<1>2. /\ head \in Counter /\ tail \in Counter
      /\ pTail \in Counter /\ cHead \in Counter
      /\ Counter \subseteq Nat
  BY <1>1 DEF TypeOK, Counter
<1>3. ASSUME NEW v \in Data, PushLoadTail(v) PROVE IndInv'
  <2> USE <1>3 DEF PushLoadTail, consumerVars
  <2>1. TypeOK'
    BY DEF TypeOK
  <2>2. StaleCopiesAreSafe'
    <3>1. Minus(tail, tail) = 0
      BY <1>2, MinusType
    <3> QED
      BY <1>1, <3>1 DEF StaleCopiesAreSafe, Depth
  <2>3. NothingTornInside' /\ CopiesHold'
    BY DEF NothingTornInside, CopiesHold, Depth
  <2> QED
    BY <2>1, <2>2, <2>3
<1>4. ASSUME PushFull PROVE IndInv'
  <2> USE <1>4 DEF PushFull, consumerVars
  <2>1. TypeOK'
    BY DEF TypeOK
  <2>2. StaleCopiesAreSafe' /\ NothingTornInside' /\ CopiesHold'
    BY DEF StaleCopiesAreSafe, NothingTornInside, CopiesHold, Depth, IsFull
  <2> QED
    BY <2>1, <2>2
<1>5. ASSUME PushBeginCopy PROVE IndInv'
  <2> USE <1>5 DEF PushBeginCopy, consumerVars
  <2>1. TypeOK'
    BY <1>1 DEF TypeOK
  <2>2. StaleCopiesAreSafe'
    BY <1>1 DEF StaleCopiesAreSafe, Depth, IsFull
  <2>3. Depth < N
    BY <1>1 DEF StaleCopiesAreSafe, IsFull
  <2>4. ASSUME NEW i \in 0..(N - 1), i < Depth
        PROVE  buf'[SlotOf(tail + i)] \in Data
    <3>1. SlotOf(tail + i) # SlotOf(head)
      BY <1>1, <1>2, <2>3, <2>4, SlotInside DEF Depth
    <3>2. SlotOf(tail + i) \in Slot
      BY <1>1, <1>2, SlotType
    <3> QED
      BY <2>4, <3>1, <3>2 DEF NothingTornInside, TypeOK
  <2>5. NothingTornInside'
    BY <2>4 DEF NothingTornInside, Depth
  <2>6. CopiesHold'
    <3>1. ASSUME cPc = "copied" PROVE SlotOf(tail) # SlotOf(head)
      BY <1>1, <1>2, <2>3, <3>1, SlotsDiffer DEF StaleCopiesAreSafe, Depth
    <3> QED
      BY <1>1, <3>1 DEF CopiesHold, TypeOK
  <2> QED
    BY <2>1, <2>2, <2>5, <2>6
<1>6. ASSUME PushEndCopy PROVE IndInv'
  <2> USE <1>6 DEF PushEndCopy, consumerVars
  <2>1. TypeOK'
    BY <1>1 DEF TypeOK
  <2>2. StaleCopiesAreSafe'
    BY <1>1 DEF StaleCopiesAreSafe, Depth, IsFull
  <2>3. NothingTornInside'
    <3>1. ASSUME NEW i \in 0..(N - 1), i < Depth
          PROVE  buf'[SlotOf(tail + i)] \in Data
      <4>1. SlotOf(tail + i) \in Slot
        BY <1>1, <1>2, SlotType
      <4> QED
        BY <3>1, <4>1 DEF NothingTornInside, TypeOK
    <3> QED
      BY <3>1 DEF NothingTornInside, Depth
  <2>4. CopiesHold'
    <3>1. Depth < N
      BY <1>1 DEF StaleCopiesAreSafe, IsFull
    <3>2. ASSUME cPc = "copied" PROVE SlotOf(tail) # SlotOf(head)
      BY <1>1, <1>2, <3>1, <3>2, SlotsDiffer DEF StaleCopiesAreSafe, Depth
    <3> QED
      BY <1>1, <3>2 DEF CopiesHold, TypeOK
  <2> QED
    BY <2>1, <2>2, <2>3, <2>4
<1>7. ASSUME PushPublish PROVE IndInv'
  <2> USE <1>7 DEF PushPublish, consumerVars
  <2>1. Inc(head) \in Counter
    BY <1>2, IncIs
  <2>2. TypeOK'
    BY <2>1 DEF TypeOK
  <2>3. /\ Minus(head, pTail) < N
        /\ Minus(head, pTail) = Minus(tail, pTail) + Depth
    BY <1>1 DEF StaleCopiesAreSafe, IsFull
  <2>4. Depth' = Depth + 1
    BY <1>1, <1>2, <2>3, IncLeads DEF Depth
  <2>5. Minus(Inc(head), pTail) = Minus(head, pTail) + 1
    BY <1>1, <1>2, <2>3, IncLeads
  <2>6. StaleCopiesAreSafe'
    <3>1. ASSUME cPc = "loaded"
          PROVE  Minus(Inc(head), cHead) = Minus(head, cHead) + 1
      <4>1. Minus(head, cHead) <= Depth
        BY <1>1, <3>1 DEF StaleCopiesAreSafe
      <4> QED
        BY <1>1, <1>2, <2>3, <4>1, IncLeads
    <3> QED
      BY <1>1, <2>3, <2>4, <2>5, <3>1 DEF StaleCopiesAreSafe
  <2>7. NothingTornInside'
    <3>1. ASSUME NEW i \in 0..(N - 1), i < Depth + 1
          PROVE  buf[SlotOf(tail + i)] \in Data
      <4>1. CASE i < Depth
        BY <4>1 DEF NothingTornInside
      <4>2. CASE i = Depth
        BY <1>2, <4>2, SlotAtLead DEF CopiesHold, TypeOK, Depth
      <4> QED
        BY <1>1, <3>1, <4>1, <4>2
    <3> QED
      BY <2>4, <3>1 DEF NothingTornInside
  <2>8. CopiesHold'
    BY DEF CopiesHold
  <2> QED
    BY <2>2, <2>6, <2>7, <2>8
<1>8. ASSUME PushNoteDepth PROVE IndInv'
  <2> USE <1>8 DEF PushNoteDepth, consumerVars
  <2>1. Minus(head, pTail) \in 0..N
    BY <1>1 DEF StaleCopiesAreSafe
  <2>2. TypeOK'
    BY <2>1 DEF TypeOK
  <2>3. StaleCopiesAreSafe' /\ NothingTornInside' /\ CopiesHold'
    BY DEF StaleCopiesAreSafe, NothingTornInside, CopiesHold, Depth, IsFull
  <2> QED
    BY <2>2, <2>3
<1>9. ASSUME PopLoadHead PROVE IndInv'
  <2> USE <1>9 DEF PopLoadHead, producerVars
  <2>1. TypeOK'
    BY DEF TypeOK
  <2>2. Minus(head, head) = 0
    BY <1>2, MinusType
  <2>3. StaleCopiesAreSafe'
    BY <1>1, <2>2 DEF StaleCopiesAreSafe, Depth, IsFull
  <2>4. NothingTornInside' /\ CopiesHold'
    BY DEF NothingTornInside, CopiesHold, Depth
  <2> QED
    BY <2>1, <2>3, <2>4
<1>10. ASSUME PopEmpty PROVE IndInv'
  BY <1>10 DEF PopEmpty, producerVars, TypeOK, StaleCopiesAreSafe,
               NothingTornInside, CopiesHold, Depth, IsFull
<1>11. ASSUME PopBeginCopy PROVE IndInv'
  <2> USE <1>11 DEF PopBeginCopy, producerVars
  <2>1. TypeOK'
    BY DEF TypeOK
  <2>2. Minus(cHead, tail) > 0
    BY <1>1, <1>2, MinusIs DEF IsEmpty, Counter
  <2>3. Depth > 0
    BY <1>1, <2>2 DEF StaleCopiesAreSafe
  <2>4. StaleCopiesAreSafe'
    BY <2>3 DEF StaleCopiesAreSafe, Depth, IsFull
  <2>5. NothingTornInside' /\ CopiesHold'
    BY DEF NothingTornInside, CopiesHold, Depth
  <2> QED
    BY <2>1, <2>4, <2>5
<1>12. ASSUME PopEndCopy PROVE IndInv'
  <2> USE <1>12 DEF PopEndCopy, producerVars
  <2>1. TypeOK'
    BY <1>1 DEF TypeOK
  <2>2. StaleCopiesAreSafe' /\ NothingTornInside' /\ CopiesHold'
    BY DEF StaleCopiesAreSafe, NothingTornInside, CopiesHold, Depth, IsFull
  <2> QED
    BY <2>1, <2>2
<1>13. ASSUME PopRelease PROVE IndInv'
  <2> USE <1>13 DEF PopRelease, producerVars
  <2>1. Depth > 0
    BY DEF StaleCopiesAreSafe
  <2>2. head # tail
    BY <1>2, <2>1, MinusType DEF Depth
  <2>3. Inc(tail) \in Counter
    BY <1>2, IncIs
  <2>4. cOut \in SUBSET Data
    <3>1. buf[SlotOf(tail + 0)] \in Data
      BY <1>1, <2>1 DEF NothingTornInside
    <3> QED
      BY <1>2, <3>1 DEF CopiesHold
  <2>5. TypeOK'
    BY <2>3, <2>4 DEF TypeOK
  <2>6. Depth' = Depth - 1
    BY <1>2, <2>2, IncFollows DEF Depth
  <2>7. StaleCopiesAreSafe'
    <3>1. ASSUME pPc # "idle"
          PROVE  Minus(Inc(tail), pTail) = Minus(tail, pTail) + 1
      <4>1. Minus(tail, pTail) < N
        BY <1>1, <2>1, <3>1 DEF StaleCopiesAreSafe
      <4> QED
        BY <1>1, <1>2, <4>1, IncLeads
    <3> QED
      BY <1>1, <2>1, <2>6, <3>1 DEF StaleCopiesAreSafe, IsFull
  <2>8. NothingTornInside'
    <3>1. ASSUME NEW i \in 0..(N - 1), i < Depth - 1
          PROVE  buf[SlotOf(Inc(tail) + i)] \in Data
      <4>1. i + 1 \in 0..(N - 1) /\ i + 1 < Depth /\ i \in Nat
        BY <1>1, <3>1
      <4>2. buf[SlotOf(tail + (i + 1))] \in Data
        BY <4>1 DEF NothingTornInside
      <4> QED
        BY <1>2, <4>1, <4>2, SlotAfterInc
    <3> QED
      BY <2>6, <3>1 DEF NothingTornInside
  <2>9. CopiesHold'
    BY DEF CopiesHold
  <2> QED
    BY <2>5, <2>7, <2>8, <2>9
<1>14. CASE UNCHANGED vars
  BY <1>14 DEF vars, producerVars, consumerVars, TypeOK, StaleCopiesAreSafe,
               NothingTornInside, CopiesHold, Depth, IsFull
<1> QED
  BY <1>3, <1>4, <1>5, <1>6, <1>7, <1>8, <1>9, <1>10, <1>11, <1>12, <1>13,
     <1>14 DEF Next, Push, Pop

-----------------------------------------------------------------------------
(* What follows from the invariant *)

THEOREM Invariance == Spec => []IndInv
BY InitInv, StepInv, PTL DEF Spec

\* Every word of the ring keeps its type, high_water_ stays within the
\* capacity and what pop() returns is a whole record.
THEOREM TypeCorrect == Spec => []TypeOK
<1>1. IndInv => TypeOK
  BY DEF IndInv
<1> QED
  BY <1>1, Invariance, PTL

\* push() and pop() never have the same slot open at once.
THEOREM SlotExclusion == Spec => []NoSlotRace
<1>1. ASSUME IndInv PROVE NoSlotRace
  <2> SUFFICES ASSUME pPc \in {"copying", "copied"}, cPc \in {"copying", "copied"}
               PROVE  SlotOf(head) # SlotOf(tail)
    BY DEF NoSlotRace
  <2>1. head \in Counter /\ tail \in Counter
    BY <1>1 DEF IndInv, TypeOK
  <2>2. Depth \in 1..(N - 1)
    BY <1>1, Facts DEF IndInv, StaleCopiesAreSafe, IsFull
  <2> QED
    BY <2>1, <2>2, SlotsDiffer DEF Depth
<1> QED
  BY <1>1, Invariance, PTL

\* What high_water() reports is never below the backlog the producer has left
\* behind between two calls of push(), nor above the capacity.
THEOREM HighWater == Spec => []HighWaterBounds
<1>1. Init => HighWaterBounds
  BY WidthType, MinusType DEF Init, HighWaterBounds, Depth, Counter
<1>2. ASSUME IndInv, IndInv', HighWaterBounds, [Next]_vars
      PROVE  HighWaterBounds'
  <2>1. /\ Depth \in Nat /\ Minus(head, pTail) \in Nat /\ N \in Nat
        /\ Minus(tail, pTail) \in Nat /\ high_water \in Nat
        /\ high_water' <= N
    BY <1>2, Facts DEF IndInv, TypeOK
  <2>2. CASE PushNoteDepth
    <3>1. Depth <= Minus(head, pTail)
      BY <1>2, <2>1, <2>2 DEF IndInv, StaleCopiesAreSafe, PushNoteDepth
    <3> QED
      BY <2>1, <2>2, <3>1 DEF PushNoteDepth, HighWaterBounds, Depth, consumerVars
  <2>3. CASE PopRelease
    <3>1. Depth' = Depth - 1
      <4>1. head # tail /\ head \in Counter /\ tail \in Counter
        BY <1>2, <2>3, MinusType
           DEF IndInv, TypeOK, StaleCopiesAreSafe, PopRelease, Depth
      <4> QED
        BY <2>3, <4>1, IncFollows DEF PopRelease, producerVars, Depth
    <3> QED
      BY <1>2, <2>1, <2>3, <3>1 DEF PopRelease, HighWaterBounds, producerVars
  <2>4. CASE ~ PushNoteDepth /\ ~ PopRelease
    <3>1. pPc = "published" => pPc' = "published"
      BY <1>2, <2>4 DEF Next, Push, Pop, PushLoadTail, PushFull, PushBeginCopy,
         PushEndCopy, PushPublish, PopLoadHead, PopEmpty, PopBeginCopy,
         PopEndCopy, producerVars, vars
    <3>2. pPc' = "published" \/ Depth' = Depth
      BY <1>2, <2>4 DEF Next, Push, Pop, PushLoadTail, PushFull, PushBeginCopy,
         PushEndCopy, PushPublish, PopLoadHead, PopEmpty, PopBeginCopy,
         PopEndCopy, producerVars, vars, Depth
    <3>3. high_water' = high_water
      BY <1>2, <2>4 DEF Next, Push, Pop, PushLoadTail, PushFull, PushBeginCopy,
         PushEndCopy, PushPublish, PopLoadHead, PopEmpty, PopBeginCopy,
         PopEndCopy, producerVars, vars
    <3> QED
      BY <1>2, <2>1, <3>1, <3>2, <3>3 DEF HighWaterBounds
  <2> QED
    BY <2>2, <2>3, <2>4
<1> QED
  BY <1>1, <1>2, Invariance, PTL DEF Spec

-----------------------------------------------------------------------------
(* The ring implements the bounded FIFO *)

LEMMA BacklogType ==
  ASSUME IndInv
  PROVE  /\ Backlog \in Seq(Data)
         /\ Len(Backlog) = Depth
         /\ \A i \in 1..Depth : Backlog[i] = buf[SlotOf(tail + i - 1)]
<1>1. Depth \in Nat /\ Depth <= N /\ N \in Nat /\ tail \in Nat
  BY Facts DEF IndInv, StaleCopiesAreSafe, TypeOK, Counter
<1>2. ASSUME NEW i \in 1..Depth PROVE buf[SlotOf(tail + i - 1)] \in Data
  <2>1. i - 1 \in 0..(N - 1) /\ i - 1 < Depth
    BY <1>1
  <2>2. buf[SlotOf(tail + (i - 1))] \in Data
    BY <2>1 DEF IndInv, NothingTornInside
  <2>3. tail + (i - 1) = tail + i - 1
    BY <1>1
  <2> QED
    BY <2>2, <2>3
<1> QED
  BY <1>1, <1>2 DEF Backlog

\* The backlog does not change while neither end moves: the slot a push writes
\* is outside it.
LEMMA BacklogStays ==
  ASSUME IndInv, head' = head, tail' = tail,
         \/ buf' = buf
         \/ /\ Depth < N
            /\ \E d \in Data \cup {Torn} : buf' = [buf EXCEPT ![SlotOf(head)] = d]
  PROVE  Backlog' = Backlog
<1>1. Depth' = Depth
  BY DEF Depth
<1>2. /\ Depth \in Nat /\ N \in Nat \ {0} /\ tail \in Nat
      /\ head \in Counter /\ tail \in Counter
      /\ buf \in [Slot -> Data \cup {Torn}]
  BY Facts DEF IndInv, TypeOK, Counter
<1>3. ASSUME NEW i \in 1..Depth
      PROVE  buf'[SlotOf(tail + i - 1)] = buf[SlotOf(tail + i - 1)]
  <2>1. i - 1 \in Nat /\ i - 1 < Depth /\ tail + (i - 1) = tail + i - 1
    BY <1>2
  <2>2. Depth < N => SlotOf(tail + i - 1) # SlotOf(head)
    <3>1. Depth < N => SlotOf(tail + (i - 1)) # SlotOf(head)
      BY <1>2, <2>1, SlotInside DEF Depth
    <3> QED
      BY <2>1, <3>1
  <2>3. SlotOf(tail + i - 1) \in Slot
    BY <1>2, <2>1, SlotType
  <2> QED
    BY <1>2, <2>2, <2>3
<1>4. Backlog' = [i \in 1..Depth |-> buf'[SlotOf(tail + i - 1)]]
  BY <1>1 DEF Backlog
<1> QED
  BY <1>3, <1>4 DEF Backlog

\* Every step of the ring is a step of the queue or invisible to it.  A push
\* is accepted where head_ is stored and refused where tail_ is loaded.
LEMMA StepFifo ==
  ASSUME IndInv, IndInv', [Next]_vars
  PROVE  [Fifo!FifoNext]_(Fifo!fifoVars)
<1> USE DEF Fifo!FifoNext, Fifo!fifoVars, Told
<1>1. /\ Depth \in Nat /\ Depth <= N /\ N \in Nat \ {0} /\ tail \in Nat
      /\ W \in Nat /\ W >= 2 * N
      /\ head \in Counter /\ tail \in Counter /\ pTail \in Counter
      /\ Minus(head, pTail) \in Nat /\ Minus(tail, pTail) \in Nat
  BY Facts DEF IndInv, StaleCopiesAreSafe, TypeOK, Counter
<1>2. /\ Backlog \in Seq(Data) /\ Len(Backlog) = Depth
      /\ \A i \in 1..Depth : Backlog[i] = buf[SlotOf(tail + i - 1)]
  BY BacklogType
<1>3. ASSUME NEW v \in Data, PushLoadTail(v)
      PROVE  Fifo!Refuse \/ UNCHANGED Fifo!fifoVars
  <2> USE <1>3 DEF PushLoadTail, consumerVars
  <2>1. Backlog' = Backlog
    BY BacklogStays
  <2>2. CASE IsFull(tail)
    <3>1. Depth = N
      BY <1>1, <2>2 DEF IsFull, Depth
    <3>2. Told' = "refused"
      BY <2>2 DEF IsFull
    <3> QED
      BY <1>2, <2>1, <3>1, <3>2 DEF Fifo!Refuse
  <2>3. CASE ~ IsFull(tail)
    BY <2>1, <2>3 DEF IsFull
  <2> QED
    BY <2>2, <2>3
<1>4. ASSUME PushFull PROVE UNCHANGED Fifo!fifoVars
  BY <1>4, BacklogStays DEF PushFull, consumerVars
<1>5. ASSUME PushBeginCopy PROVE UNCHANGED Fifo!fifoVars
  <2>1. Depth < N
    BY <1>1, <1>5 DEF PushBeginCopy, IndInv, StaleCopiesAreSafe, IsFull
  <2> QED
    BY <1>5, <2>1, BacklogStays DEF PushBeginCopy, consumerVars
<1>6. ASSUME PushEndCopy PROVE UNCHANGED Fifo!fifoVars
  <2>1. Depth < N
    BY <1>1, <1>6 DEF PushEndCopy, IndInv, StaleCopiesAreSafe, IsFull
  <2>2. pVal \in Data
    BY DEF IndInv, TypeOK
  <2> QED
    BY <1>6, <2>1, <2>2, BacklogStays DEF PushEndCopy, consumerVars
<1>7. ASSUME PushPublish PROVE Fifo!Accept(pVal)
  <2> USE <1>7 DEF PushPublish, consumerVars
  <2>1. Minus(head, pTail) < N /\ Depth < N
    BY <1>1 DEF IndInv, StaleCopiesAreSafe, IsFull
  <2>2. Depth' = Depth + 1
    BY <1>1, <2>1, IncLeads DEF Depth
  <2>3. SlotOf(tail + (Depth + 1) - 1) = SlotOf(head)
    <3>1. tail + (Depth + 1) - 1 = tail + Depth
      BY <1>1
    <3> QED
      BY <1>1, <3>1, SlotAtLead DEF Depth
  <2>4. Backlog' = [i \in 1..(Depth + 1) |-> buf[SlotOf(tail + i - 1)]]
    BY <2>2 DEF Backlog
  <2>5. Backlog' = Append(Backlog, pVal)
    <3>1. pVal = buf[SlotOf(head)] /\ pVal \in Data
      BY DEF IndInv, CopiesHold, TypeOK
    <3>2. Append(Backlog, pVal)
            = [i \in 1..(Depth + 1) |-> IF i = Depth + 1 THEN pVal ELSE Backlog[i]]
      BY <1>1, <1>2, <3>1
    <3>3. ASSUME NEW i \in 1..(Depth + 1)
          PROVE  buf[SlotOf(tail + i - 1)]
                   = IF i = Depth + 1 THEN pVal ELSE Backlog[i]
      <4>1. CASE i = Depth + 1
        BY <2>3, <3>1, <4>1
      <4>2. CASE i # Depth + 1
        <5>1. i \in 1..Depth
          BY <1>1, <4>2
        <5> QED
          BY <1>2, <4>2, <5>1
      <4> QED
        BY <4>1, <4>2
    <3> QED
      BY <2>4, <3>2, <3>3
  <2> QED
    BY <1>2, <2>1, <2>5 DEF Fifo!Accept
<1>8. ASSUME PushNoteDepth PROVE UNCHANGED Fifo!fifoVars
  BY <1>8, BacklogStays DEF PushNoteDepth, consumerVars
<1>9. ASSUME PopLoadHead \/ PopEmpty \/ PopBeginCopy \/ PopEndCopy
      PROVE  UNCHANGED Fifo!fifoVars
  BY <1>9, BacklogStays
     DEF PopLoadHead, PopEmpty, PopBeginCopy, PopEndCopy, producerVars, IsFull
<1>10. ASSUME PopRelease PROVE Fifo!Take
  <2> USE <1>10 DEF PopRelease, producerVars
  <2>1. Depth > 0 /\ head # tail
    BY <1>1, MinusType DEF IndInv, StaleCopiesAreSafe, Depth
  <2>2. Depth' = Depth - 1
    BY <1>1, <2>1, IncFollows DEF Depth
  <2>3. Backlog' = [i \in 1..(Depth - 1) |-> buf[SlotOf(Inc(tail) + i - 1)]]
    BY <2>2 DEF Backlog
  <2>4. Tail(Backlog) = [i \in 1..(Depth - 1) |-> Backlog[i + 1]]
    <3>1. Backlog # <<>>
      BY <1>2, <2>1
    <3>2. /\ Tail(Backlog) \in Seq(Data) /\ Len(Tail(Backlog)) = Depth - 1
          /\ \A i \in 1..(Depth - 1) : Tail(Backlog)[i] = Backlog[i + 1]
      BY <1>2, <3>1, HeadTailProperties
    <3>3. ASSUME NEW s \in Seq(Data) PROVE s = [i \in 1..Len(s) |-> s[i]]
      OBVIOUS
    <3>4. Tail(Backlog) = [i \in 1..(Depth - 1) |-> Tail(Backlog)[i]]
      BY <3>2, <3>3
    <3> QED
      BY <3>2, <3>4
  <2>5. ASSUME NEW i \in 1..(Depth - 1)
        PROVE  buf[SlotOf(Inc(tail) + i - 1)] = Backlog[i + 1]
    <3>1. i - 1 \in Nat /\ i + 1 \in 1..Depth /\ (i - 1) + 1 = i
      BY <1>1
    <3>2. SlotOf(Inc(tail) + (i - 1)) = SlotOf(tail + i)
      BY <1>1, <3>1, SlotAfterInc
    <3>3. /\ Inc(tail) + (i - 1) = Inc(tail) + i - 1
          /\ tail + (i + 1) - 1 = tail + i
      BY <1>1, <3>1, IncIs
    <3> QED
      BY <1>2, <3>1, <3>2, <3>3
  <2>6. Backlog' = Tail(Backlog)
    BY <2>3, <2>4, <2>5
  <2>7. Head(Backlog) = buf[SlotOf(tail)]
    <3>1. tail + 1 - 1 = tail
      BY <1>1
    <3>2. Backlog[1] = buf[SlotOf(tail + 1 - 1)]
      BY <1>1, <1>2, <2>1
    <3> QED
      BY <1>2, <3>1, <3>2
  <2>8. got' = {Head(Backlog)}
    BY <2>7 DEF IndInv, CopiesHold
  <2>9. Backlog # <<>>
    BY <1>2, <2>1
  <2>10. Told' = Told
    BY DEF IsFull
  <2> QED
    BY <2>6, <2>8, <2>9, <2>10 DEF Fifo!Take
<1>11. CASE UNCHANGED vars
  BY <1>11, BacklogStays DEF vars, producerVars, consumerVars, IsFull
<1> QED
  BY <1>3, <1>4, <1>5, <1>6, <1>7, <1>8, <1>9, <1>10, <1>11
     DEF Next, Push, Pop, IndInv, TypeOK

\* SpscRing is a bounded FIFO of N records for one producer and one consumer.
THEOREM Implements == Spec => ImplementsFifo
<1>1. Init => Fifo!FifoInit
  <2> SUFFICES ASSUME Init PROVE Fifo!FifoInit
    OBVIOUS
  <2>1. Depth = 0
    BY WidthType, MinusType DEF Init, Depth, Counter
  <2>2. Backlog \in Seq(Data) /\ Len(Backlog) = 0
    BY <2>1, InitInv, BacklogType
  <2>3. Backlog = <<>>
    BY <2>2
  <2> QED
    BY <2>3 DEF Init, Fifo!FifoInit, Told
<1> QED
  BY <1>1, Invariance, StepFifo, PTL DEF Spec, ImplementsFifo, Fifo!FifoSpec
=============================================================================
