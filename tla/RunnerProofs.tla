---------------------------- MODULE RunnerProofs ----------------------------
(***************************************************************************)
(* Proofs about Runner, for any registry: any number of analyzers, however *)
(* their requirements hang together, and any request.                      *)
(***************************************************************************)
EXTENDS Runner, TLAPS

-----------------------------------------------------------------------------
(* The inductive invariant *)

Frames == [id : Registered, dep : Nat \ {0}]
Qualities == [calibrated : SUBSET BOOLEAN, flags : SUBSET {"uncalibrated"}, of : SUBSET Ids]
Places == {"start", "choose", "close", "order", "run", "done", "error", "raised"}

Types ==
  /\ reg \in Registries /\ request \in Requests
  /\ has_grid \in BOOLEAN /\ calibrated \in BOOLEAN
  /\ pc \in Places /\ profile \in Profiles \cup {NoProfile}
  /\ chosen \in Seq(Registered) /\ ordered \in Seq(Registered)
  /\ stack \in Seq(Frames) /\ next \in Nat \ {0}
  /\ todo \in Seq(Registered)
  /\ \A a \in DOMAIN results : results[a] \in SUBSET Qualities

wanted == IF kit = NoProfile THEN pointer ELSE kit
ids == Range(chosen)

\* What each part of the run finds
Begun ==
  /\ pc \notin {"start", "error"} => /\ Range(request) \subseteq Registered
                                     /\ profile = NoProfile <=> wanted \notin Profiles
  /\ pc \in {"start", "choose"} => stack = <<>>
  /\ pc \in {"start", "choose", "close"} => ordered = <<>>
  /\ pc \notin {"run", "done"} => next = 1 /\ DOMAIN results = {} /\ DOMAIN refused = {}
  /\ pc = "start" => chosen = <<>>

\* The closure: everything chosen is to be looked into, is looked into, or has its
\* dependencies chosen
Opened(c) ==
  \/ c \in Range(todo)
  \/ \E i \in DOMAIN stack : stack[i].id = c
  \/ Range(Up(c)) \subseteq ids
Closing ==
  /\ pc \notin {"start", "error"} => ids \subseteq Closure
  /\ pc = "choose" => Range(request) = ids \cup Range(todo)
  /\ pc = "close" =>
       /\ Range(request) \subseteq ids /\ Range(todo) \subseteq ids
       /\ \A c \in ids : Opened(c)
       /\ \A i \in DOMAIN stack :
            /\ stack[i].id \in ids
            /\ \A k \in DOMAIN Up(stack[i].id) : k < stack[i].dep => Up(stack[i].id)[k] \in ids
  /\ pc \in {"order", "run", "done"} => ids = Closure /\ Closed(ids)
  /\ pc = "raised" => ~ Resolvable

\* The order: a frame on the stack rests on those above it
Settled(s, i) ==
  \A k \in DOMAIN Up(s[i].id) :
    k < s[i].dep => \/ Up(s[i].id)[k] \in Range(ordered)
                    \/ i < Len(s) /\ Up(s[i].id)[k] = s[i + 1].id
Earlier(i) == {ordered[j] : j \in 1..(i - 1)}
InOrder ==
  /\ Range(ordered) \subseteq ids /\ IsInjective(ordered)
  /\ \A i \in DOMAIN ordered : Range(Up(ordered[i])) \subseteq Earlier(i)
Ordering ==
  /\ InOrder
  /\ pc = "order" =>
       /\ Range(todo) \subseteq ids
       /\ \A c \in ids : c \in Range(todo) \cup Range(ordered) \cup Visiting
       /\ \A i \in DOMAIN stack : /\ stack[i].id \in ids /\ stack[i].id \notin Range(ordered)
                                  /\ Settled(stack, i)
       /\ \A i, j \in DOMAIN stack :
            i < j => stack[i].id # stack[j].id /\ stack[j].id \in Behind(stack[i].id)
  /\ pc \in {"run", "done"} => Range(ordered) = ids

\* The run
Missing(b) == \/ reg[b].needs_grid /\ ~ has_grid
              \/ reg[b].needs_profile /\ wanted \notin Profiles
Starved(a) == \E b \in {a} \cup Behind(a) : Missing(b)
Running ==
  pc \in {"run", "done"} =>
    /\ next <= Len(ordered) + 1
    /\ pc = "done" => next = Len(ordered) + 1
    /\ DOMAIN refused = {a \in Earlier(next) : Starved(a)}
    /\ DOMAIN results = {a \in Earlier(next) : ~ Starved(a)}

IInv == Types /\ Begun /\ Closing /\ Ordering /\ Running /\ QualityInherited

-----------------------------------------------------------------------------
(* Sequences *)

\* A queue and what is put into it or taken from it
LEMMA Queues ==
  ASSUME NEW S, NEW s \in Seq(S)
  PROVE  /\ Range(s) \subseteq S
         /\ \A x \in S : Append(s, x) \in Seq(S) /\ Range(Append(s, x)) = Range(s) \cup {x}
         /\ s # <<>> => /\ Head(s) \in S /\ Tail(s) \in Seq(S)
                        /\ Range(s) = {Head(s)} \cup Range(Tail(s))
<1>1. Range(s) \subseteq S
  BY DEF Range
<1>2. ASSUME NEW x \in S PROVE Append(s, x) \in Seq(S) /\ Range(Append(s, x)) = Range(s) \cup {x}
  <2>1. /\ Append(s, x) \in Seq(S) /\ Len(Append(s, x)) = Len(s) + 1
        /\ Append(s, x)[Len(s) + 1] = x
        /\ \A i \in 1..Len(s) : Append(s, x)[i] = s[i]
    OBVIOUS
  <2>2. DOMAIN s = 1..Len(s) /\ DOMAIN Append(s, x) = 1..(Len(s) + 1) /\ Len(s) \in Nat
    BY <2>1
  <2>3. ASSUME NEW y \in Range(Append(s, x)) PROVE y \in Range(s) \cup {x}
    <3>1. PICK i \in 1..(Len(s) + 1) : y = Append(s, x)[i]
      BY <2>2, <2>3 DEF Range
    <3>2. CASE i \in 1..Len(s)
      BY <3>1, <3>2, <2>1, <2>2 DEF Range
    <3>3. CASE i = Len(s) + 1
      BY <3>1, <3>3, <2>1
    <3> QED BY <3>2, <3>3, <2>2
  <2>4. x \in Range(Append(s, x))
    BY <2>1, <2>2 DEF Range
  <2>5. ASSUME NEW i \in 1..Len(s) PROVE s[i] \in Range(Append(s, x))
    <3>1. i \in DOMAIN Append(s, x) /\ Append(s, x)[i] = s[i]
      BY <2>1, <2>2
    <3> QED BY <3>1 DEF Range
  <2>6. Range(s) \subseteq Range(Append(s, x))
    BY <2>5, <2>2 DEF Range
  <2> QED BY <2>1, <2>3, <2>4, <2>6
<1>3. ASSUME s # <<>>
      PROVE  /\ Head(s) \in S /\ Tail(s) \in Seq(S)
             /\ Range(s) = {Head(s)} \cup Range(Tail(s))
  <2>1. /\ Tail(s) \in Seq(S) /\ Head(s) = s[1] /\ Len(s) > 0 /\ Len(Tail(s)) = Len(s) - 1
        /\ \A i \in 1..(Len(s) - 1) : Tail(s)[i] = s[i + 1]
    BY <1>3
  <2>2. DOMAIN s = 1..Len(s) /\ DOMAIN Tail(s) = 1..(Len(s) - 1) /\ Len(s) \in Nat
    BY <2>1
  <2>3. ASSUME NEW i \in 1..Len(s) PROVE s[i] \in {Head(s)} \cup Range(Tail(s))
    <3>1. CASE i = 1
      BY <3>1, <2>1
    <3>2. CASE i # 1
      <4>1. i - 1 \in DOMAIN Tail(s) /\ Tail(s)[i - 1] = s[i]
        BY <3>2, <2>1, <2>2
      <4> QED BY <4>1 DEF Range
    <3> QED BY <3>1, <3>2
  <2>4. ASSUME NEW i \in 1..(Len(s) - 1) PROVE Tail(s)[i] \in Range(s)
    <3>1. i + 1 \in DOMAIN s /\ Tail(s)[i] = s[i + 1]
      BY <2>1, <2>2
    <3> QED BY <3>1 DEF Range
  <2>5. Head(s) \in Range(s) /\ Head(s) \in S
    BY <2>1, <2>2 DEF Range
  <2> QED BY <2>1, <2>2, <2>3, <2>4, <2>5 DEF Range
<1> QED BY <1>1, <1>2, <1>3

LEMMA Retyped ==
  ASSUME NEW S, NEW T, NEW s \in Seq(S), Range(s) \subseteq T
  PROVE  s \in Seq(T)
<1>1. \A i \in 1..Len(s) : s[i] \in T
  BY DEF Range
<1> QED BY <1>1

\* The places before one that is added keep what they hold
LEMMA Extended ==
  ASSUME NEW S, NEW s \in Seq(S), NEW x \in S
  PROVE  /\ Len(Append(s, x)) = Len(s) + 1 /\ Append(s, x)[Len(s) + 1] = x
         /\ \A i \in 1..Len(s) : Append(s, x)[i] = s[i]
         /\ DOMAIN Append(s, x) = DOMAIN s \cup {Len(s) + 1} /\ DOMAIN s = 1..Len(s)
         /\ Len(s) \in Nat
  OBVIOUS

-----------------------------------------------------------------------------
(* The dependencies at any remove *)

LEMMA Analyzer ==
  ASSUME Types, NEW a \in Registered
  PROVE  /\ reg[a] \in Analyzers /\ a \in Ids /\ Up(a) \in Seq(Ids) /\ Range(Up(a)) \subseteq Ids
         /\ DOMAIN Up(a) = 1..Len(Up(a)) /\ Len(Up(a)) \in Nat
<1>1. reg[a] \in Analyzers /\ a \in Ids
  BY RunnerAssumption DEF Types, Registered
<1>2. Up(a) \in Seq(Ids)
  BY <1>1 DEF Analyzers, Up
<1> QED BY <1>1, <1>2, Queues

LEMMA BehindLeast ==
  ASSUME NEW a, NEW S \in SUBSET Ids, Range(Up(a)) \subseteq S, Closed(S)
  PROVE  Behind(a) \subseteq S
  BY DEF Behind

LEMMA BehindClosed ==
  ASSUME Types, NEW a \in Registered
  PROVE  /\ Behind(a) \subseteq Ids /\ Range(Up(a)) \subseteq Behind(a) /\ Closed(Behind(a))
<1>1. Behind(a) \subseteq Ids /\ Range(Up(a)) \subseteq Behind(a)
  BY Analyzer DEF Behind
<1>2. ASSUME NEW b \in Behind(a) \cap Registered PROVE Range(Up(b)) \subseteq Behind(a)
  BY Analyzer DEF Behind, Closed
<1> QED BY <1>1, <1>2 DEF Closed

LEMMA BehindBehind ==
  ASSUME Types, NEW a \in Registered, NEW b \in Behind(a) \cap Registered
  PROVE  Behind(b) \subseteq Behind(a)
<1>1. Range(Up(b)) \subseteq Behind(a)
  BY BehindClosed DEF Closed
<1> QED BY <1>1, BehindClosed, BehindLeast

\* What is behind an analyzer is what it names and what is behind that
LEMMA BehindUnfolds ==
  ASSUME Types, NEW a \in Registered, Range(Up(a)) \subseteq Registered
  PROVE  Behind(a) = Range(Up(a)) \cup UNION {Behind(d) : d \in Range(Up(a))}
<1> DEFINE S == Range(Up(a)) \cup UNION {Behind(d) : d \in Range(Up(a))}
<1>1. S \subseteq Behind(a)
  BY BehindClosed, BehindBehind
<1>2. S \in SUBSET Ids
  BY Analyzer, BehindClosed
<1>3. Closed(S)
  <2> SUFFICES ASSUME NEW b \in S \cap Registered PROVE Range(Up(b)) \subseteq S
    BY DEF Closed
  <2>1. CASE b \in Range(Up(a))
    BY <2>1, BehindClosed
  <2>2. CASE \E d \in Range(Up(a)) : b \in Behind(d)
    BY <2>2, BehindClosed DEF Closed
  <2> QED BY <2>1, <2>2
<1>4. Behind(a) \subseteq S
  BY <1>2, <1>3, BehindLeast
<1> QED BY <1>1, <1>4

\* The registry and the request stay what they are
LEMMA Still ==
  ASSUME UNCHANGED inputVars
  PROVE  /\ Registered' = Registered /\ Closure' = Closure /\ Resolvable' = Resolvable
         /\ wanted' = wanted /\ Frames' = Frames
         /\ \A a : /\ Up(a)' = Up(a) /\ Behind(a)' = Behind(a) /\ Missing(a)' = Missing(a)
                   /\ Starved(a)' = Starved(a)
         /\ \A S : Closed(S)' = Closed(S)
<1>1. Registered' = Registered /\ \A a : Up(a)' = Up(a)
  BY DEF inputVars, Registered, Up
<1>2. \A S : Closed(S)' = Closed(S)
  BY <1>1 DEF Closed
<1>3. \A a : Behind(a)' = Behind(a)
  BY <1>1, <1>2 DEF Behind
<1>4. Closure' = Closure
  BY <1>1, <1>3 DEF Closure, inputVars
<1>5. wanted' = wanted /\ \A a : Missing(a)' = Missing(a)
  BY DEF wanted, Missing, inputVars
<1> QED BY <1>1, <1>2, <1>3, <1>4, <1>5 DEF Resolvable, Starved, Frames

-----------------------------------------------------------------------------
(* Before the walks *)

LEMMA IInvInit == Init => IInv
<1> SUFFICES ASSUME Init PROVE IInv
  OBVIOUS
<1>1. /\ <<>> \in Seq(Registered) /\ <<>> \in Seq(Frames) /\ DOMAIN <<>> = {}
      /\ Range(<<>>) = {} /\ IsInjective(<<>>)
  BY DEF Range, IsInjective
<1>2. Types
  BY <1>1 DEF Init, Types, Places
<1>3. Begun /\ Closing
  BY <1>1 DEF Init, Begun, Closing
<1>4. Ordering /\ Running
  BY <1>1 DEF Init, Ordering, InOrder, Running
<1>5. QualityInherited
  BY <1>1 DEF Init, QualityInherited
<1> QED BY <1>2, <1>3, <1>4, <1>5 DEF IInv

\* What a step that computes nothing leaves as it was
LEMMA QuietQuality ==
  ASSUME QualityInherited, UNCHANGED inputVars, UNCHANGED results
  PROVE  QualityInherited'
<1>1. reg' = reg /\ calibrated' = calibrated /\ \A a : Behind(a)' = Behind(a)
  BY Still DEF inputVars
<1> QED BY <1>1 DEF QualityInherited

LEMMA QuietOrder ==
  ASSUME Types, Ordering, UNCHANGED inputVars, UNCHANGED ordered, ids \subseteq ids',
         pc' \notin {"order", "run", "done"}
  PROVE  Ordering' /\ Running'
<1>1. InOrder'
  BY Still DEF Ordering, InOrder, Earlier
<1> QED BY <1>1 DEF Ordering, Running

LEMMA RequestTyped ==
  ASSUME Types
  PROVE  request \in Seq(Ids)
  BY RunnerAssumption DEF Types

LEMMA StartStep == IInv /\ Start => IInv'
<1> SUFFICES ASSUME IInv, Start PROVE IInv'
  OBVIOUS
<1> USE DEF IInv
<1>1. UNCHANGED inputVars /\ UNCHANGED results /\ pc = "start" /\ ids = {} /\ ids' = ids
      /\ UNCHANGED ordered /\ pc' \in {"error", "choose"} /\ chosen = <<>>
      /\ UNCHANGED <<chosen, ordered, stack, next, results, refused>>
  BY DEF Start, Begun, Range, ids
<1>2. pc' = "choose" => Range(request) \subseteq Registered /\ todo' = request
  BY DEF Start, Range
<1>3. pc' = "choose" => todo' \in Seq(Registered)
  BY <1>2, RequestTyped, Retyped
<1>4. profile' \in Profiles \cup {NoProfile}
  BY DEF Start, Types
<1>5. pc' = "choose" => (profile' = NoProfile <=> wanted \notin Profiles)
  <2> SUFFICES ASSUME pc' = "choose" PROVE profile' = NoProfile <=> wanted \notin Profiles
    OBVIOUS
  <2>1. profile' = IF wanted \in Profiles THEN wanted ELSE NoProfile
    BY DEF Start, wanted
  <2> QED BY <2>1, RunnerAssumption
<1>6. todo' \in Seq(Registered)
  BY <1>3, <1>1 DEF Start, Types
<1>7. Types'
  BY <1>1, <1>6, <1>4, Still DEF Types, Places, inputVars
<1>8. Begun'
  BY <1>1, <1>2, <1>5, Still DEF Begun, inputVars
<1>9. Closing'
  BY <1>1, <1>2, Still DEF Closing, inputVars
<1> QED BY <1>1, <1>7, <1>8, <1>9, QuietQuality, QuietOrder

LEMMA ChooseStep == IInv /\ Choose => IInv'
<1> SUFFICES ASSUME IInv, Choose PROVE IInv'
  OBVIOUS
<1> USE DEF IInv
<1>1. /\ UNCHANGED inputVars /\ pc = "choose" /\ pc' \in {"choose", "close"}
      /\ UNCHANGED <<profile, ordered, stack, next, results, refused>>
      /\ stack = <<>> /\ todo \in Seq(Registered) /\ chosen \in Seq(Registered)
      /\ Range(request) = ids \cup Range(todo)
  BY DEF Choose, Types, Begun, Closing
<1>2. CASE todo = <<>>
  <2>1. pc' = "close" /\ todo' = chosen /\ chosen' = chosen /\ ids' = ids
    BY <1>2, <1>1 DEF Choose, ids
  <2>2. ids = Range(request) /\ Range(todo') = ids
    <3>1. Range(<<>>) = {}
      BY DEF Range
    <3>2. ids = Range(chosen) /\ Range(todo') = Range(chosen) /\ Range(todo) = Range(<<>>)
      BY <1>2, <2>1 DEF ids
    <3> QED BY <3>1, <3>2, <1>1
  <2>3. Types'
    BY <1>1, <2>1, Still DEF Types, Places, inputVars
  <2>4. Begun'
    BY <1>1, <2>1, Still DEF Begun, inputVars
  <2>5. Closing'
    BY <1>1, <2>1, <2>2, Still DEF Closing, Opened, inputVars
  <2> QED BY <1>1, <2>1, <2>3, <2>4, <2>5, QuietQuality, QuietOrder
<1>3. CASE todo # <<>>
  <2>1. /\ pc' = "choose" /\ todo' = Tail(todo) /\ todo' \in Seq(Registered)
        /\ chosen' \in Seq(Registered) /\ ids' = ids \cup {Head(todo)}
        /\ Range(todo) = {Head(todo)} \cup Range(todo')
    <3>1. /\ Head(todo) \in Registered /\ Tail(todo) \in Seq(Registered)
          /\ Range(todo) = {Head(todo)} \cup Range(Tail(todo))
      BY <1>3, <1>1, Queues
    <3>2. /\ pc' = "choose" /\ todo' = Tail(todo)
          /\ chosen' = IF Head(todo) \in Range(chosen) THEN chosen ELSE Append(chosen, Head(todo))
      BY <1>3, <1>1 DEF Choose
    <3>3. chosen' \in Seq(Registered) /\ Range(chosen') = Range(chosen) \cup {Head(todo)}
      <4>1. CASE Head(todo) \in Range(chosen)
        BY <4>1, <3>2, <1>1
      <4>2. CASE Head(todo) \notin Range(chosen)
        BY <4>2, <3>1, <3>2, <1>1, Queues
      <4> QED BY <4>1, <4>2
    <3> QED BY <3>1, <3>2, <3>3 DEF ids
  <2>2. Range(request) = ids' \cup Range(todo') /\ ids \subseteq ids'
    BY <1>1, <2>1
  <2>3. Types'
    BY <1>1, <2>1, Still DEF Types, Places, inputVars
  <2>4. Begun'
    BY <1>1, <2>1, Still DEF Begun, inputVars
  <2>5. Closing'
    BY <1>1, <2>1, <2>2, Still DEF Closing, Closure, inputVars
  <2> QED BY <1>1, <2>1, <2>2, <2>3, <2>4, <2>5, QuietQuality, QuietOrder
<1> QED BY <1>2, <1>3

-----------------------------------------------------------------------------
(* _close_over *)

LEMMA TopFrame ==
  ASSUME Types, stack # <<>>
  PROVE  /\ Len(stack) \in DOMAIN stack /\ DOMAIN stack = 1..Len(stack) /\ Len(stack) \in Nat \ {0}
         /\ top \in Frames /\ top.id \in Registered /\ top.dep \in Nat \ {0}
         /\ Up(top.id) \in Seq(Ids) /\ DOMAIN Up(top.id) = 1..Len(Up(top.id))
         /\ Len(Up(top.id)) \in Nat
<1>1. stack \in Seq(Frames) /\ Len(stack) \in Nat \ {0} /\ DOMAIN stack = 1..Len(stack)
  BY DEF Types
<1>2. top \in Frames
  BY <1>1 DEF top
<1> QED BY <1>1, <1>2, Analyzer DEF Frames

\* The stack with its top frame gone, moved on, or below a new one
LEMMA Stacks ==
  ASSUME Types, stack # <<>>
  PROVE  /\ Pop \in Seq(Frames) /\ Len(Pop) = Len(stack) - 1 /\ DOMAIN Pop = 1..(Len(stack) - 1)
         /\ \A i \in 1..(Len(stack) - 1) : Pop[i] = stack[i]
         /\ Step \in Seq(Frames) /\ Len(Step) = Len(stack) /\ DOMAIN Step = 1..Len(stack)
         /\ \A i \in 1..(Len(stack) - 1) : Step[i] = stack[i]
         /\ Step[Len(stack)].id = top.id /\ Step[Len(stack)].dep = top.dep + 1
<1>1. /\ Len(stack) \in DOMAIN stack /\ DOMAIN stack = 1..Len(stack) /\ Len(stack) \in Nat \ {0}
      /\ top \in Frames /\ stack \in Seq(Frames) /\ top = stack[Len(stack)]
  BY TopFrame DEF Types, top
<1>2. /\ Pop \in Seq(Frames) /\ Len(Pop) = Len(stack) - 1 /\ DOMAIN Pop = 1..(Len(stack) - 1)
      /\ \A i \in 1..(Len(stack) - 1) : Pop[i] = stack[i]
  BY <1>1 DEF Pop
<1>3. [top EXCEPT !.dep = @ + 1] \in Frames
  BY <1>1 DEF Frames
<1>4. Step = [stack EXCEPT ![Len(stack)] = [top EXCEPT !.dep = @ + 1]]
  BY <1>1 DEF Step
<1>5. /\ Step \in Seq(Frames) /\ Len(Step) = Len(stack) /\ DOMAIN Step = 1..Len(stack)
      /\ \A i \in 1..(Len(stack) - 1) : Step[i] = stack[i]
      /\ Step[Len(stack)] = [top EXCEPT !.dep = @ + 1]
  BY <1>1, <1>3, <1>4
<1> QED BY <1>1, <1>2, <1>5 DEF Frames

LEMMA NewFrame ==
  ASSUME NEW s \in Seq(Frames), NEW d \in Registered
  PROVE  /\ [id |-> d, dep |-> 1] \in Frames
         /\ Append(s, [id |-> d, dep |-> 1]) \in Seq(Frames)
<1>1. [id |-> d, dep |-> 1] \in Frames
  BY DEF Frames
<1> QED BY <1>1

LEMMA ClosureClosed ==
  ASSUME Types, Range(request) \subseteq Registered, ids \subseteq Closure,
         NEW a \in ids, NEW d \in Range(Up(a)), a \in Registered
  PROVE  d \in Closure
<1>1. CASE a \in Range(request)
  BY <1>1, BehindClosed DEF Closure
<1>2. CASE \E r \in Range(request) : a \in Behind(r)
  BY <1>2, BehindClosed DEF Closure, Closed
<1> QED BY <1>1, <1>2 DEF Closure

\* Once everything chosen has been looked into, it is the closure
LEMMA AllOpened ==
  ASSUME Types, Range(request) \subseteq Registered, Range(request) \subseteq ids,
         ids \subseteq Closure, \A c \in ids : Range(Up(c)) \subseteq ids
  PROVE  ids = Closure /\ Closed(ids)
<1>1. Closed(ids)
  BY DEF Closed
<1>2. ids \in SUBSET Ids
  BY Analyzer, Queues DEF Types, ids
<1>3. ASSUME NEW a \in Range(request) PROVE Behind(a) \subseteq ids
  BY <1>1, <1>2, BehindLeast
<1> QED BY <1>1, <1>3 DEF Closure

LEMMA CloseFromStep == IInv /\ CloseFrom => IInv'
<1> SUFFICES ASSUME IInv, CloseFrom PROVE IInv'
  OBVIOUS
<1> USE DEF IInv
<1>1. /\ UNCHANGED inputVars /\ pc = "close" /\ stack = <<>>
      /\ UNCHANGED <<profile, chosen, ordered, next, results, refused>>
      /\ todo \in Seq(Registered) /\ chosen \in Seq(Registered) /\ ordered = <<>>
      /\ ids' = ids /\ DOMAIN <<>> = {} /\ Range(<<>>) = {}
  BY DEF CloseFrom, Types, Begun, ids, Range
<1>2. /\ Range(request) \subseteq ids /\ Range(todo) \subseteq ids /\ ids \subseteq Closure
      /\ \A c \in ids : c \in Range(todo) \/ Range(Up(c)) \subseteq ids
  BY <1>1 DEF Closing, Opened
<1>3. CASE todo # <<>>
  <2> DEFINE f == [id |-> Head(todo), dep |-> 1]
  <2>1. pc' = pc /\ todo' = Tail(todo) /\ stack' = Append(<<>>, f)
    BY <1>1, <1>3 DEF CloseFrom, Push
  <2>2. /\ todo' \in Seq(Registered) /\ Range(todo) = {Head(todo)} \cup Range(todo')
        /\ Head(todo) \in Registered
    BY <2>1, <1>1, <1>3, Queues
  <2>3. <<>> \in Seq(Frames) /\ stack' \in Seq(Frames)
    <3>1. <<>> \in Seq(Frames)
      OBVIOUS
    <3>2. Append(<<>>, [id |-> Head(todo), dep |-> 1]) \in Seq(Frames)
      BY <3>1, <2>2, NewFrame
    <3> QED BY <3>1, <3>2, <2>1
  <2>4. DOMAIN stack' = {1} /\ stack'[1] = f /\ f.id = Head(todo) /\ f.dep = 1
    BY <2>1
  <2>5. Types'
    BY <1>1, <2>1, <2>2, <2>3, Still DEF Types, Places, inputVars
  <2>6. Begun'
    BY <1>1, <2>1, Still DEF Begun, inputVars
  <2>7. ASSUME NEW c \in ids PROVE Opened(c)'
    BY <1>2, <1>1, <2>2, <2>4, Still DEF Opened
  <2>8. ASSUME NEW i \in DOMAIN stack', NEW k \in DOMAIN Up(stack'[i].id)
        PROVE  stack'[i].id \in ids /\ ~ (k < stack'[i].dep)
    <3>1. stack'[i].id = Head(todo) /\ stack'[i].dep = 1
      BY <2>4
    <3>2. Head(todo) \in ids
      BY <1>2, <2>2
    <3>3. k \in 1..Len(Up(Head(todo))) /\ Len(Up(Head(todo))) \in Nat
      BY <3>1, <2>2, Analyzer
    <3> QED BY <3>1, <3>2, <3>3
  <2>9. \A i \in DOMAIN stack' : stack'[i].id \in ids
    BY <2>4, <1>2, <2>2
  <2>10. Closing'
    <3>1. /\ pc' = "close" /\ ids' = ids /\ Closure' = Closure /\ request' = request
          /\ Range(todo') \subseteq ids
      BY <1>1, <1>2, <2>1, <2>2, Still DEF inputVars
    <3>2. \A i \in DOMAIN stack' : \A k \in DOMAIN Up(stack[i].id)' : ~ (k < stack'[i].dep)
      BY <1>1, <2>8 DEF Up, inputVars
    <3> QED BY <3>1, <3>2, <1>2, <2>7, <2>9 DEF Closing
  <2> QED BY <1>1, <2>1, <2>5, <2>6, <2>10, QuietQuality, QuietOrder
<1>4. CASE todo = <<>>
  <2>1. pc' = "order" /\ todo' = chosen /\ stack' = <<>>
    BY <1>1, <1>4 DEF CloseFrom
  <2>2. ids = Closure /\ Closed(ids)
    <3>1. Range(request) \subseteq Registered
      BY <1>1 DEF Begun
    <3>2. \A c \in ids : Range(Up(c)) \subseteq ids
      BY <1>1, <1>2, <1>4
    <3> QED BY <3>1, <3>2, <1>2, AllOpened
  <2>3. Types'
    BY <1>1, <2>1, Still DEF Types, Places, inputVars
  <2>4. Begun'
    BY <1>1, <2>1, Still DEF Begun, inputVars
  <2>5. Closing'
    BY <1>1, <2>1, <2>2, Still DEF Closing, inputVars
  <2>6. DOMAIN stack' = {} /\ Range(todo') = ids /\ ordered' = <<>> /\ Range(ordered') = {}
    BY <1>1, <2>1 DEF ids
  <2>7. Ordering'
    BY <1>1, <2>1, <2>6 DEF Ordering, InOrder, IsInjective
  <2>8. Running'
    BY <2>1 DEF Running
  <2> QED BY <1>1, <2>3, <2>4, <2>5, <2>7, <2>8, QuietQuality
<1> QED BY <1>3, <1>4

LEMMA CloseDepStep == IInv /\ CloseDep => IInv'
<1> SUFFICES ASSUME IInv, CloseDep PROVE IInv'
  OBVIOUS
<1> USE DEF IInv
<1> DEFINE n == Len(stack)
           d == Up(top.id)[top.dep]
<1>1. /\ UNCHANGED inputVars /\ pc = "close" /\ stack # <<>>
      /\ UNCHANGED <<profile, todo, ordered, next, results, refused>>
      /\ todo \in Seq(Registered) /\ chosen \in Seq(Registered)
  BY DEF CloseDep, Types
<1>2. /\ Range(request) \subseteq ids /\ Range(todo) \subseteq ids /\ ids \subseteq Closure
      /\ Range(request) \subseteq Registered
      /\ \A c \in ids : Opened(c)
      /\ \A i \in DOMAIN stack :
           /\ stack[i].id \in ids
           /\ \A k \in DOMAIN Up(stack[i].id) : k < stack[i].dep => Up(stack[i].id)[k] \in ids
  BY <1>1 DEF Closing, Begun
<1>3. /\ n \in DOMAIN stack /\ DOMAIN stack = 1..n /\ n \in Nat \ {0} /\ top = stack[n]
      /\ top.id \in Registered /\ top.dep \in Nat \ {0} /\ top.id \in ids
      /\ DOMAIN Up(top.id) = 1..Len(Up(top.id)) /\ Len(Up(top.id)) \in Nat
  BY <1>1, <1>2, TopFrame DEF top
<1> DEFINE Going == /\ stack' \in Seq(Frames) /\ chosen' \in Seq(Registered) /\ pc' = pc
                    /\ ids \subseteq ids' /\ ids' \subseteq Closure
                    /\ \A c \in ids' : Opened(c)'
                    /\ \A i \in DOMAIN stack' :
                         /\ stack'[i].id \in ids'
                         /\ \A k \in DOMAIN Up(stack'[i].id) :
                              k < stack'[i].dep => Up(stack'[i].id)[k] \in ids'
<1>4. ASSUME Going PROVE IInv'
  <2>1. Types'
    BY <1>1, <1>4, Still DEF Types, Places, inputVars
  <2>2. Begun'
    BY <1>1, <1>4, Still DEF Begun, inputVars
  <2>3. Closing'
    <3>1. Range(request)' \subseteq ids' /\ Range(todo)' \subseteq ids'
      BY <1>1, <1>2, <1>4 DEF inputVars
    <3>2. pc' = "close" /\ Closure' = Closure
      BY <1>1, <1>4, Still
    <3>3. \A i \in DOMAIN stack' :
             /\ stack'[i].id \in ids'
             /\ \A k \in DOMAIN Up(stack[i].id)' : k < stack'[i].dep => Up(stack[i].id)'[k] \in ids'
      BY <1>1, <1>4 DEF Up, inputVars
    <3> QED BY <3>1, <3>2, <3>3, <1>4 DEF Closing
  <2> QED BY <1>1, <1>4, <2>1, <2>2, <2>3, QuietQuality, QuietOrder
<1>5. CASE top.dep > Len(Up(top.id))
  <2>1. stack' = Pop /\ chosen' = chosen /\ pc' = pc /\ ids' = ids
    BY <1>1, <1>5 DEF CloseDep, ids
  <2>2. /\ stack' \in Seq(Frames) /\ DOMAIN stack' = 1..(n - 1)
        /\ \A i \in 1..(n - 1) : stack'[i] = stack[i]
    BY <1>1, <2>1, Stacks
  <2>3. Range(Up(top.id)) \subseteq ids
    <3>1. \A k \in DOMAIN Up(top.id) : k < top.dep
      BY <1>3, <1>5
    <3> QED BY <3>1, <1>2, <1>3 DEF Range
  <2>4. ASSUME NEW c \in ids PROVE Opened(c)'
    <3>1. Opened(c)
      BY <1>2
    <3>2. ASSUME NEW i \in DOMAIN stack, stack[i].id = c PROVE Opened(c)'
      <4>1. CASE i = n
        BY <4>1, <3>2, <2>1, <2>3, <1>1, <1>3, Still DEF Opened
      <4>2. CASE i # n
        <5>1. i \in DOMAIN stack' /\ stack'[i] = stack[i]
          BY <4>2, <2>2, <1>3
        <5> QED BY <5>1, <3>2 DEF Opened
      <4> QED BY <4>1, <4>2
    <3> QED BY <3>1, <3>2, <2>1, <1>1, Still DEF Opened
  <2>5. \A i \in DOMAIN stack' : i \in DOMAIN stack /\ stack'[i] = stack[i]
    BY <2>2, <1>3
  <2>6. Going
    BY <1>1, <1>2, <2>1, <2>2, <2>4, <2>5
  <2> QED BY <1>4, <2>6
<1>6. ASSUME top.dep <= Len(Up(top.id))
      PROVE  d \in Range(Up(top.id)) /\ d \in Closure
  <2>1. top.dep \in DOMAIN Up(top.id)
    BY <1>3, <1>6
  <2>2. d \in Range(Up(top.id))
    BY <2>1 DEF Range
  <2> QED BY <2>2, <1>2, <1>3, ClosureClosed
\* The frames there were, the top one moved on
<1> DEFINE Moved(ch) ==
      \A i \in 1..n : /\ stack'[i].id = stack[i].id
                      /\ \A k \in DOMAIN Up(stack'[i].id) :
                           k < stack'[i].dep => Up(stack'[i].id)[k] \in ch
<1>7. ASSUME top.dep <= Len(Up(top.id)), NEW ch, ids \cup {d} \subseteq ch,
             \A i \in 1..n : stack'[i] = Step[i]
      PROVE  Moved(ch)
  <2> SUFFICES ASSUME NEW i \in 1..n
               PROVE  /\ stack'[i].id = stack[i].id
                      /\ \A k \in DOMAIN Up(stack'[i].id) :
                           k < stack'[i].dep => Up(stack'[i].id)[k] \in ch
    OBVIOUS
  <2>1. CASE i # n
    <3>1. i \in 1..(n - 1)
      <4> HIDE DEF n
      <4> QED BY <2>1, <1>3
    <3>2. stack'[i] = stack[i]
      BY <3>1, <1>7, <1>1, Stacks
    <3> QED BY <3>2, <1>2, <1>3, <1>7
  <2>2. CASE i = n
    <3>1. stack'[i].id = top.id /\ stack'[i].dep = top.dep + 1
      BY <2>2, <1>7, <1>1, Stacks
    <3>2. ASSUME NEW k \in DOMAIN Up(top.id), k < top.dep + 1 PROVE Up(top.id)[k] \in ch
      <4>1. k = top.dep \/ k < top.dep
        BY <3>2, <1>3
      <4> QED BY <4>1, <1>2, <1>3, <1>7
    <3> QED BY <3>1, <3>2, <2>2, <1>3
  <2> QED BY <2>1, <2>2
<1>8. CASE top.dep <= Len(Up(top.id)) /\ d \in ids
  <2>1. stack' = Step /\ chosen' = chosen /\ pc' = pc /\ ids' = ids
    BY <1>1, <1>3, <1>8 DEF CloseDep, ids
  <2>2. stack' \in Seq(Frames) /\ DOMAIN stack' = 1..n
    BY <1>1, <2>1, Stacks
  <2>3. Moved(ids)
    BY <1>7, <1>8, <2>1
  <2>4. ASSUME NEW c \in ids PROVE Opened(c)'
    BY <1>1, <1>2, <1>3, <2>1, <2>2, <2>3, Still DEF Opened
  <2>5. \A i \in DOMAIN stack' : stack'[i].id \in ids
    BY <2>2, <2>3, <1>2, <1>3
  <2>6. Going
    BY <1>1, <1>2, <2>1, <2>2, <2>3, <2>4, <2>5
  <2> QED BY <1>4, <2>6
<1>9. CASE top.dep <= Len(Up(top.id)) /\ d \notin ids /\ d \in Registered
  <2> DEFINE f == [id |-> d, dep |-> 1]
  <2>1. stack' = Append(Step, f) /\ chosen' = Append(chosen, d) /\ pc' = pc
    BY <1>1, <1>3, <1>9 DEF CloseDep, ids
  <2>2. chosen' \in Seq(Registered) /\ ids' = ids \cup {d} /\ f.id = d /\ f.dep = 1
    BY <1>1, <1>9, <2>1, Queues DEF ids
  <2>3. f \in Frames /\ Step \in Seq(Frames) /\ Len(Step) = n
    BY <1>1, <1>9, NewFrame, Stacks
  <2> HIDE DEF f, d
  <2>4. /\ stack' \in Seq(Frames) /\ DOMAIN stack' = 1..(n + 1) /\ stack'[n + 1] = f
        /\ \A i \in 1..n : stack'[i] = Step[i]
    BY <2>1, <2>3, <1>3
  <2>5. Moved(ids')
    BY <1>7, <1>9, <2>2, <2>4
  <2>6. d \in Closure
    BY <1>6, <1>9
  <2>7. ASSUME NEW c \in ids' PROVE Opened(c)'
    <3>1. CASE c = d
      <4>1. n + 1 \in DOMAIN stack' /\ stack'[n + 1].id = c
        BY <3>1, <2>2, <2>4, <1>3
      <4> QED BY <4>1 DEF Opened
    <3>2. CASE c \in ids
      <4>1. Opened(c)
        BY <1>2, <3>2
      <4>2. \A i \in DOMAIN stack : i \in DOMAIN stack' /\ stack'[i].id = stack[i].id
        BY <2>4, <2>5, <1>3
      <4> QED BY <4>1, <4>2, <1>1, <2>2, Still DEF Opened
    <3> QED BY <3>1, <3>2, <2>2
  <2>8. \A i \in DOMAIN stack' : stack'[i].id \in ids'
    BY <2>2, <2>4, <2>5, <1>2, <1>3
  <2>9. \A k \in DOMAIN Up(f.id) : ~ (k < f.dep)
    BY <2>2, <1>9, Analyzer
  <2>10. \A i \in DOMAIN stack' : i \in 1..n \/ i = n + 1
    BY <2>4, <1>3
  <2>11. \A i \in DOMAIN stack' : \A k \in DOMAIN Up(stack'[i].id) :
              k < stack'[i].dep => Up(stack'[i].id)[k] \in ids'
    BY <2>4, <2>5, <2>9, <2>10
  <2>12. Going
    BY <1>1, <1>2, <2>1, <2>2, <2>4, <2>6, <2>7, <2>8, <2>11
  <2> QED BY <1>4, <2>12
<1>10. CASE top.dep <= Len(Up(top.id)) /\ d \notin ids /\ d \notin Registered
  <2>1. pc' = "raised" /\ stack' = stack /\ chosen' = chosen /\ ids' = ids
    BY <1>1, <1>3, <1>10 DEF CloseDep, ids
  <2>2. ~ Resolvable
    BY <1>6, <1>10 DEF Resolvable
  <2>3. Types'
    BY <1>1, <2>1, Still DEF Types, Places, inputVars
  <2>4. Begun'
    BY <1>1, <2>1, Still DEF Begun, inputVars
  <2>5. Closing'
    BY <1>1, <1>2, <2>1, <2>2, Still DEF Closing
  <2> QED BY <1>1, <2>1, <2>3, <2>4, <2>5, QuietQuality, QuietOrder
<1> QED BY <1>3, <1>5, <1>8, <1>9, <1>10

-----------------------------------------------------------------------------
(* _visit *)

LEMMA InOrderStill ==
  ASSUME InOrder, UNCHANGED inputVars, UNCHANGED ordered, UNCHANGED chosen
  PROVE  InOrder'
  BY Still DEF InOrder, Earlier, ids

\* What the steps of _visit start from
LEMMA Visits ==
  ASSUME IInv, pc = "order"
  PROVE  /\ ids = Closure /\ Closed(ids) /\ ids \subseteq Registered /\ InOrder
         /\ Range(todo) \subseteq ids
         /\ \A c \in ids : c \in Range(todo) \cup Range(ordered) \cup Visiting
         /\ \A i \in DOMAIN stack : /\ stack[i].id \in ids /\ stack[i].id \notin Range(ordered)
                                    /\ Settled(stack, i)
         /\ \A i, j \in DOMAIN stack :
              i < j => stack[i].id # stack[j].id /\ stack[j].id \in Behind(stack[i].id)
         /\ next = 1 /\ DOMAIN results = {} /\ DOMAIN refused = {}
<1>1. ids \subseteq Registered
  BY Queues DEF IInv, Types, ids
<1> QED BY <1>1 DEF IInv, Closing, Ordering, Begun

\* A step of _visit that leaves the walk to go on
LEMMA VisitGoesOn ==
  ASSUME IInv, pc = "order", pc' = pc, UNCHANGED <<inputVars, profile, chosen, next, results, refused>>,
         todo' \in Seq(Registered), stack' \in Seq(Frames), ordered' \in Seq(Registered),
         Ordering'
  PROVE  IInv'
<1> USE DEF IInv
<1>1. UNCHANGED inputVars /\ ids' = ids
  BY DEF ids
<1>2. Types'
  BY <1>1, Still DEF Types, Places, inputVars
<1>3. Begun'
  BY <1>1, Still DEF Begun, inputVars
<1>4. Closing'
  BY <1>1, Still DEF Closing
<1>5. Running'
  BY DEF Running
<1> QED BY <1>1, <1>2, <1>3, <1>4, <1>5, QuietQuality

LEMMA VisitFromStep == IInv /\ VisitFrom => IInv'
<1> SUFFICES ASSUME IInv, VisitFrom PROVE IInv'
  OBVIOUS
<1>1. /\ UNCHANGED <<inputVars, profile, chosen, ordered, next, results, refused>>
      /\ UNCHANGED inputVars /\ pc = "order" /\ stack = <<>> /\ ids' = ids
      /\ DOMAIN <<>> = {} /\ Visiting = {}
      /\ todo \in Seq(Registered) /\ ordered \in Seq(Registered) /\ stack \in Seq(Frames)
  BY DEF VisitFrom, IInv, Types, ids, Visiting
<1>2. InOrder'
  BY <1>1, Visits, InOrderStill
<1>3. CASE todo = <<>>
  <2>1. pc' = "run" /\ todo' = todo /\ stack' = stack
    BY <1>1, <1>3 DEF VisitFrom
  <2>2. Range(todo) = {} /\ Range(ordered) = ids
    <3>1. Range(<<>>) = {}
      BY DEF Range
    <3> QED BY <3>1, <1>1, <1>3, Visits DEF InOrder
  <2>3. Types'
    BY <1>1, <2>1, Still DEF IInv, Types, Places, inputVars
  <2>4. Begun'
    BY <1>1, <2>1, Still DEF IInv, Begun, inputVars
  <2>5. Closing'
    BY <1>1, <2>1, Still DEF IInv, Closing
  <2>6. Ordering'
    BY <1>1, <1>2, <2>1, <2>2 DEF Ordering
  <2>7. Running'
    <3>1. next' = 1 /\ DOMAIN results' = {} /\ DOMAIN refused' = {}
      BY <1>1, Visits
    <3>2. Earlier(next)' = {}
      BY <3>1 DEF Earlier
    <3>3. Len(ordered') \in Nat
      BY <1>1
    <3> QED BY <2>1, <3>1, <3>2, <3>3 DEF Running
  <2> QED BY <1>1, <2>3, <2>4, <2>5, <2>6, <2>7, QuietQuality DEF IInv
<1>4. CASE todo # <<>>
  <2> DEFINE h == Head(todo)
  <2>1. pc' = pc /\ todo' = Tail(todo) /\ stack' = IF h \in Range(ordered) THEN stack ELSE Push(h)
    BY <1>1, <1>4 DEF VisitFrom
  <2>2. todo' \in Seq(Registered) /\ Range(todo) = {h} \cup Range(todo') /\ h \in Registered
    BY <2>1, <1>1, <1>4, Queues
  <2>3. h \in ids /\ Range(todo') \subseteq ids'
    BY <1>1, <2>2, Visits
  <2>4. CASE h \in Range(ordered)
    <3>1. stack' = <<>> /\ DOMAIN stack' = {} /\ Visiting' = {}
      BY <1>1, <2>1, <2>4 DEF Visiting
    <3>2. \A c \in ids : c \in Range(todo') \cup Range(ordered)
      BY <1>1, <2>2, <2>4, Visits
    <3>3. Ordering'
      BY <1>1, <1>2, <2>1, <2>3, <3>1, <3>2 DEF Ordering
    <3> QED BY <1>1, <2>1, <2>2, <3>1, <3>3, VisitGoesOn
  <2>5. CASE h \notin Range(ordered)
    <3> DEFINE f == [id |-> h, dep |-> 1]
    <3>1. stack' = Append(<<>>, f)
      BY <1>1, <2>1, <2>5 DEF Push
    <3>2. DOMAIN stack' = {1} /\ stack'[1] = f /\ f.id = h /\ f.dep = 1
      BY <3>1
    <3>3. stack' \in Seq(Frames)
      BY <3>1, <1>1, <2>2, NewFrame
    <3>4. Visiting' = {h}
      BY <3>2 DEF Visiting
    <3>5. \A c \in ids : c \in Range(todo') \cup Range(ordered) \cup {h}
      BY <1>1, <2>2, Visits
    <3>6. Settled(stack, 1)'
      <4>1. \A k \in DOMAIN Up(h) : ~ (k < 1)
        BY <2>2, Analyzer, <1>1 DEF IInv
      <4>2. Up(stack[1].id)' = Up(h) /\ stack'[1].dep = 1
        BY <3>2, <1>1 DEF Up, inputVars
      <4> QED BY <4>1, <4>2 DEF Settled
    <3>7. Ordering'
      BY <1>1, <1>2, <2>1, <2>3, <2>5, <3>2, <3>4, <3>5, <3>6 DEF Ordering
    <3> QED BY <1>1, <2>1, <2>2, <3>3, <3>7, VisitGoesOn
  <2> QED BY <2>4, <2>5
<1> QED BY <1>3, <1>4

LEMMA VisitDepStep == IInv /\ VisitDep => IInv'
<1> SUFFICES ASSUME IInv, VisitDep PROVE IInv'
  OBVIOUS
<1> DEFINE n == Len(stack)
           d == Up(top.id)[top.dep]
<1>1. /\ UNCHANGED <<inputVars, profile, chosen, todo, next, results, refused>>
      /\ UNCHANGED inputVars /\ pc = "order" /\ stack # <<>> /\ ids' = ids
      /\ todo \in Seq(Registered) /\ ordered \in Seq(Registered) /\ stack \in Seq(Frames)
      /\ Types
  BY DEF VisitDep, IInv, Types, ids
<1>2. /\ n \in DOMAIN stack /\ DOMAIN stack = 1..n /\ n \in Nat \ {0} /\ top = stack[n]
      /\ top.id \in Registered /\ top.dep \in Nat \ {0}
      /\ DOMAIN Up(top.id) = 1..Len(Up(top.id)) /\ Len(Up(top.id)) \in Nat
  BY <1>1, TopFrame DEF top
<1>3. /\ ids = Closure /\ Closed(ids) /\ ids \subseteq Registered /\ InOrder
      /\ Range(todo) \subseteq ids
      /\ \A c \in ids : c \in Range(todo) \cup Range(ordered) \cup Visiting
      /\ \A i \in DOMAIN stack : /\ stack[i].id \in ids /\ stack[i].id \notin Range(ordered)
                                 /\ Settled(stack, i)
      /\ \A i, j \in DOMAIN stack :
           i < j => stack[i].id # stack[j].id /\ stack[j].id \in Behind(stack[i].id)
  BY <1>1, Visits
<1>4. top.id \in ids /\ top.id \notin Range(ordered) /\ Settled(stack, n)
  BY <1>2, <1>3
<1>5. \A a : Up(a)' = Up(a) /\ Behind(a)' = Behind(a)
  BY <1>1, Still
<1>6. CASE top.dep > Len(Up(top.id))
  <2>1. ordered' = Append(ordered, top.id) /\ stack' = Pop /\ pc' = pc
    BY <1>1, <1>6 DEF VisitDep
  <2>2. /\ stack' \in Seq(Frames) /\ DOMAIN stack' = 1..(n - 1) /\ Len(stack') = n - 1
        /\ \A i \in 1..(n - 1) : stack'[i] = stack[i]
    BY <1>1, <2>1, Stacks
  <2>3. ordered' \in Seq(Registered) /\ Range(ordered') = Range(ordered) \cup {top.id}
    BY <1>1, <1>2, <2>1, Queues
  <2>4. Range(Up(top.id)) \subseteq Range(ordered)
    <3>1. ASSUME NEW k \in DOMAIN Up(top.id) PROVE Up(top.id)[k] \in Range(ordered)
      BY <1>2, <1>4, <1>6, <3>1 DEF Settled
    <3> QED BY <3>1 DEF Range
  <2> DEFINE m == Len(ordered)
  <2>5. /\ m \in Nat /\ DOMAIN ordered = 1..m /\ DOMAIN ordered' = 1..(m + 1)
        /\ ordered'[m + 1] = top.id /\ \A i \in 1..m : ordered'[i] = ordered[i]
    BY <1>1, <1>2, <2>1
  <2>6. InOrder'
    <3>1. Range(ordered') \subseteq ids'
      BY <1>1, <1>3, <1>4, <2>3 DEF InOrder
    <3>2. IsInjective(ordered')
      <4> SUFFICES ASSUME NEW i \in 1..(m + 1), NEW j \in 1..(m + 1), ordered'[i] = ordered'[j]
                   PROVE  i = j
        BY <2>5 DEF IsInjective
      <4>1. \A k \in 1..m : ordered[k] # top.id
        BY <1>4, <2>5 DEF Range
      <4>2. CASE i \in 1..m /\ j \in 1..m
        BY <4>2, <2>5, <1>3 DEF InOrder, IsInjective
      <4>3. CASE i = m + 1 \/ j = m + 1
        BY <4>1, <4>3, <2>5
      <4> HIDE DEF m
      <4> QED BY <4>2, <4>3, <2>5
    <3>3. ASSUME NEW i \in DOMAIN ordered' PROVE Range(Up(ordered'[i])) \subseteq Earlier(i)'
      <4>1. \A j \in 1..(i - 1) : j \in 1..m /\ ordered'[j] = ordered[j]
        BY <2>5
      <4>2. Earlier(i)' = Earlier(i)
        BY <4>1 DEF Earlier
      <4>3. CASE i \in 1..m
        BY <4>2, <4>3, <2>5, <1>3 DEF InOrder
      <4>4. CASE i = m + 1
        <5>1. Earlier(i) = Range(ordered)
          BY <4>4, <2>5 DEF Earlier, Range
        <5> QED BY <4>2, <4>4, <5>1, <2>4, <2>5
      <4> HIDE DEF m
      <4> QED BY <4>3, <4>4, <2>5
    <3>4. \A i \in DOMAIN ordered' : Range(Up(ordered[i]))' \subseteq Earlier(i)'
      BY <3>3, <1>1 DEF Up, inputVars
    <3> QED BY <3>1, <3>2, <3>4 DEF InOrder
  <2>7. \A i \in DOMAIN stack' : i \in DOMAIN stack /\ stack'[i] = stack[i] /\ i < n
    <3> HIDE DEF n
    <3> QED BY <1>2, <2>2
  <2>8. \A c \in ids : c \in Range(todo) \cup Range(ordered') \cup Visiting'
    <3> SUFFICES ASSUME NEW c \in Visiting PROVE c \in Range(ordered') \cup Visiting'
      BY <1>3, <2>3
    <3>1. PICK i \in 1..n : c = stack[i].id
      BY <1>2 DEF Visiting
    <3>2. CASE i = n
      BY <3>1, <3>2, <1>2, <2>3
    <3>3. CASE i # n
      <4>1. i \in 1..(n - 1)
        <5> HIDE DEF n
        <5> QED BY <3>3, <1>2
      <4> QED BY <4>1, <3>1, <2>2 DEF Visiting
    <3> QED BY <3>2, <3>3
  <2>9. \A i \in DOMAIN stack' : stack'[i].id \in ids /\ stack'[i].id \notin Range(ordered')
    BY <2>7, <2>3, <1>2, <1>3
  <2>10. ASSUME NEW i \in DOMAIN stack' PROVE Settled(stack, i)'
    <3> SUFFICES ASSUME NEW k \in DOMAIN Up(stack[i].id), k < stack[i].dep
                 PROVE  \/ Up(stack[i].id)[k] \in Range(ordered')
                        \/ i < n - 1 /\ Up(stack[i].id)[k] = stack'[i + 1].id
      <4>1. Up(stack[i].id)' = Up(stack[i].id)
        BY <2>7, <2>10, <1>1 DEF Up, inputVars
      <4> QED BY <4>1, <2>7, <2>10, <2>2 DEF Settled
    <3>1. \/ Up(stack[i].id)[k] \in Range(ordered)
          \/ i < n /\ Up(stack[i].id)[k] = stack[i + 1].id
      BY <1>3, <2>7, <2>10 DEF Settled
    <3>2. CASE i = n - 1
      BY <3>1, <3>2, <1>2, <2>3
    <3>3. CASE i < n - 1
      BY <3>1, <3>3, <1>2, <2>2, <2>3
    <3>4. i = n - 1 \/ i < n - 1
      <4> HIDE DEF n
      <4> QED BY <2>2, <1>2
    <3> QED BY <3>2, <3>3, <3>4
  <2>11. \A i, j \in DOMAIN stack' :
            i < j => stack'[i].id # stack'[j].id /\ stack'[j].id \in Behind(stack'[i].id)
    BY <2>7, <1>3
  <2>12. \A i, j \in DOMAIN stack' :
            i < j => stack'[i].id # stack'[j].id /\ stack'[j].id \in Behind(stack[i].id)'
    BY <2>7, <2>11, <1>5, <1>1 DEF Behind, Up, Closed, Registered, inputVars
  <2>13. Ordering'
    BY <1>1, <1>3, <2>1, <2>6, <2>8, <2>9, <2>10, <2>12 DEF Ordering
  <2> QED BY <1>1, <2>1, <2>2, <2>3, <2>13, VisitGoesOn
<1>7. ASSUME top.dep <= Len(Up(top.id))
      PROVE  d \in Range(Up(top.id)) /\ d \in ids /\ d \in Registered
  <2>1. d \in Range(Up(top.id))
    BY <1>2, <1>7 DEF Range
  <2> QED BY <2>1, <1>2, <1>3, <1>4 DEF Closed
\* d is behind everything on the stack
<1>8. ASSUME top.dep <= Len(Up(top.id)), NEW i \in 1..n
      PROVE  d \in Behind(stack[i].id)
  <2>1. d \in Range(Up(top.id))
    BY <1>7, <1>8
  <2>2. CASE i = n
    BY <2>1, <2>2, <1>1, <1>2, BehindClosed
  <2>3. CASE i # n
    <3>1. i < n
      <4> HIDE DEF n
      <4> QED BY <2>3, <1>2, <1>8
    <3>2. top.id \in Behind(stack[i].id) /\ stack[i].id \in Registered
      BY <3>1, <1>2, <1>3, <1>8
    <3> QED BY <3>2, <2>1, <1>1, <1>2, BehindClosed DEF Closed
  <2> QED BY <2>2, <2>3
\* The frames there were, the top one moved on
<1> DEFINE Same == \A i \in 1..n : /\ stack'[i].id = stack[i].id
                                   /\ i < n => stack'[i] = stack[i]
                                   /\ i = n => stack'[i].dep = top.dep + 1
<1>9. ASSUME \A i \in 1..n : stack'[i] = Step[i] PROVE Same
  <2>1. \A i \in 1..n : i \in 1..(n - 1) \/ i = n
    <3> HIDE DEF n
    <3> QED BY <1>2
  <2>2. n \in 1..n /\ ~ (n < n) /\ n \notin 1..(n - 1)
    <3> HIDE DEF n
    <3> QED BY <1>2
  <2>3. stack'[n].id = top.id /\ stack'[n].dep = top.dep + 1
    BY <1>1, <1>9, <2>2, Stacks
  <2>4. ASSUME NEW i \in 1..(n - 1) PROVE stack'[i] = stack[i]
    <3>1. i \in 1..n
      <4> HIDE DEF n
      <4> QED BY <1>2
    <3>2. Step[i] = stack[i]
      BY <1>1, Stacks
    <3> QED BY <3>1, <3>2, <1>9
  <2> QED BY <2>1, <2>2, <2>3, <2>4, <1>2
\* A frame there was stays settled, if d is in the order or on top of the stack now
<1>10. ASSUME top.dep <= Len(Up(top.id)), Same, Len(stack') \in {n, n + 1}, ordered' = ordered,
              d \in Range(ordered) \/ (Len(stack') = n + 1 /\ stack'[n + 1].id = d),
              NEW i \in 1..n
       PROVE  Settled(stack, i)'
  <2> SUFFICES ASSUME NEW k \in DOMAIN Up(stack[i].id), k < stack'[i].dep
               PROVE  \/ Up(stack[i].id)[k] \in Range(ordered)
                      \/ i < Len(stack') /\ Up(stack[i].id)[k] = stack'[i + 1].id
    <3>1. Up(stack[i].id)' = Up(stack[i].id)
      BY <1>10, <1>1 DEF Up, inputVars
    <3> QED BY <3>1, <1>10 DEF Settled
  <2>1. CASE i < n
    <3>1. \/ Up(stack[i].id)[k] \in Range(ordered)
          \/ Up(stack[i].id)[k] = stack[i + 1].id
      BY <1>2, <1>3, <1>10, <2>1 DEF Settled
    <3>2. i + 1 \in 1..n /\ i < Len(stack')
      <4> HIDE DEF n
      <4> QED BY <1>2, <1>10, <2>1
    <3> QED BY <3>1, <3>2, <1>10
  <2>2. CASE i = n
    <3>1. stack[i].id = top.id /\ stack'[i].dep = top.dep + 1
      BY <2>2, <1>2, <1>10
    <3>2. k = top.dep \/ k < top.dep
      BY <3>1, <1>2
    <3>3. CASE k < top.dep
      BY <3>1, <3>3, <2>2, <1>2, <1>4 DEF Settled
    <3>4. CASE k = top.dep
      BY <3>1, <3>4, <2>2, <1>10, <1>2
    <3> QED BY <3>2, <3>3, <3>4
  <2>3. i < n \/ i = n
    <3> HIDE DEF n
    <3> QED BY <1>2, <1>10
  <2> QED BY <2>1, <2>2, <2>3
<1>11. ASSUME ordered' = ordered PROVE InOrder'
  BY <1>1, <1>3, <1>11, InOrderStill
<1>12. CASE top.dep <= Len(Up(top.id)) /\ d \in Range(ordered)
  <2>1. stack' = Step /\ pc' = pc /\ ordered' = ordered
    <3>1. ~ (top.dep > Len(Up(top.id)))
      BY <1>2, <1>12
    <3>2. ordered' = ordered /\ d \in Range(ordered)
      BY <3>1, <1>12 DEF VisitDep
    <3> QED BY <3>1, <3>2 DEF VisitDep
  <2>2. stack' \in Seq(Frames) /\ DOMAIN stack' = 1..n /\ Len(stack') = n
    BY <1>1, <2>1, Stacks
  <2>3. Same
    BY <1>9, <2>1
  <2>4. ASSUME NEW i \in 1..n PROVE Settled(stack, i)'
    BY <1>10, <1>12, <2>1, <2>2, <2>3
  <2>5. Visiting' = Visiting
    BY <2>2, <2>3, <1>2 DEF Visiting
  <2>6. \A i, j \in DOMAIN stack' :
            i < j => stack'[i].id # stack'[j].id /\ stack'[j].id \in Behind(stack'[i].id)
    BY <2>2, <2>3, <1>2, <1>3
  <2>7. \A i, j \in DOMAIN stack' :
            i < j => stack'[i].id # stack'[j].id /\ stack'[j].id \in Behind(stack[i].id)'
    BY <2>6, <1>1 DEF Behind, Up, Closed, Registered, inputVars
  <2>8. \A i \in DOMAIN stack' : stack'[i].id \in ids /\ stack'[i].id \notin Range(ordered)
    BY <2>2, <2>3, <1>2, <1>3
  <2>9. Ordering'
    BY <1>1, <1>3, <1>11, <2>1, <2>2, <2>4, <2>5, <2>7, <2>8 DEF Ordering
  <2> QED BY <1>1, <2>1, <2>2, <2>9, VisitGoesOn
<1>13. CASE top.dep <= Len(Up(top.id)) /\ d \notin Range(ordered) /\ d \in Visiting
  <2>1. pc' = "raised" /\ stack' = stack /\ ordered' = ordered
    BY <1>1, <1>2, <1>13 DEF VisitDep
  <2>2. d \in Behind(d)
    <3>1. PICK i \in 1..n : d = stack[i].id
      BY <1>2, <1>13 DEF Visiting
    <3>2. d \in Behind(stack[i].id)
      BY <1>8, <1>13
    <3> QED BY <3>1, <3>2
  <2>3. ~ Resolvable
    BY <2>2, <1>3, <1>7, <1>13 DEF Resolvable
  <2>4. Types'
    BY <1>1, <2>1, Still DEF IInv, Types, Places, inputVars
  <2>5. Begun'
    BY <1>1, <2>1, Still DEF IInv, Begun, inputVars
  <2>6. Closing'
    BY <1>1, <2>1, <2>3, <1>3, Still DEF IInv, Closing
  <2> QED BY <1>1, <2>1, <2>4, <2>5, <2>6, QuietQuality, QuietOrder DEF IInv
<1>14. CASE top.dep <= Len(Up(top.id)) /\ d \notin Range(ordered) /\ d \notin Visiting
  <2> DEFINE f == [id |-> d, dep |-> 1]
  <2>1. stack' = Append(Step, f) /\ pc' = pc /\ ordered' = ordered
    BY <1>1, <1>2, <1>14 DEF VisitDep
  <2>2. f \in Frames /\ Step \in Seq(Frames) /\ Len(Step) = n /\ f.id = d /\ f.dep = 1
    BY <1>1, <1>7, <1>14, NewFrame, Stacks
  <2>3. d \in ids /\ d \in Registered /\ \A i \in 1..n : d \in Behind(stack[i].id) /\ d # stack[i].id
    BY <1>2, <1>7, <1>8, <1>14 DEF Visiting
  <2>4. d \notin Range(ordered)
    BY <1>14
  <2> HIDE DEF f
  <2>5. /\ stack' \in Seq(Frames) /\ DOMAIN stack' = 1..(n + 1) /\ stack'[n + 1] = f
        /\ Len(stack') = n + 1
        /\ \A i \in 1..n : stack'[i] = Step[i]
    BY <2>1, <2>2, <1>2
  <2>6. Same
    BY <1>9, <2>5
  <2>7. \A i \in DOMAIN stack' : i \in 1..n \/ i = n + 1
    <3> HIDE DEF n
    <3> QED BY <2>5, <1>2
  <2>8. ASSUME NEW i \in DOMAIN stack', i = n + 1 PROVE Settled(stack, i)'
    <3>1. \A k \in DOMAIN Up(d) : ~ (k < 1)
      BY <2>3, <1>1, Analyzer
    <3>2. stack'[i].id = d /\ stack'[i].dep = 1
      BY <2>2, <2>5, <2>8
    <3>3. \A k \in DOMAIN Up(stack[i].id)' : ~ (k < stack'[i].dep)
      BY <3>1, <3>2, <1>1 DEF Up, inputVars
    <3> QED BY <3>3 DEF Settled
  <2>9. \A i \in 1..n : Settled(stack, i)'
    BY <1>10, <1>14, <2>1, <2>2, <2>5, <2>6
  <2>10. \A i \in DOMAIN stack' : Settled(stack, i)'
    BY <2>7, <2>8, <2>9
  <2>11. Visiting \subseteq Visiting'
    <3>1. \A i \in DOMAIN stack : i \in DOMAIN stack' /\ stack'[i].id = stack[i].id
      <4> HIDE DEF n
      <4> QED BY <2>5, <2>6, <1>2
    <3> QED BY <3>1 DEF Visiting
  <2> HIDE DEF d
  <2>12. ASSUME NEW i \in DOMAIN stack', NEW j \in DOMAIN stack', i < j
         PROVE  stack'[i].id # stack'[j].id /\ stack'[j].id \in Behind(stack'[i].id)
    <3>1. i \in 1..n
      <4> HIDE DEF n
      <4> QED BY <2>12, <2>5, <1>2
    <3>2. stack'[i].id = stack[i].id
      BY <3>1, <2>6
    <3>3. CASE j = n + 1
      BY <3>1, <3>2, <3>3, <2>2, <2>3, <2>5
    <3>4. CASE j \in 1..n
      BY <3>1, <3>2, <3>4, <2>6, <2>12, <1>2, <1>3
    <3> QED BY <3>3, <3>4, <2>7
  <2>13. \A i, j \in DOMAIN stack' :
            i < j => stack'[i].id # stack'[j].id /\ stack'[j].id \in Behind(stack[i].id)'
    BY <2>12, <1>1 DEF Behind, Up, Closed, Registered, inputVars
  <2>14. \A i \in DOMAIN stack' : stack'[i].id \in ids /\ stack'[i].id \notin Range(ordered)
    BY <2>2, <2>3, <2>4, <2>5, <2>6, <2>7, <1>2, <1>3
  <2>15. Ordering'
    BY <1>1, <1>3, <1>11, <2>1, <2>10, <2>11, <2>13, <2>14 DEF Ordering
  <2> QED BY <1>1, <2>1, <2>5, <2>15, VisitGoesOn
<1>15. top.dep > Len(Up(top.id)) \/ top.dep <= Len(Up(top.id))
  BY <1>2
<1> QED BY <1>6, <1>12, <1>13, <1>14, <1>15

-----------------------------------------------------------------------------
(* run_analyses *)

\* What the loop starts each turn from
LEMMA Turns ==
  ASSUME IInv, pc = "run"
  PROVE  /\ ids = Closure /\ ids \subseteq Registered /\ Range(ordered) = ids
         /\ ordered \in Seq(Registered) /\ DOMAIN ordered = 1..Len(ordered) /\ Len(ordered) \in Nat
         /\ IsInjective(ordered)
         /\ \A i \in DOMAIN ordered : Range(Up(ordered[i])) \subseteq Earlier(i)
         /\ next \in Nat \ {0} /\ next <= Len(ordered) + 1
         /\ DOMAIN refused = {a \in Earlier(next) : Starved(a)}
         /\ DOMAIN results = {a \in Earlier(next) : ~ Starved(a)}
         /\ profile = NoProfile <=> wanted \notin Profiles
<1>1. ids \subseteq Registered /\ ordered \in Seq(Registered)
  BY Queues DEF IInv, Types, ids
<1> QED BY <1>1 DEF IInv, Types, Begun, Closing, Ordering, InOrder, Running

\* An analyzer whose turn it is refuses exactly when something is missing to it or
\* to what is behind it
LEMMA Refusing ==
  ASSUME IInv, pc = "run", next <= Len(ordered), NEW a, a = ordered[next]
  PROVE  /\ Reason(a) # "none" <=> Starved(a)
         /\ a \in Registered /\ Range(Up(a)) \subseteq Earlier(next) /\ Range(Up(a)) \subseteq Registered
         /\ Behind(a) = Range(Up(a)) \cup UNION {Behind(d) : d \in Range(Up(a))}
<1>1. next \in DOMAIN ordered
  BY Turns
<1>2. a \in Registered /\ Range(Up(a)) \subseteq Earlier(next)
  BY <1>1, Turns
<1>3. Earlier(next) \subseteq Registered
  BY <1>1, Turns DEF Earlier
<1>4. Behind(a) = Range(Up(a)) \cup UNION {Behind(d) : d \in Range(Up(a))}
  BY <1>2, <1>3, BehindUnfolds DEF IInv
<1>5. Starved(a) <=> Missing(a) \/ \E d \in Range(Up(a)) : Starved(d)
  BY <1>4 DEF Starved
<1>6. (\E d \in Range(Up(a)) : Starved(d)) <=> Range(Up(a)) \cap DOMAIN refused # {}
  BY <1>2, Turns
<1>7. Missing(a) <=> \/ reg[a].needs_grid /\ ~ has_grid
                     \/ reg[a].needs_profile /\ profile = NoProfile
  BY Turns DEF Missing
<1>8. Reason(a) # "none" <=> Missing(a) \/ Range(Up(a)) \cap DOMAIN refused # {}
  BY <1>7 DEF Reason
<1> QED BY <1>2, <1>3, <1>4, <1>5, <1>6, <1>8

\* The analyzer whose turn it is joins those that are done with
LEMMA TurnTaken ==
  ASSUME IInv, pc = "run", next <= Len(ordered)
  PROVE  Earlier(next + 1) = Earlier(next) \cup {ordered[next]} /\ ordered[next] \notin Earlier(next)
<1>1. next \in Nat \ {0} /\ DOMAIN ordered = 1..Len(ordered) /\ Len(ordered) \in Nat
  BY Turns
<1>3. \A j \in 1..(next - 1) : j \in DOMAIN ordered /\ j # next
  BY <1>1
<1>4. next \in DOMAIN ordered
  BY <1>1
<1>5. \A j \in 1..(next - 1) : ordered[j] # ordered[next]
  BY <1>3, <1>4, Turns DEF IsInjective
<1>6. ordered[next] \notin Earlier(next)
  BY <1>5 DEF Earlier
<1>7. Earlier(next + 1) = {ordered[j] : j \in 1..next}
  BY <1>1 DEF Earlier
<1>8. 1..next = 1..(next - 1) \cup {next}
  BY <1>1
<1>9. Earlier(next + 1) = Earlier(next) \cup {ordered[next]}
  BY <1>7, <1>8 DEF Earlier
<1> QED BY <1>6, <1>9

\* A turn of the loop, whatever came of it
LEMMA TurnEnds ==
  ASSUME IInv, pc = "run", next <= Len(ordered), next' = next + 1,
         UNCHANGED <<inputVars, pc, profile, walkVars>>,
         \A a \in DOMAIN results' : results'[a] \in SUBSET Qualities,
         QualityInherited',
         LET a == ordered[next] IN
           /\ DOMAIN refused' = DOMAIN refused \cup (IF Starved(a) THEN {a} ELSE {})
           /\ DOMAIN results' = DOMAIN results \cup (IF Starved(a) THEN {} ELSE {a})
  PROVE  IInv'
<1> USE DEF IInv
<1>1. /\ UNCHANGED inputVars /\ ids' = ids /\ pc' = "run"
      /\ UNCHANGED <<chosen, todo, stack, ordered>>
  BY DEF walkVars, ids
<1>2. Types'
  BY <1>1, Still DEF Types, Places, inputVars
<1>3. Begun'
  BY <1>1, Still DEF Begun, inputVars
<1>4. Closing'
  BY <1>1, Still DEF Closing
<1>5. Ordering'
  <2>1. InOrder'
    BY <1>1, InOrderStill DEF Ordering
  <2> QED BY <1>1, <2>1, Turns DEF Ordering
<1>6. Running'
  <2>1. Earlier(next)' = Earlier(next) \cup {ordered[next]}
    BY <1>1, TurnTaken DEF Earlier
  <2>2. \A a : Starved(a)' = Starved(a)
    BY <1>1, Still
  <2>3. /\ DOMAIN refused' = {a \in Earlier(next)' : Starved(a)}
        /\ DOMAIN results' = {a \in Earlier(next)' : ~ Starved(a)}
    BY <2>1, Turns
  <2>4. next' <= Len(ordered') + 1 /\ pc' # "done"
    BY <1>1, Turns
  <2>5. /\ DOMAIN refused' = {a \in Earlier(next)' : Starved(a)'}
        /\ DOMAIN results' = {a \in Earlier(next)' : ~ Starved(a)'}
    BY <2>2, <2>3
  <2> QED BY <2>4, <2>5 DEF Running
<1> QED BY <1>1, <1>2, <1>3, <1>4, <1>5, <1>6

LEMMA RefuseStep == IInv /\ Refuse => IInv'
<1> SUFFICES ASSUME IInv, Refuse PROVE IInv'
  OBVIOUS
<1> DEFINE a == ordered[next]
<1>1. /\ pc = "run" /\ next <= Len(ordered) /\ next' = next + 1 /\ Reason(a) # "none"
      /\ UNCHANGED <<inputVars, pc, profile, walkVars>> /\ UNCHANGED inputVars /\ results' = results
      /\ refused' = Extend(refused, a, Reason(a))
  BY DEF Refuse
<1>2. Starved(a)
  BY <1>1, Refusing
<1>3. DOMAIN refused' = DOMAIN refused \cup {a}
  BY <1>1 DEF Extend
<1>4. QualityInherited'
  BY <1>1, QuietQuality DEF IInv
<1>5. \A x \in DOMAIN results' : results'[x] \in SUBSET Qualities
  BY <1>1 DEF IInv, Types
<1>6. /\ DOMAIN refused' = DOMAIN refused \cup (IF Starved(a) THEN {a} ELSE {})
      /\ DOMAIN results' = DOMAIN results \cup (IF Starved(a) THEN {} ELSE {a})
  BY <1>1, <1>2, <1>3
<1> HIDE DEF a
<1> QED BY <1>1, <1>4, <1>5, <1>6, TurnEnds DEF a

\* What a result says of itself, of analyzer a
Marked(a, q) ==
  LET timed == \E b \in q.of : reg[b].timing
  IN  /\ q.of \subseteq {a} \cup Behind(a)
      /\ q.calibrated = IF timed THEN {calibrated} ELSE {}
      /\ ("uncalibrated" \in q.flags) <=> (timed /\ ~ calibrated)

LEMMA OwnMarked ==
  ASSUME Types, NEW a \in Registered
  PROVE  Own(a) \in Qualities /\ Marked(a, Own(a))
<1>1. reg[a].timing \in BOOLEAN /\ a \in Ids /\ calibrated \in BOOLEAN
  BY Analyzer DEF Analyzers, Types
<1>2. /\ Own(a).of = {a} /\ Own(a).calibrated = (IF reg[a].timing THEN {calibrated} ELSE {})
      /\ Own(a).flags = IF reg[a].timing /\ ~ calibrated THEN {"uncalibrated"} ELSE {}
  BY DEF Own
<1>3. Own(a) \in Qualities
  BY <1>1 DEF Own, Qualities
<1>4. (\E b \in Own(a).of : reg[b].timing) <=> reg[a].timing
  BY <1>2
<1> QED BY <1>2, <1>3, <1>4 DEF Marked

\* The meet of a quality and those of the results consumed keeps every mark
LEMMA MeetMarked ==
  ASSUME Types, NEW a \in Registered, Range(Up(a)) \subseteq Registered,
         Behind(a) = Range(Up(a)) \cup UNION {Behind(d) : d \in Range(Up(a))},
         NEW Q \in SUBSET Qualities,
         \A q \in Q : \E d \in Range(Up(a)) : Marked(d, q)
  PROVE  Meet(Own(a), Q) \in Qualities /\ Marked(a, Meet(Own(a), Q))
<1> DEFINE own == Own(a)
           all == Q \cup {own}
           cals == UNION {q.calibrated : q \in all}
           m == Meet(own, Q)
           Timed(q) == \E b \in q.of : reg[b].timing
<1>1. /\ all \subseteq Qualities
      /\ \A q \in all : /\ q.of \subseteq {a} \cup Behind(a)
                        /\ q.calibrated = IF Timed(q) THEN {calibrated} ELSE {}
                        /\ ("uncalibrated" \in q.flags) <=> (Timed(q) /\ ~ calibrated)
  <2>1. own \in Qualities /\ Marked(a, own)
    BY OwnMarked
  <2>2. \A q \in Q : q.of \subseteq {a} \cup Behind(a)
    BY DEF Marked
  <2>3. \A q \in Q : \E d \in Range(Up(a)) : Marked(d, q)
    OBVIOUS
  <2> HIDE DEF own
  <2> QED BY <2>1, <2>2, <2>3 DEF Marked
<1>2. /\ m.of = UNION {q.of : q \in all} /\ m.flags = UNION {q.flags : q \in all}
      /\ m.calibrated = IF cals = {} THEN {} ELSE {cals = {TRUE}}
      /\ m = [calibrated |-> m.calibrated, flags |-> m.flags, of |-> m.of]
  <2>1. /\ UNION {q.of : q \in all} = own.of \cup UNION {q.of : q \in Q}
        /\ UNION {q.flags : q \in all} = own.flags \cup UNION {q.flags : q \in Q}
        /\ cals = own.calibrated \cup UNION {q.calibrated : q \in Q}
    OBVIOUS
  <2> HIDE DEF own, all, cals
  <2> QED BY <2>1 DEF Meet
<1> HIDE DEF m, own, all
<1>3. Timed(m) <=> \E q \in all : Timed(q)
  BY <1>2
<1>4. cals = IF Timed(m) THEN {calibrated} ELSE {}
  BY <1>1, <1>3
<1>5. calibrated \in BOOLEAN
  BY DEF Types
<1>6. m.calibrated = IF Timed(m) THEN {calibrated} ELSE {}
  <2>1. CASE Timed(m)
    <3>1. cals = {calibrated} /\ m.calibrated = {cals = {TRUE}}
      BY <2>1, <1>4, <1>2
    <3>2. (cals = {TRUE}) = calibrated
      BY <3>1, <1>5
    <3> QED BY <2>1, <3>1, <3>2
  <2>2. CASE ~ Timed(m)
    BY <2>2, <1>4, <1>2
  <2> QED BY <2>1, <2>2
<1>7. ("uncalibrated" \in m.flags) <=> (Timed(m) /\ ~ calibrated)
  BY <1>1, <1>2, <1>3
<1>8. m.of \subseteq {a} \cup Behind(a)
  BY <1>1, <1>2
<1>9. m \in Qualities
  <2>1. m.of \subseteq Ids
    BY <1>1, <1>2 DEF Qualities
  <2>2. m.flags \subseteq {"uncalibrated"}
    BY <1>1, <1>2 DEF Qualities
  <2>3. m.calibrated \subseteq BOOLEAN
    BY <1>5, <1>6
  <2> QED BY <1>2, <2>1, <2>2, <2>3 DEF Qualities
<1>10. Marked(a, m)
  BY <1>6, <1>7, <1>8 DEF Marked
<1> QED BY <1>9, <1>10 DEF m, own

LEMMA ComputeStep == IInv /\ Compute => IInv'
<1> SUFFICES ASSUME IInv, Compute PROVE IInv'
  OBVIOUS
<1> DEFINE a == ordered[next]
           consumed == UNION {results[d] : d \in Range(Up(a)) \cap DOMAIN results}
<1>1. /\ pc = "run" /\ next <= Len(ordered) /\ next' = next + 1 /\ Reason(a) = "none"
      /\ UNCHANGED <<inputVars, pc, profile, walkVars>> /\ UNCHANGED inputVars /\ refused' = refused
  BY DEF Compute
<1>2. PICK out \in {{}, {Meet(Own(a), consumed)}} : results' = Extend(results, a, out)
  BY DEF Compute
<1>3. /\ ~ Starved(a) /\ a \in Registered /\ Range(Up(a)) \subseteq Registered
      /\ Behind(a) = Range(Up(a)) \cup UNION {Behind(d) : d \in Range(Up(a))}
  BY <1>1, Refusing
<1>4. /\ \A x \in DOMAIN results : results[x] \in SUBSET Qualities
      /\ \A x \in DOMAIN results : \A q \in results[x] : Marked(x, q)
  BY DEF IInv, Types, QualityInherited, Marked
<1>5. consumed \in SUBSET Qualities /\ \A q \in consumed : \E d \in Range(Up(a)) : Marked(d, q)
  BY <1>4
<1>6. Types
  BY DEF IInv
<1> HIDE DEF a, consumed
<1>7. \A q \in out : q \in Qualities /\ Marked(a, q)
  BY <1>2, <1>3, <1>5, <1>6, MeetMarked
<1>8. /\ DOMAIN results' = DOMAIN results \cup {a} /\ results'[a] = out
      /\ \A x \in DOMAIN results : x # a => results'[x] = results[x]
  BY <1>2 DEF Extend
<1>9. \A x \in DOMAIN results' : results'[x] \in SUBSET Qualities
  BY <1>4, <1>7, <1>8
<1>10. \A x \in DOMAIN results' : \A q \in results'[x] : Marked(x, q)
  BY <1>4, <1>7, <1>8
<1>11. reg' = reg /\ calibrated' = calibrated /\ \A x : Behind(x)' = Behind(x)
  BY <1>1, Still DEF inputVars
<1>12. QualityInherited'
  BY <1>10, <1>11 DEF QualityInherited, Marked
<1>13. /\ DOMAIN refused' = DOMAIN refused \cup (IF Starved(a) THEN {a} ELSE {})
       /\ DOMAIN results' = DOMAIN results \cup (IF Starved(a) THEN {} ELSE {a})
  BY <1>1, <1>3, <1>8
<1> QED BY <1>1, <1>9, <1>12, <1>13, TurnEnds DEF a

LEMMA DoneStep == IInv /\ Done => IInv'
<1> SUFFICES ASSUME IInv, Done PROVE IInv'
  OBVIOUS
<1> USE DEF IInv
<1>1. /\ pc = "run" /\ pc' = "done" /\ next > Len(ordered) /\ UNCHANGED inputVars
      /\ UNCHANGED <<profile, chosen, todo, stack, ordered, next, results, refused>> /\ ids' = ids
  BY DEF Done, walkVars, ids
<1>2. Types'
  BY <1>1, Still DEF Types, Places, inputVars
<1>3. Begun'
  BY <1>1, Still DEF Begun, inputVars
<1>4. Closing'
  BY <1>1, Still DEF Closing
<1>5. Ordering'
  <2>1. InOrder'
    BY <1>1, InOrderStill DEF Ordering
  <2> QED BY <1>1, <2>1, Turns DEF Ordering
<1>6. Running'
  <2>1. Earlier(next)' = Earlier(next) /\ \A a : Starved(a)' = Starved(a)
    BY <1>1, Still DEF Earlier
  <2>2. next = Len(ordered) + 1
    BY <1>1, Turns
  <2> QED BY <1>1, <2>1, <2>2, Turns DEF Running
<1> QED BY <1>1, <1>2, <1>3, <1>4, <1>5, <1>6, QuietQuality

-----------------------------------------------------------------------------
(* The theorems *)

LEMMA IInvNext == IInv /\ [Next]_vars => IInv'
<1>1. ASSUME IInv, UNCHANGED vars PROVE IInv'
  <2>1. /\ UNCHANGED inputVars /\ ids' = ids
        /\ UNCHANGED <<pc, profile, chosen, todo, stack, ordered, next, results, refused>>
    BY <1>1 DEF vars, walkVars, ids
  <2>2. Types'
    BY <1>1, <2>1, Still DEF IInv, Types, Places, inputVars
  <2>3. Begun'
    BY <1>1, <2>1, Still DEF IInv, Begun, inputVars
  <2>4. Closing'
    BY <1>1, <2>1, Still DEF IInv, Closing, Opened, Up, Registered, inputVars
  <2>5. Ordering'
    <3>1. \A i : Settled(stack, i)' <=> Settled(stack, i)
      BY <2>1 DEF Settled, Up, inputVars
    <3>2. InOrder' /\ Visiting' = Visiting
      BY <1>1, <2>1, InOrderStill DEF IInv, Ordering, Visiting
    <3>3. \A i : Behind(stack[i].id)' = Behind(stack[i].id)
      BY <2>1 DEF Behind, Closed, Up, Registered, inputVars
    <3> QED BY <1>1, <2>1, <3>1, <3>2, <3>3 DEF IInv, Ordering
  <2>6. Running'
    <3>1. Earlier(next)' = Earlier(next) /\ \A a : Starved(a)' = Starved(a)
      BY <2>1, Still DEF Earlier
    <3> QED BY <1>1, <2>1, <3>1 DEF IInv, Running
  <2> QED BY <1>1, <2>1, <2>2, <2>3, <2>4, <2>5, <2>6, QuietQuality DEF IInv
<1> QED BY <1>1, StartStep, ChooseStep, CloseFromStep, CloseDepStep, VisitFromStep, VisitDepStep,
           RefuseStep, ComputeStep, DoneStep DEF Next

\* The invariant of the walks and of the loop: what has been chosen, opened, visited,
\* ordered, refused and computed so far hangs together.
THEOREM Inductive == Spec => []IInv
<1>1. IInv /\ [Next]_vars => IInv'
  BY IInvNext
<1> QED BY IInvInit, <1>1, PTL DEF Spec

\* Whatever is registered and asked for, _resolve finds what has to be run and an
\* order that respects every dependency, or raises because there is none.
THEOREM ResolvedExactly == Spec => []ResolvesExactly
<1>1. IInv => ResolvesExactly
  <2> SUFFICES ASSUME IInv, pc \in {"run", "done"}
               PROVE  /\ Resolvable
                      /\ Range(ordered) = Closure /\ IsInjective(ordered)
                      /\ \A i, j \in DOMAIN ordered : Edge(ordered[i], ordered[j]) => j < i
    BY DEF IInv, Closing, ResolvesExactly
  <2>1. /\ Range(ordered) = Closure /\ IsInjective(ordered) /\ Closed(Closure)
        /\ \A i \in DOMAIN ordered : Range(Up(ordered[i])) \subseteq Earlier(i)
        /\ ordered \in Seq(Registered) /\ DOMAIN ordered = 1..Len(ordered) /\ Len(ordered) \in Nat
        /\ Types
    BY DEF IInv, Types, Closing, Ordering, InOrder
  <2>2. ASSUME NEW i \in DOMAIN ordered PROVE ordered[i] \notin Earlier(i)
    <3>1. \A j \in 1..(i - 1) : j \in DOMAIN ordered /\ j # i
      BY <2>1
    <3> QED BY <3>1, <2>1 DEF Earlier, IsInjective
  <2>3. ASSUME NEW i \in DOMAIN ordered PROVE ordered[i] \notin Behind(ordered[i])
    <3>1. Earlier(i) \in SUBSET Ids
      <4>1. \A j \in 1..(i - 1) : ordered[j] \in Registered
        BY <2>1
      <4>2. \A a \in Registered : a \in Ids
        BY <2>1, Analyzer
      <4> QED BY <4>1, <4>2 DEF Earlier
    <3>2. ASSUME NEW j \in 1..(i - 1) PROVE Range(Up(ordered[j])) \subseteq Earlier(i)
      <4>1. j \in DOMAIN ordered /\ \A k \in 1..(j - 1) : k \in 1..(i - 1)
        BY <2>1
      <4>2. Earlier(j) \subseteq Earlier(i)
        BY <4>1 DEF Earlier
      <4> QED BY <4>1, <4>2, <2>1
    <3>3. Closed(Earlier(i))
      BY <3>2 DEF Closed, Earlier
    <3>4. Behind(ordered[i]) \subseteq Earlier(i)
      BY <3>1, <3>3, <2>1, BehindLeast
    <3> QED BY <3>4, <2>2
  <2>4. ASSUME NEW a \in Closure PROVE a \in Registered /\ a \notin Behind(a)
    <3>1. PICK i \in DOMAIN ordered : a = ordered[i]
      BY <2>1 DEF Range
    <3> QED BY <3>1, <2>1, <2>3
  <2>5. ASSUME NEW i \in DOMAIN ordered, NEW j \in DOMAIN ordered, Edge(ordered[i], ordered[j])
        PROVE  j < i
    <3>1. ordered[j] \in Earlier(i)
      BY <2>1, <2>5 DEF Edge
    <3>2. PICK k \in 1..(i - 1) : ordered[j] = ordered[k]
      BY <3>1 DEF Earlier
    <3>3. k \in DOMAIN ordered /\ k < i
      BY <2>1, <3>2
    <3> QED BY <3>2, <3>3, <2>1 DEF IsInjective
  <2> QED BY <2>1, <2>4, <2>5 DEF Resolvable
<1> QED BY <1>1, Inductive, PTL

\* Whatever is registered, an analyzer is refused exactly when it or something that
\* it rests on cannot be had.
THEOREM RefusedForCause == Spec => []RefusedExactly
<1>1. IInv => RefusedExactly
  <2> SUFFICES ASSUME IInv, pc = "done" PROVE RefusedExactly
    BY DEF RefusedExactly
  <2>1. /\ Range(ordered) = Closure /\ next = Len(ordered) + 1
        /\ ordered \in Seq(Registered) /\ DOMAIN ordered = 1..Len(ordered) /\ Len(ordered) \in Nat
        /\ DOMAIN refused = {a \in Earlier(next) : Starved(a)}
        /\ DOMAIN results = {a \in Earlier(next) : ~ Starved(a)}
    BY DEF IInv, Types, Closing, Ordering, Running
  <2>2. Earlier(next) = Closure
    BY <2>1 DEF Earlier, Range
  <2>3. DOMAIN results = Closure \ {a \in Closure : Starved(a)}
    BY <2>1, <2>2
  <2> QED BY <2>1, <2>2, <2>3 DEF RefusedExactly, Starved, Missing, wanted
<1> QED BY <1>1, Inductive, PTL

\* Whatever is registered, the mark of an uncalibrated session is on exactly those
\* results that a timing analyzer's numbers have gone into.
THEOREM QualityKept == Spec => []QualityInherited
<1>1. IInv => QualityInherited
  BY DEF IInv
<1> QED BY <1>1, Inductive, PTL
=============================================================================
