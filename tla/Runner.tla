------------------------------- MODULE Runner -------------------------------
(***************************************************************************)
(* edrum analyze (cli/main.py) and the runner of the analyzers             *)
(* (engine/analysis.py): which analyzers are run, in which order, which of *)
(* them refuse, and what the quality of a result inherits.  The registry   *)
(* is arbitrary: a graph of analyzers with their requirements.  The two    *)
(* recursions of _resolve are walks with a stack of [id, dep], dep the     *)
(* place of the dependency that is looked at next.                         *)
(***************************************************************************)
EXTENDS Naturals, Sequences, FiniteSets, SequencesExt

CONSTANTS
  Ids,         \* the names that analyzers go by
  Registries,  \* id -> [upstream, needs_grid, needs_profile, timing]
  Requests,    \* what --metrics may ask for: sequences of ids
  Profiles     \* profile ids that load

NoProfile == "none"

Analyzers == [upstream : Seq(Ids), needs_grid : BOOLEAN, needs_profile : BOOLEAN, timing : BOOLEAN]

ASSUME RunnerAssumption ==
  /\ \A r \in Registries : /\ DOMAIN r \subseteq Ids
                           /\ \A a \in DOMAIN r : r[a] \in Analyzers
  /\ \A r \in Requests : r \in Seq(Ids)
  /\ NoProfile \notin Profiles

VARIABLES
  reg, request, kit, pointer, has_grid, calibrated,  \* what the command is given
  pc,       \* "start", "choose", "close", "order", "run", "done", "error" (exit 1), "raised"
  profile,  \* the profile in use
  chosen,   \* ids: requested, then pulled in
  todo,     \* ids the walk has still to start from
  stack,    \* the frames of the recursion
  ordered,  \* dependencies before dependents
  next,     \* place in ordered
  results,  \* id -> quality of its result; [] for one that had nothing to say
  refused   \* id -> reason

inputVars == <<reg, request, kit, pointer, has_grid, calibrated>>
walkVars == <<chosen, todo, stack, ordered>>
vars == <<inputVars, pc, profile, walkVars, next, results, refused>>

Registered == DOMAIN reg
Up(a) == reg[a].upstream
top == stack[Len(stack)]
Push(id) == Append(stack, [id |-> id, dep |-> 1])
Pop == SubSeq(stack, 1, Len(stack) - 1)
Step == [stack EXCEPT ![Len(stack)].dep = @ + 1]

Init ==
  /\ reg \in Registries /\ request \in Requests
  /\ kit \in Profiles \cup {NoProfile, "damaged"}
  /\ pointer \in Profiles \cup {NoProfile, "damaged"}
  /\ has_grid \in BOOLEAN /\ calibrated \in BOOLEAN
  /\ pc = "start" /\ profile = NoProfile
  /\ chosen = <<>> /\ todo = <<>> /\ stack = <<>> /\ ordered = <<>>
  /\ next = 1 /\ results = <<>> /\ refused = <<>>

\* cmd_analyze: by_id of each metric; then the profile, --kit before meta's pointer.
\* Only the profile that was asked for by name must load.
Start ==
  /\ pc = "start"
  /\ LET wanted == IF kit # NoProfile THEN kit ELSE pointer
         loads == wanted \in Profiles
     IN IF (\E i \in DOMAIN request : request[i] \notin Registered) \/ (kit # NoProfile /\ ~ loads)
          THEN pc' = "error" /\ UNCHANGED <<profile, todo>>
          ELSE /\ pc' = "choose"
               /\ profile' = IF loads THEN wanted ELSE NoProfile
               /\ todo' = request
  /\ UNCHANGED <<inputVars, chosen, stack, ordered, next, results, refused>>

-----------------------------------------------------------------------------
(* _resolve *)

\* A dict of the requested analyzers by id keeps the first place of each
Choose ==
  /\ pc = "choose"
  /\ IF todo = <<>> THEN pc' = "close" /\ todo' = chosen /\ UNCHANGED chosen
     ELSE /\ chosen' = IF Head(todo) \in Range(chosen) THEN chosen ELSE Append(chosen, Head(todo))
          /\ todo' = Tail(todo) /\ UNCHANGED pc
  /\ UNCHANGED <<inputVars, profile, stack, ordered, next, results, refused>>

\* _close_over: from each requested analyzer, pull in what is not chosen yet
CloseFrom ==
  /\ pc = "close" /\ stack = <<>>
  /\ IF todo # <<>> THEN /\ stack' = Push(Head(todo)) /\ todo' = Tail(todo)
                         /\ UNCHANGED pc
                    ELSE pc' = "order" /\ todo' = chosen /\ UNCHANGED stack
  /\ UNCHANGED <<inputVars, profile, chosen, ordered, next, results, refused>>

CloseDep ==
  /\ pc = "close" /\ stack # <<>>
  /\ IF top.dep > Len(Up(top.id)) THEN stack' = Pop /\ UNCHANGED <<pc, chosen>>
     ELSE LET d == Up(top.id)[top.dep] IN
          CASE d \in Range(chosen) -> stack' = Step /\ UNCHANGED <<pc, chosen>>
            [] d \notin Range(chosen) /\ d \in Registered ->
                 /\ chosen' = Append(chosen, d)
                 /\ stack' = Append(Step, [id |-> d, dep |-> 1]) /\ UNCHANGED pc
            [] OTHER -> pc' = "raised" /\ UNCHANGED <<stack, chosen>>
  /\ UNCHANGED <<inputVars, profile, todo, ordered, next, results, refused>>

\* _visit: depth first, an analyzer after its dependencies
Visiting == {stack[i].id : i \in DOMAIN stack}

VisitFrom ==
  /\ pc = "order" /\ stack = <<>>
  /\ IF todo = <<>> THEN pc' = "run" /\ UNCHANGED <<todo, stack>>
     ELSE /\ todo' = Tail(todo) /\ UNCHANGED pc
          /\ stack' = IF Head(todo) \in Range(ordered) THEN stack ELSE Push(Head(todo))
  /\ UNCHANGED <<inputVars, profile, chosen, ordered, next, results, refused>>

\* mutant: a dependency that is being visited is passed over
VisitDepAcyclic ==
  /\ pc = "order" /\ stack # <<>>
  /\ IF top.dep > Len(Up(top.id))
       THEN ordered' = Append(ordered, top.id) /\ stack' = Pop
       ELSE LET d == Up(top.id)[top.dep] IN
            /\ UNCHANGED ordered
            /\ stack' = IF d \in Range(ordered) \cup Visiting THEN Step
                        ELSE Append(Step, [id |-> d, dep |-> 1])
  /\ UNCHANGED <<inputVars, pc, profile, chosen, todo, next, results, refused>>

VisitDep ==
  /\ pc = "order" /\ stack # <<>>
  /\ IF top.dep > Len(Up(top.id))
       THEN ordered' = Append(ordered, top.id) /\ stack' = Pop /\ UNCHANGED pc
       ELSE LET d == Up(top.id)[top.dep] IN
            /\ UNCHANGED ordered
            /\ CASE d \in Range(ordered) -> stack' = Step /\ UNCHANGED pc
                 [] d \in Visiting \ Range(ordered) -> pc' = "raised" /\ UNCHANGED stack
                 [] OTHER -> stack' = Append(Step, [id |-> d, dep |-> 1]) /\ UNCHANGED pc
  /\ UNCHANGED <<inputVars, profile, chosen, todo, next, results, refused>>

-----------------------------------------------------------------------------
(* run_analyses *)

\* mutant: what a refused upstream lacked is looked for in the session only
ReasonForgetful(a) ==
  IF reg[a].needs_grid /\ ~ has_grid THEN "no_grid_segments"
  ELSE IF reg[a].needs_profile /\ profile = NoProfile THEN "no_profile"
  ELSE "none"

\* Why an analyzer refuses, or "none"
Reason(a) ==
  IF Range(Up(a)) \cap DOMAIN refused # {} THEN "upstream_refused"
  ELSE IF reg[a].needs_grid /\ ~ has_grid THEN "no_grid_segments"
  ELSE IF reg[a].needs_profile /\ profile = NoProfile THEN "no_profile"
  ELSE "none"

\* A timing analyzer's own quality; calibration does not apply to the others.
Own(a) == [calibrated |-> IF reg[a].timing THEN {calibrated} ELSE {},
           flags |-> IF reg[a].timing /\ ~ calibrated THEN {"uncalibrated"} ELSE {},
           of |-> {a}]

\* mutant: flags are inherited, the calibration is the analyzer's own
MeetFlagsOnly(own, upstream) ==
  [calibrated |-> own.calibrated,
   flags |-> own.flags \cup UNION {q.flags : q \in upstream},
   of |-> own.of \cup UNION {q.of : q \in upstream}]

\* _meet_quality: AND of the calibrations there are, union of the flags ("of" is a
\* history: the analyzers whose results have gone into this one)
Meet(own, upstream) ==
  LET cals == own.calibrated \cup UNION {q.calibrated : q \in upstream}
  IN  [calibrated |-> IF cals = {} THEN {} ELSE {cals = {TRUE}},
       flags |-> own.flags \cup UNION {q.flags : q \in upstream},
       of |-> own.of \cup UNION {q.of : q \in upstream}]

Extend(f, a, v) == [x \in DOMAIN f \cup {a} |-> IF x = a THEN v ELSE f[x]]

Refuse ==
  /\ pc = "run" /\ next <= Len(ordered)
  /\ LET a == ordered[next] IN
       /\ Reason(a) # "none"
       /\ refused' = Extend(refused, a, Reason(a))
  /\ next' = next + 1
  /\ UNCHANGED <<inputVars, pc, profile, walkVars, results>>

\* compute may return nothing, for want of hits
Compute ==
  /\ pc = "run" /\ next <= Len(ordered)
  /\ LET a == ordered[next]
         consumed == UNION {results[d] : d \in Range(Up(a)) \cap DOMAIN results}
     IN /\ Reason(a) = "none"
        /\ \E out \in {{}, {Meet(Own(a), consumed)}} : results' = Extend(results, a, out)
  /\ next' = next + 1
  /\ UNCHANGED <<inputVars, pc, profile, walkVars, refused>>

Done ==
  /\ pc = "run" /\ next > Len(ordered) /\ pc' = "done"
  /\ UNCHANGED <<inputVars, profile, walkVars, next, results, refused>>

Next == Start \/ Choose \/ CloseFrom \/ CloseDep \/ VisitFrom \/ VisitDep \/ Refuse \/ Compute \/ Done

Spec == Init /\ [][Next]_vars /\ WF_vars(Next)

-----------------------------------------------------------------------------
(* What the walks are for: the dependencies of an analyzer, at any remove *)

Edge(a, b) == a \in Registered /\ b \in Range(Up(a))
Closed(S) == \A a \in S \cap Registered : Range(Up(a)) \subseteq S
Behind(a) == {b \in Ids : \A S \in SUBSET Ids : Range(Up(a)) \subseteq S /\ Closed(S) => b \in S}
Closure == Range(request) \cup UNION {Behind(a) : a \in Range(request) \cap Registered}
Resolvable == \A a \in Closure : a \in Registered /\ a \notin Behind(a)

\* Whatever the order of the request and the shape of the graph, the analyzers that
\* are run are the requested ones and all they depend on, each once and each after
\* what it consumes; _resolve raises if and only if there is no such order.
ResolvesExactly ==
  /\ pc = "raised" => ~ Resolvable
  /\ pc \in {"run", "done"} =>
       /\ Resolvable
       /\ Range(ordered) = Closure /\ IsInjective(ordered)
       /\ \A i, j \in DOMAIN ordered : Edge(ordered[i], ordered[j]) => j < i

\* An analyzer is refused if and only if something that the session or the command
\* does not provide is missing to it or to anything it rests on, however far behind;
\* every other one has been computed.
RefusedExactly ==
  LET Lacks(a) == \/ reg[a].needs_grid /\ ~ has_grid
                  \/ reg[a].needs_profile /\ (IF kit = NoProfile THEN pointer ELSE kit) \notin Profiles
      Refusable == {a \in Closure : \E b \in {a} \cup Behind(a) : Lacks(b)}
  IN  pc = "done" => DOMAIN refused = Refusable /\ DOMAIN results = Closure \ Refusable

\* A number that a timing result has gone into, at whatever remove, never loses the
\* mark that the session was not calibrated, and no other number is given one.
QualityInherited ==
  \A a \in DOMAIN results : \A q \in results[a] :
    LET timed == \E b \in q.of : reg[b].timing
    IN  /\ q.of \subseteq {a} \cup Behind(a)
        /\ q.calibrated = IF timed THEN {calibrated} ELSE {}
        /\ ("uncalibrated" \in q.flags) <=> (timed /\ ~ calibrated)
=============================================================================
