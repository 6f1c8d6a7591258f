------------------------------ MODULE RunnerMC ------------------------------
(* Every graph of three analyzers in which b and c have up to two upstreams *)
(* out of a, b, c and an id nobody registered, and a at most one; a is a    *)
(* timing analyzer that needs a grid, b needs a kit profile.                *)
EXTENDS Runner

Analyzer(upstream, grid, prof, time) ==
  [upstream |-> upstream, needs_grid |-> grid, needs_profile |-> prof, timing |-> time]
Names == {"a", "b", "c", "?"}
Ups == {<<>>} \cup {<<x>> : x \in Names}
         \cup {<<"a", "b">>, <<"a", "c">>, <<"c", "b">>, <<"a", "?">>, <<"c", "?">>}
Graphs == {[a |-> Analyzer(u, TRUE, FALSE, TRUE), b |-> Analyzer(v, FALSE, TRUE, FALSE),
            c |-> Analyzer(w, FALSE, FALSE, FALSE)] : u \in {<<>>, <<"c">>, <<"?">>}, v \in Ups, w \in Ups}
Metrics == {<<"c">>, <<"c", "b", "c">>, <<"a", "b", "c">>, <<"b", "?">>}
Kits == {"good"}
=============================================================================
