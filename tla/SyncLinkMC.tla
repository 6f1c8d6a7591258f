----------------------------- MODULE SyncLinkMC -----------------------------
(* Two files, one of a chunk and a half, the other shorter than a chunk.   *)
EXTENDS SyncLink

TwoFiles == <<"a", "b">>
Closed == [a |-> <<1, 2, 3>>, b |-> <<1>>]

\* The first file was created and power was lost before anything was in it
FirstEmpty == [a |-> <<>>, b |-> <<1>>]
Empty == {<<>>}
NoFiles == {[a |-> Absent, b |-> Absent]}

\* The sessions directory: empty, with one of them, with both, with another b
LocalFiles ==
  {[a |-> Absent, b |-> Absent], [a |-> <<1, 2, 3>>, b |-> Absent],
   [a |-> <<1, 2, 3>>, b |-> <<1>>], [a |-> Absent, b |-> <<2>>]}

\* The .part of a: none, a true prefix, a false one, one that is too long
PartialFiles ==
  {[a |-> p, b |-> Absent] : p \in {Absent, <<1>>, <<2>>, <<1, 2, 1, 2>>}}
=============================================================================
