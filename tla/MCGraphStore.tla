---------------------------- MODULE MCGraphStore ----------------------------
(* Instances of GraphStore for TLC. *)
EXTENDS GraphStore, TLC

\* Graphs and pruners are interchangeable until a step tells them apart.
Symmetry == Permutations(Graphs) \cup Permutations(Pruners)
=============================================================================
