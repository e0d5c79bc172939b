----------------------------- MODULE MCJobStore -----------------------------
(* Instances of JobStore for TLC. *)
EXTENDS JobStore, TLC

\* Clients with the same rights may be swapped.
Symmetry == Permutations(Clients)
=============================================================================
