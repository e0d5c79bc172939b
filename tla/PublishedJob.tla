---------------------------- MODULE PublishedJob ----------------------------
(***************************************************************************)
(* What the query job store promises to the readers of a job: versions     *)
(* that are only ever added or deleted together, at most one of them       *)
(* active, and views that have the columns of the version activated last.  *)
(***************************************************************************)
CONSTANTS Ids, Queries, NoVersion, NoColumns

VARIABLES
  catalogue,  \* the versions, each with its query
  active,     \* the active version, or NoVersion
  columns     \* the query whose columns the views have, or NoColumns

vars == <<catalogue, active, columns>>

Init == catalogue = {} /\ active = NoVersion /\ columns = NoColumns

Add(i, q) ==
  /\ \A v \in catalogue : v[1] # i
  /\ catalogue' = catalogue \cup {<<i, q>>}
  /\ UNCHANGED <<active, columns>>

Activate(i, q) ==
  /\ <<i, q>> \in catalogue
  /\ active' = i
  /\ columns' = q
  /\ UNCHANGED catalogue

Deactivate ==
  /\ active' = NoVersion
  /\ UNCHANGED <<catalogue, columns>>

Delete ==
  /\ catalogue' = {}
  /\ active' = NoVersion
  /\ columns' = NoColumns

Next ==
  \/ \E i \in Ids, q \in Queries : Add(i, q) \/ Activate(i, q)
  \/ Deactivate
  \/ Delete

Spec == Init /\ [][Next]_vars
=============================================================================
