------------------------------ MODULE MCJobFanOut ------------------------------
(* Instances of JobFanOut for TLC. *)
EXTENDS JobFanOut

\* An SNS message whose executor may be started again, and two manual runs.
TwiceBySns == [t \in Triggers |-> IF t \in Manual THEN 1 ELSE 2]
=============================================================================
