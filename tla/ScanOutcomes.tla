---------------------------- MODULE ScanOutcomes ----------------------------
(***************************************************************************)
(* What a multi-account scan promises of each account: it is settled at    *)
(* most once, as scanned without or with errors, an outcome is never       *)
(* revised, and when the scan is over no account is left pending.          *)
(***************************************************************************)
CONSTANT Accounts

VARIABLES
  outcome,  \* the outcome of each account
  over      \* TRUE when run_scan has returned or raised

vars == <<outcome, over>>

Init ==
  /\ outcome = [a \in Accounts |-> "pending"]
  /\ over = FALSE

Settle(a) ==
  /\ ~over
  /\ outcome[a] = "pending"
  /\ \E o \in {"clean", "errors"} : outcome' = [outcome EXCEPT ![a] = o]
  /\ over' = FALSE

\* What is still pending when the scan ends is missing from its result.
Finish ==
  /\ ~over
  /\ over' = TRUE
  /\ outcome' = [a \in Accounts |->
                   IF outcome[a] = "pending" THEN "missing" ELSE outcome[a]]

Next == Finish \/ \E a \in Accounts : Settle(a)

Spec == Init /\ [][Next]_vars
=============================================================================
