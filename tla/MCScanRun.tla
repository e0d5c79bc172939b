----------------------------- MODULE MCScanRun -----------------------------
(* Instances of ScanRun for TLC. *)
EXTENDS ScanRun

TwoAccounts == <<"a1", "a2">>

\* The last account is configured twice.
RepeatedAccount == <<"a1", "a2", "a3", "a3">>

OneDetached == {"a2"}
=============================================================================
