------------------------------ MODULE ScanRun ------------------------------
(***************************************************************************)
(* One multi-account scan: run_scan consumes the generator                 *)
(* AWSScanMuxer.scan, which hands the account scans of each try to a pool  *)
(* of threads; a thread invokes the account scan lambda and waits for its  *)
(* answer.  The lambda writes the account's artifact under a key that all  *)
(* tries share.  With the local muxer the thread runs the account scan     *)
(* itself, which is the same with no account in Detached.                  *)
(*                                                                         *)
(* The actions of the pool's threads and of the lambdas interleave with    *)
(* the main thread, in which the generator and run_scan alternate.         *)
(***************************************************************************)
EXTENDS Integers, Sequences, FiniteSets

CONSTANTS
  AccountIds,  \* ScanPlan.account_ids, as configured or discovered
  MaxTries,    \* max_account_scan_tries
  MaxThreads,  \* max_account_scan_threads
  Detached     \* the accounts whose lambda may outlive the wait for its answer

ASSUME AccountIdsAssumption == AccountIds \in Seq(STRING)
ASSUME TriesAssumption == MaxTries \in Nat \ {0}
ASSUME ThreadsAssumption == MaxThreads \in Nat \ {0}

Slots == DOMAIN AccountIds
Tries == 1 .. MaxTries
Accounts == {AccountIds[i] : i \in Slots}

ASSUME DetachedAssumption == Detached \subseteq Accounts

\* A configured list may repeat an account; get_sub_account_ids returns each
\* account once.
Once(i) == \A j \in Slots : AccountIds[j] = AccountIds[i] => j = i

OnceAccounts == {AccountIds[i] : i \in {j \in Slots : Once(j)}}

Results == {"clean", "errors"}

VARIABLES
  phase,     \* control of the main thread
  try,       \* account_scan_try + 1
  fut,       \* the future of each account scan plan of this try
  inv,       \* the invocation of each plan in each try
  artifact,  \* the content of each account's artifact
  scanned,   \* scanned_account_ids
  current,   \* the plan whose manifest is being yielded, or 0
  merged,    \* the yielded manifests, each with the graph read for it
  failure    \* why run_scan raised

vars == <<phase, try, fut, inv, artifact, scanned, current, merged, failure>>

Phase == {"plan", "collect", "merge", "done", "failed"}
FutureState == {"none", "queued", "running", "raised", "seen"} \cup Results
InvocationState == {"none", "running", "ended"} \cup Results
Failure == {"none", "KeyError", "read", "NoGraphSets", "merge"}
Entry == [account : Accounts, result : Results, graph : Results \cup {"none"}]

TypeOK ==
  /\ phase \in Phase
  /\ try \in 0 .. MaxTries
  /\ fut \in [Slots -> FutureState]
  /\ inv \in [Slots \X Tries -> InvocationState]
  /\ artifact \in [Accounts -> Results \cup {"none"}]
  /\ scanned \subseteq Accounts
  /\ current \in Slots \cup {0}
  /\ merged \subseteq Entry
  /\ failure \in Failure
  /\ phase = "plan" => try < MaxTries
  /\ current # 0 => phase = "collect" /\ fut[current] \in Results

Init ==
  /\ phase = "plan"
  /\ try = 0
  /\ fut = [i \in Slots |-> "none"]
  /\ inv = [it \in Slots \X Tries |-> "none"]
  /\ artifact = [a \in Accounts |-> "none"]
  /\ scanned = {}
  /\ current = 0
  /\ merged = {}
  /\ failure = "none"

-----------------------------------------------------------------------------
(***************************************************************************)
(* The pool's threads and the lambdas they invoke.                         *)
(***************************************************************************)
ThreadFree == Cardinality({i \in Slots : fut[i] = "running"}) < MaxThreads

\* The pool takes the submitted scans in order.
IsNext(i) == fut[i] = "queued" /\ \A j \in Slots : fut[j] = "queued" => i <= j

Invoke(i) ==
  /\ IsNext(i)
  /\ ThreadFree
  /\ fut' = [fut EXCEPT ![i] = "running"]
  /\ inv' = [inv EXCEPT ![<<i, try>>] = "running"]
  /\ UNCHANGED <<phase, try, artifact, scanned, current, merged, failure>>

\* The invocation is refused (throttling, network): no lambda runs.
InvokeRefused(i) ==
  /\ IsNext(i)
  /\ ThreadFree
  /\ fut' = [fut EXCEPT ![i] = "raised"]
  /\ inv' = [inv EXCEPT ![<<i, try>>] = "ended"]
  /\ UNCHANGED <<phase, try, artifact, scanned, current, merged, failure>>

\* Some thread still waits for the lambda invoked for plan i in try t.
Awaited(i, t) == t = try /\ fut[i] = "running"

\* The account scanner writes its one artifact: the account's graph, or a
\* graph that holds the errors only.
LambdaWrites(i, t) ==
  /\ inv[<<i, t>>] = "running"
  /\ \E r \in Results :
       /\ inv' = [inv EXCEPT ![<<i, t>>] = r]
       /\ artifact' = [artifact EXCEPT ![AccountIds[i]] = r]
  /\ UNCHANGED <<phase, try, fut, scanned, current, merged, failure>>

\* Slip: the result is returned before the artifact is written.
LambdaReturnsEarly(i, t) ==
  /\ inv[<<i, t>>] = "running"
  /\ inv' = [inv EXCEPT ![<<i, t>>] = "ended"]
  /\ \E r \in Results : fut' = [fut EXCEPT ![i] = IF Awaited(i, t) THEN r ELSE @]
  /\ UNCHANGED <<phase, try, artifact, scanned, current, merged, failure>>

\* The lambda returns its AccountScanResult.
LambdaReturns(i, t) ==
  /\ inv[<<i, t>>] \in Results
  /\ inv' = [inv EXCEPT ![<<i, t>>] = "ended"]
  /\ fut' = [fut EXCEPT ![i] = IF Awaited(i, t) THEN inv[<<i, t>>] ELSE @]
  /\ UNCHANGED <<phase, try, artifact, scanned, current, merged, failure>>

\* The lambda raises or runs into its time limit, before or after writing.
LambdaDies(i, t) ==
  /\ inv[<<i, t>>] \in {"running"} \cup Results
  /\ inv' = [inv EXCEPT ![<<i, t>>] = "ended"]
  /\ fut' = [fut EXCEPT ![i] = IF Awaited(i, t) THEN "raised" ELSE @]
  /\ UNCHANGED <<phase, try, artifact, scanned, current, merged, failure>>

\* The connection breaks and is not retried; the lambda goes on.  It cannot be
\* the read timeout: that is ten seconds longer than the lambda's own limit.
ConnectionLost(i) ==
  /\ AccountIds[i] \in Detached
  /\ fut[i] = "running"
  /\ fut' = [fut EXCEPT ![i] = "raised"]
  /\ UNCHANGED <<phase, try, inv, artifact, scanned, current, merged, failure>>

-----------------------------------------------------------------------------
(***************************************************************************)
(* The main thread.                                                        *)
(***************************************************************************)

\* Slip: the blacklist is not passed on.
BuildPlansForAll ==
  /\ phase = "plan"
  /\ try' = try + 1
  /\ fut' = [i \in Slots |-> "queued"]
  /\ phase' = "collect"
  /\ UNCHANGED <<inv, artifact, scanned, current, merged, failure>>

\* A try begins: plans for all accounts but the blacklisted ones, which are
\* those scanned by now, are submitted to a new pool.
BuildPlans ==
  /\ phase = "plan"
  /\ try' = try + 1
  /\ fut' = [i \in Slots |-> IF AccountIds[i] \in scanned THEN "none" ELSE "queued"]
  /\ phase' = "collect"
  /\ UNCHANGED <<inv, artifact, scanned, current, merged, failure>>

Collecting == phase = "collect" /\ current = 0

\* as_completed returns a future with a result, whose manifest is yielded.
YieldManifest(i) ==
  /\ Collecting
  /\ fut[i] \in Results
  /\ current' = i
  /\ UNCHANGED <<phase, try, fut, inv, artifact, scanned, merged, failure>>

\* Slip: the futures are polled without taking them off the list.
PollRaised(i) ==
  /\ Collecting
  /\ fut[i] = "raised"
  /\ UNCHANGED vars

\* as_completed returns a future that raised: it is logged and passed over.
SkipRaised(i) ==
  /\ Collecting
  /\ fut[i] = "raised"
  /\ fut' = [fut EXCEPT ![i] = "seen"]
  /\ UNCHANGED <<phase, try, inv, artifact, scanned, current, merged, failure>>

\* The loop body of run_scan: the artifact named by the manifest is read.
ReadArtifact ==
  /\ current # 0
  /\ merged' = merged \cup {[account |-> AccountIds[current],
                             result  |-> fut[current],
                             graph   |-> artifact[AccountIds[current]]]}
  /\ fut' = [fut EXCEPT ![current] = "seen"]
  /\ current' = 0

\* Slip: the generator yields the manifest and forgets to book the account.
MergeUnbooked ==
  /\ phase = "collect"
  /\ ReadArtifact
  /\ AccountIds[current] \notin scanned
  /\ UNCHANGED <<phase, try, inv, artifact, scanned, failure>>

\* run_scan asks for the next manifest, and the generator resumes after its
\* yield and books the account as scanned.
MergeManifest ==
  /\ phase = "collect"
  /\ ReadArtifact
  /\ AccountIds[current] \notin scanned
  /\ scanned' = scanned \cup {AccountIds[current]}
  /\ UNCHANGED <<phase, try, inv, artifact, failure>>

\* The account was booked before: removing it from the unscanned ones raises.
MergeManifestTwice ==
  /\ phase = "collect"
  /\ ReadArtifact
  /\ AccountIds[current] \in scanned
  /\ phase' = "failed"
  /\ failure' = "KeyError"
  /\ UNCHANGED <<try, inv, artifact, scanned>>

\* Reading or parsing the artifact raises out of run_scan.
ReadFails ==
  /\ phase = "collect"
  /\ current # 0
  /\ phase' = "failed"
  /\ failure' = "read"
  /\ current' = 0
  /\ UNCHANGED <<try, fut, inv, artifact, scanned, merged>>

TryOver == Collecting /\ \A i \in Slots : fut[i] \in {"none", "seen"}

\* Slip: the number of tries is not bounded.
RetryForever == Accounts \ scanned # {}

\* Slip: one try too few.
RetryTooFew == try + 1 < MaxTries /\ Accounts \ scanned # {}

Retry == try < MaxTries /\ Accounts \ scanned # {}

EndTry ==
  /\ TryOver
  /\ phase' = IF Retry THEN "plan" ELSE "merge"
  /\ UNCHANGED <<try, fut, inv, artifact, scanned, current, merged, failure>>

\* The graphs are merged and validated, master and manifest are written.
Finish ==
  /\ phase = "merge"
  /\ merged # {}
  /\ phase' = "done"
  /\ UNCHANGED <<try, fut, inv, artifact, scanned, current, merged, failure>>

\* No graph at all, or merging or writing raises.
MergeFails ==
  /\ phase = "merge"
  /\ phase' = "failed"
  /\ failure' = IF merged = {} THEN "NoGraphSets" ELSE "merge"
  /\ UNCHANGED <<try, fut, inv, artifact, scanned, current, merged>>

-----------------------------------------------------------------------------
LambdaStep(i, t) == LambdaWrites(i, t) \/ LambdaReturns(i, t) \/ LambdaDies(i, t)

ThreadStep(i) == Invoke(i) \/ InvokeRefused(i)

MainStep ==
  \/ BuildPlans
  \/ \E i \in Slots : YieldManifest(i) \/ SkipRaised(i)
  \/ MergeManifest \/ MergeManifestTwice \/ ReadFails
  \/ EndTry \/ Finish \/ MergeFails

Next ==
  \/ MainStep
  \/ \E i \in Slots : ThreadStep(i) \/ ConnectionLost(i)
  \/ \E i \in Slots, t \in Tries : LambdaStep(i, t)

Spec == Init /\ [][Next]_vars

(***************************************************************************)
(* Fairness: the main thread and the pool run, and a lambda ends by its    *)
(* time limit (each takes at most two steps, so that fairness for all      *)
(* together is fairness for each).                                         *)
(***************************************************************************)
Fairness ==
  /\ WF_vars(MainStep)
  /\ WF_vars(\E i \in Slots : ThreadStep(i))
  /\ WF_vars(\E i \in Slots, t \in Tries : LambdaStep(i, t))

FairSpec == Spec /\ Fairness

Over == phase \in {"done", "failed"}

-----------------------------------------------------------------------------
(* The manifest *)

scanned_accounts == {m.account : m \in merged}

unscanned_accounts == {m.account : m \in {e \in merged : e.result = "errors"}}

\* What has become of an account, as the scan's caller can tell.
Outcome(a) ==
  CASE a \in unscanned_accounts -> "errors"
    [] a \in scanned_accounts \ unscanned_accounts -> "clean"
    [] OTHER -> IF Over THEN "missing" ELSE "pending"

Outcomes == INSTANCE ScanOutcomes WITH
              Accounts <- OnceAccounts,
              outcome <- [a \in OnceAccounts |-> Outcome(a)],
              over <- Over

-----------------------------------------------------------------------------
(***************************************************************************)
(* Properties.                                                             *)
(***************************************************************************)

\* No try scans an account again that an earlier one has scanned: whatever
\* happens to the other accounts, one that is configured once is yielded once,
\* so that the KeyError of a repeated account is never its own.
NeverTwice == current # 0 /\ Once(current) => AccountIds[current] \notin scanned

\* The graph merged for an account is the one whose scan reported the result
\* booked for it, although all tries write to the same artifact and a scan that
\* raised may have written before.  It takes an account that is configured once
\* and whose lambda does not go on when nobody waits for it.
GraphMatchesResult ==
  \A m \in merged : m.account \in OnceAccounts \ Detached => m.graph = m.result

\* A finished scan lacks an account only if every try has attempted it.
MissingOnlyAfterAllTries ==
  phase = "done" \/ failure \in {"NoGraphSets", "merge"} =>
    \A i \in Slots :
      AccountIds[i] \notin scanned => \A t \in Tries : inv[<<i, t>>] # "none"

\* Each account that is configured once is settled at most once, and nothing is
\* pending in the end, also when a repeated account ends the scan.
RefinesOutcomes == Outcomes!Spec

\* run_scan returns or raises, whatever invocations fail, are cut off or are
\* refused.
ScanEnds == <>Over

\* The manifest tells of every account whether it was scanned: ScanManifest has
\* a "List of account ids which were not scanned".
EveryAccountInManifest ==
  phase = "done" => Accounts \subseteq scanned_accounts \cup unscanned_accounts

-----------------------------------------------------------------------------
(***************************************************************************)
(* Inductive invariants from which the properties above are proved.        *)
(***************************************************************************)

Merging == phase \in {"merge", "done"} \/ failure \in {"NoGraphSets", "merge"}

\* Between two tries, and after the last, no future is left.
IdleInv ==
  /\ failure # "none" => phase = "failed"
  /\ phase = "plan" \/ Merging => \A i \in Slots : fut[i] \in {"none", "seen"}

\* An account configured once and still being scanned is not booked yet, and
\* the accounts booked are those merged.
BookInv ==
  /\ \A i \in Slots :
       Once(i) /\ fut[i] \in {"queued", "running"} \cup Results
         => AccountIds[i] \notin scanned
  /\ scanned = scanned_accounts

\* The slots of the accounts GraphMatchesResult speaks of.
Plain(i) == Once(i) /\ AccountIds[i] \notin Detached

\* A live lambda of such a slot is awaited, so that nothing is written once its
\* result, or its failure, is known.
MatchInv ==
  /\ \A i \in Slots, t \in Tries :
       Plain(i) /\ inv[<<i, t>>] \in {"running"} \cup Results => Awaited(i, t)
  /\ \A i \in Slots, t \in Tries :
       Plain(i) /\ inv[<<i, t>>] \in Results => artifact[AccountIds[i]] = inv[<<i, t>>]
  /\ \A i \in Slots :
       Plain(i) /\ fut[i] \in Results => artifact[AccountIds[i]] = fut[i]
  /\ GraphMatchesResult

\* Every try up to now has attempted every account that is not booked, but for
\* those the current try still has in its queue.
AttemptInv ==
  /\ \A i \in Slots, t \in Tries :
       /\ AccountIds[i] \notin scanned
       /\ t < try \/ (t = try /\ fut[i] # "queued")
       => inv[<<i, t>>] # "none"
  /\ Merging => scanned = Accounts \/ try = MaxTries
=============================================================================
