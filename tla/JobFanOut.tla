----------------------------- MODULE JobFanOut -----------------------------
(***************************************************************************)
(* The executor lambda: an SNS message, or an event of another kind (a     *)
(* manual run), makes it list the active jobs and send one message per job *)
(* to a FIFO queue.  The lambda service starts it again when it fails, and *)
(* other events run it concurrently.  A job's JSON, which group and        *)
(* deduplication ids are hashes of, is a revision number that every edit   *)
(* of the job increments; the execution hash is that of the SNS message,   *)
(* or of a uuid drawn for each start of a manual run.                      *)
(***************************************************************************)
EXTENDS Integers, FiniteSets

CONSTANTS
  Jobs,        \* the jobs, numbered in the order of the API's list
  Triggers,    \* the events that trigger the executor
  Manual,      \* those of them without an SNS message
  Edited,      \* bound: the jobs that are edited
  Retired,     \* bound: the jobs that are deactivated
  MaxRevision, \* bound on the edits of a job
  MaxStarts    \* how often the lambda service starts the executor for each trigger

ASSUME JobsAssumption ==
  /\ Jobs \subseteq Nat /\ IsFiniteSet(Jobs) /\ Edited \subseteq Jobs
  /\ Retired \subseteq Jobs
ASSUME ManualAssumption == Manual \subseteq Triggers
ASSUME MaxRevisionAssumption == MaxRevision \in Nat \ {0}
ASSUME MaxStartsAssumption == MaxStarts \in [Triggers -> Nat \ {0}]

Revisions == 1 .. MaxRevision

\* A message: the job, its JSON, and the execution hash.
Executions == UNION {{t} \X (0 .. MaxStarts[t]) : t \in Triggers}
Messages == Jobs \X Revisions \X Executions
JobOf(m) == m[1]
ExecutionOf(m) == m[3]

VARIABLES
  rev,     \* the current JSON of each job
  active,  \* the jobs with an active version
  starts,  \* how often the executor was started for each trigger
  listed,  \* the jobs its last start was answered with
  todo,    \* the messages it has yet to send
  exec,    \* control of the executor of each trigger
  window,  \* the deduplication ids the queue remembers
  copies   \* how often each message was put into the queue

vars == <<rev, active, starts, listed, todo, exec, window, copies>>

TypeOK ==
  /\ rev \in [Jobs -> Revisions]
  /\ active \subseteq Jobs
  /\ starts \in [Triggers -> Nat]
  /\ \A t \in Triggers : starts[t] <= MaxStarts[t]
  /\ listed \in [Triggers -> SUBSET Jobs]
  /\ todo \in [Triggers -> SUBSET Messages]
  /\ exec \in [Triggers -> {"waiting", "sending", "done", "dropped"}]
  /\ window \subseteq Messages
  /\ copies \in [Messages -> Nat]

Init ==
  /\ rev = [j \in Jobs |-> 1]
  /\ active = Jobs
  /\ starts = [t \in Triggers |-> 0]
  /\ listed = [t \in Triggers |-> {}]
  /\ todo = [t \in Triggers |-> {}]
  /\ exec = [t \in Triggers |-> "waiting"]
  /\ window = {}
  /\ copies = [m \in Messages |-> 0]

\* update_version changes a field of an active job.
Edit(j) ==
  /\ j \in active \cap Edited
  /\ rev[j] < MaxRevision
  /\ rev' = [rev EXCEPT ![j] = @ + 1]
  /\ UNCHANGED <<active, starts, listed, todo, exec, window, copies>>

Deactivate(j) ==
  /\ j \in active \cap Retired
  /\ active' = active \ {j}
  /\ UNCHANGED <<rev, starts, listed, todo, exec, window, copies>>

\* Slip: the uuid is drawn when the lambda's container starts.
HashOfContainer(t, n) ==
  IF t \in Manual THEN <<CHOOSE u \in Manual : TRUE, 1>> ELSE <<t, 0>>

\* The execution hash of start n for trigger t: the SNS message, or a uuid.
ExecutionHash(t, n) == IF t \in Manual THEN <<t, n>> ELSE <<t, 0>>

\* The messages for the listed jobs: their ids are hashes of a job's JSON and of
\* the execution hash.
MessagesFor(jobs, x) == {<<j, rev[j], x>> : j \in jobs}

\* A start or a retry: the active jobs are listed.
Start(t) ==
  /\ exec[t] = "waiting"
  /\ starts' = [starts EXCEPT ![t] = @ + 1]
  /\ listed' = [listed EXCEPT ![t] = active]
  /\ todo' = [todo EXCEPT ![t] = MessagesFor(active, ExecutionHash(t, starts'[t]))]
  /\ exec' = [exec EXCEPT ![t] = "sending"]
  /\ UNCHANGED <<rev, active, window, copies>>

IsNext(m, t) == m \in todo[t] /\ \A n \in todo[t] : JobOf(m) <= JobOf(n)

\* send_message for the next job of the list; the queue drops a message whose
\* deduplication id it remembers.
Send(t) ==
  /\ exec[t] = "sending"
  /\ \E m \in todo[t] :
       /\ IsNext(m, t)
       /\ todo' = [todo EXCEPT ![t] = @ \ {m}]
       /\ window' = window \cup {m}
       /\ copies' = IF m \in window THEN copies ELSE [copies EXCEPT ![m] = @ + 1]
  /\ UNCHANGED <<rev, active, starts, listed, exec>>

Return(t) ==
  /\ exec[t] = "sending" /\ todo[t] = {}
  /\ exec' = [exec EXCEPT ![t] = "done"]
  /\ UNCHANGED <<rev, active, starts, listed, todo, window, copies>>

\* Slip: a failed executor is always started again.
FailForever(t) ==
  /\ exec[t] = "sending"
  /\ exec' = [exec EXCEPT ![t] = "waiting"]
  /\ todo' = [todo EXCEPT ![t] = {}]
  /\ UNCHANGED <<rev, active, starts, listed, window, copies>>

\* Slip: an exception of send_message is logged, and the loop goes on.
SkipFailed(t) ==
  /\ exec[t] = "sending"
  /\ todo' = [todo EXCEPT ![t] = {m \in @ : ~IsNext(m, t)}]
  /\ UNCHANGED <<rev, active, starts, listed, exec, window, copies>>

\* The executor fails in its loop, or its answer is lost: the service starts it
\* again from the beginning, or gives the event up.
Fail(t) ==
  /\ exec[t] = "sending"
  /\ exec' = [exec EXCEPT ![t] =
                IF starts[t] < MaxStarts[t] THEN "waiting" ELSE "dropped"]
  /\ todo' = [todo EXCEPT ![t] = {}]
  /\ UNCHANGED <<rev, active, starts, listed, window, copies>>

WindowPasses(m) ==
  /\ m \in window
  /\ window' = window \ {m}
  /\ UNCHANGED <<rev, active, starts, listed, todo, exec, copies>>

Next ==
  \/ \E j \in Jobs : Edit(j) \/ Deactivate(j)
  \/ \E t \in Triggers : Start(t) \/ Send(t) \/ Return(t) \/ Fail(t)
  \/ \E m \in Messages : WindowPasses(m)

Spec == Init /\ [][Next]_vars

-----------------------------------------------------------------------------
(* Properties *)

\* An executor that returned has put a message of its own execution into the queue
\* for every job it was answered with, whatever earlier starts sent before they failed.
ListedAreEnqueued ==
  \A t \in Triggers : exec[t] = "done" =>
    \A j \in listed[t] :
      \E m \in Messages :
        JobOf(m) = j /\ ExecutionOf(m) = ExecutionHash(t, starts[t]) /\ copies[m] > 0

\* Manual runs are not deduplicated: whatever a manual run sends enters the queue,
\* also when it repeats one, or a start of its own that failed.
ManualRunsAreKept ==
  [][\A t \in Manual :
       exec[t] = "sending" /\ exec'[t] = "sending" /\ todo'[t] # todo[t]
         => copies' # copies]_vars
=============================================================================
