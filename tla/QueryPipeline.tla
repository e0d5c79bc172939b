---------------------------- MODULE QueryPipeline ----------------------------
(***************************************************************************)
(* From the messages of JobFanOut to stored results: the query lambda runs *)
(* a message's query and posts the result set, the API stores it and       *)
(* notifies subscribers, the pruner deletes what has expired.              *)
(*                                                                         *)
(* A message is delivered again until it is acknowledged or has been       *)
(* received MaxReceives times.  That limit and the dead letter queue are   *)
(* an assumption on the deployment: the repository holds no definition of  *)
(* the queue.  A lambda that dies does not stop the API request it has     *)
(* sent.  Transactions are READ COMMITTED: each statement of a request and *)
(* its commit is a step of its own where another could come between.       *)
(***************************************************************************)
EXTENDS Integers

CONSTANTS
  Jobs,        \* the jobs
  Triggers,    \* the SNS messages that trigger the executor
  Sent,        \* the messages that the executors may send
  MaxRevision, \* bound on the edits of a job
  Expiration,  \* result_expiration_sec of each revision
  NotifyIfResults, \* notify_if_results of each revision
  MaxReceives, \* how often a message with a revision is received (a bound for each)
  MaxTime      \* bound of the clock

Revisions == 1 .. MaxRevision

ASSUME BoundsAssumption ==
  /\ MaxRevision \in Nat \ {0}
  /\ MaxReceives \in [Revisions -> Nat \ {0}] /\ MaxTime \in Nat
ASSUME ExpirationAssumption == Expiration \in [Revisions -> Nat]
ASSUME NotifyAssumption == NotifyIfResults \in [Revisions -> BOOLEAN]

\* A message: the job, its JSON, and the execution hash.
Messages == Jobs \X Revisions \X Triggers
JobOf(m) == m[1]
RevisionOf(m) == m[2]
ASSUME SentAssumption == Sent \subseteq Messages
SameGroup(m, n) == JobOf(m) = JobOf(n) /\ RevisionOf(m) = RevisionOf(n)

VARIABLES
  now,      \* the clock
  rev,      \* the current JSON of each job
  alive,    \* FALSE once the job is deleted
  queue,    \* the state of each message
  receives, \* how often each message was received
  lambda,   \* control of the query lambda that holds the message
  request,  \* the API request of each delivery
  created,  \* the timestamp each delivery gave its result set
  rows,     \* whether that result set has results
  stored,   \* the result sets in the database: <<message, delivery>>
  history,  \* every result set that was ever committed
  vanished, \* those that were deleted before the API read their results again
  notified, \* the result sets that subscribers were told of
  selected  \* the result sets the running prune is to delete

jobVars == <<rev, alive>>
queryVars == <<queue, receives, lambda, request, created, rows>>
storeVars == <<stored, history, vanished, notified, selected>>
vars == <<now, jobVars, queryVars, storeVars>>

ResultSets == UNION {{m} \X (1 .. MaxReceives[RevisionOf(m)]) : m \in Messages}
Requests == {"none", "lookup", "insert", "refresh", "results", "notify", "respond",
             "ok", "error"}

TypeOK ==
  /\ now \in 0 .. MaxTime
  /\ rev \in [Jobs -> Revisions]
  /\ alive \in [Jobs -> BOOLEAN]
  /\ queue \in [Messages -> {"absent", "queued", "inFlight", "acked", "dead"}]
  /\ receives \in [Messages -> Nat]
  /\ \A m \in Messages : receives[m] <= MaxReceives[RevisionOf(m)]
  /\ lambda \in [Messages -> {"none", "query", "wait"}]
  /\ request \in [ResultSets -> Requests]
  /\ created \in [ResultSets -> 0 .. MaxTime]
  /\ rows \in [ResultSets -> BOOLEAN]
  /\ stored \subseteq history
  /\ history \subseteq ResultSets
  /\ vanished \subseteq ResultSets
  /\ notified \subseteq ResultSets
  /\ selected \subseteq history

Init ==
  /\ now = 0
  /\ rev = [j \in Jobs |-> 1]
  /\ alive = [j \in Jobs |-> TRUE]
  /\ queue = [m \in Messages |-> "absent"]
  /\ receives = [m \in Messages |-> 0]
  /\ lambda = [m \in Messages |-> "none"]
  /\ request = [r \in ResultSets |-> "none"]
  /\ created = [r \in ResultSets |-> 0]
  /\ rows = [r \in ResultSets |-> FALSE]
  /\ stored = {} /\ history = {} /\ vanished = {} /\ notified = {} /\ selected = {}

Tick ==
  /\ now < MaxTime
  /\ now' = now + 1
  /\ UNCHANGED <<jobVars, queryVars, storeVars>>

\* update_version changes a field of the job.
Edit(j) ==
  /\ alive[j] /\ rev[j] < MaxRevision
  /\ rev' = [rev EXCEPT ![j] = @ + 1]
  /\ UNCHANGED <<now, alive, queryVars, storeVars>>

\* The job is deleted, and with it its result sets.
DeleteJob(j) ==
  /\ alive[j]
  /\ alive' = [alive EXCEPT ![j] = FALSE]
  /\ stored' = {r \in stored : JobOf(r[1]) # j}
  /\ UNCHANGED <<now, rev, queryVars, history, vanished, notified, selected>>

\* JobFanOut sends a message with the job's JSON of the moment.
Accept(m) ==
  /\ m \in Sent /\ queue[m] = "absent"
  /\ alive[JobOf(m)] /\ rev[JobOf(m)] = RevisionOf(m)
  /\ queue' = [queue EXCEPT ![m] = "queued"]
  /\ UNCHANGED <<now, jobVars, receives, lambda, request, created, rows, storeVars>>

-----------------------------------------------------------------------------
(* The query lambda and the API request it makes *)

Delivery(m) == <<m, receives[m]>>

\* The queue hands out a message while no other of its group is in flight.
Receive(m) ==
  /\ queue[m] = "queued"
  /\ \A n \in Messages : SameGroup(m, n) => queue[n] # "inFlight"
  /\ queue' = [queue EXCEPT ![m] = "inFlight"]
  /\ receives' = [receives EXCEPT ![m] = @ + 1]
  /\ lambda' = [lambda EXCEPT ![m] = "query"]
  /\ UNCHANGED <<now, jobVars, request, created, rows, storeVars>>

\* The query has run; the result set is stamped and posted.
RunQuery(m, some) ==
  /\ lambda[m] = "query"
  /\ lambda' = [lambda EXCEPT ![m] = "wait"]
  /\ request' = [request EXCEPT ![Delivery(m)] = "lookup"]
  /\ created' = [created EXCEPT ![Delivery(m)] = now]
  /\ rows' = [rows EXCEPT ![Delivery(m)] = some]
  /\ UNCHANGED <<now, jobVars, queue, receives, storeVars>>

\* Slip: the queue has no redrive policy.
LambdaFailsForever(m) ==
  /\ lambda[m] # "none"
  /\ lambda' = [lambda EXCEPT ![m] = "none"]
  /\ queue' = [queue EXCEPT ![m] = "queued"]
  /\ UNCHANGED <<now, jobVars, receives, request, created, rows, storeVars>>

\* The invocation ends with an exception (no fresh graph, no account id field,
\* an answer other than 201) or is killed: the message becomes visible again.
LambdaFails(m) ==
  /\ lambda[m] # "none"
  /\ lambda' = [lambda EXCEPT ![m] = "none"]
  /\ queue' = [queue EXCEPT ![m] = IF receives[m] < MaxReceives[RevisionOf(m)]
                                     THEN "queued" ELSE "dead"]
  /\ UNCHANGED <<now, jobVars, receives, request, created, rows, storeVars>>

\* The answer was 201 and the message is acknowledged.
LambdaReturns(m) ==
  /\ lambda[m] = "wait" /\ request[Delivery(m)] = "ok"
  /\ lambda' = [lambda EXCEPT ![m] = "none"]
  /\ queue' = [queue EXCEPT ![m] = "acked"]
  /\ UNCHANGED <<now, jobVars, receives, request, created, rows, storeVars>>

Answer(r, s) == request' = [request EXCEPT ![r] = s]

\* CRUDResultSet.create finds the job version, or the request is refused.
Lookup(r) ==
  /\ request[r] = "lookup"
  /\ Answer(r, IF alive[JobOf(r[1])] THEN "insert" ELSE "error")
  /\ UNCHANGED <<now, jobVars, queue, receives, lambda, created, rows, storeVars>>

\* Slip: the table is created without the foreign key.
NoKey(r) == TRUE

\* The foreign key to the job holds when the insert commits.
KeyHolds(r) == alive[JobOf(r[1])]

\* The result set and its results are committed.
Insert(r) ==
  /\ request[r] = "insert"
  /\ IF KeyHolds(r)
     THEN /\ stored' = stored \cup {r}
          /\ history' = history \cup {r}
          /\ Answer(r, "refresh")
     ELSE Answer(r, "error") /\ UNCHANGED <<stored, history>>
  /\ UNCHANGED <<now, jobVars, queue, receives, lambda, created, rows,
                 vanished, notified, selected>>

\* Slip: a result set that is too large is dropped and the request answered.
InsertDropped(r) ==
  /\ request[r] = "insert"
  /\ Answer(r, "ok")
  /\ UNCHANGED <<now, jobVars, queue, receives, lambda, created, rows, storeVars>>

\* A limit is exceeded, or the statement fails.
InsertFails(r) ==
  /\ request[r] = "insert"
  /\ Answer(r, "error")
  /\ UNCHANGED <<now, jobVars, queue, receives, lambda, created, rows, storeVars>>

\* The commit has expired the object: it is read again, unless it was deleted.
Refresh(r) ==
  /\ request[r] = "refresh"
  /\ Answer(r, IF r \in stored THEN "results" ELSE "error")
  /\ UNCHANGED <<now, jobVars, queue, receives, lambda, created, rows, storeVars>>

\* result_set.results is read from the database: none if the set was deleted since.
ReadResults(r) ==
  /\ request[r] = "results"
  /\ Answer(r, IF r \in stored /\ rows[r] /\ NotifyIfResults[RevisionOf(r[1])]
                 THEN "notify" ELSE "respond")
  /\ vanished' = IF r \in stored THEN vanished ELSE vanished \cup {r}
  /\ UNCHANGED <<now, jobVars, queue, receives, lambda, created, rows,
                 stored, history, notified, selected>>

Notify(r) ==
  /\ request[r] = "notify"
  /\ notified' = notified \cup {r}
  /\ Answer(r, "respond")
  /\ UNCHANGED <<now, jobVars, queue, receives, lambda, created, rows,
                 stored, history, vanished, selected>>

\* Slip: an exception of publish is logged and swallowed.
NotifySwallowed(r) ==
  /\ request[r] = "notify"
  /\ Answer(r, "respond")
  /\ UNCHANGED <<now, jobVars, queue, receives, lambda, created, rows, storeVars>>

\* publish raises after the commit: the answer is 500.
NotifyFails(r) ==
  /\ request[r] = "notify"
  /\ Answer(r, "error")
  /\ UNCHANGED <<now, jobVars, queue, receives, lambda, created, rows, storeVars>>

\* The answer holds the job, which is read now: 500 if it has been deleted.
Respond(r) ==
  /\ request[r] = "respond"
  /\ Answer(r, IF alive[JobOf(r[1])] THEN "ok" ELSE "error")
  /\ UNCHANGED <<now, jobVars, queue, receives, lambda, created, rows, storeVars>>

-----------------------------------------------------------------------------
(* The pruner *)

Expired(r) == now - created[r] > Expiration[rev[JobOf(r[1])]]

\* get_expired, the first statement of delete_expired.
SelectExpired ==
  /\ selected = {}
  /\ \E r \in stored : Expired(r)
  /\ selected' = {r \in stored : Expired(r)}
  /\ UNCHANGED <<now, jobVars, queryVars, stored, history, vanished, notified>>

\* Slip: the session is closed without a commit.
DeleteUncommitted ==
  /\ selected # {}
  /\ selected' = {}
  /\ UNCHANGED <<now, jobVars, queryVars, stored, history, vanished, notified>>

\* The commit deletes what was selected, and passes over what is gone already.
DeleteSelected ==
  /\ selected # {}
  /\ stored' = stored \ selected
  /\ selected' = {}
  /\ UNCHANGED <<now, jobVars, queryVars, history, vanished, notified>>

\* The connection or the API is lost before the commit.
PruneFails ==
  /\ selected # {}
  /\ selected' = {}
  /\ UNCHANGED <<now, jobVars, queryVars, stored, history, vanished, notified>>

-----------------------------------------------------------------------------
Handle(r) ==
  Lookup(r) \/ Insert(r) \/ Refresh(r) \/ ReadResults(r) \/ Notify(r) \/ Respond(r)

Next ==
  \/ Tick
  \/ SelectExpired \/ DeleteSelected \/ PruneFails
  \/ \E j \in Jobs : Edit(j) \/ DeleteJob(j)
  \/ \E m \in Messages :
       \/ Accept(m) \/ Receive(m) \/ LambdaFails(m) \/ LambdaReturns(m)
       \/ \E some \in BOOLEAN : RunQuery(m, some)
  \/ \E r \in ResultSets : Handle(r) \/ InsertFails(r) \/ NotifyFails(r)

Spec == Init /\ [][Next]_vars

\* The queue delivers and the services answer.  A lambda does not wait for ever: it
\* returns, or is killed when its request was answered with an error.  The pruner is
\* run again and again, and its transaction does not fail every time.
Fairness ==
  /\ \A m \in Messages :
       /\ SF_vars(Receive(m))
       /\ WF_vars(\E some \in BOOLEAN : RunQuery(m, some))
       /\ WF_vars(LambdaReturns(m) \/ LambdaFails(m))
  /\ \A r \in ResultSets : WF_vars(Handle(r))
  /\ WF_vars(SelectExpired)
  /\ SF_vars(DeleteSelected)

FairSpec == Spec /\ Fairness

-----------------------------------------------------------------------------
(* Properties *)

\* Subscribers are told of committed result sets only.
NotifiedWereStored == notified \subseteq history

\* A result set in the database belongs to a job, also when the job is deleted
\* while its results are posted.
StoredHaveJobs == \A r \in stored : alive[JobOf(r[1])]

\* A committed result set of message m; if it has results and the job asks for it,
\* subscribers were notified, unless the set was deleted before the API read its
\* results again.
Delivered(m) ==
  \E r \in history :
    /\ r[1] = m
    /\ rows[r] /\ NotifyIfResults[RevisionOf(m)] => r \in notified \cup vanished

\* A message is acknowledged only when a result set of it was committed and
\* subscribers were notified as its job asks, whatever deliveries died, requests
\* failed, and jobs and result sets were deleted meanwhile.
AcknowledgedAreDelivered == \A m \in Messages : queue[m] = "acked" => Delivered(m)

\* A result set that has expired is in the end deleted, or no longer expired because
\* its job was edited: also one stored while a prune ran, or whose prune failed.
ExpiredAreDeleted ==
  \A r \in ResultSets : r \in stored /\ Expired(r) ~> r \notin stored \/ ~Expired(r)

\* An accepted message ends acknowledged, and then delivered as above, or in the
\* dead letter queue.
EveryMessageEnds ==
  \A m \in Messages :
    queue[m] = "queued" ~> queue[m] = "dead" \/ (queue[m] = "acked" /\ Delivered(m))
=============================================================================
