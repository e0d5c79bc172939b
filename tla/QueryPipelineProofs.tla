------------------------- MODULE QueryPipelineProofs -------------------------
(***************************************************************************)
(* Proofs about QueryPipeline, for any jobs, notifications, edits,         *)
(* expirations and numbers of deliveries.                                  *)
(***************************************************************************)
EXTENDS QueryPipeline, TLAPS

\* How often a message was received fits its state: a message that is queued has
\* receives left, one that a lambda holds was received, one not yet sent was not.
ReceivesInv ==
  \A m \in Messages :
    /\ queue[m] = "absent" => receives[m] = 0 /\ lambda[m] = "none"
    /\ queue[m] = "queued" => receives[m] < MaxReceives[RevisionOf(m)]
    /\ lambda[m] # "none" => receives[m] > 0

\* A request belongs to a delivery that was made, and its lambda posts it once.
RequestInv ==
  /\ \A r \in ResultSets : r[2] > receives[r[1]] => request[r] = "none"
  /\ \A m \in Messages : lambda[m] = "query" => request[Delivery(m)] = "none"

\* What a request has done by the time it is in each of its states.
StoreInv ==
  \A r \in ResultSets :
    /\ r \in history => request[r] # "none"
    /\ request[r] \in {"refresh", "results", "notify", "respond", "ok"} => r \in history
    /\ request[r] \in {"respond", "ok"} =>
         (rows[r] /\ NotifyIfResults[RevisionOf(r[1])] => r \in notified \cup vanished)

\* The bounds are numbers.
LEMMA Bounds ==
  /\ MaxTime \in Nat
  /\ MaxRevision \in Nat
  /\ \A n \in Revisions : MaxReceives[n] \in Nat /\ MaxReceives[n] > 0
  BY BoundsAssumption

\* The parts of a message are what its constructor says.
LEMMA MessageParts ==
  ASSUME NEW m \in Messages
  PROVE  JobOf(m) \in Jobs /\ RevisionOf(m) \in Revisions
  BY DEF Messages, JobOf, RevisionOf

\* A result set is of a message.
LEMMA ResultSetParts ==
  ASSUME NEW r \in ResultSets
  PROVE  r[1] \in Messages
  BY DEF ResultSets

\* The result set that a lambda posts is one.
LEMMA DeliveryType ==
  ASSUME TypeOK, ReceivesInv, NEW m \in Messages, lambda[m] # "none"
  PROVE  Delivery(m) \in ResultSets
<1>1. receives[m] \in 1 .. MaxReceives[RevisionOf(m)]
  <2>1. MaxReceives[RevisionOf(m)] \in Nat
    BY MessageParts, BoundsAssumption
  <2>2. receives[m] \in 0 .. MaxReceives[RevisionOf(m)] /\ receives[m] > 0
    BY DEF TypeOK, ReceivesInv
  <2>3. QED
    BY <2>1, <2>2
<1>2. QED
  BY <1>1 DEF Delivery, ResultSets

\* Next as the disjunction of its actions.
LEMMA NextCases ==
  ASSUME Next
  PROVE  \/ Tick \/ SelectExpired \/ DeleteSelected \/ PruneFails
         \/ \E j \in Jobs : Edit(j) \/ DeleteJob(j)
         \/ \E m \in Messages : Accept(m) \/ Receive(m) \/ LambdaFails(m) \/ LambdaReturns(m)
         \/ \E m \in Messages, some \in BOOLEAN : RunQuery(m, some)
         \/ \E r \in ResultSets :
              \/ Lookup(r) \/ Insert(r) \/ Refresh(r) \/ ReadResults(r) \/ Notify(r)
              \/ Respond(r) \/ InsertFails(r) \/ NotifyFails(r)
  BY DEF Next, Handle

-----------------------------------------------------------------------------
LEMMA TypeInvariant == Spec => [](TypeOK /\ ReceivesInv)
<1>1. Init => TypeOK /\ ReceivesInv
  <2> SUFFICES ASSUME Init PROVE TypeOK /\ ReceivesInv
    OBVIOUS
  <2>1. \A m \in Messages : MaxReceives[RevisionOf(m)] \in Nat \ {0}
    BY MessageParts, BoundsAssumption
  <2>2. QED
    BY <2>1, BoundsAssumption DEF Init, TypeOK, ReceivesInv, Revisions, Requests
<1>2. TypeOK /\ ReceivesInv /\ [Next]_vars => (TypeOK /\ ReceivesInv)'
  <2> SUFFICES ASSUME TypeOK, ReceivesInv, [Next]_vars
               PROVE  TypeOK' /\ ReceivesInv'
    OBVIOUS
  <2>0. \A m \in Messages : MaxReceives[RevisionOf(m)] \in Nat \ {0}
    BY MessageParts, BoundsAssumption
  <2> USE <2>0, BoundsAssumption DEF TypeOK, ReceivesInv, Revisions, Requests
  <2>1. CASE Tick
    <3>1. now' \in 0 .. MaxTime
      BY <2>1, Bounds DEF Tick
    <3>2. QED
      BY <2>1, <3>1 DEF Tick, jobVars, queryVars, storeVars
  <2>2. CASE SelectExpired \/ DeleteSelected \/ PruneFails
    <3>1. /\ UNCHANGED <<now, jobVars, queryVars, history, vanished, notified>>
          /\ stored' \subseteq stored /\ selected' \subseteq stored
      BY <2>2 DEF SelectExpired, DeleteSelected, PruneFails
    <3>2. QED
      BY <3>1 DEF jobVars, queryVars
  <2>3. ASSUME NEW j \in Jobs, Edit(j) PROVE TypeOK' /\ ReceivesInv'
    <3>1. rev' = [rev EXCEPT ![j] = @ + 1] /\ rev[j] < MaxRevision
      BY <2>3, Zenon DEF Edit
    <3>2. rev' \in [Jobs -> 1 .. MaxRevision]
      BY <3>1
    <3>3. UNCHANGED <<now, alive, queryVars, storeVars>>
      BY <2>3, Zenon DEF Edit
    <3>4. QED
      BY <3>2, <3>3 DEF queryVars, storeVars
  <2>4. ASSUME NEW j \in Jobs, DeleteJob(j) PROVE TypeOK' /\ ReceivesInv'
    BY <2>4 DEF DeleteJob, queryVars
  <2>5. ASSUME NEW m \in Messages, Accept(m) PROVE TypeOK' /\ ReceivesInv'
    <3>1. /\ queue[m] = "absent" /\ queue' = [queue EXCEPT ![m] = "queued"]
          /\ UNCHANGED <<now, jobVars, receives, lambda, request, created, rows, storeVars>>
      BY <2>5, Zenon DEF Accept
    <3>2. TypeOK'
      BY <3>1 DEF jobVars, storeVars
    <3>3. ReceivesInv'
      BY <3>1
    <3>4. QED
      BY <3>2, <3>3
  <2>6. ASSUME NEW m \in Messages, Receive(m) PROVE TypeOK' /\ ReceivesInv'
    <3>1. receives[m] + 1 <= MaxReceives[RevisionOf(m)]
      BY <2>6 DEF Receive
    <3>2. TypeOK'
      <4>1. \A n \in Messages : receives'[n] <= MaxReceives[RevisionOf(n)]
        BY <2>6, <3>1 DEF Receive
      <4>2. receives' \in [Messages -> Nat]
        BY <2>6 DEF Receive
      <4>3. QED
        BY <2>6, <4>1, <4>2 DEF Receive, jobVars, storeVars
    <3>3. ReceivesInv'
      BY <2>6, <3>1 DEF Receive
    <3>4. QED
      BY <3>2, <3>3
  <2>7. ASSUME NEW m \in Messages, LambdaFails(m) PROVE TypeOK' /\ ReceivesInv'
    BY <2>7 DEF LambdaFails, jobVars, storeVars
  <2>8. ASSUME NEW m \in Messages, LambdaReturns(m) PROVE TypeOK' /\ ReceivesInv'
    BY <2>8 DEF LambdaReturns, jobVars, storeVars
  <2>9. ASSUME NEW m \in Messages, NEW some \in BOOLEAN, RunQuery(m, some)
        PROVE  TypeOK' /\ ReceivesInv'
    <3>1. Delivery(m) \in ResultSets
      BY <2>9, DeliveryType DEF RunQuery
    <3>2. QED
      BY <2>9, <3>1 DEF RunQuery, jobVars, storeVars
  <2>10. ASSUME NEW r \in ResultSets,
                \/ Lookup(r) \/ Refresh(r) \/ Respond(r)
                \/ InsertFails(r) \/ NotifyFails(r)
         PROVE  TypeOK' /\ ReceivesInv'
    <3>1. /\ UNCHANGED <<now, jobVars, queue, receives, lambda, created, rows, storeVars>>
          /\ \E s \in Requests : request' = [request EXCEPT ![r] = s]
      BY <2>10 DEF Lookup, Refresh, Respond, InsertFails, NotifyFails, Answer
    <3>2. request' \in [ResultSets -> Requests]
      BY <3>1
    <3>3. QED
      BY <3>1, <3>2 DEF jobVars, storeVars
  <2>11. ASSUME NEW r \in ResultSets, Insert(r) PROVE TypeOK' /\ ReceivesInv'
    <3>1. /\ UNCHANGED <<now, jobVars, queue, receives, lambda, created, rows,
                         vanished, notified, selected>>
          /\ \/ stored' = stored \cup {r} /\ history' = history \cup {r}
             \/ UNCHANGED <<stored, history>>
          /\ \E s \in {"refresh", "error"} : request' = [request EXCEPT ![r] = s]
      BY <2>11 DEF Insert, Answer
    <3>2. /\ stored' \subseteq history' /\ history' \subseteq ResultSets
          /\ selected \subseteq history'
      BY <3>1
    <3>3. request' \in [ResultSets -> Requests]
      BY <3>1
    <3>4. QED
      BY <3>1, <3>2, <3>3 DEF jobVars
  <2>12. ASSUME NEW r \in ResultSets, ReadResults(r) \/ Notify(r)
         PROVE  TypeOK' /\ ReceivesInv'
    <3>1. /\ UNCHANGED <<now, jobVars, queue, receives, lambda, created, rows,
                         stored, history, selected>>
          /\ \E s \in {"notify", "respond"} : request' = [request EXCEPT ![r] = s]
      BY <2>12 DEF ReadResults, Notify, Answer
    <3>2. notified' \subseteq ResultSets
      BY <2>12 DEF ReadResults, Notify
    <3>3. vanished' \subseteq ResultSets
      BY <2>12 DEF ReadResults, Notify
    <3>4. request' \in [ResultSets -> Requests]
      BY <3>1
    <3>5. QED
      BY <3>1, <3>2, <3>3, <3>4 DEF jobVars
  <2>13. CASE UNCHANGED vars
    BY <2>13 DEF vars, jobVars, queryVars, storeVars
  <2>14. QED
    BY <2>1, <2>2, <2>3, <2>4, <2>5, <2>6, <2>7, <2>8, <2>9, <2>10, <2>11,
       <2>12, <2>13, NextCases
<1>3. QED
  BY <1>1, <1>2, PTL DEF Spec

\* Every variable keeps its type; no message is received too often.
THEOREM QueryTypeCorrect == Spec => []TypeOK
  BY TypeInvariant, PTL

-----------------------------------------------------------------------------
LEMMA RequestInvariant == Spec => []RequestInv
<1>1. Init => RequestInv
  <2>1. \A m \in Messages : lambda[m] = "none" => lambda[m] # "query"
    OBVIOUS
  <2>2. QED
    BY <2>1 DEF Init, RequestInv
<1>2. TypeOK /\ ReceivesInv /\ RequestInv /\ [Next]_vars => RequestInv'
  <2> SUFFICES ASSUME TypeOK, ReceivesInv, RequestInv, [Next]_vars
               PROVE  RequestInv'
    OBVIOUS
  <2>1. CASE UNCHANGED <<receives, lambda, request>>
    BY <2>1 DEF RequestInv, Delivery
  <2>2. ASSUME NEW m \in Messages, Receive(m) PROVE RequestInv'
    <3>1. /\ receives' = [receives EXCEPT ![m] = @ + 1]
          /\ lambda' = [lambda EXCEPT ![m] = "query"] /\ request' = request
      BY <2>2, Zenon DEF Receive
    <3>2. receives' \in [Messages -> Nat] /\ \A n \in Messages : receives'[n] >= receives[n]
      BY <3>1 DEF TypeOK
    <3>3. ASSUME NEW r \in ResultSets, r[2] > receives'[r[1]]
          PROVE  request'[r] = "none"
      <4>1. r[1] \in Messages /\ r[2] \in Nat
        <5>1. PICK n \in Messages : r \in {n} \X (1 .. MaxReceives[RevisionOf(n)])
          BY DEF ResultSets
        <5>2. QED
          BY <5>1
      <4>2. r[2] > receives[r[1]]
        BY <3>2, <3>3, <4>1 DEF TypeOK
      <4>3. QED
        BY <3>1, <4>2 DEF RequestInv
    <3>4. ASSUME NEW n \in Messages, lambda'[n] = "query"
          PROVE  request'[Delivery(n)'] = "none"
      <4>1. CASE n = m
        <5>1. queue[m] = "queued" /\ receives'[m] = receives[m] + 1
          BY <2>2, <3>1 DEF Receive, TypeOK
        <5>2. receives[m] + 1 \in 1 .. MaxReceives[RevisionOf(m)]
          BY <5>1, MessageParts, BoundsAssumption DEF ReceivesInv, TypeOK
        <5>3. <<m, receives[m] + 1>> \in ResultSets
          BY <5>2 DEF ResultSets
        <5>4. request[<<m, receives[m] + 1>>] = "none"
          <6>1. <<m, receives[m] + 1>>[2] > receives[<<m, receives[m] + 1>>[1]]
            BY DEF TypeOK
          <6>2. QED
            BY <5>3, <6>1 DEF RequestInv
        <5>5. QED
          BY <3>1, <4>1, <5>1, <5>4 DEF Delivery
      <4>2. CASE n # m
        <5>1. lambda[n] = "query" /\ receives'[n] = receives[n]
          BY <3>1, <3>4, <4>2 DEF TypeOK
        <5>2. request[Delivery(n)] = "none"
          BY <5>1 DEF RequestInv
        <5>3. QED
          BY <3>1, <5>1, <5>2 DEF Delivery
      <4>3. QED
        BY <4>1, <4>2
    <3>5. QED
      BY <3>3, <3>4 DEF RequestInv
  <2>3. ASSUME NEW m \in Messages, LambdaFails(m) \/ LambdaReturns(m)
        PROVE  RequestInv'
    <3>1. lambda' = [lambda EXCEPT ![m] = "none"] /\ UNCHANGED <<receives, request>>
      BY <2>3 DEF LambdaFails, LambdaReturns
    <3>2. \A n \in Messages : lambda'[n] = "query" => lambda[n] = "query"
      BY <3>1 DEF TypeOK
    <3>3. QED
      BY <3>1, <3>2 DEF RequestInv, Delivery
  <2>4. ASSUME NEW m \in Messages, NEW some \in BOOLEAN, RunQuery(m, some)
        PROVE  RequestInv'
    <3>1. /\ lambda' = [lambda EXCEPT ![m] = "wait"] /\ receives' = receives
          /\ request' = [request EXCEPT ![Delivery(m)] = "lookup"]
      BY <2>4, Zenon DEF RunQuery
    <3>2. ASSUME NEW r \in ResultSets, r[2] > receives[r[1]] PROVE request'[r] = "none"
      <4>1. r # Delivery(m)
        BY <3>2 DEF Delivery, TypeOK
      <4>2. QED
        BY <3>1, <3>2, <4>1 DEF RequestInv, TypeOK
    <3>3. ASSUME NEW n \in Messages, lambda'[n] = "query"
          PROVE  request'[Delivery(n)] = "none"
      <4>1. n # m /\ lambda[n] = "query"
        BY <3>1, <3>3 DEF TypeOK
      <4>2. Delivery(n) # Delivery(m)
        BY <4>1 DEF Delivery
      <4>3. Delivery(n) \in ResultSets
        BY <4>1, DeliveryType
      <4>4. QED
        BY <3>1, <4>1, <4>2, <4>3 DEF RequestInv, TypeOK
    <3>4. QED
      BY <3>1, <3>2, <3>3 DEF RequestInv, Delivery
  <2>5. ASSUME NEW r \in ResultSets,
               UNCHANGED <<receives, lambda>>, request[r] # "none",
               NEW s, request' = [request EXCEPT ![r] = s]
        PROVE  RequestInv'
    <3>1. ASSUME NEW q \in ResultSets, request[q] = "none" PROVE request'[q] = "none"
      BY <2>5, <3>1 DEF TypeOK
    <3>2. ASSUME NEW m \in Messages, lambda[m] = "query" PROVE Delivery(m) \in ResultSets
      BY <3>2, DeliveryType
    <3>3. QED
      BY <2>5, <3>1, <3>2 DEF RequestInv, Delivery
  <2>6. ASSUME NEW r \in ResultSets,
               \/ Lookup(r) \/ Insert(r) \/ Refresh(r) \/ ReadResults(r) \/ Notify(r)
               \/ Respond(r) \/ InsertFails(r) \/ NotifyFails(r)
        PROVE  RequestInv'
    <3>1. UNCHANGED <<receives, lambda>> /\ request[r] # "none"
      BY <2>6 DEF Lookup, Insert, Refresh, ReadResults, Notify, Respond, InsertFails,
                  NotifyFails
    <3>2. \E s : request' = [request EXCEPT ![r] = s]
      BY <2>6 DEF Lookup, Insert, Refresh, ReadResults, Notify, Respond, InsertFails,
                  NotifyFails, Answer
    <3>3. QED
      BY <2>5, <3>1, <3>2
  <2>7. CASE UNCHANGED vars \/ Tick \/ SelectExpired \/ DeleteSelected \/ PruneFails
    BY <2>1, <2>7 DEF vars, queryVars, Tick, SelectExpired, DeleteSelected, PruneFails
  <2>8. ASSUME NEW j \in Jobs, Edit(j) \/ DeleteJob(j) PROVE RequestInv'
    BY <2>1, <2>8 DEF queryVars, Edit, DeleteJob
  <2>9. ASSUME NEW m \in Messages, Accept(m) PROVE RequestInv'
    BY <2>1, <2>9 DEF Accept
  <2>10. QED
    BY <2>2, <2>3, <2>4, <2>6, <2>7, <2>8, <2>9, NextCases
<1>3. QED
  BY <1>1, <1>2, TypeInvariant, PTL DEF Spec

-----------------------------------------------------------------------------
LEMMA StoreInvariant == Spec => []StoreInv
<1>1. Init => StoreInv
  BY DEF Init, StoreInv
<1>2. TypeOK /\ ReceivesInv /\ RequestInv /\ StoreInv /\ [Next]_vars => StoreInv'
  <2> SUFFICES ASSUME TypeOK, ReceivesInv, RequestInv, StoreInv, [Next]_vars
               PROVE  StoreInv'
    OBVIOUS
  <2> USE DEF TypeOK, StoreInv
  <2>1. CASE UNCHANGED <<request, rows, history, vanished, notified>>
    BY <2>1
  <2>2. ASSUME NEW m \in Messages, NEW some \in BOOLEAN, RunQuery(m, some)
        PROVE  StoreInv'
    <3>1. /\ request' = [request EXCEPT ![Delivery(m)] = "lookup"]
          /\ rows' = [rows EXCEPT ![Delivery(m)] = some]
          /\ UNCHANGED <<history, vanished, notified>>
      BY <2>2, Zenon DEF RunQuery, storeVars
    <3>2. Delivery(m) \in ResultSets /\ request[Delivery(m)] = "none"
      BY <2>2, DeliveryType DEF RunQuery, RequestInv
    <3>3. QED
      BY <3>1, <3>2
  <2>3. ASSUME NEW r \in ResultSets,
               Lookup(r) \/ InsertFails(r) \/ NotifyFails(r) \/ Refresh(r) \/ Respond(r)
        PROVE  StoreInv'
    <3>1. UNCHANGED <<rows, history, vanished, notified>>
      BY <2>3 DEF Lookup, InsertFails, NotifyFails, Refresh, Respond, storeVars
    <3>2. CASE Lookup(r) \/ InsertFails(r) \/ NotifyFails(r)
      <4>1. \E s \in {"insert", "error"} : request' = [request EXCEPT ![r] = s]
        BY <3>2 DEF Lookup, InsertFails, NotifyFails, Answer
      <4>2. QED
        BY <3>1, <4>1
    <3>3. CASE Refresh(r) \/ Respond(r)
      <4>1. /\ request[r] \in {"refresh", "respond"}
            /\ \/ request' = [request EXCEPT ![r] = "error"]
               \/ request[r] = "refresh" /\ request' = [request EXCEPT ![r] = "results"]
               \/ request[r] = "respond" /\ request' = [request EXCEPT ![r] = "ok"]
        BY <3>3 DEF Refresh, Respond, Answer
      <4>2. QED
        BY <3>1, <4>1
    <3>4. QED
      BY <2>3, <3>2, <3>3
  <2>4. ASSUME NEW r \in ResultSets, Insert(r) PROVE StoreInv'
    <3>1. /\ UNCHANGED <<rows, vanished, notified>> /\ request[r] = "insert"
          /\ \/ /\ history' = history \cup {r}
                /\ request' = [request EXCEPT ![r] = "refresh"]
             \/ history' = history /\ request' = [request EXCEPT ![r] = "error"]
      BY <2>4 DEF Insert, Answer
    <3>2. QED
      BY <3>1
  <2>5. ASSUME NEW r \in ResultSets, ReadResults(r) PROVE StoreInv'
    <3>1. /\ UNCHANGED <<rows, history, notified>> /\ request[r] = "results"
          /\ vanished' = IF r \in stored THEN vanished ELSE vanished \cup {r}
          /\ request' = [request EXCEPT ![r] =
               IF r \in stored /\ rows[r] /\ NotifyIfResults[RevisionOf(r[1])]
                 THEN "notify" ELSE "respond"]
      BY <2>5, Zenon DEF ReadResults, Answer
    <3>2. vanished \subseteq vanished'
      BY <3>1
    <3>3. ASSUME NEW q \in ResultSets, q # r PROVE request'[q] = request[q]
      BY <3>1, <3>3
    <3>4. /\ request'[r] \in {"notify", "respond"}
          /\ request'[r] = "respond" =>
               (rows[r] /\ NotifyIfResults[RevisionOf(r[1])] => r \in vanished')
      BY <3>1
    <3>5. r \in history
      BY <3>1
    <3>6. QED
      BY <3>1, <3>2, <3>3, <3>4, <3>5
  <2>6. ASSUME NEW r \in ResultSets, Notify(r) PROVE StoreInv'
    <3>1. /\ UNCHANGED <<rows, history, vanished>> /\ request[r] = "notify"
          /\ notified' = notified \cup {r}
          /\ request' = [request EXCEPT ![r] = "respond"]
      BY <2>6, Zenon DEF Notify, Answer
    <3>2. QED
      BY <3>1
  <2>7. CASE UNCHANGED vars \/ Tick \/ SelectExpired \/ DeleteSelected \/ PruneFails
    BY <2>1, <2>7 DEF vars, queryVars, storeVars, Tick, SelectExpired, DeleteSelected,
                      PruneFails
  <2>8. ASSUME NEW j \in Jobs, Edit(j) \/ DeleteJob(j) PROVE StoreInv'
    BY <2>1, <2>8 DEF queryVars, storeVars, Edit, DeleteJob
  <2>9. ASSUME NEW m \in Messages,
               Accept(m) \/ Receive(m) \/ LambdaFails(m) \/ LambdaReturns(m)
        PROVE  StoreInv'
    BY <2>1, <2>9 DEF Accept, Receive, LambdaFails, LambdaReturns, storeVars
  <2>10. QED
    BY <2>2, <2>3, <2>4, <2>5, <2>6, <2>7, <2>8, <2>9, NextCases
<1>3. QED
  BY <1>1, <1>2, TypeInvariant, RequestInvariant, PTL DEF Spec

\* Subscribers are told of committed result sets only, however lambdas die and
\* messages are delivered again.
THEOREM NotifiedAreStored == Spec => []NotifiedWereStored
<1>1. Init => NotifiedWereStored
  BY DEF Init, NotifiedWereStored
<1>2. TypeOK /\ StoreInv /\ NotifiedWereStored /\ [Next]_vars => NotifiedWereStored'
  <2> SUFFICES ASSUME TypeOK, StoreInv, NotifiedWereStored, [Next]_vars
               PROVE  NotifiedWereStored'
    OBVIOUS
  <2>1. CASE UNCHANGED notified /\ history \subseteq history'
    BY <2>1 DEF NotifiedWereStored
  <2>2. ASSUME NEW r \in ResultSets, Notify(r) PROVE NotifiedWereStored'
    BY <2>2 DEF Notify, NotifiedWereStored, StoreInv
  <2>3. ASSUME NEW r \in ResultSets,
               \/ Lookup(r) \/ Insert(r) \/ Refresh(r) \/ ReadResults(r) \/ Respond(r)
               \/ InsertFails(r) \/ NotifyFails(r)
        PROVE  NotifiedWereStored'
    <3>1. UNCHANGED notified /\ history \subseteq history'
      BY <2>3 DEF Lookup, Insert, Refresh, ReadResults, Respond, InsertFails, NotifyFails,
                  storeVars
    <3>2. QED
      BY <2>1, <3>1
  <2>4. CASE UNCHANGED vars \/ Tick \/ SelectExpired \/ DeleteSelected \/ PruneFails
    BY <2>1, <2>4 DEF vars, storeVars, Tick, SelectExpired, DeleteSelected, PruneFails
  <2>5. ASSUME NEW j \in Jobs, Edit(j) \/ DeleteJob(j) PROVE NotifiedWereStored'
    BY <2>1, <2>5 DEF storeVars, Edit, DeleteJob
  <2>6. ASSUME NEW m \in Messages,
               Accept(m) \/ Receive(m) \/ LambdaFails(m) \/ LambdaReturns(m)
        PROVE  NotifiedWereStored'
    BY <2>1, <2>6 DEF Accept, Receive, LambdaFails, LambdaReturns, storeVars
  <2>7. ASSUME NEW m \in Messages, NEW some \in BOOLEAN, RunQuery(m, some)
        PROVE  NotifiedWereStored'
    BY <2>1, <2>7 DEF RunQuery, storeVars
  <2>8. QED
    BY <2>2, <2>3, <2>4, <2>5, <2>6, <2>7, NextCases
<1>3. QED
  BY <1>1, <1>2, TypeInvariant, StoreInvariant, PTL DEF Spec

\* No result set is left in the database without its job, also when the job is
\* deleted between the lookup and the insert of a result set.
THEOREM StoredBelongToJobs == Spec => []StoredHaveJobs
<1>1. Init => StoredHaveJobs
  BY DEF Init, StoredHaveJobs
<1>2. TypeOK /\ StoredHaveJobs /\ [Next]_vars => StoredHaveJobs'
  <2> SUFFICES ASSUME TypeOK, StoredHaveJobs, [Next]_vars
               PROVE  StoredHaveJobs'
    OBVIOUS
  <2> USE DEF TypeOK, StoredHaveJobs
  <2>1. CASE Tick \/ SelectExpired \/ DeleteSelected \/ PruneFails
    BY <2>1 DEF Tick, SelectExpired, DeleteSelected, PruneFails, jobVars, storeVars
  <2>2. ASSUME NEW j \in Jobs, Edit(j) \/ DeleteJob(j) PROVE StoredHaveJobs'
    <3>1. CASE Edit(j)
      BY <3>1, Zenon DEF Edit, storeVars
    <3>2. CASE DeleteJob(j)
      <4>1. /\ stored' = {r \in stored : JobOf(r[1]) # j}
            /\ alive' = [alive EXCEPT ![j] = FALSE]
        BY <3>2, Zenon DEF DeleteJob
      <4>2. SUFFICES ASSUME NEW r \in stored' PROVE alive'[JobOf(r[1])]
        OBVIOUS
      <4>3. r \in stored /\ JobOf(r[1]) # j /\ alive[JobOf(r[1])]
        BY <4>1, <4>2
      <4>4. JobOf(r[1]) \in Jobs
        BY <4>3, MessageParts, ResultSetParts
      <4>5. QED
        BY <4>1, <4>3, <4>4, Zenon
    <3>3. QED
      BY <2>2, <3>1, <3>2
  <2>3. ASSUME NEW m \in Messages,
               Accept(m) \/ Receive(m) \/ LambdaFails(m) \/ LambdaReturns(m)
        PROVE  StoredHaveJobs'
    BY <2>3 DEF Accept, Receive, LambdaFails, LambdaReturns, jobVars, storeVars
  <2>4. ASSUME NEW m \in Messages, NEW some \in BOOLEAN, RunQuery(m, some)
        PROVE  StoredHaveJobs'
    BY <2>4 DEF RunQuery, jobVars, storeVars
  <2>5. ASSUME NEW r \in ResultSets,
               \/ Lookup(r) \/ Refresh(r) \/ ReadResults(r) \/ Notify(r) \/ Respond(r)
               \/ InsertFails(r) \/ NotifyFails(r)
        PROVE  StoredHaveJobs'
    BY <2>5 DEF Lookup, Refresh, ReadResults, Notify, Respond, InsertFails, NotifyFails,
                jobVars, storeVars
  <2>6. ASSUME NEW r \in ResultSets, Insert(r) PROVE StoredHaveJobs'
    BY <2>6 DEF Insert, KeyHolds, jobVars
  <2>7. CASE UNCHANGED vars
    BY <2>7 DEF vars, jobVars, storeVars
  <2>8. QED
    BY <2>1, <2>2, <2>3, <2>4, <2>5, <2>6, <2>7, NextCases
<1>3. QED
  BY <1>1, <1>2, QueryTypeCorrect, PTL DEF Spec

-----------------------------------------------------------------------------
\* A delivered message stays delivered: committed result sets and notifications are
\* remembered, and no delivery writes the results of one that was committed.
LEMMA DeliveredIsKept ==
  ASSUME TypeOK, ReceivesInv, RequestInv, StoreInv, Next,
         NEW m \in Messages, Delivered(m)
  PROVE  Delivered(m)'
<1>1. PICK r \in history : /\ r[1] = m
                           /\ rows[r] /\ NotifyIfResults[RevisionOf(m)] =>
                                r \in notified \cup vanished
  BY DEF Delivered
<1>2. /\ history \subseteq history' /\ notified \subseteq notified'
      /\ vanished \subseteq vanished'
  <2>1. CASE Tick \/ SelectExpired \/ DeleteSelected \/ PruneFails
    BY <2>1 DEF storeVars, Tick, SelectExpired, DeleteSelected, PruneFails
  <2>2. ASSUME NEW j \in Jobs, Edit(j) \/ DeleteJob(j)
        PROVE  UNCHANGED <<history, notified, vanished>>
    BY <2>2 DEF storeVars, Edit, DeleteJob
  <2>3. ASSUME NEW n \in Messages,
               Accept(n) \/ Receive(n) \/ LambdaFails(n) \/ LambdaReturns(n)
        PROVE  UNCHANGED <<history, notified, vanished>>
    BY <2>3 DEF Accept, Receive, LambdaFails, LambdaReturns, storeVars
  <2>4. ASSUME NEW n \in Messages, NEW some \in BOOLEAN, RunQuery(n, some)
        PROVE  UNCHANGED <<history, notified, vanished>>
    BY <2>4 DEF RunQuery, storeVars
  <2>5. ASSUME NEW q \in ResultSets,
               \/ Lookup(q) \/ Insert(q) \/ Refresh(q) \/ ReadResults(q) \/ Notify(q)
               \/ Respond(q) \/ InsertFails(q) \/ NotifyFails(q)
        PROVE  /\ history \subseteq history' /\ notified \subseteq notified'
               /\ vanished \subseteq vanished'
    BY <2>5 DEF Lookup, Insert, Refresh, ReadResults, Notify, Respond, InsertFails,
                NotifyFails, storeVars
  <2>6. QED
    BY <2>1, <2>2, <2>3, <2>4, <2>5, NextCases
<1>3. rows'[r] = rows[r]
  <2>1. r \in ResultSets /\ request[r] # "none"
    BY DEF TypeOK, StoreInv
  <2>2. ASSUME NEW n \in Messages, NEW some \in BOOLEAN, RunQuery(n, some)
        PROVE  rows'[r] = rows[r]
    <3>1. request[Delivery(n)] = "none" /\ rows' = [rows EXCEPT ![Delivery(n)] = some]
      BY <2>2 DEF RunQuery, RequestInv
    <3>2. QED
      BY <2>1, <3>1 DEF TypeOK
  <2>3. UNCHANGED rows \/ \E n \in Messages, some \in BOOLEAN : RunQuery(n, some)
    <3>1. CASE Tick \/ SelectExpired \/ DeleteSelected \/ PruneFails
      BY <3>1 DEF queryVars, Tick, SelectExpired, DeleteSelected, PruneFails
    <3>2. ASSUME NEW j \in Jobs, Edit(j) \/ DeleteJob(j) PROVE UNCHANGED rows
      BY <3>2 DEF queryVars, Edit, DeleteJob
    <3>3. ASSUME NEW n \in Messages,
                 Accept(n) \/ Receive(n) \/ LambdaFails(n) \/ LambdaReturns(n)
          PROVE  UNCHANGED rows
      BY <3>3 DEF Accept, Receive, LambdaFails, LambdaReturns
    <3>4. ASSUME NEW q \in ResultSets,
                 \/ Lookup(q) \/ Insert(q) \/ Refresh(q) \/ ReadResults(q) \/ Notify(q)
                 \/ Respond(q) \/ InsertFails(q) \/ NotifyFails(q)
          PROVE  UNCHANGED rows
      BY <3>4 DEF Lookup, Insert, Refresh, ReadResults, Notify, Respond, InsertFails,
                  NotifyFails
    <3>5. QED
      BY <3>1, <3>2, <3>3, <3>4, NextCases
  <2>4. QED
    BY <2>2, <2>3
<1>4. r \in history' /\ (rows'[r] /\ NotifyIfResults[RevisionOf(m)] =>
                           r \in notified' \cup vanished')
  BY <1>1, <1>2, <1>3
<1>5. QED
  BY <1>1, <1>4 DEF Delivered

\* No message is acknowledged unless a result set of it was committed and notified of
\* as its job asks, however often it is delivered and whatever is deleted meanwhile.
THEOREM AcknowledgedOnlyDelivered == Spec => []AcknowledgedAreDelivered
<1>1. Init => AcknowledgedAreDelivered
  BY DEF Init, AcknowledgedAreDelivered
<1>2. /\ TypeOK /\ ReceivesInv /\ RequestInv /\ StoreInv
      /\ AcknowledgedAreDelivered /\ [Next]_vars
      => AcknowledgedAreDelivered'
  <2> SUFFICES ASSUME TypeOK, ReceivesInv, RequestInv, StoreInv,
                      AcknowledgedAreDelivered, Next,
                      NEW m \in Messages, queue'[m] = "acked"
               PROVE  Delivered(m)'
    <3>1. CASE UNCHANGED vars
      BY <3>1 DEF vars, queryVars, storeVars, AcknowledgedAreDelivered, Delivered
    <3>2. QED
      BY <3>1 DEF AcknowledgedAreDelivered
  <2>1. CASE queue[m] = "acked"
    BY <2>1, DeliveredIsKept DEF AcknowledgedAreDelivered
  <2>2. CASE LambdaReturns(m)
    <3>1. request[Delivery(m)] = "ok" /\ lambda[m] = "wait"
      BY <2>2 DEF LambdaReturns
    <3>2. Delivery(m) \in ResultSets /\ Delivery(m)[1] = m
      BY <3>1, DeliveryType DEF Delivery
    <3>3. Delivered(m)
      BY <3>1, <3>2 DEF StoreInv, Delivered
    <3>4. QED
      BY <3>3, DeliveredIsKept
  <2>3. queue[m] = "acked" \/ LambdaReturns(m)
    <3> USE DEF TypeOK
    <3>1. ASSUME NEW n \in Messages, LambdaReturns(n), n # m PROVE queue[m] = "acked"
      BY <3>1 DEF LambdaReturns
    <3>2. ASSUME NEW n \in Messages, Accept(n) \/ Receive(n) \/ LambdaFails(n)
          PROVE  queue[m] = "acked"
      BY <3>2 DEF Accept, Receive, LambdaFails
    <3>3. CASE Tick \/ SelectExpired \/ DeleteSelected \/ PruneFails
      BY <3>3 DEF queryVars, Tick, SelectExpired, DeleteSelected, PruneFails
    <3>4. ASSUME NEW j \in Jobs, Edit(j) \/ DeleteJob(j) PROVE queue[m] = "acked"
      BY <3>4 DEF queryVars, Edit, DeleteJob
    <3>5. ASSUME NEW q \in ResultSets,
                 \/ Lookup(q) \/ Insert(q) \/ Refresh(q) \/ ReadResults(q) \/ Notify(q)
                 \/ Respond(q) \/ InsertFails(q) \/ NotifyFails(q)
          PROVE  queue[m] = "acked"
      BY <3>5 DEF Lookup, Insert, Refresh, ReadResults, Notify, Respond, InsertFails,
                  NotifyFails
    <3>6. ASSUME NEW n \in Messages, NEW some \in BOOLEAN, RunQuery(n, some)
          PROVE  queue[m] = "acked"
      BY <3>6 DEF RunQuery
    <3>7. QED
      BY <3>1, <3>2, <3>3, <3>4, <3>5, <3>6, NextCases
  <2>4. QED
    BY <2>1, <2>2, <2>3
<1>3. QED
  BY <1>1, <1>2, TypeInvariant, RequestInvariant, StoreInvariant, PTL DEF Spec
=============================================================================
