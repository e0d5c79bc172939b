--------------------------- MODULE JobFanOutProofs ---------------------------
(***************************************************************************)
(* Proofs about JobFanOut, for any jobs, events, edits and starts.         *)
(***************************************************************************)
EXTENDS JobFanOut, TLAPS

\* The service starts an executor only while it has starts left.
StartsLeft ==
  \A t \in Triggers : /\ exec[t] = "waiting" => starts[t] < MaxStarts[t]
                      /\ exec[t] # "waiting" => starts[t] > 0

\* What the executor of a trigger sends carries the execution hash of its start.
OwnExecution ==
  \A t \in Triggers : \A m \in todo[t] : ExecutionOf(m) = ExecutionHash(t, starts[t])

\* Of a start that has not failed, each listed job is in the queue or to be sent.
Accounted(j, t) ==
  \E m \in Messages : /\ JobOf(m) = j /\ ExecutionOf(m) = ExecutionHash(t, starts[t])
                      /\ copies[m] > 0 \/ m \in todo[t]
ProgressInv ==
  /\ \A m \in window : copies[m] > 0
  /\ \A t \in Triggers :
       /\ exec[t] = "waiting" => todo[t] = {}
       /\ exec[t] = "done" => todo[t] = {}
       /\ exec[t] \in {"sending", "done"} => \A j \in listed[t] : Accounted(j, t)

\* The queue remembers no message of a manual run that is to be sent, nor of a start
\* that is to come.
FreshInv ==
  \A t \in Manual :
    /\ window \cap todo[t] = {}
    /\ \A m \in window, n \in Nat : ExecutionOf(m) = <<t, n>> => n <= starts[t]

LEMMA NumberFacts ==
  /\ MaxRevision \in Nat \ {0} /\ MaxStarts \in [Triggers -> Nat \ {0}]
  /\ Jobs \subseteq Nat
  /\ Edited \subseteq Jobs
  /\ Manual \subseteq Triggers
  BY JobsAssumption, MaxRevisionAssumption, MaxStartsAssumption, ManualAssumption

\* The execution hash of a start is one.
LEMMA ExecutionType ==
  ASSUME NEW t \in Triggers, NEW n \in 0 .. MaxStarts[t]
  PROVE  ExecutionHash(t, n) \in Executions
<1>1. 0 \in 0 .. MaxStarts[t]
  BY NumberFacts
<1>2. QED
  BY <1>1 DEF ExecutionHash, Executions

\* What is to be sent for the active jobs are messages, one for each, of the start.
LEMMA MessagesForType ==
  ASSUME TypeOK, NEW x \in Executions
  PROVE  /\ MessagesFor(active, x) \subseteq Messages
         /\ \A m \in MessagesFor(active, x) : ExecutionOf(m) = x
         /\ \A j \in active : \E m \in MessagesFor(active, x) : JobOf(m) = j
<1>1. ASSUME NEW j \in active
      PROVE  /\ <<j, rev[j], x>> \in Messages
             /\ JobOf(<<j, rev[j], x>>) = j /\ ExecutionOf(<<j, rev[j], x>>) = x
  BY DEF TypeOK, Messages, JobOf, ExecutionOf
<1>2. QED
  BY <1>1 DEF MessagesFor

\* Starts of one trigger have hashes of that trigger only; of manual ones, their own.
LEMMA HashesApart ==
  ASSUME NEW t \in Triggers, NEW u \in Triggers, NEW n \in Nat, NEW k \in Nat,
         ExecutionHash(t, n) = ExecutionHash(u, k)
  PROVE  t = u /\ (t \in Manual => n = k)
  BY DEF ExecutionHash

\* A start lists the active jobs and is to send a message of its own for each.
LEMMA StartSends ==
  ASSUME TypeOK, StartsLeft, NEW t \in Triggers, Start(t)
  PROVE  /\ starts' = [starts EXCEPT ![t] = @ + 1]
         /\ starts'[t] \in 1 .. MaxStarts[t]
         /\ todo' = [todo EXCEPT ![t] = MessagesFor(active, ExecutionHash(t, starts'[t]))]
         /\ ExecutionHash(t, starts'[t]) \in Executions
<1>1. starts' = [starts EXCEPT ![t] = @ + 1] /\ starts[t] < MaxStarts[t]
  BY DEF Start, StartsLeft
<1>2. starts'[t] \in 1 .. MaxStarts[t] /\ starts'[t] \in 0 .. MaxStarts[t]
  <2>1. starts'[t] = starts[t] + 1 /\ starts[t] \in Nat
    BY <1>1 DEF TypeOK
  <2>2. MaxStarts[t] \in Nat
    BY NumberFacts
  <2>3. QED
    BY <1>1, <2>1, <2>2
<1>3. todo' = [todo EXCEPT ![t] = MessagesFor(active, ExecutionHash(t, starts'[t]))]
  BY Zenon DEF Start
<1>4. ExecutionHash(t, starts'[t]) \in Executions
  BY <1>2, ExecutionType
<1>5. QED
  BY <1>1, <1>2, <1>3, <1>4

LEMMA StartsInvariant == Spec => [](TypeOK /\ StartsLeft)
<1>1. Init => TypeOK /\ StartsLeft
  BY NumberFacts DEF Init, TypeOK, StartsLeft, Revisions
<1>2. TypeOK /\ StartsLeft /\ [Next]_vars => (TypeOK /\ StartsLeft)'
  <2> SUFFICES ASSUME TypeOK, StartsLeft, [Next]_vars PROVE (TypeOK /\ StartsLeft)'
    OBVIOUS
  <2> USE NumberFacts DEF TypeOK, StartsLeft, Revisions
  <2>1. ASSUME NEW j \in Jobs, Edit(j) \/ Deactivate(j) PROVE (TypeOK /\ StartsLeft)'
    <3>1. CASE Edit(j)
      <4>1. rev' \in [Jobs -> 1 .. MaxRevision]
        BY <3>1 DEF Edit
      <4>2. QED
        BY <3>1, <4>1 DEF Edit
    <3>2. CASE Deactivate(j)
      BY <3>2 DEF Deactivate
    <3>3. QED
      BY <2>1, <3>1, <3>2
  <2>2. ASSUME NEW t \in Triggers, Start(t) PROVE (TypeOK /\ StartsLeft)'
    <3>1. /\ MessagesFor(active, ExecutionHash(t, starts'[t])) \subseteq Messages
          /\ starts' = [starts EXCEPT ![t] = @ + 1]
          /\ starts'[t] \in 1 .. MaxStarts[t]
      BY <2>2, StartSends, MessagesForType
    <3>2. starts' \in [Triggers -> Nat] /\ \A u \in Triggers : starts'[u] <= MaxStarts[u]
      BY <3>1
    <3>3. todo' \in [Triggers -> SUBSET Messages]
      BY <2>2, <3>1, StartSends
    <3>4. QED
      BY <2>2, <3>1, <3>2, <3>3 DEF Start
  <2>3. ASSUME NEW t \in Triggers, Send(t) PROVE (TypeOK /\ StartsLeft)'
    BY <2>3 DEF Send, IsNext
  <2>4. ASSUME NEW t \in Triggers, Return(t) \/ Fail(t) PROVE (TypeOK /\ StartsLeft)'
    BY <2>4 DEF Return, Fail
  <2>5. ASSUME NEW m \in Messages, WindowPasses(m) PROVE (TypeOK /\ StartsLeft)'
    BY <2>5 DEF WindowPasses
  <2>6. CASE UNCHANGED vars
    BY <2>6 DEF vars
  <2>7. QED
    BY <2>1, <2>2, <2>3, <2>4, <2>5, <2>6 DEF Next
<1>3. QED
  BY <1>1, <1>2, PTL DEF Spec

\* Every variable keeps its type; no event starts its executor too often.
THEOREM FanOutTypeCorrect == Spec => []TypeOK
  BY StartsInvariant, PTL

\* A send takes the next message off its list and leaves it in the queue.
LEMMA SendFacts ==
  ASSUME TypeOK, NEW t \in Triggers, Send(t)
  PROVE  \E m \in todo[t] :
           /\ m \in Messages /\ copies'[m] \in Nat
           /\ todo' = [todo EXCEPT ![t] = @ \ {m}]
           /\ window' = window \cup {m}
           /\ m \notin window => copies' = [copies EXCEPT ![m] = @ + 1]
           /\ m \in window => copies' = copies
           /\ \A n \in Messages : copies'[n] >= copies[n]
<1>1. PICK m \in todo[t] :
        /\ todo' = [todo EXCEPT ![t] = @ \ {m}]
        /\ window' = window \cup {m}
        /\ copies' = IF m \in window THEN copies ELSE [copies EXCEPT ![m] = @ + 1]
  BY Zenon DEF Send
<1>2. m \in Messages
  BY DEF TypeOK
<1>3. copies'[m] \in Nat /\ \A n \in Messages : copies'[n] >= copies[n]
  BY <1>1, <1>2 DEF TypeOK
<1>4. QED
  BY <1>1, <1>2, <1>3

LEMMA OwnExecutions == Spec => []OwnExecution
<1>1. Init => OwnExecution
  BY DEF Init, OwnExecution
<1>2. TypeOK /\ StartsLeft /\ OwnExecution /\ [Next]_vars => OwnExecution'
  <2> SUFFICES ASSUME TypeOK, StartsLeft, OwnExecution, [Next]_vars PROVE OwnExecution'
    OBVIOUS
  <2> USE DEF TypeOK, OwnExecution
  <2>1. ASSUME NEW j \in Jobs, Edit(j) \/ Deactivate(j) PROVE OwnExecution'
    BY <2>1 DEF Edit, Deactivate
  <2>2. ASSUME NEW t \in Triggers, Start(t) PROVE OwnExecution'
    <3>1. \A m \in todo'[t] : ExecutionOf(m) = ExecutionHash(t, starts'[t])
      BY <2>2, StartSends, MessagesForType
    <3>2. ASSUME NEW u \in Triggers, u # t
          PROVE  todo'[u] = todo[u] /\ starts'[u] = starts[u]
      BY <2>2, <3>2, StartSends
    <3>3. QED
      BY <3>1, <3>2
  <2>3. ASSUME NEW t \in Triggers, Send(t) \/ Return(t) \/ Fail(t) PROVE OwnExecution'
    <3>1. starts' = starts /\ \A u \in Triggers : todo'[u] \subseteq todo[u]
      BY <2>3 DEF Send, Return, Fail
    <3>2. QED
      BY <3>1
  <2>4. CASE UNCHANGED vars
    BY <2>4 DEF vars
  <2>5. ASSUME NEW m \in Messages, WindowPasses(m) PROVE OwnExecution'
    BY <2>5 DEF WindowPasses
  <2>6. QED
    BY <2>1, <2>2, <2>3, <2>4, <2>5 DEF Next
<1>3. QED
  BY <1>1, <1>2, StartsInvariant, PTL DEF Spec

\* An executor that returned has left a message of its own execution in the queue,
\* now or earlier, for every job it was answered with.
THEOREM ListedReachQueue == Spec => []ListedAreEnqueued
<1>1. Init => ProgressInv
  BY DEF Init, ProgressInv
<1>2. TypeOK /\ StartsLeft /\ ProgressInv /\ [Next]_vars => ProgressInv'
  <2> SUFFICES ASSUME TypeOK, StartsLeft, ProgressInv, [Next]_vars PROVE ProgressInv'
    OBVIOUS
  <2> USE DEF TypeOK, ProgressInv, Accounted
  <2>1. ASSUME NEW j \in Jobs, Edit(j) \/ Deactivate(j) PROVE ProgressInv'
    BY <2>1 DEF Edit, Deactivate
  <2>2. ASSUME NEW t \in Triggers, Start(t) PROVE ProgressInv'
    <3>1. /\ UNCHANGED <<window, copies>>
          /\ exec' = [exec EXCEPT ![t] = "sending"]
          /\ listed' = [listed EXCEPT ![t] = active]
      BY <2>2 DEF Start
    <3>2. ASSUME NEW j \in active
          PROVE  \E m \in Messages : /\ JobOf(m) = j /\ m \in todo'[t]
                                     /\ ExecutionOf(m) = ExecutionHash(t, starts'[t])
      BY <2>2, StartSends, MessagesForType
    <3>3. ASSUME NEW u \in Triggers, u # t
          PROVE  todo'[u] = todo[u] /\ starts'[u] = starts[u]
      BY <2>2, <3>3, StartSends
    <3>4. QED
      BY <3>1, <3>2, <3>3
  <2>3. ASSUME NEW t \in Triggers, Send(t) PROVE ProgressInv'
    <3>1. PICK m \in todo[t] :
            /\ m \in Messages /\ copies'[m] \in Nat
            /\ todo' = [todo EXCEPT ![t] = @ \ {m}]
            /\ window' = window \cup {m}
            /\ m \notin window => copies' = [copies EXCEPT ![m] = @ + 1]
            /\ m \in window => copies' = copies
            /\ \A n \in Messages : copies'[n] >= copies[n]
      BY <2>3, SendFacts
    <3>2. copies'[m] > 0 /\ \A n \in Messages : copies[n] > 0 => copies'[n] > 0
      <4>1. CASE m \in window
        BY <3>1, <4>1
      <4>2. CASE m \notin window
        BY <3>1, <4>2
      <4>3. QED
        BY <4>1, <4>2
    <3>3. UNCHANGED <<exec, listed, starts>>
      BY <2>3 DEF Send
    <3>4. exec[t] = "sending"
      BY <2>3 DEF Send
    <3>5. ASSUME NEW u \in Triggers, exec[u] \in {"sending", "done"}, NEW j \in listed[u]
          PROVE  Accounted(j, u)'
      <4>1. PICK n \in Messages :
              /\ JobOf(n) = j /\ ExecutionOf(n) = ExecutionHash(u, starts[u])
              /\ copies[n] > 0 \/ n \in todo[u]
        BY <3>5
      <4>2. copies'[n] > 0 \/ n \in todo'[u]
        BY <3>1, <3>2, <4>1
      <4>3. QED
        BY <3>3, <4>1, <4>2
    <3>6. \A u \in Triggers : todo'[u] \subseteq todo[u]
      BY <3>1
    <3>7. \A n \in window' : copies'[n] > 0
      BY <3>1, <3>2
    <3>8. QED
      BY <3>3, <3>5, <3>6, <3>7
  <2>4. ASSUME NEW t \in Triggers, Return(t) \/ Fail(t) PROVE ProgressInv'
    BY <2>4 DEF Return, Fail
  <2>5. ASSUME NEW m \in Messages, WindowPasses(m) PROVE ProgressInv'
    BY <2>5 DEF WindowPasses
  <2>6. CASE UNCHANGED vars
    BY <2>6 DEF vars
  <2>7. QED
    BY <2>1, <2>2, <2>3, <2>4, <2>5, <2>6 DEF Next
<1>3. TypeOK /\ ProgressInv => ListedAreEnqueued
  BY DEF TypeOK, ProgressInv, Accounted, ListedAreEnqueued
<1>4. QED
  BY <1>1, <1>2, <1>3, StartsInvariant, PTL DEF Spec

-----------------------------------------------------------------------------
LEMMA Freshness == Spec => []FreshInv
<1>1. Init => FreshInv
  BY DEF Init, FreshInv
<1>2. TypeOK /\ StartsLeft /\ OwnExecution /\ FreshInv /\ [Next]_vars => FreshInv'
  <2> SUFFICES ASSUME TypeOK, StartsLeft, OwnExecution, FreshInv, [Next]_vars
               PROVE  FreshInv'
    OBVIOUS
  <2>1. CASE UNCHANGED starts /\ window' \subseteq window
                /\ \A t \in Triggers : todo'[t] \subseteq todo[t]
    BY <2>1, NumberFacts DEF FreshInv
  <2>2. ASSUME NEW j \in Jobs, Edit(j) \/ Deactivate(j) PROVE FreshInv'
    BY <2>1, <2>2 DEF Edit, Deactivate
  <2>3. ASSUME NEW t \in Triggers, Start(t) PROVE FreshInv'
    <3> DEFINE n0 == starts'[t]
    <3>1. /\ starts' = [starts EXCEPT ![t] = @ + 1] /\ window' = window
          /\ \A m \in todo'[t] : ExecutionOf(m) = ExecutionHash(t, n0)
          /\ \A u \in Triggers : u # t => todo'[u] = todo[u]
      <4>1. window' = window
        BY <2>3 DEF Start
      <4>2. QED
        BY <2>3, <4>1, StartSends, MessagesForType DEF TypeOK
    <3>2. n0 = starts[t] + 1 /\ starts[t] \in Nat
      BY <3>1 DEF TypeOK
    <3>3. ASSUME NEW u \in Manual PROVE window' \cap todo'[u] = {}
      <4>1. CASE u = t
        <5>1. ASSUME NEW m \in window, m \in todo'[t] PROVE FALSE
          <6>1. ExecutionOf(m) = <<t, n0>>
            BY <3>1, <4>1, <5>1 DEF ExecutionHash
          <6>2. n0 \in Nat /\ ~(n0 <= starts[t])
            BY <3>2
          <6>3. QED
            BY <4>1, <6>1, <6>2 DEF FreshInv
        <5>2. QED
          BY <3>1, <4>1, <5>1
      <4>2. CASE u # t
        BY <3>1, <4>2, NumberFacts DEF FreshInv
      <4>3. QED
        BY <4>1, <4>2
    <3>4. ASSUME NEW u \in Manual, NEW m \in window', NEW n \in Nat,
                 ExecutionOf(m) = <<u, n>>
          PROVE  n <= starts'[u]
      <4>1. n <= starts[u]
        BY <3>1, <3>4 DEF FreshInv
      <4>2. starts[u] \in Nat /\ starts'[u] \in {starts[u], starts[u] + 1}
        BY <3>1, NumberFacts DEF TypeOK
      <4>3. QED
        BY <4>1, <4>2
    <3>5. QED
      BY <3>3, <3>4 DEF FreshInv
  <2>4. ASSUME NEW t \in Triggers, Send(t) PROVE FreshInv'
    <3>1. PICK m \in todo[t] : /\ todo' = [todo EXCEPT ![t] = @ \ {m}]
                               /\ window' = window \cup {m}
      BY <2>4, SendFacts
    <3>2. starts' = starts /\ ExecutionOf(m) = ExecutionHash(t, starts[t])
      BY <2>4 DEF Send, OwnExecution
    <3>3. ASSUME NEW u \in Manual PROVE window' \cap todo'[u] = {}
      <4>1. u \in Triggers /\ starts[u] \in Nat /\ starts[t] \in Nat
        BY NumberFacts DEF TypeOK
      <4>2. CASE u = t
        BY <3>1, <4>2 DEF TypeOK, FreshInv
      <4>3. CASE u # t
        <5>1. m \notin todo[u]
          BY <3>2, <4>1, <4>3, HashesApart DEF OwnExecution
        <5>2. todo'[u] = todo[u]
          BY <3>1, <4>3 DEF TypeOK
        <5>3. QED
          BY <3>1, <5>1, <5>2 DEF FreshInv
      <4>4. QED
        BY <4>2, <4>3
    <3>4. ASSUME NEW u \in Manual, NEW n \in Nat, ExecutionOf(m) = <<u, n>>
          PROVE  n <= starts[u]
      <4>1. u \in Triggers /\ starts[u] \in Nat /\ starts[t] \in Nat
        BY NumberFacts DEF TypeOK
      <4>2. u = t /\ n = starts[t]
        BY <3>2, <3>4, <4>1 DEF ExecutionHash
      <4>3. QED
        BY <4>1, <4>2
    <3>5. QED
      BY <3>1, <3>2, <3>3, <3>4 DEF FreshInv
  <2>5. ASSUME NEW t \in Triggers, Return(t) \/ Fail(t) PROVE FreshInv'
    <3>1. UNCHANGED <<starts, window>> /\ \A u \in Triggers : todo'[u] \subseteq todo[u]
      BY <2>5 DEF Return, Fail, TypeOK
    <3>2. QED
      BY <2>1, <3>1
  <2>6. ASSUME NEW m \in Messages, WindowPasses(m) PROVE FreshInv'
    BY <2>1, <2>6 DEF WindowPasses
  <2>7. CASE UNCHANGED vars
    BY <2>1, <2>7 DEF vars
  <2>8. QED
    BY <2>2, <2>3, <2>4, <2>5, <2>6, <2>7 DEF Next
<1>3. QED
  BY <1>1, <1>2, StartsInvariant, OwnExecutions, PTL DEF Spec

\* Nothing a manual run sends is dropped as a duplicate, however many runs, failed
\* starts and notifications were before: the uuid of each start is its own.
THEOREM ManualRunsNotDeduplicated == Spec => ManualRunsAreKept
<1> DEFINE Kept ==
      \A t \in Manual :
        exec[t] = "sending" /\ exec'[t] = "sending" /\ todo'[t] # todo[t]
          => copies' # copies
<1>1. TypeOK /\ FreshInv /\ [Next]_vars => [Kept]_vars
  <2> SUFFICES ASSUME TypeOK, FreshInv, Next, NEW t \in Manual,
                      exec[t] = "sending", exec'[t] = "sending", todo'[t] # todo[t]
               PROVE  copies' # copies
    OBVIOUS
  <2>0. t \in Triggers
    BY NumberFacts
  <2> USE <2>0 DEF TypeOK
  <2>1. CASE Send(t)
    <3>1. PICK m \in todo[t] :
            /\ m \in Messages
            /\ m \notin window => copies' = [copies EXCEPT ![m] = @ + 1]
      BY <2>1, SendFacts
    <3>2. m \notin window
      BY DEF FreshInv
    <3>3. copies'[m] = copies[m] + 1 /\ copies[m] \in Nat
      BY <3>1, <3>2
    <3>4. QED
      BY <3>3
  <2>2. Send(t)
    <3>1. ASSUME NEW j \in Jobs, Edit(j) \/ Deactivate(j) PROVE FALSE
      BY <3>1 DEF Edit, Deactivate
    <3>2. ASSUME NEW u \in Triggers, Start(u) \/ Return(u) \/ Fail(u) PROVE FALSE
      BY <3>2 DEF Start, Return, Fail
    <3>3. ASSUME NEW u \in Triggers, Send(u), u # t PROVE FALSE
      BY <3>3 DEF Send
    <3>4. ASSUME NEW m \in Messages, WindowPasses(m) PROVE FALSE
      BY <3>4 DEF WindowPasses
    <3>5. QED
      BY <3>1, <3>2, <3>3, <3>4 DEF Next
  <2>3. QED
    BY <2>1, <2>2
<1>2. QED
  BY <1>1, FanOutTypeCorrect, Freshness, PTL DEF Spec, ManualRunsAreKept
=============================================================================
