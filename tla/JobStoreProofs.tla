---------------------------- MODULE JobStoreProofs ----------------------------
(***************************************************************************)
(* Proofs about JobStore, for any clients, versions, queries, severities   *)
(* and ages.                                                               *)
(***************************************************************************)
EXTENDS JobStore, TLAPS

\* A DELETE that has locked its rows has locked every version there is.
DeletesAll ==
  \A c \in Clients : pc[c] \in {"purge", "erase"} => versions \subseteq doomed[c]

LEMMA Constants ==
  /\ Unset \notin Ages /\ Unset = 0
  /\ Ages \subseteq Nat
  /\ MaxVersions \in Nat \ {0}
  /\ Ids = {i \in Nat : 1 <= i /\ i <= MaxVersions}
  /\ 1 \in Ids
  /\ Nobody \notin Clients
  BY AgesAssumption, MaxVersionsAssumption, NobodyAssumption DEF Ids, Unset

\* What the clients and their requests start with has its type.
LEMMA InitialTypes ==
  /\ Blank \in Row /\ NoJob \in JobIn /\ NoPatch \in Patch
  /\ NoFlags \in [Ids -> BOOLEAN] /\ NoView \in View
  BY InputsAssumption, AgesAssumption
  DEF Blank, Row, NoJob, JobIn, NoPatch, Patch, NoFlags, NoView, View

\* Next as the disjunction of its actions.
LEMMA NextCases ==
  ASSUME Next
  PROVE  \E c \in Clients :
    \/ Get(c) \/ Create(c) \/ OutOfIds(c) \/ Activate(c) \/ ClientDies(c)
    \/ Read(c) \/ ReadAll(c) \/ Drop(c) \/ Make(c) \/ Commit(c) \/ CommitFails(c)
    \/ OperatorDelete(c) \/ DeleteRows(c) \/ Purge(c) \/ Erase(c)
    \/ DeadlockVictim(c) \/ StatementFails(c)
    \/ \E j \in JobIn : Ensure(c, j)
    \/ \E i \in Ids, p \in Patch : OperatorPatch(c, i, p)
  BY DEF Next, Serve

\* The end of a call leaves its client's variables with their types.
LEMMA ReturnType ==
  ASSUME TypeOK, NEW c \in Clients, NEW p \in Calls, Return(c, p)
  PROVE  /\ pc' \in [Clients -> Calls \cup Statements]
         /\ want' \in [Clients -> JobIn]
         /\ target' \in [Clients -> Ids]
         /\ patch' \in [Clients -> Patch]
         /\ seen' \in [Clients -> Row]
         /\ flags' \in [Clients -> [Ids -> BOOLEAN]]
  BY Constants, InitialTypes DEF TypeOK, Return, Goto

\* Locks are released as they were taken.
LEMMA ReleaseType ==
  ASSUME TypeOK, NEW c \in Clients, Release(c)
  PROVE  viewLock' \in Clients \cup {Nobody} /\ doomed' \in [Clients -> SUBSET Ids]
  BY DEF TypeOK, Release

\* What a commit writes is a row, and its views have a definition.
LEMMA WrittenType ==
  ASSUME TypeOK, NEW c \in Clients
  PROVE  /\ Patched(seen[c], patch[c]) \in Row
         /\ NewView(c) \in View
         /\ \A i \in Ids : Written(c, i) \in Row
<1> USE Constants DEF TypeOK
<1>1. seen[c] \in Row /\ patch[c] \in Patch
  OBVIOUS
<1>2. Patched(seen[c], patch[c]) \in Row
  BY <1>1 DEF Patched, Row, Patch
<1>3. NewView(c) \in View
  BY <1>1, <1>2 DEF NewView, View, Row
<1>4. ASSUME NEW i \in Ids PROVE Written(c, i) \in Row
  BY <1>1, <1>2 DEF Written, Row, Patch
<1>5. QED
  BY <1>2, <1>3, <1>4

-----------------------------------------------------------------------------
\* Every variable keeps its type, whatever requests overlap.
THEOREM JobStoreTypeCorrect == Spec => []TypeOK
<1>1. Init => TypeOK
  BY Constants, InitialTypes DEF Init, TypeOK, Calls, Statements
<1>2. TypeOK /\ [Next]_vars => TypeOK'
  <2> SUFFICES ASSUME TypeOK, [Next]_vars PROVE TypeOK'
    OBVIOUS
  <2>1. CASE UNCHANGED vars
    BY <2>1 DEF vars, rowVars, requestVars, TypeOK
  <2>2. ASSUME NEW c \in Clients, RollBack(c) PROVE TypeOK'
    BY <2>2, ReturnType, ReleaseType DEF RollBack, rowVars, TypeOK, Calls
  <2> USE Constants DEF TypeOK, Calls, Statements, Goto, Request
  <2>3. ASSUME NEW c \in Clients, NEW j \in JobIn, Ensure(c, j) PROVE TypeOK'
    BY <2>3 DEF Ensure, rowVars, requestVars
  <2>4. ASSUME NEW c \in Clients, Get(c) PROVE TypeOK'
    <3>1. UpdateOf(want[c]) \in Patch
      BY DEF UpdateOf, Patch, JobIn
    <3>2. Active \subseteq Ids
      BY DEF Active
    <3>3. QED
      <4>1. CASE Goto(c, "create") /\ UNCHANGED <<target, patch>>
        BY <2>4, <4>1 DEF Get, rowVars
      <4>2. CASE Goto(c, "done") /\ UNCHANGED <<target, patch>>
        BY <2>4, <4>2 DEF Get, rowVars
      <4>3. ASSUME NEW i \in Active, Goto(c, "read"), Request(c, i, UpdateOf(want[c]))
            PROVE  TypeOK'
        BY <2>4, <3>1, <3>2, <4>3 DEF Get, rowVars
      <4>4. QED
        BY <2>4, <4>1, <4>2, <4>3 DEF Get
  <2>5. ASSUME NEW c \in Clients, Create(c) PROVE TypeOK'
    <3>1. CASE want[c].age <= AgeLimit
      <4>1. StoredAge(want[c]) \in Ages
        BY AgesAssumption DEF StoredAge, JobIn
      <4>2. [query |-> want[c].query, severity |-> want[c].severity,
             age |-> StoredAge(want[c]), active |-> FALSE] \in Row
        BY <4>1 DEF Row, JobIn
      <4>3. [active |-> "on", age |-> Unset] \in Patch
        BY DEF Patch
      <4>4. QED
        <5>1. nextId \in Ids /\ nextId + 1 \in 1 .. MaxVersions + 1
          BY <2>5 DEF Create
        <5> DEFINE row == [query |-> want[c].query, severity |-> want[c].severity,
                           age |-> StoredAge(want[c]), active |-> FALSE]
                   on == [active |-> "on", age |-> Unset]
        <5>2. /\ versions' = versions \cup {nextId}
              /\ job' = [job EXCEPT ![nextId] = row]
              /\ nextId' = nextId + 1
              /\ pc' = [pc EXCEPT ![c] = "activate"]
              /\ target' = [target EXCEPT ![c] = nextId]
              /\ patch' = [patch EXCEPT ![c] = on]
              /\ UNCHANGED <<want, seen, flags, view, viewLock, doomed>>
          BY <2>5, <3>1 DEF Create
        <5>3. row \in Row /\ on \in Patch
          BY <4>2, <4>3
        <5> HIDE DEF row, on
        <5>4. QED
          BY <5>1, <5>2, <5>3
    <3>2. CASE ~(want[c].age <= AgeLimit)
      BY <2>5, <3>2, ReturnType DEF Create, rowVars
    <3>3. QED
      BY <3>1, <3>2
  <2>6. ASSUME NEW c \in Clients, OutOfIds(c) \/ ClientDies(c) PROVE TypeOK'
    BY <2>6, ReturnType DEF OutOfIds, ClientDies, rowVars
  <2>7. ASSUME NEW c \in Clients, Activate(c) \/ OperatorDelete(c) PROVE TypeOK'
    <3>1. CASE Activate(c)
      BY <3>1 DEF Activate, rowVars, requestVars
    <3>2. CASE OperatorDelete(c)
      BY <3>2, InitialTypes DEF OperatorDelete, rowVars, requestVars
    <3>3. QED
      BY <2>7, <3>1, <3>2
  <2>8. ASSUME NEW c \in Clients, NEW i \in Ids, NEW p \in Patch, OperatorPatch(c, i, p)
        PROVE  TypeOK'
    BY <2>8, InitialTypes DEF OperatorPatch, rowVars
  <2>9. ASSUME NEW c \in Clients, Read(c) PROVE TypeOK'
    <3>1. CASE target[c] \in versions
      <4>1. job[target[c]] \in Row
        OBVIOUS
      <4>2. QED
        BY <2>9, <3>1, <4>1 DEF Read, rowVars
    <3>2. CASE target[c] \notin versions
      BY <2>9, <3>2, ReturnType DEF Read, rowVars
    <3>3. QED
      BY <3>1, <3>2
  <2>10. ASSUME NEW c \in Clients, ReadAll(c) PROVE TypeOK'
    <3>1. [i \in Ids |-> i \in Active \ {target[c]}] \in [Ids -> BOOLEAN]
      OBVIOUS
    <3>2. flags' \in [Clients -> [Ids -> BOOLEAN]]
      BY <2>10, <3>1 DEF ReadAll
    <3>3. QED
      BY <2>10, <3>2 DEF ReadAll, rowVars
  <2>11. ASSUME NEW c \in Clients, Drop(c) \/ Purge(c) PROVE TypeOK'
    BY <2>11 DEF Drop, Purge, DropView, rowVars, requestVars
  <2>12. ASSUME NEW c \in Clients, Make(c) PROVE TypeOK'
    BY <2>12, ReturnType DEF Make, rowVars, requestVars
  <2>13. ASSUME NEW c \in Clients, Commit(c) PROVE TypeOK'
    <3>1. job' \in [Ids -> Row]
      <4>1. \A i \in Ids : Written(c, i) \in Row
        BY WrittenType
      <4>2. ASSUME NEW i \in Ids
            PROVE  job[i] \in Row /\ [job[i] EXCEPT !.active = FALSE] \in Row
        <5>1. job[i] \in Row
          OBVIOUS
        <5>2. QED
          BY <5>1 DEF Row
      <4>3. QED
        BY <2>13, <4>1, <4>2 DEF Commit
    <3>2. view' \in View
      BY <2>13, WrittenType DEF Commit
    <3>3. QED
      BY <2>13, <3>1, <3>2, ReturnType, ReleaseType DEF Commit
  <2>14. ASSUME NEW c \in Clients, DeleteRows(c) PROVE TypeOK'
    BY <2>14 DEF DeleteRows, rowVars, requestVars
  <2>15. ASSUME NEW c \in Clients, Erase(c) PROVE TypeOK'
    BY <2>15, InitialTypes, ReturnType, ReleaseType DEF Erase
  <2>16. ASSUME NEW c \in Clients,
                CommitFails(c) \/ DeadlockVictim(c) \/ StatementFails(c)
         PROVE  TypeOK'
    BY <2>2, <2>16 DEF CommitFails, DeadlockVictim, StatementFails
  <2>17. QED
    BY <2>1, <2>3, <2>4, <2>5, <2>6, <2>7, <2>8, <2>9, <2>10, <2>11, <2>12,
       <2>13, <2>14, <2>15, <2>16, NextCases
<1>3. QED
  BY <1>1, <1>2, PTL DEF Spec

-----------------------------------------------------------------------------
\* A step other than a commit or the end of a DELETE adds inactive rows at most.
LEMMA OtherStepsKeepActive ==
  ASSUME TypeOK, [Next]_vars,
         \A c \in Clients : ~Commit(c) /\ ~Erase(c)
  PROVE  Active' \subseteq Active /\ view' = view
<1>1. CASE UNCHANGED <<rowVars, view>>
  BY <1>1 DEF rowVars, Active
<1>2. ASSUME NEW c \in Clients, Create(c) PROVE Active' \subseteq Active /\ view' = view
  <2>1. CASE UNCHANGED rowVars
    BY <1>2, <2>1 DEF Create, rowVars, Active
  <2>2. CASE want[c].age <= AgeLimit
    <3> DEFINE row == [query |-> want[c].query, severity |-> want[c].severity,
                       age |-> StoredAge(want[c]), active |-> FALSE]
    <3>1. /\ versions' = versions \cup {nextId}
          /\ job' = [job EXCEPT ![nextId] = row]
          /\ nextId \in Ids /\ view' = view
      BY <1>2, <2>2 DEF Create
    <3>2. ~row.active
      OBVIOUS
    <3> HIDE DEF row
    <3>3. QED
      BY <3>1, <3>2 DEF Active, TypeOK
  <2>3. QED
    BY <1>2, <2>1, <2>2 DEF Create
<1>3. QED
  <2>1. CASE UNCHANGED vars
    BY <1>1, <2>1 DEF vars, rowVars
  <2>2. ASSUME NEW c \in Clients, RollBack(c) PROVE UNCHANGED <<rowVars, view>>
    BY <2>2 DEF RollBack
  <2>3. ASSUME NEW c \in Clients, NEW j \in JobIn, Ensure(c, j)
        PROVE  UNCHANGED <<rowVars, view>>
    BY <2>3 DEF Ensure
  <2>4. ASSUME NEW c \in Clients, NEW i \in Ids, NEW p \in Patch, OperatorPatch(c, i, p)
        PROVE  UNCHANGED <<rowVars, view>>
    BY <2>4 DEF OperatorPatch
  <2>5. ASSUME NEW c \in Clients,
               \/ Get(c) \/ OutOfIds(c) \/ Activate(c) \/ ClientDies(c)
               \/ Read(c) \/ ReadAll(c) \/ OperatorDelete(c)
        PROVE  UNCHANGED <<rowVars, view>>
    BY <2>5 DEF Get, OutOfIds, Activate, ClientDies, Read, ReadAll, OperatorDelete
  <2>6. ASSUME NEW c \in Clients, Drop(c) \/ Purge(c) \/ Make(c) \/ DeleteRows(c)
        PROVE  UNCHANGED <<rowVars, view>>
    BY <2>6 DEF Drop, Purge, DropView, Make, DeleteRows
  <2>7. ASSUME NEW c \in Clients,
               CommitFails(c) \/ DeadlockVictim(c) \/ StatementFails(c)
        PROVE  UNCHANGED <<rowVars, view>>
    BY <2>2, <2>7 DEF CommitFails, DeadlockVictim, StatementFails
  <2>8. QED
    BY <1>1, <1>2, <2>1, <2>3, <2>4, <2>5, <2>6, <2>7, NextCases

\* A commit that turns its version on leaves no other active, since the index
\* refuses it otherwise; any other commit turns nothing on.
LEMMA CommitActive ==
  ASSUME TypeOK, NEW c \in Clients, Commit(c)
  PROVE  \/ Active' \subseteq {target[c]} /\ patch[c].active = "on"
         \/ Active' \subseteq Active
<1> USE DEF TypeOK
<1>1. /\ versions' = versions /\ target[c] \in Ids
      /\ job' = [i \in Ids |->
           IF i = target[c] /\ i \in versions THEN Written(c, i)
           ELSE IF i \in Off(c) THEN [job[i] EXCEPT !.active = FALSE] ELSE job[i]]
      /\ ~IndexRefuses(c)
  BY DEF Commit
<1>2. \A i \in versions \ {target[c]} :
        job'[i] = IF i \in Off(c) THEN [job[i] EXCEPT !.active = FALSE] ELSE job[i]
  BY <1>1
<1>3. ASSUME NEW i \in versions \ {target[c]}, i \in Active'
      PROVE  i \in Active /\ i \notin Off(c)
  <2>1. job'[i].active
    BY <1>3 DEF Active
  <2>2. job[i] \in Row
    OBVIOUS
  <2>3. i \notin Off(c)
    BY <1>2, <2>1, <2>2 DEF Row
  <2>4. QED
    BY <1>2, <2>1, <2>3 DEF Active
<1>4. CASE TurnsOn(c)
  <2>1. Active \ {target[c]} \subseteq Off(c)
    BY <1>1, <1>4 DEF IndexRefuses
  <2>2. Active' \subseteq {target[c]}
    BY <1>1, <1>3, <2>1 DEF Active
  <2>3. QED
    BY <1>4, <2>2 DEF TurnsOn
<1>5. CASE ~TurnsOn(c)
  <2>1. ASSUME target[c] \in Active' PROVE target[c] \in Active
    <3>1. target[c] \in versions /\ job'[target[c]] = Written(c, target[c])
      BY <1>1, <2>1 DEF Active
    <3>2. Written(c, target[c]).active
      BY <2>1, <3>1 DEF Active
    <3>3. /\ seen[c] \in Row /\ patch[c] \in Patch /\ job[target[c]] \in Row
      BY <1>1
    <3>4. Patched(seen[c], patch[c]).active =
            IF patch[c].active = "unset" THEN seen[c].active ELSE patch[c].active = "on"
      BY <3>3 DEF Patched, Row
    <3>5. Written(c, target[c]).active =
            IF Patched(seen[c], patch[c]).active = seen[c].active
            THEN job[target[c]].active ELSE ~seen[c].active
      BY <3>3 DEF Written, Row
    <3>6. job[target[c]].active
      BY <1>5, <3>2, <3>3, <3>4, <3>5 DEF TurnsOn, Row, Patch
    <3>7. QED
      BY <3>1, <3>6 DEF Active
  <2>2. QED
    BY <1>1, <1>3, <2>1 DEF Active
<1>6. QED
  BY <1>4, <1>5

\* The end of a DELETE turns nothing on.
LEMMA EraseActive ==
  ASSUME TypeOK, NEW c \in Clients, Erase(c)
  PROVE  Active' = Active \ doomed[c]
  BY DEF Erase, Active, TypeOK

-----------------------------------------------------------------------------
\* get_active's assertion: whatever activations, updates and deletes overlap, a
\* job never has two active versions.
THEOREM OneActive == Spec => []AtMostOneActive
<1>1. Init => AtMostOneActive
  BY DEF Init, AtMostOneActive, Active
<1>2. TypeOK /\ AtMostOneActive /\ [Next]_vars => AtMostOneActive'
  <2> SUFFICES ASSUME TypeOK, AtMostOneActive, [Next]_vars PROVE AtMostOneActive'
    OBVIOUS
  <2>1. ASSUME NEW c \in Clients, Commit(c) PROVE AtMostOneActive'
    BY <2>1, CommitActive DEF AtMostOneActive
  <2>2. ASSUME NEW c \in Clients, Erase(c) PROVE AtMostOneActive'
    BY <2>2, EraseActive DEF AtMostOneActive
  <2>3. QED
    BY <2>1, <2>2, OtherStepsKeepActive DEF AtMostOneActive
<1>3. QED
  BY <1>1, <1>2, JobStoreTypeCorrect, PTL DEF Spec

-----------------------------------------------------------------------------
\* A version is added only while no DELETE is served.
LEMMA DeletesInvariant == ~OverlapCreate => (Spec => []DeletesAll)
<1> SUFFICES ASSUME ~OverlapCreate PROVE Spec => []DeletesAll
  OBVIOUS
<1>1. Init => DeletesAll
  BY DEF Init, DeletesAll
<1>2. TypeOK /\ DeletesAll /\ [Next]_vars => DeletesAll'
  <2> SUFFICES ASSUME TypeOK, DeletesAll, [Next]_vars PROVE DeletesAll'
    OBVIOUS
  <2> USE DEF DeletesAll, TypeOK, Goto
  <2>1. CASE UNCHANGED vars
    BY <2>1 DEF vars, rowVars
  <2>2. ASSUME NEW c \in Clients, RollBack(c) PROVE DeletesAll'
    BY <2>2 DEF RollBack, Release, Return, rowVars
  <2>3. ASSUME NEW c \in Clients, NEW j \in JobIn, Ensure(c, j) PROVE DeletesAll'
    BY <2>3 DEF Ensure, rowVars
  <2>4. ASSUME NEW c \in Clients, NEW i \in Ids, NEW p \in Patch, OperatorPatch(c, i, p)
        PROVE  DeletesAll'
    BY <2>4 DEF OperatorPatch, rowVars
  <2>5. ASSUME NEW c \in Clients, Get(c) \/ Activate(c) \/ OperatorDelete(c)
        PROVE  DeletesAll'
    BY <2>5 DEF Get, Activate, OperatorDelete, rowVars
  <2>6. ASSUME NEW c \in Clients, Create(c) PROVE DeletesAll'
    <3>1. \A d \in Clients : pc[d] \notin {"purge", "erase"}
      BY <2>6 DEF Create
    <3>2. \A d \in Clients : pc'[d] \notin {"purge", "erase"}
      BY <2>6, <3>1 DEF Create, Return
    <3>3. QED
      BY <3>2
  <2>7. ASSUME NEW c \in Clients, OutOfIds(c) \/ ClientDies(c) PROVE DeletesAll'
    BY <2>7 DEF OutOfIds, ClientDies, Return, rowVars
  <2>8. ASSUME NEW c \in Clients, Read(c) \/ ReadAll(c) \/ Make(c) PROVE DeletesAll'
    BY <2>8 DEF Read, ReadAll, Make, Return, rowVars
  <2>9. ASSUME NEW c \in Clients, Drop(c) \/ Purge(c) PROVE DeletesAll'
    BY <2>9 DEF Drop, Purge, DropView, rowVars
  <2>10. ASSUME NEW c \in Clients, Commit(c) PROVE DeletesAll'
    BY <2>10 DEF Commit, Release, Return
  <2>11. ASSUME NEW c \in Clients, DeleteRows(c) PROVE DeletesAll'
    BY <2>11 DEF DeleteRows, rowVars
  <2>12. ASSUME NEW c \in Clients, Erase(c) PROVE DeletesAll'
    BY <2>12 DEF Erase, Release, Return
  <2>13. ASSUME NEW c \in Clients,
                CommitFails(c) \/ DeadlockVictim(c) \/ StatementFails(c)
         PROVE  DeletesAll'
    BY <2>2, <2>13 DEF CommitFails, DeadlockVictim, StatementFails
  <2>14. QED
    BY <2>1, <2>3, <2>4, <2>5, <2>6, <2>7, <2>8, <2>9, <2>10, <2>11, <2>12,
       <2>13, NextCases
<1>3. QED
  BY <1>1, <1>2, JobStoreTypeCorrect, PTL DEF Spec

\* An active version has its views, as long as no version is created while a
\* DELETE is served.
THEOREM ActiveIsPublished == ~OverlapCreate => (Spec => []ActiveHasViews)
<1> SUFFICES ASSUME ~OverlapCreate PROVE Spec => []ActiveHasViews
  OBVIOUS
<1>1. Init => ActiveHasViews
  BY DEF Init, ActiveHasViews, Active
<1>2. TypeOK /\ DeletesAll /\ ActiveHasViews /\ [Next]_vars => ActiveHasViews'
  <2> SUFFICES ASSUME TypeOK, DeletesAll, ActiveHasViews, [Next]_vars
               PROVE  ActiveHasViews'
    OBVIOUS
  <2>1. ASSUME NEW c \in Clients, Commit(c) PROVE ActiveHasViews'
    <3>1. CASE patch[c].active = "on"
      <4>1. view' = [query |-> seen[c].query,
                     age |-> Patched(seen[c], patch[c]).age]
        BY <2>1, <3>1 DEF Commit, NewView
      <4>2. Patched(seen[c], patch[c]).age \in Ages
        BY WrittenType DEF Row
      <4>3. view' # NoView
        BY <4>1, <4>2, Constants DEF NoView
      <4>4. QED
        BY <4>3 DEF ActiveHasViews
    <3>2. CASE patch[c].active # "on"
      <4>1. Active' \subseteq Active
        BY <2>1, <3>2, CommitActive
      <4>2. view' = view
        BY <2>1, <3>2 DEF Commit, NewView
      <4>3. QED
        BY <4>1, <4>2 DEF ActiveHasViews
    <3>3. QED
      BY <3>1, <3>2
  <2>2. ASSUME NEW c \in Clients, Erase(c) PROVE ActiveHasViews'
    <3>1. versions \subseteq doomed[c]
      BY <2>2 DEF Erase, DeletesAll
    <3>2. Active' = {}
      BY <2>2, <3>1, EraseActive DEF Active
    <3>3. QED
      BY <3>2 DEF ActiveHasViews
  <2>3. QED
    BY <2>1, <2>2, OtherStepsKeepActive DEF ActiveHasViews
<1>3. QED
  BY <1>1, <1>2, DeletesInvariant, JobStoreTypeCorrect, PTL DEF Spec

-----------------------------------------------------------------------------
(* JobStore implements PublishedJob                                        *)

\* An activation is under way.
On(c) == patch[c].active = "on"

\* A PATCH has read its version.
Held(c) == pc[c] \in {"readAll", "drop", "make", "flush"}

\* A version is activated once, by the client that created it.
Own(c) ==
  /\ pc[c] \in {"activate", "read"} \/ Held(c)
  /\ target[c] < nextId
  /\ ~job[target[c]].active
  /\ \A d \in Clients \ {c} : On(d) => target[d] # target[c]
  /\ Held(c) => ~seen[c].active
OwnInv ==
  /\ \A i \in versions : i < nextId
  /\ \A c \in Clients : On(c) => Own(c)

\* The query of a version never changes, and no id is used again.
SeenInv ==
  \A c \in Clients : Held(c) =>
    /\ target[c] < nextId
    /\ target[c] \in versions => seen[c].query = job[target[c]].query

\* A DELETE that saw no view keeps seeing none, since every version is locked.
EraseInv ==
  \A c \in Clients : pc[c] = "erase" /\ view # NoView => viewLock = c

\* What a commit does to the version it was sent for.
LEMMA CommitTarget ==
  ASSUME TypeOK, NEW c \in Clients, Commit(c)
  PROVE  /\ \A i \in Ids : job'[i].query = job[i].query
         /\ \A i \in Ids \ {target[c]} : job'[i].active => job[i].active
         /\ ~On(c) => \A i \in Ids : job'[i].active => job[i].active
<1> USE DEF TypeOK
<1>1. /\ job' = [i \in Ids |->
           IF i = target[c] /\ i \in versions THEN Written(c, i)
           ELSE IF i \in Off(c) THEN [job[i] EXCEPT !.active = FALSE] ELSE job[i]]
      /\ target[c] \in Ids /\ seen[c] \in Row /\ patch[c] \in Patch
  BY DEF Commit
<1>2. \A i \in Ids : job[i] \in Row
  OBVIOUS
<1>3. ASSUME NEW i \in Ids
      PROVE  /\ Written(c, i).query = job[i].query
             /\ ~On(c) /\ Written(c, i).active => job[i].active
  <2>1. Patched(seen[c], patch[c]).active =
          IF patch[c].active = "unset" THEN seen[c].active ELSE patch[c].active = "on"
    BY <1>1 DEF Patched, Row
  <2>2. /\ Written(c, i).query = job[i].query
        /\ Written(c, i).active =
             IF Patched(seen[c], patch[c]).active = seen[c].active
             THEN job[i].active ELSE ~seen[c].active
    BY <1>2 DEF Written, Row
  <2>3. seen[c].active \in BOOLEAN /\ job[i].active \in BOOLEAN
    BY <1>1, <1>2 DEF Row
  <2>4. QED
    BY <2>1, <2>2, <2>3 DEF On
<1>4. ASSUME NEW i \in Ids
      PROVE  /\ [job[i] EXCEPT !.active = FALSE].query = job[i].query
             /\ ~[job[i] EXCEPT !.active = FALSE].active
  BY <1>2 DEF Row
<1>5. ASSUME NEW i \in Ids
      PROVE  \/ i = target[c] /\ job'[i] = Written(c, i)
             \/ job'[i] = [job[i] EXCEPT !.active = FALSE]
             \/ job'[i] = job[i]
  BY <1>1
<1>6. QED
  BY <1>3, <1>4, <1>5

\* The end of a call leaves nothing of its request behind.
LEMMA Returned ==
  ASSUME TypeOK, NEW c \in Clients, NEW p \in Calls, Return(c, p)
  PROVE  /\ pc'[c] = p /\ patch'[c] = NoPatch
         /\ \A d \in Clients \ {c} : /\ pc'[d] = pc[d] /\ target'[d] = target[d]
                                     /\ patch'[d] = patch[d] /\ seen'[d] = seen[d]
  BY DEF Return, Goto, TypeOK

LEMMA OwnNext ==
  ASSUME ~Reactivate, TypeOK, OwnInv, [Next]_vars
  PROVE  OwnInv'
<1> USE DEF TypeOK
\* A client that goes on with its request keeps what it has.
<1>1. ASSUME NEW c \in Clients, UNCHANGED <<rowVars, target, patch>>,
             \A d \in Clients \ {c} : pc'[d] = pc[d] /\ seen'[d] = seen[d],
             On(c) => pc'[c] \in {"activate", "read"} \/ (Held(c)' /\ ~seen'[c].active)
      PROVE  OwnInv'
  <2>1. ASSUME NEW d \in Clients, On(d)' PROVE Own(d)'
    <3>1. On(d) /\ Own(d)
      BY <1>1, <2>1 DEF OwnInv, On
    <3>2. CASE d = c
      BY <1>1, <3>1, <3>2 DEF Own, On, Held, rowVars
    <3>3. CASE d # c
      BY <1>1, <3>1, <3>3 DEF Own, On, Held, rowVars
    <3>4. QED
      BY <3>2, <3>3
  <2>2. QED
    BY <1>1, <2>1 DEF OwnInv, rowVars
\* A client that ends its request or begins one that activates nothing.
<1>2. ASSUME NEW c \in Clients, UNCHANGED rowVars, ~On(c)',
             \A d \in Clients \ {c} : /\ pc'[d] = pc[d] /\ seen'[d] = seen[d]
                                      /\ target'[d] = target[d] /\ patch'[d] = patch[d]
      PROVE  OwnInv'
  <2>1. ASSUME NEW d \in Clients, On(d)' PROVE Own(d)'
    <3>1. d # c /\ On(d) /\ Own(d)
      BY <1>2, <2>1 DEF OwnInv, On
    <3>2. \A e \in Clients : On(e)' => On(e) /\ target'[e] = target[e]
      BY <1>2 DEF On
    <3>3. QED
      BY <1>2, <3>1, <3>2 DEF Own, Held, rowVars
  <2>2. QED
    BY <1>2, <2>1 DEF OwnInv, rowVars
<1>3. ASSUME NEW c \in Clients, NEW p \in Calls, Return(c, p), UNCHANGED rowVars
      PROVE  OwnInv'
  <2>1. ~On(c)'
    BY <1>3, Returned DEF On, NoPatch
  <2>2. QED
    BY <1>2, <1>3, <2>1, Returned
<1>4. CASE UNCHANGED vars
  <2>1. \A c \in Clients : On(c)' = On(c) /\ Own(c)' = Own(c)
    BY <1>4 DEF vars, rowVars, requestVars, On, Own, Held
  <2>2. QED
    BY <1>4, <2>1 DEF OwnInv, vars, rowVars
<1>5. ASSUME NEW c \in Clients, NEW j \in JobIn, Ensure(c, j) PROVE OwnInv'
  <2>1. ~On(c)
    BY <1>5 DEF Ensure, OwnInv, Own, Held
  <2>2. QED
    BY <1>1, <1>5, <2>1 DEF Ensure, Goto, requestVars
<1>6. ASSUME NEW c \in Clients, Get(c) PROVE OwnInv'
  <2>1. ~On(c)
    BY <1>6 DEF Get, OwnInv, Own, Held
  <2>2. \A d \in Clients \ {c} : /\ pc'[d] = pc[d] /\ seen'[d] = seen[d]
                                 /\ target'[d] = target[d] /\ patch'[d] = patch[d]
    BY <1>6 DEF Get, Goto, Request
  <2>3. ~On(c)'
    BY <1>6, <2>1 DEF Get, Goto, Request, UpdateOf, On
  <2>4. QED
    BY <1>2, <1>6, <2>2, <2>3 DEF Get
<1>7. ASSUME NEW c \in Clients, Create(c) PROVE OwnInv'
  <2>1. CASE want[c].age <= AgeLimit
    <3> DEFINE row == [query |-> want[c].query, severity |-> want[c].severity,
                       age |-> StoredAge(want[c]), active |-> FALSE]
               on == [active |-> "on", age |-> Unset]
    <3>1. /\ nextId \in Ids
          /\ versions' = versions \cup {nextId}
          /\ job' = [job EXCEPT ![nextId] = row]
          /\ nextId' = nextId + 1
          /\ pc' = [pc EXCEPT ![c] = "activate"]
          /\ target' = [target EXCEPT ![c] = nextId]
          /\ patch' = [patch EXCEPT ![c] = on]
          /\ UNCHANGED <<want, seen, flags, view, viewLock, doomed>>
      BY <1>7, <2>1 DEF Create, Goto, Request
    <3>2. row.active = FALSE /\ on.active = "on"
      OBVIOUS
    <3> HIDE DEF row, on
    <3>3. ~On(c)
      BY <1>7 DEF Create, OwnInv, Own, Held
    <3>4. Own(c)'
      <4>1. pc'[c] = "activate" /\ target'[c] = nextId /\ job'[nextId].active = FALSE
        BY <3>1, <3>2
      <4>2. nextId < nextId'
        BY <3>1
      <4>3. ASSUME NEW d \in Clients \ {c}, On(d)' PROVE target'[d] # nextId
        BY <3>1, <4>3 DEF On, OwnInv, Own
      <4>4. QED
        BY <4>1, <4>2, <4>3 DEF Own, Held
    <3>5. ASSUME NEW d \in Clients \ {c}, On(d)' PROVE Own(d)'
      <4>1. On(d) /\ Own(d) /\ target'[d] = target[d] /\ pc'[d] = pc[d] /\ seen'[d] = seen[d]
        BY <3>1, <3>5 DEF On, OwnInv
      <4>2. target[d] < nextId /\ target[d] \in Ids
        BY <4>1 DEF Own
      <4>3. job'[target[d]] = job[target[d]] /\ target[d] < nextId'
        BY <3>1, <4>2, Constants
      <4>4. \A e \in Clients \ {d} : On(e)' => target'[e] # target[d]
        BY <3>1, <4>1, <4>2 DEF On, Own
      <4>5. QED
        BY <4>1, <4>3, <4>4 DEF Own, Held
    <3>6. \A i \in versions' : i < nextId'
      BY <3>1, Constants DEF OwnInv
    <3>7. QED
      BY <3>4, <3>5, <3>6 DEF OwnInv
  <2>2. CASE ~(want[c].age <= AgeLimit)
    BY <1>3, <1>7, <2>2 DEF Create, Calls
  <2>3. QED
    BY <2>1, <2>2
<1>8. ASSUME NEW c \in Clients, OutOfIds(c) \/ ClientDies(c) PROVE OwnInv'
  BY <1>3, <1>8 DEF OutOfIds, ClientDies, Calls
<1>9. ASSUME NEW c \in Clients, Activate(c) PROVE OwnInv'
  BY <1>1, <1>9 DEF Activate, Goto, requestVars
<1>10. ASSUME NEW c \in Clients, OperatorDelete(c) \/ DeleteRows(c) \/ Purge(c) PROVE OwnInv'
  <2>1. ~On(c)
    BY <1>10 DEF OperatorDelete, DeleteRows, Purge, OwnInv, Own, Held
  <2>2. QED
    BY <1>1, <1>10, <2>1 DEF OperatorDelete, DeleteRows, Purge, DropView, Goto, requestVars
\* Operators activate nothing.
<1>11. ASSUME NEW c \in Clients, NEW i \in Ids, NEW p \in Patch, OperatorPatch(c, i, p)
       PROVE  OwnInv'
  <2>1. ~On(c)'
    BY <1>11 DEF OperatorPatch, Request, On
  <2>2. QED
    BY <1>2, <1>11, <2>1 DEF OperatorPatch, Request, Goto
<1>12. ASSUME NEW c \in Clients, Read(c) PROVE OwnInv'
  <2>1. CASE target[c] \in versions
    <3>1. On(c) => pc'[c] = "readAll" /\ seen'[c] = job[target[c]]
      BY <1>12, <2>1 DEF Read, Goto, On
    <3>2. On(c) => ~seen'[c].active
      BY <3>1 DEF OwnInv, Own
    <3>3. QED
      BY <1>1, <1>12, <2>1, <3>1, <3>2 DEF Read, Goto, Held
  <2>2. CASE target[c] \notin versions
    BY <1>3, <1>12, <2>2 DEF Read, Calls
  <2>3. QED
    BY <2>1, <2>2
<1>13. ASSUME NEW c \in Clients, ReadAll(c) \/ Drop(c) PROVE OwnInv'
  <2>1. On(c) => ~seen[c].active
    BY <1>13 DEF ReadAll, Drop, OwnInv, Own, Held
  <2>2. QED
    BY <1>1, <1>13, <2>1 DEF ReadAll, Drop, DropView, Goto, Held, requestVars
<1>14. ASSUME NEW c \in Clients, Make(c) PROVE OwnInv'
  <2>1. On(c) => ~seen[c].active
    BY <1>14 DEF Make, OwnInv, Own, Held
  <2>2. CASE Return(c, "idle") /\ UNCHANGED rowVars
    BY <1>3, <2>2 DEF Calls
  <2>3. CASE Goto(c, "flush") /\ UNCHANGED <<rowVars, requestVars>>
    BY <1>1, <2>1, <2>3 DEF Goto, Held, requestVars
  <2>4. QED
    BY <1>14, <2>2, <2>3 DEF Make
\* The only row a commit may turn on is the client's own.
<1>15. ASSUME NEW c \in Clients, Commit(c) PROVE OwnInv'
  <2>1. ~On(c)' /\ versions' = versions /\ nextId' = nextId
    BY <1>15, Returned DEF Commit, Calls, On, NoPatch
  <2>2. \A d \in Clients \ {c} : /\ pc'[d] = pc[d] /\ seen'[d] = seen[d]
                                 /\ target'[d] = target[d] /\ patch'[d] = patch[d]
    BY <1>15, Returned DEF Commit, Calls
  <2>3. ASSUME NEW d \in Clients, On(d)' PROVE Own(d)'
    <3>1. d # c /\ On(d) /\ Own(d)
      BY <2>1, <2>2, <2>3 DEF OwnInv, On
    <3>2. ~job'[target[d]].active
      <4>1. target[d] \in Ids /\ ~job[target[d]].active
        BY <3>1 DEF Own
      <4>2. CASE On(c)
        BY <1>15, <3>1, <4>1, <4>2, CommitTarget DEF Own
      <4>3. CASE ~On(c)
        BY <1>15, <4>1, <4>3, CommitTarget
      <4>4. QED
        BY <4>2, <4>3
    <3>3. \A e \in Clients : On(e)' => On(e) /\ target'[e] = target[e]
      BY <2>1, <2>2 DEF On
    <3>4. QED
      BY <2>1, <2>2, <3>1, <3>2, <3>3 DEF Own, Held
  <2>4. QED
    BY <2>1, <2>3 DEF OwnInv
<1>16. ASSUME NEW c \in Clients, Erase(c) PROVE OwnInv'
  <2>1. ~On(c)' /\ versions' \subseteq versions /\ nextId' = nextId
    BY <1>16, Returned DEF Erase, Calls, On, NoPatch
  <2>2. \A d \in Clients \ {c} : /\ pc'[d] = pc[d] /\ seen'[d] = seen[d]
                                 /\ target'[d] = target[d] /\ patch'[d] = patch[d]
    BY <1>16, Returned DEF Erase, Calls
  <2>3. \A i \in Ids : job'[i].active => job[i].active
    BY <1>16 DEF Erase, Blank
  <2>4. ASSUME NEW d \in Clients, On(d)' PROVE Own(d)'
    <3>1. d # c /\ On(d) /\ Own(d)
      BY <2>1, <2>2, <2>4 DEF OwnInv, On
    <3>2. ~job'[target[d]].active
      BY <2>3, <3>1 DEF Own
    <3>3. \A e \in Clients : On(e)' => On(e) /\ target'[e] = target[e]
      BY <2>1, <2>2 DEF On
    <3>4. QED
      BY <2>1, <2>2, <3>1, <3>2, <3>3 DEF Own, Held
  <2>5. QED
    BY <2>1, <2>4 DEF OwnInv
<1>17. ASSUME NEW c \in Clients,
              CommitFails(c) \/ DeadlockVictim(c) \/ StatementFails(c)
       PROVE  OwnInv'
  BY <1>3, <1>17 DEF CommitFails, DeadlockVictim, StatementFails, RollBack, Calls
<1>18. QED
  BY <1>4, <1>5, <1>6, <1>7, <1>8, <1>9, <1>10, <1>11, <1>12, <1>13, <1>14,
     <1>15, <1>16, <1>17, NextCases

LEMMA OwnInvariant == ~Reactivate => (Spec => []OwnInv)
<1> SUFFICES ASSUME ~Reactivate PROVE Spec => []OwnInv
  OBVIOUS
<1>1. Init => OwnInv
  BY DEF Init, OwnInv, On, NoPatch
<1>2. TypeOK /\ OwnInv /\ [Next]_vars => OwnInv'
  BY OwnNext
<1>3. QED
  BY <1>1, <1>2, JobStoreTypeCorrect, PTL DEF Spec

\* Only a POST, a commit and the end of a DELETE change rows.
LEMMA RowSteps ==
  ASSUME TypeOK, [Next]_vars
  PROVE  \/ UNCHANGED rowVars
         \/ \E c \in Clients : (Create(c) /\ want[c].age <= AgeLimit) \/ Commit(c) \/ Erase(c)
<1>1. ASSUME NEW c \in Clients,
             \/ Get(c) \/ OutOfIds(c) \/ Activate(c) \/ ClientDies(c)
             \/ Read(c) \/ ReadAll(c) \/ OperatorDelete(c)
      PROVE  UNCHANGED rowVars
  BY <1>1 DEF Get, OutOfIds, Activate, ClientDies, Read, ReadAll, OperatorDelete
<1>2. ASSUME NEW c \in Clients, Drop(c) \/ Purge(c) \/ Make(c) \/ DeleteRows(c)
      PROVE  UNCHANGED rowVars
  BY <1>2 DEF Drop, Purge, DropView, Make, DeleteRows
<1>3. ASSUME NEW c \in Clients, CommitFails(c) \/ DeadlockVictim(c) \/ StatementFails(c)
      PROVE  UNCHANGED rowVars
  BY <1>3 DEF CommitFails, DeadlockVictim, StatementFails, RollBack
<1>4. ASSUME NEW c \in Clients, NEW j \in JobIn, Ensure(c, j) PROVE UNCHANGED rowVars
  BY <1>4 DEF Ensure
<1>5. ASSUME NEW c \in Clients, NEW i \in Ids, NEW p \in Patch, OperatorPatch(c, i, p)
      PROVE  UNCHANGED rowVars
  BY <1>5 DEF OperatorPatch
<1>6. ASSUME NEW c \in Clients, Create(c)
      PROVE  UNCHANGED rowVars \/ want[c].age <= AgeLimit
  BY <1>6 DEF Create
<1>7. CASE UNCHANGED vars
  BY <1>7 DEF vars, rowVars
<1>8. QED
  BY <1>1, <1>2, <1>3, <1>4, <1>5, <1>6, <1>7, NextCases

\* A POST adds one inactive row, with the next id.
LEMMA CreateRow ==
  ASSUME TypeOK, NEW c \in Clients, Create(c), want[c].age <= AgeLimit
  PROVE  /\ nextId \in Ids /\ nextId' = nextId + 1
         /\ versions' = versions \cup {nextId}
         /\ \A i \in Ids \ {nextId} : job'[i] = job[i]
         /\ job'[nextId].query = want[c].query /\ ~job'[nextId].active
  BY DEF Create, TypeOK

\* Rows are only added with new ids, and keep their queries while they last.
LEMMA RowsKept ==
  ASSUME TypeOK, [Next]_vars
  PROVE  /\ nextId <= nextId'
         /\ \A i \in versions' :
              i < nextId => i \in versions /\ job'[i].query = job[i].query
<1> USE DEF TypeOK
<1>1. CASE UNCHANGED rowVars
  BY <1>1, Constants DEF rowVars
<1>2. ASSUME NEW c \in Clients, Create(c), want[c].age <= AgeLimit
      PROVE  /\ nextId <= nextId'
             /\ \A i \in versions' :
                  i < nextId => i \in versions /\ job'[i].query = job[i].query
  <2>1. /\ nextId' = nextId + 1 /\ nextId \in Nat
        /\ versions' = versions \cup {nextId} /\ versions \subseteq Ids
    BY <1>2, CreateRow, Constants
  <2>2. \A i \in versions' : i < nextId => i \in versions /\ i \in Ids \ {nextId}
    BY <2>1
  <2>3. \A i \in Ids \ {nextId} : job'[i] = job[i]
    BY <1>2, CreateRow
  <2>4. nextId <= nextId'
    BY <2>1
  <2>5. QED
    BY <2>2, <2>3, <2>4
<1>3. ASSUME NEW c \in Clients, Commit(c)
      PROVE  /\ nextId <= nextId'
             /\ \A i \in versions' :
                  i < nextId => i \in versions /\ job'[i].query = job[i].query
  <2>1. versions' = versions /\ nextId' = nextId
    BY <1>3 DEF Commit
  <2>2. \A i \in versions : job'[i].query = job[i].query
    BY <1>3, CommitTarget
  <2>3. QED
    BY <2>1, <2>2, Constants
<1>4. ASSUME NEW c \in Clients, Erase(c)
      PROVE  /\ nextId <= nextId'
             /\ \A i \in versions' :
                  i < nextId => i \in versions /\ job'[i].query = job[i].query
  BY <1>4, Constants DEF Erase
<1>5. QED
  BY <1>1, <1>2, <1>3, <1>4, RowSteps

\* A client that has its version in hand read it in this step or had it before.
LEMMA HeldSteps ==
  ASSUME TypeOK, [Next]_vars, NEW d \in Clients, Held(d)'
  PROVE  \/ Held(d) /\ target'[d] = target[d] /\ seen'[d] = seen[d]
         \/ /\ UNCHANGED <<rowVars, target>>
            /\ target[d] \in versions /\ seen'[d] = job[target[d]]
<1> USE DEF TypeOK, Held
<1> DEFINE Kept == Held(d) /\ target'[d] = target[d] /\ seen'[d] = seen[d]
<1>1. CASE UNCHANGED vars
  BY <1>1 DEF vars, requestVars
\* Another client's step.
<1>2. ASSUME NEW c \in Clients \ {d}, pc'[d] = pc[d], target'[d] = target[d], seen'[d] = seen[d]
      PROVE  Kept
  BY <1>2
<1>3. ASSUME NEW c \in Clients, NEW p \in Calls, Return(c, p) PROVE Kept
  BY <1>2, <1>3, Returned DEF Calls
<1>4. ASSUME NEW c \in Clients, NEW j \in JobIn, Ensure(c, j) PROVE Kept
  BY <1>4 DEF Ensure, Goto, requestVars
<1>5. ASSUME NEW c \in Clients, Get(c) PROVE Kept
  BY <1>5 DEF Get, Goto, Request
<1>6. ASSUME NEW c \in Clients, Create(c) PROVE Kept
  <2>1. CASE want[c].age <= AgeLimit
    BY <1>6, <2>1 DEF Create, Goto, Request
  <2>2. QED
    BY <1>3, <1>6, <2>1 DEF Create, Calls
<1>7. ASSUME NEW c \in Clients, OutOfIds(c) \/ ClientDies(c) PROVE Kept
  BY <1>3, <1>7 DEF OutOfIds, ClientDies, Calls
<1>8. ASSUME NEW c \in Clients,
             Activate(c) \/ OperatorDelete(c) \/ DeleteRows(c) \/ Purge(c)
      PROVE  Kept
  BY <1>8 DEF Activate, OperatorDelete, DeleteRows, Purge, DropView, Goto, requestVars
<1>9. ASSUME NEW c \in Clients, NEW i \in Ids, NEW p \in Patch, OperatorPatch(c, i, p)
      PROVE  Kept
  BY <1>9 DEF OperatorPatch, Goto, Request
<1>10. ASSUME NEW c \in Clients, ReadAll(c) \/ Drop(c) PROVE Kept
  BY <1>10 DEF ReadAll, Drop, DropView, Goto, requestVars
<1>11. ASSUME NEW c \in Clients, Make(c) PROVE Kept
  <2>1. CASE Goto(c, "flush") /\ UNCHANGED requestVars
    BY <1>11, <2>1 DEF Make, Goto, requestVars
  <2>2. QED
    BY <1>3, <1>11, <2>1 DEF Make, Calls
<1>12. ASSUME NEW c \in Clients, Commit(c) \/ Erase(c) PROVE Kept
  BY <1>3, <1>12 DEF Commit, Erase, Calls
<1>13. ASSUME NEW c \in Clients,
              CommitFails(c) \/ DeadlockVictim(c) \/ StatementFails(c)
       PROVE  Kept
  BY <1>3, <1>13 DEF CommitFails, DeadlockVictim, StatementFails, RollBack, Calls
<1>14. ASSUME NEW c \in Clients, Read(c)
       PROVE  \/ Kept
              \/ /\ UNCHANGED <<rowVars, target>>
                 /\ target[d] \in versions /\ seen'[d] = job[target[d]]
  <2>1. CASE target[c] \in versions
    BY <1>14, <2>1 DEF Read, Goto
  <2>2. QED
    BY <1>3, <1>14, <2>1 DEF Read, Calls
<1>15. QED
  BY <1>1, <1>4, <1>5, <1>6, <1>7, <1>8, <1>9, <1>10, <1>11, <1>12, <1>13,
     <1>14, NextCases

LEMMA SeenInvariant == ~Reactivate => (Spec => []SeenInv)
<1> SUFFICES ASSUME ~Reactivate PROVE Spec => []SeenInv
  OBVIOUS
<1>1. Init => SeenInv
  BY DEF Init, SeenInv, Held
<1>2. TypeOK /\ TypeOK' /\ OwnInv /\ SeenInv /\ [Next]_vars => SeenInv'
  <2> SUFFICES ASSUME TypeOK, TypeOK', OwnInv, SeenInv, [Next]_vars,
                      NEW c \in Clients, Held(c)'
               PROVE  /\ target'[c] < nextId'
                      /\ target'[c] \in versions' => seen'[c].query = job'[target'[c]].query
    BY DEF SeenInv
  <2>1. CASE Held(c) /\ target'[c] = target[c] /\ seen'[c] = seen[c]
    <3>1. target[c] \in Nat /\ nextId \in Nat /\ nextId' \in Nat
      BY Constants DEF TypeOK
    <3>2. /\ target[c] < nextId
          /\ target[c] \in versions => seen[c].query = job[target[c]].query
      BY <2>1 DEF SeenInv
    <3>3. target[c] < nextId'
      BY <3>1, <3>2, RowsKept
    <3>4. target[c] \in versions' =>
            target[c] \in versions /\ job'[target[c]].query = job[target[c]].query
      BY <3>2, RowsKept
    <3>5. QED
      BY <2>1, <3>2, <3>3, <3>4
  <2>2. CASE /\ UNCHANGED <<rowVars, target>>
             /\ target[c] \in versions /\ seen'[c] = job[target[c]]
    BY <2>2 DEF OwnInv, rowVars
  <2>3. QED
    BY <2>1, <2>2, HeldSteps
<1>3. QED
  BY <1>1, <1>2, JobStoreTypeCorrect, OwnInvariant, PTL DEF Spec

\* An activation that commits has the version it turns on.
LEMMA ActivationCommits ==
  ASSUME TypeOK, OwnInv, NEW c \in Clients, Commit(c), On(c)
  PROVE  /\ target[c] \in Touched(c) \cap versions
         /\ job'[target[c]].active
         /\ \A d \in Clients \ {c} : ~(versions \subseteq doomed[d])
<1> USE DEF TypeOK
<1>1. /\ target[c] \in Ids /\ seen[c] \in Row /\ ~seen[c].active
      /\ patch[c].active = "on" /\ job[target[c]] \in Row
  BY DEF Commit, OwnInv, Own, Held, On
<1>2. Patched(seen[c], patch[c]).active = TRUE
  BY <1>1 DEF Patched, Row
<1>3. target[c] \in Touched(c)
  BY <1>1, <1>2 DEF Touched
<1>4. target[c] \in versions
  BY <1>3 DEF Commit, Stale
<1>5. job'[target[c]] = Written(c, target[c])
  BY <1>1, <1>4 DEF Commit
<1>6. job'[target[c]].active
  BY <1>1, <1>2, <1>5 DEF Written, Row
<1>7. ASSUME NEW d \in Clients \ {c}, versions \subseteq doomed[d] PROVE FALSE
  BY <1>3, <1>4, <1>7 DEF Commit, Blocked
<1>8. QED
  BY <1>3, <1>4, <1>6, <1>7

LEMMA EraseInvariant == ~Reactivate /\ ~OverlapCreate => (Spec => []EraseInv)
<1> SUFFICES ASSUME ~Reactivate, ~OverlapCreate PROVE Spec => []EraseInv
  OBVIOUS
<1>1. Init => EraseInv
  BY DEF Init, EraseInv
<1>2. TypeOK /\ OwnInv /\ DeletesAll /\ EraseInv /\ [Next]_vars => EraseInv'
  <2> SUFFICES ASSUME TypeOK, OwnInv, DeletesAll, EraseInv, [Next]_vars PROVE EraseInv'
    OBVIOUS
  <2> USE DEF EraseInv, TypeOK, Goto
  <2>1. CASE UNCHANGED vars
    BY <2>1 DEF vars
  <2>2. ASSUME NEW c \in Clients, NEW p \in Calls, Return(c, p), view' \in {view, NoView},
               viewLock' = viewLock \/ Release(c)
        PROVE  EraseInv'
    <3>1. pc'[c] # "erase" /\ \A d \in Clients \ {c} : pc'[d] = pc[d]
      BY <2>2, Returned DEF Calls
    <3>2. \A d \in Clients \ {c} : viewLock = d => viewLock' = d
      BY <2>2 DEF Release
    <3>3. view' # NoView => view # NoView
      BY <2>2
    <3>4. QED
      BY <3>1, <3>2, <3>3
  <2>3. ASSUME NEW c \in Clients, NEW j \in JobIn, Ensure(c, j) PROVE EraseInv'
    BY <2>3 DEF Ensure
  <2>4. ASSUME NEW c \in Clients, NEW i \in Ids, NEW p \in Patch, OperatorPatch(c, i, p)
        PROVE  EraseInv'
    BY <2>4 DEF OperatorPatch
  <2>5. ASSUME NEW c \in Clients,
               \/ Get(c) \/ Activate(c) \/ OperatorDelete(c) \/ ReadAll(c) \/ DeleteRows(c)
        PROVE  EraseInv'
    BY <2>5 DEF Get, Activate, OperatorDelete, ReadAll, DeleteRows
  <2>6. ASSUME NEW c \in Clients, Create(c) PROVE EraseInv'
    <3>1. UNCHANGED <<view, viewLock>>
      BY <2>6 DEF Create
    <3>2. pc'[c] # "erase" /\ \A d \in Clients \ {c} : pc'[d] = pc[d]
      BY <2>6 DEF Create, Return
    <3>3. QED
      BY <3>1, <3>2
  <2>7. ASSUME NEW c \in Clients, OutOfIds(c) \/ ClientDies(c) PROVE EraseInv'
    BY <2>2, <2>7 DEF OutOfIds, ClientDies, Calls
  <2>8. ASSUME NEW c \in Clients, Read(c) PROVE EraseInv'
    <3>1. UNCHANGED <<view, viewLock>>
      BY <2>8 DEF Read
    <3>2. pc'[c] # "erase" /\ \A d \in Clients \ {c} : pc'[d] = pc[d]
      BY <2>8 DEF Read, Return
    <3>3. QED
      BY <3>1, <3>2
  <2>9. ASSUME NEW c \in Clients, Drop(c) \/ Purge(c) PROVE EraseInv'
    BY <2>9, Constants DEF Drop, Purge, DropView
  <2>10. ASSUME NEW c \in Clients, Make(c) PROVE EraseInv'
    <3>1. CASE Return(c, "idle") /\ UNCHANGED <<view, viewLock>>
      BY <2>2, <3>1 DEF Calls
    <3>2. CASE Goto(c, "flush") /\ viewLock' = c /\ view' = view /\ viewLock \in {Nobody, c}
      BY <3>2, Constants, <2>10 DEF Make
    <3>3. QED
      BY <2>10, <3>1, <3>2 DEF Make
  <2>11. ASSUME NEW c \in Clients, Commit(c) PROVE EraseInv'
    <3>1. Release(c) /\ \E p \in Calls : Return(c, p)
      BY <2>11 DEF Commit, Calls
    <3>2. CASE On(c)
      <4>1. \A d \in Clients \ {c} : pc[d] # "erase"
        BY <2>11, <3>2, ActivationCommits DEF DeletesAll
      <4>2. \A d \in Clients : pc'[d] # "erase"
        BY <3>1, <4>1, Returned DEF Calls
      <4>3. QED
        BY <4>2
    <3>3. CASE ~On(c)
      <4>1. view' = view
        BY <2>11, <3>3 DEF Commit, NewView, On
      <4>2. QED
        BY <2>2, <3>1, <4>1
    <3>4. QED
      BY <3>2, <3>3
  <2>12. ASSUME NEW c \in Clients, Erase(c) PROVE EraseInv'
    BY <2>2, <2>12 DEF Erase, Calls
  <2>13. ASSUME NEW c \in Clients,
                CommitFails(c) \/ DeadlockVictim(c) \/ StatementFails(c)
         PROVE  EraseInv'
    BY <2>2, <2>13 DEF CommitFails, DeadlockVictim, StatementFails, RollBack, Calls
  <2>14. QED
    BY <2>1, <2>3, <2>4, <2>5, <2>6, <2>7, <2>8, <2>9, <2>10, <2>11, <2>12,
       <2>13, NextCases
<1>3. QED
  BY <1>1, <1>2, JobStoreTypeCorrect, OwnInvariant, DeletesInvariant, PTL DEF Spec

\* The versions as readers see them.
Catalogue == {<<i, job[i].query>> : i \in versions}

\* A POST adds a version and publishes nothing.
LEMMA CreateAdds ==
  ASSUME TypeOK, OwnInv, NEW c \in Clients, Create(c), want[c].age <= AgeLimit
  PROVE  [Published!Next]_(Published!vars)
<1> USE DEF TypeOK
<1>1. view' = view
  BY DEF Create
<1>2. nextId \notin versions
  BY Constants DEF OwnInv
<1>3. Active' = Active
  BY <1>2, CreateRow DEF Active
<1>4. Catalogue' = Catalogue \cup {<<nextId, want[c].query>>}
  BY <1>2, CreateRow DEF Catalogue
<1>5. \A v \in Catalogue : v[1] # nextId
  BY <1>2 DEF Catalogue
<1>6. PICK i \in Ids, q \in Queries : i = nextId /\ q = want[c].query
  BY CreateRow DEF JobIn
<1>7. Published!Add(i, q)
  BY <1>1, <1>3, <1>4, <1>5, <1>6 DEF Published!Add, Catalogue
<1>8. QED
  BY <1>7 DEF Published!Next

\* A commit publishes its version, withdraws the published one, or changes
\* nothing readers see.
LEMMA CommitPublishes ==
  ASSUME TypeOK, OwnInv, SeenInv, AtMostOneActive, NEW c \in Clients, Commit(c)
  PROVE  [Published!Next]_(Published!vars)
<1> USE DEF TypeOK
<1>1. versions' = versions /\ Catalogue' = Catalogue
  <2>1. versions' = versions
    BY DEF Commit
  <2>2. \A i \in versions : job'[i].query = job[i].query
    BY CommitTarget
  <2>3. QED
    BY <2>1, <2>2 DEF Catalogue
<1>2. CASE On(c)
  <2>1. target[c] \in versions /\ target[c] \in Ids /\ target[c] \in Active' \ Active
    BY <1>1, <1>2, ActivationCommits DEF Active, OwnInv, Own
  <2>2. Active' = {target[c]}
    BY <2>1, CommitActive
  <2>3. view'.query = job[target[c]].query
    <3>1. seen[c].query = job[target[c]].query
      BY <2>1 DEF SeenInv, Held, Commit
    <3>2. QED
      BY <1>2, <3>1 DEF Commit, NewView, On
  <2>4. PICK i \in Ids, q \in Queries : i = target[c] /\ q = job[target[c]].query
    BY <2>1 DEF Row
  <2>5. <<i, q>> \in Catalogue
    BY <2>1, <2>4 DEF Catalogue
  <2>6. Published!Activate(i, q)
    BY <1>1, <2>2, <2>3, <2>4, <2>5 DEF Published!Activate, Catalogue
  <2>7. QED
    BY <2>6 DEF Published!Next
<1>3. CASE ~On(c)
  <2>1. view' = view
    BY <1>3 DEF Commit, NewView, On
  <2>2. Active' \subseteq Active
    BY <1>3, CommitActive DEF On
  <2>3. CASE Active' = Active
    BY <1>1, <2>1, <2>3 DEF Published!vars, Catalogue
  <2>4. CASE Active' # Active
    <3>1. Active' = {}
      BY <2>2, <2>4 DEF AtMostOneActive
    <3>2. Published!Deactivate
      BY <1>1, <2>1, <3>1 DEF Published!Deactivate, Catalogue
    <3>3. QED
      BY <3>2 DEF Published!Next
  <2>5. QED
    BY <2>3, <2>4
<1>4. QED
  BY <1>2, <1>3

\* The end of a DELETE leaves neither versions nor views.
LEMMA EraseDeletes ==
  ASSUME TypeOK, DeletesAll, EraseInv, NEW c \in Clients, Erase(c)
  PROVE  [Published!Next]_(Published!vars)
<1>1. versions' = {} /\ view' = NoView
  BY DEF Erase, DeletesAll, EraseInv
<1>2. Active' = {}
  BY <1>1 DEF Active
<1>3. Published!Delete
  BY <1>1, <1>2 DEF Published!Delete, NoView
<1>4. QED
  BY <1>3 DEF Published!Next

\* The job store implements PublishedJob, while operators activate nothing and
\* no version is created during a DELETE: readers see at most one published
\* version, and the views have the columns of the one activated last.
THEOREM JobStorePublishes ==
  ~Reactivate /\ ~OverlapCreate => (Spec => PublishesOneVersion)
<1> SUFFICES ASSUME ~Reactivate, ~OverlapCreate PROVE Spec => PublishesOneVersion
  OBVIOUS
<1>1. Init => Published!Init
  BY DEF Init, Published!Init, Active, NoView
<1>2. /\ TypeOK /\ OwnInv /\ SeenInv /\ EraseInv /\ DeletesAll /\ AtMostOneActive
      /\ [Next]_vars
      => [Published!Next]_(Published!vars)
  <2> SUFFICES ASSUME TypeOK, OwnInv, SeenInv, EraseInv, DeletesAll, AtMostOneActive,
                      [Next]_vars
               PROVE  [Published!Next]_(Published!vars)
    OBVIOUS
  <2>1. CASE UNCHANGED rowVars /\ view' = view
    <3>1. Active' = Active /\ Catalogue' = Catalogue
      BY <2>1 DEF Active, Catalogue, rowVars
    <3>2. QED
      BY <2>1, <3>1 DEF Published!vars, Catalogue
  <2>2. CASE \E c \in Clients : Commit(c)
    BY <2>2, CommitPublishes
  <2>3. CASE \E c \in Clients : Erase(c)
    BY <2>3, EraseDeletes
  <2>4. CASE \A c \in Clients : ~Commit(c) /\ ~Erase(c)
    BY <2>1, <2>4, OtherStepsKeepActive, RowSteps, CreateAdds
  <2>5. QED
    BY <2>2, <2>3, <2>4
<1>3. QED
  BY <1>1, <1>2, JobStoreTypeCorrect, OwnInvariant, SeenInvariant, EraseInvariant,
     DeletesInvariant, OneActive, PTL
  DEF Spec, PublishesOneVersion, Published!Spec
=============================================================================
