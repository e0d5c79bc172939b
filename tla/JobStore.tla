------------------------------ MODULE JobStore ------------------------------
(***************************************************************************)
(* The versions of one query job in PostgreSQL, and the pair of views      *)
(* (_latest and _all, always handled together) published for the active    *)
(* one.  Clients run QJAPIClient.create_or_update_active_job, or an        *)
(* operator's single PATCH or DELETE request.  A request is served in one  *)
(* READ COMMITTED transaction whose statements interleave with those of    *)
(* other requests.  Sessions do not autoflush, so the DDL of an activation *)
(* precedes its row updates; these are flushed in primary key order within *)
(* commit(), which is one step because the row locks are taken in key      *)
(* order and held until the end.                                           *)
(***************************************************************************)
EXTENDS Integers

CONSTANTS
  Clients,     \* callers of the API
  Nobody,      \* not a client
  MaxVersions, \* bound: how many versions are ever created
  Queries,     \* what a version computes: its query and so its view's columns
  Severities,
  Ages,        \* values of max_result_age_sec a caller may give
  AgeDefault,  \* max_result_age_sec_default
  AgeLimit,    \* max_result_age_sec_limit
  Operators,   \* the clients that also send single requests
  Reactivate,  \* TRUE if operators may activate any version
  OverlapCreate \* TRUE if versions are created while a DELETE is served

ASSUME NobodyAssumption == Nobody \notin Clients
ASSUME MaxVersionsAssumption == MaxVersions \in Nat \ {0}
ASSUME AgesAssumption ==
  /\ Ages \subseteq Nat \ {0}
  /\ AgeDefault \in Ages
  /\ AgeLimit \in Nat
  /\ AgeDefault <= AgeLimit
ASSUME InputsAssumption == Queries # {} /\ Severities # {}
ASSUME BooleansAssumption == Reactivate \in BOOLEAN /\ OverlapCreate \in BOOLEAN

Ids == 1 .. MaxVersions  \* primary keys, handed out in order
Unset == 0
NoView == [query |-> "none", age |-> Unset]

JobIn == [query : Queries, severity : Severities, age : Ages \cup {Unset}]
Row == [query : Queries, severity : Severities, age : Ages, active : BOOLEAN]
Blank == [query |-> CHOOSE q \in Queries : TRUE,
          severity |-> CHOOSE s \in Severities : TRUE,
          age |-> AgeDefault, active |-> FALSE]
Patch == [active : {"on", "off", "unset"}, age : Ages \cup {Unset}]
View == [query : Queries, age : Ages] \cup {NoView}

NoJob == [query |-> Blank.query, severity |-> Blank.severity, age |-> Unset]
NoPatch == [active |-> "unset", age |-> Unset]
NoFlags == [i \in Ids |-> FALSE]

VARIABLES
  versions,  \* the ids of the committed rows
  job,       \* their contents
  nextId,    \* the id sequence
  view,      \* the committed views' definition
  viewLock,  \* the transaction that holds the lock on the views' name
  doomed,    \* the rows an uncommitted DELETE of a client has locked
  pc,        \* control of each client's call and of its request
  want,      \* the JobCreate a client passed
  target,    \* the version a client patches
  patch,     \* the JobUpdate
  seen,      \* the target row as it was read
  flags      \* the active column of the other versions as they were read

rowVars == <<versions, job, nextId>>
requestVars == <<target, patch, seen, flags>>
vars == <<versions, job, nextId, view, viewLock, doomed, pc, want, requestVars>>

Calls == {"idle", "get", "create", "activate", "done"}
Statements == {"read", "readAll", "drop", "make", "flush",
               "delete", "purge", "erase"}

TypeOK ==
  /\ versions \subseteq Ids
  /\ job \in [Ids -> Row]
  /\ nextId \in 1 .. MaxVersions + 1
  /\ view \in View
  /\ viewLock \in Clients \cup {Nobody}
  /\ doomed \in [Clients -> SUBSET Ids]
  /\ pc \in [Clients -> Calls \cup Statements]
  /\ want \in [Clients -> JobIn]
  /\ target \in [Clients -> Ids]
  /\ patch \in [Clients -> Patch]
  /\ seen \in [Clients -> Row]
  /\ flags \in [Clients -> [Ids -> BOOLEAN]]

Active == {i \in versions : job[i].active}

Init ==
  /\ versions = {}
  /\ job = [i \in Ids |-> Blank]
  /\ nextId = 1
  /\ view = NoView
  /\ viewLock = Nobody
  /\ doomed = [c \in Clients |-> {}]
  /\ pc = [c \in Clients |-> "idle"]
  /\ want = [c \in Clients |-> NoJob]
  /\ target = [c \in Clients |-> 1]
  /\ patch = [c \in Clients |-> NoPatch]
  /\ seen = [c \in Clients |-> Blank]
  /\ flags = [c \in Clients |-> NoFlags]

-----------------------------------------------------------------------------
(* The client *)

Goto(c, p) == pc' = [pc EXCEPT ![c] = p]

\* The call ends, with an answer ("done") or with an exception ("idle"), and
\* nothing of its request is kept.
Return(c, p) ==
  /\ Goto(c, p)
  /\ target' = [target EXCEPT ![c] = 1]
  /\ patch' = [patch EXCEPT ![c] = NoPatch]
  /\ seen' = [seen EXCEPT ![c] = Blank]
  /\ flags' = [flags EXCEPT ![c] = NoFlags]
  /\ want' = IF p = "done" THEN want ELSE [want EXCEPT ![c] = NoJob]

Request(c, i, p) ==
  /\ target' = [target EXCEPT ![c] = i]
  /\ patch' = [patch EXCEPT ![c] = p]

\* create_or_update_active_job(job_in) is called.
Ensure(c, j) ==
  /\ pc[c] \in {"idle", "done"}
  /\ Goto(c, "get")
  /\ want' = [want EXCEPT ![c] = j]
  /\ UNCHANGED <<rowVars, view, viewLock, doomed, requestVars>>

\* _job_job_create_identical: a field left out of the JobCreate is None there
\* and a number in the Job.
Identical(r, j) == r.query = j.query /\ r.severity = j.severity /\ r.age = j.age

\* _job_job_create_nonupdatable_fields_identical, and JobUpdate.from_job_create.
Updatable(r, j) == r.query = j.query
UpdateOf(j) == [active |-> "unset", age |-> j.age]

\* get_job answers with the active version, and the client decides what to do.
Get(c) ==
  /\ pc[c] = "get"
  /\ \/ /\ Active = {}
        /\ Goto(c, "create")
        /\ UNCHANGED <<target, patch>>
     \/ \E i \in Active :
          \/ /\ Identical(job[i], want[c])
             /\ Goto(c, "done")
             /\ UNCHANGED <<target, patch>>
          \/ /\ ~Identical(job[i], want[c])
             /\ Updatable(job[i], want[c])
             /\ Goto(c, "read")
             /\ Request(c, i, UpdateOf(want[c]))
          \/ /\ ~Updatable(job[i], want[c])
             /\ Goto(c, "create")
             /\ UNCHANGED <<target, patch>>
  /\ UNCHANGED <<rowVars, view, viewLock, doomed, want, seen, flags>>

\* Slip: the default is forgotten.
AgeAsGiven(j) == j.age

\* A field left out of the JobCreate gets its default.
StoredAge(j) == IF j.age = Unset THEN AgeDefault ELSE j.age

\* POST of a new version: an inactive row, unless a limit is exceeded.
Create(c) ==
  /\ pc[c] = "create"
  /\ nextId \in Ids
  /\ OverlapCreate \/ \A d \in Clients : pc[d] \notin {"purge", "erase"}
  /\ IF want[c].age <= AgeLimit
     THEN /\ versions' = versions \cup {nextId}
          /\ job' = [job EXCEPT ![nextId] =
               [query |-> want[c].query, severity |-> want[c].severity,
                age |-> StoredAge(want[c]), active |-> FALSE]]
          /\ nextId' = nextId + 1
          /\ Goto(c, "activate")
          /\ Request(c, nextId, [active |-> "on", age |-> Unset])
          /\ UNCHANGED <<want, seen, flags>>
     ELSE /\ Return(c, "idle")
          /\ UNCHANGED rowVars
  /\ UNCHANGED <<view, viewLock, doomed>>

\* The bound on the number of versions: there is no id left for another one.
OutOfIds(c) ==
  /\ pc[c] = "create"
  /\ nextId \notin Ids
  /\ Return(c, "idle")
  /\ UNCHANGED <<rowVars, view, viewLock, doomed>>

Activate(c) ==
  /\ pc[c] = "activate"
  /\ Goto(c, "read")
  /\ UNCHANGED <<rowVars, view, viewLock, doomed, want, requestVars>>

\* The calling process dies between its requests.
ClientDies(c) ==
  /\ pc[c] = "activate"
  /\ Return(c, "idle")
  /\ UNCHANGED <<rowVars, view, viewLock, doomed>>

\* An operator's PATCH of some version, or DELETE of the job.
OperatorPatch(c, i, p) ==
  /\ pc[c] \in {"idle", "done"}
  /\ c \in Operators
  /\ i < nextId
  /\ p.active = "on" => Reactivate
  /\ Goto(c, "read")
  /\ Request(c, i, p)
  /\ want' = [want EXCEPT ![c] = NoJob]
  /\ UNCHANGED <<rowVars, view, viewLock, doomed, seen, flags>>

OperatorDelete(c) ==
  /\ pc[c] \in {"idle", "done"}
  /\ c \in Operators
  /\ Goto(c, "delete")
  /\ want' = [want EXCEPT ![c] = NoJob]
  /\ UNCHANGED <<rowVars, view, viewLock, doomed, requestVars>>

-----------------------------------------------------------------------------
(* update_version *)

\* get_version: the row is read, or the request is refused.
Read(c) ==
  /\ pc[c] = "read"
  /\ IF target[c] \in versions
     THEN /\ seen' = [seen EXCEPT ![c] = job[target[c]]]
          /\ Goto(c, IF patch[c].active = "on" THEN "readAll" ELSE "flush")
          /\ UNCHANGED <<want, target, patch, flags>>
     ELSE Return(c, "idle")
  /\ UNCHANGED <<rowVars, view, viewLock, doomed>>

\* The other versions are read in a second statement; the first row is in the
\* session already and keeps the values it was read with.
ReadAll(c) ==
  /\ pc[c] = "readAll"
  /\ flags' = [flags EXCEPT ![c] =
       [i \in Ids |-> i \in Active \ {target[c]}]]
  /\ Goto(c, "drop")
  /\ UNCHANGED <<rowVars, view, viewLock, doomed, want, target, patch, seen>>

\* DROP VIEW IF EXISTS waits for the lock of a view that exists, and does
\* nothing when it sees none.
DropView(c, next) ==
  /\ Goto(c, next)
  /\ \/ /\ view = NoView
        /\ UNCHANGED viewLock
     \/ /\ view # NoView
        /\ viewLock = Nobody
        /\ viewLock' = c
  /\ UNCHANGED <<rowVars, view, doomed, want, requestVars>>

Drop(c) == pc[c] = "drop" /\ DropView(c, "make")

\* CREATE VIEW waits for an uncommitted view of that name, and fails if a view
\* was committed since DROP VIEW saw none.
Make(c) ==
  /\ pc[c] = "make"
  /\ viewLock \in {Nobody, c}
  /\ IF view # NoView /\ viewLock # c
     THEN Return(c, "idle") /\ UNCHANGED viewLock
     ELSE Goto(c, "flush") /\ viewLock' = c /\ UNCHANGED <<want, requestVars>>
  /\ UNCHANGED <<rowVars, view, doomed>>

\* The attributes as the session holds them.  A severity in the JobUpdate is
\* not looked at.
Patched(r, p) ==
  [r EXCEPT !.age = IF p.age = Unset THEN r.age ELSE p.age,
            !.active = IF p.active = "unset" THEN r.active ELSE p.active = "on"]

\* Only attributes that differ from what was read are written.
Off(c) == {i \in Ids : flags[c][i]}
Touched(c) ==
  Off(c) \cup IF Patched(seen[c], patch[c]) # seen[c] THEN {target[c]} ELSE {}
Stale(c) == ~(Touched(c) \subseteq versions)

TurnsOn(c) == patch[c].active = "on" /\ ~seen[c].active

\* Slip: activation relies on the rows it has read.
ReadRefuses(c) == TurnsOn(c) /\ \E i \in Off(c) : i > target[c]

\* The partial unique index refuses a second active row, also one that a later
\* update of the same flush would turn off.
IndexRefuses(c) ==
  /\ TurnsOn(c)
  /\ \E i \in Active \ {target[c]} : ~(i \in Off(c) /\ i < target[c])

Blocked(c) == \E d \in Clients \ {c} : Touched(c) \cap doomed[d] # {}

\* The transaction ends without effect and its locks are released.
Release(c) ==
  /\ viewLock' = IF viewLock = c THEN Nobody ELSE viewLock
  /\ doomed' = [doomed EXCEPT ![c] = {}]

Written(c, i) ==
  [job[i] EXCEPT !.age = IF patch[c].age \in {Unset, seen[c].age}
                         THEN job[i].age ELSE patch[c].age,
                 !.active = IF Patched(seen[c], patch[c]).active = seen[c].active
                            THEN job[i].active ELSE ~seen[c].active]

\* Slip: a view that exists is kept.
ViewIfNotExists(c) ==
  IF patch[c].active = "on" /\ view = NoView
  THEN [query |-> seen[c].query, age |-> Patched(seen[c], patch[c]).age]
  ELSE view

\* Slip: an existing view is altered, none is created.
ViewAltered(c) ==
  IF patch[c].active = "on" /\ view # NoView
  THEN [query |-> seen[c].query, age |-> Patched(seen[c], patch[c]).age]
  ELSE view

\* The columns and the interval are compiled into the views.
NewView(c) ==
  IF patch[c].active = "on"
  THEN [query |-> seen[c].query, age |-> Patched(seen[c], patch[c]).age]
  ELSE view

\* commit(): the rows and the views change at once.  The answer is then read
\* back, which fails if the version is gone.
Commit(c) ==
  /\ pc[c] = "flush"
  /\ ~Blocked(c)
  /\ ~Stale(c)
  /\ ~IndexRefuses(c)
  /\ job' = [i \in Ids |->
       IF i = target[c] /\ i \in versions THEN Written(c, i)
       ELSE IF i \in Off(c) THEN [job[i] EXCEPT !.active = FALSE] ELSE job[i]]
  /\ view' = NewView(c)
  /\ Release(c)
  /\ Return(c, IF target[c] \in versions THEN "done" ELSE "idle")
  /\ UNCHANGED <<versions, nextId>>

\* Slip: the session of a failed request is not closed.
RollBackUnclosed(c) == Return(c, "idle") /\ UNCHANGED <<rowVars, view, viewLock, doomed>>

\* The session is closed: the transaction is rolled back, its locks released.
RollBack(c) ==
  /\ Release(c)
  /\ Return(c, "idle")
  /\ UNCHANGED <<rowVars, view>>

CommitFails(c) ==
  /\ pc[c] = "flush"
  /\ ~Blocked(c)
  /\ Stale(c) \/ IndexRefuses(c)
  /\ RollBack(c)

-----------------------------------------------------------------------------
(* delete *)

\* DELETE FROM job locks the committed rows; a second one waits for the first.
DeleteRows(c) ==
  /\ pc[c] = "delete"
  /\ \A d \in Clients : doomed[d] = {}
  /\ doomed' = [doomed EXCEPT ![c] = versions]
  /\ Goto(c, "purge")
  /\ UNCHANGED <<rowVars, view, viewLock, want, requestVars>>

Purge(c) == pc[c] = "purge" /\ DropView(c, "erase")

Erase(c) ==
  /\ pc[c] = "erase"
  /\ versions' = versions \ doomed[c]
  /\ job' = [i \in Ids |-> IF i \in doomed[c] THEN Blank ELSE job[i]]
  /\ view' = IF viewLock = c THEN NoView ELSE view
  /\ Release(c)
  /\ Return(c, "done")
  /\ UNCHANGED nextId

-----------------------------------------------------------------------------
(* The database and the connection to it *)

\* A DELETE that holds the rows waits for the view an activation replaced, and
\* the activation waits for the rows: PostgreSQL aborts one of the two.
Deadlocked(c, d) ==
  /\ pc[c] = "flush" /\ Touched(c) \cap doomed[d] # {}
  /\ pc[d] = "purge" /\ view # NoView /\ viewLock = c

DeadlockVictim(c) ==
  /\ \E d \in Clients : Deadlocked(c, d) \/ Deadlocked(d, c)
  /\ RollBack(c)

\* A statement fails, and db_session closes the session.
StatementFails(c) == pc[c] \in Statements /\ RollBack(c)

-----------------------------------------------------------------------------
Serve(c) ==
  \/ Get(c) \/ Create(c) \/ OutOfIds(c) \/ Activate(c)
  \/ Read(c) \/ ReadAll(c) \/ Drop(c) \/ Make(c) \/ Commit(c) \/ CommitFails(c)
  \/ DeleteRows(c) \/ Purge(c) \/ Erase(c)
  \/ DeadlockVictim(c)

Next ==
  \E c \in Clients :
    \/ Serve(c)
    \/ ClientDies(c)
    \/ StatementFails(c)
    \/ OperatorDelete(c)
    \/ \E j \in JobIn : Ensure(c, j)
    \/ \E i \in Ids, p \in Patch : OperatorPatch(c, i, p)

Spec == Init /\ [][Next]_vars

\* Every request is worked on; PostgreSQL grants a lock in the order of the
\* queue for it, so a request that waits again and again gets its turn.
FairSpec == Spec /\ \A c \in Clients : SF_vars(Serve(c))

-----------------------------------------------------------------------------
(* Properties *)

\* get_active's assertion: whatever activations, updates and deletes overlap,
\* a job never has two active versions.
AtMostOneActive == \A i, j \in Active : i = j

\* An active version has its views, as long as no version is created while a
\* delete is served: the DDL and the row updates commit or roll back together.
ActiveHasViews == Active # {} => view # NoView

\* While operators activate nothing, and no version is created during a
\* delete, readers see one version published at a time, and views with the
\* columns of the version activated last.
Published == INSTANCE PublishedJob WITH
  NoVersion <- 0,
  NoColumns <- "none",
  catalogue <- {<<i, job[i].query>> : i \in versions},
  active <- IF Active = {} THEN 0 ELSE CHOOSE i \in Active : TRUE,
  columns <- view.query
PublishesOneVersion == Published!Spec

\* Every request is answered: a DELETE and an activation that wait for each
\* other are told apart by the database.
RequestsAnswered ==
  \A c \in Clients : pc[c] \in Statements ~> pc[c] \notin Statements
=============================================================================
