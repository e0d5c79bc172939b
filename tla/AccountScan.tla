---------------------------- MODULE AccountScan ----------------------------
(***************************************************************************)
(* The scan of one account (AccountScanner.scan): the regions each AWS     *)
(* resource class is scanned in, the scan units built from them, the       *)
(* thread pool that runs the units while others are still being submitted, *)
(* and the one artifact composed of their results.  The accounts of a run  *)
(* and their retries are in ScanRun; here is what one try does.            *)
(*                                                                         *)
(* What a class lists in a region is abstracted to the pair of the two.    *)
(* The orders the code draws at random, of regions and of services, are    *)
(* left open, as are those of the units of a region and the classes of one.*)
(***************************************************************************)
EXTENDS Naturals, Sequences

CONSTANTS
    Regions,               \* the regions AWS has
    Services,
    Classes,               \* the resource_spec_classes the scanner was given
    ServiceOf,             \* class -> service_name
    AccountWide,           \* the classes of granularity ACCOUNT
    ParallelScan,          \* the classes with parallel_scan
    Available,             \* service -> its regions in botocore
    Global,                \* the services botocore lists under aws-global
    Preferred,             \* preferred_account_scan_regions
    RegionWhitelist,       \* class -> region_whitelist, empty for any
    GlobalWhitelist,       \* scan.regions of the configuration, empty for any
    EnabledRegions,        \* the regions the account has enabled
    Threads                \* the workers of the pool (max_svc_scan_threads)

(* The build of the mapping raises for a class of a global service that is *)
(* not scanned account-wide, so there is no scan of such a class.          *)
ASSUME ScanAssumption ==
    /\ ServiceOf \in [Classes -> Services]
    /\ AccountWide \subseteq Classes /\ ParallelScan \subseteq Classes
    /\ Available \in [Services -> SUBSET Regions]
    /\ \A c \in Classes : ServiceOf[c] \in Global => c \in AccountWide
    /\ Preferred \subseteq Regions /\ GlobalWhitelist \subseteq Regions
    /\ RegionWhitelist \in [Classes -> SUBSET Regions]
    /\ EnabledRegions \subseteq Regions
    /\ Threads # {}

Idle == [working |-> FALSE]

VARIABLES
    mapping,    \* class -> regions: AWSResourceRegionMappingRepository
    pc,         \* where AccountScanner.scan is
    todo,       \* regions not yet opened for submission
    open,       \* units left to submit of the region that was opened
    queue,      \* scan units submitted and not started
    worker,     \* thread -> the unit it runs and the classes left to scan
    listed,     \* <<class, region>>: listings the units in the pool obtained
    empty,      \* <<class, region>>: skipped, or refused with an ignored code
    failed,     \* units that ended with an error
    prescan,    \* the main thread met an exception
    artifact    \* what was written

vars == <<mapping, pc, todo, open, queue, worker, listed, empty, failed,
          prescan, artifact>>

-----------------------------------------------------------------------------
(* The region mapping.                                                     *)

Only(regions, whitelist) ==
    IF whitelist = {} THEN regions ELSE regions \cap whitelist

CandidateRegions(c) ==
    LET supported == IF ServiceOf[c] \in Global THEN Preferred
                     ELSE Available[ServiceOf[c]]
        wanted == Only(Only(supported, RegionWhitelist[c]), GlobalWhitelist)
    IN  IF c \in AccountWide THEN wanted \cap Preferred ELSE wanted

(* An account-wide class is mapped to one region, drawn at random.         *)
Mappings ==
    {f \in [Classes -> SUBSET Regions] :
       \A c \in Classes :
         IF c \in AccountWide /\ CandidateRegions(c) # {}
         THEN \E r \in CandidateRegions(c) : f[c] = {r}
         ELSE f[c] = CandidateRegions(c)}

(* The regions of the account's scan plan, or those that are enabled.      *)
AccountScanRegions ==
    IF GlobalWhitelist # {} THEN GlobalWhitelist ELSE EnabledRegions

GetRegions(c) == Only(mapping[c], AccountScanRegions)

-----------------------------------------------------------------------------
(* Scan units: one per parallel class, and one with all the other classes  *)
(* of a service in a region, which is submitted even when there are none.  *)

Unit(r, s, classes) == [region |-> r, service |-> s, classes |-> classes]

MappedTo(r, s) == {c \in Classes : ServiceOf[c] = s /\ r \in GetRegions(c)}

\* Slip: every class gets a unit of its own.
EachAlone(r, s) == {Unit(r, s, {c}) : c \in MappedTo(r, s)}

UnitsOf(r, s) ==
    {Unit(r, s, {c}) : c \in MappedTo(r, s) \cap ParallelScan}
      \cup {Unit(r, s, MappedTo(r, s) \ ParallelScan)}

UnitsIn(r) ==
    UNION {UnitsOf(r, s) : s \in {t \in Services : MappedTo(r, t) # {}}}

-----------------------------------------------------------------------------
Init ==
    /\ mapping \in Mappings
    /\ pc = "session"
    /\ todo = {}
    /\ open = {}
    /\ queue = <<>>
    /\ worker = [t \in Threads |-> Idle]
    /\ listed = {} /\ empty = {} /\ failed = {}
    /\ prescan = FALSE
    /\ artifact = [written |-> FALSE, errors |-> FALSE, resources |-> {}]

pool == <<queue, worker, listed, empty, failed>>

(* Any exception in the main thread is recorded and ends the submission.   *)
PrescanError ==
    /\ prescan' = TRUE
    /\ pc' = "wait"
    /\ todo' = {}
    /\ open' = {}

(* The session, the identity check, the regions and the mapping of every   *)
(* class: a class without a region fails the account.                      *)
OpenSession ==
    /\ pc = "session"
    /\ IF \A c \in Classes : GetRegions(c) # {}
       THEN /\ todo' = UNION {GetRegions(c) : c \in Classes}
            /\ pc' = "submit"
            /\ UNCHANGED <<open, prescan>>
       ELSE PrescanError
    /\ UNCHANGED <<mapping, pool, artifact>>

SessionFails ==
    /\ pc = "session"
    /\ PrescanError
    /\ UNCHANGED <<mapping, pool, artifact>>

OpenRegion(r) ==
    /\ pc = "submit" /\ open = {} /\ r \in todo
    /\ todo' = todo \ {r}
    /\ open' = UnitsIn(r)
    /\ UNCHANGED <<mapping, pc, pool, prescan, artifact>>

OpenRegionFails(r) ==
    /\ pc = "submit" /\ open = {} /\ r \in todo
    /\ PrescanError
    /\ UNCHANGED <<mapping, pool, artifact>>

Submit(u) ==
    /\ pc = "submit"
    /\ queue' = Append(queue, u)
    /\ open' = open \ {u}
    /\ UNCHANGED <<mapping, pc, todo, worker, listed, empty, failed, prescan,
                   artifact>>

AllSubmitted ==
    /\ pc = "submit" /\ open = {} /\ todo = {}
    /\ pc' = "wait"
    /\ UNCHANGED <<mapping, todo, open, pool, prescan, artifact>>

-----------------------------------------------------------------------------
(* A worker: scan_scan_unit runs GraphSpec.scan over the unit's classes.   *)

Busy(t) == worker[t].working

Scanning(t) == Busy(t) /\ worker[t].left # {}

StartUnit(t) ==
    /\ ~Busy(t) /\ queue # <<>>
    /\ worker' = [worker EXCEPT ![t] =
                    [working |-> TRUE, unit |-> Head(queue),
                     left |-> Head(queue).classes]]
    /\ queue' = Tail(queue)
    /\ UNCHANGED <<mapping, pc, todo, open, listed, empty, failed, prescan,
                   artifact>>

Here(t, c) == <<c, worker[t].unit.region>>

ClassDone(t, c) ==
    /\ Busy(t) /\ c \in worker[t].left
    /\ worker' = [worker EXCEPT ![t].left = @ \ {c}]
    /\ UNCHANGED <<mapping, pc, todo, open, queue, failed, prescan, artifact>>

ScanClass(t, c) ==
    /\ ClassDone(t, c)
    /\ listed' = listed \cup {Here(t, c)}
    /\ UNCHANGED empty

(* skip_resource_scan, or an error code of AWS_API_IGNORE_ERRORS.          *)
ClassIsEmpty(t, c) ==
    /\ ClassDone(t, c)
    /\ empty' = empty \cup {Here(t, c)}
    /\ UNCHANGED listed

\* Slip: the error stays in the future and nobody looks at it.
FailUnrecorded(t) ==
    /\ Scanning(t)
    /\ worker' = [worker EXCEPT ![t] = Idle]
    /\ UNCHANGED <<mapping, pc, todo, open, queue, listed, empty, failed,
                   prescan, artifact>>

(* Any other error: an API error, an operation that is not a read, data    *)
(* the schema does not parse.  The rest of the unit is not scanned.        *)
ClassFails(t) ==
    /\ Scanning(t)
    /\ failed' = failed \cup {worker[t].unit}
    /\ worker' = [worker EXCEPT ![t] = Idle]
    /\ UNCHANGED <<mapping, pc, todo, open, queue, listed, empty, prescan,
                   artifact>>

EndUnit(t) ==
    /\ Busy(t) /\ worker[t].left = {}
    /\ worker' = [worker EXCEPT ![t] = Idle]
    /\ UNCHANGED <<mapping, pc, todo, open, queue, listed, empty, failed,
                   prescan, artifact>>

-----------------------------------------------------------------------------
PoolIdle == queue = <<>> /\ \A t \in Threads : ~Busy(t)

\* Slip: after an exception the pool is not waited for.
PoolAbandoned ==
    /\ pc = "wait" /\ (PoolIdle \/ prescan)
    /\ pc' = "compose"
    /\ UNCHANGED <<mapping, todo, open, pool, prescan, artifact>>

\* Slip: it is waited for units that were never submitted.
PoolAwaitsAll ==
    /\ pc = "wait" /\ PoolIdle /\ ~prescan
    /\ pc' = "compose"
    /\ UNCHANGED <<mapping, todo, open, pool, prescan, artifact>>

(* The pool's "with" block ends when every unit has, also after an error.  *)
PoolEnds ==
    /\ pc = "wait" /\ PoolIdle
    /\ pc' = "compose"
    /\ UNCHANGED <<mapping, todo, open, pool, prescan, artifact>>

AnyError == prescan \/ failed # {}

(* One artifact: the unscanned account with the errors, or all graph sets. *)
Write ==
    /\ pc = "compose"
    /\ artifact' = [written |-> TRUE, errors |-> AnyError,
                    resources |-> IF AnyError THEN {} ELSE listed]
    /\ pc' = "returned"
    /\ UNCHANGED <<mapping, todo, open, pool, prescan>>

\* Slip: a failing write is only logged.
WriteSwallowed ==
    /\ pc = "compose"
    /\ pc' = "returned"
    /\ UNCHANGED <<mapping, todo, open, pool, prescan, artifact>>

WriteFails ==
    /\ pc = "compose"
    /\ pc' = "raised"
    /\ UNCHANGED <<mapping, todo, open, pool, prescan, artifact>>

Main ==
    \/ OpenSession \/ SessionFails
    \/ \E r \in Regions : OpenRegion(r) \/ OpenRegionFails(r)
    \/ \E u \in open : Submit(u)
    \/ AllSubmitted \/ PoolEnds \/ Write \/ WriteFails

Work(t) ==
    \/ StartUnit(t) \/ ClassFails(t) \/ EndUnit(t)
    \/ \E c \in Classes : ScanClass(t, c) \/ ClassIsEmpty(t, c)

Next == Main \/ \E t \in Threads : Work(t)

Spec == Init /\ [][Next]_vars

(* The main thread and the pool's threads run; calls to AWS return.        *)
FairSpec == Spec /\ WF_vars(Main) /\ \A t \in Threads : WF_vars(Work(t))

-----------------------------------------------------------------------------
Units == [region : Regions, service : Services, classes : SUBSET Classes]
Working == [working : {TRUE}, unit : Units, left : SUBSET Classes]
Listings == Classes \X Regions

TypeOK ==
    /\ mapping \in Mappings
    /\ pc \in {"session", "submit", "wait", "compose", "returned", "raised"}
    /\ todo \subseteq Regions
    /\ open \subseteq Units
    /\ queue \in Seq(Units)
    /\ worker \in [Threads -> Working \cup {Idle}]
    /\ listed \subseteq Listings /\ empty \subseteq Listings
    /\ failed \subseteq Units
    /\ prescan \in BOOLEAN
    /\ artifact \in [written : BOOLEAN, errors : BOOLEAN,
                     resources : SUBSET Listings]
    /\ artifact.written <=> pc = "returned"

(* An artifact without errors holds the listing of every class in every    *)
(* region it is mapped to, short only of those AWS refused with a code     *)
(* that is ignored; an artifact with errors holds no listing at all, so    *)
(* no part of a failed scan is ever merged into the graph                  *)
(* ("if there are any errors whatsoever we generate an empty graph").      *)
CompleteOrErrors ==
    artifact.written =>
      IF artifact.errors THEN artifact.resources = {}
      ELSE \A c \in Classes :
             /\ GetRegions(c) # {}
             /\ \A r \in GetRegions(c) :
                  <<c, r>> \in artifact.resources \cup empty

(* Two classes of one service are never scanned in one region at once,     *)
(* unless one is marked for it: what the units are organised for (API      *)
(* limits).                                                                *)
SerialClassesAlone ==
    \A t, u \in Threads :
      t # u /\ Busy(t) /\ Busy(u) /\ worker[t].unit.region = worker[u].unit.region
        => \A c \in worker[t].left, d \in worker[u].left :
             ServiceOf[c] = ServiceOf[d] => c \in ParallelScan \/ d \in ParallelScan

(* Once scan has returned or raised, no unit of it is left in the pool: a  *)
(* retry of the account never runs next to its first try.                  *)
NothingLeftRunning == pc \in {"returned", "raised"} => PoolIdle

(* Every scan ends, whatever fails in it.                                  *)
ScanEnds == <>(pc \in {"returned", "raised"})
=============================================================================
