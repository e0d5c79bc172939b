----------------------------- MODULE GraphStore -----------------------------
(***************************************************************************)
(* The Neptune graph store as its three kinds of client use it:            *)
(*                                                                         *)
(*   - a loader (aws2n, then AltimeterNeptuneClient.load_graph) writes the *)
(*     RDF of one finished scan into a named graph by a bulk load job and  *)
(*     then registers the graph in the metadata graph;                     *)
(*   - a querier (run_query) picks the latest registered graph and, in a   *)
(*     second request, runs its query against that graph;                  *)
(*   - the pruner (prune_graph) removes registered graphs that are too old *)
(*     and the named graphs it takes for orphans.                          *)
(*                                                                         *)
(* Every request to Neptune is one step, so the three interleave between   *)
(* any two requests.  A member of Graphs stands for the uri                *)
(* https://alti/<name>/<version>/<end_time> of one scan's graph.           *)
(***************************************************************************)
EXTENDS Integers, FiniteSets

CONSTANTS
  Graphs,        \* the graphs of successive scans, named by their uris
  Versions,      \* graph versions, numbered in the order of their strings
  Chunks,        \* the parts in which a bulk load writes a graph's triples
  Pruners,       \* concurrent executions of prune_graph
  Queriers,      \* concurrent callers of run_query
  PrunerMaxAge,  \* pruner_max_age_min
  QueryMaxAge,   \* max_age_min of the querying client
  QueryTimeout,  \* longest time from a querier's selection to its answer
  MaxTime,       \* bound of the clock
  MaxFailures,   \* bound on failing requests and crashes of the pruner
  Exclusive      \* TRUE if operations never let a load overlap a prune

ASSUME AgesAssumption ==
  /\ PrunerMaxAge \in Nat
  /\ QueryMaxAge \in Nat
  /\ QueryTimeout \in Nat
  /\ MaxTime \in Nat
  /\ MaxFailures \in Nat

ASSUME VersionsAssumption == Versions \subseteq Nat /\ Versions # {}

ASSUME ExclusiveAssumption == Exclusive \in BOOLEAN

None == "none"

ASSUME NoneAssumption == None \notin Graphs

VARIABLES
  now,       \* the clocks of all hosts, taken to agree
  failures,  \* failures of the pruner so far
  \* the store
  data,      \* the triples of each named graph
  meta,      \* the graphs registered in the metadata graph
  job,       \* the bulk load job of each graph
  written,   \* what the job has written so far
  \* the loaders
  load,      \* progress of each graph's load_graph call
  version,   \* tag "version" of the graph
  endTime,   \* tag "end_time" of the graph
  \* the pruners
  ppc,       \* control of prune_graph
  cutoff,    \* oldest_acceptable_graph_epoch
  snapshot,  \* all_graph_metadatas
  todo,      \* what the running for loop has left
  current,   \* the graph whose data clear_registered_graph clears next
  uncleared, \* graphs whose clearing raised
  \* the queriers
  qpc,       \* control and outcome of run_query
  chosen,    \* the graph selected last
  chosenAt,  \* when it was selected
  rows       \* the triples the last answer was computed from

storeVars == <<data, meta, job, written>>
loadVars  == <<load, version, endTime>>
pruneVars == <<ppc, cutoff, snapshot, todo, current, uncleared>>
queryVars == <<qpc, chosen, chosenAt, rows>>
vars == <<now, failures, storeVars, loadVars, pruneVars, queryVars>>

LoadState  == {"none", "scanned", "polling", "loaded", "registered", "done", "failed"}
JobState   == {"none", "LOAD_NOT_STARTED", "LOAD_IN_PROGRESS", "LOAD_COMPLETED", "LOAD_FAILED"}
PruneState == {"idle", "metadatas", "prune", "clear_data", "orphans", "raised"}
QueryState == {"idle", "selected", "answered", "NoGraphsFound", "NoFreshGraphFound", "failed"}

TypeOK ==
  /\ now \in Nat
  /\ failures \in Nat
  /\ data \in [Graphs -> SUBSET Chunks]
  /\ meta \subseteq Graphs
  /\ job \in [Graphs -> JobState]
  /\ written \in [Graphs -> SUBSET Chunks]
  /\ load \in [Graphs -> LoadState]
  /\ version \in [Graphs -> Versions]
  /\ endTime \in [Graphs -> Nat]
  /\ ppc \in [Pruners -> PruneState]
  /\ cutoff \in [Pruners -> Int]
  /\ snapshot \in [Pruners -> SUBSET Graphs]
  /\ todo \in [Pruners -> SUBSET Graphs]
  /\ current \in [Pruners -> Graphs \cup {None}]
  /\ uncleared \in [Pruners -> SUBSET Graphs]
  /\ qpc \in [Queriers -> QueryState]
  /\ chosen \in [Queriers -> Graphs \cup {None}]
  /\ chosenAt \in [Queriers -> Nat]
  /\ rows \in [Queriers -> SUBSET Chunks]
  /\ \A p \in Pruners : ppc[p] = "clear_data" => current[p] # None
  /\ \A q \in Queriers : qpc[q] = "selected" => chosen[q] # None

Init ==
  /\ now = 0
  /\ failures = 0
  /\ data = [g \in Graphs |-> {}]
  /\ meta = {}
  /\ job = [g \in Graphs |-> "none"]
  /\ written = [g \in Graphs |-> {}]
  /\ load = [g \in Graphs |-> "none"]
  /\ version = [g \in Graphs |-> CHOOSE v \in Versions : TRUE]
  /\ endTime = [g \in Graphs |-> 0]
  /\ ppc = [p \in Pruners |-> "idle"]
  /\ cutoff = [p \in Pruners |-> 0]
  /\ snapshot = [p \in Pruners |-> {}]
  /\ todo = [p \in Pruners |-> {}]
  /\ current = [p \in Pruners |-> None]
  /\ uncleared = [p \in Pruners |-> {}]
  /\ qpc = [q \in Queriers |-> "idle"]
  /\ chosen = [q \in Queriers |-> None]
  /\ chosenAt = [q \in Queriers |-> 0]
  /\ rows = [q \in Queriers |-> {}]

PruneIdle(p) == ppc[p] \in {"idle", "raised"}

JobActive(g) == job[g] \in {"LOAD_NOT_STARTED", "LOAD_IN_PROGRESS"}

\* A load counts as running until its client has registered the graph or
\* given up and Neptune has ended the job.
LoadActive(g) == load[g] \in {"polling", "loaded"} \/ JobActive(g)

(***************************************************************************)
(* Time.  A query that is still running when its time is up has failed, so *)
(* the clock waits for no one else.                                        *)
(***************************************************************************)
Tick ==
  /\ now < MaxTime
  /\ \A q \in Queriers : qpc[q] = "selected" => now < chosenAt[q] + QueryTimeout
  /\ now' = now + 1
  /\ UNCHANGED <<failures, storeVars, loadVars, pruneVars, queryVars>>

-----------------------------------------------------------------------------
(***************************************************************************)
(* The loader.                                                             *)
(***************************************************************************)

\* A scan ends and its RDF is in S3, tagged with version and end time.  The
\* uri is made of both, so no two graphs agree on both.
ScanEnd(g) ==
  /\ load[g] = "none"
  /\ \E v \in Versions :
       /\ \A h \in Graphs \ {g} :
            load[h] # "none" => <<version[h], endTime[h]>> # <<v, now>>
       /\ version' = [version EXCEPT ![g] = v]
  /\ endTime' = [endTime EXCEPT ![g] = now]
  /\ load' = [load EXCEPT ![g] = "scanned"]
  /\ UNCHANGED <<now, failures, storeVars, pruneVars, queryVars>>

\* load_graph posts the load; Neptune answers 200 and queues the job.
SubmitLoad(g) ==
  /\ load[g] = "scanned"
  /\ Exclusive => \A p \in Pruners : PruneIdle(p)
  /\ load' = [load EXCEPT ![g] = "polling"]
  /\ job' = [job EXCEPT ![g] = "LOAD_NOT_STARTED"]
  /\ UNCHANGED <<now, failures, data, meta, written, version, endTime,
                 pruneVars, queryVars>>

\* Slip: the poll loop is left as soon as the status is not a failing one.
PollNotFailed(g) ==
  /\ load[g] = "polling"
  /\ job[g] # "LOAD_FAILED"
  /\ load' = [load EXCEPT ![g] = "loaded"]
  /\ UNCHANGED <<now, failures, storeVars, version, endTime, pruneVars, queryVars>>

\* The status poll sees LOAD_COMPLETED and leaves the loop.
PollCompleted(g) ==
  /\ load[g] = "polling"
  /\ job[g] = "LOAD_COMPLETED"
  /\ load' = [load EXCEPT ![g] = "loaded"]
  /\ UNCHANGED <<now, failures, storeVars, version, endTime, pruneVars, queryVars>>

\* _register_graph inserts the metadata entry.
Register(g) ==
  /\ load[g] = "loaded"
  /\ meta' = meta \cup {g}
  /\ load' = [load EXCEPT ![g] = "registered"]
  /\ UNCHANGED <<now, failures, data, job, written, version, endTime,
                 pruneVars, queryVars>>

\* The insert is applied but its answer is lost: load_graph raises although
\* the graph is registered.
RegisterAnswerLost(g) ==
  /\ load[g] = "loaded"
  /\ meta' = meta \cup {g}
  /\ load' = [load EXCEPT ![g] = "failed"]
  /\ UNCHANGED <<now, failures, data, job, written, version, endTime,
                 pruneVars, queryVars>>

\* aws2n publishes the "graph loaded" notification and returns.
Publish(g) ==
  /\ load[g] = "registered"
  /\ load' = [load EXCEPT ![g] = "done"]
  /\ UNCHANGED <<now, failures, storeVars, version, endTime, pruneVars, queryVars>>

\* A request is refused, the job ends in a failing status, or the process
\* running aws2n is killed.  A job already queued goes on without it.
LoaderFails(g) ==
  /\ load[g] \in {"scanned", "polling", "loaded", "registered"}
  /\ load' = [load EXCEPT ![g] = "failed"]
  /\ UNCHANGED <<now, failures, storeVars, version, endTime, pruneVars, queryVars>>

-----------------------------------------------------------------------------
(***************************************************************************)
(* Neptune's bulk loader.  A load is no transaction: what it has written   *)
(* is in the named graph at once and stays there if the job fails.         *)
(***************************************************************************)
JobWrites(g) ==
  /\ JobActive(g)
  /\ \E c \in Chunks \ written[g] :
       /\ written' = [written EXCEPT ![g] = @ \cup {c}]
       /\ data' = [data EXCEPT ![g] = @ \cup {c}]
  /\ job' = [job EXCEPT ![g] = "LOAD_IN_PROGRESS"]
  /\ UNCHANGED <<now, failures, meta, loadVars, pruneVars, queryVars>>

JobCompletes(g) ==
  /\ job[g] = "LOAD_IN_PROGRESS"
  /\ written[g] = Chunks
  /\ job' = [job EXCEPT ![g] = "LOAD_COMPLETED"]
  /\ UNCHANGED <<now, failures, data, meta, written, loadVars, pruneVars, queryVars>>

JobFails(g) ==
  /\ JobActive(g)
  /\ job' = [job EXCEPT ![g] = "LOAD_FAILED"]
  /\ UNCHANGED <<now, failures, data, meta, written, loadVars, pruneVars, queryVars>>

-----------------------------------------------------------------------------
(***************************************************************************)
(* The pruner.                                                             *)
(***************************************************************************)
PrunerStart(p) ==
  /\ PruneIdle(p)
  /\ Exclusive => \A g \in Graphs : ~LoadActive(g)
  /\ ppc' = [ppc EXCEPT ![p] = "metadatas"]
  /\ cutoff' = [cutoff EXCEPT ![p] = now - PrunerMaxAge]
  /\ UNCHANGED <<now, failures, storeVars, loadVars, snapshot, todo, current,
                 uncleared, queryVars>>

\* Slip: the metadatas are a generator that is used up before the loop.
ReadMetadatasOnce(p) ==
  /\ ppc[p] = "metadatas"
  /\ snapshot' = [snapshot EXCEPT ![p] = meta]
  /\ todo' = [todo EXCEPT ![p] = {}]
  /\ ppc' = [ppc EXCEPT ![p] = "prune"]
  /\ UNCHANGED <<now, failures, storeVars, loadVars, cutoff, current, uncleared, queryVars>>

\* get_graph_metadatas
ReadMetadatas(p) ==
  /\ ppc[p] = "metadatas"
  /\ snapshot' = [snapshot EXCEPT ![p] = meta]
  /\ todo' = [todo EXCEPT ![p] = meta]
  /\ ppc' = [ppc EXCEPT ![p] = "prune"]
  /\ UNCHANGED <<now, failures, storeVars, loadVars, cutoff, current, uncleared, queryVars>>

\* The loop visits the metadatas in the order of the query: latest first.
IsNext(p, g) == g \in todo[p] /\ \A h \in todo[p] : endTime[h] <= endTime[g]

\* Slip: a graph exactly at the limit counts as expired.
ExpiredAtLimit(p, g) == endTime[g] <= cutoff[p]

Expired(p, g) == endTime[g] < cutoff[p]

\* The graph is young enough.
SkipGraph(p, g) ==
  /\ ppc[p] = "prune"
  /\ IsNext(p, g)
  /\ ~Expired(p, g)
  /\ todo' = [todo EXCEPT ![p] = @ \ {g}]
  /\ UNCHANGED <<now, failures, storeVars, loadVars, ppc, cutoff, snapshot,
                 current, uncleared, queryVars>>

\* Slip: the data is cleared before the metadata.
ClearDataFirst(p, g) ==
  /\ ppc[p] = "prune"
  /\ IsNext(p, g)
  /\ Expired(p, g)
  /\ current' = [current EXCEPT ![p] = g]
  /\ ppc' = [ppc EXCEPT ![p] = "clear_data"]
  /\ UNCHANGED <<now, failures, storeVars, loadVars, cutoff, snapshot, todo,
                 uncleared, queryVars>>

\* clear_registered_graph, first request: clear_graph_metadata.
ClearMetadata(p, g) ==
  /\ ppc[p] = "prune"
  /\ IsNext(p, g)
  /\ Expired(p, g)
  /\ meta' = meta \ {g}
  /\ current' = [current EXCEPT ![p] = g]
  /\ ppc' = [ppc EXCEPT ![p] = "clear_data"]
  /\ UNCHANGED <<now, failures, data, job, written, loadVars, cutoff, snapshot,
                 todo, uncleared, queryVars>>

\* Slip: the loop does not go on to the next graph.
ClearDataForever(p) ==
  /\ ppc[p] = "clear_data"
  /\ data' = [data EXCEPT ![current[p]] = {}]
  /\ current' = [current EXCEPT ![p] = None]
  /\ UNCHANGED <<now, failures, meta, job, written, loadVars, ppc, cutoff, snapshot,
                 todo, uncleared, queryVars>>

\* clear_registered_graph, second request: clear_graph_data.
ClearData(p) ==
  /\ ppc[p] = "clear_data"
  /\ data' = [data EXCEPT ![current[p]] = {}]
  /\ todo' = [todo EXCEPT ![p] = @ \ {current[p]}]
  /\ current' = [current EXCEPT ![p] = None]
  /\ ppc' = [ppc EXCEPT ![p] = "prune"]
  /\ UNCHANGED <<now, failures, meta, job, written, loadVars, cutoff, snapshot,
                 uncleared, queryVars>>

\* Slip: the set difference is taken the wrong way round.
FindDangling(p) ==
  /\ ppc[p] = "prune"
  /\ todo[p] = {}
  /\ todo' = [todo EXCEPT ![p] = snapshot[p] \ {g \in Graphs : data[g] # {}}]
  /\ ppc' = [ppc EXCEPT ![p] = "orphans"]
  /\ UNCHANGED <<now, failures, storeVars, loadVars, cutoff, snapshot, current,
                 uncleared, queryVars>>

\* get_graph_uris: every named graph with triples, less the snapshot.
FindOrphans(p) ==
  /\ ppc[p] = "prune"
  /\ todo[p] = {}
  /\ todo' = [todo EXCEPT ![p] = {g \in Graphs : data[g] # {}} \ snapshot[p]]
  /\ ppc' = [ppc EXCEPT ![p] = "orphans"]
  /\ UNCHANGED <<now, failures, storeVars, loadVars, cutoff, snapshot, current,
                 uncleared, queryVars>>

ClearOrphan(p, g) ==
  /\ ppc[p] = "orphans"
  /\ g \in todo[p]
  /\ data' = [data EXCEPT ![g] = {}]
  /\ todo' = [todo EXCEPT ![p] = @ \ {g}]
  /\ UNCHANGED <<now, failures, meta, job, written, loadVars, ppc, cutoff,
                 snapshot, current, uncleared, queryVars>>

EndOfRun(p) ==
  /\ cutoff' = [cutoff EXCEPT ![p] = 0]
  /\ snapshot' = [snapshot EXCEPT ![p] = {}]
  /\ uncleared' = [uncleared EXCEPT ![p] = {}]

\* Return, or raise if anything is left uncleared.
PrunerFinish(p) ==
  /\ ppc[p] = "orphans"
  /\ todo[p] = {}
  /\ ppc' = [ppc EXCEPT ![p] = IF uncleared[p] = {} THEN "idle" ELSE "raised"]
  /\ EndOfRun(p)
  /\ UNCHANGED <<now, failures, storeVars, loadVars, todo, current, queryVars>>

\* A clear request fails; the loop goes on with the next graph.  Whether a
\* failing request was applied is not known to the pruner.
PrunerFailure ==
  /\ failures < MaxFailures
  /\ failures' = failures + 1
  /\ UNCHANGED <<now, job, written, loadVars, queryVars>>

ClearMetadataFails(p, g) ==
  /\ ppc[p] = "prune"
  /\ IsNext(p, g)
  /\ Expired(p, g)
  /\ PrunerFailure
  /\ meta' \in {meta, meta \ {g}}
  /\ todo' = [todo EXCEPT ![p] = @ \ {g}]
  /\ uncleared' = [uncleared EXCEPT ![p] = @ \cup {g}]
  /\ UNCHANGED <<data, ppc, cutoff, snapshot, current>>

\* Slip: the failure is logged and not remembered.
ClearDataFailsUnnoted(p) ==
  /\ ppc[p] = "clear_data"
  /\ PrunerFailure
  /\ data' \in {data, [data EXCEPT ![current[p]] = {}]}
  /\ todo' = [todo EXCEPT ![p] = @ \ {current[p]}]
  /\ current' = [current EXCEPT ![p] = None]
  /\ ppc' = [ppc EXCEPT ![p] = "prune"]
  /\ UNCHANGED <<meta, cutoff, snapshot, uncleared>>

ClearDataFails(p) ==
  /\ ppc[p] = "clear_data"
  /\ PrunerFailure
  /\ data' \in {data, [data EXCEPT ![current[p]] = {}]}
  /\ todo' = [todo EXCEPT ![p] = @ \ {current[p]}]
  /\ uncleared' = [uncleared EXCEPT ![p] = @ \cup {current[p]}]
  /\ current' = [current EXCEPT ![p] = None]
  /\ ppc' = [ppc EXCEPT ![p] = "prune"]
  /\ UNCHANGED <<meta, cutoff, snapshot>>

ClearOrphanFails(p, g) ==
  /\ ppc[p] = "orphans"
  /\ g \in todo[p]
  /\ PrunerFailure
  /\ data' \in {data, [data EXCEPT ![g] = {}]}
  /\ todo' = [todo EXCEPT ![p] = @ \ {g}]
  /\ uncleared' = [uncleared EXCEPT ![p] = @ \cup {g}]
  /\ UNCHANGED <<meta, ppc, cutoff, snapshot, current>>

\* A read request raises out of prune_graph, or the process is killed.
PrunerCrash(p) ==
  /\ ~PruneIdle(p)
  /\ PrunerFailure
  /\ ppc' = [ppc EXCEPT ![p] = "raised"]
  /\ todo' = [todo EXCEPT ![p] = {}]
  /\ current' = [current EXCEPT ![p] = None]
  /\ EndOfRun(p)
  /\ UNCHANGED <<data, meta>>

-----------------------------------------------------------------------------
(***************************************************************************)
(* The querier: run_query for one graph name.                              *)
(***************************************************************************)

\* ORDER BY DESC(?version) DESC(?end_time)
AtLeastAsLate(g, h) ==
  \/ version[g] > version[h]
  \/ version[g] = version[h] /\ endTime[g] >= endTime[h]

\* Slip: LIMIT without ORDER BY.
IsRegistered(g) == g \in meta

IsLatest(g) == g \in meta /\ \A h \in meta : AtLeastAsLate(g, h)

\* Slip: the age check is lost.
AnyAge(g) == g \in Graphs

Fresh(g) == endTime[g] >= now - QueryMaxAge

NoGraphs(q) ==
  /\ qpc[q] # "selected"
  /\ meta = {}
  /\ qpc' = [qpc EXCEPT ![q] = "NoGraphsFound"]
  /\ UNCHANGED <<now, failures, storeVars, loadVars, pruneVars, chosen, chosenAt, rows>>

NoFreshGraph(q) ==
  /\ qpc[q] # "selected"
  /\ \E g \in meta : IsLatest(g) /\ ~Fresh(g)
  /\ qpc' = [qpc EXCEPT ![q] = "NoFreshGraphFound"]
  /\ UNCHANGED <<now, failures, storeVars, loadVars, pruneVars, chosen, chosenAt, rows>>

Select(q, g) ==
  /\ qpc[q] # "selected"
  /\ IsLatest(g)
  /\ Fresh(g)
  /\ qpc' = [qpc EXCEPT ![q] = "selected"]
  /\ chosen' = [chosen EXCEPT ![q] = g]
  /\ chosenAt' = [chosenAt EXCEPT ![q] = now]
  /\ rows' = [rows EXCEPT ![q] = {}]
  /\ UNCHANGED <<now, failures, storeVars, loadVars, pruneVars>>

\* run_raw_query on the graph selected before, whatever it holds by now.
Execute(q) ==
  /\ qpc[q] = "selected"
  /\ qpc' = [qpc EXCEPT ![q] = "answered"]
  /\ rows' = [rows EXCEPT ![q] = data[chosen[q]]]
  /\ chosenAt' = [chosenAt EXCEPT ![q] = 0]
  /\ UNCHANGED <<now, failures, storeVars, loadVars, pruneVars, chosen>>

QueryFails(q) ==
  /\ qpc[q] = "selected"
  /\ qpc' = [qpc EXCEPT ![q] = "failed"]
  /\ chosenAt' = [chosenAt EXCEPT ![q] = 0]
  /\ UNCHANGED <<now, failures, storeVars, loadVars, pruneVars, chosen, rows>>

-----------------------------------------------------------------------------
LoaderStep(g) ==
  \/ SubmitLoad(g) \/ PollCompleted(g) \/ Register(g) \/ Publish(g)
  \/ LoaderFails(g)

JobStep(g) == JobWrites(g) \/ JobCompletes(g) \/ JobFails(g)

PrunerStep(p) ==
  \/ PrunerStart(p) \/ ReadMetadatas(p) \/ ClearData(p)
  \/ FindOrphans(p) \/ PrunerFinish(p)
  \/ \E g \in Graphs : SkipGraph(p, g) \/ ClearMetadata(p, g) \/ ClearOrphan(p, g)

PrunerFails(p) ==
  \/ ClearDataFails(p)
  \/ PrunerCrash(p)
  \/ \E g \in Graphs : ClearMetadataFails(p, g) \/ ClearOrphanFails(p, g)

QuerierStep(q) ==
  \/ NoGraphs(q) \/ NoFreshGraph(q) \/ Execute(q) \/ QueryFails(q)
  \/ \E g \in Graphs : Select(q, g)

Next ==
  \/ Tick
  \/ \E g \in Graphs : ScanEnd(g) \/ LoaderStep(g) \/ RegisterAnswerLost(g) \/ JobStep(g)
  \/ \E p \in Pruners : PrunerStep(p) \/ PrunerFails(p)
  \/ \E q \in Queriers : QuerierStep(q)

Spec == Init /\ [][Next]_vars

(***************************************************************************)
(* Fairness: Neptune ends every job, a live aws2n process goes on, and the *)
(* pruner is invoked on a schedule and takes its steps.  Nothing forces a  *)
(* scan, a query or a failure to happen.                                   *)
(***************************************************************************)
Fairness ==
  /\ \A g \in Graphs : WF_vars(LoaderStep(g)) /\ WF_vars(JobStep(g))
  /\ \A p \in Pruners : WF_vars(PrunerStep(p))

FairSpec == Spec /\ Fairness

-----------------------------------------------------------------------------
\* What an operator must see to when configuring the two: the pruner spares a
\* graph for as long as a query that selected it may run.
AgeMargin == QueryMaxAge + QueryTimeout <= PrunerMaxAge

(***************************************************************************)
(* Properties.                                                             *)
(***************************************************************************)

\* What get_graph_metadatas says of the graphs it returns: a registered graph
\* holds every triple of its scan.  A query trusts it for its answer.
RegisteredFullyLoaded == \A g \in meta : data[g] = Chunks

\* A query that has been answered was answered from a complete graph, although
\* the graph was selected in an earlier request than the one that read it.
AnswersComplete == \A q \in Queriers : qpc[q] = "answered" => rows[q] = Chunks

\* Between its two requests clear_registered_graph leaves a graph no query can
\* select any more, so that a failing second request does no harm.
DataClearedUnregistered ==
  \A p \in Pruners : ppc[p] = "clear_data" => current[p] \notin meta

\* The pruner unregisters a graph only when it is older than pruner_max_age_min
\* by the clock of that moment, however old its snapshot has become.
OnlyExpiredUnregistered ==
  [][\A g \in meta \ meta' : endTime[g] < now - PrunerMaxAge]_vars

\* A prune_graph that returns without raising has unregistered and cleared every
\* graph that it saw registered and expired, whatever loads and other pruners,
\* also failing ones, did to those graphs meanwhile.
ReturnedHasPruned ==
  [][\A p \in Pruners :
       ppc[p] = "orphans" /\ ppc'[p] = "idle" =>
         \A g \in snapshot[p] : Expired(p, g) => g \notin meta' /\ data'[g] = {}]_vars

\* Queries of one client never go back in time: the graph selected next is not
\* older, by version and by end time, than the graph selected before, whichever
\* graphs have been registered and pruned between.
ReadsNeverRegress ==
  [][\A q \in Queriers :
       chosen[q] \in Graphs /\ chosen'[q] # chosen[q] =>
         \/ AtLeastAsLate(chosen'[q], chosen[q])
         \/ endTime[chosen'[q]] > endTime[chosen[q]]]_vars

\* _get_latest_graph_metadata on NeptuneNoFreshGraphFoundException: raised "if
\* no graphs could be found within" the maximum age.  The code does otherwise
\* when an older graph has the higher version: it looks at one graph only, and
\* versions sort before end times.  Proved for versions in order of end times.
NoFreshMeansNoneFresh ==
  [][\A q \in Queriers :
       qpc'[q] = "NoFreshGraphFound" /\ qpc[q] # "NoFreshGraphFound" =>
         \A g \in meta : ~Fresh(g)]_vars

\* A load that was given up leaves nothing behind for ever: its triples are
\* cleared, also those its job writes after the loader died, also when the
\* pruner's first attempts fail.
OrphansReclaimed ==
  \A g \in Graphs :
    load[g] = "failed" /\ ~JobActive(g) /\ g \notin meta ~> data[g] = {}

\* A registered graph older than pruner_max_age_min is in the end neither
\* registered nor stored, also when clearing its data fails in the run that
\* unregistered it.
ExpiredReclaimed ==
  \A g \in Graphs :
    g \in meta /\ endTime[g] < now - PrunerMaxAge ~> g \notin meta /\ data[g] = {}

-----------------------------------------------------------------------------
(***************************************************************************)
(* Inductive invariants from which the properties above are proved.        *)
(***************************************************************************)

\* The load_graph call has registered the graph or will never do so.
Settled(g) == load[g] \in {"registered", "done", "failed"}

\* What each pruner knows stays true although the others go on meanwhile.
PruneInv ==
  /\ \A g \in meta : Settled(g)
  /\ \A p \in Pruners : ~PruneIdle(p) => cutoff[p] <= now - PrunerMaxAge
  /\ \A p \in Pruners :
       ppc[p] \in {"prune", "clear_data"} => \A g \in todo[p] : Settled(g)
  /\ \A p \in Pruners :
       ppc[p] = "clear_data" => current[p] \in todo[p] /\ current[p] \notin meta

\* A registered graph's load has ended, so that nothing writes to it again, and a
\* pruner has pruned what it saw expired, is still to do so, or knows it has not.
SweepInv ==
  /\ \A g \in Graphs : load[g] = "loaded" \/ g \in meta => job[g] = "LOAD_COMPLETED"
  /\ \A p \in Pruners :
       ppc[p] \in {"prune", "clear_data", "orphans"} =>
         \A g \in snapshot[p] :
           /\ Settled(g) /\ job[g] = "LOAD_COMPLETED"
           /\ Expired(p, g) => \/ g \in uncleared[p]
                               \/ ppc[p] # "orphans" /\ g \in todo[p]
                               \/ g \notin meta /\ data[g] = {}

\* With loads and prunes kept apart: what a running load has written is all
\* there, and a running pruner's snapshot still lists every registered graph.
ExclusiveInv ==
  /\ \A g \in Graphs : LoadActive(g) => \A p \in Pruners : PruneIdle(p)
  /\ \A g \in Graphs :
       load[g] \in {"none", "scanned"} => job[g] = "none" /\ written[g] = {}
  /\ \A g \in Graphs : JobActive(g) => written[g] \subseteq data[g]
  /\ \A g \in Graphs :
       load[g] = "polling" /\ job[g] = "LOAD_COMPLETED" => data[g] = Chunks
  /\ \A g \in Graphs : load[g] = "loaded" => data[g] = Chunks
  /\ \A g \in meta : data[g] = Chunks
  /\ \A p \in Pruners :
       ppc[p] \in {"prune", "clear_data", "orphans"} => meta \subseteq snapshot[p]
  /\ \A p \in Pruners : ppc[p] = "orphans" => todo[p] \cap snapshot[p] = {}

\* With the age margin: the graph a query works on is still registered.
QueryInv ==
  \A q \in Queriers :
    qpc[q] = "selected" =>
      /\ chosen[q] \in meta
      /\ endTime[chosen[q]] >= chosenAt[q] - QueryMaxAge
      /\ now <= chosenAt[q] + QueryTimeout

\* A graph that was selected once is registered until it has expired.
RegressInv ==
  \A q \in Queriers :
    chosen[q] \in Graphs =>
      /\ Settled(chosen[q])
      /\ chosen[q] \in meta \/ endTime[chosen[q]] < now - PrunerMaxAge
=============================================================================
