# TLA+ models and proofs for Altimeter

Altimeter scans AWS accounts, writes the resources it finds as a graph, loads
the graph into Amazon Neptune, and runs queries ("query jobs") against the
latest graph, whose results it keeps in PostgreSQL. This directory holds TLA+
specifications of those parts, TLC configurations that check them on small
instances, and proofs that TLAPS checks. `PROJECT.json` lists the runs, the
theorems, the source lines behind each definition, the hazards the properties
aim at, and where the code and its own documentation disagree.

Run a model with `tlc -config <run>.cfg <MC module>.tla`, a proof with
`tlapm <module>.tla`.

## Inventory of the system

| Component | State it keeps | Operations | Interacts through |
|---|---|---|---|
| Neptune client, `core/neptune/client.py` | none of its own but signing credentials; its state is in Neptune: named graphs, metadata graph, load jobs, vertices and edges | `load_graph`, `run_query`, `get_graph_metadatas`, `clear_registered_graph`, `clear_graph_data`, `write_to_neptune_lpg`, `write_to_neptune_rdf` | one HTTP request per step; nothing spans two requests |
| Graph pruner, `core/pruner.py` | the snapshot of the metadata, the list of uncleared graphs | `prune_graph` | Neptune client |
| aws2n, `aws/aws2n.py`; aws2neptune, `bin/aws2neptune.py` | scan id | scan, write, load, publish on SNS | run_scan, artifacts in S3, Neptune client |
| Scan muxer, `aws/scan/muxer/` | scanned and unscanned account ids, futures of the current try | `scan` (a generator) | thread pool, account scan lambdas |
| run_scan, `aws/scan/scan.py` | account lists, errors, graph sets | consume the generator, read artifacts, merge, write the manifest | muxer, artifacts |
| Account scanner, `aws/scan/account_scanner.py` | futures of its scan units | `scan` | AWS APIs, artifacts |
| Region mapping, `aws/resource_service_region_mapping.py` | the fetched service/region table, drawn regions | `get_regions` | called by the account scanner |
| Resource classes, `aws/resource/` | the resources gathered so far | `scan`, `list_from_aws` | AWS APIs |
| Graph sets, `core/graph/graph_set.py` | pure | `from_graph_sets`, `dedupe_resources`, `merge_resources` | called by run_scan |
| Links, `core/graph/links.py`, `core/resource/resource.py` | the cache of tag nodes | `to_rdf`, `to_lpg` | called when a graph set is written |
| Table export, `bin/json2hyper.py` | key counters, keys by id | `build_table_defns`, `build_data` | files |
| Fields, `core/graph/field/`, `schema.py` | pure | parse API answers into links | called by the resource classes |
| Session access, `aws/auth/` | credentials cache shared by threads | `get_session`, `put`, `get` | STS |
| Query job store, `qj/crud/crud_job.py` | job versions, active flags, SQL views | create, update_version, delete | REST API, PostgreSQL |
| Result set store, `qj/crud/crud_result_set.py` | result sets and results | create, get latest, delete expired | REST API, PostgreSQL, SNS |
| Query job lambdas, `qj/lambdas/` | none | executor, query, pruner | SNS, FIFO queue, REST API, Neptune client |
| QJ client, `qj/client.py` | none | `create_or_update_active_job`, ... | REST API |
| API keys, `qj/security.py`, `qj/api/deps.py` | current and pending secret | validate | Secrets Manager |
| Lambda entry point, `bin/altimeter_lambda.py` | none | choose scan, account scan or prune | all of the above |
| Configuration, logging, deployment, neo4j importer, GraphQL API | - | I/O, data and wiring | - |

What makes the behaviour hard: every client of Neptune works by separate
requests, so loads, prunes and queries interleave between any two of them;
loads go on when their client has died; clear requests fail half way; the scan
hands work to threads and lambdas that fail, time out and are retried while
they share one artifact per account; resources vanish while they are listed;
graph sets are merged in the order in which threads finished; jobs and results
are changed through an API by callers that read first and write later, in
transactions that lock rows and views in opposite orders; the queue delivers
more than once.

What makes each component correct:

* Store, loader, pruner, querier: a registered graph is complete, a query is
  answered from a complete graph, selections do not go back in time, only
  expired graphs are unregistered and that before their data goes, whatever is
  left behind is reclaimed in the end.
* Scan: each account is settled at most once, its graph belongs to the result
  booked for it, accounts are given up only after all tries, the scan ends.
* Account scan: the artifact is complete or carries errors and nothing else,
  classes that must not run side by side do not, nothing outlives the scan.
* Resource listing: a resource that vanishes fails only the classes that catch
  nothing and hides no other resource; throttling ends.
* Merge and outputs: the merged set does not depend on the order of arrival;
  property graph, triples and tables say what it says.
* Query job store: at most one active version, which has views of its columns;
  every request is answered although they wait for each other.
* Fan-out and query pipeline: each listed job is enqueued, and no manual run is
  taken for a repetition of another; a message is acknowledged only when its
  results were stored and, as its job asks, notified, and every message ends so or
  dead; results belong to a job; what has expired is deleted in the end.

## Modules

| Module | Models | Checked and proved in |
|---|---|---|
| `GraphStore` | Neptune's graphs with a loader, pruners and queriers | `MCGraphStore` (runs `store_*`), `GraphStoreProofs` |
| `ScanRun` | one scan: muxer, thread pool, lambdas, run_scan | `MCScanRun` (runs `scan`, `scan_lost`), `ScanRunProofs` |
| `ScanOutcomes` | what a scan promises of each account | implemented by `ScanRun` |
| `AccountScan` | one account: regions, scan units, their pool, the artifact | `MCAccountScan` (run `account`), `AccountScanProofs` |
| `ResourceListing` | one resource class: calls, tolerated answers, retries | run `listing`, `ResourceListingProofs` |
| `GraphMerge` | the merge of the graph sets of a run | through `GraphOutput`, `GraphOutputProofs` |
| `LpgWrite`, `RdfGraph`, `HyperExport` | the merged set as property graph, as triples, as tables | through `GraphOutput`, `GraphOutputProofs` |
| `GremlinWrite` | the batched write of a property graph | through `LpgWrite`, `GraphOutputProofs` |
| `GraphOutput` | the merge composed with the three outputs | `MCGraphOutput` (runs `graph`, `equal_copies`, `hyper_keys`), `GraphOutputProofs` |
| `JobStore` | versions and views of a query job in PostgreSQL | `MCJobStore` (run `jobs`), `JobStoreProofs` |
| `PublishedJob` | what the job store promises to readers | implemented by `JobStore` |
| `JobFanOut` | the executor lambda and the FIFO queue's deduplication | `MCJobFanOut` (run `fanout`), `JobFanOutProofs` |
| `QueryPipeline` | query lambda, result sets, notification, expiry | `MCQueryPipeline` (run `query`), `QueryPipelineProofs` |

How they fit together: `AccountScan` is what one lambda of `ScanRun` does, and
`ResourceListing` what one `ScanClass` step of `AccountScan` does; the graph
sets `ScanRun` collects are those `GraphMerge` merges; what `RdfGraph` converts
is what the loader of `GraphStore` loads; `JobFanOut` sends the messages that
`QueryPipeline` accepts, of jobs that `JobStore` keeps. Each module abstracts the
next by the outcomes it may have.

### GraphStore

One action is one request to Neptune, or one step of Neptune's bulk loader,
which is modelled from how `load_graph` polls it. A graph is a model value that
stands for its uri; its version and end time are the tags written by the scan.
Its triples are a set of `Chunks`, of which a load writes one at a time.

* Loader: `ScanEnd` (RDF written and tagged), `SubmitLoad`, `PollCompleted`,
  `Register` and `RegisterAnswerLost` (the insert of the metadata), `Publish`,
  `LoaderFails` (any exception, or the process dies). `JobWrites`,
  `JobCompletes` and `JobFails` go on independently of the loader.
* Pruner: `PrunerStart` fixes the cut-off, `ReadMetadatas` takes the snapshot,
  `SkipGraph`, `ClearMetadata` and `ClearData` are the loop over it in the
  order of the query (latest first), `FindOrphans` and `ClearOrphan` the second
  loop, `PrunerFinish` returns or raises. Each clear request may fail, applied
  or not; `PrunerCrash` stands for a failing read and for a killed process.
* Querier: `NoGraphs`, `NoFreshGraph` and `Select` are the outcomes of
  `_get_latest_graph_metadata`, `Execute` and `QueryFails` of the query itself.

`Exclusive` is what operations may add to the code: loads and prunes are
scheduled so that they never overlap. The code does nothing to ensure it.

### ScanRun

The main thread is modelled by `phase` and `current` (the plan whose manifest
has been yielded and is being processed): `BuildPlans` starts a try,
`YieldManifest` and `SkipRaised` are the two outcomes of `future.result()`,
`MergeManifest` is the body of run_scan's loop up to the generator's
bookkeeping, after which `as_completed` goes on. `MergeManifestTwice` is the
same step for an account already booked, where removing it from a set raises.
`EndTry` decides on another try, `Finish` and `MergeFails` end the scan. The
pool takes plans in order (`Invoke`, `InvokeRefused`) and a lambda's
life is `LambdaWrites`, `LambdaReturns`, `LambdaDies`. An account's artifact is one
variable whatever try writes it, as in the code, where the key is made of scan
id and account id only; its content is abstracted to "a graph" or "errors
only". The manifests and graphs are kept as a set: their order matters only to
the merge, which is not part of this module.

`Detached` is the set of accounts whose lambda may go on when its caller has given
up. The read timeout is ten seconds longer than the lambda's own limit, so a
timeout never leaves one behind; a connection that breaks in the middle does. The
properties speak of the accounts that are configured once (`OnceAccounts`), and
`GraphMatchesResult` of those among them that are not detached (`Plain`), beside any
others: what a repeated or a detached account does must not spoil theirs.

### AccountScan

`mapping` is the region mapping, drawn at random for account-wide classes
(`Mappings`, `CandidateRegions`). The main thread opens the session and works
out the regions (`OpenSession`), submits the units of a region one by one
(`OpenRegion`, `Submit`, `UnitsOf`), leaves the pool's `with` block when
every unit has ended (`PoolEnds`) and writes the artifact (`Write`,
`WriteFails`). An exception in it is recorded (`PrescanError`) and submission
stops, while units already in the pool go on. Threads run units class by class:
`StartUnit`, `ScanClass`, `ClassIsEmpty`, `ClassFails`, `EndUnit`. A unit is a set of
classes of one service and region (`Unit`), all that are not parallel in one unit
and each parallel class in its own. The order in which units are submitted and
classes of a unit scanned is left open: the code's order is one of them, and no
property depends on it.

### ResourceListing

Every class follows one pattern (`Class`): a listing call, detail calls for each
resource, and perhaps calls about all of them. The classes are constants of the
module, one for each entry of the list of classes to scan, that say which
answers leave a resource out, which leave a detail out, how often a throttled
call is tried, and whether the class is skipped outside the master account.
Resources vanish at any moment (`Vanish`), and so do parts of one that stays
(`PartVanishes`): the default version of a policy, an access key. AWS says that a
resource is gone when it is, and answers a call that names a part (`OfPart`) the
same way when the part is gone. For a detector, whose class passes over any
`BadRequestException`, each call counts as one about a part. `Uncaught` are the three
classes that catch nothing when they ask about what was listed, by them or by
another class. `Escapes` is an error that reaches `_list_from_aws`, which turns the codes
in `AWS_API_IGNORE_ERRORS` into an empty result, and `AWSResourceSpec.scan` then
parses what was listed.

### GraphMerge, LpgWrite, GremlinWrite, RdfGraph, HyperExport, GraphOutput

One action is one turn of a loop. A link is a record of its kind, predicate,
object and, for a multi link, its own links, in the order in which a
`LinkCollection` keeps them.

* `GraphMerge`: `Arrive` takes the graph sets in any order, `FromGraphSets` starts
  `from_graph_sets` or raises for different versions. `Chain` chains their
  resources and errors, `Group` brings the copies of each resource together, `Keep`
  and `MergeResources` are the two cases of `dedupe_resources`. The latter starts
  `merge_resources`: copy by copy and link by link, `NewLink`, `SameLink` and
  `ConflictingLink`, which raises; `EndMerge` makes the merged resource. `Wins` is
  the rule of `allow_clobber`; copies of types none of which wins raise. `phase` and `at` say which loop runs and how many
  turns are done.
* `LpgWrite` converts the merged set to lists of vertices and edges in the order
  of the code's loops: `LinkToLpg` takes the first link of `stack` and puts the
  links of a multi link in its place, then `ResourceToLpg` adds the vertex.
  `WriteToNeptune` hands the lists to `GremlinWrite`. That takes
  them element by element into a traversal (`AddToBatch`), which it sends when the
  count is a multiple of the batch size or the list has ended (`SendVertices`,
  `SendEdges`); a send that raises (`SendFails`) has been applied or not, ends the
  write and leaves what was sent. Neptune makes a vertex for the end of an edge
  that it does not have; its label is called "stub" here.
* `RdfGraph`: the recursion of `to_rdf` is a list `todo` of the calls to come, each of
  a node and a link. `ValueToRdf`, `MultiToRdf` and `TagToRdf` are the calls, with a
  new blank node for each multi link and, by the node cache, one for each tag. All
  triples are inserted by one request. `told` is a history variable: which links
  `to_rdf` was called with for which node; no action depends on it.
* `HyperExport` builds the table definitions and then rows, resource by resource,
  multi link by multi link (`ExportResource`, `ExportMulti`) and column by column
  (`FillColumn`, `LeaveNull`), drawing keys from one counter for each table name.
* `GraphOutput` lets a run choose one of the three programs.

### JobStore and PublishedJob

One action is one statement of a transaction or one step of a client between
its requests. `Ensure` starts `create_or_update_active_job`, which goes on with
`Get`, `Create`, `Activate` and the request's own steps; `OperatorPatch` and
`OperatorDelete` are single requests. An activation is `Read`, `ReadAll`, `Drop`,
`Make`, `Commit`; a deletion `DeleteRows`, `Purge`, `Erase`. The session keeps what it
has read (`seen`, `flags`) and writes only what it changed (`Touched`, `Written`);
the partial unique index, row locks, the lock on the views' name and the
detection of deadlocks are PostgreSQL's part (`IndexRefuses`, `Blocked`,
`viewLock`, `DeadlockVictim`).

`PublishedJob` is the abstract view of a reader: a set of versions, the active
one, and the columns the views have. Steps of it are atomic; each is implemented
by the commit of a transaction.

### JobFanOut and QueryPipeline

`JobFanOut`: a notification or a manual run starts the executor (`Start`), which
lists the active jobs and sends one message for each (`Send`); it may fail anywhere
(`Fail`) and is started again from the beginning. A message's ids are hashes of the
job's JSON and of `ExecutionHash`: that of the notification, or of a uuid which is
new for each start of a manual run. The queue drops a message whose id it remembers
and forgets ids (`WindowPasses`). Jobs are edited and deactivated meanwhile.

`QueryPipeline`: a message is received (`Receive`), its query run and the result
posted (`RunQuery`); the API request goes on by itself, also when the lambda that
sent it has died (`LambdaFails`), so that a second delivery may run beside it. The
database is READ COMMITTED, so each statement after which another request may
commit is a step: `Lookup` of the job, `Insert` with its commit, `Refresh` of the
expired object, `ReadResults` (the test of `result_set.results`, then that of the job's
`notify_if_results`), `Notify`, and `Respond`, which reads the job for the answer. The
pruner selects what is expired by the age the job has then (`SelectExpired`) and
deletes just that at its commit (`DeleteSelected`), or loses its connection before
(`PruneFails`); `DeleteJob` takes the result sets along. `vanished` is a history
variable, the result sets deleted between their commit and `ReadResults`: for them
the API answers 201 and tells nobody. That a message is received a limited number of
times and then goes to a dead letter queue is an assumption on the deployment: the
repository does not define the queue.

## Runs

| Run | Question | Instance |
|---|---|---|
| `store_exclusive` | complete graphs, complete answers, unregister only what expired and before clearing, a prune that returns overlooked nothing, selections never go back, everything reclaimed | 2 graphs of one version, 1 chunk, 1 pruner, 1 querier, retention 2, query age 1, query time 1, clock up to 3, 1 failure, loads and prunes exclusive |
| `store_orphan_race` | *violated*: registered graphs are complete without exclusion | 1 graph |
| `scan` | nothing twice, graphs match results, retries complete, refinement, the scan ends | 3 accounts, the last configured twice, the second with a detached lambda, 2 tries, 2 threads |
| `scan_lost` | *violated*: the manifest lists every account | 2 accounts |
| `account` | complete or errors only, no two serial classes at once, nothing left running, the scan ends | 2 regions, 2 threads, ec2 with two serial classes and the global iam with a parallel one |
| `listing` | deletions fail only what catches nothing and hide nothing, listings end | all classes, 2 resources, each of which may lose a part |
| `graph` | the merge is independent of order, each output says what it says | any set of up to 4 of 9 graph sets, and two sets with a tenth that gives an id another type, in any order, batches of 3 |
| `equal_copies` | *violated*: equal copies of a resource are merged | as `graph` |
| `hyper_keys` | *violated*: primary keys of a table differ | as `graph` |
| `jobs` | one active version, views, refinement, every request answered | 2 clients that ensure and send single requests, 2 versions, 2 queries |
| `fanout` | every listed job enqueued, manual runs not deduplicated | 2 jobs, one edited once and one deactivated, a notification started twice, 2 manual runs |
| `query` | results have jobs, acknowledged messages were delivered, what expired is deleted, every message ends | 1 job with 2 revisions, the second expiring earlier; a message of the first, with notification, received twice |

The bounds suffice for the cases the properties are about.

* Store: two graphs are the least for "latest" and for a prune beside a load; a
  chunk not yet written makes a partial load visible; three ticks let a graph be
  fresh, stale and expired; one failure reaches each failing request, in any
  place, and the proofs cover more, also several pruners.
* Scan: two tries are the least for an account that is tried again beside a lambda
  left behind by the first; four plans and two threads leave some queued while
  one runs and one is consumed. A repeated account, a detached one and a plain one
  show that the first two do not spoil the third. The proofs cover more tries.
* Account: two serial classes of one service in two regions make units of
  several classes; the parallel class leaves an empty serial unit; two threads
  are the least for overlap.
* Listing: two resources let one vanish, or lose a part, while the other must
  survive.
* Graph: the nine sets hold each kind of link, nested multi links, an account
  that is listed and scanned or not, a subnet of two accounts that agree or not,
  targets found before or after the links to them, equal copies, another version.
  A tenth, in two more choices, gives an id a type that none of its others may
  clobber. The 257 choices, in each order, are 193 596 states; four sets give a resource a third copy and leave one set without part in it.
  Batches of three are full, part-filled and empty at the end.
* Jobs: two versions have an older and a newer, two clients every interleaving
  of two transactions. `Reactivate` and `OverlapCreate` are FALSE: an operator who
  activates an older version, and a version created while a DELETE is served,
  are cases in which `PublishedJob` and `ActiveHasViews` are not promised (a
  DELETE takes only the versions it saw and drops the views of the one it did
  not).
* Fan-out: two starts of a notification are a retry, within the queue's memory or
  after it; two manual runs are the least of which one could be taken for the
  other; an edit and a deactivation change the list between them.
* Query: two deliveries let a request of a dead lambda run beside another; the
  second revision changes the expiration under stored sets, so that sets expire
  before, between and after the pruner's two steps.

Deadlock is checked in GraphStore, where a pruner can always start. The other
runs end in states where nothing more happens: a finished scan, listing or
write, no id left for another version, all messages ended. Graphs and pruners
are symmetric where no liveness is checked; accounts are not, because the pool
takes them in order.

Fairness. In `store_exclusive`, Neptune ends each job (weak fairness of each
job), a loader that lives goes on (its failure is one of its steps), and the
pruner is invoked by a schedule again and again and takes its steps. No scan,
query or failure is forced, and failures of the pruner are finitely many
(`MaxFailures`): a pruner that fails for ever reclaims nothing. In `scan` the main
thread goes on, some thread of the pool and some lambda that can step does. There
and in `account` threads run, calls return and lambdas end by their time limit;
connections need not break. In `listing` AWS answers each call. In `jobs` a
request's next statement is strongly fair: PostgreSQL grants locks in the order
of their queue. In `query` the queue delivers a message whose group is free
again and again, services answer, and a lambda returns or is killed by its time
limit.

## What the runs found

Stated by runs that find them violated:

* The pruner takes a graph for an orphan when it is not in the snapshot read
  before its expiry loop. A graph being loaded, or registered in the meantime,
  is cleared and stays registered without triples (`store_orphan_race`).
* An account whose invocation raises in each try is in neither list of the scan
  manifest (`scan_lost`).
* Copies of a resource are merged link by link, with one link for each predicate:
  two equal copies of a resource that has a list of links are refused, for the
  second link of the list differs from the first. The docstrings of
  `dedupe_resources` and `merge_resources` say that identical copies are merged
  (`equal_copies`).
* json2hyper draws the key of a resource it meets as the target of a foreign key
  from the counter of the predicate ("vpc") and not of the table ("ec2_vpc"), so
  two rows of a table may have one primary key (`hyper_keys`).

Met while modelling; no text of the repository says otherwise, or no run is
needed to see it:

* An old graph of a higher version hides a fresh one of a lower version, and the
  query is refused. The docstring of `_get_latest_graph_metadata` (client.py:439)
  says that this is raised "if no graphs could be found within" the maximum age;
  with two versions the code (client.py:451-488) looks at one graph only and does
  otherwise. `NoFreshMeansNoneFresh` states the docstring; it is checked by no run,
  since `store_exclusive` has one version, and proved for behaviours with versions
  in the order of end times. Versions are compared as strings, so "10" comes before
  "9".
* An account scanned with errors is in both lists of the manifest. A duplicate in
  the configured accounts makes the muxer raise KeyError (`MergeManifestTwice`;
  `scan` passes through it). The artifact of an account whose lambda is detached can
  be overwritten between the result and its reading, so `GraphMatchesResult` speaks
  of the others.
* Two scans that end in the same second have the same uri, for it is made of
  name, version and end time. `ScanEnd` excludes it.
* An account-wide class is mapped to one preferred region at random; an account
  that has not enabled that region fails as a whole.
* `validate_resources` only prints the references it cannot
  resolve, though its docstring says that it raises.
* In the property graph the errors of a scan are listed twice, and their
  "generated" edges come from name and version, which no vertex has. A failed
  write leaves a partial graph; nothing removes it. `write_to_neptune_rdf`
  inserts the scan's triples into the metadata graph.
* Two tags that read the same as "key:value" share a node, in both graphs. Vertices
  of tags and of resources are told apart by their ids only, so a tag that spells
  an ARN would share the vertex of that resource; `IdsAssumption` excludes it.
* json2hyper puts the parent's key into the first foreign key column by name,
  which for a detector's members is `_detector_id`; it ignores transient links
  where there are resource links, fills no "arn" column of multi links, and gives
  multi links nested in multi links no row. Of several links of one predicate only
  the first is looked at, so the column does not tell of the others, even when the
  first leads to a resource that was not scanned and a later one to one that was:
  `ForeignKeysMeetRows` speaks of the first, and of tables where the parent's
  column comes first.
* An organizational unit deleted after it was listed fails the scan of its class, and
  with it of the account: nothing is caught below `list_organizational_units_for_parent`.
  A policy whose default version is replaced and deleted meanwhile, or a user who
  loses an access key, is left out although it is still there.
* The API reads a result set again after the commit that stored it. If it was pruned
  or its job deleted in between, the answer is 500 or a 201 without notification. A
  delivery repeated after a failed notification stores its results twice. A job
  edited between two starts of one notification is enqueued twice, once for each
  revision.
* Changing `max_result_age_sec` of an active version does not change the interval
  compiled into its `_latest` view.

## Proofs

All theorems hold for any sets of graphs, pruners, queriers, accounts, classes,
clients, jobs, messages and resources, any ages, tries and threads, under the
named assumptions of the modules on their constants (numbers are naturals, at
least one version, one try, one thread, one query).

`GraphStoreProofs`:

* `TypeCorrect`.
* `ClearedUnregistered`, `OnlyExpired`: by `PruneInv`. The property that the
  graph being cleared is unregistered is not inductive, since another step might
  register it again; `PruneInv` adds that whatever is in a pruner's list has been
  registered or given up by its loader, which registers only once, and that a
  pruner's cut-off never runs ahead of the clock.
* `ReturnedPruned`: a prune that returns without raising has unregistered and
  cleared all it saw expired, with loads and other pruners beside it. By `SweepInv`: each such
  graph is pruned, still to be, or among the uncleared, and its load job has
  ended, so that nothing fills it again.
* `NeverRegress`: if the querier's maximum age does not exceed the pruner's. By
  `RegressInv`: a graph selected once is registered until it has expired, so
  that a later selection, being fresh, is younger.
* `RegisteredAreLoaded`: if `Exclusive`. By `ExclusiveInv`: no prune runs while
  a load is active, so everything a job has written is still there, and no
  registered graph is missing from a running pruner's snapshot.
* `AnswersAreComplete`: if also `AgeMargin` (query age plus query time within
  the pruner's age). By `QueryInv`: a graph being queried is still registered.
* `NoFreshNoneFresh`: in a behaviour whose registered graphs always have their
  versions in the order of their end times (`VersionsInOrder`); the corollary
  `OneVersionNoneFresh` replaces that by a single version. Without it the property is
  false: the latest graph, being that of the highest version, need not be the
  youngest. The theorem says where the docstring holds.

`ScanRunProofs`:

* `ScanTypeCorrect`; `IdleInv`: no future is left between tries.
* `NoAccountTwice`: for each account configured once. By `BookInv`: an account that is
  queued, running or about to be yielded is not booked.
* `MissingWereAttempted`: by `AttemptInv`: the tries so far have attempted every
  account not booked, except those in the queue.
* `MergedGraphMatches`: for each account configured once and not detached. By
  `MatchInv`: a live lambda of it is awaited, so its artifact does not change once
  its future is set.
* `ScanRefinesOutcomes`: for the accounts configured once. `MergeManifest` of one of
  them implements `Settle`, the step that ends the scan implements `Finish`, all
  others stutter, also those of repeated accounts.

`AccountScanProofs`:

* `AccountTypeCorrect`: also that the artifact is there exactly when the scan has
  returned.
* `SerialClassesNeverOverlap`. By `PlaceInv`: a unit is in one place only, to be
  submitted, queued or with one worker. All serial classes of a service and
  region are in one unit, so two workers never have two of them.
* `NothingRuns`. By `PoolInv`: the `with` block is left only when the pool is
  empty, whether the main thread came to its end or raised, and nothing is
  submitted after it.
* `ArtifactComplete`. By `ScanInv`: until something fails, a class and a region it
  is mapped to are pending (the region not opened yet, or a unit of it with the
  class to be submitted, queued, or with a worker that still has the class left)
  or done. When the pool has ended nothing is pending.

`ResourceListingProofs`: the facts about the classes (`DetailFacts`: no detail call
leaves out a resource unless it is gone or denied, each class but the uncaught ones
takes the answer "gone" to each of its calls, and an uncaught class to none), and
from them

* `DeletionsFailUncaught`, by `CauseInv`, which keeps what was answered and by which
  class beside the outcome: "gone" ends the listing of exactly the classes in
  `Uncaught`, which are EC2Instance, OU and OrgsAccount;
* `DeletionsHideNothing`, by `ListedInv`: while the resources are looked at, each
  that still exists with its parts is to be done, at hand, done or refused. A
  resource that lost a part is excepted, for the code leaves it out.

`JobStoreProofs`:

* `JobStoreTypeCorrect`.
* `OneActive`: `AtMostOneActive` is inductive, and what keeps it is the partial
  unique index. A session writes what it computed from rows another may have
  changed since; the commit that would leave two active versions is refused.
* `ActiveIsPublished`: unless a version is created while a DELETE is served
  (`~OverlapCreate`). A DELETE then deletes every version, so the views it drops
  are no active version's (`DeletesAll`).
* `JobStorePublishes`: the store implements `PublishedJob`, if also operators
  activate nothing (`~Reactivate`). The insert of a row is `Add`, a commit that
  activates a version `Activate`, another that changes the active version
  `Deactivate`, the erasing of a job `Delete`; all other steps stutter. By `OwnInv`
  (a version is activated only once, by the client that created it, and is not
  active before), `SeenInv` (the query a session has read is still that of its
  version, unless it was deleted, for ids are not used again) and `EraseInv` (a
  DELETE that is about to end has the lock on views, or there are none). `RowSteps`
  and `RowsKept` say which steps change rows at all.

`JobFanOutProofs`:

* `FanOutTypeCorrect`: also that a start uses up one of its notification's.
* `ListedReachQueue`, by `ProgressInv`: what an executor was answered with is
  still to be sent or in the queue, as a message of this execution.
* `ManualRunsNotDeduplicated`, by `FreshInv`: the queue remembers no message that a
  manual run has yet to send, nor one of a start to come, since an execution hash
  belongs to one start only (`HashesApart`) and a start sends each message once.

`QueryPipelineProofs`:

* `QueryTypeCorrect`: the number of deliveries is bounded by `ReceivesInv`.
* `NotifiedAreStored`, by `StoreInv`: a request about to notify has committed. (Not a
  property of a run.)
* `StoredBelongToJobs`, inductive: the insert fails when the job is gone and the
  deletion of a job takes its result sets.
* `AcknowledgedOnlyDelivered`: a message is acknowledged on the answer 201 to its own
  delivery. By `RequestInv` (a delivery whose lambda has not posted has no request)
  and `StoreInv` (a request past its commit has a committed result set, and one past
  its notification has notified, had nothing to notify, or found the set deleted).
  `DeliveredIsKept`: no later step undoes a delivery.

`GraphOutputProofs`, for any graph sets, links nested to any depth, tables and
batch size. Its `GraphInv` is the conjunction of an invariant for each part:

* `MergeIsAsTold`, by `MergeInv`, which goes through the phases of the merge. While
  chaining, what is chained is what the sets so far contain (`ChainInv`); while
  grouping, each id that was looked at has one group, and it holds exactly the
  resources with that id (`GroupInv`); while linking, the links collected are those
  looked at and one for a predicate (`LinkInv`); so each merged resource is as it
  was told (`MergedInv`), and a merge that raised had a reason (`RaisedInv`). None
  of it mentions an order of arrival. What is refused is stated as the code has it
  (`Unmergable`): a resource no type of which wins, or one seen several times with
  two links of one predicate, in different copies or in one. The latter refuses equal
  copies too; that this is not what the docstrings say is the run `equal_copies`.
* `WrittenWhole`, `EdgesAreJoined`, `StoredAreListed`, by `WriteInv`: the batch is the
  part of the list up to the count that has not been sent (`Batched`), what is
  before it is stored, and the edges are begun when all vertices are stored. So
  a write that returned has stored both lists, for any remainder by the batch
  size; a failed one has stored no edge without its ends; and a vertex made up
  for the end of an edge never stands in the place of a listed one.
* `MergedIsWritten`, from these and `ToLpgInv`: each link within a resource is an edge
  of the list, or it or one that it is nested in is on the stack (`EdgesInv`);
  the vertices listed are those of resources, tags, errors and the scan, and a
  resource's id is that of no other vertex (`VerticesInv`).
* `RdfIsTold`, by `RdfInv`: each link that a node was told of is meant by a triple
  of that node or still to be converted (`ToldWhole`), and each triple of a node
  means one of its links (`ToldOnly`). Blank nodes are numbered in order, so that
  no triple has the one that comes next; a cached node is that of a tag with the
  same "key:value" (`NodesInv`).
* `KeysMeetRows`, by `HyperInv`: a key once drawn is remembered and never changes
  (`KeysGrow`), and each row, finished or being built, has the keys that are
  remembered for its own id and for the ids its columns name (`GoodRow`). Two
  ids may have one key, as `hyper_keys` shows; the theorem does not say otherwise.

What these proofs assume of the constants, and why it is so:

* `RunsAssumption`, `LinksAssumption`: graph sets, resources and links are lists and
  records of the shape the classes give them; a `LinkCollection` is ordered by kind
  and only multi links have links of their own.
* `ClobberAssumption`: of any types at most one wins, and an account that could not
  be scanned in one place wins over its scanned copies. `UnscannedAccount` is the only
  class in any `allow_clobber`, so the code's loop over the dictionary has one outcome.
* `IdsAssumption`: the ids of resources and the targets of links are ARNs, different
  from the id of the scan, which has a new uuid in it, and from every "key:value"
  of a tag. The code does not enforce the last (see "What the runs found").
* `TagsAssumption`: `TagId` is defined for the tags there are. `LabelsAssumption`: no
  label is "stub", which only the model calls a made-up vertex.
* `NestedAssumption` is the definition of `Nested`, `ColumnsAssumption` says that of
  two columns at most one sorts before the other, `BatchSizeAssumption` that the
  batch size is positive.

Only model-checked: the liveness properties (`OrphansReclaimed`, `ExpiredReclaimed`,
`ScanEnds` of the scan and of the account scan, `ListingEnds`, `RequestsAnswered`,
`ExpiredAreDeleted`, `EveryMessageEnds`), which are beyond this prover, like ENABLED. Every other
property of a run that passes is stated by a theorem; where a run assumes
exclusion, margins or single versions by its constants, so does the theorem.

The recursion over nested links would need induction over data, which is out of
reach too. The proofs avoid it: the conversions are actions that take one link at
a time, and their invariants speak of links that are done and links to come, so
that each step needs the links directly under one link only.

## Plan for what is left

1. A catalogue of complete graphs that `GraphStore` implements under `Exclusive`.
2. The credentials cache shared by threads, with two entries.

## Not modelled

* Fields and schemas: each parses one API answer, recursively and without
  state; they would be transcribed, not abstracted.
* API authentication compares a key with the current and pending secret, read
  anew for each request.
* AWS session access: that getting a session may fail is a step of
  `AccountScan`; the chain of roles and the cache behind it is not modelled.
* The lambda entry point chooses scan, account scan or prune; each is modelled
  and `GraphStore` lets a pruner start at any time.
* Configuration, logging, request signing, database migrations, deployment
  stacks, the neo4j importer and the GraphQL API: I/O, data or wiring without
  state of their own. Configured values are constants of the modules.
* Serialisation (RDF/XML, JSON, gzip, CSV) is abstracted to the content it
  carries, and scalar values to their identity: data types of literals, vertex
  properties and scalar columns are left out. Queries over several graph names
  are modelled for one name. Reads of result sets change nothing.
