-------------------------- MODULE GraphStoreProofs --------------------------
(***************************************************************************)
(* Proofs about GraphStore, for any numbers of graphs, pruners and         *)
(* queriers and any bounds.                                                *)
(***************************************************************************)
EXTENDS GraphStore, TLAPS

\* The constants are as the module assumes.
LEMMA ConstantFacts ==
  /\ PrunerMaxAge \in Nat /\ QueryMaxAge \in Nat /\ QueryTimeout \in Nat
  /\ MaxTime \in Nat /\ MaxFailures \in Nat
  /\ Versions \subseteq Nat /\ (CHOOSE v \in Versions : TRUE) \in Versions
  /\ Exclusive \in BOOLEAN
  /\ None \notin Graphs
  BY AgesAssumption, VersionsAssumption, ExclusiveAssumption, NoneAssumption

-----------------------------------------------------------------------------
(* Type correctness *)

\* Every variable keeps its type in every step of the program.
THEOREM TypeCorrect == Spec => []TypeOK
<1> USE ConstantFacts DEF TypeOK, LoadState, JobState, PruneState, QueryState
<1>1. Init => TypeOK
  BY DEF Init
<1>2. TypeOK /\ [Next]_vars => TypeOK'
  <2> SUFFICES ASSUME TypeOK, [Next]_vars PROVE TypeOK'
    OBVIOUS
  <2> USE DEF storeVars, loadVars, pruneVars, queryVars
  <2>1. CASE Tick
    BY <2>1 DEF Tick
  <2>2. ASSUME NEW g \in Graphs, ScanEnd(g) PROVE TypeOK'
    BY <2>2 DEF ScanEnd
  <2>3. ASSUME NEW g \in Graphs, LoaderStep(g) \/ RegisterAnswerLost(g)
        PROVE  TypeOK'
    BY <2>3 DEF LoaderStep, SubmitLoad, PollCompleted, Register, Publish,
                LoaderFails, RegisterAnswerLost
  <2>4. ASSUME NEW g \in Graphs, JobStep(g) PROVE TypeOK'
    <3>1. CASE JobWrites(g)
      BY <3>1 DEF JobWrites
    <3>2. CASE JobCompletes(g) \/ JobFails(g)
      BY <3>2 DEF JobCompletes, JobFails
    <3>3. QED
      BY <2>4, <3>1, <3>2 DEF JobStep
  <2>5. ASSUME NEW p \in Pruners, PrunerStep(p) PROVE TypeOK'
    <3>1. CASE PrunerStart(p)
      BY <3>1 DEF PrunerStart
    <3>2. CASE ReadMetadatas(p)
      BY <3>2 DEF ReadMetadatas
    <3>3. CASE ClearData(p)
      BY <3>3 DEF ClearData
    <3>4. CASE FindOrphans(p)
      BY <3>4 DEF FindOrphans
    <3>5. CASE PrunerFinish(p)
      BY <3>5 DEF PrunerFinish, EndOfRun
    <3>6. ASSUME NEW g \in Graphs, SkipGraph(p, g) \/ ClearMetadata(p, g) \/ ClearOrphan(p, g)
          PROVE  TypeOK'
      <4>1. CASE SkipGraph(p, g)
        BY <4>1 DEF SkipGraph
      <4>2. CASE ClearMetadata(p, g)
        BY <4>2 DEF ClearMetadata
      <4>3. CASE ClearOrphan(p, g)
        BY <4>3 DEF ClearOrphan
      <4>4. QED
        BY <3>6, <4>1, <4>2, <4>3
    <3>7. QED
      BY <2>5, <3>1, <3>2, <3>3, <3>4, <3>5, <3>6 DEF PrunerStep
  <2>6. ASSUME NEW p \in Pruners, PrunerFails(p) PROVE TypeOK'
    <3> USE DEF PrunerFailure
    <3>1. CASE ClearDataFails(p)
      <4>1. current[p] \in Graphs
        BY <3>1 DEF ClearDataFails
      <4>2. data' \in [Graphs -> SUBSET Chunks]
        BY <3>1 DEF ClearDataFails
      <4>3. /\ uncleared' \in [Pruners -> SUBSET Graphs]
            /\ todo' \in [Pruners -> SUBSET Graphs]
        BY <3>1, <4>1 DEF ClearDataFails
      <4>4. QED
        BY <3>1, <4>2, <4>3 DEF ClearDataFails
    <3>2. CASE PrunerCrash(p)
      BY <3>2 DEF PrunerCrash, EndOfRun
    <3>3. ASSUME NEW g \in Graphs, ClearMetadataFails(p, g) \/ ClearOrphanFails(p, g)
          PROVE  TypeOK'
      <4>1. CASE ClearMetadataFails(p, g)
        BY <4>1 DEF ClearMetadataFails
      <4>2. CASE ClearOrphanFails(p, g)
        BY <4>2 DEF ClearOrphanFails
      <4>3. QED
        BY <3>3, <4>1, <4>2
    <3>4. QED
      BY <2>6, <3>1, <3>2, <3>3 DEF PrunerFails
  <2>7. ASSUME NEW q \in Queriers, QuerierStep(q) PROVE TypeOK'
    <3>1. CASE NoGraphs(q) \/ NoFreshGraph(q)
      BY <3>1 DEF NoGraphs, NoFreshGraph
    <3>2. CASE Execute(q) \/ QueryFails(q)
      <4>1. CASE Execute(q)
        <5>1. chosen[q] \in Graphs /\ data[chosen[q]] \in SUBSET Chunks
          BY <4>1 DEF Execute
        <5>2. QED
          BY <4>1, <5>1 DEF Execute
      <4>2. CASE QueryFails(q)
        BY <4>2 DEF QueryFails
      <4>3. QED
        BY <3>2, <4>1, <4>2
    <3>3. ASSUME NEW g \in Graphs, Select(q, g) PROVE TypeOK'
      BY <3>3 DEF Select
    <3>4. QED
      BY <2>7, <3>1, <3>2, <3>3 DEF QuerierStep
  <2>8. CASE UNCHANGED vars
    BY <2>8 DEF vars
  <2>9. QED
    BY <2>1, <2>2, <2>3, <2>4, <2>5, <2>6, <2>7, <2>8 DEF Next
<1>3. QED
  BY <1>1, <1>2, PTL DEF Spec

-----------------------------------------------------------------------------
(* The pruner, whatever runs beside it *)

\* PruneInv holds initially and every step keeps it.
LEMMA PruneInvInductive ==
  /\ Init => PruneInv
  /\ TypeOK /\ PruneInv /\ [Next]_vars => PruneInv'
<1> USE ConstantFacts DEF PruneInv, Settled, PruneIdle
<1>1. Init => PruneInv
  BY DEF Init
<1>2. TypeOK /\ PruneInv /\ [Next]_vars => PruneInv'
  <2> SUFFICES ASSUME TypeOK, PruneInv, [Next]_vars PROVE PruneInv'
    OBVIOUS
  <2> USE DEF TypeOK, storeVars, loadVars, pruneVars, queryVars
  <2>1. CASE Tick
    BY <2>1 DEF Tick
  <2>2. ASSUME NEW g \in Graphs, ScanEnd(g) PROVE PruneInv'
    BY <2>2 DEF ScanEnd
  <2>3. ASSUME NEW g \in Graphs, LoaderStep(g) \/ RegisterAnswerLost(g)
        PROVE  PruneInv'
    <3>1. CASE SubmitLoad(g)
      BY <3>1 DEF SubmitLoad
    <3>2. CASE PollCompleted(g)
      BY <3>2 DEF PollCompleted
    <3>3. CASE Register(g)
      BY <3>3 DEF Register
    <3>4. CASE RegisterAnswerLost(g)
      BY <3>4 DEF RegisterAnswerLost
    <3>5. CASE Publish(g)
      BY <3>5 DEF Publish
    <3>6. CASE LoaderFails(g)
      BY <3>6 DEF LoaderFails
    <3>7. QED
      BY <2>3, <3>1, <3>2, <3>3, <3>4, <3>5, <3>6 DEF LoaderStep
  <2>4. ASSUME NEW g \in Graphs, JobStep(g) PROVE PruneInv'
    BY <2>4 DEF JobStep, JobWrites, JobCompletes, JobFails
  <2>5. ASSUME NEW p \in Pruners, PrunerStep(p) PROVE PruneInv'
    <3>1. CASE PrunerStart(p)
      BY <3>1 DEF PrunerStart
    <3>2. CASE ReadMetadatas(p)
      BY <3>2 DEF ReadMetadatas
    <3>3. CASE ClearData(p)
      BY <3>3 DEF ClearData
    <3>4. CASE FindOrphans(p)
      BY <3>4 DEF FindOrphans
    <3>5. CASE PrunerFinish(p)
      BY <3>5 DEF PrunerFinish, EndOfRun
    <3>6. ASSUME NEW g \in Graphs, SkipGraph(p, g) \/ ClearMetadata(p, g) \/ ClearOrphan(p, g)
          PROVE  PruneInv'
      <4>1. CASE SkipGraph(p, g)
        BY <4>1 DEF SkipGraph
      <4>2. CASE ClearMetadata(p, g)
        BY <4>2 DEF ClearMetadata, IsNext
      <4>3. CASE ClearOrphan(p, g)
        BY <4>3 DEF ClearOrphan
      <4>4. QED
        BY <3>6, <4>1, <4>2, <4>3
    <3>7. QED
      BY <2>5, <3>1, <3>2, <3>3, <3>4, <3>5, <3>6 DEF PrunerStep
  <2>6. ASSUME NEW p \in Pruners, PrunerFails(p) PROVE PruneInv'
    <3> USE DEF PrunerFailure
    <3>1. CASE ClearDataFails(p)
      BY <3>1 DEF ClearDataFails
    <3>2. CASE PrunerCrash(p)
      BY <3>2 DEF PrunerCrash, EndOfRun
    <3>3. ASSUME NEW g \in Graphs, ClearMetadataFails(p, g) \/ ClearOrphanFails(p, g)
          PROVE  PruneInv'
      <4>1. CASE ClearMetadataFails(p, g)
        BY <4>1 DEF ClearMetadataFails
      <4>2. CASE ClearOrphanFails(p, g)
        BY <4>2 DEF ClearOrphanFails
      <4>3. QED
        BY <3>3, <4>1, <4>2
    <3>4. QED
      BY <2>6, <3>1, <3>2, <3>3 DEF PrunerFails
  <2>7. ASSUME NEW q \in Queriers, QuerierStep(q) PROVE PruneInv'
    BY <2>7 DEF QuerierStep, NoGraphs, NoFreshGraph, Execute, QueryFails, Select
  <2>8. CASE UNCHANGED vars
    BY <2>8 DEF vars
  <2>9. QED
    BY <2>1, <2>2, <2>3, <2>4, <2>5, <2>6, <2>7, <2>8 DEF Next
<1>3. QED
  BY <1>1, <1>2

\* PruneInv is an invariant of the program.
LEMMA PruneInvariant == Spec => []PruneInv
<1>1. QED
  BY TypeCorrect, PruneInvInductive, PTL DEF Spec

\* clear_registered_graph clears the data of no graph a query could still select.
THEOREM ClearedUnregistered == Spec => []DataClearedUnregistered
<1>1. PruneInv => DataClearedUnregistered
  BY DEF PruneInv, DataClearedUnregistered
<1>2. QED
  BY <1>1, PruneInvariant, PTL

\* The only steps that unregister a graph are those of a pruner that has found
\* it expired.
LEMMA UnregisterStep ==
  ASSUME TypeOK, PruneInv, [Next]_vars, NEW g \in meta \ meta'
  PROVE  endTime[g] < now - PrunerMaxAge
<1> USE ConstantFacts DEF TypeOK, storeVars, loadVars, pruneVars, queryVars
<1>1. CASE Tick \/ UNCHANGED vars
  BY <1>1 DEF Tick, vars
<1>2. CASE \E h \in Graphs : ScanEnd(h) \/ LoaderStep(h) \/ RegisterAnswerLost(h) \/ JobStep(h)
  BY <1>2 DEF ScanEnd, LoaderStep, SubmitLoad, PollCompleted, Register, Publish,
              LoaderFails, RegisterAnswerLost, JobStep, JobWrites, JobCompletes, JobFails
<1>3. ASSUME NEW p \in Pruners, PrunerStep(p) \/ PrunerFails(p)
      PROVE  endTime[g] < now - PrunerMaxAge
  <2>1. PICK h \in Graphs : ClearMetadata(p, h) \/ ClearMetadataFails(p, h)
    BY <1>3 DEF PrunerStep, PrunerStart, ReadMetadatas, ClearData, FindOrphans,
                PrunerFinish, SkipGraph, ClearOrphan, PrunerFails, PrunerFailure,
                ClearDataFails, PrunerCrash, ClearOrphanFails
  <2>2. g = h /\ ppc[p] = "prune" /\ endTime[h] < cutoff[p]
    BY <2>1 DEF ClearMetadata, ClearMetadataFails, Expired
  <2>3. cutoff[p] <= now - PrunerMaxAge
    BY <2>2 DEF PruneInv, PruneIdle
  <2>4. QED
    BY <2>2, <2>3
<1>4. CASE \E q \in Queriers : QuerierStep(q)
  BY <1>4 DEF QuerierStep, NoGraphs, NoFreshGraph, Execute, QueryFails, Select
<1>5. QED
  BY <1>1, <1>2, <1>3, <1>4 DEF Next

\* No graph is unregistered before it is older than pruner_max_age_min.
THEOREM OnlyExpired == Spec => OnlyExpiredUnregistered
<1>1. TypeOK /\ PruneInv /\ [Next]_vars
        => [\A g \in meta \ meta' : endTime[g] < now - PrunerMaxAge]_vars
  BY UnregisterStep
<1>2. QED
  BY <1>1, TypeCorrect, PruneInvariant, PTL DEF Spec, OnlyExpiredUnregistered

-----------------------------------------------------------------------------
(* A pruner that returns *)

\* SweepInv holds initially and every step keeps it.
LEMMA SweepInvInductive ==
  /\ Init => SweepInv
  /\ TypeOK /\ PruneInv /\ SweepInv /\ [Next]_vars => SweepInv'
<1> USE ConstantFacts DEF PruneInv, SweepInv, Settled, PruneIdle, Expired
<1>1. Init => SweepInv
  BY DEF Init
<1>2. TypeOK /\ PruneInv /\ SweepInv /\ [Next]_vars => SweepInv'
  <2> SUFFICES ASSUME TypeOK, PruneInv, SweepInv, [Next]_vars PROVE SweepInv'
    OBVIOUS
  <2> USE DEF TypeOK, storeVars, loadVars, pruneVars, queryVars
  <2>1. CASE Tick
    BY <2>1 DEF Tick
  <2>2. ASSUME NEW g \in Graphs, ScanEnd(g) PROVE SweepInv'
    BY <2>2 DEF ScanEnd
  <2>3. ASSUME NEW g \in Graphs, LoaderStep(g) \/ RegisterAnswerLost(g)
        PROVE  SweepInv'
    <3>1. CASE SubmitLoad(g)
      BY <3>1 DEF SubmitLoad
    <3>2. CASE PollCompleted(g)
      BY <3>2 DEF PollCompleted
    <3>3. CASE Register(g)
      BY <3>3 DEF Register
    <3>4. CASE RegisterAnswerLost(g)
      BY <3>4 DEF RegisterAnswerLost
    <3>5. CASE Publish(g)
      BY <3>5 DEF Publish
    <3>6. CASE LoaderFails(g)
      BY <3>6 DEF LoaderFails
    <3>7. QED
      BY <2>3, <3>1, <3>2, <3>3, <3>4, <3>5, <3>6 DEF LoaderStep
  <2>4. ASSUME NEW g \in Graphs, JobStep(g) PROVE SweepInv'
    <3> USE DEF JobActive
    <3>1. CASE JobWrites(g)
      BY <3>1 DEF JobWrites
    <3>2. CASE JobCompletes(g)
      BY <3>2 DEF JobCompletes
    <3>3. CASE JobFails(g)
      BY <3>3 DEF JobFails
    <3>4. QED
      BY <2>4, <3>1, <3>2, <3>3 DEF JobStep
  <2>5. ASSUME NEW p \in Pruners, PrunerStep(p) PROVE SweepInv'
    <3>1. CASE PrunerStart(p)
      BY <3>1 DEF PrunerStart
    <3>2. CASE ReadMetadatas(p)
      BY <3>2 DEF ReadMetadatas
    <3>3. CASE ClearData(p)
      BY <3>3 DEF ClearData
    <3>4. CASE FindOrphans(p)
      BY <3>4 DEF FindOrphans
    <3>5. CASE PrunerFinish(p)
      BY <3>5 DEF PrunerFinish, EndOfRun
    <3>6. ASSUME NEW g \in Graphs, SkipGraph(p, g) \/ ClearMetadata(p, g) \/ ClearOrphan(p, g)
          PROVE  SweepInv'
      <4>1. CASE SkipGraph(p, g)
        BY <4>1 DEF SkipGraph
      <4>2. CASE ClearMetadata(p, g)
        BY <4>2 DEF ClearMetadata, IsNext
      <4>3. CASE ClearOrphan(p, g)
        BY <4>3 DEF ClearOrphan
      <4>4. QED
        BY <3>6, <4>1, <4>2, <4>3
    <3>7. QED
      BY <2>5, <3>1, <3>2, <3>3, <3>4, <3>5, <3>6 DEF PrunerStep
  <2>6. ASSUME NEW p \in Pruners, PrunerFails(p) PROVE SweepInv'
    <3> USE DEF PrunerFailure
    <3>1. CASE ClearDataFails(p)
      BY <3>1 DEF ClearDataFails
    <3>2. CASE PrunerCrash(p)
      BY <3>2 DEF PrunerCrash, EndOfRun
    <3>3. ASSUME NEW g \in Graphs, ClearMetadataFails(p, g) \/ ClearOrphanFails(p, g)
          PROVE  SweepInv'
      <4>1. CASE ClearMetadataFails(p, g)
        BY <4>1 DEF ClearMetadataFails
      <4>2. CASE ClearOrphanFails(p, g)
        BY <4>2 DEF ClearOrphanFails
      <4>3. QED
        BY <3>3, <4>1, <4>2
    <3>4. QED
      BY <2>6, <3>1, <3>2, <3>3 DEF PrunerFails
  <2>7. ASSUME NEW q \in Queriers, QuerierStep(q) PROVE SweepInv'
    BY <2>7 DEF QuerierStep, NoGraphs, NoFreshGraph, Execute, QueryFails, Select
  <2>8. CASE UNCHANGED vars
    BY <2>8 DEF vars
  <2>9. QED
    BY <2>1, <2>2, <2>3, <2>4, <2>5, <2>6, <2>7, <2>8 DEF Next
<1>3. QED
  BY <1>1, <1>2

\* A pruner goes from the loop over orphans to idle only by returning, and then
\* nothing is left uncleared.
LEMMA ReturnStep ==
  ASSUME TypeOK, [Next]_vars, NEW p \in Pruners,
         ppc[p] = "orphans", ppc'[p] = "idle"
  PROVE  uncleared[p] = {} /\ UNCHANGED <<meta, data>>
<1> USE DEF TypeOK, PruneState, storeVars, loadVars, pruneVars, queryVars
<1>1. ~UNCHANGED ppc
  OBVIOUS
<1>2. ~(Tick \/ UNCHANGED vars)
  BY <1>1 DEF Tick, vars
<1>3. ASSUME NEW g \in Graphs,
             ScanEnd(g) \/ LoaderStep(g) \/ RegisterAnswerLost(g) \/ JobStep(g)
      PROVE  FALSE
  BY <1>1, <1>3 DEF ScanEnd, LoaderStep, SubmitLoad, PollCompleted, Register, Publish,
              LoaderFails, RegisterAnswerLost, JobStep, JobWrites, JobCompletes, JobFails
<1>4. ASSUME NEW q \in Queriers, QuerierStep(q) PROVE FALSE
  BY <1>1, <1>4 DEF QuerierStep, NoGraphs, NoFreshGraph, Execute, QueryFails, Select
<1>5. PICK r \in Pruners : PrunerStep(r) \/ PrunerFails(r)
  BY <1>2, <1>3, <1>4 DEF Next
<1>6. ~PrunerFails(r)
  BY <1>1 DEF PrunerFails, PrunerFailure, ClearDataFails, PrunerCrash,
              ClearMetadataFails, ClearOrphanFails
<1>7. PrunerFinish(r)
  BY <1>1, <1>5, <1>6 DEF PrunerStep, PrunerStart, ReadMetadatas, ClearData,
              FindOrphans, SkipGraph, ClearMetadata, ClearOrphan
<1>8. QED
  BY <1>7 DEF PrunerFinish, EndOfRun

\* A prune_graph that returns without raising has unregistered and cleared all it
\* saw expired, whatever else went on.
THEOREM ReturnedPruned == Spec => ReturnedHasPruned
<1>1. Spec => []SweepInv
  BY TypeCorrect, PruneInvariant, SweepInvInductive, PTL DEF Spec
<1>2. TypeOK /\ SweepInv /\ [Next]_vars =>
        [\A p \in Pruners :
           ppc[p] = "orphans" /\ ppc'[p] = "idle" =>
             \A g \in snapshot[p] :
               Expired(p, g) => g \notin meta' /\ data'[g] = {}]_vars
  BY ReturnStep DEF SweepInv
<1>3. QED
  BY <1>1, <1>2, TypeCorrect, PTL DEF Spec, ReturnedHasPruned

-----------------------------------------------------------------------------
(* Successive queries *)

\* A settled graph keeps its tags and stays settled, and only the clock's own
\* step moves the clock.
LEMMA SettledStep ==
  ASSUME TypeOK, [Next]_vars
  PROVE  /\ \A g \in Graphs : Settled(g) =>
              Settled(g)' /\ endTime'[g] = endTime[g] /\ version'[g] = version[g]
         /\ now' = now \/ Tick
<1> USE ConstantFacts DEF TypeOK, Settled, storeVars, loadVars, pruneVars, queryVars
<1>1. CASE Tick \/ UNCHANGED vars
  BY <1>1 DEF Tick, vars
<1>2. ASSUME NEW g \in Graphs, ScanEnd(g) \/ LoaderStep(g) \/ RegisterAnswerLost(g) \/ JobStep(g)
      PROVE  /\ \A h \in Graphs : Settled(h) =>
                  Settled(h)' /\ endTime'[h] = endTime[h] /\ version'[h] = version[h]
             /\ now' = now
  <2>1. CASE ScanEnd(g)
    BY <2>1 DEF ScanEnd
  <2>2. CASE LoaderStep(g) \/ RegisterAnswerLost(g)
    BY <2>2 DEF LoaderStep, SubmitLoad, PollCompleted, Register, Publish,
                LoaderFails, RegisterAnswerLost
  <2>3. CASE JobStep(g)
    BY <2>3 DEF JobStep, JobWrites, JobCompletes, JobFails
  <2>4. QED
    BY <1>2, <2>1, <2>2, <2>3
<1>3. ASSUME NEW p \in Pruners, PrunerStep(p) \/ PrunerFails(p)
      PROVE  UNCHANGED <<now, load, endTime, version>>
  BY <1>3 DEF PrunerStep, PrunerStart, ReadMetadatas, ClearData, FindOrphans,
              PrunerFinish, SkipGraph, ClearMetadata, ClearOrphan, PrunerFails,
              PrunerFailure, ClearDataFails, PrunerCrash, ClearMetadataFails,
              ClearOrphanFails
<1>4. ASSUME NEW q \in Queriers, QuerierStep(q)
      PROVE  UNCHANGED <<now, load, endTime, version>>
  BY <1>4 DEF QuerierStep, NoGraphs, NoFreshGraph, Execute, QueryFails, Select
<1>5. QED
  BY <1>1, <1>2, <1>3, <1>4 DEF Next

\* A querier's state changes only by its own steps.
LEMMA QueryStep ==
  ASSUME TypeOK, [Next]_vars, NEW q \in Queriers
  PROVE  \/ /\ qpc'[q] = qpc[q] /\ chosen'[q] = chosen[q]
            /\ chosenAt'[q] = chosenAt[q] /\ rows'[q] = rows[q]
         \/ QuerierStep(q)
<1> USE ConstantFacts DEF TypeOK, storeVars, loadVars, pruneVars, queryVars
<1>1. CASE Tick \/ UNCHANGED vars
  BY <1>1 DEF Tick, vars
<1>2. CASE \E g \in Graphs : ScanEnd(g) \/ LoaderStep(g) \/ RegisterAnswerLost(g) \/ JobStep(g)
  BY <1>2 DEF ScanEnd, LoaderStep, SubmitLoad, PollCompleted, Register, Publish,
              LoaderFails, RegisterAnswerLost, JobStep, JobWrites, JobCompletes, JobFails
<1>3. CASE \E p \in Pruners : PrunerStep(p) \/ PrunerFails(p)
  BY <1>3 DEF PrunerStep, PrunerStart, ReadMetadatas, ClearData, FindOrphans,
              PrunerFinish, SkipGraph, ClearMetadata, ClearOrphan, PrunerFails,
              PrunerFailure, ClearDataFails, PrunerCrash, ClearMetadataFails,
              ClearOrphanFails
<1>4. ASSUME NEW r \in Queriers, QuerierStep(r), r # q
      PROVE  /\ qpc'[q] = qpc[q] /\ chosen'[q] = chosen[q]
             /\ chosenAt'[q] = chosenAt[q] /\ rows'[q] = rows[q]
  BY <1>4 DEF QuerierStep, NoGraphs, NoFreshGraph, Execute, QueryFails, Select
<1>5. QED
  BY <1>1, <1>2, <1>3, <1>4 DEF Next

\* A querier's choice changes only when it selects the latest fresh graph.
LEMMA ChoiceStep ==
  ASSUME TypeOK, [Next]_vars, NEW q \in Queriers, chosen'[q] # chosen[q]
  PROVE  /\ chosen'[q] \in Graphs
         /\ IsLatest(chosen'[q])
         /\ Fresh(chosen'[q])
         /\ UNCHANGED <<now, meta, load, endTime, version>>
<1>1. QuerierStep(q)
  BY QueryStep
<1>2. PICK g \in Graphs : Select(q, g)
  BY <1>1 DEF QuerierStep, NoGraphs, NoFreshGraph, Execute, QueryFails
<1>3. chosen'[q] = g
  BY <1>2 DEF Select, TypeOK
<1>4. QED
  BY <1>2, <1>3 DEF Select, storeVars, loadVars

\* What was selected once stays registered until it has expired.
LEMMA RegressInvariant == Spec => []RegressInv
<1>1. Init => RegressInv
  BY ConstantFacts DEF Init, RegressInv
<1>2. TypeOK /\ PruneInv /\ RegressInv /\ [Next]_vars => RegressInv'
  <2> SUFFICES ASSUME TypeOK, PruneInv, RegressInv, [Next]_vars,
                      NEW q \in Queriers, NEW c \in Graphs, chosen'[q] = c
               PROVE  /\ Settled(c)'
                      /\ c \in meta' \/ endTime'[c] < now' - PrunerMaxAge
    BY DEF RegressInv, Settled
  <2>1. CASE chosen[q] = c
    <3>1. Settled(c)' /\ endTime'[c] = endTime[c]
      BY <2>1, SettledStep DEF RegressInv
    <3>2. /\ now' >= now /\ now' \in Int /\ now \in Int
          /\ endTime[c] \in Int /\ PrunerMaxAge \in Int
      BY SettledStep, ConstantFacts DEF TypeOK, Tick
    <3>3. CASE c \in meta'
      BY <3>1, <3>3
    <3>4. CASE c \notin meta'
      <4>1. endTime[c] < now - PrunerMaxAge
        BY <2>1, <3>4, UnregisterStep DEF RegressInv
      <4>2. QED
        BY <3>1, <3>2, <4>1
    <3>5. QED
      BY <3>3, <3>4
  <2>2. CASE chosen[q] # c
    BY <2>2, ChoiceStep DEF IsLatest, PruneInv, Settled
  <2>3. QED
    BY <2>1, <2>2
<1>3. QED
  BY <1>1, <1>2, TypeCorrect, PruneInvariant, PTL DEF Spec

\* If queries are no more patient with old graphs than the pruner, a client that
\* queries again never gets an older graph than before.
THEOREM NeverRegress == QueryMaxAge <= PrunerMaxAge => (Spec => ReadsNeverRegress)
<1> SUFFICES ASSUME QueryMaxAge <= PrunerMaxAge PROVE Spec => ReadsNeverRegress
  OBVIOUS
<1>1. TypeOK /\ RegressInv /\ [Next]_vars
        => [\A q \in Queriers :
              chosen[q] \in Graphs /\ chosen'[q] # chosen[q] =>
                \/ AtLeastAsLate(chosen'[q], chosen[q])
                \/ endTime[chosen'[q]] > endTime[chosen[q]]]_vars
  <2> SUFFICES ASSUME TypeOK, RegressInv, [Next]_vars, NEW q \in Queriers,
                      chosen[q] \in Graphs, chosen'[q] # chosen[q]
               PROVE  \/ AtLeastAsLate(chosen'[q], chosen[q])
                      \/ endTime[chosen'[q]] > endTime[chosen[q]]
    OBVIOUS
  <2>1. /\ chosen'[q] \in Graphs
        /\ IsLatest(chosen'[q])
        /\ Fresh(chosen'[q])
    BY ChoiceStep
  <2>2. CASE chosen[q] \in meta
    BY <2>1, <2>2 DEF IsLatest
  <2>3. CASE endTime[chosen[q]] < now - PrunerMaxAge
    <3>1. /\ endTime[chosen[q]] \in Int /\ endTime[chosen'[q]] \in Int
          /\ now \in Int /\ PrunerMaxAge \in Int /\ QueryMaxAge \in Int
      BY <2>1, ConstantFacts DEF TypeOK
    <3>2. endTime[chosen'[q]] >= now - QueryMaxAge
      BY <2>1 DEF Fresh
    <3>3. QED
      BY <2>3, <3>1, <3>2
  <2>4. QED
    BY <2>2, <2>3 DEF RegressInv
<1>2. QED
  BY <1>1, TypeCorrect, RegressInvariant, PTL DEF Spec, ReadsNeverRegress

-----------------------------------------------------------------------------
(* Loads and prunes kept apart *)

\* If no load overlaps a prune, every step keeps ExclusiveInv.
LEMMA ExclusiveInvInductive ==
  ASSUME Exclusive
  PROVE  /\ Init => ExclusiveInv
         /\ TypeOK /\ PruneInv /\ ExclusiveInv /\ [Next]_vars => ExclusiveInv'
<1> USE ConstantFacts DEF ExclusiveInv, LoadActive, JobActive, PruneIdle
<1>1. Init => ExclusiveInv
  BY DEF Init
<1>2. TypeOK /\ PruneInv /\ ExclusiveInv /\ [Next]_vars => ExclusiveInv'
  <2> SUFFICES ASSUME TypeOK, PruneInv, ExclusiveInv, [Next]_vars
               PROVE  ExclusiveInv'
    OBVIOUS
  <2> USE DEF TypeOK, storeVars, loadVars, pruneVars, queryVars
  <2>1. CASE Tick
    BY <2>1 DEF Tick
  <2>2. ASSUME NEW g \in Graphs, ScanEnd(g) PROVE ExclusiveInv'
    BY <2>2 DEF ScanEnd
  <2>3. ASSUME NEW g \in Graphs, LoaderStep(g) \/ RegisterAnswerLost(g)
        PROVE  ExclusiveInv'
    <3>1. CASE SubmitLoad(g)
      BY <3>1 DEF SubmitLoad
    <3>2. CASE PollCompleted(g)
      BY <3>2 DEF PollCompleted
    <3>3. CASE Register(g)
      BY <3>3 DEF Register
    <3>4. CASE RegisterAnswerLost(g)
      BY <3>4 DEF RegisterAnswerLost
    <3>5. CASE Publish(g)
      BY <3>5 DEF Publish
    <3>6. CASE LoaderFails(g)
      BY <3>6 DEF LoaderFails
    <3>7. QED
      BY <2>3, <3>1, <3>2, <3>3, <3>4, <3>5, <3>6 DEF LoaderStep
  <2>4. ASSUME NEW g \in Graphs, JobStep(g) PROVE ExclusiveInv'
    <3>1. CASE JobWrites(g)
      <4>1. PICK c \in Chunks :
              /\ written' = [written EXCEPT ![g] = @ \cup {c}]
              /\ data' = [data EXCEPT ![g] = @ \cup {c}]
        BY <3>1 DEF JobWrites
      <4>2. /\ job' = [job EXCEPT ![g] = "LOAD_IN_PROGRESS"]
            /\ JobActive(g)
            /\ UNCHANGED <<meta, load, ppc, snapshot, todo>>
        BY <3>1 DEF JobWrites
      <4>3. load[g] \notin {"none", "scanned"}
        BY <4>2
      <4>4. \A h \in Graphs : written[h] \subseteq data[h] => written'[h] \subseteq data'[h]
        BY <4>1
      <4>5. \A h \in Graphs : data[h] = Chunks => data'[h] = Chunks
        BY <4>1
      <4>6. \A h \in Graphs \ {g} : written'[h] = written[h] /\ job'[h] = job[h]
        BY <4>1, <4>2
      <4>7. \A h \in Graphs : LoadActive(h)' => LoadActive(h)
        BY <4>2
      <4>8. \A h \in Graphs : JobActive(h)' => written'[h] \subseteq data'[h]
        BY <4>2, <4>4, <4>6
      <4>9. QED
        BY <4>2, <4>3, <4>5, <4>6, <4>7, <4>8
    <3>2. CASE JobCompletes(g)
      <4>1. JobActive(g) /\ written[g] = Chunks /\ data[g] \in SUBSET Chunks
        BY <3>2 DEF JobCompletes
      <4>2. written[g] \subseteq data[g]
        BY <4>1
      <4>3. data[g] = Chunks
        BY <4>1, <4>2, ZenonT(30)
      <4>4. QED
        BY <3>2, <4>3 DEF JobCompletes
    <3>3. CASE JobFails(g)
      BY <3>3 DEF JobFails
    <3>4. QED
      BY <2>4, <3>1, <3>2, <3>3 DEF JobStep
  <2>5. ASSUME NEW p \in Pruners, PrunerStep(p) PROVE ExclusiveInv'
    <3>1. CASE PrunerStart(p)
      BY <3>1 DEF PrunerStart
    <3>2. CASE ReadMetadatas(p)
      BY <3>2 DEF ReadMetadatas
    <3>3. CASE ClearData(p)
      BY <3>3, SMTT(30) DEF ClearData, PruneInv
    <3>4. CASE FindOrphans(p)
      BY <3>4 DEF FindOrphans
    <3>5. CASE PrunerFinish(p)
      BY <3>5 DEF PrunerFinish, EndOfRun
    <3>6. ASSUME NEW g \in Graphs, SkipGraph(p, g) \/ ClearMetadata(p, g) \/ ClearOrphan(p, g)
          PROVE  ExclusiveInv'
      <4>1. CASE SkipGraph(p, g)
        BY <4>1 DEF SkipGraph
      <4>2. CASE ClearMetadata(p, g)
        BY <4>2 DEF ClearMetadata
      <4>3. CASE ClearOrphan(p, g)
        BY <4>3 DEF ClearOrphan
      <4>4. QED
        BY <3>6, <4>1, <4>2, <4>3
    <3>7. QED
      BY <2>5, <3>1, <3>2, <3>3, <3>4, <3>5, <3>6 DEF PrunerStep
  <2>6. ASSUME NEW p \in Pruners, PrunerFails(p) PROVE ExclusiveInv'
    <3> USE DEF PrunerFailure
    <3>1. CASE ClearDataFails(p)
      BY <3>1 DEF ClearDataFails, PruneInv
    <3>2. CASE PrunerCrash(p)
      BY <3>2 DEF PrunerCrash, EndOfRun
    <3>3. ASSUME NEW g \in Graphs, ClearMetadataFails(p, g) \/ ClearOrphanFails(p, g)
          PROVE  ExclusiveInv'
      <4>1. CASE ClearMetadataFails(p, g)
        BY <4>1 DEF ClearMetadataFails
      <4>2. CASE ClearOrphanFails(p, g)
        BY <4>2 DEF ClearOrphanFails
      <4>3. QED
        BY <3>3, <4>1, <4>2
    <3>4. QED
      BY <2>6, <3>1, <3>2, <3>3 DEF PrunerFails
  <2>7. ASSUME NEW q \in Queriers, QuerierStep(q) PROVE ExclusiveInv'
    BY <2>7 DEF QuerierStep, NoGraphs, NoFreshGraph, Execute, QueryFails, Select
  <2>8. CASE UNCHANGED vars
    BY <2>8 DEF vars
  <2>9. QED
    BY <2>1, <2>2, <2>3, <2>4, <2>5, <2>6, <2>7, <2>8 DEF Next
<1>3. QED
  BY <1>1, <1>2

\* If no load overlaps a prune, the metadata graph lists only complete graphs.
THEOREM RegisteredAreLoaded == Exclusive => (Spec => []RegisteredFullyLoaded)
<1> SUFFICES ASSUME Exclusive PROVE Spec => []RegisteredFullyLoaded
  OBVIOUS
<1>1. Init => ExclusiveInv
  BY ExclusiveInvInductive
<1>2. TypeOK /\ PruneInv /\ ExclusiveInv /\ [Next]_vars => ExclusiveInv'
  BY ExclusiveInvInductive
<1>3. ExclusiveInv => RegisteredFullyLoaded
  BY DEF ExclusiveInv, RegisteredFullyLoaded
<1>4. QED
  BY <1>1, <1>2, <1>3, TypeCorrect, PruneInvariant, PTL DEF Spec

\* With the age margin a graph stays registered as long as a query works on it.
LEMMA QueryInvariant == AgeMargin => (Spec => []QueryInv)
<1> SUFFICES ASSUME AgeMargin PROVE Spec => []QueryInv
  OBVIOUS
<1>1. Init => QueryInv
  BY DEF Init, QueryInv
<1>2. TypeOK /\ PruneInv /\ QueryInv /\ [Next]_vars => QueryInv'
  <2> SUFFICES ASSUME TypeOK, PruneInv, QueryInv, [Next]_vars,
                      NEW q \in Queriers, NEW c,
                      qpc'[q] = "selected", chosen'[q] = c
               PROVE  /\ c \in meta'
                      /\ endTime'[c] >= chosenAt'[q] - QueryMaxAge
                      /\ now' <= chosenAt'[q] + QueryTimeout
    BY DEF QueryInv
  <2>1. CASE qpc[q] = "selected" /\ chosen[q] = c /\ chosenAt'[q] = chosenAt[q]
    <3>1. /\ c \in meta /\ c \in Graphs /\ Settled(c)
          /\ endTime[c] >= chosenAt[q] - QueryMaxAge
          /\ now <= chosenAt[q] + QueryTimeout
      BY <2>1 DEF QueryInv, PruneInv, TypeOK
    <3>2. endTime'[c] = endTime[c]
      BY <3>1, SettledStep
    <3>3. c \in meta'
      <4>1. SUFFICES ASSUME c \notin meta' PROVE FALSE
        OBVIOUS
      <4>2. endTime[c] < now - PrunerMaxAge
        BY <3>1, <4>1, UnregisterStep
      <4>3. /\ endTime[c] \in Int /\ now \in Int /\ chosenAt[q] \in Int
            /\ PrunerMaxAge \in Int /\ QueryMaxAge \in Int /\ QueryTimeout \in Int
        BY <3>1, ConstantFacts DEF TypeOK
      <4>4. QED
        BY <3>1, <4>2, <4>3 DEF AgeMargin
    <3>4. now' <= chosenAt[q] + QueryTimeout
      <4>1. CASE now' = now
        BY <3>1, <4>1
      <4>2. CASE now' # now
        <5>1. Tick
          BY <4>2, SettledStep
        <5>2. now' = now + 1 /\ now < chosenAt[q] + QueryTimeout
          BY <2>1, <5>1 DEF Tick
        <5>3. now \in Int /\ chosenAt[q] \in Int /\ QueryTimeout \in Int
          BY ConstantFacts DEF TypeOK
        <5>4. QED
          BY <5>2, <5>3
      <4>3. QED
        BY <4>1, <4>2
    <3>5. QED
      BY <2>1, <3>1, <3>2, <3>3, <3>4
  <2>2. CASE Select(q, c) /\ c \in Graphs
    <3>1. now \in Int /\ QueryTimeout \in Nat
      BY ConstantFacts DEF TypeOK
    <3>2. QED
      BY <2>2, <3>1 DEF Select, IsLatest, Fresh, loadVars, storeVars, TypeOK
  <2>3. QED
    <3>1. ~ UNCHANGED <<qpc[q], chosen[q], chosenAt[q]>> => \E g \in Graphs : Select(q, g)
      BY QueryStep DEF QuerierStep, NoGraphs, NoFreshGraph, Execute, QueryFails, TypeOK
    <3>2. QED
      BY <2>1, <2>2, <3>1 DEF Select, TypeOK
<1>3. QED
  BY <1>1, <1>2, TypeCorrect, PruneInvariant, PTL DEF Spec

\* If no load overlaps a prune and the pruner is patient enough, every answer is
\* computed from all the triples of a scan.
THEOREM AnswersAreComplete ==
  Exclusive /\ AgeMargin => (Spec => []AnswersComplete)
<1> SUFFICES ASSUME Exclusive, AgeMargin PROVE Spec => []AnswersComplete
  OBVIOUS
<1>1. Init => AnswersComplete
  BY DEF Init, AnswersComplete
<1>2. TypeOK /\ RegisteredFullyLoaded /\ QueryInv /\ AnswersComplete /\ [Next]_vars
        => AnswersComplete'
  <2> SUFFICES ASSUME TypeOK, RegisteredFullyLoaded, QueryInv, AnswersComplete,
                      [Next]_vars, NEW q \in Queriers, qpc'[q] = "answered"
               PROVE  rows'[q] = Chunks
    BY DEF AnswersComplete
  <2>1. CASE qpc[q] = "answered" /\ rows'[q] = rows[q]
    BY <2>1 DEF AnswersComplete
  <2>2. CASE Execute(q)
    BY <2>2 DEF Execute, QueryInv, RegisteredFullyLoaded, TypeOK
  <2>3. QED
    BY <2>1, <2>2, QueryStep DEF QuerierStep, NoGraphs, NoFreshGraph, QueryFails, Select, TypeOK
<1>3. Spec => []RegisteredFullyLoaded
  BY RegisteredAreLoaded
<1>4. Spec => []QueryInv
  BY QueryInvariant
<1>5. QED
  BY <1>1, <1>2, <1>3, <1>4, TypeCorrect, PTL DEF Spec

-----------------------------------------------------------------------------
(* No graph is fresh when a query is refused for it *)

\* A later version of the graph is never that of an earlier scan.
VersionsInOrder ==
  \A g, h \in meta : version[g] > version[h] => endTime[g] >= endTime[h]

\* As long as versions only go up, a query that is refused for want of a fresh
\* graph is refused rightly: the latest graph is also the youngest.
THEOREM NoFreshNoneFresh == Spec /\ []VersionsInOrder => NoFreshMeansNoneFresh
<1>1. TypeOK /\ VersionsInOrder /\ [Next]_vars
        => [\A q \in Queriers :
              qpc'[q] = "NoFreshGraphFound" /\ qpc[q] # "NoFreshGraphFound" =>
                \A g \in meta : ~Fresh(g)]_vars
  <2> SUFFICES ASSUME TypeOK, VersionsInOrder, [Next]_vars, NEW q \in Queriers,
                      qpc'[q] = "NoFreshGraphFound", qpc[q] # "NoFreshGraphFound",
                      NEW h \in meta
               PROVE  ~Fresh(h)
    OBVIOUS
  <2>1. NoFreshGraph(q)
    BY QueryStep
    DEF QuerierStep, NoGraphs, Execute, QueryFails, Select, TypeOK
  <2>2. PICK g \in meta : IsLatest(g) /\ ~Fresh(g)
    BY <2>1 DEF NoFreshGraph
  <2>3. /\ endTime[g] \in Nat /\ endTime[h] \in Nat /\ now \in Nat
        /\ QueryMaxAge \in Nat
    BY ConstantFacts DEF TypeOK
  <2>4. endTime[g] >= endTime[h]
    BY <2>2, <2>3 DEF IsLatest, AtLeastAsLate, VersionsInOrder
  <2>5. QED
    BY <2>2, <2>3, <2>4 DEF Fresh
<1>2. QED
  BY <1>1, TypeCorrect, PTL DEF Spec, NoFreshMeansNoneFresh

\* With one version in use, as the scans of one release have, they are in order.
COROLLARY OneVersionNoneFresh ==
  (\A v, w \in Versions : v = w) => (Spec => NoFreshMeansNoneFresh)
<1> SUFFICES ASSUME \A v, w \in Versions : v = w PROVE Spec => NoFreshMeansNoneFresh
  OBVIOUS
<1>1. TypeOK => VersionsInOrder
  <2> SUFFICES ASSUME TypeOK, NEW g \in meta, NEW h \in meta, version[g] > version[h]
               PROVE  FALSE
    BY DEF VersionsInOrder
  <2>1. version[g] = version[h] /\ version[g] \in Nat
    BY ConstantFacts DEF TypeOK
  <2>2. QED
    BY <2>1
<1>2. QED
  BY <1>1, TypeCorrect, NoFreshNoneFresh, PTL
=============================================================================
