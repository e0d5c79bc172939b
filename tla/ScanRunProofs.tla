--------------------------- MODULE ScanRunProofs ---------------------------
(***************************************************************************)
(* Proofs about ScanRun, for any accounts, tries and threads.              *)
(***************************************************************************)
EXTENDS ScanRun, TLAPS

\* The slots are numbered from 1 and each holds an account.
LEMMA SlotFacts ==
  /\ Slots \subseteq Nat \ {0}
  /\ \A i \in Slots : AccountIds[i] \in Accounts
  /\ MaxTries \in Nat \ {0}
  /\ Tries = {t \in Nat : 1 <= t /\ t <= MaxTries}
  BY AccountIdsAssumption, TriesAssumption DEF Slots, Accounts, Tries

\* Next as the disjunction of its actions.
LEMMA NextCases ==
  ASSUME Next
  PROVE  \/ BuildPlans \/ MergeManifest \/ MergeManifestTwice \/ ReadFails
         \/ EndTry \/ Finish \/ MergeFails
         \/ \E i \in Slots : \/ YieldManifest(i) \/ SkipRaised(i) \/ Invoke(i)
                             \/ InvokeRefused(i) \/ ConnectionLost(i)
         \/ \E i \in Slots, t \in Tries :
              LambdaWrites(i, t) \/ LambdaReturns(i, t) \/ LambdaDies(i, t)
  BY DEF Next, MainStep, ThreadStep, LambdaStep

-----------------------------------------------------------------------------
(* Type correctness *)

\* Every variable keeps its type in every step; the manifest being yielded is
\* always that of a future with a result.
THEOREM ScanTypeCorrect == Spec => []TypeOK
<1> USE SlotFacts DEF TypeOK, Phase, FutureState, InvocationState, Failure, Results
<1>1. Init => TypeOK
  BY DEF Init
<1>2. TypeOK /\ [Next]_vars => TypeOK'
  <2> SUFFICES ASSUME TypeOK, [Next]_vars PROVE TypeOK'
    OBVIOUS
  <2>1. CASE BuildPlans
    BY <2>1 DEF BuildPlans
  <2>2. CASE MergeManifest
    BY <2>2 DEF MergeManifest, ReadArtifact, Entry
  <2>3. CASE MergeManifestTwice
    BY <2>3 DEF MergeManifestTwice, ReadArtifact, Entry
  <2>4. CASE ReadFails
    BY <2>4 DEF ReadFails
  <2>5. CASE EndTry
    BY <2>5 DEF EndTry, Retry, TryOver, Collecting
  <2>6. CASE Finish \/ MergeFails
    BY <2>6 DEF Finish, MergeFails
  <2>7. ASSUME NEW i \in Slots, YieldManifest(i) \/ SkipRaised(i) PROVE TypeOK'
    BY <2>7 DEF YieldManifest, SkipRaised, Collecting
  <2>8. ASSUME NEW i \in Slots, Invoke(i) \/ InvokeRefused(i) \/ ConnectionLost(i)
        PROVE  TypeOK'
    BY <2>8 DEF Invoke, InvokeRefused, ConnectionLost, IsNext
  <2>9. ASSUME NEW i \in Slots, NEW t \in Tries,
               LambdaWrites(i, t) \/ LambdaReturns(i, t) \/ LambdaDies(i, t)
        PROVE  TypeOK'
    <3>1. CASE LambdaWrites(i, t)
      BY <3>1 DEF LambdaWrites
    <3>2. CASE LambdaReturns(i, t)
      BY <3>2 DEF LambdaReturns, Awaited
    <3>3. CASE LambdaDies(i, t)
      BY <3>3 DEF LambdaDies, Awaited
    <3>4. QED
      BY <2>9, <3>1, <3>2, <3>3
  <2>10. CASE UNCHANGED vars
    BY <2>10 DEF vars
  <2>11. QED
    BY <2>1, <2>2, <2>3, <2>4, <2>5, <2>6, <2>7, <2>8, <2>9, <2>10, NextCases
<1>3. QED
  BY <1>1, <1>2, PTL DEF Spec

-----------------------------------------------------------------------------
(* Between the tries *)

LEMMA IdleInvariant == Spec => [](TypeOK /\ IdleInv)
<1> USE SlotFacts DEF IdleInv, Merging, Results
<1>1. Init => IdleInv
  BY DEF Init
<1>2. TypeOK /\ IdleInv /\ [Next]_vars => IdleInv'
  <2> SUFFICES ASSUME TypeOK, IdleInv, [Next]_vars PROVE IdleInv'
    OBVIOUS
  <2> USE DEF TypeOK, Phase, FutureState
  <2>1. CASE BuildPlans
    BY <2>1 DEF BuildPlans
  <2>2. CASE MergeManifest \/ MergeManifestTwice
    BY <2>2 DEF MergeManifest, MergeManifestTwice, ReadArtifact
  <2>3. CASE ReadFails
    BY <2>3 DEF ReadFails
  <2>4. CASE EndTry
    BY <2>4 DEF EndTry, TryOver, Collecting
  <2>5. CASE Finish \/ MergeFails
    BY <2>5 DEF Finish, MergeFails
  <2>6. ASSUME NEW i \in Slots, YieldManifest(i) \/ SkipRaised(i) PROVE IdleInv'
    BY <2>6 DEF YieldManifest, SkipRaised, Collecting
  <2>7. ASSUME NEW i \in Slots, Invoke(i) \/ InvokeRefused(i) \/ ConnectionLost(i)
        PROVE  IdleInv'
    BY <2>7 DEF Invoke, InvokeRefused, ConnectionLost, IsNext
  <2>8. ASSUME NEW i \in Slots, NEW t \in Tries,
               LambdaWrites(i, t) \/ LambdaReturns(i, t) \/ LambdaDies(i, t)
        PROVE  IdleInv'
    BY <2>8 DEF LambdaWrites, LambdaReturns, LambdaDies, Awaited
  <2>9. CASE UNCHANGED vars
    BY <2>9 DEF vars
  <2>10. QED
    BY <2>1, <2>2, <2>3, <2>4, <2>5, <2>6, <2>7, <2>8, <2>9, NextCases
<1>3. QED
  BY <1>1, <1>2, ScanTypeCorrect, PTL DEF Spec

-----------------------------------------------------------------------------
(* No account twice *)

\* An account configured once is queued or scanned only as long as it is not
\* booked.
LEMMA BookInvariant == Spec => []BookInv
<1> USE SlotFacts DEF BookInv, Results
<1>1. Init => BookInv
  BY DEF Init, scanned_accounts
<1>2. TypeOK /\ BookInv /\ [Next]_vars => BookInv'
  <2> SUFFICES ASSUME TypeOK, BookInv, [Next]_vars PROVE BookInv'
    OBVIOUS
  <2> USE DEF TypeOK, Phase, FutureState
  <2>1. CASE BuildPlans
    BY <2>1 DEF BuildPlans, scanned_accounts
  <2>2. CASE MergeManifest
    <3>1. scanned_accounts' = scanned_accounts \cup {AccountIds[current]}
      <4> DEFINE entry == [account |-> AccountIds[current], result |-> fut[current],
                           graph |-> artifact[AccountIds[current]]]
      <4>1. merged' = merged \cup {entry}
        BY <2>2 DEF MergeManifest, ReadArtifact
      <4>2. entry.account = AccountIds[current]
        OBVIOUS
      <4>3. QED
        BY <4>1, <4>2, Zenon DEF scanned_accounts
    <3>2. ASSUME NEW i \in Slots, Once(i), fut'[i] \in {"queued", "running"} \cup Results
          PROVE  AccountIds[i] \notin scanned'
      <4>1. current \in Slots /\ current # i /\ fut'[i] = fut[i]
        BY <2>2, <3>2 DEF MergeManifest, ReadArtifact
      <4>2. AccountIds[i] \notin scanned /\ AccountIds[i] # AccountIds[current]
        BY <3>2, <4>1 DEF Once
      <4>3. QED
        BY <2>2, <4>2 DEF MergeManifest
    <3>3. QED
      BY <2>2, <3>1, <3>2 DEF MergeManifest
  <2>3. CASE MergeManifestTwice
    <3>1. scanned_accounts' = scanned_accounts
      <4> DEFINE entry == [account |-> AccountIds[current], result |-> fut[current],
                           graph |-> artifact[AccountIds[current]]]
      <4>1. merged' = merged \cup {entry}
        BY <2>3 DEF MergeManifestTwice, ReadArtifact
      <4>2. entry.account \in scanned_accounts
        BY <2>3 DEF MergeManifestTwice
      <4>3. QED
        BY <4>1, <4>2, Zenon DEF scanned_accounts
    <3>2. QED
      BY <2>3, <3>1 DEF MergeManifestTwice, ReadArtifact
  <2>4. CASE ReadFails \/ EndTry \/ Finish \/ MergeFails
    BY <2>4 DEF ReadFails, EndTry, Finish, MergeFails, scanned_accounts
  <2>5. ASSUME NEW i \in Slots, YieldManifest(i) \/ SkipRaised(i) PROVE BookInv'
    BY <2>5 DEF YieldManifest, SkipRaised, scanned_accounts
  <2>6. ASSUME NEW i \in Slots, Invoke(i) \/ InvokeRefused(i) \/ ConnectionLost(i)
        PROVE  BookInv'
    BY <2>6 DEF Invoke, InvokeRefused, ConnectionLost, IsNext, scanned_accounts
  <2>7. ASSUME NEW i \in Slots, NEW t \in Tries,
               LambdaWrites(i, t) \/ LambdaReturns(i, t) \/ LambdaDies(i, t)
        PROVE  BookInv'
    BY <2>7 DEF LambdaWrites, LambdaReturns, LambdaDies, Awaited, scanned_accounts
  <2>8. CASE UNCHANGED vars
    BY <2>8 DEF vars, scanned_accounts
  <2>9. QED
    BY <2>1, <2>2, <2>3, <2>4, <2>5, <2>6, <2>7, <2>8, NextCases
<1>3. QED
  BY <1>1, <1>2, ScanTypeCorrect, PTL DEF Spec

\* An account that is configured once never comes back, whichever others are
\* repeated: its manifest always finds it among the unscanned accounts.
THEOREM NoAccountTwice == Spec => []NeverTwice
<1>1. TypeOK /\ BookInv => NeverTwice
  BY DEF TypeOK, BookInv, NeverTwice
<1>2. QED
  BY <1>1, ScanTypeCorrect, BookInvariant, PTL

-----------------------------------------------------------------------------
(* Missing accounts *)

LEMMA AttemptInvariant == Spec => []AttemptInv
<1> USE SlotFacts DEF AttemptInv, Results
<1>1. Init => AttemptInv
  BY DEF Init, Merging
<1>2. TypeOK /\ IdleInv /\ AttemptInv /\ [Next]_vars => AttemptInv'
  <2> SUFFICES ASSUME TypeOK, IdleInv, AttemptInv, [Next]_vars PROVE AttemptInv'
    OBVIOUS
  <2> USE DEF TypeOK, Phase, FutureState, IdleInv, Merging
  <2>1. CASE BuildPlans
    BY <2>1 DEF BuildPlans
  <2>2. CASE MergeManifest \/ MergeManifestTwice
    BY <2>2 DEF MergeManifest, MergeManifestTwice, ReadArtifact
  <2>3. CASE ReadFails
    BY <2>3 DEF ReadFails
  <2>4. CASE EndTry
    <3>1. CASE Retry
      BY <2>4, <3>1 DEF EndTry, TryOver, Collecting
    <3>2. CASE ~Retry
      <4>1. scanned = Accounts \/ try = MaxTries
        <5>1. CASE Accounts \ scanned = {}
          BY <5>1, Zenon
        <5>2. CASE ~(try < MaxTries)
          BY <5>2
        <5>3. QED
          BY <3>2, <5>1, <5>2 DEF Retry
      <4>2. QED
        BY <2>4, <3>2, <4>1 DEF EndTry, TryOver, Collecting
    <3>3. QED
      BY <3>1, <3>2
  <2>5. CASE Finish \/ MergeFails
    BY <2>5 DEF Finish, MergeFails
  <2>6. ASSUME NEW i \in Slots, YieldManifest(i) \/ SkipRaised(i) PROVE AttemptInv'
    BY <2>6 DEF YieldManifest, SkipRaised, Collecting
  <2>7. ASSUME NEW i \in Slots, Invoke(i) \/ InvokeRefused(i) \/ ConnectionLost(i)
        PROVE  AttemptInv'
    BY <2>7 DEF Invoke, InvokeRefused, ConnectionLost, IsNext, InvocationState
  <2>8. ASSUME NEW i \in Slots, NEW t \in Tries,
               LambdaWrites(i, t) \/ LambdaReturns(i, t) \/ LambdaDies(i, t)
        PROVE  AttemptInv'
    <3>1. CASE LambdaWrites(i, t)
      BY <3>1 DEF LambdaWrites, InvocationState
    <3>2. CASE LambdaReturns(i, t) \/ LambdaDies(i, t)
      <4>1. inv' = [inv EXCEPT ![<<i, t>>] = "ended"]
        BY <3>2 DEF LambdaReturns, LambdaDies
      <4>2. \A j \in Slots : fut[j] = "queued" => fut'[j] = "queued"
        BY <3>2 DEF LambdaReturns, LambdaDies, Awaited
      <4>3. UNCHANGED <<phase, try, scanned, failure>>
        BY <3>2 DEF LambdaReturns, LambdaDies
      <4>4. QED
        BY <4>1, <4>2, <4>3 DEF InvocationState
    <3>3. QED
      BY <2>8, <3>1, <3>2
  <2>9. CASE UNCHANGED vars
    BY <2>9 DEF vars
  <2>10. QED
    BY <2>1, <2>2, <2>3, <2>4, <2>5, <2>6, <2>7, <2>8, <2>9, NextCases
<1>3. QED
  BY <1>1, <1>2, IdleInvariant, PTL DEF Spec

\* However invocations fail, an account is missing from a scan that came to the
\* merge only if each of the tries has attempted it.
THEOREM MissingWereAttempted == Spec => []MissingOnlyAfterAllTries
<1>1. TypeOK /\ IdleInv /\ AttemptInv => MissingOnlyAfterAllTries
  <2> SUFFICES ASSUME TypeOK, IdleInv, AttemptInv, Merging,
                      NEW i \in Slots, AccountIds[i] \notin scanned, NEW t \in Tries
               PROVE  inv[<<i, t>>] # "none"
    BY DEF MissingOnlyAfterAllTries, Merging
  <2>1. try = MaxTries
    BY SlotFacts DEF AttemptInv
  <2>2. fut[i] # "queued"
    BY DEF IdleInv
  <2>3. QED
    BY <2>1, <2>2, SlotFacts DEF AttemptInv
<1>2. QED
  BY <1>1, IdleInvariant, AttemptInvariant, PTL

-----------------------------------------------------------------------------
(* The graph merged is the one the result speaks of *)

\* No lambda of a plain slot is running or about to return when no thread waits
\* for it.
LEMMA MatchInvariant == Spec => []MatchInv
<1> USE SlotFacts DEF Results
<1>1. Init => MatchInv
  BY DEF Init, MatchInv, GraphMatchesResult
<1>2. TypeOK /\ IdleInv /\ MatchInv /\ [Next]_vars => MatchInv'
  <2> SUFFICES ASSUME TypeOK, IdleInv, MatchInv, [Next]_vars PROVE MatchInv'
    OBVIOUS
  <2> USE DEF TypeOK, FutureState, InvocationState, MatchInv, Awaited
  <2>1. CASE BuildPlans
    <3>1. \A i \in Slots : fut[i] \in {"none", "seen"}
      BY <2>1 DEF BuildPlans, IdleInv
    <3>2. \A i \in Slots, t \in Tries :
            Plain(i) => inv[<<i, t>>] \notin {"running"} \cup Results
      BY <3>1
    <3>3. QED
      BY <2>1, <3>2 DEF BuildPlans, GraphMatchesResult
  <2>2. CASE MergeManifest \/ MergeManifestTwice
    <3>1. ReadArtifact /\ UNCHANGED <<try, inv, artifact>>
      BY <2>2 DEF MergeManifest, MergeManifestTwice
    <3>2. current \in Slots /\ fut[current] \in Results
      BY <3>1 DEF ReadArtifact
    <3>3. GraphMatchesResult'
      <4> DEFINE entry == [account |-> AccountIds[current], result |-> fut[current],
                           graph |-> artifact[AccountIds[current]]]
      <4>1. merged' = merged \cup {entry}
        BY <3>1 DEF ReadArtifact
      <4>2. entry.account = AccountIds[current] /\ entry.result = fut[current]
            /\ entry.graph = artifact[AccountIds[current]]
        OBVIOUS
      <4>3. ASSUME entry.account \in OnceAccounts \ Detached PROVE entry.graph = entry.result
        <5>1. PICK j \in Slots : Once(j) /\ AccountIds[j] = AccountIds[current]
          BY <4>2, <4>3 DEF OnceAccounts
        <5>2. Plain(current)
          BY <3>2, <4>2, <4>3, <5>1 DEF Once, Plain
        <5>3. QED
          BY <3>2, <4>2, <5>2
      <4>4. QED
        BY <4>1, <4>3, Zenon DEF GraphMatchesResult, MatchInv
    <3>4. \A i \in Slots : fut'[i] \in Results \cup {"running"} => fut'[i] = fut[i]
      BY <3>1 DEF ReadArtifact
    <3>5. \A i \in Slots : fut[i] = "running" => fut'[i] = "running"
      BY <3>1 DEF ReadArtifact
    <3>6. QED
      BY <3>1, <3>3, <3>4, <3>5
  <2>3. CASE ReadFails \/ EndTry \/ Finish \/ MergeFails
    BY <2>3 DEF ReadFails, EndTry, Finish, MergeFails, GraphMatchesResult
  <2>4. ASSUME NEW i \in Slots, YieldManifest(i) \/ SkipRaised(i) PROVE MatchInv'
    BY <2>4 DEF YieldManifest, SkipRaised, GraphMatchesResult
  <2>5. ASSUME NEW i \in Slots, Invoke(i) PROVE MatchInv'
    BY <2>5 DEF Invoke, IsNext, GraphMatchesResult
  <2>6. ASSUME NEW i \in Slots, InvokeRefused(i) \/ ConnectionLost(i) PROVE MatchInv'
    <3>1. CASE InvokeRefused(i)
      <4>1. /\ fut[i] = "queued"
            /\ fut' = [fut EXCEPT ![i] = "raised"]
            /\ inv' = [inv EXCEPT ![<<i, try>>] = "ended"]
            /\ UNCHANGED <<try, artifact, merged>>
        BY <3>1 DEF InvokeRefused, IsNext
      <4>2. \A j \in Slots, u \in Tries :
              Plain(j) /\ inv'[<<j, u>>] \in {"running"} \cup Results =>
                inv'[<<j, u>>] = inv[<<j, u>>] /\ j # i
        BY <4>1
      <4>3. \A j \in Slots \ {i} : fut'[j] = fut[j]
        BY <4>1
      <4>4. fut'[i] \notin Results
        BY <4>1
      <4>5. QED
        BY <4>1, <4>2, <4>3, <4>4 DEF GraphMatchesResult
    <3>2. CASE ConnectionLost(i)
      <4>1. ~Plain(i)
        BY <3>2 DEF ConnectionLost, Plain
      <4>2. QED
        BY <3>2, <4>1 DEF ConnectionLost, GraphMatchesResult
    <3>3. QED
      BY <2>6, <3>1, <3>2
  <2>7. ASSUME NEW i \in Slots, NEW t \in Tries, LambdaWrites(i, t) PROVE MatchInv'
    <3>1. Plain(i) => t = try /\ fut[i] = "running"
      BY <2>7 DEF LambdaWrites
    <3>2. PICK r \in Results : /\ inv' = [inv EXCEPT ![<<i, t>>] = r]
                              /\ artifact' = [artifact EXCEPT ![AccountIds[i]] = r]
      BY <2>7 DEF LambdaWrites
    <3>3. UNCHANGED <<try, fut, merged>>
      BY <2>7 DEF LambdaWrites
    <3>4. ASSUME NEW j \in Slots, Plain(j), j # i
          PROVE  artifact'[AccountIds[j]] = artifact[AccountIds[j]]
      BY <3>2, <3>4 DEF Plain, Once
    <3>5. ASSUME NEW j \in Slots, Plain(j), NEW u \in Tries,
                 inv'[<<j, u>>] \in {"running"} \cup Results
          PROVE  /\ u = try /\ fut[j] = "running"
                 /\ inv'[<<j, u>>] \in Results => artifact'[AccountIds[j]] = inv'[<<j, u>>]
      <4>1. CASE j = i
        BY <3>1, <3>2, <3>5, <4>1
      <4>2. CASE j # i
        BY <3>2, <3>4, <3>5, <4>2
      <4>3. QED
        BY <4>1, <4>2
    <3>6. ASSUME NEW j \in Slots, Plain(j), fut'[j] \in Results
          PROVE  artifact'[AccountIds[j]] = fut'[j]
      BY <3>1, <3>3, <3>4, <3>6
    <3>7. QED
      BY <3>3, <3>5, <3>6 DEF GraphMatchesResult
  <2>8. ASSUME NEW i \in Slots, NEW t \in Tries, LambdaReturns(i, t) \/ LambdaDies(i, t)
        PROVE  MatchInv'
    <3>1. Plain(i) => t = try /\ fut[i] = "running"
      BY <2>8 DEF LambdaReturns, LambdaDies
    <3>2. inv' = [inv EXCEPT ![<<i, t>>] = "ended"] /\ UNCHANGED <<try, artifact, merged>>
      BY <2>8 DEF LambdaReturns, LambdaDies
    <3>3. \A j \in Slots, u \in Tries :
            Plain(j) /\ inv'[<<j, u>>] \in {"running"} \cup Results =>
              j # i /\ inv'[<<j, u>>] = inv[<<j, u>>]
      BY <3>1, <3>2
    <3>4. \A j \in Slots \ {i} : fut'[j] = fut[j]
      BY <2>8 DEF LambdaReturns, LambdaDies
    <3>5. Plain(i) /\ fut'[i] \in Results => artifact[AccountIds[i]] = fut'[i]
      BY <2>8, <3>1 DEF LambdaReturns, LambdaDies
    <3>6. QED
      BY <3>2, <3>3, <3>4, <3>5 DEF GraphMatchesResult
  <2>9. CASE UNCHANGED vars
    BY <2>9 DEF vars, GraphMatchesResult
  <2>10. QED
    BY <2>1, <2>2, <2>3, <2>4, <2>5, <2>6, <2>7, <2>8, <2>9, NextCases
<1>3. QED
  BY <1>1, <1>2, IdleInvariant, PTL DEF Spec

\* The graph of an account that is configured once, and whose lambda does not
\* outlive the wait for it, is that of the try whose result is booked, whatever
\* the lambdas of the other accounts do.
THEOREM MergedGraphMatches == Spec => []GraphMatchesResult
<1>1. MatchInv => GraphMatchesResult
  BY DEF MatchInv
<1>2. QED
  BY <1>1, MatchInvariant, PTL

-----------------------------------------------------------------------------
(* The abstract specification *)

\* Booking one more account settles that account and no other.
LEMMA MergeSettles ==
  ASSUME TypeOK, BookInv, MergeManifest, AccountIds[current] \in OnceAccounts
  PROVE  \E a \in OnceAccounts : Outcomes!Settle(a)
<1> SUFFICES ASSUME NEW a \in OnceAccounts, a = AccountIds[current]
             PROVE  Outcomes!Settle(a)
  OBVIOUS
<1> DEFINE entry == [account |-> a, result |-> fut[current], graph |-> artifact[a]]
<1> USE DEF Outcomes!Settle
<1>1. /\ current \in Slots
      /\ fut[current] \in Results
      /\ merged' = merged \cup {entry}
      /\ a \notin scanned_accounts
      /\ ~Over /\ ~Over'
  BY SlotFacts DEF TypeOK, BookInv, MergeManifest, ReadArtifact, Over
<1>2. entry.account = a /\ entry.result = fut[current]
  OBVIOUS
<1> HIDE DEF entry
<1>3. scanned_accounts' = scanned_accounts \cup {a}
  BY <1>1, <1>2, Zenon DEF scanned_accounts
<1>4. unscanned_accounts \subseteq scanned_accounts
  BY DEF scanned_accounts, unscanned_accounts
<1>5. unscanned_accounts' = IF fut[current] = "errors"
                            THEN unscanned_accounts \cup {a} ELSE unscanned_accounts
  BY <1>1, <1>2, Zenon DEF unscanned_accounts
<1>6. Outcome(a) = "pending" /\ Outcome(a)' \in {"clean", "errors"}
  BY <1>1, <1>3, <1>4, <1>5 DEF Outcome
<1>7. \A b \in OnceAccounts \ {a} : Outcome(b)' = Outcome(b)
  BY <1>1, <1>3, <1>5 DEF Outcome
<1>8. PICK o \in {"clean", "errors"} : Outcome(a)' = o
  BY <1>6
<1>9. [b \in OnceAccounts |-> Outcome(b)'] =
        [[b \in OnceAccounts |-> Outcome(b)] EXCEPT ![a] = o]
  BY <1>7, <1>8
<1>10. Over' = FALSE
  BY <1>1 DEF Over
<1>11. QED
  BY <1>1, <1>6, <1>8, <1>9, <1>10

\* A step that leaves the manifests of the accounts configured once alone and
\* does not end the scan stutters; one that ends it reports the pending accounts
\* missing.
LEMMA OtherStepsRefine ==
  ASSUME \A b \in OnceAccounts : /\ b \in scanned_accounts' <=> b \in scanned_accounts
                                 /\ b \in unscanned_accounts' <=> b \in unscanned_accounts,
         Over => Over'
  PROVE  [Outcomes!Next]_(Outcomes!vars)
<1>1. Over \in BOOLEAN /\ Over' \in BOOLEAN
  BY DEF Over
<1>2. CASE Over' = Over
  <2>1. \A b \in OnceAccounts : Outcome(b)' = Outcome(b)
    BY <1>2 DEF Outcome
  <2>2. QED
    BY <1>2, <2>1 DEF Outcomes!vars
<1>3. CASE ~Over /\ Over'
  <2>1. \A b \in OnceAccounts :
          Outcome(b)' = IF Outcome(b) = "pending" THEN "missing" ELSE Outcome(b)
    BY <1>3 DEF Outcome
  <2>2. Outcomes!Finish
    BY <1>3, <2>1 DEF Outcomes!Finish
  <2>3. QED
    BY <2>2 DEF Outcomes!Next
<1>4. QED
  BY <1>1, <1>2, <1>3

\* A manifest of an account that is configured more than once says nothing of
\* the others.
LEMMA RepeatedIsAnother ==
  ASSUME ReadArtifact, AccountIds[current] \notin OnceAccounts
  PROVE  \A b \in OnceAccounts : /\ b \in scanned_accounts' <=> b \in scanned_accounts
                                 /\ b \in unscanned_accounts' <=> b \in unscanned_accounts
<1> DEFINE entry == [account |-> AccountIds[current], result |-> fut[current],
                     graph |-> artifact[AccountIds[current]]]
<1>1. merged' = merged \cup {entry}
  BY DEF ReadArtifact
<1>2. entry.account \notin OnceAccounts
  OBVIOUS
<1> HIDE DEF entry
<1>3. TAKE b \in OnceAccounts
<1>4. b # entry.account
  BY <1>2, <1>3
<1>5. b \in scanned_accounts' <=> b \in scanned_accounts
  BY <1>1, <1>4, Zenon DEF scanned_accounts
<1>6. b \in unscanned_accounts' <=> b \in unscanned_accounts
  BY <1>1, <1>4, Zenon DEF unscanned_accounts
<1>7. QED
  BY <1>5, <1>6

\* The scan implements ScanOutcomes for the accounts configured once: each is
\* settled at most once, for good, and none is left pending, also when another
\* account is repeated and ends the scan.
THEOREM ScanRefinesOutcomes == Spec => RefinesOutcomes
<1>1. Init => Outcomes!Init
  BY DEF Init, Outcomes!Init, Outcome, Over, scanned_accounts, unscanned_accounts
<1>2. TypeOK /\ BookInv /\ [Next]_vars => [Outcomes!Next]_(Outcomes!vars)
  <2> SUFFICES ASSUME TypeOK, BookInv, [Next]_vars
               PROVE  [Outcomes!Next]_(Outcomes!vars)
    OBVIOUS
  <2>1. CASE MergeManifest
    <3>1. CASE AccountIds[current] \in OnceAccounts
      BY <2>1, <3>1, MergeSettles DEF Outcomes!Next
    <3>2. CASE AccountIds[current] \notin OnceAccounts
      <4>1. ReadArtifact /\ UNCHANGED phase
        BY <2>1 DEF MergeManifest
      <4>2. QED
        BY <3>2, <4>1, RepeatedIsAnother, OtherStepsRefine DEF Over
    <3>3. QED
      BY <3>1, <3>2
  <2>2. CASE MergeManifestTwice
    <3>1. ReadArtifact /\ AccountIds[current] \in scanned /\ phase' = "failed"
      BY <2>2 DEF MergeManifestTwice
    <3>2. current \in Slots /\ fut[current] \in Results
      BY <3>1 DEF TypeOK, ReadArtifact
    <3>3. ~Once(current)
      BY <3>1, <3>2 DEF BookInv
    <3>4. AccountIds[current] \notin OnceAccounts
      BY <3>2, <3>3 DEF OnceAccounts, Once
    <3>5. Over'
      BY <3>1 DEF Over
    <3>6. QED
      BY <3>1, <3>4, <3>5, RepeatedIsAnother, OtherStepsRefine
  <2>3. CASE BuildPlans \/ ReadFails \/ EndTry \/ Finish \/ MergeFails
    <3>1. UNCHANGED <<scanned_accounts, unscanned_accounts>> /\ (Over => Over')
      BY <2>3 DEF BuildPlans, ReadFails, EndTry, TryOver, Collecting, Finish, MergeFails,
                  Over, scanned_accounts, unscanned_accounts
    <3>2. QED
      BY <3>1, OtherStepsRefine
  <2>4. ASSUME NEW i \in Slots, \/ YieldManifest(i) \/ SkipRaised(i) \/ Invoke(i)
                                \/ InvokeRefused(i) \/ ConnectionLost(i)
        PROVE  [Outcomes!Next]_(Outcomes!vars)
    <3>1. UNCHANGED <<phase, scanned_accounts, unscanned_accounts>>
      BY <2>4 DEF YieldManifest, SkipRaised, Invoke, InvokeRefused, ConnectionLost,
                  scanned_accounts, unscanned_accounts
    <3>2. QED
      BY <3>1, OtherStepsRefine DEF Over
  <2>5. ASSUME NEW i \in Slots, NEW t \in Tries,
               LambdaWrites(i, t) \/ LambdaReturns(i, t) \/ LambdaDies(i, t)
        PROVE  [Outcomes!Next]_(Outcomes!vars)
    <3>1. UNCHANGED <<phase, scanned_accounts, unscanned_accounts>>
      BY <2>5 DEF LambdaWrites, LambdaReturns, LambdaDies,
                  scanned_accounts, unscanned_accounts
    <3>2. QED
      BY <3>1, OtherStepsRefine DEF Over
  <2>6. CASE UNCHANGED vars
    BY <2>6, OtherStepsRefine DEF vars, Over, scanned_accounts, unscanned_accounts
  <2>7. QED
    BY <2>1, <2>2, <2>3, <2>4, <2>5, <2>6, NextCases
<1>3. QED
  BY <1>1, <1>2, ScanTypeCorrect, BookInvariant, PTL DEF Spec, RefinesOutcomes, Outcomes!Spec
=============================================================================
