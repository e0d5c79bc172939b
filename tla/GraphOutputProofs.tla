------------------------- MODULE GraphOutputProofs -------------------------
(***************************************************************************)
(* Proofs about GraphOutput, for any graph sets, links and tags, and       *)
(* batches of any size: the merge, the conversion to vertices and edges    *)
(* and its write, the export to tables and the conversion to triples.      *)
(* Each has an inductive invariant of its own; those of the conversions    *)
(* rest on that of the merge, which is over before they start.             *)
(***************************************************************************)
EXTENDS GraphOutput, FiniteSetTheorems, TLAPS

-----------------------------------------------------------------------------
(* What sequences hold *)

\* The elements of a sequence by their places.
LEMMA ToSetIsIndexed ==
  ASSUME NEW S, NEW s \in Seq(S)
  PROVE  ToSet(s) = {s[i] : i \in 1..Len(s)} /\ DOMAIN s = 1..Len(s) /\ Len(s) \in Nat
  BY DEF ToSet

\* A sequence holds what it held and what is appended to it.
LEMMA ToSetOfAppend ==
  ASSUME NEW S, NEW s \in Seq(S), NEW e \in S
  PROVE  /\ Append(s, e) \in Seq(S) /\ Len(Append(s, e)) = Len(s) + 1
         /\ ToSet(Append(s, e)) = ToSet(s) \cup {e}
<1>1. /\ Append(s, e) \in Seq(S) /\ Len(Append(s, e)) = Len(s) + 1
      /\ \A i \in 1..Len(s) : Append(s, e)[i] = s[i]
      /\ Append(s, e)[Len(s) + 1] = e
      /\ Len(s) \in Nat
  OBVIOUS
<1> DEFINE a == Append(s, e)
<1>2. ToSet(a) = {a[i] : i \in 1..Len(a)} /\ ToSet(s) = {s[i] : i \in 1..Len(s)}
  BY <1>1, ToSetIsIndexed
<1> HIDE DEF a
<1>3. 1..(Len(s) + 1) = 1..Len(s) \cup {Len(s) + 1}
  BY <1>1
<1>4. QED
  BY <1>1, <1>2, <1>3 DEF a

\* A sequence holds what two that are joined held.
LEMMA ToSetOfConcat ==
  ASSUME NEW S, NEW s \in Seq(S), NEW t \in Seq(S)
  PROVE  s \o t \in Seq(S) /\ ToSet(s \o t) = ToSet(s) \cup ToSet(t)
<1>1. /\ s \o t \in Seq(S) /\ Len(s \o t) = Len(s) + Len(t)
      /\ \A i \in 1..Len(s) : (s \o t)[i] = s[i]
      /\ \A i \in 1..Len(t) : (s \o t)[Len(s) + i] = t[i]
      /\ Len(s) \in Nat /\ Len(t) \in Nat
  OBVIOUS
<1> DEFINE c == s \o t
<1>2. /\ ToSet(c) = {c[i] : i \in 1..Len(c)} /\ ToSet(s) = {s[i] : i \in 1..Len(s)}
      /\ ToSet(t) = {t[i] : i \in 1..Len(t)}
  BY <1>1, ToSetIsIndexed
<1> HIDE DEF c
<1>3. ASSUME NEW i \in 1..Len(c)
      PROVE  c[i] \in ToSet(s) \cup ToSet(t)
  <2>1. CASE i \in 1..Len(s)
    BY <2>1, <1>1, <1>2 DEF c
  <2>2. CASE i > Len(s)
    <3>1. i - Len(s) \in 1..Len(t) /\ i = Len(s) + (i - Len(s))
      BY <2>2, <1>1 DEF c
    <3>2. QED
      BY <3>1, <1>1, <1>2 DEF c
  <2>3. QED
    BY <2>1, <2>2, <1>1
<1>4. ASSUME NEW i \in 1..Len(t)
      PROVE  t[i] \in ToSet(c)
  <2>1. Len(s) + i \in 1..Len(c) /\ c[Len(s) + i] = t[i]
    BY <1>1 DEF c
  <2>2. QED
    BY <2>1, <1>2
<1>5. ASSUME NEW i \in 1..Len(s)
      PROVE  s[i] \in ToSet(c)
  BY <1>1, <1>2 DEF c
<1>6. ToSet(c) = ToSet(s) \cup ToSet(t)
  BY <1>2, <1>3, <1>4, <1>5
<1>7. QED
  BY <1>1, <1>6 DEF c

\* A link put in at any place is all that is added.
LEMMA ToSetOfInsert ==
  ASSUME NEW S, NEW s \in Seq(S), NEW e \in S, NEW n \in 1..Len(s) + 1
  PROVE  InsertAt(s, n, e) \in Seq(S) /\ ToSet(InsertAt(s, n, e)) = ToSet(s) \cup {e}
<1> DEFINE a == SubSeq(s, 1, n - 1)
           b == SubSeq(s, n, Len(s))
<1>1. /\ a \in Seq(S) /\ Len(a) = n - 1 /\ \A i \in 1..(n - 1) : a[i] = s[i]
      /\ b \in Seq(S) /\ Len(b) = Len(s) + 1 - n
      /\ \A i \in 1..(Len(s) + 1 - n) : b[i] = s[n + i - 1]
      /\ Len(s) \in Nat
  OBVIOUS
<1>2. /\ ToSet(a) = {a[i] : i \in 1..(n - 1)}
      /\ ToSet(b) = {b[i] : i \in 1..(Len(s) + 1 - n)}
      /\ ToSet(s) = {s[i] : i \in 1..Len(s)}
  <2> HIDE DEF a, b
  <2>1. /\ ToSet(a) = {a[i] : i \in 1..Len(a)}
        /\ ToSet(b) = {b[i] : i \in 1..Len(b)}
        /\ ToSet(s) = {s[i] : i \in 1..Len(s)}
    BY <1>1, ToSetIsIndexed
  <2>2. QED
    BY <2>1, <1>1
<1> HIDE DEF a, b
<1>3. ToSet(a) \cup ToSet(b) = ToSet(s)
  <2>1. ASSUME NEW i \in 1..Len(s)
        PROVE  s[i] \in ToSet(a) \cup ToSet(b)
    <3>1. CASE i \in 1..(n - 1)
      BY <3>1, <1>1, <1>2
    <3>2. CASE i \in n..Len(s)
      <4>1. i - n + 1 \in 1..(Len(s) + 1 - n) /\ b[i - n + 1] = s[i]
        BY <3>2, <1>1
      <4>2. QED
        BY <4>1, <1>2
    <3>3. QED
      BY <3>1, <3>2
  <2>2. ASSUME NEW i \in 1..(n - 1)
        PROVE  a[i] \in ToSet(s)
    <3>1. i \in 1..Len(s) /\ a[i] = s[i]
      BY <1>1
    <3>2. QED
      BY <3>1, <1>2
  <2>3. ASSUME NEW i \in 1..(Len(s) + 1 - n)
        PROVE  b[i] \in ToSet(s)
    <3>1. n + i - 1 \in 1..Len(s) /\ b[i] = s[n + i - 1]
      BY <1>1
    <3>2. QED
      BY <3>1, <1>2
  <2>4. QED
    BY <2>1, <2>2, <2>3, <1>2
<1>4. /\ <<e>> \in Seq(S) /\ ToSet(<<e>>) = {e}
  BY DEF ToSet
<1>5. a \o <<e>> \in Seq(S) /\ ToSet(a \o <<e>>) = ToSet(a) \cup {e}
  <2> DEFINE d == <<e>>
  <2>1. a \in Seq(S) /\ d \in Seq(S) /\ ToSet(d) = {e}
    BY <1>1, <1>4
  <2> HIDE DEF d
  <2>2. a \o d \in Seq(S) /\ ToSet(a \o d) = ToSet(a) \cup ToSet(d)
    BY <2>1, ToSetOfConcat
  <2>3. QED
    BY <2>1, <2>2 DEF d
<1>6. (a \o <<e>>) \o b \in Seq(S)
      /\ ToSet((a \o <<e>>) \o b) = ToSet(a \o <<e>>) \cup ToSet(b)
  <2>1. a \o <<e>> \in Seq(S) /\ b \in Seq(S)
    BY <1>1, <1>5
  <2> DEFINE c == a \o <<e>>
  <2> HIDE DEF c
  <2>2. c \in Seq(S)
    BY <2>1 DEF c
  <2>3. c \o b \in Seq(S) /\ ToSet(c \o b) = ToSet(c) \cup ToSet(b)
    BY <2>1, <2>2, ToSetOfConcat
  <2>4. QED
    BY <2>3 DEF c
<1>7. InsertAt(s, n, e) = (a \o <<e>>) \o b
  BY DEF InsertAt, a, b
<1>8. QED
  BY <1>3, <1>5, <1>6, <1>7

-----------------------------------------------------------------------------
(* The merge *)

\* The ids of the resources that have come.
Ids == {r.id : r \in Scanned}

\* A copy counts in the merge.
Counts(r) == r \in Kept(r.id)

\* Two places of a sequence of resources have the id.
TwiceIn(list, id) ==
  \E i, j \in 1..Len(list) : i # j /\ list[i].id = id /\ list[j].id = id

\* The same of the resources of the first graph sets.
SeveralIn(n, id) ==
  \E k, l \in 1..n :
    \E i \in 1..Len(arrived[k].resources), j \in 1..Len(arrived[l].resources) :
      /\ <<k, i>> # <<l, j>>
      /\ arrived[k].resources[i].id = id
      /\ arrived[l].resources[j].id = id

\* What the groups may be.
Groups == [id : Ids, copies : Seq(Scanned)]

\* The resources there may be in the merged set.
Merged == Scanned \cup [id : Ids, type : {r.type : r \in Scanned}, links : Seq(Links)]

\* Where the merge may be.
Phases == {"arriving", "chaining", "grouping", "merging", "linking", "merged", "raised"}

\* The types of the variables.
MergeTypeOK ==
  /\ \E run \in Runs : pending \subseteq run /\ arrived \in Seq(run)
  /\ phase \in Phases /\ at \in Nat /\ copy \in Nat /\ taken \in Nat
  /\ resources \in Seq(Scanned)
  /\ groups \in Seq(Groups)
  /\ links \in Seq(Links)
  /\ merged \in Seq(Merged)

\* Before and after the resources are chained.
ChainInv ==
  /\ phase # "arriving" => pending = {}
  /\ phase \notin {"arriving", "raised"} => SameVersion
  /\ phase \in {"arriving", "chaining"} => groups = <<>>
  /\ phase = "arriving" => resources = <<>> /\ at = 0
  /\ phase \in {"arriving", "chaining", "grouping"} => merged = <<>>
  /\ phase = "chaining" =>
       /\ at <= Len(arrived)
       /\ ToSet(resources) = UNION {ToSet(arrived[k].resources) : k \in 1..at}
       /\ \A id : TwiceIn(resources, id) <=> SeveralIn(at, id)
  /\ phase \in {"grouping", "merging", "linking", "merged"} =>
       /\ ToSet(resources) = Scanned
       /\ \A id : TwiceIn(resources, id) <=> Several(id)

\* The groups of the first resources: one for each id, of all that have it.
Grouped(gs, list, n) ==
  /\ \A i \in 1..n : \E a \in 1..Len(gs) : gs[a].id = list[i].id
  /\ \A a, b \in 1..Len(gs) : gs[a].id = gs[b].id => a = b
  /\ \A a \in 1..Len(gs) :
       /\ ToSet(gs[a].copies) = {list[i] : i \in {i \in 1..n : list[i].id = gs[a].id}}
       /\ Len(gs[a].copies) > 0
       /\ Len(gs[a].copies) > 1
            <=> \E i, j \in 1..n : i # j /\ list[i].id = gs[a].id /\ list[j].id = gs[a].id

\* A resource of the merged set is what was told of its id.
AsTold(r) ==
  /\ r.type \in {k.type : k \in Kept(r.id)}
  /\ TypesOf(r.id) = {"account", "unscanned"} => r.type = "unscanned"
  /\ ToSet(r.links) = Told(r.id)
  /\ ~Unmergable(r.id)

\* The groups have the resources that were looked at.
GroupInv ==
  /\ phase = "grouping" => at <= Len(resources) /\ Grouped(groups, resources, at)
  /\ phase \in {"merging", "linking", "merged"} => Grouped(groups, resources, Len(resources))

\* What is merged is merged in the order of the groups, as it was told.
MergedInv ==
  /\ \A n \in 1..Len(merged) :
       n \in 1..Len(groups) /\ merged[n].id = groups[n].id /\ AsTold(merged[n])
  /\ phase = "merging" => at <= Len(groups) /\ Len(merged) = at
  /\ phase = "linking" => at < Len(groups) /\ Len(merged) = at
  /\ phase = "merged" => Len(merged) = Len(groups)

\* The links of the copies that count, up to link n of copy k.
LookedAt(k, n) ==
  {l \in Links : \E c \in 1..Len(Copies) :
     /\ Counts(Copies[c])
     /\ \/ c < k /\ l \in ToSet(Copies[c].links)
        \/ c = k /\ \E i \in 1..n : i <= Len(Copies[c].links) /\ l = Copies[c].links[i]}

\* The links collected are those looked at, one for a predicate.
LinkInv ==
  phase = "linking" =>
    /\ Len(Copies) > 1 /\ copy \in 1..Len(Copies) + 1
    /\ ToSet(links) = LookedAt(copy, taken)
    /\ \A k, l \in ToSet(links) : k.pred = l.pred => k = l

\* The merge is refused only with a reason.
RaisedInv ==
  phase = "raised" => ~SameVersion \/ \E id \in Ids : Unmergable(id)

\* What holds in every state of the merge.
MergeInv ==
  MergeTypeOK /\ ChainInv /\ GroupInv /\ MergedInv /\ LinkInv /\ RaisedInv

\* What the assumptions say of the graph sets that have come.
LEMMA ArrivedFacts ==
  ASSUME MergeTypeOK
  PROVE  /\ DOMAIN arrived = 1..Len(arrived) /\ Len(arrived) \in Nat
         /\ \A k \in 1..Len(arrived) :
              /\ arrived[k].resources \in Seq(Scanned)
              /\ DOMAIN arrived[k].resources = 1..Len(arrived[k].resources)
              /\ ToSet(arrived[k].resources) \subseteq Scanned
         /\ \A r \in Scanned : r.links \in Seq(Links)
<1>1. PICK run \in Runs : pending \subseteq run /\ arrived \in Seq(run)
  BY DEF MergeTypeOK
<1>2. /\ DOMAIN arrived = 1..Len(arrived) /\ Len(arrived) \in Nat
      /\ \A k \in 1..Len(arrived) : arrived[k] \in run
  BY <1>1
<1>3. \A k \in 1..Len(arrived) : ToSet(arrived[k].resources) \subseteq Scanned
  BY <1>2 DEF Scanned
<1>4. ASSUME NEW k \in 1..Len(arrived)
      PROVE  /\ arrived[k].resources \in Seq(Scanned)
             /\ DOMAIN arrived[k].resources = 1..Len(arrived[k].resources)
  <2>1. arrived[k].resources \in Seq(ToSet(arrived[k].resources))
    BY <1>2, RunsAssumption
  <2>2. QED
    BY <2>1, <1>3
<1>5. Scanned \subseteq ResourcesOf(run)
  BY <1>2 DEF Scanned, ResourcesOf
<1>6. ASSUME NEW r \in Scanned
      PROVE  r.links \in Seq(Links)
  <2>1. PICK k \in 1..Len(arrived) : r \in ToSet(arrived[k].resources)
    BY <1>2 DEF Scanned
  <2>2. r.links \in LinkCollections
    BY <2>1, <1>2, RunsAssumption
  <2>3. QED
    BY <2>2 DEF LinkCollections
<1>7. QED
  BY <1>2, <1>3, <1>4, <1>5, <1>6

\* What is said of the graph sets stays true when no other comes.
LEMMA ToldStays ==
  ASSUME arrived' = arrived
  PROVE  /\ Scanned' = Scanned /\ Ids' = Ids /\ Groups' = Groups /\ Merged' = Merged
         /\ SameVersion' <=> SameVersion
         /\ \A id : Several(id)' <=> Several(id)
         /\ \A id : Unmergable(id)' <=> Unmergable(id)
         /\ \A r : AsTold(r)' <=> AsTold(r)
         /\ \A r : Counts(r)' <=> Counts(r)
<1>1. Scanned' = Scanned /\ (SameVersion' <=> SameVersion)
      /\ \A id : Several(id)' <=> Several(id)
  BY DEF Scanned, SameVersion, Several
<1>2. Ids' = Ids /\ Groups' = Groups /\ Merged' = Merged
  BY <1>1 DEF Ids, Groups, Merged
<1>3. \A id : TypesOf(id)' = TypesOf(id) /\ Kept(id)' = Kept(id)
  BY <1>1 DEF Kept, TypesOf, CopiesOf, Wins, Winners
<1>4. \A id : Told(id)' = Told(id)
  BY <1>3 DEF Told
<1>5. \A id : Unmergable(id)' <=> Unmergable(id)
  BY <1>1, <1>3, <1>4 DEF Unmergable
<1>6. /\ \A r : AsTold(r)' <=> AsTold(r)
      /\ \A r : Counts(r)' <=> Counts(r)
  BY <1>3, <1>4, <1>5 DEF AsTold, Counts
<1>7. QED
  BY <1>1, <1>2, <1>5, <1>6

\* Once they are all grouped, a group has the copies of its id and no others.
LEMMA GroupsAreCopies ==
  ASSUME MergeInv, phase \in {"merging", "linking"}, NEW a \in 1..Len(groups)
  PROVE  /\ groups[a].id \in Ids /\ groups[a].copies \in Seq(Scanned)
         /\ ToSet(groups[a].copies) = {r \in Scanned : r.id = groups[a].id}
         /\ Len(groups[a].copies) > 0 /\ Len(groups[a].copies) \in Nat
         /\ Len(groups[a].copies) > 1 <=> Several(groups[a].id)
<1>1. /\ groups[a] \in Groups /\ resources \in Seq(Scanned)
      /\ ToSet(resources) = Scanned /\ Grouped(groups, resources, Len(resources))
      /\ \A id : TwiceIn(resources, id) <=> Several(id)
  BY DEF MergeInv, MergeTypeOK, ChainInv, GroupInv
<1>2. groups[a].id \in Ids /\ groups[a].copies \in Seq(Scanned)
  BY <1>1 DEF Groups
<1>3. ToSet(resources) = {resources[i] : i \in 1..Len(resources)}
  BY <1>1, ToSetIsIndexed
<1>4. ToSet(groups[a].copies) = {r \in Scanned : r.id = groups[a].id}
  <2>1. ToSet(groups[a].copies) = {resources[i] :
             i \in {i \in 1..Len(resources) : resources[i].id = groups[a].id}}
    BY <1>1 DEF Grouped
  <2>2. \A r : r \in Scanned <=> \E i \in 1..Len(resources) : r = resources[i]
    BY <1>1, <1>3
  <2>3. QED
    BY <2>1, <2>2
<1>5. Len(groups[a].copies) > 1 <=> TwiceIn(resources, groups[a].id)
  BY <1>1 DEF Grouped, TwiceIn
<1>6. QED
  BY <1>1, <1>2, <1>4, <1>5 DEF Grouped

\* The copies whose type wins are those that count.
LEMMA WinnersCount ==
  ASSUME NEW id, NEW copies \in Seq(Scanned), ToSet(copies) = {r \in Scanned : r.id = id}
  PROVE  /\ Types(copies) = TypesOf(id)
         /\ \A c \in 1..Len(copies) :
              Wins(copies[c].type, Types(copies)) <=> copies[c] \in Kept(id)
         /\ Kept(id) \subseteq ToSet(copies)
<1>1. ToSet(copies) = {copies[c] : c \in 1..Len(copies)} /\ DOMAIN copies = 1..Len(copies)
  BY ToSetIsIndexed
<1>2. CopiesOf(id) = ToSet(copies)
  BY DEF CopiesOf
<1>3. Types(copies) = TypesOf(id)
  BY <1>1, <1>2 DEF Types, TypesOf
<1>4. \A c \in 1..Len(copies) : copies[c] \in CopiesOf(id)
  BY <1>1, <1>2
<1>5. QED
  BY <1>2, <1>3, <1>4 DEF Kept

-----------------------------------------------------------------------------
(* The steps of the merge *)

\* The invariant does not say which of the loops is where, except by these.
LEMMA MergeFrame ==
  ASSUME MergeInv, arrived' = arrived, pending' = pending,
         UNCHANGED <<resources, groups, merged>>
  PROVE  /\ \E run \in Runs : pending' \subseteq run /\ arrived' \in Seq(run)
         /\ resources' \in Seq(Scanned') /\ groups' \in Seq(Groups') /\ merged' \in Seq(Merged')
         /\ \A n \in 1..Len(merged') :
              n \in 1..Len(groups') /\ merged'[n].id = groups'[n].id /\ AsTold(merged[n])'
<1>1. MergeTypeOK /\ MergedInv
  BY DEF MergeInv
<1>2. /\ \E run \in Runs : pending' \subseteq run /\ arrived' \in Seq(run)
      /\ resources' \in Seq(Scanned') /\ groups' \in Seq(Groups') /\ merged' \in Seq(Merged')
  BY <1>1, ToldStays DEF MergeTypeOK
<1>3. ASSUME NEW n \in 1..Len(merged')
      PROVE  /\ n \in 1..Len(groups') /\ merged'[n].id = groups'[n].id
             /\ AsTold(merged[n])'
  <2>1. n \in 1..Len(groups) /\ merged[n].id = groups[n].id /\ AsTold(merged[n])
    BY <1>1 DEF MergedInv
  <2>2. QED
    BY <2>1, ToldStays
<1>4. QED
  BY <1>2, <1>3

\* Nothing has come and nothing is merged.
LEMMA MergeInitial == MergeInit => MergeInv
<1> SUFFICES ASSUME MergeInit
             PROVE  MergeInv
  OBVIOUS
<1> USE DEF MergeInit
<1>1. MergeTypeOK
  BY DEF MergeTypeOK, Phases
<1>2. ChainInv /\ GroupInv /\ LinkInv /\ RaisedInv
  BY DEF ChainInv, GroupInv, LinkInv, RaisedInv
<1>3. MergedInv
  BY DEF MergedInv
<1>4. QED
  BY <1>1, <1>2, <1>3 DEF MergeInv

\* The graph set of an account comes.
LEMMA ArriveKeeps ==
  ASSUME MergeInv, NEW g \in pending, Arrive(g)
  PROVE  MergeInv'
<1>1. /\ phase = "arriving" /\ phase' = phase /\ at = 0
      /\ resources = <<>> /\ groups = <<>> /\ merged = <<>>
      /\ UNCHANGED <<at, resources, groups, copy, taken, links, merged>>
      /\ pending' = pending \ {g} /\ arrived' = Append(arrived, g)
  BY DEF MergeInv, ChainInv, Arrive
<1>2. \E run \in Runs : pending' \subseteq run /\ arrived' \in Seq(run)
  BY <1>1 DEF MergeInv, MergeTypeOK
<1>3. MergeTypeOK'
  BY <1>1, <1>2 DEF MergeInv, MergeTypeOK
<1>4. QED
  BY <1>1, <1>3 DEF MergeInv, ChainInv, GroupInv, MergedInv, LinkInv, RaisedInv

\* All have come: the versions are compared.
LEMMA FromGraphSetsKeeps ==
  ASSUME MergeInv, FromGraphSets
  PROVE  MergeInv'
<1>1. /\ phase = "arriving" /\ phase' = (IF SameVersion THEN "chaining" ELSE "raised")
      /\ at = 0 /\ at' = 0 /\ resources = <<>> /\ groups = <<>> /\ merged = <<>>
      /\ pending = {}
      /\ UNCHANGED <<pending, arrived, resources, groups, copy, taken, links, merged>>
  BY DEF MergeInv, ChainInv, FromGraphSets, Then
<1>2. MergeTypeOK'
  BY <1>1, MergeFrame DEF MergeInv, MergeTypeOK, Phases
<1>3. ToSet(resources) = {} /\ \A id : ~TwiceIn(resources, id)
  BY <1>1 DEF ToSet, TwiceIn
<1>4. UNION {ToSet(arrived'[k].resources) : k \in 1..0} = {}
      /\ \A id : ~SeveralIn(0, id)'
  BY DEF SeveralIn
<1>5. \A id : ~TwiceIn(resources, id)'
  BY <1>1, <1>3 DEF TwiceIn
<1>6. ChainInv'
  BY <1>1, <1>3, <1>4, <1>5, ToldStays, ArrivedFacts DEF ChainInv, MergeInv
<1>7. QED
  BY <1>1, <1>2, <1>6, ToldStays DEF MergeInv, GroupInv, MergedInv, LinkInv, RaisedInv

\* An id is twice in two sequences that are joined if it is in one or in both.
LEMMA TwiceInConcat ==
  ASSUME NEW S, NEW s \in Seq(S), NEW t \in Seq(S), NEW id
  PROVE  TwiceIn(s \o t, id) <=>
           \/ TwiceIn(s, id) \/ TwiceIn(t, id)
           \/ \E i \in 1..Len(s), j \in 1..Len(t) : s[i].id = id /\ t[j].id = id
<1> DEFINE c == s \o t
<1>1. /\ Len(c) = Len(s) + Len(t)
      /\ \A i \in 1..Len(s) : c[i] = s[i]
      /\ \A i \in 1..Len(t) : c[Len(s) + i] = t[i]
      /\ Len(s) \in Nat /\ Len(t) \in Nat
  OBVIOUS
<1> HIDE DEF c
<1>2. ASSUME TwiceIn(s, id)
      PROVE  TwiceIn(c, id)
  BY <1>1, <1>2 DEF TwiceIn
<1>3. ASSUME TwiceIn(t, id)
      PROVE  TwiceIn(c, id)
  <2>1. PICK i \in 1..Len(t), j \in 1..Len(t) : i # j /\ t[i].id = id /\ t[j].id = id
    BY <1>3 DEF TwiceIn
  <2>2. /\ Len(s) + i \in 1..Len(c) /\ Len(s) + j \in 1..Len(c) /\ Len(s) + i # Len(s) + j
        /\ c[Len(s) + i].id = id /\ c[Len(s) + j].id = id
    BY <2>1, <1>1
  <2>3. QED
    BY <2>2 DEF TwiceIn
<1>4. ASSUME NEW i \in 1..Len(s), NEW j \in 1..Len(t), s[i].id = id, t[j].id = id
      PROVE  TwiceIn(c, id)
  <2>1. /\ i \in 1..Len(c) /\ Len(s) + j \in 1..Len(c) /\ i # Len(s) + j
        /\ c[i].id = id /\ c[Len(s) + j].id = id
    BY <1>4, <1>1
  <2>2. QED
    BY <2>1 DEF TwiceIn
<1>5. ASSUME TwiceIn(c, id)
      PROVE  \/ TwiceIn(s, id) \/ TwiceIn(t, id)
             \/ \E i \in 1..Len(s), j \in 1..Len(t) : s[i].id = id /\ t[j].id = id
  <2>1. PICK i \in 1..Len(c), j \in 1..Len(c) : i # j /\ c[i].id = id /\ c[j].id = id
    BY <1>5 DEF TwiceIn
  <2>2. \A k \in 1..Len(c) : k > Len(s) =>
          k - Len(s) \in 1..Len(t) /\ c[k] = t[k - Len(s)]
    <3>1. TAKE k \in 1..Len(c)
    <3>2. HAVE k > Len(s)
    <3>3. k - Len(s) \in 1..Len(t) /\ k = Len(s) + (k - Len(s))
      BY <3>2, <1>1
    <3>4. QED
      BY <3>3, <1>1
  <2>3. CASE i <= Len(s) /\ j <= Len(s)
    BY <2>1, <2>3, <1>1 DEF TwiceIn
  <2>4. CASE i > Len(s) /\ j > Len(s)
    <3>1. i - Len(s) # j - Len(s)
      BY <2>1, <1>1
    <3>2. QED
      BY <2>1, <2>2, <2>4, <3>1 DEF TwiceIn
  <2>5. CASE i <= Len(s) /\ j > Len(s)
    BY <2>1, <2>2, <2>5, <1>1
  <2>6. CASE i > Len(s) /\ j <= Len(s)
    BY <2>1, <2>2, <2>6, <1>1
  <2>7. QED
    BY <2>3, <2>4, <2>5, <2>6, <1>1
<1>6. QED
  BY <1>2, <1>3, <1>4, <1>5 DEF c

\* Of the next graph set an id is there twice, or it was there before.
LEMMA SeveralInNext ==
  ASSUME NEW n \in Nat, NEW id
  PROVE  SeveralIn(n + 1, id) <=>
           \/ SeveralIn(n, id) \/ TwiceIn(arrived[n + 1].resources, id)
           \/ \E k \in 1..n : \E i \in 1..Len(arrived[k].resources),
                                 j \in 1..Len(arrived[n + 1].resources) :
                arrived[k].resources[i].id = id /\ arrived[n + 1].resources[j].id = id
<1> DEFINE P(k, i) == i \in 1..Len(arrived[k].resources) /\ arrived[k].resources[i].id = id
<1>1. \A m : SeveralIn(m, id) <=>
        \E k, l \in 1..m : \E i, j : (k # l \/ i # j) /\ P(k, i) /\ P(l, j)
  <2>1. \A k, l, i, j : <<k, i>> # <<l, j>> <=> k # l \/ i # j
    OBVIOUS
  <2> TAKE m
  <2>2. ASSUME SeveralIn(m, id)
        PROVE  \E k, l \in 1..m : \E i, j : (k # l \/ i # j) /\ P(k, i) /\ P(l, j)
    <3>1. PICK k \in 1..m, l \in 1..m :
            \E i \in 1..Len(arrived[k].resources), j \in 1..Len(arrived[l].resources) :
              /\ <<k, i>> # <<l, j>>
              /\ arrived[k].resources[i].id = id /\ arrived[l].resources[j].id = id
      BY <2>2 DEF SeveralIn
    <3>2. PICK i, j : (k # l \/ i # j) /\ P(k, i) /\ P(l, j)
      BY <3>1
    <3>3. QED
      BY <3>2
  <2>3. ASSUME NEW k \in 1..m, NEW l \in 1..m, NEW i, NEW j,
               k # l \/ i # j, P(k, i), P(l, j)
        PROVE  SeveralIn(m, id)
    BY <2>1, <2>3, Zenon DEF SeveralIn
  <2>4. QED
    BY <2>2, <2>3
<1>2. TwiceIn(arrived[n + 1].resources, id) <=>
        \E i, j : i # j /\ P(n + 1, i) /\ P(n + 1, j)
  BY DEF TwiceIn
<1>3. 1..(n + 1) = 1..n \cup {n + 1} /\ n + 1 \notin 1..n
  OBVIOUS
<1> HIDE DEF P
<1>4. (\E k, l \in 1..(n + 1) : \E i, j : (k # l \/ i # j) /\ P(k, i) /\ P(l, j)) <=>
        \/ \E k, l \in 1..n : \E i, j : (k # l \/ i # j) /\ P(k, i) /\ P(l, j)
        \/ \E i, j : i # j /\ P(n + 1, i) /\ P(n + 1, j)
        \/ \E k \in 1..n : \E i, j : P(k, i) /\ P(n + 1, j)
  BY <1>3, ZenonT(60)
<1>5. (\E k \in 1..n : \E i, j : P(k, i) /\ P(n + 1, j)) <=>
        \E k \in 1..n : \E i \in 1..Len(arrived[k].resources),
                           j \in 1..Len(arrived[n + 1].resources) :
          arrived[k].resources[i].id = id /\ arrived[n + 1].resources[j].id = id
  BY DEF P
<1>6. SeveralIn(n, id) <=>
        \E k, l \in 1..n : \E i, j : (k # l \/ i # j) /\ P(k, i) /\ P(l, j)
  BY <1>1
<1>7. SeveralIn(n + 1, id) <=>
        \E k, l \in 1..(n + 1) : \E i, j : (k # l \/ i # j) /\ P(k, i) /\ P(l, j)
  BY <1>1
<1>8. QED
  BY <1>2, <1>4, <1>5, <1>6, <1>7, Zenon

\* The resources of one more graph set are chained.
LEMMA ChainKeeps ==
  ASSUME MergeInv, Chain
  PROVE  MergeInv'
<1> DEFINE s == arrived[at + 1].resources
<1>1. /\ phase = "chaining" /\ phase' = phase /\ at < Len(arrived) /\ at' = at + 1
      /\ resources' = resources \o s /\ arrived' = arrived /\ pending' = pending
      /\ UNCHANGED <<groups, copy, taken, links, merged>>
  BY DEF Chain
<1>2. /\ MergeTypeOK /\ groups = <<>> /\ merged = <<>> /\ pending = {} /\ SameVersion
      /\ ToSet(resources) = UNION {ToSet(arrived[k].resources) : k \in 1..at}
      /\ \A id : TwiceIn(resources, id) <=> SeveralIn(at, id)
      /\ at \in Nat /\ resources \in Seq(Scanned)
  BY <1>1 DEF MergeInv, ChainInv, MergeTypeOK
<1>3. s \in Seq(Scanned) /\ at + 1 \in 1..Len(arrived)
  BY <1>1, <1>2, ArrivedFacts
<1> HIDE DEF s
<1>4. resources' \in Seq(Scanned) /\ ToSet(resources') = ToSet(resources) \cup ToSet(s)
  BY <1>1, <1>2, <1>3, ToSetOfConcat
<1>5. ToSet(resources') = UNION {ToSet(arrived[k].resources) : k \in 1..(at + 1)}
  <2>1. 1..(at + 1) = 1..at \cup {at + 1}
    BY <1>2
  <2>2. QED
    BY <2>1, <1>2, <1>4 DEF s
<1>6. ASSUME NEW id
      PROVE  TwiceIn(resources', id) <=> SeveralIn(at + 1, id)
  <2>1. TwiceIn(resources', id) <=>
          \/ TwiceIn(resources, id) \/ TwiceIn(s, id)
          \/ \E i \in 1..Len(resources), j \in 1..Len(s) :
               resources[i].id = id /\ s[j].id = id
    <3>1. resources \in Seq(Scanned) /\ s \in Seq(Scanned)
      BY <1>2, <1>3
    <3>2. TwiceIn(resources \o s, id) <=>
            \/ TwiceIn(resources, id) \/ TwiceIn(s, id)
            \/ \E i \in 1..Len(resources), j \in 1..Len(s) :
                 resources[i].id = id /\ s[j].id = id
      BY <3>1, TwiceInConcat
    <3>3. QED
      BY <3>2, <1>1
  <2>2. SeveralIn(at + 1, id) <=>
          \/ SeveralIn(at, id) \/ TwiceIn(s, id)
          \/ \E k \in 1..at : \E i \in 1..Len(arrived[k].resources), j \in 1..Len(s) :
               arrived[k].resources[i].id = id /\ s[j].id = id
    BY <1>2, SeveralInNext DEF s
  <2>3. (\E r \in ToSet(resources) : r.id = id) <=>
          \E i \in 1..Len(resources) : resources[i].id = id
    <3>1. ToSet(resources) = {resources[i] : i \in 1..Len(resources)}
      BY <1>2, ToSetIsIndexed
    <3>2. QED
      BY <3>1
  <2>4. (\E r \in ToSet(resources) : r.id = id) <=>
          \E k \in 1..at : \E r \in ToSet(arrived[k].resources) : r.id = id
    BY <1>2
  <2>5. \A k \in 1..at : ToSet(arrived[k].resources)
                            = {arrived[k].resources[i] : i \in 1..Len(arrived[k].resources)}
    <3>1. TAKE k \in 1..at
    <3>2. arrived[k].resources \in Seq(Scanned)
      BY <1>1, <1>2, ArrivedFacts
    <3>3. QED
      BY <3>2, ToSetIsIndexed
  <2>6. (\E r \in ToSet(resources) : r.id = id) <=>
          \E k \in 1..at : \E i \in 1..Len(arrived[k].resources) :
             arrived[k].resources[i].id = id
    <3>1. \A k \in 1..at : (\E r \in ToSet(arrived[k].resources) : r.id = id) <=>
            \E i \in 1..Len(arrived[k].resources) : arrived[k].resources[i].id = id
      <4>1. TAKE k \in 1..at
      <4>2. ToSet(arrived[k].resources)
              = {arrived[k].resources[i] : i \in 1..Len(arrived[k].resources)}
        BY <2>5
      <4>3. QED
        BY <4>2
    <3>2. QED
      BY <2>4, <3>1
  <2>7. QED
    BY <2>1, <2>2, <2>3, <2>6, <1>2
<1>7. MergeTypeOK'
  BY <1>1, <1>2, <1>4, ToldStays DEF MergeTypeOK
<1>8. \A id : /\ TwiceIn(resources, id)' <=> TwiceIn(resources', id)
              /\ SeveralIn(at, id)' <=> SeveralIn(at + 1, id)
  BY <1>1 DEF TwiceIn, SeveralIn
<1>9. ChainInv'
  BY <1>1, <1>2, <1>3, <1>5, <1>6, <1>8, ToldStays DEF ChainInv
<1>10. QED
  BY <1>1, <1>2, <1>7, <1>9 DEF MergeInv, GroupInv, MergedInv, LinkInv, RaisedInv

\* When the last graph set is chained, the resources are all that were scanned.
LEMMA ChainedKeeps ==
  ASSUME MergeInv, Then("chaining", Len(arrived), "grouping")
  PROVE  MergeInv'
<1>1. /\ phase = "chaining" /\ phase' = "grouping" /\ at = Len(arrived) /\ at' = 0
      /\ arrived' = arrived /\ pending' = pending
      /\ UNCHANGED <<resources, groups, copy, taken, links, merged>>
  BY DEF Then
<1>2. /\ MergeTypeOK /\ groups = <<>> /\ merged = <<>> /\ pending = {} /\ SameVersion
      /\ ToSet(resources) = UNION {ToSet(arrived[k].resources) : k \in 1..at}
      /\ \A id : TwiceIn(resources, id) <=> SeveralIn(at, id)
  BY <1>1 DEF MergeInv, ChainInv
<1>3. MergeTypeOK'
  BY <1>1, <1>2, MergeFrame DEF MergeTypeOK, Phases
<1>4. ToSet(resources) = Scanned
  BY <1>1, <1>2, ArrivedFacts DEF Scanned
<1>5. \A id : SeveralIn(at, id) <=> Several(id)
  <2>1. /\ 1..at = DOMAIN arrived
        /\ \A k \in 1..at : 1..Len(arrived[k].resources) = DOMAIN arrived[k].resources
    BY <1>1, <1>2, ArrivedFacts
  <2> TAKE id
  <2>2. ASSUME NEW k \in 1..at, NEW l \in 1..at,
               NEW i \in 1..Len(arrived[k].resources),
               NEW j \in 1..Len(arrived[l].resources),
               <<k, i>> # <<l, j>>,
               arrived[k].resources[i].id = id, arrived[l].resources[j].id = id
        PROVE  Several(id)
    BY <2>1, <2>2, Zenon DEF Several
  <2>3. ASSUME NEW k \in DOMAIN arrived, NEW l \in DOMAIN arrived,
               NEW i \in DOMAIN arrived[k].resources,
               NEW j \in DOMAIN arrived[l].resources,
               <<k, i>> # <<l, j>>,
               arrived[k].resources[i].id = id, arrived[l].resources[j].id = id
        PROVE  SeveralIn(at, id)
    BY <2>1, <2>3, Zenon DEF SeveralIn
  <2>4. ASSUME SeveralIn(at, id)
        PROVE  Several(id)
    <3>1. PICK k \in 1..at, l \in 1..at :
            \E i \in 1..Len(arrived[k].resources), j \in 1..Len(arrived[l].resources) :
              /\ <<k, i>> # <<l, j>>
              /\ arrived[k].resources[i].id = id /\ arrived[l].resources[j].id = id
      BY <2>4 DEF SeveralIn
    <3>2. PICK i \in 1..Len(arrived[k].resources), j \in 1..Len(arrived[l].resources) :
              /\ <<k, i>> # <<l, j>>
              /\ arrived[k].resources[i].id = id /\ arrived[l].resources[j].id = id
      BY <3>1
    <3>3. QED
      BY <3>2, <2>2
  <2>5. ASSUME Several(id)
        PROVE  SeveralIn(at, id)
    <3>1. PICK k \in DOMAIN arrived, l \in DOMAIN arrived :
            \E i \in DOMAIN arrived[k].resources, j \in DOMAIN arrived[l].resources :
              /\ <<k, i>> # <<l, j>>
              /\ arrived[k].resources[i].id = id /\ arrived[l].resources[j].id = id
      BY <2>5 DEF Several
    <3>2. PICK i \in DOMAIN arrived[k].resources, j \in DOMAIN arrived[l].resources :
              /\ <<k, i>> # <<l, j>>
              /\ arrived[k].resources[i].id = id /\ arrived[l].resources[j].id = id
      BY <3>1
    <3>3. QED
      BY <3>2, <2>3
  <2>6. QED
    BY <2>4, <2>5
<1>6. \A id : TwiceIn(resources, id)' <=> TwiceIn(resources, id)
  BY <1>1 DEF TwiceIn
<1>7. ChainInv'
  BY <1>1, <1>2, <1>4, <1>5, <1>6, ToldStays DEF ChainInv
<1>8. GroupInv'
  <2>1. Grouped(groups', resources', 0)
    BY <1>1, <1>2 DEF Grouped
  <2>2. Len(resources') \in Nat
    BY <1>3 DEF MergeTypeOK
  <2>3. QED
    BY <1>1, <2>1, <2>2 DEF GroupInv
<1>9. QED
  BY <1>1, <1>2, <1>3, <1>7, <1>8 DEF MergeInv, MergedInv, LinkInv, RaisedInv

\* One more resource joins the copies of its id, or is the first of them.
LEMMA GroupKeeps ==
  ASSUME MergeInv, Group
  PROVE  MergeInv'
<1> DEFINE r == resources[at + 1]
           Has(n, id) == \E i \in 1..n : resources[i].id = id
           Two(n, id) == \E i, j \in 1..n : i # j /\ resources[i].id = id /\ resources[j].id = id
           With(n, id) == {resources[i] : i \in {i \in 1..n : resources[i].id = id}}
           Fits(g, n) == /\ ToSet(g.copies) = With(n, g.id) /\ Len(g.copies) > 0
                         /\ Len(g.copies) > 1 <=> Two(n, g.id)
           Single(gs) == \A a, b \in 1..Len(gs) : gs[a].id = gs[b].id => a = b
           Covers(gs, n) == \A i \in 1..n : \E a \in 1..Len(gs) : gs[a].id = resources[i].id
           All(gs, n) == \A a \in 1..Len(gs) : Fits(gs[a], n)
<1>1. /\ phase = "grouping" /\ phase' = phase /\ at < Len(resources) /\ at' = at + 1
      /\ arrived' = arrived /\ pending' = pending
      /\ UNCHANGED <<resources, copy, taken, links, merged>>
  BY DEF Group
<1>2. /\ MergeTypeOK /\ merged = <<>> /\ pending = {} /\ SameVersion
      /\ Grouped(groups, resources, at)
      /\ at \in Nat /\ resources \in Seq(Scanned) /\ groups \in Seq(Groups)
  BY <1>1 DEF MergeInv, ChainInv, MergeTypeOK, GroupInv
<1>3. at + 1 \in 1..Len(resources) /\ r \in Scanned /\ r.id \in Ids
  BY <1>1, <1>2 DEF Ids
<1>4. 1..(at + 1) = 1..at \cup {at + 1} /\ at + 1 \notin 1..at
  BY <1>2
<1>5. /\ \A id : Two(at + 1, id) <=> Two(at, id) \/ (Has(at, id) /\ r.id = id)
      /\ \A id : r.id # id => With(at + 1, id) = With(at, id)
      /\ With(at + 1, r.id) = With(at, r.id) \cup {r}
  <2>1. \A id : r.id # id => With(at + 1, id) = With(at, id)
    BY <1>4
  <2>2. With(at + 1, r.id) = With(at, r.id) \cup {r}
    BY <1>4
  <2>3. \A id : Two(at + 1, id) <=> Two(at, id) \/ (Has(at, id) /\ r.id = id)
    BY <1>4
  <2>4. QED
    BY <2>1, <2>2, <2>3
<1>6. \A gs, n : Grouped(gs, resources, n) <=> Covers(gs, n) /\ Single(gs) /\ All(gs, n)
  BY ZenonT(60) DEF Grouped
<1>7. ASSUME NEW g \in Groups
      PROVE  /\ g = [id |-> g.id, copies |-> g.copies] /\ g.copies \in Seq(Scanned)
             /\ g.id \in Ids /\ Len(g.copies) \in Nat
  BY DEF Groups
<1>8. ASSUME NEW g \in Groups, Fits(g, at)
      PROVE  Has(at, g.id)
  <2>1. g.copies \in Seq(Scanned) /\ 1 \in 1..Len(g.copies)
    BY <1>7, <1>8
  <2>2. g.copies[1] \in ToSet(g.copies)
    BY <2>1, ToSetIsIndexed
  <2>3. g.copies[1] \in With(at, g.id)
    BY <2>2, <1>8
  <2>4. QED
    BY <2>3
<1>9. ASSUME NEW g, Fits(g, at), g.id # r.id
      PROVE  Fits(g, at + 1)
  <2> HIDE DEF Two, Has, With, r
  <2>1. QED
    BY <1>5, <1>9
<1>10. \A g \in Groups : ~Has(at, r.id) /\ g.id = r.id
         /\ ToSet(g.copies) = {r} /\ Len(g.copies) = 1 => Fits(g, at + 1)
  <2>1. ~Has(at, r.id) => With(at, r.id) = {} /\ ~Two(at, r.id)
    OBVIOUS
  <2> HIDE DEF Two, Has, With, r
  <2>2. QED
    BY <1>5, <2>1
<1>11. ASSUME NEW g \in Groups, NEW h \in Groups, Fits(g, at), g.id = r.id, h.id = r.id,
              ToSet(h.copies) = ToSet(g.copies) \cup {r}, Len(h.copies) = Len(g.copies) + 1
       PROVE  Fits(h, at + 1)
  <2>1. Has(at, r.id) /\ Len(g.copies) \in Nat
    BY <1>7, <1>8, <1>11
  <2> HIDE DEF Two, Has, With, r
  <2>2. Len(h.copies) > 1
    BY <2>1, <1>11
  <2>3. QED
    BY <1>5, <1>11, <2>1, <2>2
<1>12. DOMAIN groups = 1..Len(groups) /\ Len(groups) \in Nat
       /\ \A a \in 1..Len(groups) : groups[a] \in Groups
  BY <1>2
<1>13. Covers(groups, at) /\ Single(groups) /\ All(groups, at)
  BY <1>2, <1>6
<1> HIDE DEF Two, With, Fits
<1>14. ASSUME /\ \A n \in DOMAIN groups : groups[n].id # r.id
              /\ groups' = Append(groups, [id |-> r.id, copies |-> <<r>>])
       PROVE  groups' \in Seq(Groups) /\ Grouped(groups', resources, at + 1)
  <2> DEFINE g == [id |-> r.id, copies |-> <<r>>]
  <2>1. /\ g \in Groups /\ g.id = r.id /\ Len(g.copies) = 1 /\ ToSet(g.copies) = {r}
    BY <1>3 DEF Groups, ToSet
  <2> HIDE DEF g
  <2>2. /\ groups' \in Seq(Groups) /\ Len(groups') = Len(groups) + 1
        /\ \A a \in 1..Len(groups) : groups'[a] = groups[a]
        /\ groups'[Len(groups) + 1] = g
    BY <1>2, <1>14, <2>1 DEF g
  <2>3. ~Has(at, r.id)
    BY <1>12, <1>13, <1>14
  <2>4. 1..Len(groups') = 1..Len(groups) \cup {Len(groups) + 1}
    BY <2>2, <1>12
  <2>5. Covers(groups', at + 1)
    BY <1>4, <1>13, <2>1, <2>2, <2>4
  <2>6. Single(groups')
    BY <1>12, <1>13, <1>14, <2>1, <2>2, <2>4
  <2>7. ASSUME NEW a \in 1..Len(groups')
        PROVE  Fits(groups'[a], at + 1)
    <3>1. CASE a \in 1..Len(groups)
      BY <3>1, <2>2, <1>9, <1>12, <1>13, <1>14
    <3>2. CASE a = Len(groups) + 1
      BY <3>2, <2>1, <2>2, <2>3, <1>10
    <3>3. QED
      BY <3>1, <3>2, <2>4
  <2>8. All(groups', at + 1)
    BY <2>7
  <2> HIDE DEF All, Covers, Single
  <2>9. QED
    BY <1>6, <2>2, <2>5, <2>6, <2>8
<1>15. ASSUME \E n \in DOMAIN groups :
                /\ groups[n].id = r.id
                /\ groups' = [groups EXCEPT ![n].copies = Append(@, r)]
       PROVE  groups' \in Seq(Groups) /\ Grouped(groups', resources, at + 1)
  <2>1. PICK n \in 1..Len(groups) :
               /\ groups[n].id = r.id
               /\ groups' = [groups EXCEPT ![n].copies = Append(@, r)]
    BY <1>12, <1>15
  <2> DEFINE g == [id |-> groups[n].id, copies |-> Append(groups[n].copies, r)]
  <2>2. /\ groups[n] = [id |-> groups[n].id, copies |-> groups[n].copies]
        /\ groups[n].copies \in Seq(Scanned) /\ groups[n].id \in Ids
    BY <1>7, <1>12
  <2>3. /\ Append(groups[n].copies, r) \in Seq(Scanned)
        /\ Len(Append(groups[n].copies, r)) = Len(groups[n].copies) + 1
        /\ ToSet(Append(groups[n].copies, r)) = ToSet(groups[n].copies) \cup {r}
    BY <2>2, <1>3, ToSetOfAppend
  <2>4. /\ g \in Groups /\ g.id = r.id /\ Len(g.copies) = Len(groups[n].copies) + 1
        /\ ToSet(g.copies) = ToSet(groups[n].copies) \cup {r}
    <3>1. g.id = groups[n].id /\ g.copies = Append(groups[n].copies, r)
      OBVIOUS
    <3>2. g \in Groups
      BY <2>2, <2>3 DEF Groups
    <3>3. g.id = r.id
      BY <3>1, <2>1
    <3>4. /\ Len(g.copies) = Len(groups[n].copies) + 1
          /\ ToSet(g.copies) = ToSet(groups[n].copies) \cup {r}
      BY <3>1, <2>3, Zenon
    <3>5. QED
      BY <3>2, <3>3, <3>4, Zenon
  <2>5. groups' = [groups EXCEPT ![n] = g]
    <3>1. [groups[n] EXCEPT !.copies = Append(@, r)] = g
      <4> DEFINE x == Append(groups[n].copies, r)
      <4>1. \A a, b, c : [[id |-> a, copies |-> b] EXCEPT !.copies = c]
                           = [id |-> a, copies |-> c]
        OBVIOUS
      <4>2. [groups[n] EXCEPT !.copies = Append(@, r)] = [groups[n] EXCEPT !.copies = x]
        OBVIOUS
      <4> HIDE DEF x, r
      <4>3. [groups[n] EXCEPT !.copies = x] = [id |-> groups[n].id, copies |-> x]
        BY <2>2, <4>1
      <4>4. QED
        BY <4>2, <4>3 DEF x
    <3> HIDE DEF g, r
    <3>2. groups' = [groups EXCEPT ![n] = [groups[n] EXCEPT !.copies = Append(@, r)]]
      BY <2>1
    <3>3. QED
      BY <3>1, <3>2, Zenon
  <2> HIDE DEF g
  <2>6. /\ groups' \in Seq(Groups) /\ Len(groups') = Len(groups)
        /\ \A a \in 1..Len(groups) : a # n => groups'[a] = groups[a]
        /\ groups'[n] = g
    BY <1>2, <2>4, <2>5
  <2>7. \A a \in 1..Len(groups) : groups'[a].id = groups[a].id
    BY <2>1, <2>4, <2>6
  <2>8. Covers(groups', at + 1)
    BY <1>4, <1>13, <2>1, <2>6, <2>7
  <2>9. Single(groups')
    BY <1>13, <2>6, <2>7
  <2>10. ASSUME NEW a \in 1..Len(groups')
         PROVE  Fits(groups'[a], at + 1)
    <3>1. CASE a # n
      <4>1. groups'[a] = groups[a] /\ groups[a].id # r.id
        BY <3>1, <2>1, <2>6, <1>13
      <4>2. QED
        BY <4>1, <2>6, <1>9, <1>13
    <3>2. CASE a = n
      <4>1. groups[n] \in Groups /\ Fits(groups[n], at)
        BY <1>12, <1>13
      <4>2. QED
        BY <3>2, <4>1, <2>1, <2>4, <2>6, <1>11
    <3>3. QED
      BY <3>1, <3>2
  <2>11. All(groups', at + 1)
    BY <2>6, <2>10
  <2> HIDE DEF All, Covers, Single
  <2>12. QED
    BY <1>6, <2>6, <2>8, <2>9, <2>11
<1>16. groups' \in Seq(Groups) /\ Grouped(groups', resources, at + 1)
  BY <1>14, <1>15, Zenon DEF Group
<1>17. MergeTypeOK'
  BY <1>1, <1>2, <1>16, ToldStays DEF MergeTypeOK
<1>18. ChainInv'
  <2>1. \A id : TwiceIn(resources, id)' <=> TwiceIn(resources, id)
    BY <1>1 DEF TwiceIn
  <2>2. QED
    BY <1>1, <1>2, <2>1, ToldStays DEF ChainInv, MergeInv
<1>19. GroupInv'
  BY <1>1, <1>2, <1>16 DEF GroupInv
<1>20. QED
  BY <1>1, <1>2, <1>17, <1>18, <1>19 DEF MergeInv, MergedInv, LinkInv, RaisedInv

\* What the end of the loops before says still holds while groups are merged.
LEMMA MergingFrame ==
  ASSUME MergeInv, phase \in {"grouping", "merging", "linking"},
         phase = "grouping" => at = Len(resources),
         phase' \in {"merging", "linking", "merged", "raised"},
         UNCHANGED <<pending, arrived, resources, groups>>
  PROVE  /\ ChainInv' /\ GroupInv'
         /\ \E run \in Runs : pending' \subseteq run /\ arrived' \in Seq(run)
         /\ resources' \in Seq(Scanned') /\ groups' \in Seq(Groups')
         /\ phase' \in Phases
<1>1. MergeTypeOK /\ ChainInv /\ GroupInv
  BY DEF MergeInv
<1>2. \A id : TwiceIn(resources, id)' <=> TwiceIn(resources, id)
  BY DEF TwiceIn
<1>3. ChainInv'
  BY <1>1, <1>2, ToldStays DEF ChainInv
<1>4. GroupInv'
  BY <1>1 DEF GroupInv
<1>5. QED
  BY <1>1, <1>3, <1>4, ToldStays DEF MergeTypeOK, Phases

\* The copies that are being merged.
LEMMA CurrentCopies ==
  ASSUME MergeInv, phase \in {"merging", "linking"}, at < Len(groups), NEW id,
         id = groups[at + 1].id
  PROVE  /\ at \in Nat /\ at + 1 \in 1..Len(groups) /\ id \in Ids
         /\ Copies \in Seq(Scanned) /\ Len(Copies) \in Nat /\ Len(Copies) > 0
         /\ ToSet(Copies) = {Copies[c] : c \in 1..Len(Copies)}
         /\ ToSet(Copies) = {r \in Scanned : r.id = id}
         /\ Len(Copies) > 1 <=> Several(id)
         /\ \A c \in 1..Len(Copies) : /\ Copies[c] \in Scanned /\ Copies[c].id = id
                                      /\ Copies[c].links \in Seq(Links)
                                      /\ Wins(Copies[c].type, Types(Copies))
                                           <=> Counts(Copies[c])
         /\ Types(Copies) = TypesOf(id)
         /\ Kept(id) = {r \in ToSet(Copies) : Counts(r)}
<1>1. at \in Nat /\ at + 1 \in 1..Len(groups) /\ MergeTypeOK
  BY DEF MergeInv, MergeTypeOK
<1>2. /\ id \in Ids /\ Copies \in Seq(Scanned) /\ Len(Copies) \in Nat /\ Len(Copies) > 0
      /\ ToSet(Copies) = {r \in Scanned : r.id = id}
      /\ Len(Copies) > 1 <=> Several(id)
  BY <1>1, GroupsAreCopies DEF Copies
<1>3. ToSet(Copies) = {Copies[c] : c \in 1..Len(Copies)}
  BY <1>2, ToSetIsIndexed
<1>4. \A c \in 1..Len(Copies) : Copies[c] \in Scanned /\ Copies[c].id = id
  BY <1>2, <1>3
<1>5. /\ \A c \in 1..Len(Copies) :
            Wins(Copies[c].type, Types(Copies)) <=> Copies[c] \in Kept(id)
      /\ Types(Copies) = TypesOf(id)
      /\ Kept(id) \subseteq ToSet(Copies)
  BY <1>1, <1>2, WinnersCount
<1>6. \A c \in 1..Len(Copies) : Counts(Copies[c]) <=> Copies[c] \in Kept(id)
  BY <1>4 DEF Counts
<1>7. \A c \in 1..Len(Copies) : Copies[c].links \in Seq(Links)
  BY <1>1, <1>4, ArrivedFacts
<1>8. Kept(id) = {r \in ToSet(Copies) : Counts(r)}
  BY <1>3, <1>5, <1>6
<1>9. QED
  BY <1>1, <1>2, <1>3, <1>4, <1>5, <1>6, <1>7, <1>8

\* All resources are grouped.
LEMMA GroupedKeeps ==
  ASSUME MergeInv, Then("grouping", Len(resources), "merging")
  PROVE  MergeInv'
<1>1. /\ phase = "grouping" /\ phase' = "merging" /\ at = Len(resources) /\ at' = 0
      /\ UNCHANGED <<pending, arrived, resources, groups, copy, taken, links, merged>>
  BY DEF Then
<1>2. MergeTypeOK /\ merged = <<>>
  BY <1>1 DEF MergeInv, ChainInv
<1>3. MergeTypeOK' /\ ChainInv' /\ GroupInv'
  BY <1>1, <1>2, MergingFrame, MergeFrame DEF MergeTypeOK
<1>4. Len(groups') \in Nat
  BY <1>3 DEF MergeTypeOK
<1>5. QED
  BY <1>1, <1>2, <1>3, <1>4 DEF MergeInv, MergedInv, LinkInv, RaisedInv

\* All groups are merged.
LEMMA AllMergedKeeps ==
  ASSUME MergeInv, Then("merging", Len(groups), "merged")
  PROVE  MergeInv'
<1>1. /\ phase = "merging" /\ phase' = "merged" /\ at = Len(groups) /\ at' = 0
      /\ UNCHANGED <<pending, arrived, resources, groups, copy, taken, links, merged>>
  BY DEF Then
<1>2. MergeTypeOK /\ MergedInv
  BY <1>1 DEF MergeInv
<1>3. MergeTypeOK' /\ ChainInv' /\ GroupInv'
  BY <1>1, <1>2, MergingFrame, MergeFrame DEF MergeTypeOK
<1>4. MergedInv'
  BY <1>1, <1>2, MergeFrame DEF MergedInv
<1>5. QED
  BY <1>1, <1>3, <1>4 DEF MergeInv, LinkInv, RaisedInv

\* A resource that is what was told of the next id is added to the merged ones.
LEMMA MergedGrows ==
  ASSUME MergeInv, phase \in {"merging", "linking"}, at < Len(groups),
         NEW r \in Merged, r.id = groups[at + 1].id, AsTold(r),
         merged' = Append(merged, r), at' = at + 1, phase' = "merging",
         UNCHANGED <<pending, arrived, resources, groups, copy, taken>>,
         links' \in Seq(Links)
  PROVE  MergeInv'
<1>1. /\ MergeTypeOK /\ MergedInv /\ Len(merged) = at /\ merged \in Seq(Merged)
      /\ at \in Nat
  BY DEF MergeInv, MergedInv, MergeTypeOK
<1>2. /\ merged' \in Seq(Merged) /\ Len(merged') = at + 1 /\ merged'[at + 1] = r
      /\ \A n \in 1..at : merged'[n] = merged[n]
  BY <1>1
<1>3. ChainInv' /\ GroupInv' /\ MergeTypeOK'
  BY <1>1, <1>2, MergingFrame, ToldStays DEF MergeTypeOK
<1>4. ASSUME NEW n \in 1..Len(merged')
      PROVE  /\ n \in 1..Len(groups') /\ merged'[n].id = groups'[n].id
             /\ AsTold(merged[n])'
  <2>1. CASE n \in 1..at
    BY <2>1, <1>1, <1>2, ToldStays DEF MergedInv
  <2>2. CASE n = at + 1
    BY <2>2, <1>1, <1>2, ToldStays
  <2>3. QED
    BY <2>1, <2>2, <1>1, <1>2
<1>5. MergedInv'
  BY <1>1, <1>2, <1>4 DEF MergedInv
<1>6. QED
  BY <1>3, <1>5 DEF MergeInv, LinkInv, RaisedInv

\* A resource without copies is kept as it is.
LEMMA KeepKeeps ==
  ASSUME MergeInv, Keep
  PROVE  MergeInv'
<1> DEFINE id == groups[at + 1].id
<1>1. /\ phase = "merging" /\ phase' = phase /\ at < Len(groups) /\ at' = at + 1
      /\ Len(Copies) = 1 /\ merged' = Append(merged, Copies[1])
      /\ UNCHANGED <<pending, arrived, resources, groups, copy, taken, links>>
  BY DEF Keep
<1> HIDE DEF id
<1>2. /\ Copies[1] \in Scanned /\ Copies[1].id = id /\ Kept(id) = {Copies[1]}
      /\ TypesOf(id) = {Copies[1].type} /\ ~Several(id)
  <2>1. /\ 1..Len(Copies) = {1} /\ DOMAIN Copies = 1..Len(Copies)
        /\ Len(Copies) > 1 <=> Several(id)
        /\ Copies[1] \in Scanned /\ Copies[1].id = id
        /\ ToSet(Copies) = {Copies[1]} /\ Types(Copies) = TypesOf(id)
        /\ Wins(Copies[1].type, Types(Copies)) <=> Counts(Copies[1])
        /\ Kept(id) = {r \in ToSet(Copies) : Counts(r)}
    BY <1>1, CurrentCopies, ToSetIsIndexed DEF id
  <2>2. Types(Copies) = {Copies[1].type}
    BY <2>1 DEF Types
  <2>3. Wins(Copies[1].type, Types(Copies))
    BY <2>2 DEF Wins
  <2>4. QED
    BY <2>1, <2>2, <2>3, <1>1
<1>3. AsTold(Copies[1])
  <2>1. Kept(id) # {} /\ Told(id) = ToSet(Copies[1].links)
    BY <1>2 DEF Told
  <2>2. TypesOf(id) # {"account", "unscanned"}
    BY <1>2
  <2>3. ~Unmergable(id)
    BY <2>1, <1>2 DEF Unmergable
  <2>4. QED
    BY <2>1, <2>2, <2>3, <1>2 DEF AsTold
<1>4. Copies[1] \in Merged /\ links \in Seq(Links)
  BY <1>2 DEF Merged, MergeInv, MergeTypeOK
<1>5. QED
  BY <1>1, <1>2, <1>3, <1>4, MergedGrows DEF id

\* The merge of the copies of a resource starts, or finds no type for them.
LEMMA MergeResourcesKeeps ==
  ASSUME MergeInv, MergeResources
  PROVE  MergeInv'
<1>1. /\ phase = "merging" /\ at < Len(groups) /\ Len(Copies) > 1
      /\ phase' = IF \E t \in Types(Copies) : Wins(t, Types(Copies)) THEN "linking" ELSE "raised"
      /\ copy' = 1 /\ taken' = 0 /\ links' = <<>>
      /\ UNCHANGED <<pending, arrived, at, resources, groups, merged>>
  BY DEF MergeResources
<1> DEFINE id == groups[at + 1].id
<1>2. /\ Copies \in Seq(Scanned) /\ Len(Copies) \in Nat /\ id \in Ids
      /\ DOMAIN Copies = 1..Len(Copies)
      /\ ToSet(Copies) = {Copies[c] : c \in 1..Len(Copies)}
      /\ Kept(id) = {r \in ToSet(Copies) : Counts(r)}
      /\ \A c \in 1..Len(Copies) :
           Wins(Copies[c].type, Types(Copies)) <=> Counts(Copies[c])
  BY <1>1, CurrentCopies, ToSetIsIndexed
<1> HIDE DEF id
<1>3. phase' \in {"linking", "raised"} /\ (phase' = "raised" => Kept(id) = {})
  <2>1. ASSUME NEW r \in Kept(id)
        PROVE  \E t \in Types(Copies) : Wins(t, Types(Copies))
    <3>1. PICK c \in 1..Len(Copies) : r = Copies[c] /\ Counts(r)
      BY <1>2
    <3>2. Copies[c].type \in Types(Copies) /\ Wins(Copies[c].type, Types(Copies))
      BY <3>1, <1>2 DEF Types
    <3>3. QED
      BY <3>2
  <2>2. QED
    BY <2>1, <1>1
<1>4. MergeTypeOK /\ MergedInv
  BY DEF MergeInv
<1>5. MergeTypeOK' /\ ChainInv' /\ GroupInv'
  BY <1>1, <1>3, <1>4, MergingFrame, MergeFrame DEF MergeTypeOK
<1>6. MergedInv'
  BY <1>1, <1>3, <1>4, MergeFrame DEF MergedInv
<1>7. Copies' = Copies /\ ToSet(links') = {}
  BY <1>1 DEF Copies, ToSet
<1>8. LookedAt(copy, taken)' = {}
  <2>1. /\ \A c \in 1..Len(Copies) : ~(c < 1)
        /\ 1..0 = {}
    BY <1>2
  <2>2. ASSUME NEW l \in LookedAt(copy, taken)'
        PROVE  FALSE
    <3>1. PICK c \in 1..Len(Copies) : c < 1 \/ \E i \in 1..0 : TRUE
      BY <2>2, <1>1, <1>7 DEF LookedAt
    <3>2. QED
      BY <3>1, <2>1
  <2>3. QED
    BY <2>2, Zenon
<1>9. LinkInv'
  <2>1. Len(Copies') > 1 /\ copy' \in 1..Len(Copies') + 1
    BY <1>1, <1>2, <1>7
  <2>2. ToSet(links') = LookedAt(copy, taken)' /\ ToSet(links') = {}
    BY <1>7, <1>8
  <2>3. \A k, l \in ToSet(links') : k.pred = l.pred => k = l
    BY <2>2
  <2>4. QED
    BY <2>1, <2>2, <2>3, Zenon DEF LinkInv
<1>10. RaisedInv'
  <2>1. CASE phase' = "linking"
    BY <2>1 DEF RaisedInv
  <2>2. CASE phase' # "linking"
    <3>1. Unmergable(id) /\ id \in Ids
      BY <2>2, <1>3, <1>2 DEF Unmergable
    <3>2. Ids' = Ids /\ (Unmergable(id)' <=> Unmergable(id)) /\ id' = id
      BY <1>1, ToldStays DEF id
    <3>3. QED
      BY <3>1, <3>2 DEF RaisedInv
  <2>3. QED
    BY <2>1, <2>2
<1>11. QED
  BY <1>5, <1>6, <1>9, <1>10 DEF MergeInv

\* What every turn of the loop over the links of a copy starts from.
LEMMA NextLinkFacts ==
  ASSUME MergeInv, NextLink
  PROVE  /\ phase = "linking" /\ at < Len(groups) /\ at \in Nat /\ taken \in Nat
         /\ copy \in 1..Len(Copies) /\ Counts(Copies[copy])
         /\ taken + 1 \in 1..Len(Copies[copy].links)
         /\ Link \in Links /\ Link \in ToSet(Copies[copy].links)
         /\ Copies[copy] \in Kept(groups[at + 1].id)
         /\ taken' = taken + 1 /\ Copies' = Copies /\ links \in Seq(Links)
         /\ LookedAt(copy, taken + 1) = LookedAt(copy, taken) \cup {Link}
         /\ LookedAt(copy, taken)' = LookedAt(copy, taken + 1)
         /\ UNCHANGED <<pending, arrived, at, resources, groups, copy, merged>>
<1>1. /\ phase = "linking" /\ copy <= Len(Copies)
      /\ Wins(Copies[copy].type, Types(Copies))
      /\ taken < Len(Copies[copy].links) /\ taken' = taken + 1
      /\ UNCHANGED <<pending, arrived, at, resources, groups, copy, merged>>
  BY DEF NextLink
<1>2. /\ at < Len(groups) /\ links \in Seq(Links) /\ taken \in Nat /\ at \in Nat
      /\ copy \in 1..Len(Copies) + 1
  BY <1>1 DEF MergeInv, MergedInv, MergeTypeOK, LinkInv
<1>3. /\ copy \in 1..Len(Copies) /\ Len(Copies) \in Nat
  BY <1>1, <1>2, CurrentCopies
<1>4. /\ Counts(Copies[copy]) /\ Copies[copy].links \in Seq(Links)
      /\ Copies[copy] \in Kept(groups[at + 1].id)
  <2>1. /\ Counts(Copies[copy]) /\ Copies[copy].links \in Seq(Links)
        /\ Copies[copy].id = groups[at + 1].id
    BY <1>1, <1>2, <1>3, CurrentCopies
  <2>2. QED
    BY <2>1 DEF Counts
<1>5. taken + 1 \in 1..Len(Copies[copy].links)
  BY <1>1, <1>2, <1>4
<1>6. Link \in Links /\ Link \in ToSet(Copies[copy].links)
  BY <1>4, <1>5, ToSetIsIndexed DEF Link
<1>7. Copies' = Copies
  BY <1>1 DEF Copies
<1>8. LookedAt(copy, taken + 1) = LookedAt(copy, taken) \cup {Link}
  <2>1. 1..(taken + 1) = 1..taken \cup {taken + 1}
    BY <1>2
  <2>2. LookedAt(copy, taken + 1) \subseteq LookedAt(copy, taken) \cup {Link}
    BY <2>1 DEF LookedAt, Link
  <2>3. LookedAt(copy, taken) \subseteq LookedAt(copy, taken + 1)
    BY <2>1 DEF LookedAt
  <2>4. Link \in LookedAt(copy, taken + 1)
    <3>1. taken + 1 \in 1..(taken + 1) /\ taken + 1 <= Len(Copies[copy].links)
      BY <1>2, <1>5
    <3>2. QED
      BY <3>1, <1>3, <1>4, <1>6 DEF LookedAt, Link
  <2>5. QED
    BY <2>2, <2>3, <2>4
<1>9. LookedAt(copy, taken)' = LookedAt(copy, taken + 1)
  BY <1>1, <1>7, ToldStays DEF LookedAt
<1>10. QED
  BY <1>1, <1>2, <1>3, <1>4, <1>5, <1>6, <1>7, <1>8, <1>9

\* A turn that goes on with all links that were looked at keeps the invariant.
LEMMA LinkedKeeps ==
  ASSUME MergeInv, NextLink, phase' = phase, links' \in Seq(Links),
         ToSet(links') = ToSet(links) \cup {Link},
         \A l \in ToSet(links) : l.pred = Link.pred => l = Link
  PROVE  MergeInv'
<1>1. MergeTypeOK /\ MergedInv /\ LinkInv
  BY DEF MergeInv
<1>2. MergeTypeOK' /\ ChainInv' /\ GroupInv'
  BY <1>1, NextLinkFacts, MergingFrame, MergeFrame DEF MergeTypeOK
<1>3. MergedInv'
  BY <1>1, NextLinkFacts, MergeFrame DEF MergedInv
<1>4. LinkInv'
  <2>1. ToSet(links') = LookedAt(copy, taken)'
    BY <1>1, NextLinkFacts DEF LinkInv
  <2>2. \A k, l \in ToSet(links') : k.pred = l.pred => k = l
    BY <1>1, NextLinkFacts DEF LinkInv
  <2>3. QED
    BY <2>1, <2>2, <1>1, NextLinkFacts DEF LinkInv
<1>5. QED
  BY <1>2, <1>3, <1>4, NextLinkFacts DEF MergeInv, RaisedInv

\* The place where a link is put in is one of the list, or follows it.
LEMMA InsertPlace ==
  ASSUME NEW list \in Seq(Links), NEW l \in Links
  PROVE  Insert(list, l) \in Seq(Links) /\ ToSet(Insert(list, l)) = ToSet(list) \cup {l}
<1> DEFINE before == {i \in DOMAIN list : Rank[list[i].kind] <= Rank[l.kind]}
<1>1. Len(list) \in Nat /\ before \subseteq 1..Len(list)
  <2>1. Len(list) \in Nat /\ DOMAIN list = 1..Len(list)
    BY ToSetIsIndexed
  <2>2. QED
    BY <2>1
<1>2. IsFiniteSet(1..Len(list)) /\ Cardinality(1..Len(list)) = Len(list)
  <2>1. /\ IsFiniteSet(1..Len(list))
        /\ Cardinality(1..Len(list)) = IF 1 > Len(list) THEN 0 ELSE Len(list) - 1 + 1
    BY <1>1, FS_Interval
  <2>2. QED
    BY <2>1, <1>1
<1> HIDE DEF before
<1>3. /\ Cardinality(before) \in Nat /\ Cardinality(before) <= Len(list)
  BY <1>1, <1>2, FS_Subset, FS_CardinalityType
<1>4. Cardinality(before) + 1 \in 1..Len(list) + 1
  BY <1>1, <1>3
<1>5. Insert(list, l) = InsertAt(list, Cardinality(before) + 1, l)
  BY DEF Insert, before
<1>6. QED
  BY <1>4, <1>5, ToSetOfInsert

\* A link of a predicate not yet met.
LEMMA NewLinkKeeps ==
  ASSUME MergeInv, NewLink
  PROVE  MergeInv'
<1>1. NextLink /\ phase' = phase /\ links' = Insert(links, Link)
      /\ \A i \in DOMAIN links : links[i].pred # Link.pred
  BY DEF NewLink
<1>2. Link \in Links /\ links \in Seq(Links)
  BY <1>1, NextLinkFacts
<1>3. links' \in Seq(Links) /\ ToSet(links') = ToSet(links) \cup {Link}
  BY <1>1, <1>2, InsertPlace
<1>4. \A l \in ToSet(links) : l.pred # Link.pred
  BY <1>1, <1>2, ToSetIsIndexed
<1>5. QED
  BY <1>1, <1>3, <1>4, LinkedKeeps

\* A link that was there already.
LEMMA SameLinkKeeps ==
  ASSUME MergeInv, SameLink
  PROVE  MergeInv'
<1>1. NextLink /\ phase' = phase /\ links' = links
      /\ \E i \in DOMAIN links : links[i] = Link
  BY DEF SameLink
<1>2. links \in Seq(Links) /\ LinkInv
  BY <1>1, NextLinkFacts DEF MergeInv
<1>3. Link \in ToSet(links)
  BY <1>1, <1>2, ToSetIsIndexed
<1>4. \A l \in ToSet(links) : l.pred = Link.pred => l = Link
  BY <1>1, <1>2, <1>3, NextLinkFacts DEF LinkInv
<1>5. QED
  BY <1>1, <1>2, <1>3, <1>4, LinkedKeeps

\* What the copies that count have been looked at for was told of the resource.
LEMMA LookedIsTold ==
  ASSUME MergeInv, phase = "linking", NEW k, NEW n
  PROVE  LookedAt(k, n) \subseteq Told(groups[at + 1].id)
<1>1. at < Len(groups)
  BY DEF MergeInv, MergedInv
<1>2. ASSUME NEW c \in 1..Len(Copies), Counts(Copies[c])
      PROVE  /\ Copies[c] \in Kept(groups[at + 1].id) /\ Copies[c].links \in Seq(Links)
  BY <1>1, <1>2, CurrentCopies DEF Counts
<1>3. ASSUME NEW l \in LookedAt(k, n)
      PROVE  l \in Told(groups[at + 1].id)
  <2>1. PICK c \in 1..Len(Copies) :
          /\ Counts(Copies[c])
          /\ \/ l \in ToSet(Copies[c].links)
             \/ \E i \in 1..n : i <= Len(Copies[c].links) /\ l = Copies[c].links[i]
    BY <1>3 DEF LookedAt
  <2>2. l \in ToSet(Copies[c].links)
    BY <2>1, <1>2, ToSetIsIndexed
  <2>3. QED
    BY <2>1, <2>2, <1>2 DEF Told
<1>4. QED
  BY <1>3

\* A link that contradicts one of its predicate.
LEMMA ConflictingLinkKeeps ==
  ASSUME MergeInv, ConflictingLink
  PROVE  MergeInv'
<1> DEFINE id == groups[at + 1].id
<1>1. /\ NextLink /\ phase' = "raised" /\ links' = links
      /\ \E i \in DOMAIN links : links[i].pred = Link.pred /\ links[i] # Link
  BY DEF ConflictingLink
<1>2. MergeTypeOK /\ MergedInv /\ LinkInv
  BY DEF MergeInv
<1>3. PICK l \in ToSet(links) : l.pred = Link.pred /\ l # Link
  BY <1>1, NextLinkFacts, ToSetIsIndexed
<1> HIDE DEF id
<1>4. l \in Told(id)
  <2>1. l \in LookedAt(copy, taken)
    BY <1>1, <1>2, <1>3, NextLinkFacts DEF LinkInv
  <2>2. QED
    BY <2>1, <1>1, NextLinkFacts, LookedIsTold DEF id
<1>5. Link \in Told(id)
  BY <1>1, NextLinkFacts DEF Told, id
<1>6. Several(id) /\ id \in Ids
  BY <1>1, <1>2, NextLinkFacts, CurrentCopies DEF LinkInv, id
<1>7. Unmergable(id)
  BY <1>3, <1>4, <1>5, <1>6 DEF Unmergable
<1>8. MergeTypeOK' /\ ChainInv' /\ GroupInv'
  BY <1>1, <1>2, NextLinkFacts, MergingFrame, MergeFrame DEF MergeTypeOK
<1>9. MergedInv'
  BY <1>1, <1>2, NextLinkFacts, MergeFrame DEF MergedInv
<1>10. RaisedInv'
  <2>1. Ids' = Ids /\ (Unmergable(id)' <=> Unmergable(id)) /\ id' = id
    BY <1>1, NextLinkFacts, ToldStays DEF id
  <2>2. QED
    BY <2>1, <1>6, <1>7, <1>1, NextLinkFacts, ToldStays DEF RaisedInv
<1>11. QED
  BY <1>1, <1>8, <1>9, <1>10 DEF MergeInv, LinkInv

\* The links of one copy have all been looked at, or do not count.
LEMMA NextCopyKeeps ==
  ASSUME MergeInv, NextCopy
  PROVE  MergeInv'
<1>1. /\ phase = "linking" /\ phase' = phase /\ copy <= Len(Copies)
      /\ Wins(Copies[copy].type, Types(Copies)) => taken = Len(Copies[copy].links)
      /\ copy' = copy + 1 /\ taken' = 0
      /\ UNCHANGED <<pending, arrived, at, resources, groups, links, merged>>
  BY DEF NextCopy
<1>2. MergeTypeOK /\ MergedInv /\ LinkInv /\ at < Len(groups)
  BY <1>1 DEF MergeInv, MergedInv
<1>3. /\ copy \in 1..Len(Copies) /\ Len(Copies) \in Nat
      /\ Counts(Copies[copy]) => taken = Len(Copies[copy].links)
      /\ Copies[copy].links \in Seq(Links)
  <2>1. copy \in 1..Len(Copies) + 1 /\ Len(Copies) \in Nat
    BY <1>1, <1>2, CurrentCopies DEF LinkInv
  <2>2. copy \in 1..Len(Copies)
    BY <2>1, <1>1
  <2>3. QED
    BY <2>1, <2>2, <1>1, <1>2, CurrentCopies
<1>4. Copies' = Copies
  BY <1>1 DEF Copies
<1>5. LookedAt(copy, taken)' = LookedAt(copy + 1, 0)
  BY <1>1, <1>4, ToldStays DEF LookedAt
<1>6. LookedAt(copy + 1, 0) = LookedAt(copy, taken)
  <2>1. /\ \A c \in 1..Len(Copies) : c < copy + 1 <=> c < copy \/ c = copy
        /\ 1..0 = {}
    BY <1>3
  <2>2. ToSet(Copies[copy].links) = {Copies[copy].links[i] : i \in 1..Len(Copies[copy].links)}
        /\ Len(Copies[copy].links) \in Nat
    BY <1>3, ToSetIsIndexed
  <2>3. Counts(Copies[copy]) => \A l : l \in ToSet(Copies[copy].links) <=>
          \E i \in 1..taken : i <= Len(Copies[copy].links) /\ l = Copies[copy].links[i]
    BY <2>2, <1>3
  <2>4. ASSUME NEW l \in Links, NEW c \in 1..Len(Copies), Counts(Copies[c])
        PROVE  (\/ c < copy + 1 /\ l \in ToSet(Copies[c].links)
                \/ c = copy + 1 /\ \E i \in 1..0 : i <= Len(Copies[c].links)
                                                     /\ l = Copies[c].links[i])
               <=> (\/ c < copy /\ l \in ToSet(Copies[c].links)
                    \/ c = copy /\ \E i \in 1..taken : i <= Len(Copies[c].links)
                                                         /\ l = Copies[c].links[i])
    <3>1. CASE c = copy
      BY <3>1, <2>1, <2>3, <2>4
    <3>2. CASE c # copy
      BY <3>2, <2>1
    <3>3. QED
      BY <3>1, <3>2
  <2>5. QED
    BY <2>4 DEF LookedAt
<1>7. MergeTypeOK' /\ ChainInv' /\ GroupInv'
  BY <1>1, <1>2, <1>3, MergingFrame, MergeFrame DEF MergeTypeOK
<1>8. MergedInv'
  BY <1>1, <1>2, MergeFrame DEF MergedInv
<1>9. LinkInv'
  BY <1>1, <1>2, <1>3, <1>4, <1>5, <1>6 DEF LinkInv
<1>10. QED
  BY <1>1, <1>7, <1>8, <1>9 DEF MergeInv, RaisedInv

\* The links of all copies have been looked at.
LEMMA EndMergeKeeps ==
  ASSUME MergeInv, EndMerge
  PROVE  MergeInv'
<1> DEFINE id == groups[at + 1].id
<1>1. /\ phase = "linking" /\ phase' = "merging" /\ copy > Len(Copies) /\ at' = at + 1
      /\ UNCHANGED <<pending, arrived, resources, groups, copy, taken, links>>
  BY DEF EndMerge
<1>2. PICK t \in Types(Copies) :
        /\ Wins(t, Types(Copies))
        /\ merged' = Append(merged, [id |-> id, type |-> t, links |-> links])
  BY DEF EndMerge
<1> DEFINE r == [id |-> id, type |-> t, links |-> links]
<1> HIDE DEF id
<1>3. /\ MergeTypeOK /\ LinkInv /\ at < Len(groups) /\ at \in Nat /\ links \in Seq(Links)
  BY <1>1 DEF MergeInv, MergedInv, MergeTypeOK
<1>4. /\ Copies \in Seq(Scanned) /\ Len(Copies) \in Nat /\ id \in Ids
      /\ ToSet(Copies) = {Copies[c] : c \in 1..Len(Copies)}
      /\ Kept(id) = {q \in ToSet(Copies) : Counts(q)}
      /\ \A c \in 1..Len(Copies) :
           /\ Copies[c] \in Scanned /\ Copies[c].links \in Seq(Links)
           /\ Wins(Copies[c].type, Types(Copies)) <=> Counts(Copies[c])
      /\ Types(Copies) = TypesOf(id)
  BY <1>1, <1>3, CurrentCopies DEF id
<1>5. PICK c \in 1..Len(Copies) : t = Copies[c].type
  BY <1>4 DEF Types
<1>6. /\ t \in {k.type : k \in Kept(id)} /\ t \in {k.type : k \in Scanned}
      /\ TypesOf(id) = {"account", "unscanned"} => t = "unscanned"
  <2>1. Copies[c] \in Kept(id) /\ Copies[c] \in Scanned
    BY <1>2, <1>4, <1>5
  <2>2. Types(Copies) = {"account", "unscanned"} => t = "unscanned"
    BY <1>2, ClobberAssumption
  <2>3. QED
    BY <2>1, <2>2, <1>4, <1>5
<1>7. ToSet(links) = Told(id)
  <2>1. ToSet(links) = LookedAt(copy, taken) /\ copy = Len(Copies) + 1
    BY <1>1, <1>3, <1>4 DEF LinkInv
  <2>2. LookedAt(copy, taken) \subseteq Told(id)
    BY <1>1, LookedIsTold DEF id
  <2>3. ASSUME NEW l \in Told(id)
        PROVE  l \in LookedAt(copy, taken)
    <3>1. PICK q \in Kept(id) : l \in ToSet(q.links)
      BY DEF Told
    <3>2. PICK d \in 1..Len(Copies) : q = Copies[d] /\ Counts(Copies[d])
      BY <1>4
    <3>3. l \in Links
      BY <3>1, <3>2, <1>4, ToSetIsIndexed
    <3>4. d < copy
      BY <2>1, <1>4
    <3>5. QED
      BY <3>1, <3>2, <3>3, <3>4 DEF LookedAt
  <2>4. QED
    BY <2>1, <2>2, <2>3
<1>8. r \in Merged /\ r.id = id /\ r.type = t /\ r.links = links
  BY <1>3, <1>4, <1>6 DEF Merged
<1> HIDE DEF r
<1>9. ~Unmergable(id)
  BY <1>1, <1>3, <1>6, <1>7 DEF LinkInv, Unmergable
<1>10. AsTold(r)
  BY <1>6, <1>7, <1>8, <1>9 DEF AsTold
<1>11. merged' = Append(merged, r)
  BY <1>2 DEF r
<1>12. QED
  BY <1>1, <1>3, <1>8, <1>10, <1>11, MergedGrows DEF id

\* No step of the merge leaves the invariant.
LEMMA MergeStep == MergeInv /\ [MergeNext]_mergeVars => MergeInv'
<1> SUFFICES ASSUME MergeInv, [MergeNext]_mergeVars
             PROVE  MergeInv'
  OBVIOUS
<1>1. CASE MergeNext
  BY <1>1, ArriveKeeps, FromGraphSetsKeeps, ChainKeeps, ChainedKeeps, GroupKeeps,
     GroupedKeeps, KeepKeeps, MergeResourcesKeeps, NewLinkKeeps, SameLinkKeeps,
     ConflictingLinkKeeps, NextCopyKeeps, EndMergeKeeps, AllMergedKeeps DEF MergeNext
<1>2. CASE UNCHANGED mergeVars
  <2>1. UNCHANGED <<pending, arrived, phase, at, resources, groups, copy, taken, links, merged>>
    BY <1>2 DEF mergeVars
  <2>2. MergeTypeOK'
    BY <2>1, MergeFrame DEF MergeInv, MergeTypeOK
  <2>3. \A id : /\ TwiceIn(resources, id)' <=> TwiceIn(resources, id)
                /\ SeveralIn(at, id)' <=> SeveralIn(at, id)
    BY <2>1 DEF TwiceIn, SeveralIn
  <2>4. ChainInv' /\ GroupInv'
    BY <2>1, <2>3, ToldStays DEF MergeInv, ChainInv, GroupInv
  <2>5. MergedInv'
    BY <2>1, MergeFrame DEF MergeInv, MergedInv
  <2>6. Copies' = Copies
    BY <2>1 DEF Copies
  <2>7. LookedAt(copy, taken)' = LookedAt(copy, taken)
    BY <2>1, <2>6, ToldStays DEF LookedAt
  <2>8. LinkInv' /\ RaisedInv'
    BY <2>1, <2>6, <2>7, ToldStays DEF MergeInv, LinkInv, RaisedInv
  <2>9. QED
    BY <2>2, <2>4, <2>5, <2>8 DEF MergeInv
<1>3. QED
  BY <1>1, <1>2

\* The invariant says of a finished merge what MergedAsTold does.
LEMMA MergeInvIsTold == MergeInv => MergedAsTold
<1> SUFFICES ASSUME MergeInv
             PROVE  MergedAsTold
  OBVIOUS
<1>1. MergeTypeOK /\ ChainInv /\ GroupInv /\ MergedInv /\ RaisedInv
  BY DEF MergeInv
<1>2. ASSUME phase = "merged"
      PROVE  /\ SameVersion /\ Len(merged) = Len(groups) /\ DOMAIN merged = 1..Len(merged)
             /\ \A id \in Ids : \E n \in 1..Len(groups) : groups[n].id = id
             /\ \A m, n \in 1..Len(groups) : groups[m].id = groups[n].id => m = n
             /\ \A n \in 1..Len(groups) : merged[n].id \in Ids
  <2>1. SameVersion /\ Len(merged) = Len(groups) /\ DOMAIN merged = 1..Len(merged)
    BY <1>1, <1>2 DEF MergeTypeOK, ChainInv, MergedInv
  <2>2. Grouped(groups, resources, Len(resources)) /\ ToSet(resources) = Scanned
    BY <1>1, <1>2 DEF GroupInv, ChainInv
  <2>3. \A id \in Ids : \E i \in 1..Len(resources) : resources[i].id = id
    <3>1. ToSet(resources) = {resources[i] : i \in 1..Len(resources)}
      BY <1>1, ToSetIsIndexed DEF MergeTypeOK
    <3>2. \A r \in Scanned : \E i \in 1..Len(resources) : resources[i] = r
      BY <3>1, <2>2
    <3>3. QED
      BY <3>2 DEF Ids
  <2>4. \A id \in Ids : \E n \in 1..Len(groups) : groups[n].id = id
    <3>1. \A i \in 1..Len(resources) : \E n \in 1..Len(groups) : groups[n].id = resources[i].id
      BY <2>2 DEF Grouped
    <3>2. QED
      BY <3>1, <2>3
  <2>5. \A n \in 1..Len(groups) : merged[n].id \in Ids
    <3>1. \A n \in 1..Len(groups) : groups[n] \in Groups
      BY <1>1 DEF MergeTypeOK
    <3>2. QED
      BY <3>1, <2>1, <1>1 DEF MergedInv, Groups
  <2>6. QED
    BY <2>1, <2>2, <2>4, <2>5 DEF Grouped
<1>3. ASSUME phase = "merged"
      PROVE  \A id \in Ids : ~Unmergable(id) /\ \E n \in DOMAIN merged : merged[n].id = id
  BY <1>1, <1>2, <1>3 DEF MergedInv, AsTold
<1>4. ASSUME phase = "merged", NEW n \in DOMAIN merged
      PROVE  /\ merged[n].id \in Ids
             /\ merged[n].type \in {k.type : k \in Kept(merged[n].id)}
             /\ TypesOf(merged[n].id) = {"account", "unscanned"} =>
                  merged[n].type = "unscanned"
             /\ ToSet(merged[n].links) = Told(merged[n].id)
             /\ \A m \in DOMAIN merged : merged[m].id = merged[n].id => m = n
  BY <1>1, <1>2, <1>4 DEF MergedInv, AsTold
<1>5. QED
  BY <1>1, <1>2, <1>3, <1>4, Zenon DEF MergedAsTold, RaisedInv, Ids

-----------------------------------------------------------------------------
(* What is written *)

\* A vertex of the id is stored.
Holds(vs, id) == \E w \in vs : w.id = id

\* A vertex of the id is to be stored.
Listed(id) == \E i \in 1..Len(vertices) : vertices[i].id = id

\* When the write returns, every listed vertex is stored and so is every edge.
WrittenIsListed ==
  lpg = "written" =>
    /\ \A i \in 1..Len(vertices) : Holds(store.vertices, vertices[i].id)
    /\ \A i \in 1..Len(edges) : edges[i] \in store.edges

\* At any time, also after a failed write, the edges stored are listed ones and
\* join vertices that are stored, and there is none before all vertices are.
EdgesJoinVertices ==
  /\ \A e \in store.edges :
       /\ \E i \in 1..Len(edges) : e = edges[i]
       /\ Holds(store.vertices, e.from) /\ Holds(store.vertices, e.to)
  /\ store.edges # {} => \A i \in 1..Len(vertices) : Holds(store.vertices, vertices[i].id)

\* A vertex is stored for one that is listed, with its label, or it was made up
\* for the end of an edge and stands for nothing that is listed.
VerticesAreListed ==
  \A w \in store.vertices :
    \/ \E i \in 1..Len(vertices) :
         w = Vertex(vertices[i].id, ParseArn[vertices[i].label])
    \/ w.label = "stub" /\ ~Listed(w.id)

-----------------------------------------------------------------------------
(* What is in batches *)

\* The batch is the part of the list up to the count that has not been sent.
Batched(list) ==
  /\ cnt \in 0..Len(list)
  /\ Len(batch) <= cnt
  /\ \A i \in 1..Len(batch) : batch[i] = list[cnt - Len(batch) + i]

\* What batches are made of.
Elements == ToSet(vertices) \cup ToSet(edges)

\* The types of the variables.
ListsInv ==
  /\ vertices \in Seq(ToSet(vertices)) /\ edges \in Seq(ToSet(edges))
  /\ batch \in Seq(Elements)
  /\ cnt \in Nat
  /\ store = [vertices |-> store.vertices, edges |-> store.edges]
  /\ lpg \in {"none", "vertices", "edges", "written", "raised"}

\* What has been sent is stored.
BatchInv ==
  /\ lpg = "none" => cnt = 0 /\ batch = <<>> /\ store.vertices = {}
  /\ lpg \in {"none", "vertices"} => store.edges = {}
  /\ lpg = "vertices" =>
       /\ Batched(vertices)
       /\ \A i \in 1..(cnt - Len(batch)) : Holds(store.vertices, vertices[i].id)
  /\ lpg \in {"edges", "written"} =>
       /\ Batched(edges)
       /\ \A i \in 1..(cnt - Len(batch)) : edges[i] \in store.edges
       /\ \A i \in 1..Len(vertices) : Holds(store.vertices, vertices[i].id)
  /\ lpg = "written" => cnt = Len(edges) /\ batch = <<>>

\* What holds in every state of a write.
WriteInv == ListsInv /\ BatchInv /\ EdgesJoinVertices /\ VerticesAreListed

-----------------------------------------------------------------------------
(* What is stored stays stored *)

\* Sending a batch of vertices stores each of them under its id.
LEMMA VerticesSent ==
  ASSUME ListsInv, store' = WithVertices
  PROVE  /\ store' = [vertices |-> store'.vertices, edges |-> store.edges]
         /\ store.vertices \subseteq store'.vertices
         /\ \A i \in 1..Len(batch) : Holds(store'.vertices, batch[i].id)
         /\ \A w \in store'.vertices \ store.vertices :
              \E i \in 1..Len(batch) : w = Vertex(batch[i].id, ParseArn[batch[i].label])
<1> DEFINE New == {v \in ToSet(batch) : \A w \in store.vertices : w.id # v.id}
           Made == {Vertex(v.id, ParseArn[v.label]) : v \in New}
<1>1. ToSet(batch) = {batch[i] : i \in 1..Len(batch)}
  BY ToSetIsIndexed DEF ListsInv
<1>2. store' = [vertices |-> store.vertices \cup Made, edges |-> store.edges]
  BY DEF WithVertices, ListsInv
<1>3. ASSUME NEW i \in 1..Len(batch)
      PROVE  Holds(store'.vertices, batch[i].id)
  <2>1. batch[i] \in ToSet(batch)
    BY <1>1
  <2>2. CASE \E w \in store.vertices : w.id = batch[i].id
    BY <2>2, <1>2 DEF Holds
  <2>3. CASE \A w \in store.vertices : w.id # batch[i].id
    <3>1. Vertex(batch[i].id, ParseArn[batch[i].label]) \in store'.vertices
      BY <1>2, <2>1, <2>3
    <3>2. QED
      BY <3>1 DEF Holds, Vertex
  <2>4. QED
    BY <2>2, <2>3
<1>4. \A w \in store'.vertices \ store.vertices :
        \E i \in 1..Len(batch) : w = Vertex(batch[i].id, ParseArn[batch[i].label])
  <2>1. SUFFICES ASSUME NEW v \in New
                 PROVE  \E i \in 1..Len(batch) :
                          Vertex(v.id, ParseArn[v.label])
                            = Vertex(batch[i].id, ParseArn[batch[i].label])
    BY <1>2
  <2>2. PICK i \in 1..Len(batch) : v = batch[i]
    BY <1>1
  <2>3. QED
    BY <2>2
<1>5. store'.vertices = store.vertices \cup Made
  BY <1>2
<1>6. QED
  BY <1>2, <1>3, <1>4, <1>5

\* Sending a batch of edges stores them and vertices for their ends, and what it
\* makes up stands for no vertex that was stored.
LEMMA EdgesSent ==
  ASSUME ListsInv, store' = WithEdges
  PROVE  /\ store' = [vertices |-> store'.vertices, edges |-> store'.edges]
         /\ store.vertices \subseteq store'.vertices
         /\ store'.edges = store.edges \cup {batch[i] : i \in 1..Len(batch)}
         /\ \A i \in 1..Len(batch) : /\ Holds(store'.vertices, batch[i].from)
                                     /\ Holds(store'.vertices, batch[i].to)
         /\ \A w \in store'.vertices \ store.vertices :
              w.label = "stub" /\ ~Holds(store.vertices, w.id)
<1> DEFINE Ends == UNION {{e.from, e.to} : e \in ToSet(batch)}
           Known == {v.id : v \in store.vertices}
           Made == {Vertex(id, "stub") : id \in Ends \ Known}
<1>1. ToSet(batch) = {batch[i] : i \in 1..Len(batch)}
  BY ToSetIsIndexed DEF ListsInv
<1>2. store' = [vertices |-> store.vertices \cup Made,
                edges |-> store.edges \cup ToSet(batch)]
  BY DEF WithEdges
<1>3. /\ store'.vertices = store.vertices \cup Made
      /\ store'.edges = store.edges \cup ToSet(batch)
  BY <1>2
<1>4. ASSUME NEW id \in Ends
      PROVE  Holds(store'.vertices, id)
  <2>1. CASE id \in Known
    BY <2>1, <1>3 DEF Holds
  <2>2. CASE id \notin Known
    <3>1. Vertex(id, "stub") \in store'.vertices
      BY <1>3, <2>2
    <3>2. QED
      BY <3>1 DEF Holds, Vertex
  <2>3. QED
    BY <2>1, <2>2
<1>5. ASSUME NEW i \in 1..Len(batch)
      PROVE  batch[i].from \in Ends /\ batch[i].to \in Ends
  BY <1>1
<1>6. ASSUME NEW w \in Made
      PROVE  w.label = "stub" /\ ~Holds(store.vertices, w.id)
  <2>1. PICK id \in Ends \ Known : w = Vertex(id, "stub")
    OBVIOUS
  <2>2. w.label = "stub" /\ w.id = id
    BY <2>1 DEF Vertex
  <2>3. QED
    BY <2>1, <2>2 DEF Holds
<1>7. QED
  BY <1>1, <1>2, <1>3, <1>4, <1>5, <1>6

-----------------------------------------------------------------------------
(* The inductive invariant *)

\* Nothing is listed and nothing is stored.
LEMMA WriteInit == LpgInit => WriteInv
  BY DEF LpgInit, WriteInv, ListsInv, BatchInv, EdgesJoinVertices,
         VerticesAreListed

\* A batch that grows by the next element is still the end of what was taken.
LEMMA BatchGrows ==
  ASSUME ListsInv, NEW list \in Seq(Elements),
         Batched(list), AddToBatch(list)
  PROVE  /\ batch' \in Seq(Elements) /\ cnt' \in Nat
         /\ cnt' \in 0..Len(list)
         /\ Len(batch') <= cnt'
         /\ \A i \in 1..Len(batch') : batch'[i] = list[cnt' - Len(batch') + i]
         /\ cnt' - Len(batch') = cnt - Len(batch)
<1>1. cnt' = cnt + 1 /\ cnt < Len(list) /\ batch' = Append(batch, list[cnt + 1])
  BY DEF AddToBatch
<1>2. list[cnt + 1] \in Elements
  BY <1>1 DEF Batched
<1>3. Len(batch') = Len(batch) + 1 /\ batch' \in Seq(Elements)
  BY <1>1, <1>2 DEF ListsInv
<1>4. ASSUME NEW i \in 1..Len(batch')
      PROVE  batch'[i] = list[cnt' - Len(batch') + i]
  <2>1. CASE i \in 1..Len(batch)
    BY <1>1, <1>2, <1>3, <2>1 DEF ListsInv, Batched
  <2>2. CASE i = Len(batch) + 1
    BY <1>1, <1>2, <1>3, <2>2 DEF ListsInv, Batched
  <2>3. QED
    BY <1>3, <2>1, <2>2 DEF ListsInv
<1>5. QED
  BY <1>1, <1>3, <1>4 DEF ListsInv, Batched

\* What a batch of vertices adds is listed.
LEMMA VerticesStored ==
  ASSUME WriteInv, lpg = "vertices", store' = WithVertices,
         UNCHANGED <<vertices, edges>>
  PROVE  EdgesJoinVertices' /\ VerticesAreListed'
<1>1. ListsInv /\ Batched(vertices) /\ store.edges = {}
  BY DEF WriteInv, BatchInv
<1>2. store'.edges = {}
  BY <1>1, VerticesSent
<1>3. ASSUME NEW w \in store'.vertices \ store.vertices
      PROVE  \E i \in 1..Len(vertices) :
               w = Vertex(vertices[i].id, ParseArn[vertices[i].label])
  <2>1. PICK i \in 1..Len(batch) :
          w = Vertex(batch[i].id, ParseArn[batch[i].label])
    BY <1>1, VerticesSent
  <2>2. /\ cnt - Len(batch) + i \in 1..Len(vertices)
        /\ batch[i] = vertices[cnt - Len(batch) + i]
    BY <1>1 DEF Batched, ListsInv
  <2>3. QED
    BY <2>1, <2>2
<1>4. VerticesAreListed'
  BY <1>3 DEF WriteInv, VerticesAreListed, Listed
<1>5. QED
  BY <1>2, <1>4 DEF EdgesJoinVertices

\* What a batch of edges adds is listed, and all vertices are stored by then.
LEMMA EdgesStored ==
  ASSUME WriteInv, lpg = "edges", store' = WithEdges,
         UNCHANGED <<vertices, edges>>
  PROVE  EdgesJoinVertices' /\ VerticesAreListed'
<1>1. /\ ListsInv /\ Batched(edges)
      /\ \A i \in 1..Len(vertices) : Holds(store.vertices, vertices[i].id)
  BY DEF WriteInv, BatchInv
<1>2. store.vertices \subseteq store'.vertices
  BY <1>1, EdgesSent
<1>3. \A i \in 1..Len(vertices) : Holds(store'.vertices, vertices[i].id)
  BY <1>1, <1>2 DEF Holds
<1>4. ASSUME NEW e \in store'.edges
      PROVE  /\ \E i \in 1..Len(edges) : e = edges[i]
             /\ Holds(store'.vertices, e.from) /\ Holds(store'.vertices, e.to)
  <2>1. CASE e \in store.edges
    BY <2>1, <1>2 DEF WriteInv, EdgesJoinVertices, Holds
  <2>2. CASE e \notin store.edges
    <3>1. PICK i \in 1..Len(batch) : e = batch[i]
      BY <2>2, <1>1, EdgesSent
    <3>2. /\ cnt - Len(batch) + i \in 1..Len(edges)
          /\ batch[i] = edges[cnt - Len(batch) + i]
      BY <1>1 DEF Batched, ListsInv
    <3>3. Holds(store'.vertices, e.from) /\ Holds(store'.vertices, e.to)
      BY <3>1, <1>1, EdgesSent
    <3>4. QED
      BY <3>1, <3>2, <3>3
  <2>3. QED
    BY <2>1, <2>2
<1>5. ASSUME NEW w \in store'.vertices \ store.vertices
      PROVE  w.label = "stub" /\ ~Listed(w.id)
  <2>1. w.label = "stub" /\ ~Holds(store.vertices, w.id)
    BY <1>1, EdgesSent
  <2>2. QED
    BY <2>1, <1>1 DEF Listed
<1>6. VerticesAreListed'
  BY <1>5 DEF WriteInv, VerticesAreListed, Listed
<1>7. EdgesJoinVertices'
  BY <1>3, <1>4 DEF EdgesJoinVertices
<1>8. QED
  BY <1>6, <1>7

\* The lists that are written are sequences.
ListsToWrite ==
  /\ graph.vertices \in Seq(ToSet(graph.vertices))
  /\ graph.edges \in Seq(ToSet(graph.edges))

\* Lists that do not change are still made of the same elements.
LEMMA ListsStay ==
  ASSUME ListsInv, UNCHANGED <<vertices, edges>>
  PROVE  /\ Elements' = Elements
         /\ vertices' \in Seq(ToSet(vertices')) /\ edges' \in Seq(ToSet(edges'))
         /\ vertices \in Seq(Elements) /\ edges \in Seq(Elements)
<1>1. Elements' = Elements
  BY DEF Elements
<1>2. vertices' \in Seq(ToSet(vertices')) /\ edges' \in Seq(ToSet(edges'))
  BY DEF ListsInv
<1>3. \A S, T, s : s \in Seq(S) /\ S \subseteq T => s \in Seq(T)
  OBVIOUS
<1>4. ToSet(vertices) \subseteq Elements /\ ToSet(edges) \subseteq Elements
  BY DEF Elements
<1>5. QED
  BY <1>1, <1>2, <1>3, <1>4 DEF ListsInv

\* No step of a write leaves the invariant.
LEMMA WriteStep ==
  WriteInv /\ [WriteToNeptune \/ WriteNext]_lpgVars /\ ListsToWrite => WriteInv'
<1> SUFFICES ASSUME WriteInv, [WriteToNeptune \/ WriteNext]_lpgVars, ListsToWrite
             PROVE  WriteInv'
  OBVIOUS
<1> DEFINE Same == UNCHANGED <<vertices, edges, store>>
<1>1. ListsInv /\ BatchInv /\ EdgesJoinVertices /\ VerticesAreListed
  BY DEF WriteInv
<1>2. ASSUME Same
      PROVE  EdgesJoinVertices' /\ VerticesAreListed'
  BY <1>1, <1>2 DEF EdgesJoinVertices, VerticesAreListed, Listed, Holds
<1>3. CASE WriteToNeptune
  <2>1. ListsInv'
    <3>1. /\ vertices' = graph.vertices /\ edges' = graph.edges /\ batch' = <<>>
          /\ cnt' = cnt /\ store' = store /\ lpg' \in {"raised", "vertices"}
      BY <1>1, <1>3 DEF WriteGraph, WriteToNeptune, BatchInv
    <3>2. vertices' \in Seq(ToSet(vertices')) /\ edges' \in Seq(ToSet(edges'))
      BY <3>1 DEF ListsToWrite
    <3>3. batch' \in Seq(Elements')
      BY <3>1
    <3>4. QED
      BY <1>1, <3>1, <3>2, <3>3 DEF ListsInv
  <2>2. /\ cnt' = 0 /\ batch' = <<>> /\ store' = store
        /\ store.vertices = {} /\ store.edges = {}
        /\ vertices' = graph.vertices /\ edges' = graph.edges /\ lpg' \in {"raised", "vertices"}
    BY <1>1, <1>3 DEF WriteGraph, WriteToNeptune, BatchInv
  <2>3. BatchInv'
    BY <2>2 DEF BatchInv, Batched
  <2>4. EdgesJoinVertices' /\ VerticesAreListed'
    BY <2>2 DEF EdgesJoinVertices, VerticesAreListed
  <2>5. QED
    BY <2>1, <2>3, <2>4 DEF WriteInv
<1>4. CASE lpg = "vertices" /\ AddToBatch(vertices)
  <2>1. Batched(vertices) /\ vertices \in Seq(Elements)
    BY <1>1, <1>4, ListsStay DEF BatchInv, AddToBatch
  <2>2. Same /\ lpg' = lpg
    BY <1>4 DEF AddToBatch
  <2>3. ListsInv'
    <3>1. batch' \in Seq(Elements) /\ cnt' \in Nat
      BY <1>1, <1>4, <2>1, BatchGrows
    <3>2. QED
      BY <1>1, <2>2, <3>1, ListsStay DEF ListsInv
  <2>4. BatchInv'
    BY <1>1, <1>4, <2>1, <2>2, BatchGrows DEF BatchInv, Batched
  <2>5. QED
    BY <1>2, <2>2, <2>3, <2>4 DEF WriteInv
<1>5. CASE lpg = "edges" /\ AddToBatch(edges)
  <2>1. Batched(edges) /\ edges \in Seq(Elements)
    BY <1>1, <1>5, ListsStay DEF BatchInv, AddToBatch
  <2>2. Same /\ lpg' = lpg
    BY <1>5 DEF AddToBatch
  <2>3. ListsInv'
    <3>1. batch' \in Seq(Elements) /\ cnt' \in Nat
      BY <1>1, <1>5, <2>1, BatchGrows
    <3>2. QED
      BY <1>1, <2>2, <3>1, ListsStay DEF ListsInv
  <2>4. BatchInv'
    BY <1>1, <1>5, <2>1, <2>2, BatchGrows DEF BatchInv, Batched
  <2>5. QED
    BY <1>2, <2>2, <2>3, <2>4 DEF WriteInv
<1>6. CASE SendVertices
  <2>1. /\ lpg = "vertices" /\ lpg' = lpg /\ cnt' = cnt /\ batch' = <<>>
        /\ UNCHANGED <<vertices, edges>> /\ store' = WithVertices
    BY <1>6 DEF SendVertices
  <2>2. /\ store' = [vertices |-> store'.vertices, edges |-> store'.edges]
        /\ store.vertices \subseteq store'.vertices
        /\ store'.edges = store.edges
        /\ \A i \in 1..Len(batch) : Holds(store'.vertices, batch[i].id)
    BY <1>1, <2>1, VerticesSent
  <2>3. ListsInv'
    BY <1>1, <2>1, <2>2 DEF ListsInv
  <2>4. ASSUME NEW i \in 1..cnt
        PROVE  Holds(store'.vertices, vertices[i].id)
    <3>1. CASE i \in 1..(cnt - Len(batch))
      BY <3>1, <1>1, <2>1, <2>2 DEF BatchInv, Holds
    <3>2. CASE i > cnt - Len(batch)
      <4>1. /\ i - (cnt - Len(batch)) \in 1..Len(batch)
            /\ batch[i - (cnt - Len(batch))] = vertices[i]
        BY <3>2, <1>1, <2>1 DEF BatchInv, Batched, ListsInv
      <4>2. QED
        BY <4>1, <2>2
    <3>3. QED
      BY <3>1, <3>2, <1>1 DEF ListsInv
  <2>5. BatchInv'
    BY <1>1, <2>1, <2>2, <2>4 DEF BatchInv, Batched, ListsInv
  <2>6. QED
    BY <2>1, <2>3, <2>5, VerticesStored DEF WriteInv
<1>7. CASE SendEdges
  <2>1. /\ lpg = "edges" /\ lpg' = lpg /\ cnt' = cnt /\ batch' = <<>>
        /\ UNCHANGED <<vertices, edges>> /\ store' = WithEdges
    BY <1>7 DEF SendEdges
  <2>2. /\ store' = [vertices |-> store'.vertices, edges |-> store'.edges]
        /\ store.vertices \subseteq store'.vertices
        /\ store'.edges = store.edges \cup {batch[i] : i \in 1..Len(batch)}
    BY <1>1, <2>1, EdgesSent
  <2>3. ListsInv'
    BY <1>1, <2>1, <2>2 DEF ListsInv
  <2>4. ASSUME NEW i \in 1..cnt
        PROVE  edges[i] \in store'.edges
    <3>1. CASE i \in 1..(cnt - Len(batch))
      BY <3>1, <1>1, <2>1, <2>2 DEF BatchInv
    <3>2. CASE i > cnt - Len(batch)
      <4>1. /\ i - (cnt - Len(batch)) \in 1..Len(batch)
            /\ batch[i - (cnt - Len(batch))] = edges[i]
        BY <3>2, <1>1, <2>1 DEF BatchInv, Batched, ListsInv
      <4>2. QED
        BY <4>1, <2>2
    <3>3. QED
      BY <3>1, <3>2, <1>1 DEF ListsInv
  <2>5. BatchInv'
    BY <1>1, <2>1, <2>2, <2>4 DEF BatchInv, Batched, ListsInv, Holds
  <2>6. QED
    BY <2>1, <2>3, <2>5, EdgesStored DEF WriteInv
<1>8. CASE SendFails
  <2>1. lpg' = "raised" /\ UNCHANGED <<vertices, edges, cnt, batch>>
    BY <1>8 DEF SendFails
  <2>2. \/ store' = store
        \/ lpg = "vertices" /\ store' = WithVertices
        \/ lpg = "edges" /\ store' = WithEdges
    BY <1>8 DEF SendFails
  <2>3. store' = [vertices |-> store'.vertices, edges |-> store'.edges]
    BY <1>1, <2>2, VerticesSent, EdgesSent DEF ListsInv
  <2>4. ListsInv' /\ BatchInv'
    BY <1>1, <2>1, <2>3, ListsStay DEF ListsInv, BatchInv
  <2>5. EdgesJoinVertices' /\ VerticesAreListed'
    BY <1>2, <2>1, <2>2, VerticesStored, EdgesStored
  <2>6. QED
    BY <2>4, <2>5 DEF WriteInv
<1>9. CASE ThenEdges
  <2>1. /\ lpg = "vertices" /\ cnt = Len(vertices) /\ batch = <<>>
        /\ lpg' = "edges" /\ cnt' = 0 /\ batch' = <<>> /\ Same
    BY <1>9 DEF ThenEdges, Written, Full
  <2>2. ListsInv'
    BY <1>1, <2>1 DEF ListsInv
  <2>3. \A i \in 1..Len(vertices) : Holds(store.vertices, vertices[i].id)
    BY <1>1, <2>1 DEF BatchInv, ListsInv
  <2>4. BatchInv'
    BY <1>1, <2>1, <2>3 DEF BatchInv, Batched, ListsInv
  <2>5. QED
    BY <1>2, <2>1, <2>2, <2>4 DEF WriteInv
<1>10. CASE WriteEnds
  <2>1. /\ lpg = "edges" /\ cnt = Len(edges) /\ batch = <<>> /\ lpg' = "written"
        /\ cnt' = cnt /\ batch' = batch /\ Same
    BY <1>10 DEF WriteEnds, Written, Full
  <2>2. ListsInv' /\ BatchInv'
    BY <1>1, <2>1 DEF ListsInv, BatchInv, Batched
  <2>3. QED
    BY <1>2, <2>1, <2>2 DEF WriteInv
<1>11. CASE UNCHANGED lpgVars
  <2>1. UNCHANGED <<vertices, edges, lpg, cnt, batch, store>>
    BY <1>11 DEF lpgVars
  <2>2. ListsInv'
    BY <1>1, <2>1, ListsStay DEF ListsInv
  <2>3. BatchInv'
    BY <1>1, <2>1 DEF BatchInv, Batched
  <2>4. QED
    BY <1>2, <2>1, <2>2, <2>3 DEF WriteInv
<1>12. QED
  BY <1>3, <1>4, <1>5, <1>6, <1>7, <1>8, <1>9, <1>10, <1>11 DEF WriteNext

-----------------------------------------------------------------------------
(* What is converted *)

\* The errors there may be.
AllErrors == UNION {UNION {ToSet(g.errors) : g \in run} : run \in Runs}

\* The errors that are chained come from graph sets.
ErrorsInv == errors \in Seq(AllErrors)

\* Errors are chained as resources are.
LEMMA ErrorsStep ==
  ASSUME MergeInv, ErrorsInv, [MergeNext]_mergeVars
  PROVE  ErrorsInv'
<1>1. CASE Chain
  <2>1. /\ errors' = errors \o arrived[at + 1].errors
        /\ at \in Nat /\ at < Len(arrived)
    BY <1>1 DEF Chain, MergeInv, MergeTypeOK
  <2>2. PICK run \in Runs : arrived \in Seq(run)
    BY DEF MergeInv, MergeTypeOK
  <2>3. arrived[at + 1] \in run
    BY <2>1, <2>2
  <2>4. arrived[at + 1].errors \in Seq(ToSet(arrived[at + 1].errors))
    BY <2>3, RunsAssumption
  <2>5. ToSet(arrived[at + 1].errors) \subseteq AllErrors
    BY <2>3 DEF AllErrors
  <2>6. arrived[at + 1].errors \in Seq(AllErrors)
    BY <2>4, <2>5
  <2>7. QED
    BY <2>1, <2>6 DEF ErrorsInv
<1>2. CASE UNCHANGED errors
  BY <1>2 DEF ErrorsInv
<1>3. Chain \/ UNCHANGED errors
  BY DEF MergeNext, mergeVars, Arrive, FromGraphSets, Then, Group, Keep, MergeResources,
         NewLink, SameLink, ConflictingLink, NextLink, NextCopy, EndMerge
<1>4. QED
  BY <1>1, <1>2, <1>3

\* What is merged does not change any more.
LEMMA MergedIsFinal ==
  ASSUME MergeInv, phase = "merged", [MergeNext]_mergeVars
  PROVE  UNCHANGED mergeVars
<1>1. pending = {}
  BY DEF MergeInv, ChainInv
<1>2. QED
  BY <1>1 DEF MergeNext, Arrive, FromGraphSets, Then, Chain, Group, Keep, MergeResources,
              NewLink, SameLink, ConflictingLink, NextLink, NextCopy, EndMerge

\* What the conversions need to know of the merged resources.
LEMMA MergedFacts ==
  ASSUME MergeInv, phase = "merged"
  PROVE  /\ DOMAIN merged = 1..Len(merged) /\ Len(merged) \in Nat
         /\ \A n \in 1..Len(merged) :
              /\ merged[n].links \in Seq(Links)
              /\ ParseArn[merged[n].type] # "stub"
              /\ merged[n].id # "scan_id"
              /\ \A tag \in DOMAIN TagId : merged[n].id # TagId[tag]
         /\ \A m, n \in 1..Len(merged) : merged[m].id = merged[n].id => m = n
<1>1. /\ MergeTypeOK /\ DOMAIN merged = 1..Len(merged) /\ Len(merged) \in Nat
      /\ \A n \in 1..Len(merged) : merged[n] \in Merged
  BY DEF MergeInv, MergeTypeOK
<1>2. PICK run \in Runs : arrived \in Seq(run)
  BY <1>1 DEF MergeTypeOK
<1>3. Scanned \subseteq ResourcesOf(run)
  BY <1>2 DEF Scanned, ResourcesOf
<1>4. \A r \in Scanned :
        /\ ParseArn[r.type] # "stub" /\ r.id # "scan_id"
        /\ \A tag \in DOMAIN TagId : r.id # TagId[tag]
  BY <1>3, IdsAssumption, LabelsAssumption
<1>5. \A id \in Ids : id # "scan_id" /\ \A tag \in DOMAIN TagId : id # TagId[tag]
  BY <1>4 DEF Ids
<1>6. \A r \in Merged :
        /\ r.links \in Seq(Links) /\ ParseArn[r.type] # "stub"
        /\ r.id # "scan_id" /\ \A tag \in DOMAIN TagId : r.id # TagId[tag]
  <2>1. TAKE r \in Merged
  <2>2. CASE r \in Scanned
    BY <2>2, <1>1, <1>4, ArrivedFacts
  <2>3. CASE r \in [id : Ids, type : {q.type : q \in Scanned}, links : Seq(Links)]
    BY <2>3, <1>4, <1>5
  <2>4. QED
    BY <2>2, <2>3 DEF Merged
<1>7. \A m, n \in 1..Len(merged) : merged[m].id = merged[n].id => m = n
  BY MergeInvIsTold, <1>1 DEF MergedAsTold
<1>8. QED
  BY <1>1, <1>6, <1>7

\* The links of a list and those nested in them.
Reach(list) == UNION {Nested[k] : k \in ToSet(list)}

\* A link between resources is an edge of the list.
Joined(id, l) ==
  l.kind \in {"resource", "transient"} =>
    \E e \in ToSet(graph.edges) : e.from = <<id>> /\ e.to = <<l.obj>>

\* The vertices there may be: of the scan, an error, a tag or a resource.
KnownVertex(v) ==
  \/ v = Vertex(Metadata, "metadata")
  \/ \E i \in Nat : v = Vertex(<<"error", i>>, "error")
  \/ \E tag \in DOMAIN TagId : v = Vertex(<<TagId[tag]>>, "tag")
  \/ \E n \in 1..converted : v = Vertex(<<merged[n].id>>, merged[n].type)

\* The types of the variables.
LpgTypeOK ==
  /\ toLpg \in {"none", "resources", "done"}
  /\ converted \in Nat /\ stack \in Seq(Links)
  /\ graph = [vertices |-> graph.vertices, edges |-> graph.edges]
  /\ ListsToWrite

\* What is converted is merged, and what is written is converted.
ProgressInv ==
  /\ toLpg = "none" => converted = 0
  /\ toLpg # "none" => phase = "merged" /\ converted <= Len(merged)
  /\ toLpg # "none" /\ converted = Len(merged) => stack = <<>>
  /\ toLpg = "done" => converted = Len(merged)
  /\ lpg # "none" => toLpg = "done" /\ vertices = graph.vertices /\ edges = graph.edges

\* The resources that are converted have their vertices.
VerticesInv ==
  /\ \A v \in ToSet(graph.vertices) : KnownVertex(v)
  /\ toLpg # "none" => Vertex(Metadata, "metadata") \in ToSet(graph.vertices)
  /\ toLpg # "none" => \A n \in 1..converted :
       Vertex(<<merged[n].id>>, merged[n].type) \in ToSet(graph.vertices)

\* A link of a resource is an edge, or it is still to be looked at, itself or one
\* that it is nested in.
EdgesInv ==
  toLpg # "none" =>
    /\ \A n \in 1..converted : \A l \in Reach(merged[n].links) : Joined(merged[n].id, l)
    /\ converted < Len(merged) =>
         \A l \in Reach(merged[converted + 1].links) :
           Joined(merged[converted + 1].id, l) \/ l \in Reach(stack)

\* What holds in every state of the conversion.
ToLpgInv == LpgTypeOK /\ ProgressInv /\ VerticesInv /\ EdgesInv

\* Nothing is converted.
LEMMA ToLpgInitial == ToLpgInit /\ LpgInit => ToLpgInv
<1> SUFFICES ASSUME ToLpgInit, LpgInit
             PROVE  ToLpgInv
  OBVIOUS
<1>1. /\ toLpg = "none" /\ converted = 0 /\ stack = <<>> /\ lpg = "none"
      /\ graph = [vertices |-> <<>>, edges |-> <<>>]
  BY DEF ToLpgInit, LpgInit
<1>2. ToSet(graph.vertices) = {}
  BY <1>1 DEF ToSet
<1>3. LpgTypeOK
  BY <1>1 DEF LpgTypeOK, ListsToWrite
<1>4. QED
  BY <1>1, <1>2, <1>3 DEF ToLpgInv, ProgressInv, VerticesInv, EdgesInv

\* A list that is joined to a list is one of their elements.
LEMMA ListsGrow ==
  ASSUME NEW s, s \in Seq(ToSet(s)), NEW t, t \in Seq(ToSet(t))
  PROVE  s \o t \in Seq(ToSet(s \o t)) /\ ToSet(s \o t) = ToSet(s) \cup ToSet(t)
<1> DEFINE S == ToSet(s) \cup ToSet(t)
<1>1. \A A, B, q : q \in Seq(A) /\ A \subseteq B => q \in Seq(B)
  OBVIOUS
<1>2. s \in Seq(S) /\ t \in Seq(S)
  BY <1>1
<1>3. s \o t \in Seq(S) /\ ToSet(s \o t) = S
  BY <1>2, ToSetOfConcat
<1>4. QED
  BY <1>3

\* The vertices of the scan and of its errors.
LEMMA StartLpgKeeps ==
  ASSUME MergeInv, ErrorsInv, ToLpgInv, StartLpg, UNCHANGED <<mergeVars, lpgVars>>
  PROVE  ToLpgInv'
<1> DEFINE m == <<Vertex(Metadata, "metadata")>>
           e == [i \in 1..2 * Len(errors) |-> Vertex(<<"error", (i + 1) \div 2>>, "error")]
           g == [i \in DOMAIN errors |-> Edge("generated", ScanName, <<"error", i>>)]
<1>1. /\ toLpg = "none" /\ phase = "merged" /\ toLpg' = "resources"
      /\ graph' = [vertices |-> m \o e, edges |-> g]
      /\ stack' = LinksOf(1) /\ converted' = converted
      /\ lpg' = lpg /\ merged' = merged /\ phase' = phase
  BY DEF StartLpg, mergeVars, lpgVars
<1>2. lpg = "none" /\ converted = 0 /\ ErrorsInv
  BY <1>1 DEF ToLpgInv, ProgressInv, LpgTypeOK
<1>3. Len(errors) \in Nat /\ DOMAIN errors = 1..Len(errors)
  BY DEF ErrorsInv
<1>4. m \in Seq(ToSet(m)) /\ ToSet(m) = {Vertex(Metadata, "metadata")}
  BY DEF ToSet
<1>5. e \in Seq(ToSet(e)) /\ ToSet(e) = {e[i] : i \in 1..2 * Len(errors)}
  BY <1>3 DEF ToSet
<1>6. g \in Seq(ToSet(g))
  BY <1>3 DEF ToSet
<1>7. \A v \in ToSet(e) : \E i \in Nat : v = Vertex(<<"error", i>>, "error")
  <2>1. \A i \in 1..2 * Len(errors) : (i + 1) \div 2 \in Nat
    BY <1>3
  <2>2. QED
    BY <2>1, <1>5
<1> HIDE DEF m, e, g
<1>8. /\ m \o e \in Seq(ToSet(m \o e)) /\ ToSet(m \o e) = ToSet(m) \cup ToSet(e)
  BY <1>4, <1>5, ListsGrow
<1>9. stack' \in Seq(Links)
  <2>1. CASE 1 \in DOMAIN merged
    BY <2>1, <1>1, MergedFacts DEF LinksOf
  <2>2. CASE 1 \notin DOMAIN merged
    BY <2>2, <1>1 DEF LinksOf
  <2>3. QED
    BY <2>1, <2>2
<1>10. graph'.vertices = m \o e /\ graph'.edges = g
  BY <1>1
<1>11. LpgTypeOK'
  BY <1>1, <1>2, <1>6, <1>8, <1>9, <1>10 DEF LpgTypeOK, ListsToWrite
<1>12. merged' = merged /\ DOMAIN merged = 1..Len(merged) /\ Len(merged) \in Nat
  BY <1>1, MergedFacts
<1>13. ProgressInv'
  <2>1. 0 = Len(merged) => stack' = <<>>
    BY <1>1, <1>12 DEF LinksOf
  <2>2. QED
    BY <1>1, <1>2, <1>12, <2>1 DEF ProgressInv
<1>14. VerticesInv'
  <2>1. \A v \in ToSet(graph'.vertices) :
          \/ v = Vertex(Metadata, "metadata")
          \/ \E i \in Nat : v = Vertex(<<"error", i>>, "error")
    BY <1>4, <1>7, <1>8, <1>10
  <2>2. \A v \in ToSet(graph'.vertices) : KnownVertex(v)'
    BY <2>1 DEF KnownVertex
  <2>3. Vertex(Metadata, "metadata") \in ToSet(graph'.vertices)
    BY <1>4, <1>8, <1>10
  <2>4. 1..converted' = {}
    BY <1>1, <1>2
  <2>5. QED
    BY <2>2, <2>3, <2>4 DEF VerticesInv
<1>15. EdgesInv'
  <2>1. 1..converted' = {} /\ converted' + 1 = 1
    BY <1>1, <1>2
  <2>2. 0 < Len(merged) => stack' = merged[1].links
    BY <1>1, <1>12 DEF LinksOf
  <2>3. QED
    BY <2>1, <2>2, <1>1, <1>2, <1>12 DEF EdgesInv, Reach
<1>16. QED
  BY <1>11, <1>13, <1>14, <1>15 DEF ToLpgInv

\* What a link adds to the lists, and that it joins the two it is between.
LEMMA LinkAdds ==
  ASSUME NEW l \in Links, NEW from
  PROVE  /\ NewVertices(l) \in Seq(ToSet(NewVertices(l)))
         /\ \A v \in ToSet(NewVertices(l)) :
              \E tag \in DOMAIN TagId : v = Vertex(<<TagId[tag]>>, "tag")
         /\ EdgeOf(from, l) \in Seq(ToSet(EdgeOf(from, l)))
         /\ l.kind \in {"resource", "transient"} =>
              \E e \in ToSet(EdgeOf(from, l)) : e.from = from /\ e.to = <<l.obj>>
<1>1. \A x : <<x>> \in Seq(ToSet(<<x>>)) /\ ToSet(<<x>>) = {x}
  BY DEF ToSet
<1>2. <<>> \in Seq(ToSet(<<>>)) /\ ToSet(<<>>) = {}
  BY DEF ToSet
<1>3. \/ NewVertices(l) = <<>>
      \/ l.kind = "tag" /\ NewVertices(l) = <<Vertex(Tag(l), "tag")>>
  BY DEF NewVertices
<1>4. /\ NewVertices(l) \in Seq(ToSet(NewVertices(l)))
      /\ \A v \in ToSet(NewVertices(l)) :
           \E tag \in DOMAIN TagId : v = Vertex(<<TagId[tag]>>, "tag")
  <2>1. CASE NewVertices(l) = <<>>
    BY <1>2, <2>1
  <2>2. CASE l.kind = "tag" /\ NewVertices(l) = <<Vertex(Tag(l), "tag")>>
    <3>1. <<l.pred, l.obj>> \in DOMAIN TagId
      BY <2>2, TagsAssumption
    <3>2. Vertex(Tag(l), "tag") = Vertex(<<TagId[<<l.pred, l.obj>>]>>, "tag")
      BY DEF Tag
    <3>3. QED
      BY <1>1, <2>2, <3>1, <3>2
  <2>3. QED
    BY <1>3, <2>1, <2>2
<1>5. /\ EdgeOf(from, l) \in Seq(ToSet(EdgeOf(from, l)))
      /\ l.kind \in {"resource", "transient"} =>
           \E e \in ToSet(EdgeOf(from, l)) : e.from = from /\ e.to = <<l.obj>>
  <2>1. CASE l.kind = "resource"
    <3>1. EdgeOf(from, l) = <<Edge("resource_link", from, <<l.obj>>)>>
      BY <2>1 DEF EdgeOf
    <3>2. QED
      BY <1>1, <3>1 DEF Edge
  <2>2. CASE l.kind = "transient"
    <3>1. EdgeOf(from, l) = <<Edge("transient_resource_link", from, <<l.obj>>)>>
      BY <2>2 DEF EdgeOf
    <3>2. QED
      BY <1>1, <3>1 DEF Edge
  <2>3. CASE l.kind = "tag"
    <3>1. EdgeOf(from, l) = <<Edge("tagged", from, Tag(l))>>
      BY <2>3 DEF EdgeOf
    <3>2. QED
      BY <1>1, <2>3, <3>1
  <2>4. CASE l.kind \notin {"resource", "transient", "tag"}
    <3>1. EdgeOf(from, l) = <<>>
      BY <2>4 DEF EdgeOf
    <3>2. QED
      BY <1>2, <2>4, <3>1
  <2>5. QED
    BY <2>1, <2>2, <2>3, <2>4
<1>6. QED
  BY <1>4, <1>5

\* One link becomes an edge, and the links in it are next.
LEMMA LinkToLpgKeeps ==
  ASSUME MergeInv, ToLpgInv, LinkToLpg, UNCHANGED <<mergeVars, lpgVars>>
  PROVE  ToLpgInv'
<1>1. PICK l, id, newV, newE, rest :
        /\ l = Head(stack) /\ id = merged[converted + 1].id /\ rest = Tail(stack)
        /\ newV = NewVertices(l) /\ newE = EdgeOf(<<id>>, l)
  OBVIOUS
<1>2. /\ toLpg = "resources" /\ stack # <<>> /\ toLpg' = toLpg
      /\ graph' = [vertices |-> graph.vertices \o newV, edges |-> graph.edges \o newE]
      /\ stack' = l.sub \o rest /\ converted' = converted
      /\ lpg' = lpg /\ merged' = merged /\ phase' = phase
      /\ vertices' = vertices /\ edges' = edges
  BY <1>1 DEF LinkToLpg, mergeVars, lpgVars
<1>3. LpgTypeOK /\ ProgressInv /\ VerticesInv /\ EdgesInv
  BY DEF ToLpgInv
<1>4. /\ phase = "merged" /\ converted < Len(merged) /\ Len(merged) \in Nat
      /\ converted \in Nat /\ stack \in Seq(Links) /\ lpg = "none" /\ ListsToWrite
  BY <1>2, <1>3, MergedFacts DEF ProgressInv, LpgTypeOK
<1>5. /\ l \in Links /\ rest \in Seq(Links)
      /\ ToSet(stack) = {l} \cup ToSet(rest)
  <2>1. /\ l \in Links /\ rest \in Seq(Links) /\ stack = <<l>> \o rest
    BY <1>1, <1>2, <1>4
  <2> DEFINE a == <<l>>
  <2>2. a \in Seq(Links) /\ ToSet(a) = {l} /\ stack = a \o rest
    BY <2>1 DEF ToSet
  <2> HIDE DEF a
  <2>3. ToSet(a \o rest) = ToSet(a) \cup ToSet(rest)
    BY <2>1, <2>2, ToSetOfConcat
  <2>4. QED
    BY <2>1, <2>2, <2>3
<1>6. PICK sub : sub = l.sub
  OBVIOUS
<1>7. sub \in Seq(Links)
  <2>1. l \in Links
    BY <1>5
  <2>2. l.sub \in LinkCollections
    BY <2>1, LinksAssumption, Zenon
  <2>3. QED
    BY <1>6, <2>2 DEF LinkCollections
<1>8. Nested[l] = {l} \cup Reach(sub)
  BY <1>5, <1>6, NestedAssumption DEF Reach
<1>9. stack' \in Seq(Links) /\ ToSet(stack') = ToSet(sub) \cup ToSet(rest)
  <2>1. stack' = sub \o rest
    BY <1>2, <1>6
  <2>2. ToSet(sub \o rest) = ToSet(sub) \cup ToSet(rest)
    BY <1>5, <1>7, ToSetOfConcat
  <2>3. QED
    BY <2>1, <2>2, <1>5, <1>7
<1>10. Reach(stack) = {l} \cup Reach(stack')
  <2>1. Reach(stack) = Nested[l] \cup Reach(rest)
    BY <1>5 DEF Reach
  <2>2. Reach(stack') = Reach(sub) \cup Reach(rest)
    BY <1>9 DEF Reach
  <2>3. QED
    BY <2>1, <2>2, <1>8
<1>11. /\ newV \in Seq(ToSet(newV)) /\ newE \in Seq(ToSet(newE))
       /\ \A v \in ToSet(newV) : \E tag \in DOMAIN TagId : v = Vertex(<<TagId[tag]>>, "tag")
       /\ l.kind \in {"resource", "transient"} =>
            \E e \in ToSet(newE) : e.from = <<id>> /\ e.to = <<l.obj>>
  BY <1>1, <1>5, LinkAdds
<1>12. /\ graph'.vertices \in Seq(ToSet(graph'.vertices))
       /\ graph'.edges \in Seq(ToSet(graph'.edges))
       /\ ToSet(graph'.vertices) = ToSet(graph.vertices) \cup ToSet(newV)
       /\ ToSet(graph'.edges) = ToSet(graph.edges) \cup ToSet(newE)
       /\ graph' = [vertices |-> graph'.vertices, edges |-> graph'.edges]
  <2>1. graph'.vertices = graph.vertices \o newV /\ graph'.edges = graph.edges \o newE
    BY <1>2
  <2>2. graph' = [vertices |-> graph'.vertices, edges |-> graph'.edges]
    BY <1>2
  <2>3. QED
    BY <2>1, <2>2, <1>4, <1>11, ListsGrow, SMTT(30) DEF ListsToWrite
<1>13. LpgTypeOK'
  BY <1>2, <1>3, <1>9, <1>12 DEF LpgTypeOK, ListsToWrite
<1>14. ProgressInv'
  BY <1>2, <1>4 DEF ProgressInv
<1>15. VerticesInv'
  <2>1. \A v : KnownVertex(v) => KnownVertex(v)'
    BY <1>2 DEF KnownVertex
  <2>2. \A v \in ToSet(newV) : KnownVertex(v)'
    BY <1>11 DEF KnownVertex
  <2>3. QED
    BY <1>2, <1>3, <1>12, <2>1, <2>2 DEF VerticesInv
<1>16. EdgesInv'
  <2>1. \A i, k : Joined(i, k) => Joined(i, k)'
    BY <1>12 DEF Joined
  <2>2. Joined(id, l)'
    BY <1>11, <1>12 DEF Joined
  <2>3. /\ converted + 1 \in 1..Len(merged) /\ toLpg # "none"
        /\ \A n \in 1..converted : \A k \in Reach(merged[n].links) : Joined(merged[n].id, k)
        /\ \A k \in Reach(merged[converted + 1].links) :
             Joined(merged[converted + 1].id, k) \/ k \in Reach(stack)
    <3>1. toLpg # "none" /\ converted < Len(merged)
      BY <1>2, <1>4
    <3>2. converted + 1 \in 1..Len(merged)
      BY <1>4
    <3>3. QED
      BY <1>3, <3>1, <3>2 DEF EdgesInv
  <2>4. \A k \in Reach(merged[converted + 1].links) :
          Joined(id, k)' \/ k \in Reach(stack')
    BY <1>1, <1>10, <2>1, <2>2, <2>3
  <2>5. \A n \in 1..converted : \A k \in Reach(merged[n].links) :
          Joined(merged[n].id, k)'
    <3>1. TAKE n \in 1..converted
    <3>2. PICK m : m = merged[n]
      OBVIOUS
    <3>3. \A k \in Reach(m.links) : Joined(m.id, k)
      BY <2>3, <3>2
    <3>4. \A k \in Reach(m.links) : Joined(m.id, k)'
      BY <2>1, <3>3
    <3>5. m.id' = m.id /\ merged[n] = m /\ merged'[n] = m
      BY <1>2, <3>2
    <3>6. QED
      BY <3>2, <3>4, <3>5, <1>2
  <2>6. QED
    BY <1>1, <1>2, <2>4, <2>5 DEF EdgesInv
<1>17. QED
  BY <1>13, <1>14, <1>15, <1>16 DEF ToLpgInv

\* A resource whose links are done gets its vertex.
LEMMA ResourceToLpgKeeps ==
  ASSUME MergeInv, ToLpgInv, ResourceToLpg, UNCHANGED <<mergeVars, lpgVars>>
  PROVE  ToLpgInv'
<1>1. PICK r, v, n : /\ r = merged[converted + 1] /\ v = Vertex(<<r.id>>, r.type)
                     /\ n = converted
  OBVIOUS
<1>2. /\ toLpg = "resources" /\ stack = <<>> /\ toLpg' = toLpg
      /\ n < Len(merged)
      /\ graph' = [graph EXCEPT !.vertices = Append(@, v)]
      /\ stack' = LinksOf(n + 2) /\ converted = n /\ converted' = n + 1
      /\ lpg' = lpg /\ merged' = merged /\ phase' = phase
      /\ vertices' = vertices /\ edges' = edges
  BY <1>1 DEF ResourceToLpg, mergeVars, lpgVars
<1>3. LpgTypeOK /\ ProgressInv /\ VerticesInv /\ EdgesInv
  BY DEF ToLpgInv
<1>4. /\ phase = "merged" /\ Len(merged) \in Nat /\ DOMAIN merged = 1..Len(merged)
      /\ n \in Nat /\ lpg = "none" /\ ListsToWrite
  BY <1>2, <1>3, MergedFacts DEF ProgressInv, LpgTypeOK
<1>5. /\ graph'.vertices = Append(graph.vertices, v) /\ graph'.edges = graph.edges
      /\ graph' = [vertices |-> graph'.vertices, edges |-> graph'.edges]
  BY <1>2, <1>3 DEF LpgTypeOK
<1>6. /\ graph'.vertices \in Seq(ToSet(graph'.vertices))
      /\ ToSet(graph'.vertices) = ToSet(graph.vertices) \cup {v}
  <2>1. PICK q : q = graph.vertices
    OBVIOUS
  <2>2. q \in Seq(ToSet(q))
    BY <2>1, <1>4 DEF ListsToWrite
  <2>3. PICK B : B = ToSet(q) \cup {v}
    OBVIOUS
  <2>4. q \in Seq(B) /\ v \in B
    BY <2>2, <2>3
  <2>5. Append(q, v) \in Seq(B) /\ ToSet(Append(q, v)) = B
    BY <2>3, <2>4, ToSetOfAppend
  <2>6. QED
    BY <1>5, <2>1, <2>3, <2>5
<1>7. stack' \in Seq(Links)
  <2>1. CASE n + 2 \in DOMAIN merged
    BY <2>1, <1>2, <1>4, MergedFacts DEF LinksOf
  <2>2. CASE n + 2 \notin DOMAIN merged
    BY <2>2, <1>2 DEF LinksOf
  <2>3. QED
    BY <2>1, <2>2
<1>8. LpgTypeOK'
  BY <1>2, <1>3, <1>4, <1>5, <1>6, <1>7 DEF LpgTypeOK, ListsToWrite
<1>9. ProgressInv'
  <2>1. n + 1 = Len(merged) => stack' = <<>>
    BY <1>2, <1>4 DEF LinksOf
  <2>2. QED
    BY <1>2, <1>4, <2>1 DEF ProgressInv
<1>10. VerticesInv'
  <2>1. \A w : KnownVertex(w) => KnownVertex(w)'
    BY <1>2, <1>4 DEF KnownVertex
  <2>2. KnownVertex(v)'
    <3>1. n + 1 \in 1..converted' /\ merged'[n + 1] = r
      BY <1>1, <1>2, <1>4
    <3>2. QED
      BY <3>1, <1>1 DEF KnownVertex
  <2>3. \A w \in ToSet(graph'.vertices) : KnownVertex(w)'
    BY <1>3, <1>6, <2>1, <2>2 DEF VerticesInv
  <2>4. Vertex(Metadata, "metadata") \in ToSet(graph'.vertices)
    BY <1>2, <1>3, <1>6 DEF VerticesInv
  <2>5. \A m \in 1..n + 1 :
          Vertex(<<merged[m].id>>, merged[m].type) \in ToSet(graph'.vertices)
    <3>1. \A m \in 1..n : Vertex(<<merged[m].id>>, merged[m].type) \in ToSet(graph.vertices)
      BY <1>2, <1>3 DEF VerticesInv
    <3>2. \A m \in 1..n + 1 : m \in 1..n \/ m = n + 1
      BY <1>4
    <3>3. Vertex(<<merged[n + 1].id>>, merged[n + 1].type) = v
      BY <1>1, <1>2
    <3>4. QED
      BY <3>1, <3>2, <3>3, <1>6
  <2>6. QED
    BY <1>2, <2>3, <2>4, <2>5 DEF VerticesInv
<1>11. EdgesInv'
  <2>1. \A i, k : Joined(i, k) => Joined(i, k)'
    BY <1>5 DEF Joined
  <2>2. /\ \A m \in 1..n : \A k \in Reach(merged[m].links) : Joined(merged[m].id, k)
        /\ \A k \in Reach(merged[n + 1].links) :
             Joined(merged[n + 1].id, k) \/ k \in Reach(stack)
    BY <1>2, <1>3, <1>4 DEF EdgesInv
  <2>3. Reach(stack) = {}
    BY <1>2 DEF Reach, ToSet
  <2>4. \A m \in 1..n + 1 : \A k \in Reach(merged[m].links) : Joined(merged[m].id, k)
    <3>1. \A m \in 1..n + 1 : m \in 1..n \/ m = n + 1
      BY <1>4
    <3>2. QED
      BY <3>1, <2>2, <2>3
  <2>5. \A m \in 1..n + 1 : \A k \in Reach(merged[m].links) : Joined(merged[m].id, k)'
    <3>1. TAKE m \in 1..n + 1
    <3>2. PICK q : q = merged[m]
      OBVIOUS
    <3>3. \A k \in Reach(q.links) : Joined(q.id, k)
      BY <2>4, <3>2
    <3>4. \A k \in Reach(q.links) : Joined(q.id, k)'
      BY <2>1, <3>3
    <3>5. q.id' = q.id /\ merged[m] = q /\ merged'[m] = q
      BY <1>2, <3>2
    <3>6. QED
      BY <3>2, <3>4, <3>5, <1>2
  <2>6. n + 1 < Len(merged) => stack' = merged[n + 2].links
    BY <1>2, <1>4 DEF LinksOf
  <2>7. n + 1 < Len(merged) => \A k \in Reach(merged[n + 2].links) : k \in Reach(stack')
    BY <2>6
  <2>8. (n + 1) + 1 = n + 2
    BY <1>4
  <2>9. QED
    BY <1>2, <2>5, <2>7, <2>8 DEF EdgesInv, Reach
<1>12. QED
  BY <1>8, <1>9, <1>10, <1>11 DEF ToLpgInv

\* Edges to all vertices.
LEMMA IdentifyKeeps ==
  ASSUME MergeInv, ToLpgInv, Identify, UNCHANGED <<mergeVars, lpgVars>>
  PROVE  ToLpgInv'
<1>1. PICK new : new = [i \in DOMAIN graph.vertices |->
                          Edge("identified_resource", Metadata, graph.vertices[i].id)]
  OBVIOUS
<1>2. /\ toLpg = "resources" /\ converted = Len(merged) /\ toLpg' = "done"
      /\ graph' = [graph EXCEPT !.edges = @ \o new]
      /\ stack' = stack /\ converted' = converted
      /\ lpg' = lpg /\ merged' = merged /\ phase' = phase
      /\ vertices' = vertices /\ edges' = edges
  BY <1>1 DEF Identify, mergeVars, lpgVars
<1>3. LpgTypeOK /\ ProgressInv /\ VerticesInv /\ EdgesInv
  BY DEF ToLpgInv
<1>4. /\ phase = "merged" /\ Len(merged) \in Nat /\ lpg = "none" /\ ListsToWrite
      /\ converted \in Nat /\ stack = <<>>
  BY <1>2, <1>3, MergedFacts DEF ProgressInv, LpgTypeOK
<1>5. /\ graph'.vertices = graph.vertices /\ graph'.edges = graph.edges \o new
      /\ graph' = [vertices |-> graph'.vertices, edges |-> graph'.edges]
  BY <1>2, <1>3 DEF LpgTypeOK
<1>6. new \in Seq(ToSet(new))
  <2>1. DOMAIN graph.vertices = 1..Len(graph.vertices) /\ Len(graph.vertices) \in Nat
    BY <1>4 DEF ListsToWrite
  <2>2. QED
    BY <1>1, <2>1 DEF ToSet
<1>7. /\ graph'.edges \in Seq(ToSet(graph'.edges))
      /\ ToSet(graph'.edges) = ToSet(graph.edges) \cup ToSet(new)
  BY <1>4, <1>5, <1>6, ListsGrow DEF ListsToWrite
<1>8. LpgTypeOK'
  BY <1>2, <1>3, <1>4, <1>5, <1>7 DEF LpgTypeOK, ListsToWrite
<1>9. ProgressInv'
  BY <1>2, <1>4 DEF ProgressInv
<1>10. VerticesInv'
  <2>1. \A w : KnownVertex(w) => KnownVertex(w)'
    BY <1>2 DEF KnownVertex
  <2>2. QED
    BY <1>2, <1>3, <1>5, <2>1 DEF VerticesInv
<1>11. EdgesInv'
  <2>1. \A i, k : Joined(i, k) => Joined(i, k)'
    BY <1>7 DEF Joined
  <2>2. \A m \in 1..converted : \A k \in Reach(merged[m].links) : Joined(merged[m].id, k)
    BY <1>2, <1>3 DEF EdgesInv
  <2>3. \A m \in 1..converted : \A k \in Reach(merged[m].links) : Joined(merged[m].id, k)'
    <3>1. TAKE m \in 1..converted
    <3>2. PICK q : q = merged[m]
      OBVIOUS
    <3>3. \A k \in Reach(q.links) : Joined(q.id, k)
      BY <2>2, <3>2
    <3>4. \A k \in Reach(q.links) : Joined(q.id, k)'
      BY <2>1, <3>3
    <3>5. q.id' = q.id /\ merged[m] = q /\ merged'[m] = q
      BY <1>2, <3>2
    <3>6. QED
      BY <3>2, <3>4, <3>5, <1>2
  <2>4. ~(converted' < Len(merged'))
    BY <1>2, <1>4
  <2>5. QED
    BY <1>2, <2>3, <2>4 DEF EdgesInv
<1>12. QED
  BY <1>8, <1>9, <1>10, <1>11 DEF ToLpgInv

\* The lists do not change once they are being written.
LEMMA WritingKeeps ==
  ASSUME ToLpgInv, WriteToNeptune \/ WriteNext, UNCHANGED <<mergeVars, toLpgVars>>
  PROVE  ToLpgInv'
<1>1. /\ toLpg' = toLpg /\ graph' = graph /\ converted' = converted /\ stack' = stack
      /\ merged' = merged /\ phase' = phase
  BY DEF mergeVars, toLpgVars
<1>2. LpgTypeOK /\ ProgressInv /\ VerticesInv /\ EdgesInv
  BY DEF ToLpgInv
<1>3. toLpg = "done" /\ vertices' = graph.vertices /\ edges' = graph.edges
  <2>1. CASE WriteToNeptune
    BY <2>1 DEF WriteToNeptune, WriteGraph
  <2>2. CASE WriteNext
    <3>1. lpg # "none" /\ vertices' = vertices /\ edges' = edges
      BY <2>2 DEF WriteNext, AddToBatch, SendVertices, SendEdges, SendFails, ThenEdges,
                  WriteEnds
    <3>2. QED
      BY <3>1, <1>2 DEF ProgressInv
  <2>3. QED
    BY <2>1, <2>2
<1>4. ProgressInv'
  BY <1>1, <1>2, <1>3 DEF ProgressInv
<1>5. LpgTypeOK'
  BY <1>1, <1>2 DEF LpgTypeOK, ListsToWrite
<1>6. VerticesInv'
  BY <1>1, <1>2 DEF VerticesInv, KnownVertex
<1>7. EdgesInv'
  BY <1>1, <1>2 DEF EdgesInv, Joined, Reach
<1>8. QED
  BY <1>4, <1>5, <1>6, <1>7 DEF ToLpgInv

\* Nothing changes.
LEMMA ToLpgStays ==
  ASSUME ToLpgInv, UNCHANGED <<mergeVars, toLpgVars, lpgVars>>
  PROVE  ToLpgInv'
<1>1. /\ toLpg' = toLpg /\ graph' = graph /\ converted' = converted /\ stack' = stack
      /\ merged' = merged /\ phase' = phase
      /\ lpg' = lpg /\ vertices' = vertices /\ edges' = edges
  BY DEF mergeVars, toLpgVars, lpgVars
<1>2. LpgTypeOK /\ ProgressInv /\ VerticesInv /\ EdgesInv
  BY DEF ToLpgInv
<1>3. LpgTypeOK' /\ ProgressInv'
  BY <1>1, <1>2 DEF LpgTypeOK, ListsToWrite, ProgressInv
<1>4. VerticesInv'
  BY <1>1, <1>2 DEF VerticesInv, KnownVertex
<1>5. EdgesInv'
  BY <1>1, <1>2 DEF EdgesInv, Joined, Reach
<1>6. QED
  BY <1>3, <1>4, <1>5 DEF ToLpgInv

\* The merge ends before the conversion starts.
LEMMA MergingKeepsToLpg ==
  ASSUME MergeInv, ToLpgInv, [MergeNext]_mergeVars, UNCHANGED <<toLpgVars, lpgVars>>
  PROVE  ToLpgInv'
<1>1. CASE toLpg = "none"
  <2>1. /\ toLpg' = toLpg /\ graph' = graph /\ converted' = converted /\ stack' = stack
        /\ lpg' = lpg
    BY DEF toLpgVars, lpgVars
  <2>2. LpgTypeOK /\ ProgressInv /\ VerticesInv
    BY DEF ToLpgInv
  <2>3. LpgTypeOK' /\ ProgressInv'
    BY <1>1, <2>1, <2>2 DEF LpgTypeOK, ListsToWrite, ProgressInv
  <2>4. 1..converted = {}
    BY <1>1, <2>2 DEF ProgressInv
  <2>5. \A v : KnownVertex(v) => KnownVertex(v)'
    BY <2>1, <2>4 DEF KnownVertex
  <2>6. VerticesInv' /\ EdgesInv'
    BY <1>1, <2>1, <2>2, <2>5 DEF VerticesInv, EdgesInv
  <2>7. QED
    BY <2>3, <2>6 DEF ToLpgInv
<1>2. CASE toLpg # "none"
  <2>1. UNCHANGED mergeVars
    BY <1>2, MergedIsFinal DEF ToLpgInv, ProgressInv
  <2>2. QED
    BY <2>1, ToLpgStays
<1>3. QED
  BY <1>1, <1>2

\* No step leaves the invariant.
LEMMA ToLpgStep ==
  ASSUME MergeInv, ErrorsInv, ToLpgInv,
         \/ [MergeNext]_mergeVars /\ UNCHANGED <<toLpgVars, lpgVars>>
         \/ LpgNext /\ UNCHANGED mergeVars
  PROVE  ToLpgInv'
<1>1. CASE [MergeNext]_mergeVars /\ UNCHANGED <<toLpgVars, lpgVars>>
  BY <1>1, MergingKeepsToLpg
<1>2. CASE StartLpg /\ UNCHANGED <<mergeVars, lpgVars>>
  BY <1>2, StartLpgKeeps
<1>3. CASE LinkToLpg /\ UNCHANGED <<mergeVars, lpgVars>>
  BY <1>3, LinkToLpgKeeps
<1>4. CASE ResourceToLpg /\ UNCHANGED <<mergeVars, lpgVars>>
  BY <1>4, ResourceToLpgKeeps
<1>5. CASE Identify /\ UNCHANGED <<mergeVars, lpgVars>>
  BY <1>5, IdentifyKeeps
<1>6. CASE (WriteToNeptune \/ WriteNext) /\ UNCHANGED <<mergeVars, toLpgVars>>
  BY <1>6, WritingKeeps
<1>7. QED
  BY <1>1, <1>2, <1>3, <1>4, <1>5, <1>6 DEF LpgNext, ToLpgNext

\* Only the vertex of a merged resource has its id.
LEMMA VertexOfResource ==
  ASSUME MergeInv, phase = "merged", converted = Len(merged),
         NEW n \in 1..Len(merged), NEW v, KnownVertex(v), v.id = <<merged[n].id>>
  PROVE  v.label = merged[n].type
<1>1. \A x, y : <<x>> = <<y>> => x = y
  OBVIOUS
<1>2. \A x, y, z : <<x>> # <<y, z>>
  OBVIOUS
<1>3. /\ merged[n].id # "scan_id" /\ \A tag \in DOMAIN TagId : merged[n].id # TagId[tag]
      /\ \A m \in 1..Len(merged) : merged[m].id = merged[n].id => m = n
  BY MergedFacts
<1>4. v # Vertex(Metadata, "metadata")
  BY <1>1, <1>3 DEF Vertex, Metadata
<1>5. ASSUME NEW i \in Nat, v = Vertex(<<"error", i>>, "error")
      PROVE  FALSE
  <2>1. v.id = <<"error", i>>
    BY <1>5 DEF Vertex
  <2>2. QED
    BY <1>2, <2>1
<1>6. \A tag \in DOMAIN TagId : v # Vertex(<<TagId[tag]>>, "tag")
  BY <1>1, <1>3 DEF Vertex
<1>7. PICK m \in 1..Len(merged) : v = Vertex(<<merged[m].id>>, merged[m].type)
  BY <1>4, <1>5, <1>6 DEF KnownVertex
<1>8. merged[m].id = merged[n].id
  BY <1>1, <1>7 DEF Vertex
<1>9. QED
  BY <1>3, <1>7, <1>8 DEF Vertex

\* No vertex that is listed is labelled as one that was made up.
LEMMA KnownIsNoStub ==
  ASSUME MergeInv, phase = "merged", converted = Len(merged), NEW v, KnownVertex(v)
  PROVE  ParseArn[v.label] # "stub"
<1>1. \A n \in 1..Len(merged) : ParseArn[merged[n].type] # "stub"
  BY MergedFacts
<1>2. v.label \in {"metadata", "error", "tag"} \/ \E n \in 1..Len(merged) : v.label = merged[n].type
  BY DEF KnownVertex, Vertex
<1>3. QED
  BY <1>1, <1>2, LabelsAssumption

\* A write that returned has stored what was merged.
LEMMA WrittenMerged ==
  ASSUME MergeInv, ToLpgInv, WriteInv
  PROVE  WrittenIsMerged
<1> SUFFICES ASSUME lpg = "written" PROVE WrittenIsMerged
  BY DEF WrittenIsMerged
<1>1. /\ phase = "merged" /\ converted = Len(merged) /\ toLpg # "none"
      /\ vertices = graph.vertices /\ edges = graph.edges
  BY DEF ToLpgInv, ProgressInv
<1>2. /\ VerticesInv /\ EdgesInv /\ VerticesAreListed /\ ListsInv
      /\ Len(merged) \in Nat /\ DOMAIN merged = 1..Len(merged)
  BY <1>1, MergedFacts DEF ToLpgInv, WriteInv
<1>3. WrittenIsListed
  BY DEF WriteInv, BatchInv, ListsInv, WrittenIsListed
<1>4. /\ ToSet(vertices) = {vertices[i] : i \in 1..Len(vertices)}
      /\ ToSet(edges) = {edges[i] : i \in 1..Len(edges)}
  BY <1>2, ToSetIsIndexed DEF ListsInv
<1>5. \A i \in 1..Len(vertices) : KnownVertex(vertices[i])
  BY <1>1, <1>2, <1>4 DEF VerticesInv
<1>6. \A n \in 1..Len(merged) :
        \E i \in 1..Len(vertices) : vertices[i] = Vertex(<<merged[n].id>>, merged[n].type)
  BY <1>1, <1>2, <1>4 DEF VerticesInv
<1>7. \E i \in 1..Len(vertices) : vertices[i] = Vertex(Metadata, "metadata")
  BY <1>1, <1>2, <1>4 DEF VerticesInv
<1>8. ASSUME NEW n \in 1..Len(merged)
      PROVE  /\ Listed(<<merged[n].id>>)
             /\ Vertex(<<merged[n].id>>, ParseArn[merged[n].type]) \in store.vertices
  <2>1. PICK i \in 1..Len(vertices) : vertices[i].id = <<merged[n].id>>
    <3>1. PICK i \in 1..Len(vertices) :
            vertices[i] = Vertex(<<merged[n].id>>, merged[n].type)
      BY <1>6, <1>8
    <3>2. vertices[i].id = <<merged[n].id>>
      BY <3>1 DEF Vertex
    <3>3. QED
      BY <3>2
  <2>2. Listed(<<merged[n].id>>)
    BY <2>1 DEF Listed
  <2>3. PICK w \in store.vertices : w.id = <<merged[n].id>>
    BY <1>3, <2>1 DEF WrittenIsListed, Holds
  <2>4. PICK j \in 1..Len(vertices) : w = Vertex(vertices[j].id, ParseArn[vertices[j].label])
    BY <1>2, <2>2, <2>3 DEF VerticesAreListed
  <2>5. vertices[j].id = <<merged[n].id>>
    BY <2>3, <2>4 DEF Vertex
  <2>6. vertices[j].label = merged[n].type
    BY <1>1, <1>5, <1>8, <2>5, VertexOfResource
  <2>7. QED
    BY <2>2, <2>4, <2>5, <2>6
<1>9. ASSUME NEW n \in 1..Len(merged),
             NEW l \in Reach(merged[n].links), l.kind \in {"resource", "transient"}
      PROVE  \E e \in store.edges : e.from = <<merged[n].id>> /\ e.to = <<l.obj>>
  <2>1. Joined(merged[n].id, l)
    BY <1>1, <1>2, <1>9 DEF EdgesInv
  <2>2. PICK e \in ToSet(edges) : e.from = <<merged[n].id>> /\ e.to = <<l.obj>>
    BY <1>1, <1>9, <2>1 DEF Joined
  <2>3. e \in store.edges
    BY <1>3, <1>4, <2>2 DEF WrittenIsListed
  <2>4. QED
    BY <2>2, <2>3
<1>10. ASSUME NEW v \in store.vertices, v.label = "stub"
       PROVE  ~Listed(v.id)
  <2>1. ASSUME NEW i \in 1..Len(vertices),
               v = Vertex(vertices[i].id, ParseArn[vertices[i].label])
        PROVE  FALSE
    <3>1. ParseArn[vertices[i].label] # "stub"
      BY <1>1, <1>5, KnownIsNoStub
    <3>2. QED
      BY <1>10, <2>1, <3>1 DEF Vertex
  <2>2. QED
    BY <1>2, <2>1 DEF VerticesAreListed
<1>11. Listed(Metadata)
  BY <1>7 DEF Listed, Vertex
<1>12. QED
  BY <1>2, <1>8, <1>9, <1>10, <1>11 DEF WrittenIsMerged, Reach

-----------------------------------------------------------------------------
(* What is exported *)

\* The key is the one that is remembered for the id.
GoodKey(id, key) == id \in DOMAIN arns_pks /\ key = arns_pks[id]

\* A key that is remembered does not change.
KeysGrow ==
  \A id \in DOMAIN arns_pks : id \in DOMAIN arns_pks' /\ arns_pks'[id] = arns_pks[id]

\* A row has the keys that are remembered.
GoodRow(r) ==
  /\ GoodKey(r.id, r.pk)
  /\ ParentFirst(r) =>
       \A f \in r.fks : \A id : Names(r, f.column, id) => GoodKey(id, f.fk)

\* What has its row built.
RowId == IF part = 0 THEN <<Exported.id>> ELSE <<Exported.id, part>>

\* The row that is being built.
RowInv ==
  /\ exported < Len(merged)
  /\ part # 0 => part \in DOMAIN Exported.links
  /\ row = [table |-> row.table, id |-> row.id, pk |-> row.pk, fks |-> row.fks]
  /\ row.id = RowId
  /\ part = 0 => row.pk = pk
  /\ GoodRow(row)
  /\ part # 0 /\ ParentFirst(row) => row.table[1] \notin columns

\* What holds in every state of the export.
HyperInv ==
  /\ exported \in Nat /\ part \in Nat
  /\ hyper = "none" => rows = {}
  /\ hyper # "none" => phase = "merged"
  /\ hyper = "none" => exported = 0 /\ part = 0
  /\ \A r \in rows : GoodRow(r)
  /\ hyper = "columns" => RowInv
  /\ part # 0 => GoodKey(<<Exported.id>>, pk)

\* What is drawn is remembered, and what was drawn before stays.
LEMMA DrawRemembers ==
  ASSUME NEW table, NEW id, Draw(table, id)
  PROVE  /\ KeysGrow
         /\ id \in DOMAIN arns_pks' /\ arns_pks'[id] = Key(table, id)
<1>1. CASE id \in DOMAIN arns_pks
  <2>1. arns_pks' = arns_pks
    BY <1>1 DEF Draw
  <2>2. Key(table, id) = arns_pks[id]
    BY <1>1 DEF Key
  <2>3. QED
    BY <1>1, <2>1, <2>2 DEF KeysGrow
<1>2. CASE id \notin DOMAIN arns_pks
  <2>1. arns_pks' = Put(arns_pks, id, Key(table, id))
    BY <1>2 DEF Draw
  <2>2. PICK key : key = Key(table, id)
    OBVIOUS
  <2>3. arns_pks' = [k \in DOMAIN arns_pks \cup {id} |->
                       IF k = id THEN key ELSE arns_pks[k]]
    BY <2>1, <2>2 DEF Put
  <2>4. QED
    BY <1>2, <2>2, <2>3 DEF KeysGrow
<1>3. QED
  BY <1>1, <1>2

\* What is the case of a row stays so.
LEMMA RowsStay ==
  ASSUME KeysGrow, merged' = merged, NEW r
  PROVE  /\ GoodRow(r) => GoodRow(r)'
         /\ ParentFirst(r)' <=> ParentFirst(r)
         /\ \A c, id : Names(r, c, id)' <=> Names(r, c, id)
<1>1. \A id, key : GoodKey(id, key) => GoodKey(id, key)'
  BY DEF GoodKey, KeysGrow
<1>2. ParentFirst(r)' <=> ParentFirst(r)
  BY DEF ParentFirst, IsFirst, Columns, TableDefns
<1>3. \A c, id : Names(r, c, id)' <=> Names(r, c, id)
  BY DEF Names
<1>4. QED
  BY <1>1, <1>2, <1>3 DEF GoodRow

\* No two columns of a table sort first.
LEMMA OneIsFirst ==
  ASSUME NEW c, NEW d, NEW names, IsFirst(c, names), IsFirst(d, names)
  PROVE  c = d
<1>1. SUFFICES ASSUME c # d PROVE FALSE
  OBVIOUS
<1>2. <<c, d>> \in SortsBefore /\ <<d, c>> \in SortsBefore
  BY <1>1 DEF IsFirst
<1>3. QED
  BY <1>2, ColumnsAssumption

\* No two links lead.
LEMMA OneLeads ==
  ASSUME NEW list, NEW i \in Nat, NEW j \in Nat, NEW p, i >= 1, j >= 1,
         Leads(list, i, p), Leads(list, j, p)
  PROVE  i = j
<1>1. CASE i < j
  BY <1>1 DEF Leads
<1>2. CASE j < i
  BY <1>2 DEF Leads
<1>3. QED
  BY <1>1, <1>2

\* The row of the resource or multi link that is exported names what its links
\* lead to, and nothing else.
LEMMA NamesOfRow ==
  ASSUME MergeInv, phase = "merged", HyperInv, exported < Len(merged),
         part # 0 => part \in DOMAIN Exported.links,
         NEW r, r.id = RowId, NEW c, NEW id, Names(r, c, id)
  PROVE  \/ /\ part # 0 /\ c = r.table[1] /\ id = <<Exported.id>>
         \/ /\ part # 0 => c # r.table[1]
            /\ \E i \in DOMAIN RowLinks : Leads(RowLinks, i, c) /\ id = <<RowLinks[i].obj>>
<1>1. /\ exported \in Nat /\ part \in Nat
      /\ DOMAIN merged = 1..Len(merged) /\ Len(merged) \in Nat
      /\ \A m, n \in 1..Len(merged) : merged[m].id = merged[n].id => m = n
  BY MergedFacts DEF HyperInv
<1>2. exported + 1 \in 1..Len(merged)
  BY <1>1
<1>3. r.id[1] = Exported.id /\ Len(r.id) = IF part = 0 THEN 1 ELSE 2
  BY DEF RowId
<1>4. part # 0 => r.id[2] = part
  BY DEF RowId
<1>5. PICK n \in 1..Len(merged) :
        /\ merged[n].id = r.id[1]
        /\ LET list == IF Len(r.id) = 1 THEN merged[n].links
                       ELSE merged[n].links[r.id[2]].sub
           IN  IF Len(r.id) = 2 /\ c = r.table[1] THEN id = <<r.id[1]>>
               ELSE \E i \in DOMAIN list : Leads(list, i, c) /\ id = <<list[i].obj>>
  BY <1>1 DEF Names
<1>6. merged[n] = Exported
  BY <1>1, <1>2, <1>3, <1>5 DEF Exported
<1>7. CASE part = 0
  <2>1. Len(r.id) = 1 /\ RowLinks = merged[n].links
    BY <1>3, <1>6, <1>7 DEF RowLinks
  <2>2. \E i \in DOMAIN RowLinks : Leads(RowLinks, i, c) /\ id = <<RowLinks[i].obj>>
    BY <1>5, <2>1
  <2>3. QED
    BY <1>7, <2>2
<1>8. CASE part # 0 /\ c = r.table[1]
  BY <1>3, <1>5, <1>8
<1>9. CASE part # 0 /\ c # r.table[1]
  <2>1. Len(r.id) # 1 /\ RowLinks = merged[n].links[r.id[2]].sub
    BY <1>3, <1>4, <1>6, <1>9 DEF RowLinks, Multi
  <2>2. \E i \in DOMAIN RowLinks : Leads(RowLinks, i, c) /\ id = <<RowLinks[i].obj>>
    BY <1>5, <1>9, <2>1
  <2>3. QED
    BY <1>9, <2>2
<1>10. QED
  BY <1>7, <1>8, <1>9

\* Nothing is exported.
LEMMA HyperInitial == HyperInit => HyperInv
  BY DEF HyperInit, HyperInv

\* The links of the resource that is exported are a sequence.
LEMMA ExportedLinks ==
  ASSUME MergeInv, phase = "merged", exported \in Nat, exported < Len(merged)
  PROVE  Exported.links \in Seq(Links) /\ 0 \notin DOMAIN Exported.links
<1>1. DOMAIN merged = 1..Len(merged) /\ Len(merged) \in Nat
  BY MergedFacts
<1>2. exported + 1 \in 1..Len(merged)
  BY <1>1
<1>3. Exported.links \in Seq(Links)
  BY <1>2, MergedFacts DEF Exported
<1>4. QED
  BY <1>3

\* The merged graph set is read.
LEMMA ReadJsonKeeps ==
  ASSUME HyperInv, ReadJson, UNCHANGED mergeVars
  PROVE  HyperInv'
<1>1. /\ rows = {} /\ exported = 0 /\ part = 0 /\ phase = "merged"
      /\ rows' = rows /\ exported' = exported /\ part' = part /\ phase' = phase
      /\ hyper' = "parts"
  BY DEF ReadJson, HyperInv, mergeVars
<1>2. QED
  BY <1>1 DEF HyperInv

\* A resource gets its key and a row without columns.
LEMMA ExportResourceKeeps ==
  ASSUME MergeInv, HyperInv, ExportResource, UNCHANGED mergeVars
  PROVE  HyperInv'
<1>1. PICK table, id, key :
        table = <<NameOf(Exported)>> /\ id = <<Exported.id>> /\ key = Key(table, id)
  OBVIOUS
<1>2. /\ hyper = "parts" /\ exported < Len(merged) /\ part = 0
      /\ Draw(table, id) /\ pk' = key
      /\ row' = [table |-> table, id |-> id, pk |-> key, fks |-> {}]
      /\ columns' = Columns(table)
      /\ hyper' = "columns" /\ exported' = exported /\ part' = part /\ rows' = rows
      /\ merged' = merged /\ phase' = phase
  BY <1>1 DEF ExportResource, mergeVars
<1>3. KeysGrow /\ id \in DOMAIN arns_pks' /\ arns_pks'[id] = key
  BY <1>1, <1>2, DrawRemembers
<1>4. /\ exported \in Nat /\ part \in Nat /\ phase = "merged"
      /\ \A r \in rows : GoodRow(r)
  BY <1>2 DEF HyperInv
<1>5. \A r \in rows' : GoodRow(r)'
  BY <1>2, <1>3, <1>4, RowsStay
<1>6. RowInv'
  <2>1. /\ row'.table = table /\ row'.id = id /\ row'.pk = key /\ row'.fks = {}
        /\ row' = [table |-> row'.table, id |-> row'.id, pk |-> row'.pk, fks |-> row'.fks]
    BY <1>2
  <2>2. RowId' = id
    BY <1>1, <1>2 DEF RowId, Exported
  <2>3. GoodRow(row)'
    BY <1>3, <2>1 DEF GoodRow, GoodKey
  <2>4. part' = 0 /\ exported' < Len(merged') /\ row'.pk = pk'
    BY <1>2
  <2>5. QED
    BY <2>1, <2>2, <2>3, <2>4 DEF RowInv
<1>7. QED
  BY <1>2, <1>4, <1>5, <1>6 DEF HyperInv

\* So does a multi link; the key of its resource goes into the first column.
LEMMA ExportMultiKeeps ==
  ASSUME MergeInv, HyperInv, ExportMulti, UNCHANGED mergeVars
  PROVE  HyperInv'
<1>1. PICK table, id, key, of, number :
        /\ of = Exported.id /\ number = part
        /\ table = <<NameOf(Exported), Multi.pred>> /\ id = <<of, number>>
        /\ key = Key(table, id)
  OBVIOUS
<1>2. /\ hyper = "parts" /\ exported < Len(merged) /\ part \in DOMAIN Exported.links
      /\ Draw(table, id) /\ pk' = pk
      /\ hyper' = "columns" /\ exported' = exported /\ part' = part /\ rows' = rows
      /\ merged' = merged /\ phase' = phase
  BY <1>1 DEF ExportMulti, mergeVars
<1>3. PICK parent, names :
        /\ names = Columns(table) /\ IsFirst(parent, names)
        /\ row' = [table |-> table, id |-> id, pk |-> key,
                   fks |-> {[column |-> parent, fk |-> pk]}]
        /\ columns' = names \ {parent}
  BY <1>1 DEF ExportMulti
<1>4. KeysGrow /\ id \in DOMAIN arns_pks' /\ arns_pks'[id] = key
  BY <1>1, <1>2, DrawRemembers
<1>5. /\ exported \in Nat /\ part \in Nat /\ phase = "merged"
      /\ \A r \in rows : GoodRow(r)
      /\ part # 0 => GoodKey(<<of>>, pk)
  BY <1>1, <1>2 DEF HyperInv
<1>6. part # 0
  BY <1>2, <1>5, ExportedLinks
<1>7. \A r \in rows' : GoodRow(r)'
  BY <1>2, <1>4, <1>5, RowsStay
<1>8. (GoodKey(<<of>>, pk))'
  BY <1>2, <1>4, <1>5, <1>6 DEF GoodKey, KeysGrow
<1>9. PICK new : new = [table |-> table, id |-> id, pk |-> key,
                        fks |-> {[column |-> parent, fk |-> pk]}]
  OBVIOUS
<1>10. /\ new.table = table /\ new.id = id /\ new.pk = key
       /\ new.fks = {[column |-> parent, fk |-> pk]} /\ row' = new
       /\ new = [table |-> new.table, id |-> new.id, pk |-> new.pk, fks |-> new.fks]
  BY <1>3, <1>9
<1>11. ParentFirst(new) => parent = new.table[1]
  <2>1. Len(new.id) = 2
    BY <1>1, <1>10
  <2>2. ParentFirst(new) => IsFirst(new.table[1], names)
    BY <1>3, <1>10, <2>1 DEF ParentFirst
  <2>3. QED
    BY <1>3, <2>2, OneIsFirst
<1>12. RowInv'
  <2>1. RowId' = id
    BY <1>1, <1>2, <1>6 DEF RowId, Exported
  <2>2. /\ GoodKey(new.id, new.pk)'
    BY <1>4, <1>10 DEF GoodKey
  <2>3. ASSUME ParentFirst(new), NEW i, Names(new, parent, i)
        PROVE  i = <<of>>
    <3>1. new.id[1] = of /\ Len(new.id) = 2
      BY <1>1, <1>10
    <3>2. parent = new.table[1]
      BY <1>11, <2>3
    <3>3. QED
      BY <2>3, <3>1, <3>2 DEF Names
  <2>4. GoodRow(new)'
    <3>1. /\ ParentFirst(new)' <=> ParentFirst(new)
          /\ \A c, i : Names(new, c, i)' <=> Names(new, c, i)
      BY <1>2, <1>4, RowsStay
    <3>2. ASSUME ParentFirst(new), NEW f \in new.fks, NEW i, Names(new, f.column, i)
          PROVE  GoodKey(i, f.fk)'
      <4>1. f.column = parent /\ f.fk = pk
        BY <1>10, <3>2
      <4>2. i = <<of>>
        BY <2>3, <3>2, <4>1
      <4>3. f.fk = pk'
        BY <1>2, <4>1
      <4>4. QED
        BY <1>8, <4>2, <4>3 DEF GoodKey
    <3>3. QED
      BY <2>2, <3>1, <3>2 DEF GoodRow
  <2>5. ParentFirst(row)' => row'.table[1] \notin columns'
    <3>1. ParentFirst(new)' => ParentFirst(new)
      BY <1>2, <1>4, RowsStay
    <3>2. ParentFirst(row)' => ParentFirst(new)
      BY <1>10, <3>1 DEF ParentFirst
    <3>3. QED
      BY <1>3, <1>10, <1>11, <3>2
  <2>6. GoodRow(row)'
    BY <1>10, <2>4 DEF GoodRow, ParentFirst
  <2>7. /\ part' \in DOMAIN Exported'.links /\ exported' < Len(merged') /\ part' # 0
    BY <1>2, <1>6 DEF Exported
  <2>8. QED
    BY <1>10, <2>1, <2>5, <2>6, <2>7 DEF RowInv
<1>13. (GoodKey(<<Exported.id>>, pk))'
  BY <1>1, <1>2, <1>8 DEF Exported
<1>14. QED
  BY <1>2, <1>5, <1>7, <1>12, <1>13 DEF HyperInv

\* A link that has no row.
LEMMA OtherLinkKeeps ==
  ASSUME MergeInv, HyperInv, OtherLink, UNCHANGED mergeVars
  PROVE  HyperInv'
<1>1. /\ hyper = "parts" /\ hyper' = hyper /\ exported' = exported /\ part' = part + 1
      /\ rows' = rows /\ pk' = pk /\ arns_pks' = arns_pks /\ merged' = merged
      /\ phase' = phase /\ part \in DOMAIN Exported.links /\ exported < Len(merged)
  BY DEF OtherLink, mergeVars
<1>2. /\ exported \in Nat /\ part \in Nat /\ phase = "merged"
      /\ \A r \in rows : GoodRow(r)
      /\ part # 0 => GoodKey(<<Exported.id>>, pk)
  BY <1>1 DEF HyperInv
<1>3. part # 0
  BY <1>1, <1>2, ExportedLinks
<1>4. KeysGrow
  BY <1>1 DEF KeysGrow
<1>5. \A r \in rows' : GoodRow(r)'
  BY <1>1, <1>2, <1>4, RowsStay
<1>6. (GoodKey(<<Exported.id>>, pk))'
  BY <1>1, <1>2, <1>3 DEF GoodKey, Exported
<1>7. QED
  BY <1>1, <1>2, <1>5, <1>6 DEF HyperInv

\* What the step to the next column leaves as it is.
LEMMA NextColumnFrame ==
  ASSUME MergeInv, HyperInv, NEW column, NextColumn(column), UNCHANGED mergeVars, KeysGrow
  PROVE  /\ phase = "merged" /\ RowInv /\ column \in columns
         /\ exported \in Nat /\ part \in Nat
         /\ columns' = columns \ {column} /\ merged' = merged
         /\ exported' = exported /\ part' = part /\ pk' = pk
         /\ RowInv' => HyperInv'
<1>1. /\ hyper = "columns" /\ hyper' = hyper /\ exported' = exported /\ part' = part
      /\ rows' = rows /\ pk' = pk /\ merged' = merged /\ phase' = phase
      /\ columns' = columns \ {column} /\ column \in columns
  BY DEF NextColumn, IsFirst, mergeVars
<1>2. /\ exported \in Nat /\ part \in Nat /\ phase = "merged" /\ RowInv
      /\ \A r \in rows : GoodRow(r)
      /\ part # 0 => GoodKey(<<Exported.id>>, pk)
  BY <1>1 DEF HyperInv
<1>3. \A r \in rows' : GoodRow(r)'
  BY <1>1, <1>2, RowsStay
<1>4. part' # 0 => (GoodKey(<<Exported.id>>, pk))'
  BY <1>1, <1>2 DEF GoodKey, KeysGrow, Exported
<1>5. QED
  BY <1>1, <1>2, <1>3, <1>4 DEF HyperInv

\* A column that no link fills.
LEMMA LeaveNullKeeps ==
  ASSUME MergeInv, HyperInv, NEW column, LeaveNull(column), UNCHANGED mergeVars
  PROVE  HyperInv'
<1>1. NextColumn(column) /\ row' = row /\ arns_pks' = arns_pks
  BY DEF LeaveNull
<1>2. KeysGrow
  BY <1>1 DEF KeysGrow
<1>3. /\ phase = "merged" /\ RowInv /\ columns' = columns \ {column}
      /\ merged' = merged /\ exported' = exported /\ part' = part /\ pk' = pk
      /\ RowInv' => HyperInv'
  BY <1>1, <1>2, NextColumnFrame
<1>4. PICK r : r = row
  OBVIOUS
<1>5. /\ GoodRow(r) => GoodRow(r)'
      /\ ParentFirst(r)' <=> ParentFirst(r)
  BY <1>2, <1>3, RowsStay
<1>6. GoodRow(row)' /\ (ParentFirst(row)' => ParentFirst(row))
  <2>1. GoodRow(r) /\ row' = r
    BY <1>1, <1>3, <1>4 DEF RowInv
  <2>2. GoodRow(row)'
    BY <1>5, <2>1 DEF GoodRow, ParentFirst
  <2>3. ParentFirst(row)' => ParentFirst(r)'
    BY <2>1 DEF ParentFirst
  <2>4. QED
    BY <1>4, <1>5, <2>2, <2>3
<1>7. RowId' = RowId /\ DOMAIN Exported'.links = DOMAIN Exported.links
  BY <1>3 DEF RowId, Exported
<1>8. RowInv'
  BY <1>1, <1>3, <1>6, <1>7 DEF RowInv
<1>9. QED
  BY <1>3, <1>8

\* A column gets the key of the resource that its link leads to.
LEMMA FillColumnKeeps ==
  ASSUME MergeInv, HyperInv, NEW column, NEW i, FillColumn(column, i), UNCHANGED mergeVars
  PROVE  HyperInv'
<1>1. PICK old, table, id, key, list :
        /\ old = row /\ list = RowLinks
        /\ table = TableOf(RowLinks[i]) /\ id = <<list[i].obj>> /\ key = Key(table, id)
  OBVIOUS
<1>2. /\ NextColumn(column) /\ Draw(table, id) /\ Fills(i, column)
      /\ row' = [old EXCEPT !.fks = @ \cup {[column |-> column, fk |-> key]}]
  BY <1>1 DEF FillColumn
<1>3. KeysGrow /\ id \in DOMAIN arns_pks' /\ arns_pks'[id] = key
  BY <1>1, <1>2, DrawRemembers
<1>4. /\ phase = "merged" /\ RowInv /\ columns' = columns \ {column}
      /\ column \in columns /\ exported \in Nat /\ part \in Nat
      /\ merged' = merged /\ exported' = exported /\ part' = part /\ pk' = pk
      /\ RowInv' => HyperInv'
  BY <1>2, <1>3, NextColumnFrame
<1>5. /\ old = [table |-> old.table, id |-> old.id, pk |-> old.pk, fks |-> old.fks]
      /\ old.id = RowId /\ GoodRow(old) /\ exported < Len(merged)
      /\ part = 0 => old.pk = pk
      /\ part # 0 => part \in DOMAIN Exported.links
      /\ part # 0 /\ ParentFirst(old) => old.table[1] \notin columns
  BY <1>1, <1>4 DEF RowInv
<1>6. PICK new : new = [table |-> old.table, id |-> old.id, pk |-> old.pk,
                        fks |-> old.fks \cup {[column |-> column, fk |-> key]}]
  OBVIOUS
<1>7. /\ new.table = old.table /\ new.id = old.id /\ new.pk = old.pk
      /\ new.fks = old.fks \cup {[column |-> column, fk |-> key]}
      /\ new = [table |-> new.table, id |-> new.id, pk |-> new.pk, fks |-> new.fks]
  BY <1>6
<1>8. row' = new
  <2>1. PICK t, d, k, fks : old = [table |-> t, id |-> d, pk |-> k, fks |-> fks]
    BY <1>5
  <2>2. PICK f : f = [column |-> column, fk |-> key]
    OBVIOUS
  <2>3. row' = [table |-> t, id |-> d, pk |-> k, fks |-> fks \cup {f}]
    BY <1>2, <2>1, <2>2
  <2>4. new = [table |-> t, id |-> d, pk |-> k, fks |-> fks \cup {f}]
    BY <1>6, <2>1, <2>2
  <2>5. QED
    BY <2>3, <2>4
<1>9. (ParentFirst(new) <=> ParentFirst(old)) /\
      \A c, x : Names(new, c, x) <=> Names(old, c, x)
  BY <1>7 DEF ParentFirst, Names
<1>10. ASSUME ParentFirst(old), NEW x, Names(old, column, x)
       PROVE  x = id
  <2>1. list \in Seq(Links) /\ i \in DOMAIN list /\ Leads(list, i, column)
    <3>1. i \in DOMAIN list /\ Leads(list, i, column)
      BY <1>1, <1>2 DEF Fills
    <3>2. Exported.links \in Seq(Links)
      BY <1>4, <1>5, ExportedLinks
    <3>3. CASE part = 0
      BY <1>1, <3>1, <3>2, <3>3 DEF RowLinks
    <3>4. CASE part # 0
      <4>1. Multi \in Links
        BY <1>5, <3>2, <3>4 DEF Multi
      <4>2. Multi.sub \in LinkCollections
        BY <4>1, LinksAssumption
      <4>3. QED
        BY <1>1, <3>1, <3>4, <4>2 DEF RowLinks, LinkCollections
    <3>5. QED
      BY <3>3, <3>4
  <2>2. PICK j \in DOMAIN list : Leads(list, j, column) /\ x = <<list[j].obj>>
    <3>1. \/ part # 0 /\ column = old.table[1]
          \/ \E j \in DOMAIN RowLinks : Leads(RowLinks, j, column) /\ x = <<RowLinks[j].obj>>
      BY <1>4, <1>5, <1>10, NamesOfRow
    <3>2. ~(part # 0 /\ column = old.table[1])
      BY <1>4, <1>5, <1>10
    <3>3. QED
      BY <1>1, <3>1, <3>2
  <2>3. i = j
    <3>1. i \in Nat /\ j \in Nat /\ i >= 1 /\ j >= 1
      BY <2>1, <2>2
    <3>2. QED
      BY <2>1, <2>2, <3>1, OneLeads
  <2>4. QED
    BY <1>1, <2>2, <2>3
<1>11. GoodRow(new)'
  <2>1. /\ GoodRow(old)' /\ (ParentFirst(old)' <=> ParentFirst(old))
        /\ (ParentFirst(new)' <=> ParentFirst(new))
        /\ \A c, x : Names(old, c, x)' <=> Names(old, c, x)
        /\ \A c, x : Names(new, c, x)' <=> Names(new, c, x)
    BY <1>3, <1>4, <1>5, RowsStay
  <2>2. GoodKey(new.id, new.pk)'
    BY <1>7, <2>1 DEF GoodRow
  <2>3. ASSUME ParentFirst(old), NEW f \in new.fks, NEW x, Names(old, f.column, x)
        PROVE  GoodKey(x, f.fk)'
    <3>1. CASE f \in old.fks
      BY <2>1, <2>3, <3>1 DEF GoodRow
    <3>2. CASE f = [column |-> column, fk |-> key]
      <4>1. f.column = column /\ f.fk = key
        BY <3>2
      <4>2. x = id
        BY <1>10, <2>3, <4>1
      <4>3. QED
        BY <1>3, <4>1, <4>2 DEF GoodKey
    <3>3. QED
      BY <1>7, <2>3, <3>1, <3>2
  <2>4. QED
    BY <1>9, <2>1, <2>2, <2>3 DEF GoodRow
<1>12. GoodRow(row)'
  BY <1>8, <1>11 DEF GoodRow, ParentFirst
<1>13. part # 0 /\ ParentFirst(row)' => row'.table[1] \notin columns'
  <2>1. ParentFirst(new)' <=> ParentFirst(new)
    BY <1>3, <1>4, RowsStay
  <2>2. ParentFirst(row)' => ParentFirst(old)
    BY <1>8, <1>9, <2>1 DEF ParentFirst
  <2>3. QED
    BY <1>4, <1>5, <1>7, <1>8, <2>2
<1>14. RowId' = RowId /\ DOMAIN Exported'.links = DOMAIN Exported.links
  BY <1>4 DEF RowId, Exported
<1>15. RowInv'
  <2>1. /\ row' = [table |-> row'.table, id |-> row'.id, pk |-> row'.pk, fks |-> row'.fks]
        /\ row'.id = RowId' /\ (part' = 0 => row'.pk = pk')
    BY <1>4, <1>5, <1>7, <1>8, <1>14
  <2>2. /\ exported' < Len(merged')
        /\ part' # 0 => part' \in DOMAIN Exported'.links
    BY <1>4, <1>5, <1>14
  <2>3. QED
    BY <1>4, <1>12, <1>13, <2>1, <2>2 DEF RowInv
<1>16. QED
  BY <1>4, <1>15

\* A row has all its columns.
LEMMA EndRowKeeps ==
  ASSUME MergeInv, HyperInv, EndRow, UNCHANGED mergeVars
  PROVE  HyperInv'
<1>1. /\ hyper = "columns" /\ hyper' = "parts" /\ exported' = exported
      /\ part' = part + 1 /\ rows' = rows \cup {row} /\ pk' = pk
      /\ arns_pks' = arns_pks /\ merged' = merged /\ phase' = phase
  BY DEF EndRow, mergeVars
<1>2. /\ exported \in Nat /\ part \in Nat /\ phase = "merged" /\ RowInv
      /\ \A r \in rows : GoodRow(r)
      /\ part # 0 => GoodKey(<<Exported.id>>, pk)
  BY <1>1 DEF HyperInv
<1>3. KeysGrow
  BY <1>1 DEF KeysGrow
<1>4. PICK r : r = row
  OBVIOUS
<1>5. GoodRow(r) /\ r.id = RowId /\ (part = 0 => r.pk = pk)
  BY <1>2, <1>4 DEF RowInv
<1>6. \A q \in rows' : GoodRow(q)'
  <2>1. \A q \in rows \cup {r} : GoodRow(q)
    BY <1>2, <1>5
  <2>2. rows' = rows \cup {r}
    BY <1>1, <1>4
  <2>3. QED
    BY <1>1, <1>3, <2>1, <2>2, RowsStay
<1>7. GoodKey(<<Exported.id>>, pk)
  <2>1. CASE part = 0
    BY <1>5, <2>1 DEF GoodRow, RowId
  <2>2. QED
    BY <1>2, <2>1
<1>8. (GoodKey(<<Exported.id>>, pk))'
  BY <1>1, <1>7 DEF GoodKey, Exported
<1>9. QED
  BY <1>1, <1>2, <1>6, <1>8 DEF HyperInv

\* What changes neither rows nor keys, and ends what is exported of a resource.
LEMMA PartEndKeeps ==
  ASSUME HyperInv, EndResource \/ ExportEnds, UNCHANGED mergeVars
  PROVE  HyperInv'
<1>1. /\ hyper = "parts" /\ hyper' \in {"parts", "done"} /\ rows' = rows /\ pk' = pk
      /\ arns_pks' = arns_pks /\ merged' = merged /\ phase' = phase
      /\ \/ exported' = exported + 1 /\ part' = 0
         \/ exported' = exported /\ part' = part
  BY DEF EndResource, ExportEnds, mergeVars
<1>2. /\ exported \in Nat /\ part \in Nat /\ phase = "merged"
      /\ \A r \in rows : GoodRow(r)
      /\ part # 0 => GoodKey(<<Exported.id>>, pk)
  BY <1>1 DEF HyperInv
<1>3. KeysGrow
  BY <1>1 DEF KeysGrow
<1>4. \A r \in rows' : GoodRow(r)'
  BY <1>1, <1>2, <1>3, RowsStay
<1>5. part' # 0 => (GoodKey(<<Exported.id>>, pk))'
  BY <1>1, <1>2 DEF GoodKey, Exported
<1>6. QED
  BY <1>1, <1>2, <1>4, <1>5 DEF HyperInv

\* Nothing changes.
LEMMA HyperStays ==
  ASSUME HyperInv, UNCHANGED <<mergeVars, hyperVars>>
  PROVE  HyperInv'
<1>1. /\ hyper' = hyper /\ exported' = exported /\ part' = part /\ pk' = pk
      /\ row' = row /\ columns' = columns /\ arns_pks' = arns_pks /\ rows' = rows
      /\ merged' = merged /\ phase' = phase
  BY DEF mergeVars, hyperVars
<1>2. \A r : GoodRow(r) => GoodRow(r)'
  BY <1>1, RowsStay DEF KeysGrow
<1>3. Exported' = Exported /\ (GoodKey(<<Exported.id>>, pk) => (GoodKey(<<Exported.id>>, pk))')
  BY <1>1 DEF Exported, GoodKey
<1>4. RowInv => RowInv'
  <2>1. PICK r : r = row
    OBVIOUS
  <2>2. GoodRow(row) => GoodRow(row)'
    BY <1>1, <1>2, <2>1 DEF GoodRow, ParentFirst
  <2>3. ParentFirst(row)' => ParentFirst(row)
    BY <1>1 DEF ParentFirst, IsFirst, Columns, TableDefns
  <2>4. RowId' = RowId
    BY <1>1 DEF RowId, Exported
  <2>5. QED
    BY <1>1, <1>3, <2>2, <2>3, <2>4 DEF RowInv
<1>5. QED
  BY <1>1, <1>2, <1>3, <1>4 DEF HyperInv

\* The merge ends before the export starts.
LEMMA MergingKeepsHyper ==
  ASSUME MergeInv, HyperInv, [MergeNext]_mergeVars, UNCHANGED hyperVars
  PROVE  HyperInv'
<1>1. CASE hyper = "none"
  <2>1. /\ hyper' = hyper /\ exported' = exported /\ part' = part /\ rows' = rows
        /\ exported = 0 /\ part = 0 /\ rows = {}
    BY <1>1 DEF hyperVars, HyperInv
  <2>2. QED
    BY <1>1, <2>1 DEF HyperInv
<1>2. CASE hyper # "none"
  <2>1. UNCHANGED mergeVars
    BY <1>2, MergedIsFinal DEF HyperInv
  <2>2. QED
    BY <2>1, HyperStays
<1>3. QED
  BY <1>1, <1>2

\* No step leaves the invariant.
LEMMA HyperStep ==
  ASSUME MergeInv, HyperInv,
         \/ [MergeNext]_mergeVars /\ UNCHANGED hyperVars
         \/ HyperNext /\ UNCHANGED mergeVars
  PROVE  HyperInv'
<1>1. CASE [MergeNext]_mergeVars /\ UNCHANGED hyperVars
  BY <1>1, MergingKeepsHyper
<1>2. CASE UNCHANGED mergeVars /\ HyperNext
  <2>1. CASE ReadJson
    BY <1>2, <2>1, ReadJsonKeeps
  <2>2. CASE ExportResource
    BY <1>2, <2>2, ExportResourceKeeps
  <2>3. CASE ExportMulti
    BY <1>2, <2>3, ExportMultiKeeps
  <2>4. CASE OtherLink
    BY <1>2, <2>4, OtherLinkKeeps
  <2>5. ASSUME NEW column \in columns, LeaveNull(column)
        PROVE  HyperInv'
    BY <1>2, <2>5, LeaveNullKeeps
  <2>6. ASSUME NEW column \in columns, NEW i \in DOMAIN RowLinks, FillColumn(column, i)
        PROVE  HyperInv'
    BY <1>2, <2>6, FillColumnKeeps
  <2>7. CASE EndRow
    BY <1>2, <2>7, EndRowKeeps
  <2>8. CASE EndResource \/ ExportEnds
    BY <1>2, <2>8, PartEndKeeps
  <2>9. QED
    BY <1>2, <2>1, <2>2, <2>3, <2>4, <2>5, <2>6, <2>7, <2>8 DEF HyperNext
<1>3. QED
  BY <1>1, <1>2

\* Two rows that give one id give it the same key.
LEMMA KeysMeet == HyperInv => ForeignKeysMeetRows
<1> SUFFICES ASSUME HyperInv, NEW r \in rows, NEW s \in rows, ParentFirst(r),
                    NEW f \in r.fks, Names(r, f.column, s.id)
             PROVE  f.fk = s.pk
  BY DEF ForeignKeysMeetRows
<1>1. GoodRow(r) /\ GoodRow(s)
  BY DEF HyperInv
<1>2. GoodKey(s.id, f.fk) /\ GoodKey(s.id, s.pk)
  BY <1>1 DEF GoodRow
<1>3. QED
  BY <1>2 DEF GoodKey

\* A sequence holds its head and what its tail holds.
LEMMA HeadAndTail ==
  ASSUME NEW S, NEW s \in Seq(S), s # <<>>
  PROVE  /\ Head(s) \in S /\ Tail(s) \in Seq(S)
         /\ ToSet(s) = {Head(s)} \cup ToSet(Tail(s))
<1>1. PICK h, t : h = Head(s) /\ t = Tail(s)
  OBVIOUS
<1>2. h \in S /\ t \in Seq(S) /\ s = <<h>> \o t
  BY <1>1
<1> DEFINE a == <<h>>
<1>3. a \in Seq(S) /\ ToSet(a) = {h} /\ s = a \o t
  BY <1>2 DEF ToSet
<1> HIDE DEF a
<1>4. ToSet(a \o t) = ToSet(a) \cup ToSet(t)
  BY <1>2, <1>3, ToSetOfConcat
<1>5. QED
  BY <1>1, <1>2, <1>3, <1>4

-----------------------------------------------------------------------------
(* What is graphed *)

\* A blank node that exists.
Blank(node) == \E k \in Nat : k < fresh /\ node = <<"bnode", k>>

\* The types of the variables.
RdfTypeOK ==
  /\ fresh \in Nat /\ graphed \in Nat
  /\ rdf = "none" => /\ triples = {} /\ DOMAIN told = {} /\ DOMAIN cache = {}
                     /\ todo = <<>> /\ graphed = 0
  /\ rdf # "none" => phase = "merged" /\ graphed <= Len(merged)
  /\ rdf \notin {"none", "resources"} => graphed = Len(merged) /\ todo = <<>>
  /\ stored = IF rdf = "written" THEN triples ELSE {}

\* A link is to be converted because its node was told of it.
CallsInv ==
  /\ todo \in Seq(ToSet(todo))
  /\ \A c \in ToSet(todo) :
       /\ c = [subj |-> c.subj, link |-> c.link]
       /\ c.subj \in DOMAIN told
       /\ \E i \in DOMAIN told[c.subj] : told[c.subj][i] = c.link

\* A triple is of a node that was told its links or of a blank node, and the cache
\* has the nodes of tags.
NodesInv ==
  /\ \A t \in triples : t[1] \in DOMAIN told \/ Blank(t[1])
  /\ \A node \in DOMAIN told :
       /\ told[node] \in Seq(Links)
       /\ Blank(node) \/ \E n \in 1..graphed : node = Uri(merged[n].id)
  /\ \A id \in DOMAIN cache :
       \E tag \in DOMAIN TagId : TagId[tag] = id /\ IsTag(cache[id], tag, triples)

\* A resource that is graphed was told its links.
ResourcesInv ==
  \A n \in 1..graphed :
    /\ Uri(merged[n].id) \in DOMAIN told
    /\ told[Uri(merged[n].id)] = merged[n].links
    /\ <<Uri(merged[n].id), "rdf:type", Uri(merged[n].type)>> \in triples

\* Each link of a node is meant by a triple, or is still to be converted.
ToldWhole(node) ==
  \A i \in DOMAIN told[node] :
    \/ [subj |-> node, link |-> told[node][i]] \in ToSet(todo)
    \/ \E t \in triples : t[1] = node /\ Means(t, told[node][i], triples)

\* Each triple of a node means one of its links.
ToldOnly(node) ==
  \A t \in triples :
    t[1] = node => \/ t[2] \in {"rdf:type", "id"}
                   \/ \E i \in DOMAIN told[node] : Means(t, told[node][i], triples)

\* The triples of a node are its links.
MeaningInv == \A node \in DOMAIN told : ToldWhole(node) /\ ToldOnly(node)

\* What holds in every state of the conversion.
RdfInv == RdfTypeOK /\ CallsInv /\ NodesInv /\ ResourcesInv /\ MeaningInv

\* Triples are added and nodes are told their links once.
Grows ==
  /\ triples \subseteq triples'
  /\ \A node \in DOMAIN told : node \in DOMAIN told' /\ told'[node] = told[node]

\* Nothing is graphed.
LEMMA RdfInitial == RdfInit => RdfInv
<1> SUFFICES ASSUME RdfInit PROVE RdfInv
  OBVIOUS
<1>1. /\ rdf = "none" /\ triples = {} /\ fresh = 1 /\ graphed = 0 /\ todo = <<>>
      /\ stored = {} /\ DOMAIN told = {} /\ DOMAIN cache = {}
  BY DEF RdfInit
<1>2. ToSet(todo) = {}
  BY <1>1 DEF ToSet
<1>3. RdfTypeOK /\ CallsInv
  BY <1>1, <1>2 DEF RdfTypeOK, CallsInv
<1>4. NodesInv /\ ResourcesInv /\ MeaningInv
  BY <1>1 DEF NodesInv, ResourcesInv, MeaningInv
<1>5. QED
  BY <1>3, <1>4 DEF RdfInv

\* What a triple means it means still when there are more.
LEMMA MeaningStays ==
  ASSUME Grows
  PROVE  /\ \A node, tag : IsTag(node, tag, triples) => IsTag(node, tag, triples)'
         /\ \A t, l : Means(t, l, triples) => Means(t, l, triples)'
<1>1. \A node, tag : IsTag(node, tag, triples) => IsTag(node, tag, triples)'
  BY DEF Grows, IsTag
<1>2. ASSUME NEW t, NEW l, Means(t, l, triples)
      PROVE  Means(t, l, triples)'
  <2>1. CASE l.kind = "simple" /\ t[2] = l.pred /\ t[3] = Literal(l.obj)
    BY <2>1 DEF Means, Literal
  <2>2. CASE l.kind \in {"resource", "transient"} /\ t[2] = l.pred /\ t[3] = Uri(l.obj)
    BY <2>2 DEF Means, Uri
  <2>3. CASE l.kind = "multi" /\ t[2] = l.pred /\ t[3] \in DOMAIN told /\ told[t[3]] = l.sub
    BY <2>3 DEF Means, Grows
  <2>4. CASE /\ l.kind = "tag" /\ t[2] = "tag"
             /\ \E tag \in DOMAIN TagId :
                  TagId[tag] = TagId[<<l.pred, l.obj>>] /\ IsTag(t[3], tag, triples)
    BY <1>1, <2>4 DEF Means
  <2>5. QED
    BY <1>2, <2>1, <2>2, <2>3, <2>4 DEF Means
<1>3. QED
  BY <1>1, <1>2

\* A node keeps what it has been told when one call is done, and what is new of it
\* is meant.
LEMMA WholeStays ==
  ASSUME Grows, NEW c, ToSet(todo) \subseteq ToSet(todo') \cup {c},
         c \in ToSet(todo) =>
           \E t \in triples' : t[1] = c.subj /\ (Means(t, c.link, triples))',
         NEW node \in DOMAIN told, ToldWhole(node)
  PROVE  ToldWhole(node)'
<1>1. node \in DOMAIN told' /\ told'[node] = told[node]
  BY DEF Grows
<1>2. PICK list : list = told[node]
  OBVIOUS
<1>3. ASSUME NEW i \in DOMAIN list
      PROVE  \/ [subj |-> node, link |-> list[i]] \in ToSet(todo')
             \/ \E t \in triples' : t[1] = node /\ Means(t, list[i], triples)'
  <2>1. PICK l : l = list[i]
    OBVIOUS
  <2>2. CASE [subj |-> node, link |-> l] \in ToSet(todo)
    BY <2>1, <2>2
  <2>3. CASE \E t \in triples : t[1] = node /\ Means(t, l, triples)
    BY <2>1, <2>3, MeaningStays DEF Grows
  <2>4. QED
    BY <1>2, <1>3, <2>1, <2>2, <2>3 DEF ToldWhole
<1>4. QED
  BY <1>1, <1>2, <1>3 DEF ToldWhole

\* A node has no triple but for its links, if the new ones are for its links.
LEMMA OnlyStays ==
  ASSUME Grows, NEW node \in DOMAIN told, ToldOnly(node), NEW list, list = told[node],
         \A t \in triples' \ triples :
           t[1] = node => \/ t[2] \in {"rdf:type", "id"}
                          \/ \E i \in DOMAIN list : Means(t, list[i], triples)'
  PROVE  ToldOnly(node)'
<1>1. node \in DOMAIN told' /\ told'[node] = list
  BY DEF Grows
<1>2. ASSUME NEW t \in triples', t[1] = node
      PROVE  \/ t[2] \in {"rdf:type", "id"}
             \/ \E i \in DOMAIN list : Means(t, list[i], triples)'
  <2>1. CASE t \in triples
    BY <1>2, <2>1, MeaningStays DEF ToldOnly
  <2>2. CASE t \notin triples
    BY <1>2, <2>2
  <2>3. QED
    BY <2>1, <2>2
<1>3. QED
  BY <1>1, <1>2 DEF ToldOnly

\* A dict with a new key.
LEMMA PutFacts ==
  ASSUME NEW f, NEW k, NEW v
  PROVE  /\ DOMAIN Put(f, k, v) = DOMAIN f \cup {k} /\ Put(f, k, v)[k] = v
         /\ \A x \in DOMAIN f : x # k => Put(f, k, v)[x] = f[x]
  BY DEF Put

\* The calls for the links of a node.
LEMMA CallsOf ==
  ASSUME NEW node, NEW list \in Seq(Links)
  PROVE  /\ Calls(node, list) \in Seq(ToSet(Calls(node, list)))
         /\ ToSet(Calls(node, list)) = {[subj |-> node, link |-> list[i]] : i \in DOMAIN list}
<1>1. DOMAIN list = 1..Len(list) /\ Len(list) \in Nat
  OBVIOUS
<1>2. QED
  BY <1>1 DEF Calls, ToSet

\* Every sequence is one of its elements.
LEMMA SeqOfOwn ==
  ASSUME NEW S, NEW s \in Seq(S)
  PROVE  s \in Seq(ToSet(s))
  BY DEF ToSet

\* The next blank node is in no triple and has not been told anything.
LEMMA FreshIsNew ==
  ASSUME RdfTypeOK, NodesInv, NEW b, b = <<"bnode", fresh>>
  PROVE  b \notin DOMAIN told /\ \A t \in triples : t[1] # b
<1>1. fresh \in Nat
  BY DEF RdfTypeOK
<1>2. ~Blank(b)
  <2>1. SUFFICES ASSUME NEW k \in Nat, k < fresh, b = <<"bnode", k>> PROVE FALSE
    BY DEF Blank
  <2>2. \A x, y : <<"bnode", x>> = <<"bnode", y>> => x = y
    OBVIOUS
  <2>3. k = fresh
    BY <2>1, <2>2
  <2>4. QED
    BY <1>1, <2>1, <2>3
<1>3. \A n \in 1..graphed : b # Uri(merged[n].id)
  <2>1. \A x, y : <<"bnode", x>> # <<"uri", y>>
    OBVIOUS
  <2>2. QED
    BY <2>1 DEF Uri
<1>4. b \notin DOMAIN told
  BY <1>2, <1>3 DEF NodesInv
<1>5. QED
  BY <1>2, <1>4 DEF NodesInv

\* A node b is new, and there are calls for its links.
NewCalls(calls, more, b) ==
  \E list \in Seq(Links) :
    /\ calls = Calls(b, list) /\ told' = Put(told, b, list)
    /\ \A t \in more : t[2] = "rdf:type"

\* What that says of the calls.
CallsMade(calls, more, b) ==
  /\ calls \in Seq(ToSet(calls))
  /\ DOMAIN told' = DOMAIN told \cup {b} /\ told'[b] \in Seq(Links)
  /\ \A node \in DOMAIN told : told'[node] = told[node]
  /\ ToSet(calls) = {[subj |-> b, link |-> told'[b][k]] : k \in DOMAIN told'[b]}
  /\ \A t \in more : t[2] = "rdf:type"

\* What such calls are.
LEMMA NewCallsFacts ==
  ASSUME NEW calls, NEW more, NEW b, b \notin DOMAIN told, NewCalls(calls, more, b)
  PROVE  CallsMade(calls, more, b)
<1>1. PICK list \in Seq(Links) :
        /\ calls = Calls(b, list) /\ told' = Put(told, b, list)
        /\ \A t \in more : t[2] = "rdf:type"
  BY DEF NewCalls
<1>2. /\ DOMAIN told' = DOMAIN told \cup {b} /\ told'[b] = list
      /\ \A node \in DOMAIN told : told'[node] = told[node]
  <2>1. told' = Put(told, b, list)
    BY <1>1
  <2>2. /\ DOMAIN Put(told, b, list) = DOMAIN told \cup {b} /\ Put(told, b, list)[b] = list
        /\ \A x \in DOMAIN told : x # b => Put(told, b, list)[x] = told[x]
    BY DEF Put
  <2>3. QED
    BY <2>1, <2>2
<1>3. /\ calls \in Seq(ToSet(calls))
      /\ ToSet(calls) = {[subj |-> b, link |-> list[k]] : k \in DOMAIN list}
  <2>1. calls = Calls(b, list)
    BY <1>1
  <2>2. QED
    BY <2>1, CallsOf
<1>4. QED
  BY <1>1, <1>2, <1>3 DEF CallsMade

\* The cache keeps its nodes, and a new one has the triples of its tag.
CacheGrows ==
  \A id \in DOMAIN cache' :
    \/ id \in DOMAIN cache /\ cache'[id] = cache[id]
    \/ \E tag \in DOMAIN TagId : TagId[tag] = id /\ IsTag(cache'[id], tag, triples')

\* A call is done: its link is meant by a triple, and there may be a new node b with
\* triples of its own, for which there may be calls.
LEMMA CallDone ==
  ASSUME RdfInv, UNCHANGED <<merged, phase, rdf, graphed, stored>>, rdf = "resources",
         todo # <<>>, NEW c, c = Head(todo), NEW new, NEW more, NEW calls, NEW b,
         b = <<"bnode", fresh>>,
         triples' = triples \cup {new} \cup more,
         new[1] = c.subj, (Means(new, c.link, triples))',
         \A t \in more : t[1] = b,
         todo' = calls \o Tail(todo),
         (calls = <<>> /\ told' = told) \/ NewCalls(calls, more, b),
         fresh' = fresh + 1 \/ (fresh' = fresh /\ more = {} /\ told' = told),
         CacheGrows
  PROVE  RdfInv'
<1>1. RdfTypeOK /\ CallsInv /\ NodesInv /\ ResourcesInv /\ MeaningInv
  BY DEF RdfInv
<1>2. fresh \in Nat /\ fresh' \in Nat /\ fresh' >= fresh /\ graphed \in Nat
  BY <1>1 DEF RdfTypeOK
<1>3. \A node : Blank(node) => Blank(node)'
  BY <1>2 DEF Blank
<1>4. b \notin DOMAIN told /\ \A t \in triples : t[1] # b
  BY <1>1, FreshIsNew
<1>5. PICK rest : rest = Tail(todo)
  OBVIOUS
<1>6. /\ c \in ToSet(todo) /\ rest \in Seq(ToSet(todo)) /\ todo' = calls \o rest
      /\ ToSet(todo) = {c} \cup ToSet(rest)
  BY <1>1, <1>5, HeadAndTail DEF CallsInv
<1>7. PICK i \in DOMAIN told[c.subj] : told[c.subj][i] = c.link
  BY <1>1, <1>6 DEF CallsInv
<1>8. c.subj \in DOMAIN told
  BY <1>1, <1>6 DEF CallsInv
<1>9. /\ calls \in Seq(ToSet(calls))
      /\ Grows
      /\ \A node \in DOMAIN told' :
           \/ node \in DOMAIN told
           \/ node = b /\ told'[b] \in Seq(Links) /\ fresh' = fresh + 1
      /\ b \in DOMAIN told' => /\ \A t \in more : t[2] = "rdf:type"
                              /\ ToSet(calls) = {[subj |-> b, link |-> told'[b][k]] :
                                                   k \in DOMAIN told'[b]}
      /\ b \notin DOMAIN told' => ToSet(calls) = {}
  <2>1. CASE calls = <<>> /\ told' = told
    <3>1. calls \in Seq(ToSet(calls)) /\ ToSet(calls) = {}
      BY <2>1 DEF ToSet
    <3>2. QED
      BY <1>4, <2>1, <3>1 DEF Grows
  <2>2. CASE NewCalls(calls, more, b)
    <3>1. /\ calls \in Seq(ToSet(calls))
          /\ DOMAIN told' = DOMAIN told \cup {b} /\ told'[b] \in Seq(Links)
          /\ \A node \in DOMAIN told : told'[node] = told[node]
          /\ ToSet(calls) = {[subj |-> b, link |-> told'[b][k]] : k \in DOMAIN told'[b]}
          /\ \A t \in more : t[2] = "rdf:type"
      <4>1. CallsMade(calls, more, b)
        BY <1>4, <2>2, NewCallsFacts, Zenon
      <4>2. QED
        BY <4>1 DEF CallsMade
    <3>2. fresh' = fresh + 1
      BY <1>4, <3>1
    <3>3. Grows
      BY <3>1 DEF Grows
    <3>4. QED
      BY <3>1, <3>2, <3>3
  <2>3. QED
    BY <2>1, <2>2
<1>10. /\ todo' \in Seq(ToSet(todo')) /\ ToSet(todo') = ToSet(calls) \cup ToSet(rest)
  <2>1. rest \in Seq(ToSet(rest))
    BY <1>6, SeqOfOwn
  <2>2. calls \in Seq(ToSet(calls)) /\ todo' = calls \o rest
    BY <1>6, <1>9
  <2>3. /\ calls \o rest \in Seq(ToSet(calls \o rest))
        /\ ToSet(calls \o rest) = ToSet(calls) \cup ToSet(rest)
    BY <2>1, <2>2, ListsGrow, Zenon
  <2>4. QED
    BY <2>2, <2>3
<1>11. RdfTypeOK'
  BY <1>1, <1>2 DEF RdfTypeOK
<1>12. CallsInv'
  <2>1. ASSUME NEW q \in ToSet(todo')
        PROVE  /\ q = [subj |-> q.subj, link |-> q.link]
               /\ q.subj \in DOMAIN told'
               /\ \E k \in DOMAIN told'[q.subj] : told'[q.subj][k] = q.link
    <3>1. CASE q \in ToSet(rest)
      <4>1. /\ q = [subj |-> q.subj, link |-> q.link] /\ q.subj \in DOMAIN told
            /\ \E k \in DOMAIN told[q.subj] : told[q.subj][k] = q.link
        BY <1>1, <1>6, <3>1 DEF CallsInv
      <4>2. QED
        BY <1>9, <4>1 DEF Grows
    <3>2. CASE q \in ToSet(calls)
      <4>1. b \in DOMAIN told'
        BY <1>9, <3>2
      <4>2. q \in {[subj |-> b, link |-> told'[b][k]] : k \in DOMAIN told'[b]}
        BY <1>9, <3>2, <4>1
      <4>3. PICK k \in DOMAIN told'[b] : q = [subj |-> b, link |-> told'[b][k]]
        BY <4>2
      <4>4. QED
        BY <4>1, <4>3
    <3>3. QED
      BY <1>10, <2>1, <3>1, <3>2
  <2>2. QED
    BY <1>10, <2>1 DEF CallsInv
<1>13. NodesInv'
  <2>1. \A t \in triples' : t[1] \in DOMAIN told' \/ Blank(t[1])'
    <3>1. ASSUME NEW t \in triples'
          PROVE  t[1] \in DOMAIN told' \/ Blank(t[1])'
      <4>1. CASE t \in triples
        BY <1>1, <1>3, <1>9, <4>1 DEF NodesInv, Grows
      <4>2. CASE t = new
        BY <1>8, <1>9, <4>2 DEF Grows
      <4>3. CASE t \in more
        <5>1. fresh' = fresh + 1 /\ t[1] = b
          BY <4>3
        <5>2. QED
          BY <1>2, <5>1 DEF Blank
      <4>4. QED
        BY <4>1, <4>2, <4>3
    <3>2. QED
      BY <3>1
  <2>2. ASSUME NEW node \in DOMAIN told'
        PROVE  /\ told'[node] \in Seq(Links)
               /\ Blank(node)' \/ \E n \in 1..graphed : node = Uri(merged[n].id)
    <3>1. CASE node \in DOMAIN told
      BY <1>1, <1>3, <1>9, <3>1 DEF NodesInv, Grows
    <3>2. CASE node = b /\ told'[b] \in Seq(Links) /\ fresh' = fresh + 1
      BY <1>2, <3>2 DEF Blank
    <3>3. QED
      BY <1>9, <3>1, <3>2
  <2>3. ASSUME NEW id \in DOMAIN cache'
        PROVE  \E tag \in DOMAIN TagId : TagId[tag] = id /\ IsTag(cache'[id], tag, triples')
    <3>1. CASE id \in DOMAIN cache /\ cache'[id] = cache[id]
      <4>1. PICK node : node = cache[id]
        OBVIOUS
      <4>2. PICK tag \in DOMAIN TagId : TagId[tag] = id /\ IsTag(node, tag, triples)
        BY <1>1, <3>1, <4>1 DEF NodesInv
      <4>3. IsTag(node, tag, triples')
        BY <1>9, <4>2 DEF IsTag, Grows
      <4>4. QED
        BY <3>1, <4>1, <4>2, <4>3
    <3>2. QED
      BY <2>3, <3>1 DEF CacheGrows
  <2>4. QED
    BY <2>1, <2>2, <2>3 DEF NodesInv, Uri
<1>14. ResourcesInv'
  BY <1>1, <1>9 DEF ResourcesInv, Grows, Uri
<1>15. ASSUME NEW node \in DOMAIN told
       PROVE  ToldWhole(node)' /\ ToldOnly(node)'
  <2>1. ToldWhole(node)'
    <3>1. ToSet(todo) \subseteq ToSet(todo') \cup {c}
      BY <1>6, <1>10
    <3>2. \E t \in triples' : t[1] = c.subj /\ (Means(t, c.link, triples))'
      OBVIOUS
    <3>3. ToldWhole(node)
      BY <1>1 DEF MeaningInv
    <3>4. QED
      BY <1>9, <3>1, <3>2, <3>3, WholeStays
  <2>2. ToldOnly(node)'
    <3>1. PICK list : list = told[node]
      OBVIOUS
    <3>2. ASSUME NEW t \in triples' \ triples, t[1] = node
          PROVE  \/ t[2] \in {"rdf:type", "id"}
                 \/ \E k \in DOMAIN list : Means(t, list[k], triples)'
      <4>1. t = new
        BY <1>4, <3>2
      <4>2. i \in DOMAIN list /\ list[i] = c.link
        BY <1>7, <3>1, <3>2, <4>1
      <4>3. QED
        BY <4>1, <4>2
    <3>3. ToldOnly(node)
      BY <1>1 DEF MeaningInv
    <3>4. QED
      BY <1>9, <3>1, <3>2, <3>3, OnlyStays
  <2>3. QED
    BY <2>1, <2>2
<1>16. ASSUME b \in DOMAIN told'
       PROVE  ToldWhole(b)' /\ ToldOnly(b)'
  <2>1. ToldWhole(b)'
    <3>1. \A k \in DOMAIN told'[b] : [subj |-> b, link |-> told'[b][k]] \in ToSet(todo')
      BY <1>9, <1>10, <1>16
    <3>2. b' = b
      OBVIOUS
    <3>3. QED
      BY <3>1, <3>2 DEF ToldWhole
  <2>2. ToldOnly(b)'
    <3>1. \A t \in triples' : t[1] = b => t[2] \in {"rdf:type", "id"}
      BY <1>4, <1>8, <1>9, <1>16
    <3>2. QED
      BY <3>1 DEF ToldOnly
  <2>3. QED
    BY <2>1, <2>2
<1>17. MeaningInv'
  <2>1. ASSUME NEW node \in DOMAIN told'
        PROVE  ToldWhole(node)' /\ ToldOnly(node)'
    BY <1>9, <1>15, <1>16, <2>1
  <2>2. QED
    BY <2>1 DEF MeaningInv
<1>18. QED
  BY <1>11, <1>12, <1>13, <1>14, <1>17 DEF RdfInv

-----------------------------------------------------------------------------
(* Each kind of link *)

\* The link of a call.
LEMMA CallOf ==
  ASSUME RdfInv, NEW call \in ToSet(todo)
  PROVE  /\ call.link \in Links /\ call.link.sub \in Seq(Links)
         /\ call = [subj |-> call.subj, link |-> call.link]
<1>1. CallsInv /\ NodesInv
  BY DEF RdfInv
<1>2. PICK s, l : s = call.subj /\ l = call.link
  OBVIOUS
<1>3. /\ call = [subj |-> s, link |-> l] /\ s \in DOMAIN told
      /\ \E i \in DOMAIN told[s] : told[s][i] = l
  BY <1>1, <1>2 DEF CallsInv
<1>4. told[s] \in Seq(Links)
  BY <1>1, <1>3 DEF NodesInv
<1>5. l \in Links
  BY <1>3, <1>4
<1>6. QED
  BY <1>2, <1>3, <1>5, LinksAssumption DEF LinkCollections

\* A simple link or one between resources is a triple.
LEMMA ValueToRdfKeeps ==
  ASSUME RdfInv, NEW call \in ToSet(todo), ValueToRdf(call.subj, call.link),
         UNCHANGED mergeVars
  PROVE  RdfInv'
<1>1. PICK s, l, b, value :
        /\ s = call.subj /\ l = call.link /\ b = <<"bnode", fresh>>
        /\ value = IF l.kind = "simple" THEN Literal(l.obj) ELSE Uri(l.obj)
  OBVIOUS
<1>2. PICK new : new = <<s, l.pred, value>>
  OBVIOUS
<1>3. /\ rdf = "resources" /\ todo # <<>> /\ call = Head(todo)
      /\ triples' = triples \cup {new} \cup {} /\ todo' = <<>> \o Tail(todo)
      /\ UNCHANGED <<merged, phase, rdf, graphed, stored>>
      /\ fresh' = fresh /\ cache' = cache /\ told' = told
      /\ l.kind \in {"simple", "resource", "transient"}
  <2>1. Tail(todo) \in Seq(ToSet(todo))
    BY HeadAndTail DEF RdfInv, CallsInv, ValueToRdf, ToRdf
  <2>2. todo' = <<>> \o Tail(todo)
    BY <2>1 DEF ValueToRdf
  <2>3. call = Head(todo)
    BY CallOf DEF ValueToRdf, ToRdf
  <2>4. QED
    BY <1>1, <1>2, <2>2, <2>3 DEF ValueToRdf, ToRdf, mergeVars
<1>4. new[1] = call.subj /\ (Means(new, call.link, triples))'
  <2>1. new[2] = l.pred /\ new[3] = value
    BY <1>2
  <2>2. QED
    BY <1>1, <1>2, <1>3, <2>1 DEF Means, Literal, Uri
<1>5. PICK more, calls : more = {} /\ calls = <<>>
  OBVIOUS
<1>6. triples' = triples \cup {new} \cup more /\ todo' = calls \o Tail(todo)
  BY <1>3, <1>5
<1>7. \A t \in more : t[1] = b
  BY <1>5
<1>8. CacheGrows
  BY <1>3 DEF CacheGrows
<1>9. QED
  BY <1>1, <1>3, <1>4, <1>5, <1>6, <1>7, <1>8, CallDone

\* A multi link is a triple to a new node, whose links are next.
LEMMA MultiToRdfKeeps ==
  ASSUME RdfInv, NEW call \in ToSet(todo), MultiToRdf(call.subj, call.link),
         UNCHANGED mergeVars
  PROVE  RdfInv'
<1>1. PICK s, l, b, sub :
        s = call.subj /\ l = call.link /\ b = <<"bnode", fresh>> /\ sub = l.sub
  OBVIOUS
<1>2. PICK new, more, calls :
        /\ new = <<s, l.pred, b>>
        /\ more = {<<b, "rdf:type", Uri(l.pred)>>}
        /\ calls = Calls(b, sub)
  OBVIOUS
<1>3. /\ rdf = "resources" /\ todo # <<>> /\ call = Head(todo)
      /\ triples' = triples \cup {new} \cup more /\ todo' = calls \o Tail(todo)
      /\ UNCHANGED <<merged, phase, rdf, graphed, stored>>
      /\ fresh' = fresh + 1 /\ cache' = cache /\ told' = Put(told, b, sub)
      /\ l.kind = "multi"
  <2>1. call = Head(todo)
    BY CallOf DEF MultiToRdf, ToRdf
  <2>2. /\ triples' = triples \cup {new} \cup more /\ todo' = calls \o Tail(todo)
        /\ told' = Put(told, b, sub)
    BY <1>1, <1>2 DEF MultiToRdf, BNode
  <2>3. QED
    BY <1>1, <2>1, <2>2 DEF MultiToRdf, ToRdf, NewNode, mergeVars
<1>4. new[1] = call.subj /\ (Means(new, call.link, triples))'
  <2>1. new[2] = l.pred /\ new[3] = b
    BY <1>2
  <2>2. b \in DOMAIN told' /\ told'[b] = l.sub
    BY <1>1, <1>3 DEF Put
  <2>3. QED
    BY <1>1, <1>2, <1>3, <2>1, <2>2 DEF Means
<1>5. NewCalls(calls, more, b)
  <2>1. sub \in Seq(Links)
    BY <1>1, CallOf
  <2>2. \A t \in more : t[2] = "rdf:type"
    BY <1>2
  <2>3. QED
    BY <1>2, <1>3, <2>1, <2>2 DEF NewCalls
<1>6. \A t \in more : t[1] = b
  BY <1>2
<1>7. CacheGrows
  BY <1>3 DEF CacheGrows
<1>8. QED
  BY <1>1, <1>3, <1>4, <1>5, <1>6, <1>7, CallDone

\* A tag whose node is in the cache.
LEMMA KnownTagKeeps ==
  ASSUME RdfInv, NEW call \in ToSet(todo), TagToRdf(call.subj, call.link),
         NEW id, id = TagId[<<call.link.pred, call.link.obj>>], id \in DOMAIN cache,
         UNCHANGED mergeVars
  PROVE  RdfInv'
<1>1. PICK s, l, b, node :
        s = call.subj /\ l = call.link /\ b = <<"bnode", fresh>> /\ node = cache[id]
  OBVIOUS
<1>2. PICK new, more, calls : new = <<s, "tag", node>> /\ more = {} /\ calls = <<>>
  OBVIOUS
<1>3. /\ rdf = "resources" /\ todo # <<>> /\ call = Head(todo)
      /\ triples' = triples \cup {new} \cup more /\ todo' = calls \o Tail(todo)
      /\ UNCHANGED <<merged, phase, rdf, graphed, stored>>
      /\ fresh' = fresh /\ cache' = cache /\ told' = told
      /\ l.kind = "tag"
  <2>1. Tail(todo) \in Seq(ToSet(todo))
    BY HeadAndTail DEF RdfInv, CallsInv, TagToRdf, ToRdf
  <2>2. todo' = calls \o Tail(todo)
    BY <1>2, <2>1 DEF TagToRdf
  <2>3. call = Head(todo)
    BY CallOf DEF TagToRdf, ToRdf
  <2>4. triples' = triples \cup {new} /\ fresh' = fresh /\ cache' = cache
    BY <1>1, <1>2 DEF TagToRdf
  <2>5. QED
    BY <1>1, <1>2, <2>2, <2>3, <2>4 DEF TagToRdf, ToRdf, mergeVars
<1>4. new[1] = call.subj /\ (Means(new, call.link, triples))'
  <2>1. new[2] = "tag" /\ new[3] = node
    BY <1>2
  <2>2. PICK tag \in DOMAIN TagId : TagId[tag] = id /\ IsTag(node, tag, triples)
    BY <1>1 DEF RdfInv, NodesInv
  <2>3. IsTag(node, tag, triples')
    BY <1>3, <2>2 DEF IsTag
  <2>4. QED
    BY <1>1, <1>2, <1>3, <2>1, <2>2, <2>3 DEF Means, IsTag
<1>5. \A t \in more : t[1] = b
  BY <1>2
<1>6. CacheGrows
  BY <1>3 DEF CacheGrows
<1>7. QED
  BY <1>1, <1>2, <1>3, <1>4, <1>5, <1>6, CallDone

\* A tag that gets a node.
LEMMA NewTagKeeps ==
  ASSUME RdfInv, NEW call \in ToSet(todo), TagToRdf(call.subj, call.link),
         NEW id, id = TagId[<<call.link.pred, call.link.obj>>], id \notin DOMAIN cache,
         UNCHANGED mergeVars
  PROVE  RdfInv'
<1>1. PICK s, l, b, tag :
        /\ s = call.subj /\ l = call.link /\ b = <<"bnode", fresh>>
        /\ tag = <<l.pred, l.obj>>
  OBVIOUS
<1>2. PICK new, more, calls :
        /\ new = <<s, "tag", b>> /\ calls = <<>>
        /\ more = {<<b, "key", Literal(l.pred)>>, <<b, "value", Literal(l.obj)>>,
                   <<b, "rdf:type", Uri("tag")>>}
  OBVIOUS
<1>3. /\ rdf = "resources" /\ todo # <<>> /\ call = Head(todo)
      /\ triples' = triples \cup {new} \cup more /\ todo' = calls \o Tail(todo)
      /\ UNCHANGED <<merged, phase, rdf, graphed, stored>>
      /\ fresh' = fresh + 1 /\ cache' = Put(cache, id, b) /\ told' = told
      /\ l.kind = "tag"
  <2>1. Tail(todo) \in Seq(ToSet(todo))
    BY HeadAndTail DEF RdfInv, CallsInv, TagToRdf, ToRdf
  <2>2. todo' = calls \o Tail(todo)
    BY <1>2, <2>1 DEF TagToRdf
  <2>3. call = Head(todo)
    BY CallOf DEF TagToRdf, ToRdf
  <2>4. fresh' = fresh + 1 /\ cache' = Put(cache, id, b)
    BY <1>1 DEF TagToRdf, BNode, NewNode
  <2>5. triples' = triples \cup {new} \cup more
    <3>1. triples' = triples \cup {<<b, "key", Literal(l.pred)>>,
                                   <<b, "value", Literal(l.obj)>>,
                                   <<b, "rdf:type", Uri("tag")>>, new}
      BY <1>1, <1>2 DEF TagToRdf, BNode
    <3>2. QED
      BY <1>2, <3>1
  <2>6. QED
    BY <1>1, <2>2, <2>3, <2>4, <2>5 DEF TagToRdf, ToRdf, mergeVars
<1>4. tag \in DOMAIN TagId /\ TagId[tag] = id
  BY <1>1, <1>3, CallOf, TagsAssumption
<1>5. IsTag(b, tag, triples')
  BY <1>1, <1>2, <1>3 DEF IsTag
<1>6. new[1] = call.subj /\ (Means(new, call.link, triples))'
  <2>1. new[2] = "tag" /\ new[3] = b
    BY <1>2
  <2>2. QED
    BY <1>1, <1>2, <1>3, <1>4, <1>5, <2>1 DEF Means, IsTag
<1>7. \A t \in more : t[1] = b
  BY <1>2
<1>8. CacheGrows
  <2>1. ASSUME NEW x \in DOMAIN cache'
        PROVE  \/ x \in DOMAIN cache /\ cache'[x] = cache[x]
               \/ x = id /\ cache'[x] = b
    BY <1>3, <2>1 DEF Put
  <2>2. QED
    BY <1>4, <1>5, <2>1 DEF CacheGrows
<1>9. /\ rdf = "resources" /\ todo # <<>> /\ call = Head(todo) /\ b = <<"bnode", fresh>>
      /\ triples' = triples \cup {new} \cup more /\ todo' = calls \o Tail(todo)
      /\ UNCHANGED <<merged, phase, rdf, graphed, stored>>
      /\ calls = <<>> /\ told' = told /\ fresh' = fresh + 1
  BY <1>1, <1>2, <1>3
<1>10. QED
  BY <1>6, <1>7, <1>8, <1>9, CallDone

\* A tag.
LEMMA TagToRdfKeeps ==
  ASSUME RdfInv, NEW call \in ToSet(todo), TagToRdf(call.subj, call.link),
         UNCHANGED mergeVars
  PROVE  RdfInv'
<1>1. PICK id : id = TagId[<<call.link.pred, call.link.obj>>]
  OBVIOUS
<1>2. CASE id \in DOMAIN cache
  BY <1>1, <1>2, KnownTagKeeps
<1>3. CASE id \notin DOMAIN cache
  BY <1>1, <1>3, NewTagKeeps
<1>4. QED
  BY <1>2, <1>3

-----------------------------------------------------------------------------
(* The other steps *)

\* The steps that change no triple and no call.
Untouched ==
  UNCHANGED <<merged, phase, triples, fresh, cache, graphed, todo, told>>

\* What is graphed stays as it is.
LEMMA GraphStays ==
  ASSUME RdfInv, Untouched
  PROVE  CallsInv' /\ NodesInv' /\ ResourcesInv' /\ MeaningInv'
<1>1. CallsInv' /\ ResourcesInv'
  BY DEF RdfInv, Untouched, CallsInv, ResourcesInv
<1>2. \A node : Blank(node)' <=> Blank(node)
  BY DEF Untouched, Blank
<1>3. NodesInv'
  BY <1>2 DEF RdfInv, Untouched, NodesInv, IsTag
<1>4. MeaningInv'
  <2>1. Grows
    BY DEF Untouched, Grows
  <2>2. ASSUME NEW node \in DOMAIN told
        PROVE  (ToldWhole(node) /\ ToldOnly(node))'
    <3>1. \A t, l : Means(t, l, triples) <=> Means(t, l, triples)'
      BY DEF Untouched, Means, IsTag
    <3>2. QED
      BY <3>1 DEF RdfInv, MeaningInv, Untouched, ToldWhole, ToldOnly
  <2>3. DOMAIN told' = DOMAIN told
    BY DEF Untouched
  <2>4. QED
    BY <2>2, <2>3 DEF MeaningInv
<1>5. QED
  BY <1>1, <1>3, <1>4

\* All resources are graphed, and the triples are inserted or not.
LEMMA EndingKeeps ==
  ASSUME RdfInv, EndRdf \/ InsertTriples \/ InsertFails, UNCHANGED mergeVars
  PROVE  RdfInv'
<1>1. Untouched
  BY DEF Untouched, EndRdf, InsertTriples, InsertFails, mergeVars
<1>2. RdfTypeOK'
  <2>1. RdfTypeOK
    BY DEF RdfInv
  <2>2. QED
    BY <1>1, <2>1 DEF RdfTypeOK, Untouched, EndRdf, InsertTriples, InsertFails
<1>3. QED
  BY <1>1, <1>2, GraphStays DEF RdfInv

\* Nothing changes.
LEMMA RdfStays ==
  ASSUME RdfInv, UNCHANGED <<mergeVars, rdfVars>>
  PROVE  RdfInv'
<1>1. Untouched /\ rdf' = rdf /\ stored' = stored
  BY DEF Untouched, mergeVars, rdfVars
<1>2. RdfTypeOK'
  BY <1>1 DEF RdfInv, RdfTypeOK, Untouched
<1>3. QED
  BY <1>1, <1>2, GraphStays DEF RdfInv

\* Until the resources are graphed nothing is, but for the scan itself.
Bare == graphed = 0 /\ DOMAIN told = {} /\ DOMAIN cache = {} /\ todo = <<>>

\* The merge ends before the conversion starts.
LEMMA MergingKeepsRdf ==
  ASSUME MergeInv, RdfInv, [MergeNext]_mergeVars, UNCHANGED rdfVars
  PROVE  RdfInv'
<1>1. CASE rdf = "none"
  <2>1. UNCHANGED <<rdf, triples, fresh, cache, graphed, todo, told, stored>>
    BY DEF rdfVars
  <2>2. Bare /\ triples = {}
    BY <1>1 DEF RdfInv, RdfTypeOK, Bare
  <2>3. RdfTypeOK'
    BY <1>1, <2>1 DEF RdfInv, RdfTypeOK
  <2>4. CallsInv'
    BY <2>1 DEF RdfInv, CallsInv
  <2>5. NodesInv' /\ ResourcesInv' /\ MeaningInv'
    BY <2>1, <2>2 DEF Bare, NodesInv, ResourcesInv, MeaningInv
  <2>6. QED
    BY <2>3, <2>4, <2>5 DEF RdfInv
<1>2. CASE rdf # "none"
  <2>1. UNCHANGED mergeVars
    BY <1>2, MergedIsFinal DEF RdfInv, RdfTypeOK
  <2>2. QED
    BY <2>1, RdfStays
<1>3. QED
  BY <1>1, <1>2

\* The triples of the scan and of its errors are of a blank node.
LEMMA StartRdfKeeps ==
  ASSUME MergeInv, RdfInv, StartRdf, UNCHANGED mergeVars
  PROVE  RdfInv'
<1>1. /\ RdfTypeOK /\ rdf = "none" /\ phase = "merged"
      /\ rdf' = "resources" /\ fresh' = fresh + 1
      /\ UNCHANGED <<cache, graphed, todo, told, stored, merged, phase>>
  BY DEF RdfInv, StartRdf, NewNode, mergeVars
<1>2. Bare /\ fresh \in Nat /\ stored = {}
  BY <1>1 DEF Bare, RdfTypeOK
<1>3. Len(merged) \in Nat
  BY <1>1, MergedFacts
<1>4. RdfTypeOK'
  BY <1>1, <1>2, <1>3 DEF RdfTypeOK, Bare
<1>5. CallsInv'
  BY <1>1 DEF RdfInv, CallsInv
<1>6. \A t \in triples' : t[1] = <<"bnode", fresh>>
  BY DEF StartRdf, BNode
<1>7. NodesInv'
  <2>1. \A t \in triples' : Blank(t[1])'
    BY <1>1, <1>2, <1>6 DEF Blank
  <2>2. QED
    BY <1>1, <1>2, <2>1 DEF NodesInv, Bare
<1>8. ResourcesInv' /\ MeaningInv'
  BY <1>1, <1>2 DEF ResourcesInv, MeaningInv, Bare
<1>9. QED
  BY <1>4, <1>5, <1>7, <1>8 DEF RdfInv

\* The next resource, which has an id of its own, is told its links.
LEMMA ResourceToRdfKeeps ==
  ASSUME MergeInv, RdfInv, ResourceToRdf, UNCHANGED mergeVars
  PROVE  RdfInv'
<1>1. PICK r, u, list : r = merged[graphed + 1] /\ u = Uri(r.id) /\ list = r.links
  OBVIOUS
<1>2. PICK more : more = {<<u, "rdf:type", Uri(r.type)>>, <<u, "id", Literal(r.id)>>}
  OBVIOUS
<1>3. /\ rdf = "resources" /\ todo = <<>> /\ graphed < Len(merged)
      /\ triples' = triples \cup more /\ todo' = Calls(u, list)
      /\ told' = Put(told, u, list) /\ graphed' = graphed + 1
      /\ UNCHANGED <<merged, phase, rdf, fresh, cache, stored>>
  <2>1. /\ triples' = triples \cup more /\ todo' = Calls(u, list)
        /\ told' = Put(told, u, list)
    BY <1>1, <1>2 DEF ResourceToRdf
  <2>2. QED
    BY <2>1 DEF ResourceToRdf, mergeVars
<1>4. RdfTypeOK /\ CallsInv /\ NodesInv /\ ResourcesInv /\ MeaningInv
  BY DEF RdfInv
<1>5. phase = "merged" /\ graphed \in Nat /\ Len(merged) \in Nat
  BY <1>3, <1>4, MergedFacts DEF RdfTypeOK
<1>6. graphed + 1 \in 1..Len(merged) /\ 1..graphed \subseteq 1..Len(merged)
  BY <1>3, <1>5
<1>7. list \in Seq(Links)
  BY <1>1, <1>5, <1>6, MergedFacts
<1>8. u \notin DOMAIN told /\ \A t \in triples : t[1] # u
  <2>1. \A x, y : <<"bnode", x>> # <<"uri", y>>
    OBVIOUS
  <2>2. ~Blank(u)
    BY <1>1, <2>1 DEF Blank, Uri
  <2>3. ASSUME NEW n \in 1..graphed, u = Uri(merged[n].id)
        PROVE  FALSE
    <3>1. \A x, y : <<"uri", x>> = <<"uri", y>> => x = y
      OBVIOUS
    <3>2. merged[n].id = merged[graphed + 1].id
      BY <1>1, <2>3, <3>1 DEF Uri
    <3>3. n \in 1..Len(merged) /\ n # graphed + 1
      BY <1>5, <1>6
    <3>4. QED
      BY <1>5, <1>6, <3>2, <3>3, MergedFacts
  <2>4. u \notin DOMAIN told
    BY <1>4, <2>2, <2>3 DEF NodesInv
  <2>5. QED
    BY <1>4, <2>2, <2>4 DEF NodesInv
<1>9. /\ DOMAIN told' = DOMAIN told \cup {u} /\ told'[u] = list
      /\ \A node \in DOMAIN told : told'[node] = told[node]
  BY <1>3, <1>8 DEF Put
<1>10. Grows
  BY <1>3, <1>9 DEF Grows
<1>11. /\ todo' \in Seq(ToSet(todo'))
       /\ ToSet(todo') = {[subj |-> u, link |-> list[i]] : i \in DOMAIN list}
  <2>1. /\ Calls(u, list) \in Seq(ToSet(Calls(u, list)))
        /\ ToSet(Calls(u, list)) = {[subj |-> u, link |-> list[i]] : i \in DOMAIN list}
    BY <1>7, CallsOf
  <2>2. QED
    BY <1>3, <2>1
<1>12. RdfTypeOK'
  BY <1>3, <1>4, <1>5, <1>6 DEF RdfTypeOK
<1>13. CallsInv'
  <2>1. ASSUME NEW q \in ToSet(todo')
        PROVE  /\ q = [subj |-> q.subj, link |-> q.link]
               /\ q.subj \in DOMAIN told'
               /\ \E i \in DOMAIN told'[q.subj] : told'[q.subj][i] = q.link
    <3>1. PICK i \in DOMAIN list : q = [subj |-> u, link |-> list[i]]
      BY <1>11, <2>1
    <3>2. QED
      BY <1>9, <3>1
  <2>2. QED
    BY <1>11, <2>1 DEF CallsInv
<1>14. NodesInv'
  <2>1. \A node : Blank(node)' <=> Blank(node)
    BY <1>3 DEF Blank
  <2>2. \A t \in triples' : t[1] \in DOMAIN told' \/ Blank(t[1])'
    <3>1. \A t \in more : t[1] = u
      BY <1>2
    <3>2. QED
      BY <1>3, <1>4, <1>9, <2>1, <3>1 DEF NodesInv
  <2>3. ASSUME NEW node \in DOMAIN told'
        PROVE  /\ told'[node] \in Seq(Links)
               /\ Blank(node)' \/ \E n \in 1..graphed' : node = Uri(merged'[n].id)
    <3>1. CASE node = u
      <4>1. graphed + 1 \in 1..graphed' /\ u = Uri(merged'[graphed + 1].id)
        BY <1>1, <1>3, <1>5
      <4>2. QED
        BY <1>7, <1>9, <3>1, <4>1
    <3>2. CASE node \in DOMAIN told
      <4>1. \A n \in 1..graphed : n \in 1..graphed' /\ merged'[n] = merged[n]
        BY <1>3, <1>5
      <4>2. QED
        BY <1>4, <1>9, <2>1, <3>2, <4>1 DEF NodesInv
    <3>3. QED
      BY <1>9, <3>1, <3>2
  <2>4. ASSUME NEW id \in DOMAIN cache'
        PROVE  \E tag \in DOMAIN TagId : TagId[tag] = id /\ IsTag(cache'[id], tag, triples')
    BY <1>3, <1>4, <2>4 DEF NodesInv, IsTag
  <2>5. QED
    BY <2>2, <2>3, <2>4 DEF NodesInv, Uri
<1>15. ResourcesInv'
  <2>1. ASSUME NEW n \in 1..graphed'
        PROVE  /\ Uri(merged'[n].id) \in DOMAIN told'
               /\ told'[Uri(merged'[n].id)] = merged'[n].links
               /\ <<Uri(merged'[n].id), "rdf:type", Uri(merged'[n].type)>> \in triples'
    <3>1. CASE n = graphed + 1
      BY <1>1, <1>2, <1>3, <1>9, <3>1
    <3>2. CASE n \in 1..graphed
      BY <1>3, <1>4, <1>9, <3>2 DEF ResourcesInv
    <3>3. QED
      BY <1>3, <1>5, <3>1, <3>2
  <2>2. QED
    BY <2>1 DEF ResourcesInv, Uri
<1>16. ASSUME NEW node \in DOMAIN told
       PROVE  ToldWhole(node)' /\ ToldOnly(node)'
  <2>1. ToldWhole(node) /\ ToldOnly(node)
    BY <1>4 DEF MeaningInv
  <2>2. ToSet(todo) = {}
    BY <1>3 DEF ToSet
  <2>3. PICK c : c = u
    OBVIOUS
  <2>4. ToldWhole(node)'
    BY <1>10, <2>1, <2>2, WholeStays
  <2>5. PICK own : own = told[node]
    OBVIOUS
  <2>6. \A t \in triples' \ triples :
          t[1] = node => \/ t[2] \in {"rdf:type", "id"}
                         \/ \E i \in DOMAIN own : Means(t, own[i], triples)'
    BY <1>2, <1>3
  <2>7. ToldOnly(node)'
    BY <1>10, <2>1, <2>5, <2>6, OnlyStays
  <2>8. QED
    BY <2>4, <2>7
<1>17. ToldWhole(u)' /\ ToldOnly(u)'
  <2>1. \A i \in DOMAIN told'[u] : [subj |-> u, link |-> told'[u][i]] \in ToSet(todo')
    BY <1>9, <1>11
  <2>2. \A t \in triples' : t[1] = u => t[2] \in {"rdf:type", "id"}
    BY <1>2, <1>3, <1>8
  <2>3. QED
    BY <2>1, <2>2 DEF ToldWhole, ToldOnly
<1>18. MeaningInv'
  BY <1>9, <1>16, <1>17 DEF MeaningInv
<1>19. QED
  BY <1>12, <1>13, <1>14, <1>15, <1>18 DEF RdfInv

\* No step leaves the invariant.
LEMMA RdfStep ==
  ASSUME MergeInv, RdfInv,
         \/ [MergeNext]_mergeVars /\ UNCHANGED rdfVars
         \/ RdfNext /\ UNCHANGED mergeVars
  PROVE  RdfInv'
<1>1. CASE [MergeNext]_mergeVars /\ UNCHANGED rdfVars
  BY <1>1, MergingKeepsRdf
<1>2. CASE RdfNext /\ UNCHANGED mergeVars
  <2>1. CASE StartRdf
    BY <1>2, <2>1, StartRdfKeeps
  <2>2. CASE ResourceToRdf
    BY <1>2, <2>2, ResourceToRdfKeeps
  <2>3. ASSUME NEW call \in ToSet(todo),
               \/ ValueToRdf(call.subj, call.link)
               \/ MultiToRdf(call.subj, call.link)
               \/ TagToRdf(call.subj, call.link)
        PROVE  RdfInv'
    BY <1>2, <2>3, ValueToRdfKeeps, MultiToRdfKeeps, TagToRdfKeeps
  <2>4. CASE EndRdf \/ InsertTriples \/ InsertFails
    BY <1>2, <2>4, EndingKeeps
  <2>5. QED
    BY <1>2, <2>1, <2>2, <2>3, <2>4 DEF RdfNext
<1>3. QED
  BY <1>1, <1>2

\* A triple store that has been written has each resource with its links.
LEMMA TellsLinks == MergeInv /\ RdfInv => RdfTellsLinks
<1> SUFFICES ASSUME MergeInv, RdfInv, rdf = "written"
             PROVE  RdfTellsLinks
  BY DEF RdfTellsLinks
<1>1. /\ phase = "merged" /\ graphed = Len(merged) /\ todo = <<>> /\ stored = triples
  BY DEF RdfInv, RdfTypeOK
<1>2. ToSet(todo) = {}
  BY <1>1 DEF ToSet
<1>3. DOMAIN merged = 1..graphed
  BY <1>1, MergedFacts
<1>4. \A n \in DOMAIN merged :
        /\ <<Uri(merged[n].id), "rdf:type", Uri(merged[n].type)>> \in stored
        /\ Uri(merged[n].id) \in DOMAIN told
        /\ told[Uri(merged[n].id)] = merged[n].links
  BY <1>1, <1>3 DEF RdfInv, ResourcesInv
<1>5. \A node \in DOMAIN told :
        /\ \A i \in DOMAIN told[node] :
             \E t \in stored : t[1] = node /\ Means(t, told[node][i], stored)
        /\ \A t \in stored :
             t[1] = node /\ t[2] \notin {"rdf:type", "id"} =>
               \E i \in DOMAIN told[node] : Means(t, told[node][i], stored)
  <2>1. ASSUME NEW node \in DOMAIN told
        PROVE  ToldWhole(node) /\ ToldOnly(node)
    BY DEF RdfInv, MeaningInv
  <2>2. QED
    BY <1>1, <1>2, <2>1 DEF ToldWhole, ToldOnly
<1>6. QED
  BY <1>4, <1>5 DEF RdfTellsLinks

-----------------------------------------------------------------------------
(* The programs together *)

\* What holds in every state of a run.
GraphInv == MergeInv /\ ErrorsInv /\ ToLpgInv /\ WriteInv /\ HyperInv /\ RdfInv

\* It holds at the start.
LEMMA GraphInitial == Init => GraphInv
<1> SUFFICES ASSUME Init PROVE GraphInv
  OBVIOUS
<1>1. MergeInit /\ ToLpgInit /\ LpgInit /\ HyperInit /\ RdfInit
  BY DEF Init
<1>2. MergeInv /\ ToLpgInv /\ WriteInv /\ HyperInv /\ RdfInv
  BY <1>1, MergeInitial, ToLpgInitial, WriteInit, HyperInitial, RdfInitial
<1>3. ErrorsInv
  BY <1>1 DEF MergeInit, ErrorsInv
<1>4. QED
  BY <1>2, <1>3 DEF GraphInv

\* Each part takes steps of its own or stays as it is.
LEMMA StepsOfParts ==
  ASSUME [Next]_vars
  PROVE  /\ [MergeNext]_mergeVars
         /\ \/ [MergeNext]_mergeVars /\ UNCHANGED <<toLpgVars, lpgVars>>
            \/ LpgNext /\ UNCHANGED mergeVars
         /\ [WriteToNeptune \/ WriteNext]_lpgVars
         /\ \/ [MergeNext]_mergeVars /\ UNCHANGED hyperVars
            \/ HyperNext /\ UNCHANGED mergeVars
         /\ \/ [MergeNext]_mergeVars /\ UNCHANGED rdfVars
            \/ RdfNext /\ UNCHANGED mergeVars
<1>1. CASE MergeNext /\ UNCHANGED <<toLpgVars, lpgVars, hyperVars, rdfVars>>
  BY <1>1
<1>2. CASE LpgNext /\ UNCHANGED <<mergeVars, hyperVars, rdfVars>>
  <2>1. [WriteToNeptune \/ WriteNext]_lpgVars
    BY <1>2 DEF LpgNext
  <2>2. QED
    BY <1>2, <2>1
<1>3. CASE HyperNext /\ UNCHANGED <<mergeVars, toLpgVars, lpgVars, rdfVars>>
  BY <1>3
<1>4. CASE RdfNext /\ UNCHANGED <<mergeVars, toLpgVars, lpgVars, hyperVars>>
  BY <1>4
<1>5. CASE UNCHANGED vars
  BY <1>5 DEF vars
<1>6. QED
  BY <1>1, <1>2, <1>3, <1>4, <1>5 DEF Next

\* No step leaves the invariant.
LEMMA GraphStep == GraphInv /\ [Next]_vars => GraphInv'
<1> SUFFICES ASSUME GraphInv, [Next]_vars PROVE GraphInv'
  OBVIOUS
<1>1. MergeInv /\ ErrorsInv /\ ToLpgInv /\ WriteInv /\ HyperInv /\ RdfInv
  BY DEF GraphInv
<1>2. MergeInv' /\ ErrorsInv'
  BY <1>1, StepsOfParts, MergeStep, ErrorsStep
<1>3. ToLpgInv'
  BY <1>1, StepsOfParts, ToLpgStep
<1>4. WriteInv'
  BY <1>1, StepsOfParts, WriteStep DEF ToLpgInv, LpgTypeOK
<1>5. HyperInv'
  BY <1>1, StepsOfParts, HyperStep
<1>6. RdfInv'
  BY <1>1, StepsOfParts, RdfStep
<1>7. QED
  BY <1>2, <1>3, <1>4, <1>5, <1>6 DEF GraphInv

LEMMA GraphInvariant == Spec => []GraphInv
  BY GraphInitial, GraphStep, PTL DEF Spec

-----------------------------------------------------------------------------
(* Results *)

\* The merge does not depend on the order in which graph sets come, loses no link
\* that a copy of the winning type told, and is refused if and only if versions
\* differ, no type of a resource wins, or a resource with copies has two links of
\* one predicate, be it in two copies or in one.
THEOREM MergeIsAsTold == Spec => []MergedAsTold
<1>1. GraphInv => MergedAsTold
  BY MergeInvIsTold DEF GraphInv
<1>2. QED
  BY <1>1, GraphInvariant, PTL

\* When the write returns, every vertex that was listed is stored, and every edge.
THEOREM WrittenWhole == Spec => []WrittenIsListed
<1>1. GraphInv => WrittenIsListed
  BY DEF GraphInv, WriteInv, BatchInv, ListsInv, WrittenIsListed
<1>2. QED
  BY <1>1, GraphInvariant, PTL

\* Also after a failed write, every edge stored was listed and joins stored vertices.
THEOREM EdgesAreJoined == Spec => []EdgesJoinVertices
<1>1. GraphInv => EdgesJoinVertices
  BY DEF GraphInv, WriteInv
<1>2. QED
  BY <1>1, GraphInvariant, PTL

\* A stored vertex was listed, or was made up for the end of an edge for which none
\* was.
THEOREM StoredAreListed == Spec => []VerticesAreListed
<1>1. GraphInv => VerticesAreListed
  BY DEF GraphInv, WriteInv
<1>2. QED
  BY <1>1, GraphInvariant, PTL

\* A write that returned has put every merged resource and every link between
\* resources, however deep it is nested, into the database.
THEOREM MergedIsWritten == Spec => []WrittenIsMerged
<1>1. GraphInv => WrittenIsMerged
  BY WrittenMerged DEF GraphInv
<1>2. QED
  BY <1>1, GraphInvariant, PTL

\* A foreign key is the primary key of the row that it is meant for, whichever of the
\* two is written first.
THEOREM KeysMeetRows == Spec => []ForeignKeysMeetRows
<1>1. GraphInv => ForeignKeysMeetRows
  BY KeysMeet DEF GraphInv
<1>2. QED
  BY <1>1, GraphInvariant, PTL

\* Each merged resource can be read back from the triples, with its links and no
\* others, and so can each of its multi links.
THEOREM RdfIsTold == Spec => []RdfTellsLinks
<1>1. GraphInv => RdfTellsLinks
  BY TellsLinks DEF GraphInv
<1>2. QED
  BY <1>1, GraphInvariant, PTL
=============================================================================
