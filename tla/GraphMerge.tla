----------------------------- MODULE GraphMerge -----------------------------
(***************************************************************************)
(* The merge of the graph sets of a run (GraphSet.from_graph_sets and      *)
(* ValidatedGraphSet).  They arrive in the order in which accounts finish; *)
(* one resource may be in several of them, because accounts share it, the  *)
(* organization lists it too, or an account could not be scanned.  One     *)
(* action is one turn of a loop of the merge.                              *)
(*                                                                         *)
(* A graph set is a record [version, start, resources, errors], a resource *)
(* a record [id, type, links] and a link one of [kind, pred, obj, sub]:    *)
(* sub holds the links of a multi link, obj the value of any other.        *)
(***************************************************************************)
EXTENDS Naturals, Sequences, FiniteSets, SequencesExt

CONSTANTS
    Links,         \* the links there may be, on their own or in a multi link
    Runs,          \* the sets of graph sets that a run may have
    SpecClasses,   \* resource type -> the ResourceSpec classes of that name
    AllowClobber,  \* class -> the classes that may overwrite it
    TagId          \* <<key, value>> of a tag link -> "key:value"

(* A LinkCollection has a tuple for each kind, in this order.              *)
Rank == [simple |-> 1, multi |-> 2, tag |-> 3, resource |-> 4, transient |-> 5]

InOrder(links) ==
    \A i, j \in DOMAIN links :
        i < j => Rank[links[i].kind] <= Rank[links[j].kind]

LinkCollections == {links \in Seq(Links) : InOrder(links)}

ASSUME LinksAssumption ==
    \A l \in Links :
        /\ l.kind \in DOMAIN Rank /\ l.sub \in LinkCollections
        /\ l.kind # "multi" => l.sub = <<>>

ResourcesOf(run) == UNION {ToSet(g.resources) : g \in run}

ASSUME RunsAssumption ==
    \A run \in Runs : \A g \in run :
        /\ g.resources \in Seq(ToSet(g.resources))
        /\ g.errors \in Seq(ToSet(g.errors))
        /\ \A r \in ToSet(g.resources) : r.links \in LinkCollections

(* The ids of resources are ARNs, that of the scan has a new uuid in it.   *)
(* Tags are told apart from resources by nothing else than their ids.      *)
ASSUME IdsAssumption ==
    LET ids == {r.id : r \in UNION {ResourcesOf(run) : run \in Runs}} \cup
               {l.obj : l \in {l \in Links : l.kind \in {"resource", "transient"}}}
    IN  "scan_id" \notin ids /\ \A tag \in DOMAIN TagId : TagId[tag] \notin ids

VARIABLES
    pending,    \* graph sets still to come
    arrived,    \* graph_sets, in the order in which they came
    phase,      \* which loop of the merge is running
    at,         \* how many turns of it are done
    resources,  \* the resources and errors of the graph sets, chained
    errors,
    groups,     \* resource_ids_resources in the order of its keys: [id, copies]
    copy,       \* the copy of a resource being merged and how many of its links
    taken,      \*   have been looked at
    links,      \* merged_link_keys_links
    merged      \* the resources of the ValidatedGraphSet

mergeVars == <<pending, arrived, phase, at, resources, errors, groups, copy,
               taken, links, merged>>

MergeInit ==
    /\ pending \in Runs /\ arrived = <<>>
    /\ phase = "arriving" /\ at = 0
    /\ resources = <<>> /\ errors = <<>> /\ groups = <<>>
    /\ copy = 0 /\ taken = 0 /\ links = <<>>
    /\ merged = <<>>

Arrive(g) ==
    /\ g \in pending
    /\ pending' = pending \ {g}
    /\ arrived' = Append(arrived, g)
    /\ UNCHANGED <<phase, at, resources, errors, groups, copy, taken, links, merged>>

(* A dict with the value of one key set.                                   *)
Put(dict, key, value) ==
    [k \in DOMAIN dict \cup {key} |-> IF k = key THEN value ELSE dict[k]]

(* A loop over some number of turns has ended: the next one starts.        *)
Then(here, turns, next) ==
    /\ phase = here /\ at = turns
    /\ phase' = next /\ at' = 0
    /\ UNCHANGED <<pending, arrived, resources, errors, groups, copy, taken,
                   links, merged>>

SameVersion == \A i, j \in DOMAIN arrived : arrived[i].version = arrived[j].version

FromGraphSets ==
    /\ pending = {}
    /\ Then("arriving", 0, IF SameVersion THEN "chaining" ELSE "raised")

Chain ==
    /\ phase = "chaining" /\ at < Len(arrived)
    /\ resources' = resources \o arrived[at + 1].resources
    /\ errors' = errors \o arrived[at + 1].errors
    /\ at' = at + 1
    /\ UNCHANGED <<pending, arrived, phase, groups, copy, taken, links, merged>>

-----------------------------------------------------------------------------
(* dedupe_resources: first the copies of each resource are brought         *)
(* together, in the order in which ids first appear.                       *)

Group ==
    /\ phase = "grouping" /\ at < Len(resources)
    /\ LET r == resources[at + 1]
       IN  \/ /\ \A n \in DOMAIN groups : groups[n].id # r.id
              /\ groups' = Append(groups, [id |-> r.id, copies |-> <<r>>])
           \/ \E n \in DOMAIN groups :
              /\ groups[n].id = r.id
              /\ groups' = [groups EXCEPT ![n].copies = Append(@, r)]
    /\ at' = at + 1
    /\ UNCHANGED <<pending, arrived, phase, resources, errors, copy, taken, links,
                   merged>>

Copies == groups[at + 1].copies

Keep ==
    /\ phase = "merging" /\ at < Len(groups)
    /\ Len(Copies) = 1
    /\ merged' = Append(merged, Copies[1])
    /\ at' = at + 1
    /\ UNCHANGED <<pending, arrived, phase, resources, errors, groups, copy, taken,
                   links>>

(* merge_resources: with several types the class not among those that      *)
(* allow a class to clobber them wins, if they are all but one.            *)
Winners(types) ==
    LET all == UNION {SpecClasses[t] : t \in types}
        Allowing(c) == {d \in all : c \in AllowClobber[d]}
    IN  UNION {all \ Allowing(c) :
                 c \in {c \in UNION {AllowClobber[d] : d \in all} :
                          \E d \in all : all \ Allowing(c) = {d}}}

Types(copies) == {copies[i].type : i \in DOMAIN copies}

Wins(type, types) ==
    types = {type} \/ SpecClasses[type] \cap Winners(types) # {}

(* UnscannedAccount is the only class in any allow_clobber, so the order   *)
(* of that loop is no matter: there is at most one winner.  Both classes   *)
(* of type account allow it, and an unscanned copy wins over theirs.       *)
ASSUME ClobberAssumption ==
    /\ \A types \in SUBSET DOMAIN SpecClasses : Cardinality(Winners(types)) <= 1
    /\ Wins("unscanned", {"account", "unscanned"})
    /\ ~Wins("account", {"account", "unscanned"})

MergeResources ==
    /\ phase = "merging" /\ at < Len(groups)
    /\ Len(Copies) > 1
    /\ phase' = IF \E t \in Types(Copies) : Wins(t, Types(Copies))
                THEN "linking" ELSE "raised"
    /\ copy' = 1 /\ taken' = 0 /\ links' = <<>>
    /\ UNCHANGED <<pending, arrived, at, resources, errors, groups, merged>>

(* The next link of a copy that counts, by predicate, whatever its kind.   *)
NextLink ==
    /\ phase = "linking" /\ copy <= Len(Copies)
    /\ Wins(Copies[copy].type, Types(Copies))
    /\ taken < Len(Copies[copy].links)
    /\ taken' = taken + 1
    /\ UNCHANGED <<pending, arrived, at, resources, errors, groups, copy, merged>>

Link == Copies[copy].links[taken + 1]

(* from_links sorts the links by kind, and keeps their order in each.      *)
Insert(list, l) ==
    LET before == {i \in DOMAIN list : Rank[list[i].kind] <= Rank[l.kind]}
    IN  InsertAt(list, Cardinality(before) + 1, l)

NewLink ==
    /\ NextLink
    /\ \A i \in DOMAIN links : links[i].pred # Link.pred
    /\ links' = Insert(links, Link)
    /\ UNCHANGED phase

\* Slip: a link of the same predicate is taken for the same.
ConflictMissed ==
    /\ NextLink
    /\ \E i \in DOMAIN links : links[i].pred = Link.pred
    /\ UNCHANGED <<phase, links>>

SameLink ==
    /\ NextLink
    /\ \E i \in DOMAIN links : links[i] = Link
    /\ UNCHANGED <<phase, links>>

ConflictingLink ==
    /\ NextLink
    /\ \E i \in DOMAIN links : links[i].pred = Link.pred /\ links[i] # Link
    /\ phase' = "raised"
    /\ UNCHANGED links

NextCopy ==
    /\ phase = "linking" /\ copy <= Len(Copies)
    /\ Wins(Copies[copy].type, Types(Copies)) => taken = Len(Copies[copy].links)
    /\ copy' = copy + 1 /\ taken' = 0
    /\ UNCHANGED <<pending, arrived, phase, at, resources, errors, groups, links,
                   merged>>

EndMerge ==
    /\ phase = "linking" /\ copy > Len(Copies)
    /\ \E t \in Types(Copies) :
         /\ Wins(t, Types(Copies))
         /\ merged' = Append(merged,
                        [id |-> groups[at + 1].id, type |-> t, links |-> links])
    /\ phase' = "merging" /\ at' = at + 1
    /\ UNCHANGED <<pending, arrived, resources, errors, groups, copy, taken, links>>

(* validate_resources only prints the references it cannot resolve.        *)
MergeNext ==
    \/ \E g \in pending : Arrive(g)
    \/ FromGraphSets
    \/ Chain \/ Then("chaining", Len(arrived), "grouping")
    \/ Group \/ Then("grouping", Len(resources), "merging")
    \/ Keep \/ MergeResources
    \/ NewLink \/ SameLink \/ ConflictingLink \/ NextCopy \/ EndMerge
    \/ Then("merging", Len(groups), "merged")

-----------------------------------------------------------------------------
Scanned == UNION {ToSet(arrived[k].resources) : k \in DOMAIN arrived}

(* A resource is in more than one place of the graph sets.                 *)
Several(id) ==
    \E k, l \in DOMAIN arrived :
      \E i \in DOMAIN arrived[k].resources, j \in DOMAIN arrived[l].resources :
        /\ <<k, i>> # <<l, j>>
        /\ arrived[k].resources[i].id = id
        /\ arrived[l].resources[j].id = id

CopiesOf(id) == {r \in Scanned : r.id = id}

TypesOf(id) == {r.type : r \in CopiesOf(id)}

(* The copies that count: those of the type that wins, if there is one.    *)
Kept(id) == {r \in CopiesOf(id) : Wins(r.type, TypesOf(id))}

Told(id) == UNION {ToSet(r.links) : r \in Kept(id)}

(* No type wins, or a resource seen several times has two links of one     *)
(* predicate, in different copies or side by side in one of them.          *)
Unmergable(id) ==
    \/ Kept(id) = {}
    \/ Several(id) /\ \E k, l \in Told(id) : k.pred = l.pred /\ k # l

(* The merge does not depend on the order in which accounts finish: a      *)
(* resource seen several times gets every link that any copy of its type   *)
(* told, an account that failed anywhere is unscanned, and the merge is    *)
(* refused if and only if versions differ or some resource is unmergable,  *)
(* which copies need not contradict each other to be (EqualCopiesMerge).   *)
MergedAsTold ==
    LET ids == {r.id : r \in Scanned}
        refused == ~SameVersion \/ \E id \in ids : Unmergable(id)
    IN  /\ phase = "raised" => refused
        /\ phase = "merged" =>
             /\ ~refused
             /\ \A id \in ids : \E n \in DOMAIN merged : merged[n].id = id
             /\ \A n \in DOMAIN merged :
                  LET r == merged[n]
                  IN  /\ r.id \in ids
                      /\ r.type \in {k.type : k \in Kept(r.id)}
                      /\ TypesOf(r.id) = {"account", "unscanned"} => r.type = "unscanned"
                      /\ ToSet(r.links) = Told(r.id)
                      /\ \A m \in DOMAIN merged : merged[m].id = r.id => m = n

(* The docstring of dedupe_resources: resources "of the same type" can be  *)
(* merged if "all fields are identical".  So a refusal for another reason  *)
(* than the version shows a resource two copies of which are not equal.    *)
EqualCopiesMerge ==
    phase = "raised" /\ SameVersion => \E r, s \in Scanned : r.id = s.id /\ r # s
=============================================================================
