------------------------------ MODULE RdfGraph ------------------------------
(***************************************************************************)
(* The merged graph set as RDF triples <<subject, predicate, object>>      *)
(* (to_rdf), one link at a time, written to a file for the bulk loader or  *)
(* inserted into Neptune by one request (write_to_neptune_rdf).  A node is *)
(* a URI or a blank node; the cache keeps one blank node for each tag.     *)
(* The numbers in the metadata of the scan are left out.                   *)
(***************************************************************************)
EXTENDS GraphMerge

VARIABLES
    rdf,       \* where the conversion and the write are
    triples,   \* the rdflib Graph
    fresh,     \* the number of the next blank node
    cache,     \* node_cache: id of a tag -> node; a URI is the same anyhow
    graphed,   \* how many resources are in it
    todo,      \* the links of the last one that are not yet: [subj, link]
    told,      \* node -> the links that to_rdf was called with for it; only the
               \*   property reads it
    stored     \* the triples of this scan in the database

rdfVars == <<rdf, triples, fresh, cache, graphed, todo, told, stored>>

Uri(id) == <<"uri", id>>

Literal(value) == <<"literal", value>>

BNode == <<"bnode", fresh>>

\* Slip: the node is used again.
SameNode == UNCHANGED fresh

NewNode == fresh' = fresh + 1

-----------------------------------------------------------------------------
RdfInit ==
    /\ rdf = "none" /\ triples = {} /\ fresh = 1
    /\ cache = [id \in {} |-> BNode]
    /\ graphed = 0 /\ todo = <<>> /\ stored = {}
    /\ told = [node \in {} |-> <<>>]

StartRdf ==
    /\ rdf = "none" /\ phase = "merged"
    /\ triples' = {<<BNode, "rdf:type", Uri("metadata")>>} \cup
                  {<<BNode, "error", Literal(e)>> : e \in ToSet(errors)}
    /\ NewNode
    /\ rdf' = "resources"
    /\ UNCHANGED <<cache, graphed, todo, told, stored>>

Calls(subj, list) == [i \in DOMAIN list |-> [subj |-> subj, link |-> list[i]]]

ResourceToRdf ==
    /\ rdf = "resources" /\ todo = <<>> /\ graphed < Len(merged)
    /\ LET r == merged[graphed + 1]
           node == Uri(r.id)
       IN  /\ triples' = triples \cup {<<node, "rdf:type", Uri(r.type)>>,
                                       <<node, "id", Literal(r.id)>>}
           /\ todo' = Calls(node, r.links)
           /\ told' = Put(told, node, r.links)
    /\ graphed' = graphed + 1
    /\ UNCHANGED <<rdf, fresh, cache, stored>>

ToRdf(subj, l) ==
    /\ rdf = "resources" /\ todo # <<>>
    /\ [subj |-> subj, link |-> l] = Head(todo)
    /\ UNCHANGED <<rdf, graphed, stored>>

ValueToRdf(subj, l) ==
    /\ ToRdf(subj, l) /\ l.kind \in {"simple", "resource", "transient"}
    /\ LET value == IF l.kind = "simple" THEN Literal(l.obj) ELSE Uri(l.obj)
       IN  triples' = triples \cup {<<subj, l.pred, value>>}
    /\ todo' = Tail(todo)
    /\ UNCHANGED <<fresh, cache, told>>

(* The links of a multi link are next, from a node of its own.             *)
MultiToRdf(subj, l) ==
    /\ ToRdf(subj, l) /\ l.kind = "multi"
    /\ triples' = triples \cup {<<BNode, "rdf:type", Uri(l.pred)>>,
                                <<subj, l.pred, BNode>>}
    /\ NewNode
    /\ todo' = Calls(BNode, l.sub) \o Tail(todo)
    /\ told' = Put(told, BNode, l.sub)
    /\ UNCHANGED cache

TagToRdf(subj, l) ==
    /\ ToRdf(subj, l) /\ l.kind = "tag"
    /\ LET id == TagId[<<l.pred, l.obj>>]
       IN  \/ /\ id \in DOMAIN cache
              /\ triples' = triples \cup {<<subj, "tag", cache[id]>>}
              /\ UNCHANGED <<fresh, cache>>
           \/ /\ id \notin DOMAIN cache
              /\ triples' = triples \cup {<<BNode, "key", Literal(l.pred)>>,
                                          <<BNode, "value", Literal(l.obj)>>,
                                          <<BNode, "rdf:type", Uri("tag")>>,
                                          <<subj, "tag", BNode>>}
              /\ cache' = Put(cache, id, BNode)
              /\ NewNode
    /\ todo' = Tail(todo)
    /\ UNCHANGED told

EndRdf ==
    /\ rdf = "resources" /\ todo = <<>> /\ graphed = Len(merged)
    /\ rdf' = "converted"
    /\ UNCHANGED <<triples, fresh, cache, graphed, todo, told, stored>>

InsertTriples ==
    /\ rdf = "converted"
    /\ stored' = stored \cup triples
    /\ rdf' = "written"
    /\ UNCHANGED <<triples, fresh, cache, graphed, todo, told>>

InsertFails ==
    /\ rdf = "converted"
    /\ rdf' = "raised"
    /\ UNCHANGED <<triples, fresh, cache, graphed, todo, told, stored>>

RdfNext ==
    \/ StartRdf \/ ResourceToRdf
    \/ \E call \in ToSet(todo) :
         \/ ValueToRdf(call.subj, call.link)
         \/ MultiToRdf(call.subj, call.link)
         \/ TagToRdf(call.subj, call.link)
    \/ EndRdf \/ InsertTriples \/ InsertFails

-----------------------------------------------------------------------------
IsTag(node, tag, known) ==
    /\ <<node, "key", Literal(tag[1])>> \in known
    /\ <<node, "value", Literal(tag[2])>> \in known

Means(t, l, known) ==
    \/ l.kind = "simple" /\ t[2] = l.pred /\ t[3] = Literal(l.obj)
    \/ l.kind \in {"resource", "transient"} /\ t[2] = l.pred /\ t[3] = Uri(l.obj)
    \/ /\ l.kind = "multi" /\ t[2] = l.pred
       /\ t[3] \in DOMAIN told /\ told[t[3]] = l.sub
    \/ /\ l.kind = "tag" /\ t[2] = "tag"
       /\ \E tag \in DOMAIN TagId :
            TagId[tag] = TagId[<<l.pred, l.obj>>] /\ IsTag(t[3], tag, known)

(* Each resource can be read back from the triples: it has all of its      *)
(* links and no others, and so has each of its multi links, several of     *)
(* which may have one predicate or be nested.  Of tags with one            *)
(* "key:value" it may have any.                                            *)
RdfTellsLinks ==
    rdf = "written" =>
      /\ \A n \in DOMAIN merged :
           LET r == merged[n]
           IN  /\ <<Uri(r.id), "rdf:type", Uri(r.type)>> \in stored
               /\ Uri(r.id) \in DOMAIN told /\ told[Uri(r.id)] = r.links
      /\ \A node \in DOMAIN told :
           LET list == told[node]
               own == {t \in stored : t[1] = node}
           IN  /\ \A i \in DOMAIN list : \E t \in own : Means(t, list[i], stored)
               /\ \A t \in own : t[2] \notin {"rdf:type", "id"} =>
                    \E i \in DOMAIN list : Means(t, list[i], stored)
=============================================================================
