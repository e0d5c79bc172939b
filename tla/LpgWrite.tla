------------------------------ MODULE LpgWrite ------------------------------
(***************************************************************************)
(* The merged graph set as a labelled property graph (to_neptune_lpg), one *)
(* link at a time, and its write by GremlinWrite.                          *)
(***************************************************************************)
EXTENDS GraphMerge, GremlinWrite

CONSTANT Nested   \* link -> itself and the links nested in it

ASSUME NestedAssumption ==
    \A l \in Links : Nested[l] = {l} \cup UNION {Nested[m] : m \in ToSet(l.sub)}

ASSUME TagsAssumption ==
    \A l \in Links : l.kind = "tag" => <<l.pred, l.obj>> \in DOMAIN TagId

(* "stub" only stands for what Neptune calls the end of an edge.           *)
ASSUME LabelsAssumption ==
    /\ \A run \in Runs : \A r \in ResourcesOf(run) : ParseArn[r.type] # "stub"
    /\ \A label \in {"metadata", "error", "tag"} : ParseArn[label] # "stub"

VARIABLES
    toLpg,       \* where to_neptune_lpg is
    graph,       \* [vertices, edges], lists that grow
    converted,   \* how many resources are in them
    stack        \* the links of the next one that are not yet, first to last

toLpgVars == <<toLpg, graph, converted, stack>>

ToLpgInit ==
    /\ toLpg = "none" /\ converted = 0 /\ stack = <<>>
    /\ graph = [vertices |-> <<>>, edges |-> <<>>]

Metadata == <<"scan_id">>

ScanName == <<"name:version">>

LinksOf(n) == IF n \in DOMAIN merged THEN merged[n].links ELSE <<>>

(* The vertex of an error is listed twice, and its edge starts at a name   *)
(* that no vertex has.                                                     *)
StartLpg ==
    /\ toLpg = "none" /\ phase = "merged"
    /\ graph' = [vertices |-> <<Vertex(Metadata, "metadata")>>
                   \o [i \in 1..2 * Len(errors) |->
                         Vertex(<<"error", (i + 1) \div 2>>, "error")],
                 edges |-> [i \in DOMAIN errors |->
                              Edge("generated", ScanName, <<"error", i>>)]]
    /\ toLpg' = "resources" /\ stack' = LinksOf(1)
    /\ UNCHANGED converted

Tag(l) == <<TagId[<<l.pred, l.obj>>]>>

EdgeOf(from, l) ==
    CASE l.kind = "resource"  -> <<Edge("resource_link", from, <<l.obj>>)>>
      [] l.kind = "transient" ->
           <<Edge("transient_resource_link", from, <<l.obj>>)>>
      [] l.kind = "tag"       -> <<Edge("tagged", from, Tag(l))>>
      [] OTHER                -> <<>>

(* A tag has one vertex, however many resources carry it.                  *)
NewVertices(l) ==
    IF l.kind = "tag" /\ \A v \in ToSet(graph.vertices) : v.id # Tag(l)
    THEN <<Vertex(Tag(l), "tag")>> ELSE <<>>

(* A multi link adds what its own links add, from the resource's vertex.   *)
LinkToLpg ==
    /\ toLpg = "resources" /\ stack # <<>>
    /\ LET l == Head(stack)
       IN  /\ graph' = [vertices |-> graph.vertices \o NewVertices(l),
                        edges |-> graph.edges
                                    \o EdgeOf(<<merged[converted + 1].id>>, l)]
           /\ stack' = l.sub \o Tail(stack)
    /\ UNCHANGED <<toLpg, converted>>

ResourceToLpg ==
    /\ toLpg = "resources" /\ stack = <<>> /\ converted < Len(merged)
    /\ LET r == merged[converted + 1]
       IN  graph' = [graph EXCEPT !.vertices = Append(@, Vertex(<<r.id>>, r.type))]
    /\ converted' = converted + 1
    /\ stack' = LinksOf(converted + 2)
    /\ UNCHANGED toLpg

Identify ==
    /\ toLpg = "resources" /\ converted = Len(merged)
    /\ graph' = [graph EXCEPT !.edges = @ \o
                   [i \in DOMAIN graph.vertices |->
                      Edge("identified_resource", Metadata, graph.vertices[i].id)]]
    /\ toLpg' = "done"
    /\ UNCHANGED <<converted, stack>>

WriteToNeptune ==
    /\ toLpg = "done"
    /\ WriteGraph(graph.vertices, graph.edges)

ToLpgNext == StartLpg \/ LinkToLpg \/ ResourceToLpg \/ Identify

LpgNext ==
    \/ ToLpgNext /\ UNCHANGED lpgVars
    \/ (WriteToNeptune \/ WriteNext) /\ UNCHANGED toLpgVars

-----------------------------------------------------------------------------
(* A write that returned has put every resource of the merged set into the *)
(* database as a vertex of its own type, and every link between resources, *)
(* also one nested in a multi link, as an edge between the two; a vertex   *)
(* made up for the end of an edge stands for a resource that was not       *)
(* scanned, or for the name of the scan.                                   *)
WrittenIsMerged ==
    lpg = "written" =>
      /\ \A n \in DOMAIN merged :
           LET r == merged[n]
           IN  /\ Vertex(<<r.id>>, ParseArn[r.type]) \in store.vertices
               /\ \A l \in UNION {Nested[k] : k \in ToSet(r.links)} :
                    l.kind \in {"resource", "transient"} =>
                      \E e \in store.edges :
                        e.from = <<r.id>> /\ e.to = <<l.obj>>
      /\ \A v \in store.vertices : v.label = "stub" =>
           /\ v.id # Metadata
           /\ \A n \in DOMAIN merged : v.id # <<merged[n].id>>
=============================================================================
