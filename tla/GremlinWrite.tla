---------------------------- MODULE GremlinWrite ----------------------------
(***************************************************************************)
(* The batched write of a property graph over Gremlin                      *)
(* (write_to_neptune_lpg): first the vertices of a list, then the edges of *)
(* another, each batch a traversal that is sent when it is full or the     *)
(* list has ended.  What a failed write has sent stays.  Properties of     *)
(* vertices, other than their label, are left out.                         *)
(***************************************************************************)
EXTENDS Naturals, Sequences, SequencesExt

CONSTANTS
    BatchSize,   \* 100 in the code
    ParseArn     \* label -> its part that parse_arn calls the resource

ASSUME BatchSizeAssumption == BatchSize \in Nat \ {0}

VARIABLES
    vertices,   \* the list of [id, label]
    edges,      \* the list of [label, from, to]
    lpg,        \* where write_to_neptune_lpg is
    cnt,        \* how many vertices, then edges, are in batches so far
    batch,      \* the traversal built and not sent
    store       \* [vertices, edges] of this scan_id in the database

lpgVars == <<vertices, edges, lpg, cnt, batch, store>>

Vertex(id, label) == [id |-> id, label |-> label]

Edge(label, from, to) == [label |-> label, from |-> from, to |-> to]

LpgInit ==
    /\ vertices = <<>> /\ edges = <<>>
    /\ lpg = "none" /\ cnt = 0 /\ batch = <<>>
    /\ store = [vertices |-> {}, edges |-> {}]

(* A graph without vertices is refused.                                    *)
WriteGraph(vs, es) ==
    /\ lpg = "none"
    /\ vertices' = vs /\ edges' = es
    /\ lpg' = IF vs = <<>> THEN "raised" ELSE "vertices"
    /\ UNCHANGED <<cnt, batch, store>>

-----------------------------------------------------------------------------
\* Slip: what is left when the list ends is not sent.
OnlyFull(list) == cnt % BatchSize = 0

Full(list) == cnt % BatchSize = 0 \/ cnt = Len(list)

AddToBatch(list) ==
    /\ cnt < Len(list) /\ (batch = <<>> \/ ~Full(list))
    /\ batch' = Append(batch, list[cnt + 1])
    /\ cnt' = cnt + 1
    /\ UNCHANGED <<vertices, edges, lpg, store>>

(* A vertex that exists is kept, and gets the properties.                  *)
WithVertices ==
    [store EXCEPT !.vertices =
        @ \cup {Vertex(v.id, ParseArn[v.label]) :
                 v \in {v \in ToSet(batch) : \A w \in @ : w.id # v.id}}]

(* An end that does not exist is added, with a label parsed from its id:   *)
(* "stub" stands for any.                                                  *)
WithEdges ==
    LET ends == UNION {{e.from, e.to} : e \in ToSet(batch)}
        known == {v.id : v \in store.vertices}
    IN  [vertices |-> store.vertices
                        \cup {Vertex(id, "stub") : id \in ends \ known},
         edges |-> store.edges \cup ToSet(batch)]

SendVertices ==
    /\ lpg = "vertices" /\ batch # <<>> /\ Full(vertices)
    /\ store' = WithVertices /\ batch' = <<>>
    /\ UNCHANGED <<vertices, edges, lpg, cnt>>

SendEdges ==
    /\ lpg = "edges" /\ batch # <<>> /\ Full(edges)
    /\ store' = WithEdges /\ batch' = <<>>
    /\ UNCHANGED <<vertices, edges, lpg, cnt>>

(* Any error of the traversal ends the write, also one that comes after    *)
(* the database has applied it.                                            *)
SendFails ==
    /\ batch # <<>>
    /\ \/ /\ lpg = "vertices" /\ Full(vertices)
          /\ store' \in {store, WithVertices}
       \/ /\ lpg = "edges" /\ Full(edges)
          /\ store' \in {store, WithEdges}
    /\ lpg' = "raised"
    /\ UNCHANGED <<vertices, edges, cnt, batch>>

Written(list) == cnt = Len(list) /\ (batch = <<>> \/ ~Full(list))

ThenEdges ==
    /\ lpg = "vertices" /\ Written(vertices)
    /\ lpg' = "edges" /\ cnt' = 0 /\ batch' = <<>>
    /\ UNCHANGED <<vertices, edges, store>>

WriteEnds ==
    /\ lpg = "edges" /\ Written(edges)
    /\ lpg' = "written"
    /\ UNCHANGED <<vertices, edges, cnt, batch, store>>

WriteNext ==
    \/ lpg = "vertices" /\ AddToBatch(vertices)
    \/ lpg = "edges" /\ AddToBatch(edges)
    \/ SendVertices \/ SendEdges \/ SendFails
    \/ ThenEdges \/ WriteEnds
=============================================================================
