---------------------------- MODULE HyperExport ----------------------------
(***************************************************************************)
(* The export of the merged graph set to relational tables (json2hyper):   *)
(* <<t>> is the table of resource type t and <<t, p>> that of its multi    *)
(* links of predicate p, "_t_p" in the code.  A key is drawn from the      *)
(* counter of a table when a resource is first met, be it as a row or as   *)
(* the target of a foreign key.  Left out are columns of scalar values and *)
(* the table of tags, which only use what is drawn here.                   *)
(***************************************************************************)
EXTENDS GraphMerge

CONSTANTS
    NormalizeName,   \* resource type or predicate -> table name
    SortsBefore,     \* the pairs of foreign key columns of which the first sorts first
    ArnTable         \* id -> the table name made of the parts of the ARN

ASSUME ColumnsAssumption ==
    \A pair \in SortsBefore : <<pair[2], pair[1]>> \notin SortsBefore

VARIABLES
    hyper,        \* where json2hyper is
    exported,     \* how many resources have their rows
    part,         \* of the next one: 0 for its own row, else the place of a link
    pk,           \* its primary key
    row,          \* the row being built: [table, id, pk, fks], fks a set of
    columns,      \*   [column, fk], and the columns it has still to get
    pk_counters,  \* table -> the last key drawn, 0 if there is none
    arns_pks,     \* id -> key
    rows          \* table_names_datas

hyperVars == <<hyper, exported, part, pk, row, columns, pk_counters, arns_pks, rows>>

NameOf(r) == NormalizeName[r.type]

Preds(list) ==
    {l.pred : l \in {l \in ToSet(list) : l.kind \in {"resource", "transient"}}}

(* build_table_defns: a table has a foreign key for each predicate of a    *)
(* resource or multi link in it, and for the parent of a multi link.       *)
TableDefns ==
    UNION {{<<<<NameOf(r)>>, Preds(r.links)>>} \cup
           {<<<<NameOf(r), l.pred>>, Preds(l.sub) \cup {NameOf(r)}>> :
              l \in {l \in ToSet(r.links) : l.kind = "multi"}} :
             r \in ToSet(merged)}

Columns(table) == UNION {d[2] : d \in {d \in TableDefns : d[1] = table}}

IsFirst(column, names) ==
    column \in names /\ \A c \in names \ {column} : <<column, c>> \in SortsBefore

-----------------------------------------------------------------------------
HyperInit ==
    /\ hyper = "none" /\ exported = 0 /\ part = 0
    /\ pk = 0 /\ row = <<>> /\ columns = {} /\ rows = {}
    /\ pk_counters = [t \in {} |-> 0]
    /\ arns_pks = [id \in {} |-> 0]

ReadJson ==
    /\ hyper = "none" /\ phase = "merged"
    /\ hyper' = "parts"
    /\ UNCHANGED <<exported, part, pk, row, columns, pk_counters, arns_pks, rows>>

LastKey(table) == IF table \in DOMAIN pk_counters THEN pk_counters[table] ELSE 0

Key(table, id) ==
    IF id \in DOMAIN arns_pks THEN arns_pks[id] ELSE LastKey(table) + 1

\* Slip: a key drawn is not remembered.
DrawAgain(table, id) ==
    /\ IF id \in DOMAIN arns_pks THEN UNCHANGED pk_counters
       ELSE pk_counters' = Put(pk_counters, table, Key(table, id))
    /\ UNCHANGED arns_pks

Draw(table, id) ==
    IF id \in DOMAIN arns_pks THEN UNCHANGED <<pk_counters, arns_pks>>
    ELSE /\ pk_counters' = Put(pk_counters, table, Key(table, id))
         /\ arns_pks' = Put(arns_pks, id, Key(table, id))

Exported == merged[exported + 1]

ExportResource ==
    /\ hyper = "parts" /\ exported < Len(merged) /\ part = 0
    /\ LET table == <<NameOf(Exported)>>
           id == <<Exported.id>>
       IN  /\ Draw(table, id)
           /\ pk' = Key(table, id)
           /\ row' = [table |-> table, id |-> id, pk |-> Key(table, id), fks |-> {}]
           /\ columns' = Columns(table)
    /\ hyper' = "columns"
    /\ UNCHANGED <<exported, part, rows>>

Multi == Exported.links[part]

(* The key of the parent goes into the first column after the primary key, *)
(* whichever that is.  Multi links nested in a multi link get no row.      *)
ExportMulti ==
    /\ hyper = "parts" /\ exported < Len(merged)
    /\ part \in DOMAIN Exported.links /\ Multi.kind = "multi"
    /\ LET table == <<NameOf(Exported), Multi.pred>>
           id == <<Exported.id, part>>
       IN  /\ Draw(table, id)
           /\ \E parent \in Columns(table) :
                /\ IsFirst(parent, Columns(table))
                /\ row' = [table |-> table, id |-> id, pk |-> Key(table, id),
                           fks |-> {[column |-> parent, fk |-> pk]}]
                /\ columns' = Columns(table) \ {parent}
    /\ hyper' = "columns"
    /\ UNCHANGED <<exported, part, pk, rows>>

OtherLink ==
    /\ hyper = "parts" /\ exported < Len(merged)
    /\ part \in DOMAIN Exported.links /\ Multi.kind # "multi"
    /\ part' = part + 1
    /\ UNCHANGED <<hyper, exported, pk, row, columns, pk_counters, arns_pks, rows>>

-----------------------------------------------------------------------------
RowLinks == IF part = 0 THEN Exported.links ELSE Multi.sub

(* The first of some links that names a resource by a predicate.           *)
Leads(list, i, pred) ==
    /\ list[i].pred = pred /\ list[i].kind \in {"resource", "transient"}
    /\ \A j \in 1..i - 1 :
         list[j].pred = pred => list[j].kind \notin {"resource", "transient"}

(* Transient links are looked at only when there are no resource links.    *)
Fills(i, column) ==
    /\ i \in DOMAIN RowLinks /\ Leads(RowLinks, i, column)
    /\ RowLinks[i].kind = "transient" =>
         \A k \in DOMAIN RowLinks : RowLinks[k].kind # "resource"

(* The table of a link's target: a resource's links name it by predicate,  *)
(* those of a multi link by the ARN of the target.                         *)
TableOf(l) == IF part = 0 THEN <<NormalizeName[l.pred]>> ELSE <<ArnTable[l.obj]>>

NextColumn(column) ==
    /\ hyper = "columns" /\ IsFirst(column, columns)
    /\ columns' = columns \ {column}
    /\ UNCHANGED <<hyper, exported, part, pk, rows>>

FillColumn(column, i) ==
    /\ NextColumn(column) /\ Fills(i, column)
    /\ LET table == TableOf(RowLinks[i])
           id == <<RowLinks[i].obj>>
       IN  /\ Draw(table, id)
           /\ row' = [row EXCEPT !.fks =
                        @ \cup {[column |-> column, fk |-> Key(table, id)]}]

LeaveNull(column) ==
    /\ NextColumn(column) /\ \A i \in DOMAIN RowLinks : ~Fills(i, column)
    /\ UNCHANGED <<row, pk_counters, arns_pks>>

EndRow ==
    /\ hyper = "columns" /\ columns = {}
    /\ rows' = rows \cup {row}
    /\ hyper' = "parts" /\ part' = part + 1
    /\ UNCHANGED <<exported, pk, row, columns, pk_counters, arns_pks>>

EndResource ==
    /\ hyper = "parts" /\ exported < Len(merged) /\ part > Len(Exported.links)
    /\ exported' = exported + 1 /\ part' = 0
    /\ UNCHANGED <<hyper, pk, row, columns, pk_counters, arns_pks, rows>>

ExportEnds ==
    /\ hyper = "parts" /\ exported = Len(merged)
    /\ hyper' = "done"
    /\ UNCHANGED <<exported, part, pk, row, columns, pk_counters, arns_pks, rows>>

HyperNext ==
    \/ ReadJson \/ ExportResource \/ ExportMulti \/ OtherLink
    \/ \E column \in columns :
         LeaveNull(column) \/ \E i \in DOMAIN RowLinks : FillColumn(column, i)
    \/ EndRow \/ EndResource \/ ExportEnds

-----------------------------------------------------------------------------
(* A column of a row names an id: that of the parent of a multi link, or   *)
(* that of the first link to a resource with its predicate.                *)
Names(r, column, id) ==
    \E n \in DOMAIN merged :
      /\ merged[n].id = r.id[1]
      /\ LET list == IF Len(r.id) = 1 THEN merged[n].links
                     ELSE merged[n].links[r.id[2]].sub
         IN  IF Len(r.id) = 2 /\ column = r.table[1] THEN id = <<r.id[1]>>
             ELSE \E i \in DOMAIN list :
                    Leads(list, i, column) /\ id = <<list[i].obj>>

ParentFirst(r) == Len(r.id) = 2 => IsFirst(r.table[1], Columns(r.table))

(* Whatever order resources come in, a foreign key is the primary key in   *)
(* the row of the resource that its column names, be that row before or    *)
(* after; for the multi links whose parent column sorts first.             *)
ForeignKeysMeetRows ==
    \A r, s \in rows : ParentFirst(r) =>
      \A f \in r.fks : Names(r, f.column, s.id) => f.fk = s.pk

(* The keys of the rows in one table are different: PKColumn, "Generic pk  *)
(* db column", and "build a primary key for this resource".                *)
PrimaryKeysDiffer ==
    \A r, s \in rows : r # s /\ r.table = s.table => r.pk # s.pk
=============================================================================
