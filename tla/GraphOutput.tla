----------------------------- MODULE GraphOutput -----------------------------
(***************************************************************************)
(* From the graph sets of the accounts to what readers see: the merge, and *)
(* then one of the programs that turn the merged set into vertices and     *)
(* edges or into triples (aws2neptune, aws2n) or into tables (json2hyper). *)
(***************************************************************************)
EXTENDS LpgWrite, HyperExport, RdfGraph

vars == <<mergeVars, toLpgVars, lpgVars, hyperVars, rdfVars>>

Init == MergeInit /\ ToLpgInit /\ LpgInit /\ HyperInit /\ RdfInit

(* One program is run: the others have not started.                        *)
Next ==
    \/ MergeNext /\ UNCHANGED <<toLpgVars, lpgVars, hyperVars, rdfVars>>
    \/ /\ hyper = "none" /\ rdf = "none" /\ LpgNext
       /\ UNCHANGED <<mergeVars, hyperVars, rdfVars>>
    \/ /\ toLpg = "none" /\ rdf = "none" /\ HyperNext
       /\ UNCHANGED <<mergeVars, toLpgVars, lpgVars, rdfVars>>
    \/ /\ toLpg = "none" /\ hyper = "none" /\ RdfNext
       /\ UNCHANGED <<mergeVars, toLpgVars, lpgVars, hyperVars>>

Spec == Init /\ [][Next]_vars
=============================================================================
