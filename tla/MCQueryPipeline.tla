--------------------------- MODULE MCQueryPipeline ---------------------------
(* Instances of QueryPipeline for TLC. *)
EXTENDS QueryPipeline

\* The second revision shortens the expiration.
Shorter == [r \in Revisions |-> IF r = 1 THEN 1 ELSE 0]

\* Only the first revision asks for notifications.
OnlyFirst == [r \in Revisions |-> r = 1]

\* Messages of the first revision are sent, and delivered up to twice; an edit
\* shortens the expiration of what they leave.
SentFirst == {m \in Messages : RevisionOf(m) = 1}
Twice == [r \in Revisions |-> 2]
=============================================================================
