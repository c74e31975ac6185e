--------------------------- MODULE MCServerRegistry ---------------------------
(* Model values for ServerRegistry.  Every insert needs a uuid that no row *)
(* has, so Cardinality(Uuids) + MaxDeletes ids are all a run can use.      *)
EXTENDS ServerRegistry

ASSUME EnoughIds == Cardinality(Uuids) + MaxDeletes <= MaxId

\* Admins hide servers without renaming them.
HideForm == [name : {Keep}, hidden : {TRUE}]
=============================================================================
