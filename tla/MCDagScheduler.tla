--------------------------- MODULE MCDagScheduler ---------------------------
(* A fan-out with its join, which is an artifact task; an earlier run may  *)
(* have left a result under one of two contexts.                           *)
EXTENDS DagScheduler

Diamond == <<{}, {1}, {1}, {2, 3}>>
Left == {<<2, "changed">>}
=============================================================================
