---------------------------- MODULE MCTaskLease ----------------------------
(* Three executions: two share a process, the third is another one. *)
EXTENDS TaskLease

CONSTANTS e1, e2, e3, p, q

Three == {e1, e2, e3}
Processes == {p, q}
Shared == [e \in Three |-> IF e = e3 THEN q ELSE p]
OneAttempt == {1}
=============================================================================
