--------------------------- MODULE MCRunLifecycle ---------------------------
(* A run, a resume of it and a cancellation, in any order. *)
EXTENDS RunLifecycle

CONSTANTS run, r1, c1

NoResume == {}
OneResume == {r1}
OneCancel == {c1}
=============================================================================
