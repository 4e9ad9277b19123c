------------------------- MODULE MCRepoTransaction -------------------------
(* Every mix of three edits. *)
EXTENDS RepoTransaction
=============================================================================
