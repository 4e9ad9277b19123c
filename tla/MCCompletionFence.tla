------------------------- MODULE MCCompletionFence -------------------------
(* Two attempts, one with a CLI adapter and one with an HTTP adapter. *)
EXTENDS CompletionFence

CONSTANTS cli, http

MCAttempts == {cli, http}
MCProtected == {cli}
MCQuotes == {1, 2}
MCBills == {2}
=============================================================================
