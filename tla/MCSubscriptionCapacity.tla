----------------------- MODULE MCSubscriptionCapacity -----------------------
(* Three attempts of the process that executes the run. *)
EXTENDS SubscriptionCapacity

CONSTANTS a1, a2, a3, p

Three == {a1, a2, a3}
OneProcess == {p}
Together == [a \in Three |-> p]
=============================================================================
