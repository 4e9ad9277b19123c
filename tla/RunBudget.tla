----------------------------- MODULE RunBudget -----------------------------
(***************************************************************************)
(* What the cost ledger of a run promises: before a provider call leaves,  *)
(* its quote is set aside if it still fits under the ceiling; every quote  *)
(* set aside is closed exactly once, either by charging a bill or by being *)
(* given back.  CompletionFence shows the threads of a run implementing    *)
(* this, whatever the order of timeouts and late answers.                  *)
(***************************************************************************)
EXTENDS Integers

CONSTANTS
  Ceiling,      \* cost_ceiling_usd of the run, in price units
  Quotes,       \* the pre-call quotes the rate table can produce
  Bills         \* the priced usage a provider can report

(* Prices are natural numbers of some unit. *)
PricesOK ==
  /\ Ceiling \in Nat
  /\ Quotes \subseteq Nat
  /\ Bills \subseteq Nat

VARIABLES
  last,         \* number of authorizations granted so far
  open,         \* the quotes set aside, by authorization
  held,         \* their sum
  spent,        \* the sum of the charged bills
  overrun       \* the sum of what bills exceeded their quotes by

vars == <<last, open, held, spent, overrun>>

NonNegative(x) == IF x < 0 THEN 0 ELSE x

Remaining == NonNegative(Ceiling - spent - held)

Without(f, id) == [i \in DOMAIN f \ {id} |-> f[i]]

Init ==
  /\ last = 0
  /\ open = [i \in {} |-> 0]
  /\ held = 0
  /\ spent = 0
  /\ overrun = 0

Authorize(q) ==
  /\ q <= Remaining
  /\ last' = last + 1
  /\ open' = [i \in DOMAIN open \cup {last + 1} |-> IF i = last + 1 THEN q ELSE open[i]]
  /\ held' = held + q
  /\ UNCHANGED <<spent, overrun>>

Charge(id, bill) ==
  /\ open' = Without(open, id)
  /\ held' = held - open[id]
  /\ spent' = spent + bill
  /\ overrun' = overrun + NonNegative(bill - open[id])
  /\ UNCHANGED last

GiveBack(id) ==
  /\ open' = Without(open, id)
  /\ held' = held - open[id]
  /\ UNCHANGED <<last, spent, overrun>>

Next ==
  \/ \E q \in Quotes : Authorize(q)
  \/ \E id \in DOMAIN open, bill \in Bills : Charge(id, bill)
  \/ \E id \in DOMAIN open : GiveBack(id)

Spec == Init /\ [][Next]_vars
-----------------------------------------------------------------------------
TypeOK ==
  /\ last \in Nat
  /\ DOMAIN open \subseteq 1..last
  /\ \A i \in DOMAIN open : open[i] \in Nat
  /\ held \in Int
  /\ spent \in Nat
  /\ overrun \in Nat

(* What has been paid and what is promised together never pass the ceiling *)
(* by more than the bills themselves passed their quotes                   *)
(* (CostLedger.authorize compares the quote with ceiling-actual-reserved). *)
WithinCeiling == spent + held <= Ceiling + overrun
=============================================================================
