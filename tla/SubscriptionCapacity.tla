------------------------ MODULE SubscriptionCapacity ------------------------
(***************************************************************************)
(* The local call limit of one subscription connector in one run: the      *)
(* durable counter in the runtime store, the capacity broker of each       *)
(* process that executes the run, and the CLI adapter's calls, which an    *)
(* attempt makes one after the other under one completion guard.           *)
(***************************************************************************)
EXTENDS Integers, FiniteSets

CONSTANTS
  Attempts,     \* attempts of tasks routed to the connector
  Brokers,      \* one per process that executes the run
  BrokerOf,     \* the broker of each attempt
  MaxCalls,     \* calls of one attempt: the first one and its reformat
  Limit,        \* subscription_call_limit
  Nobody        \* the lock of a broker is free

ASSUME CapacityAssumption ==
  /\ BrokerOf \in [Attempts -> Brokers]
  /\ MaxCalls \in Nat \ {0}
  /\ Limit \in Nat \ {0}
  /\ Nobody \notin Attempts
  /\ IsFiniteSet(Attempts)

VARIABLES
  used,         \* subscription_capacity.used
  lock,         \* holder of each broker's lock between two statements
  seen,         \* the value reserve_subscription_capacity selected
  reserved,     \* _reservations of each broker
  marked,       \* _committed_durable_reservations of each broker
  pc,           \* where each attempt stands
  n,            \* the call an attempt is at
  active,       \* the attempt's completion guard
  cleanups,     \* cleanups registered with the guard
  due,          \* cleanups the scheduler took out at the timeout
  open,         \* history: calls reserved and neither committed nor failed
  billed,       \* history: calls that committed
  timely        \* history: no timeout yet, and no failure after a commit

counter == <<used, lock, seen>>
broker == <<reserved, marked>>
guard == <<active, cleanups, due>>
history == <<open, billed, timely>>
vars == <<counter, broker, pc, n, guard, history>>

Calls == Attempts \X (1..MaxCalls)
This(a) == <<a, n[a]>>
Free(a) == lock[BrokerOf[a]] = Nobody
Ended(a) == pc[a] \in {"done", "failed"}

Go(a, label) == pc' = [pc EXCEPT ![a] = label]

(* Release that leaves the durable counter. *)
ReleaseKeepingCounter(a, call) ==
  LET b == BrokerOf[a] IN
    /\ Free(a)
    /\ reserved' = [reserved EXCEPT ![b] = @ \ {call}]
    /\ used' = used
    /\ marked' = [marked EXCEPT ![b] = @ \ {call}]

(* CapacityBroker.release of a call: the counter goes down unless the call *)
(* is marked as committed, and the mark goes in any case.                  *)
Release(a, call) ==
  LET b == BrokerOf[a] IN
    /\ Free(a)
    /\ reserved' = [reserved EXCEPT ![b] = @ \ {call}]
    /\ used' = IF call \in marked[b] THEN used ELSE IF used > 0 THEN used - 1 ELSE 0
    /\ marked' = [marked EXCEPT ![b] = @ \ {call}]
-----------------------------------------------------------------------------
Init ==
  /\ used = 0
  /\ lock = [b \in Brokers |-> Nobody]
  /\ seen = [a \in Attempts |-> 0]
  /\ reserved = [b \in Brokers |-> {}]
  /\ marked = [b \in Brokers |-> {}]
  /\ pc = [a \in Attempts |-> "call"]
  /\ n = [a \in Attempts |-> 1]
  /\ active = [a \in Attempts |-> TRUE]
  /\ cleanups = [a \in Attempts |-> {}]
  /\ due = [a \in Attempts |-> {}]
  /\ open = {} /\ billed = {} /\ timely = TRUE

(* CapacityBroker.reserve refuses a connector whose last snapshot says     *)
(* that it is exhausted, before it looks at the counter.                   *)
Ineligible(a) ==
  /\ pc[a] = "call" /\ Free(a)
  /\ Go(a, "failed")
  /\ UNCHANGED <<counter, broker, n, guard, history>>

(* CapacityBroker.reserve takes its lock; the store's SELECT ... *)
ReserveRead(a) ==
  /\ pc[a] = "call" /\ Free(a)
  /\ seen' = [seen EXCEPT ![a] = used]
  /\ lock' = [lock EXCEPT ![BrokerOf[a]] = a]
  /\ Go(a, "reserve")
  /\ UNCHANGED <<used, broker, n, guard, history>>

(* ... the refusal at the limit, which ends the call ... *)
ReserveRefused(a) ==
  /\ pc[a] = "reserve"
  /\ seen[a] + 1 > Limit
  /\ lock' = [lock EXCEPT ![BrokerOf[a]] = Nobody]
  /\ Go(a, "failed")
  /\ UNCHANGED <<used, seen, broker, n, guard, history>>

(* ... or the upsert of what was read, plus one. *)
ReserveWrite(a) ==
  /\ pc[a] = "reserve"
  /\ seen[a] + 1 <= Limit
  /\ used' = seen[a] + 1
  /\ reserved' = [reserved EXCEPT ![BrokerOf[a]] = @ \cup {This(a)}]
  /\ lock' = [lock EXCEPT ![BrokerOf[a]] = Nobody]
  /\ open' = open \cup {This(a)}
  /\ Go(a, "register")
  /\ UNCHANGED <<seen, marked, n, guard, billed, timely>>

(* authorize_capacity registers the release with the guard; a guard that   *)
(* is already closed runs it at once, and the call goes on all the same.   *)
Register(a) ==
  /\ pc[a] = "register"
  /\ active[a]
  /\ cleanups' = [cleanups EXCEPT ![a] = @ \cup {This(a)}]
  /\ Go(a, "transport")
  /\ UNCHANGED <<counter, broker, n, active, due, history>>

RegisterLate(a) ==
  /\ pc[a] = "register"
  /\ ~active[a]
  /\ Release(a, This(a))
  /\ Go(a, "transport")
  /\ UNCHANGED <<lock, seen, n, guard, history>>

(* The CLI process exits; its output parses or the call fails. *)
Answer(a) ==
  /\ pc[a] = "transport"
  /\ \E next \in {"commit", "fail"} : Go(a, next)
  /\ UNCHANGED <<counter, broker, n, guard, history>>

(* Mark that forgets the mark. *)
MarkNothing(a) ==
  /\ pc[a] = "commit" /\ Free(a)
  /\ open' = open \ {This(a)}
  /\ billed' = billed \cup {This(a)}
  /\ Go(a, "settle")
  /\ UNCHANGED <<counter, broker, n, guard, timely>>

(* CapacityBroker.commit marks the call ... *)
Mark(a) ==
  /\ pc[a] = "commit" /\ Free(a)
  /\ marked' = [marked EXCEPT ![BrokerOf[a]] = @ \cup {This(a)}]
  /\ open' = open \ {This(a)}
  /\ billed' = billed \cup {This(a)}
  /\ Go(a, "settle")
  /\ UNCHANGED <<counter, reserved, n, guard, timely>>

(* ... and releases it, after it gave the lock back. *)
Settle(a) ==
  /\ pc[a] = "settle"
  /\ Release(a, This(a))
  /\ Go(a, "record")
  /\ UNCHANGED <<lock, seen, n, guard, history>>

(* The observation is stored.  A malformed answer is asked for again while *)
(* the guard is open; everything else ends the attempt.                    *)
Again(a) ==
  /\ pc[a] = "record"
  /\ n[a] < MaxCalls /\ active[a]
  /\ n' = [n EXCEPT ![a] = @ + 1]
  /\ Go(a, "call")
  /\ UNCHANGED <<counter, broker, guard, history>>

Finish(a) ==
  /\ pc[a] = "record"
  /\ Go(a, "done")
  /\ UNCHANGED <<counter, broker, n, guard, history>>

(* The store refuses the observation: the handler of the call releases the *)
(* capacity that was just committed.                                       *)
RecordRaises(a) ==
  /\ pc[a] = "record"
  /\ timely' = FALSE
  /\ Go(a, "fail")
  /\ UNCHANGED <<counter, broker, n, guard, open, billed>>

(* except Exception: release_capacity. *)
Fail(a) ==
  /\ pc[a] = "fail"
  /\ Release(a, This(a))
  /\ open' = open \ {This(a)}
  /\ Go(a, "failed")
  /\ UNCHANGED <<lock, seen, n, guard, billed, timely>>
-----------------------------------------------------------------------------
(* The scheduler's timeout closes the guard and takes the cleanups out ... *)
Timeout(a) ==
  /\ active[a] /\ ~Ended(a)
  /\ active' = [active EXCEPT ![a] = FALSE]
  /\ due' = [due EXCEPT ![a] = cleanups[a]]
  /\ cleanups' = [cleanups EXCEPT ![a] = {}]
  /\ timely' = FALSE
  /\ UNCHANGED <<counter, broker, pc, n, open, billed>>

(* ... and runs them one by one. *)
Cleanup(a) ==
  /\ \E call \in due[a] : Release(a, call) /\ due' = [due EXCEPT ![a] = @ \ {call}]
  /\ UNCHANGED <<lock, seen, pc, n, active, cleanups, history>>

Step(a) ==
  \/ Ineligible(a) \/ ReserveRead(a) \/ ReserveRefused(a) \/ ReserveWrite(a)
  \/ Register(a) \/ RegisterLate(a) \/ Answer(a)
  \/ Mark(a) \/ Settle(a) \/ Again(a) \/ Finish(a) \/ RecordRaises(a) \/ Fail(a)

Next == \E a \in Attempts : Step(a) \/ Timeout(a) \/ Cleanup(a)

Spec == Init /\ [][Next]_vars
-----------------------------------------------------------------------------
TypeOK ==
  /\ used \in 0..Limit
  /\ lock \in [Brokers -> Attempts \cup {Nobody}]
  /\ seen \in [Attempts -> 0..Limit]
  /\ reserved \in [Brokers -> SUBSET Calls]
  /\ marked \in [Brokers -> SUBSET Calls]
  /\ pc \in [Attempts -> {"call", "reserve", "register", "transport", "commit", "settle",
                          "record", "fail", "done", "failed"}]
  /\ n \in [Attempts -> 1..MaxCalls]
  /\ active \in [Attempts -> BOOLEAN]
  /\ cleanups \in [Attempts -> SUBSET Calls]
  /\ due \in [Attempts -> SUBSET Calls]
  /\ open \subseteq Calls /\ billed \subseteq Calls
  /\ timely \in BOOLEAN

OneBroker == \A a, b \in Attempts : BrokerOf[a] = BrokerOf[b]

(* As long as no call was timed out, the counter of a run that one process *)
(* executes is exact: what was billed and what is open, no more, no less.  *)
ExactWhileTimely ==
  OneBroker /\ timely => used = Cardinality(billed \cup open)

(* No timeout, late answer or failure ever eats the limit up: the counter  *)
(* of a run in one process is at most what was billed and what is open.    *)
NeverOvercounted == OneBroker => used <= Cardinality(billed \cup open)

(* An attempt that came to its end, its cleanups run, leaves neither a     *)
(* reservation nor a mark in its broker, in any number of processes.       *)
EndedAttemptHoldsNothing ==
  \A a \in Attempts : Ended(a) =>
    \A b \in Brokers : \A k \in 1..MaxCalls : <<a, k>> \notin reserved[b] \cup marked[b]

(* docs/reviews/2026-07-12-tranche-m-disposition.md:9: the counter is      *)
(* "released on failed calls, and retained on commit", at least for the    *)
(* calls of attempts that were never timed out.                            *)
(* The code does not keep it: README, section 5.                           *)
RetainedOnCommit == Cardinality({call \in billed : active[call[1]]}) <= used
=============================================================================
