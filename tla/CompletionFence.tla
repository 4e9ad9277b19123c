-------------------------- MODULE CompletionFence --------------------------
(***************************************************************************)
(* Provider calls made by the worker threads of a run, and the fence that  *)
(* the scheduler closes when it stops waiting for one of them.             *)
(*                                                                         *)
(* An attempt is one _execute_with_timeout: it has a CompletionGuard, a    *)
(* thread that runs execute_guarded, and the scheduler thread that waits   *)
(* for the future.  The thread makes provider calls one after the other    *)
(* (a first call, one reformat call, calls after a handoff); each is       *)
(* authorized by the run's CostLedger and committed or released on it.     *)
(* Every step below is what happens between two lock operations.           *)
(***************************************************************************)
EXTENDS Integers, Functions

CONSTANTS
  Attempts,     \* the task attempts of the run
  Protected,    \* attempts whose adapter settles inside its try (CLI adapters)
  MaxHandoffs,  \* HandoffController.max_handoffs
  Ceiling, Quotes, Bills

ASSUME FenceAssumption ==
  /\ Protected \subseteq Attempts
  /\ MaxHandoffs \in Nat
  /\ Ceiling \in Nat
  /\ Quotes \subseteq Nat
  /\ Bills \subseteq Nat

VARIABLES
  (* CostLedger *)
  sequence,     \* _sequence: authorizations granted so far
  reservations, \* _reservations: call id -> [attempt, quote]
  calls,        \* _calls: call id -> [attempt, quote, bill]
  (* ProviderAdapter *)
  guards,       \* _authorization_guards: call ids whose guard is on file
  (* CompletionGuard, one per attempt *)
  active,       \* _active
  cleanups,     \* _cleanups: call ids whose release_cost is registered
  (* worker thread, one per attempt *)
  pc,           \* where execute_guarded stands
  call,         \* call id of the authorization at hand, 0 before the first
  bill,         \* priced usage of the answer at hand
  fenced,       \* commit_cost found a guard for the call
  reformatted,  \* the one reformat call of this provider was made
  handoffs,     \* handoff rows saved for the task
  (* scheduler thread waiting for the attempt *)
  wait,         \* where _execute_with_timeout stands
  cleaning,     \* cleanups taken by deactivate and not finished yet
  sweep         \* call id whose cleanup has run its first half, or 0

ledger  == <<sequence, reservations, calls>>
guardvs == <<active, cleanups>>
thread  == <<pc, call, bill, fenced, reformatted, handoffs>>
waiter  == <<wait, cleaning, sweep>>
vars    == <<ledger, guards, guardvs, thread, waiter>>

Finished == {"returned", "raised"}

NonNegative(x) == IF x < 0 THEN 0 ELSE x

(* The ledger in numbers: what is set aside, what was charged, and what    *)
(* the charges exceed their quotes by.                                     *)
OpenQuotes == [i \in DOMAIN reservations |-> reservations[i].quote]
Billed     == [i \in DOMAIN calls |-> calls[i].bill]
Overruns   == [i \in DOMAIN calls |-> NonNegative(calls[i].bill - calls[i].quote)]

Reserved == SumFunction(OpenQuotes)
Actual   == SumFunction(Billed)
Excess   == SumFunction(Overruns)

(* Remaining with the concurrent reservations left out. *)
RemainingIgnoringHeld == IF Actual > Ceiling THEN 0 ELSE Ceiling - Actual

Remaining == NonNegative(Ceiling - Actual - Reserved)

With(f, id, v) == [i \in DOMAIN f \cup {id} |-> IF i = id THEN v ELSE f[i]]
Without(f, id) == [i \in DOMAIN f \ {id} |-> f[i]]

Go(a, label) == pc' = [pc EXCEPT ![a] = label]
-----------------------------------------------------------------------------
Init ==
  /\ sequence = 0
  /\ reservations = [i \in {} |-> [attempt |-> 0, quote |-> 0]]
  /\ calls = [i \in {} |-> [attempt |-> 0, quote |-> 0, bill |-> 0]]
  /\ guards = {}
  /\ active = [a \in Attempts |-> TRUE]
  /\ cleanups = [a \in Attempts |-> {}]
  /\ pc = [a \in Attempts |-> "begin"]
  /\ call = [a \in Attempts |-> 0]
  /\ bill = [a \in Attempts |-> 0]
  /\ fenced = [a \in Attempts |-> FALSE]
  /\ reformatted = [a \in Attempts |-> FALSE]
  /\ handoffs = [a \in Attempts |-> 0]
  /\ wait = [a \in Attempts |-> "waiting"]
  /\ cleaning = [a \in Attempts |-> {}]
  /\ sweep = [a \in Attempts |-> 0]

(* execute_guarded returns at once when the lease is already closed. *)
Begin(a) ==
  /\ pc[a] = "begin"
  /\ Go(a, IF active[a] THEN "authorize" ELSE "returned")
  /\ UNCHANGED <<ledger, guards, guardvs, call, bill, fenced, reformatted, handoffs, waiter>>

(* authorize_cost up to the guard map: nobody knows the call id before it  *)
(* is registered, so the two locks it takes make one step.                 *)
Authorize(a, q) ==
  /\ pc[a] = "authorize"
  /\ q <= Remaining
  /\ sequence' = sequence + 1
  /\ reservations' = With(reservations, sequence + 1, [attempt |-> a, quote |-> q])
  /\ guards' = guards \cup {sequence + 1}
  /\ call' = [call EXCEPT ![a] = sequence + 1]
  /\ Go(a, "register")
  /\ UNCHANGED <<calls, guardvs, bill, fenced, reformatted, handoffs, waiter>>

(* The quote does not fit: BudgetStopError leaves the thread. *)
BudgetStop(a, q) ==
  /\ pc[a] = "authorize"
  /\ q > Remaining
  /\ Go(a, "raised")
  /\ UNCHANGED <<ledger, guards, guardvs, call, bill, fenced, reformatted, handoffs, waiter>>

(* Register without its look at the lease. *)
RegisterUnchecked(a) ==
  /\ pc[a] = "register"
  /\ cleanups' = [cleanups EXCEPT ![a] = @ \cup {call[a]}]
  /\ Go(a, "transport")
  /\ UNCHANGED <<ledger, guards, active, call, bill, fenced, reformatted, handoffs, waiter>>

(* register_cleanup: keep the release, or run it at once if the lease is   *)
(* closed; either way the adapter goes on to the transport.                *)
Register(a) ==
  /\ pc[a] = "register"
  /\ IF active[a]
       THEN /\ cleanups' = [cleanups EXCEPT ![a] = @ \cup {call[a]}]
            /\ Go(a, "transport")
       ELSE /\ Go(a, "now_forget")
            /\ UNCHANGED cleanups
  /\ UNCHANGED <<ledger, guards, active, call, bill, fenced, reformatted, handoffs, waiter>>

(* release_cost on the worker thread: first the guard map, then the ledger. *)
ForgetGuard(a) ==
  /\ pc[a] \in {"now_forget", "fail_forget"}
  /\ guards' = guards \ {call[a]}
  /\ Go(a, IF pc[a] = "now_forget" THEN "now_release" ELSE "fail_release")
  /\ UNCHANGED <<ledger, guardvs, call, bill, fenced, reformatted, handoffs, waiter>>

Release(a) ==
  /\ pc[a] \in {"now_release", "fail_release", "late_release"}
  /\ reservations' = Without(reservations, call[a])
  /\ Go(a, CASE pc[a] = "now_release"  -> "transport"
             [] pc[a] = "fail_release" -> "failed"
             [] pc[a] = "late_release" -> "answered")
  /\ UNCHANGED <<sequence, calls, guards, guardvs, call, bill, fenced, reformatted, handoffs, waiter>>

(* The provider answers with a usage priced at b. *)
Respond(a, b) ==
  /\ pc[a] = "transport"
  /\ bill' = [bill EXCEPT ![a] = b]
  /\ Go(a, "commit")
  /\ UNCHANGED <<ledger, guards, guardvs, call, fenced, reformatted, handoffs, waiter>>

(* No capacity, a failed or timed-out transport: the except branch. *)
Fail(a) ==
  /\ pc[a] = "transport"
  /\ Go(a, "fail_forget")
  /\ UNCHANGED <<ledger, guards, guardvs, call, bill, fenced, reformatted, handoffs, waiter>>

(* An exception after the transport is caught by the CLI adapters only. *)
Uncaught(a) == IF a \in Protected THEN "fail_forget" ELSE "raised"

(* The answer's output or usage cannot be parsed. *)
Malformed(a) ==
  /\ pc[a] = "transport"
  /\ Go(a, Uncaught(a))
  /\ UNCHANGED <<ledger, guards, guardvs, call, bill, fenced, reformatted, handoffs, waiter>>

(* commit_cost takes the call's guard out of the map ... *)
TakeGuard(a) ==
  /\ pc[a] = "commit"
  /\ fenced' = [fenced EXCEPT ![a] = call[a] \in guards]
  /\ guards' = guards \ {call[a]}
  /\ Go(a, "settle")
  /\ UNCHANGED <<ledger, guardvs, call, bill, reformatted, handoffs, waiter>>

(* ... and commits under its lock if it found one that is still active, or *)
(* without any lock if it found none.                                      *)
MayCommit(a) == fenced[a] => active[a]

(* The locals of commit_cost end with it. *)
EndCommit(a) ==
  /\ bill' = [bill EXCEPT ![a] = 0]
  /\ fenced' = [fenced EXCEPT ![a] = FALSE]

(* Commit that copies the authorization instead of taking it. *)
CommitKeepingReservation(a) ==
  /\ pc[a] = "settle"
  /\ MayCommit(a)
  /\ call[a] \in DOMAIN reservations
  /\ calls' = With(calls, call[a], [attempt |-> a, quote |-> reservations[call[a]].quote,
                                    bill |-> bill[a]])
  /\ Go(a, "answered")
  /\ EndCommit(a)
  /\ UNCHANGED <<sequence, reservations, guards, guardvs, call, reformatted, handoffs, waiter>>

Commit(a) ==
  /\ pc[a] = "settle"
  /\ MayCommit(a)
  /\ call[a] \in DOMAIN reservations
  /\ calls' = With(calls, call[a], [attempt |-> a, quote |-> reservations[call[a]].quote,
                                    bill |-> bill[a]])
  /\ reservations' = Without(reservations, call[a])
  /\ Go(a, "answered")
  /\ EndCommit(a)
  /\ UNCHANGED <<sequence, guards, guardvs, call, reformatted, handoffs, waiter>>

(* CostLedger.commit raises on a closed authorization. *)
CommitClosed(a) ==
  /\ pc[a] = "settle"
  /\ MayCommit(a)
  /\ call[a] \notin DOMAIN reservations
  /\ Go(a, Uncaught(a))
  /\ EndCommit(a)
  /\ UNCHANGED <<ledger, guards, guardvs, call, reformatted, handoffs, waiter>>

RefuseLate(a) ==
  /\ pc[a] = "settle"
  /\ ~MayCommit(a)
  /\ Go(a, "late_release")
  /\ EndCommit(a)
  /\ UNCHANGED <<ledger, guards, guardvs, call, reformatted, handoffs, waiter>>

(* ModelSynthesisRunner._ensure_active after the call: a closed lease      *)
(* raises; otherwise the output is used, or reformatted by one more call.  *)
Use(a) ==
  /\ pc[a] = "answered"
  /\ Go(a, IF active[a] THEN "returned" ELSE "raised")
  /\ UNCHANGED <<ledger, guards, guardvs, call, bill, fenced, reformatted, handoffs, waiter>>

Reformat(a) ==
  /\ pc[a] = "answered"
  /\ active[a]
  /\ ~reformatted[a]
  /\ reformatted' = [reformatted EXCEPT ![a] = TRUE]
  /\ Go(a, "authorize")
  /\ UNCHANGED <<ledger, guards, guardvs, call, bill, fenced, handoffs, waiter>>

(* _synthesis on a ProviderError: hand the task to another connector,      *)
(* durably recorded, or give up (fallback or failure).                     *)
Handoff(a) ==
  /\ pc[a] = "failed"
  /\ handoffs[a] < MaxHandoffs
  /\ handoffs' = [handoffs EXCEPT ![a] = @ + 1]
  /\ reformatted' = [reformatted EXCEPT ![a] = FALSE]
  /\ Go(a, "authorize")
  /\ UNCHANGED <<ledger, guards, guardvs, call, bill, fenced, waiter>>

GiveUp(a) ==
  /\ pc[a] = "failed"
  /\ \E label \in Finished : Go(a, label)
  /\ UNCHANGED <<ledger, guards, guardvs, call, bill, fenced, reformatted, handoffs, waiter>>
-----------------------------------------------------------------------------
(* future.result returns or raises before the timeout. *)
Collect(a) ==
  /\ wait[a] = "waiting"
  /\ pc[a] \in Finished
  /\ wait' = [wait EXCEPT ![a] = "collected"]
  /\ UNCHANGED <<ledger, guards, guardvs, thread, cleaning, sweep>>

(* Timeout that takes the cleanups and leaves the lease open. *)
TimeoutKeepingLease(a) ==
  /\ wait[a] = "waiting"
  /\ pc[a] \notin Finished
  /\ cleaning' = [cleaning EXCEPT ![a] = cleanups[a]]
  /\ cleanups' = [cleanups EXCEPT ![a] = {}]
  /\ wait' = [wait EXCEPT ![a] = "cleaning"]
  /\ UNCHANGED <<ledger, guards, active, thread, sweep>>

(* The timeout: deactivate clears the guard and takes its cleanups. *)
Timeout(a) ==
  /\ wait[a] = "waiting"
  /\ pc[a] \notin Finished
  /\ active' = [active EXCEPT ![a] = FALSE]
  /\ cleaning' = [cleaning EXCEPT ![a] = cleanups[a]]
  /\ cleanups' = [cleanups EXCEPT ![a] = {}]
  /\ wait' = [wait EXCEPT ![a] = "cleaning"]
  /\ UNCHANGED <<ledger, guards, thread, sweep>>

(* CleanupForget that waits for the thread first. *)
CleanupForgetJoined(a, id) ==
  /\ wait[a] = "cleaning" /\ pc[a] \in Finished
  /\ sweep[a] = 0
  /\ id \in cleaning[a]
  /\ guards' = guards \ {id}
  /\ sweep' = [sweep EXCEPT ![a] = id]
  /\ UNCHANGED <<ledger, guardvs, thread, wait, cleaning>>

(* deactivate runs the cleanups outside the lock, each a release_cost: the *)
(* guard map first, then the ledger.  Their order is left open.            *)
CleanupForget(a, id) ==
  /\ wait[a] = "cleaning"
  /\ sweep[a] = 0
  /\ id \in cleaning[a]
  /\ guards' = guards \ {id}
  /\ sweep' = [sweep EXCEPT ![a] = id]
  /\ UNCHANGED <<ledger, guardvs, thread, wait, cleaning>>

CleanupRelease(a) ==
  /\ sweep[a] # 0
  /\ reservations' = Without(reservations, sweep[a])
  /\ cleaning' = [cleaning EXCEPT ![a] = @ \ {sweep[a]}]
  /\ sweep' = [sweep EXCEPT ![a] = 0]
  /\ UNCHANGED <<sequence, calls, guards, guardvs, thread, wait>>

(* The attempt is reported as timed out once every cleanup has run. *)
ReportTimeout(a) ==
  /\ wait[a] = "cleaning"
  /\ cleaning[a] = {}
  /\ wait' = [wait EXCEPT ![a] = "timed_out"]
  /\ UNCHANGED <<ledger, guards, guardvs, thread, cleaning, sweep>>
-----------------------------------------------------------------------------
(* What the thread does by itself, and what the provider decides. *)
Worker(a) ==
  \/ Begin(a) \/ (\E q \in Quotes : Authorize(a, q) \/ BudgetStop(a, q))
  \/ Register(a) \/ ForgetGuard(a) \/ Release(a)
  \/ TakeGuard(a) \/ Commit(a) \/ CommitClosed(a) \/ RefuseLate(a)
  \/ Use(a) \/ Reformat(a) \/ Handoff(a) \/ GiveUp(a)

Provider(a) == (\E b \in Bills : Respond(a, b)) \/ Fail(a) \/ Malformed(a)

Scheduler(a) ==
  \/ Collect(a) \/ Timeout(a)
  \/ (\E id \in cleaning[a] : CleanupForget(a, id)) \/ CleanupRelease(a)
  \/ ReportTimeout(a)

Next == \E a \in Attempts : Worker(a) \/ Provider(a) \/ Scheduler(a)

Spec == Init /\ [][Next]_vars

(* Threads run and future.result's timeout fires; a provider owes nothing: *)
(* a transport may ignore its socket deadline for ever (ADR-002).          *)
Fairness == \A a \in Attempts : WF_vars(Worker(a)) /\ WF_vars(Scheduler(a))

FairSpec == Spec /\ Fairness
-----------------------------------------------------------------------------
Labels == Finished \cup
  {"begin", "authorize", "register", "now_forget", "now_release", "transport",
   "fail_forget", "fail_release", "commit", "settle", "late_release", "answered", "failed"}

CallIds == 1..sequence

Reservation == [attempt : Attempts, quote : Quotes]
Row == [attempt : Attempts, quote : Quotes, bill : Bills \cup {0}]

TypeOK ==
  /\ sequence \in Nat
  /\ DOMAIN reservations \subseteq CallIds
  /\ \A i \in DOMAIN reservations : reservations[i] \in Reservation
  /\ DOMAIN calls \subseteq CallIds
  /\ \A i \in DOMAIN calls : calls[i] \in Row
  /\ guards \subseteq CallIds
  /\ active \in [Attempts -> BOOLEAN]
  /\ cleanups \in [Attempts -> SUBSET (0..sequence)]
  /\ pc \in [Attempts -> Labels]
  /\ call \in [Attempts -> 0..sequence]
  /\ bill \in [Attempts -> Bills \cup {0}]
  /\ fenced \in [Attempts -> BOOLEAN]
  /\ reformatted \in [Attempts -> BOOLEAN]
  /\ handoffs \in [Attempts -> 0..MaxHandoffs]
  /\ wait \in [Attempts -> {"waiting", "collected", "cleaning", "timed_out"}]
  /\ cleaning \in [Attempts -> SUBSET (0..sequence)]
  /\ sweep \in [Attempts -> 0..sequence]

(* An answer that arrives while the lease is open is charged: at the       *)
(* commit, the call still has its guard and its reservation, whatever      *)
(* cleanups other attempts are running (commit_cost never raises "closed   *)
(* authorization" on an answer in time).                                   *)
InTimeAnswerIsCharged ==
  \A a \in Attempts :
    pc[a] = "settle" /\ active[a] => fenced[a] /\ call[a] \in DOMAIN reservations

(* Once the scheduler has reported the timeout, a call that hangs in its   *)
(* transport, or whose answer is being handled late, holds no budget: the  *)
(* registration races the timeout and one of the two always releases.      *)
TimedOutCallHoldsNothing ==
  \A a \in Attempts :
    wait[a] = "timed_out" /\ pc[a] \in {"transport", "commit", "settle"}
      => call[a] \notin DOMAIN reservations

(* A thread that has finished leaves no reservation behind, on every path  *)
(* of an adapter that settles inside its try.                              *)
FinishedThreadHoldsNothing ==
  \A a \in Protected :
    pc[a] \in Finished => \A i \in DOMAIN reservations : reservations[i].attempt # a

(* Every authorization is closed in the end, even if no provider ever      *)
(* answers: the scheduler's timeout takes the place of the answer, and the *)
(* threads left behind come to an end of their own.                        *)
EveryReservationIsClosed ==
  \A a \in Protected : <>[](\A i \in DOMAIN reservations : reservations[i].attempt # a)

(* The ledger, seen through its sums, is the run budget. *)
Budget == INSTANCE RunBudget WITH
  last <- sequence, open <- OpenQuotes, held <- Reserved, spent <- Actual, overrun <- Excess

(* The threads implement the run budget: quotes fit when they are granted, *)
(* and each is closed once, by a bill or by a release.                     *)
ImplementsBudget == Budget!Spec

(* Spend and reservations stay within the ceiling, up to the overruns the  *)
(* providers bill beyond their quotes.                                     *)
LedgerWithinCeiling == Budget!WithinCeiling

(* ADR-002: "A response arriving after timeout cannot add a ledger row".   *)
(* The code does not keep it: README, section 5.                           *)
NoRowAfterTimeout ==
  [][\A i \in DOMAIN calls' \ DOMAIN calls : active[calls'[i].attempt]]_vars
=============================================================================
