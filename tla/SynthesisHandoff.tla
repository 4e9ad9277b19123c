-------------------------- MODULE SynthesisHandoff --------------------------
(***************************************************************************)
(* One synthesis task: StageWorkerRegistry._synthesis asks a model through *)
(* a connector, reformats once, retries HTTP errors, and hands the task to *)
(* another connector when the error allows it (HandoffController.choose).  *)
(* The scheduler abandons a thread that is too slow and starts another;    *)
(* the abandoned thread goes on: nothing interrupts it.  Handoff rows and  *)
(* capacity snapshots are shared by all threads of the task.               *)
(*                                                                         *)
(* Data left out: prompts, prices and windows.  Money and reservations are *)
(* in CompletionFence and SubscriptionCapacity; here a call may be refused *)
(* by either of them.  The policy is not asked again: routing offers only  *)
(* connectors it allows.                                                   *)
(***************************************************************************)
EXTENDS Naturals, FiniteSets

CONSTANTS
  NThreads,      \* attempts the scheduler starts one after another
  Connectors,    \* provider ids the decision and its alternatives name
  Http,          \* those reached by _post_json; the others are CLIs
  First,         \* decision.provider_id
  HasRefs,       \* chunk references were delivered to the task
  MaxAttempts,   \* HandoffController.max_attempts
  MaxHandoffs,   \* HandoffController.max_handoffs
  MaxTries,      \* max_attempts of _post_json
  Headers        \* rate-limit headers a response may carry: sets of windows

ASSUME ThreadsAssumption == NThreads \in Nat \ {0}
ASSUME ConnectorsAssumption == IsFiniteSet(Connectors) /\ First \in Connectors
ASSUME LimitsAssumption ==
  MaxAttempts \in Nat \ {0} /\ MaxHandoffs \in Nat /\ MaxTries \in Nat \ {0}

Threads == 1..NThreads

VARIABLES
  decision,  \* the routing decision of the task
  pc,        \* where the thread stands
  conn,      \* current_connector_id
  tried,     \* attempted_connectors
  attempt,   \* attempt of _synthesis
  tries,     \* attempt of _post_json
  reformat,  \* the second call of ModelSynthesisRunner.run
  active,    \* CompletionGuard.is_active
  outcome,   \* the ExecutionResult the scheduler sees, or "none"
  rows,      \* rows of handoff_records
  capacity,  \* CapacityBroker: what is known of a connector
  sends      \* requests the thread has sent (history)

locals == <<conn, tried, attempt, tries, reformat>>
vars == <<decision, pc, locals, active, outcome, rows, capacity, sends>>

Decisions == {"route", "local", "reshape", "pause"}
Completed == {"extractive", "model", "model_repaired",
              "extractive_fallback", "extractive_provider_fallback"}
Outcomes  == Completed \cup {"none", "paused", "failed", "dropped"}
Statuses  == {"unseen", "available", "constrained", "unknown", "exhausted"}

(* snapshot_from_headers: a window is used up at 95 per cent. *)
Used(w) == ((w.limit - w.remaining) * 100) \div w.limit
snapshot_from_headers(windows) ==
  CASE windows = {} -> "unknown"
    [] \E w \in windows : w.remaining = 0 \/ Used(w) >= 95 -> "exhausted"
    [] \A w \in windows : w.remaining # 0 /\ Used(w) < 80 -> "available"
    [] OTHER -> "constrained"

(* _http_error, and the 2xx answers whose body is JSON or is not. *)
StatusCodes == {200, 401, 404, 408, 429, 503}
Kind(code) ==
  CASE code \in {401, 403} -> "auth"
    [] code = 429 -> "rate_limit"
    [] code \in {408, 504} -> "timeout"
    [] code \in 500..599 \ {504} -> "transient"
    [] code \in 200..299 -> "answer"
    [] OTHER -> "fatal"

Retryable == {"rate_limit", "transient", "timeout"}

(* CapacityBroker.score of a connector that is eligible, as a rank. *)
Score(status) ==
  CASE status \in {"unseen", "available"} -> 3
    [] status = "constrained" -> 2
    [] status = "unknown" -> 1
    [] status = "exhausted" -> 0

is_eligible(c) == capacity[c] # "exhausted"

(* update: a headerless snapshot never replaces what is known. *)
update(c, status) ==
  capacity' = IF status = "unknown" /\ capacity[c] # "unseen"
              THEN capacity
              ELSE [capacity EXCEPT ![c] = status]
-----------------------------------------------------------------------------
Init ==
  /\ decision \in Decisions
  /\ pc = [t \in Threads |-> "idle"]
  /\ conn = [t \in Threads |-> First]
  /\ tried = [t \in Threads |-> {First}]
  /\ attempt = [t \in Threads |-> 1]
  /\ tries = [t \in Threads |-> 1]
  /\ reformat = [t \in Threads |-> FALSE]
  /\ active = [t \in Threads |-> TRUE]
  /\ outcome = [t \in Threads |-> "none"]
  /\ rows = 0
  /\ capacity = [c \in Connectors |-> "unseen"]
  /\ sends = [t \in Threads |-> 0]

Go(t, label) == pc' = [pc EXCEPT ![t] = label]

EndUnfenced(t, result) ==
  /\ Go(t, "ended")
  /\ outcome' = [outcome EXCEPT ![t] = result]

(* _execute_one builds the result; execute_guarded drops it when the guard *)
(* was closed meanwhile.                                                   *)
End(t, result) ==
  /\ Go(t, "ended")
  /\ outcome' = [outcome EXCEPT ![t] = IF active[t] THEN result ELSE "dropped"]

(* The scheduler starts a thread after a failure or a timeout of the last. *)
Dispatch(t) ==
  /\ pc[t] = "idle"
  /\ \A s \in Threads : s + 1 = t => ~active[s] \/ outcome[s] = "failed"
  /\ CASE decision = "pause" -> End(t, "paused")
       [] decision \in {"local", "reshape"} -> End(t, "extractive")
       [] decision = "route" -> Go(t, "call") /\ UNCHANGED outcome
  /\ UNCHANGED <<decision, locals, active, rows, capacity, sends>>

(* adapter.execute up to the transport: authorize_cost may stop the budget *)
(* (re-raised, the task fails) ...                                         *)
BudgetStop(t) ==
  /\ pc[t] = "call"
  /\ End(t, "failed")
  /\ UNCHANGED <<decision, locals, active, rows, capacity, sends>>

(* ... authorize_capacity refuses an exhausted connector and may refuse    *)
(* one whose windows or subscription calls are reserved ...                *)
CapacityRefused(t) ==
  /\ pc[t] = "call"
  /\ Go(t, "choose")
  /\ UNCHANGED <<decision, locals, active, outcome, rows, capacity, sends>>

Authorized(t) ==
  /\ pc[t] = "call"
  /\ is_eligible(conn[t])
  /\ Go(t, "send")
  /\ tries' = [tries EXCEPT ![t] = 1]
  /\ UNCHANGED <<decision, conn, tried, attempt, reformat, active, outcome, rows,
                 capacity, sends>>

Sent(t) == /\ pc[t] = "send"
           /\ sends' = [sends EXCEPT ![t] = @ + 1]
           /\ UNCHANGED <<decision, conn, tried, attempt, reformat, active, rows>>

RetryOneMore(t) ==
  IF tries[t] <= MaxTries
  THEN tries' = [tries EXCEPT ![t] = @ + 1] /\ UNCHANGED <<pc, outcome>>
  ELSE Go(t, "choose") /\ UNCHANGED <<tries, outcome>>

(* RATE_LIMIT, TRANSIENT and TIMEOUT are tried again on the same connector *)
(* until the attempts are used up; then the error leaves execute.          *)
Retry(t) ==
  IF tries[t] < MaxTries
  THEN tries' = [tries EXCEPT ![t] = @ + 1] /\ UNCHANGED <<pc, outcome>>
  ELSE Go(t, "choose") /\ UNCHANGED <<tries, outcome>>

(* A response: its headers are observed before its status is looked at.    *)
(* AUTH, FATAL and a body that is no JSON object fail the task at once.     *)
HttpResponse(t) ==
  /\ Sent(t) /\ conn[t] \in Http
  /\ \E windows \in Headers : update(conn[t], snapshot_from_headers(windows))
  /\ \E code \in StatusCodes :
       \/ Kind(code) = "answer" /\ Go(t, "parse") /\ UNCHANGED <<tries, outcome>>
       \/ Kind(code) \notin Retryable /\ End(t, "failed") /\ UNCHANGED tries
       \/ Kind(code) \in Retryable /\ Retry(t)

(* TransportTimeout, TransportConnectionError: nothing to observe. *)
HttpSilence(t) ==
  /\ Sent(t) /\ conn[t] \in Http
  /\ Retry(t)
  /\ UNCHANGED capacity

(* A CLI is run once.  A limit it reports is remembered for good (no       *)
(* expires_at); a CommandTimeout is no ProviderError and fails the task.   *)
CliResponse(t) ==
  /\ Sent(t) /\ conn[t] \notin Http
  /\ \/ Go(t, "parse") /\ update(conn[t], "unknown") /\ UNCHANGED outcome
     \/ Go(t, "choose") /\ update(conn[t], "exhausted") /\ UNCHANGED outcome
     \/ End(t, "failed") /\ UNCHANGED capacity
  /\ UNCHANGED tries

(* The rest of ModelSynthesisRunner.run: a late answer raises              *)
(* CompletionLeaseExpired, an invalid one is reformatted once.             *)
Parse(t) ==
  /\ pc[t] = "parse"
  /\ \/ /\ ~active[t]
        /\ End(t, "failed") /\ UNCHANGED reformat
     \/ /\ active[t]
        /\ End(t, IF reformat[t] THEN "model_repaired" ELSE "model")
        /\ UNCHANGED reformat
     \/ /\ active[t] /\ ~reformat[t]
        /\ reformat' = [reformat EXCEPT ![t] = TRUE]
        /\ Go(t, "call") /\ UNCHANGED outcome
     \/ /\ active[t] /\ reformat[t]
        /\ End(t, "extractive_fallback") /\ UNCHANGED reformat
  /\ UNCHANGED <<decision, conn, tried, attempt, tries, active, rows, capacity, sends>>

(* mutant: only the connector that failed is excluded *)
AvailableAgain(t) == {c \in Connectors : c # conn[t] /\ is_eligible(c)}

(* choose: the rows are counted, the best eligible candidate is taken.     *)
Available(t) == {c \in Connectors \ {First} : c \notin tried[t] /\ is_eligible(c)}

Refused(t) == attempt[t] >= MaxAttempts \/ rows >= MaxHandoffs \/ Available(t) = {}

GiveUpUnlessCounted(t) ==
  /\ pc[t] = "choose"
  /\ attempt[t] >= MaxAttempts \/ Available(t) = {}
  /\ End(t, IF HasRefs THEN "extractive_provider_fallback" ELSE "failed")
  /\ UNCHANGED <<decision, locals, active, rows, capacity, sends>>

GiveUp(t) ==
  /\ pc[t] = "choose"
  /\ Refused(t)
  /\ End(t, IF HasRefs THEN "extractive_provider_fallback" ELSE "failed")
  /\ UNCHANGED <<decision, locals, active, rows, capacity, sends>>

ChooseUncounted(t) ==
  /\ pc[t] = "choose"
  /\ attempt[t] < MaxAttempts /\ Available(t) # {}
  /\ \E c \in Available(t) :
       /\ conn' = [conn EXCEPT ![t] = c]
       /\ tried' = [tried EXCEPT ![t] = @ \cup {c}]
  /\ attempt' = [attempt EXCEPT ![t] = @ + 1]
  /\ reformat' = [reformat EXCEPT ![t] = FALSE]
  /\ Go(t, "insert")
  /\ UNCHANGED <<decision, tries, active, outcome, rows, capacity, sends>>

(* Equal scores are broken by name: any of the best here. *)
Choose(t) ==
  /\ pc[t] = "choose"
  /\ ~Refused(t)
  /\ \E c \in Available(t) :
       /\ \A d \in Available(t) : Score(capacity[d]) <= Score(capacity[c])
       /\ conn' = [conn EXCEPT ![t] = c]
       /\ tried' = [tried EXCEPT ![t] = @ \cup {c}]
  /\ attempt' = [attempt EXCEPT ![t] = @ + 1]
  /\ reformat' = [reformat EXCEPT ![t] = FALSE]
  /\ Go(t, "insert")
  /\ UNCHANGED <<decision, tries, active, outcome, rows, capacity, sends>>

(* save_handoff: a transaction of its own, after the count was read. *)
Insert(t) ==
  /\ pc[t] = "insert"
  /\ rows' = rows + 1
  /\ Go(t, "call")
  /\ UNCHANGED <<decision, locals, active, outcome, capacity, sends>>

(* The scheduler stops waiting and closes the guard; the thread lives on.  *)
Timeout(t) ==
  /\ pc[t] \notin {"idle", "ended"}
  /\ active[t]
  /\ active' = [active EXCEPT ![t] = FALSE]
  /\ UNCHANGED <<decision, pc, locals, outcome, rows, capacity, sends>>

(* The earliest reset time of a header snapshot passes: _is_expired. *)
Expire(c) ==
  /\ c \in Http
  /\ capacity[c] \in {"exhausted", "constrained", "available"}
  /\ capacity' = [capacity EXCEPT ![c] = "unknown"]
  /\ UNCHANGED <<decision, pc, locals, active, outcome, rows, sends>>

Step(t) ==
  \/ BudgetStop(t) \/ CapacityRefused(t) \/ Authorized(t)
  \/ HttpResponse(t) \/ HttpSilence(t) \/ CliResponse(t)
  \/ Parse(t) \/ GiveUp(t) \/ Choose(t) \/ Insert(t)

Next == \/ \E t \in Threads : Dispatch(t) \/ Step(t) \/ Timeout(t)
        \/ \E c \in Connectors : Expire(c)

Spec == Init /\ [][Next]_vars

(* Sockets and processes have timeouts, so a thread always goes on. *)
FairSpec == Spec /\ \A t \in Threads : WF_vars(Step(t))
-----------------------------------------------------------------------------
TypeOK ==
  /\ decision \in Decisions
  /\ pc \in [Threads -> {"idle", "call", "send", "parse", "choose", "insert", "ended"}]
  /\ conn \in [Threads -> Connectors]
  /\ tried \in [Threads -> SUBSET Connectors]
  /\ attempt \in [Threads -> 1..MaxAttempts]
  /\ tries \in [Threads -> 1..MaxTries]
  /\ reformat \in [Threads -> BOOLEAN]
  /\ active \in [Threads -> BOOLEAN]
  /\ outcome \in [Threads -> Outcomes]
  /\ rows \in Nat
  /\ capacity \in [Connectors -> Statuses]
  /\ sends \in [Threads -> Nat]

(* The rows are counted in one transaction and inserted in another, and a  *)
(* thread that timed out still hands off: every further thread can add one *)
(* row to the limit, and no more.                                          *)
HandoffsBounded == rows <= MaxHandoffs + (NThreads - 1)

(* Each handoff of a thread reaches a connector the thread has not asked   *)
(* before, whatever the other threads and the broker do meanwhile.         *)
NeverReplays ==
  \A t \in Threads : conn[t] \in tried[t] /\ Cardinality(tried[t]) = attempt[t]

(* Retries, the reformat and handoffs multiply, within this product; the   *)
(* closing of the guard does not reset any of the three counters.          *)
SendsBounded == \A t \in Threads : sends[t] <= 2 * MaxTries * attempt[t]

(* However late the abandoned threads answer, the task gets one result.    *)
OneResult == \A s, t \in Threads :
               outcome[s] \in Completed /\ outcome[t] \in Completed => s = t

(* A thread ends although no provider ever has to answer well. *)
ThreadsEnd == \A t \in Threads : pc[t] # "idle" ~> pc[t] = "ended"

(* docs/implementation-log.md: "across at most three attempts and two      *)
(* handoff records".  The code does not keep it: README, section 5.        *)
HandoffRecordsWithinLimit == rows <= MaxHandoffs
=============================================================================
