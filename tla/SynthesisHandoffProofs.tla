----------------------- MODULE SynthesisHandoffProofs -----------------------
(***************************************************************************)
(* The bounds of SynthesisHandoff, for any number of threads, connectors,  *)
(* attempts, handoffs and tries.  Each rests on the types and on a         *)
(* strengthening of its own.                                               *)
(***************************************************************************)
EXTENDS SynthesisHandoff, FiniteSetTheorems, TLAPS

Working(t) == pc[t] \notin {"idle", "ended"}

(* Threads that counted the rows and have yet to insert theirs. *)
Inserting == {t \in Threads : pc[t] = "insert"}
RowsInv == rows + Cardinality(Inserting) <= MaxHandoffs + (NThreads - 1)

(* Requests k attempts may send, and those a thread had left behind it     *)
(* when it began its present call.                                         *)
Quota(k) == 2 * MaxTries * k
Base(t) == Quota(attempt[t] - 1) + (IF reformat[t] THEN MaxTries ELSE 0)
SendsOf(t) ==
  /\ pc[t] \in {"idle", "call", "insert"} => sends[t] <= Base(t)
  /\ pc[t] = "send" => sends[t] + 1 <= Base(t) + tries[t]
  /\ pc[t] = "parse" => sends[t] <= Base(t) + tries[t]
  /\ sends[t] <= Quota(attempt[t])
SendsInv == \A t \in Threads : SendsOf(t)

(* A thread that somebody follows can no longer bring a result. *)
Passed(t) == ~active[t] \/ outcome[t] = "failed"
ResultInv ==
  /\ \A t \in Threads : pc[t] # "ended" => outcome[t] = "none"
  /\ \A t \in Threads : ~active[t] => pc[t] # "idle" /\ outcome[t] \notin Completed
  /\ \A s, t \in Threads : s < t /\ pc[t] # "idle" => Passed(s)
-----------------------------------------------------------------------------
(* What the headers say and what becomes of it is a status. *)
LEMMA StatusKept ==
  ASSUME NEW c \in Connectors, NEW windows, TypeOK,
         update(c, snapshot_from_headers(windows))
  PROVE  capacity' \in [Connectors -> Statuses]
<1>1. snapshot_from_headers(windows) \in Statuses
  BY DEF snapshot_from_headers, Statuses
<1>2. QED BY <1>1 DEF update, TypeOK

(* A snapshot moves a connector to a known status. *)
LEMMA StatusKnown ==
  ASSUME NEW c \in Connectors, NEW status \in Statuses, TypeOK, update(c, status)
  PROVE  capacity' \in [Connectors -> Statuses]
BY DEF update, TypeOK

(* The end of a thread keeps the types of both variables. *)
LEMMA EndTypes ==
  ASSUME TypeOK, NEW t \in Threads, NEW result \in Outcomes, End(t, result)
  PROVE  /\ pc' \in [Threads -> {"idle", "call", "send", "parse", "choose", "insert", "ended"}]
         /\ outcome' \in [Threads -> Outcomes]
BY DEF TypeOK, End, Go, Outcomes

(* Types at first. *)
LEMMA InitTypes == Init => TypeOK
BY ConnectorsAssumption, LimitsAssumption DEF Init, TypeOK, Outcomes, Statuses

(* Every step of every thread keeps the types. *)
LEMMA NextTypes == TypeOK /\ [Next]_vars => TypeOK'
<1> SUFFICES ASSUME TypeOK, [Next]_vars PROVE TypeOK'
  OBVIOUS
<1> USE LimitsAssumption
<1>0. CASE UNCHANGED vars
  BY <1>0 DEF vars, locals, TypeOK
<1>1. ASSUME NEW t \in Threads, Dispatch(t) PROVE TypeOK'
  <2>1. /\ pc' \in [Threads -> {"idle", "call", "send", "parse", "choose", "insert", "ended"}]
        /\ outcome' \in [Threads -> Outcomes]
    <3>1. CASE decision = "pause"
      BY <1>1, <3>1, EndTypes DEF Dispatch, Outcomes
    <3>2. CASE decision \in {"local", "reshape"}
      BY <1>1, <3>2, EndTypes DEF Dispatch, Outcomes, Completed
    <3>3. CASE decision = "route"
      BY <1>1, <3>3 DEF Dispatch, Go, TypeOK
    <3>4. QED BY <3>1, <3>2, <3>3 DEF TypeOK, Decisions
  <2>2. QED BY <1>1, <2>1 DEF Dispatch, locals, TypeOK
<1>2. ASSUME NEW t \in Threads, BudgetStop(t) PROVE TypeOK'
  <2>1. End(t, "failed") BY <1>2 DEF BudgetStop
  <2>2. QED BY <1>2, <2>1, EndTypes DEF BudgetStop, Outcomes, locals, TypeOK
<1>3. ASSUME NEW t \in Threads, CapacityRefused(t) PROVE TypeOK'
  BY <1>3 DEF CapacityRefused, Go, locals, TypeOK
<1>4. ASSUME NEW t \in Threads, Authorized(t) PROVE TypeOK'
  BY <1>4 DEF Authorized, Go, TypeOK
<1>5. ASSUME NEW t \in Threads, Sent(t), Retry(t) \/ UNCHANGED tries,
             \/ Retry(t)
             \/ End(t, "failed")
             \/ outcome' = outcome /\ Go(t, "parse")
             \/ outcome' = outcome /\ Go(t, "choose"),
             capacity' \in [Connectors -> Statuses]
      PROVE  TypeOK'
  <2>1. tries' \in [Threads -> 1..MaxTries]
    BY <1>5 DEF Retry, TypeOK
  <2>2. /\ pc' \in [Threads -> {"idle", "call", "send", "parse", "choose", "insert", "ended"}]
        /\ outcome' \in [Threads -> Outcomes]
    <3>1. CASE End(t, "failed") BY <3>1, EndTypes DEF Outcomes
    <3>2. CASE Retry(t) BY <3>2 DEF Retry, Go, TypeOK
    <3>3. CASE outcome' = outcome /\ Go(t, "parse") BY <3>3 DEF Go, TypeOK
    <3>4. CASE outcome' = outcome /\ Go(t, "choose") BY <3>4 DEF Go, TypeOK
    <3>5. QED BY <1>5, <3>1, <3>2, <3>3, <3>4
  <2>3. /\ sends' \in [Threads -> Nat]
        /\ UNCHANGED <<decision, conn, tried, attempt, reformat, active, rows>>
    BY <1>5 DEF Sent, TypeOK
  <2>4. capacity' \in [Connectors -> Statuses]
    BY <1>5
  <2>5. QED BY <2>1, <2>2, <2>3, <2>4 DEF TypeOK
<1>6. ASSUME NEW t \in Threads, HttpResponse(t) PROVE TypeOK'
  <2>1. conn[t] \in Connectors BY DEF TypeOK
  <2>2. capacity' \in [Connectors -> Statuses]
    BY <1>6, <2>1, StatusKept DEF HttpResponse
  <2>3. QED BY <1>5, <1>6, <2>2 DEF HttpResponse
<1>7. ASSUME NEW t \in Threads, HttpSilence(t) PROVE TypeOK'
  BY <1>5, <1>7 DEF HttpSilence, TypeOK
<1>8. ASSUME NEW t \in Threads, CliResponse(t) PROVE TypeOK'
  <2>1. conn[t] \in Connectors BY DEF TypeOK
  <2>2. capacity' \in [Connectors -> Statuses]
    <3>1. CASE UNCHANGED capacity BY <3>1 DEF TypeOK
    <3>2. CASE update(conn[t], "unknown") BY <3>2, <2>1, StatusKnown DEF Statuses
    <3>3. CASE update(conn[t], "exhausted") BY <3>3, <2>1, StatusKnown DEF Statuses
    <3>4. QED BY <1>8, <3>1, <3>2, <3>3 DEF CliResponse
  <2>3. QED BY <1>5, <1>8, <2>2 DEF CliResponse
<1>9. ASSUME NEW t \in Threads, Parse(t) PROVE TypeOK'
  <2>1. /\ pc' \in [Threads -> {"idle", "call", "send", "parse", "choose", "insert", "ended"}]
        /\ outcome' \in [Threads -> Outcomes]
    <3>1. ASSUME NEW result \in {"failed", "model", "model_repaired", "extractive_fallback"},
                 End(t, result)
          PROVE  <2>1!1 /\ <2>1!2
      BY <3>1, EndTypes DEF Outcomes, Completed
    <3>2. CASE Go(t, "call") /\ UNCHANGED outcome
      BY <3>2 DEF Go, TypeOK
    <3>3. QED BY <1>9, <3>1, <3>2 DEF Parse
  <2>2. reformat' \in [Threads -> BOOLEAN]
    BY <1>9 DEF Parse, TypeOK
  <2>3. QED BY <1>9, <2>1, <2>2 DEF Parse, TypeOK
<1>10. ASSUME NEW t \in Threads, GiveUp(t) PROVE TypeOK'
  <2>1. \E result \in {"failed", "extractive_provider_fallback"} : End(t, result)
    BY <1>10 DEF GiveUp
  <2>2. QED BY <1>10, <2>1, EndTypes DEF GiveUp, Outcomes, Completed, locals, TypeOK
<1>11. ASSUME NEW t \in Threads, Choose(t) PROVE TypeOK'
  <2>1. attempt' \in [Threads -> 1..MaxAttempts]
    BY <1>11 DEF Choose, Refused, TypeOK
  <2>2. QED BY <1>11, <2>1 DEF Choose, Available, Go, TypeOK
<1>12. ASSUME NEW t \in Threads, Insert(t) PROVE TypeOK'
  BY <1>12 DEF Insert, Go, locals, TypeOK
<1>13. ASSUME NEW t \in Threads, Timeout(t) PROVE TypeOK'
  BY <1>13 DEF Timeout, locals, TypeOK
<1>14. ASSUME NEW c \in Connectors, Expire(c) PROVE TypeOK'
  BY <1>14 DEF Expire, locals, TypeOK, Statuses
<1>15. QED
  BY <1>0, <1>1, <1>2, <1>3, <1>4, <1>6, <1>7, <1>8, <1>9, <1>10, <1>11, <1>12, <1>13, <1>14
     DEF Next, Step

(* The variables keep their types for any number of threads, connectors,   *)
(* attempts, handoffs and tries.                                           *)
THEOREM HandoffTypes == Spec => []TypeOK
<1>1. QED BY InitTypes, NextTypes, PTL DEF Spec
-----------------------------------------------------------------------------
(* Only Choose touches the connectors of a thread, and it adds a new one.  *)
LEMMA ReplaysStep == TypeOK /\ NeverReplays /\ [Next]_vars => NeverReplays'
<1> SUFFICES ASSUME TypeOK, NeverReplays, [Next]_vars PROVE NeverReplays'
  OBVIOUS
<1>1. CASE UNCHANGED <<conn, tried, attempt>>
  BY <1>1 DEF NeverReplays
<1>2. ASSUME NEW t \in Threads, Choose(t) PROVE NeverReplays'
  <2>1. PICK c \in Available(t) :
          /\ conn' = [conn EXCEPT ![t] = c]
          /\ tried' = [tried EXCEPT ![t] = @ \cup {c}]
    BY <1>2 DEF Choose
  <2>2. c \notin tried[t] /\ IsFiniteSet(tried[t])
    BY <2>1, ConnectorsAssumption, FS_Subset DEF Available, TypeOK
  <2>3. Cardinality(tried[t] \cup {c}) = attempt[t] + 1
    BY <2>2, FS_AddElement DEF NeverReplays
  <2>4. attempt' = [attempt EXCEPT ![t] = @ + 1]
    BY <1>2 DEF Choose
  <2>5. QED BY <2>1, <2>3, <2>4 DEF NeverReplays, TypeOK
<1>3. ASSUME NEW t \in Threads, Dispatch(t) \/ Timeout(t) \/ (Step(t) /\ ~Choose(t))
      PROVE  UNCHANGED <<conn, tried, attempt>>
  BY <1>3 DEF Dispatch, Timeout, Step, BudgetStop, CapacityRefused, Authorized, HttpResponse,
              HttpSilence, CliResponse, Sent, Parse, GiveUp, Insert, locals
<1>4. ASSUME NEW c \in Connectors, Expire(c) PROVE UNCHANGED <<conn, tried, attempt>>
  BY <1>4 DEF Expire, locals
<1>5. QED BY <1>1, <1>2, <1>3, <1>4 DEF Next, vars, locals

(* No thread asks a connector twice, for any number of them.               *)
THEOREM Replays == Spec => []NeverReplays
<1>1. Init => NeverReplays
  <2>1. Cardinality({First}) = 1 BY FS_Singleton
  <2>2. QED BY <2>1 DEF Init, NeverReplays
<1>2. QED BY <1>1, ReplaysStep, HandoffTypes, PTL DEF Spec
-----------------------------------------------------------------------------
(* Threads can be counted, up to NThreads. *)
LEMMA ThreadsAreFinite ==
  ASSUME NEW S \in SUBSET Threads
  PROVE  IsFiniteSet(S) /\ Cardinality(S) \in Nat /\ Cardinality(S) <= NThreads
<1>1. IsFiniteSet(Threads) /\ Cardinality(Threads) = NThreads
  BY ThreadsAssumption, FS_Interval DEF Threads
<1>2. QED BY <1>1, FS_Subset, FS_CardinalityType

(* Whoever counts is not inserting, so that at most the others are.        *)
LEMMA RowsStep == TypeOK /\ RowsInv /\ [Next]_vars => RowsInv'
<1> SUFFICES ASSUME TypeOK, RowsInv, [Next]_vars PROVE RowsInv'
  OBVIOUS
<1> USE ThreadsAssumption, LimitsAssumption
<1>0. Inserting \in SUBSET Threads /\ rows \in Nat
  BY DEF Inserting, TypeOK
<1>1. ASSUME Inserting' = Inserting, rows' = rows PROVE RowsInv'
  BY <1>1 DEF RowsInv
<1>2. ASSUME NEW t \in Threads, Choose(t) PROVE RowsInv'
  <2>1. Inserting' = Inserting \cup {t} /\ t \notin Inserting
    BY <1>2 DEF Choose, Go, Inserting, TypeOK
  <2>2. rows' = rows /\ rows < MaxHandoffs
    BY <1>2 DEF Choose, Refused, TypeOK
  <2>3. Cardinality(Inserting') = Cardinality(Inserting) + 1
    BY <1>0, <2>1, ThreadsAreFinite, FS_AddElement
  <2>4. Cardinality(Inserting') <= NThreads
    BY <1>0, <2>1, ThreadsAreFinite
  <2>5. Cardinality(Inserting) \in Nat
    BY <1>0, ThreadsAreFinite
  <2>6. QED BY <1>0, <2>2, <2>3, <2>4, <2>5 DEF RowsInv
<1>3. ASSUME NEW t \in Threads, Insert(t) PROVE RowsInv'
  <2>1. Inserting' = Inserting \ {t} /\ t \in Inserting /\ rows' = rows + 1
    BY <1>3 DEF Insert, Go, Inserting, TypeOK
  <2>2. Cardinality(Inserting') = Cardinality(Inserting) - 1
    BY <1>0, <2>1, ThreadsAreFinite, FS_RemoveElement
  <2>3. Cardinality(Inserting) \in Nat
    BY <1>0, ThreadsAreFinite
  <2>4. QED BY <1>0, <2>1, <2>2, <2>3 DEF RowsInv
<1>4. ASSUME NEW t \in Threads, Dispatch(t) \/ Timeout(t) \/ (Step(t) /\ ~Choose(t) /\ ~Insert(t))
      PROVE  Inserting' = Inserting /\ rows' = rows
  <2>1. rows' = rows
    BY <1>4 DEF Dispatch, Timeout, Step, BudgetStop, CapacityRefused, Authorized, HttpResponse,
                HttpSilence, CliResponse, Sent, Parse, GiveUp, locals
  <2>2. CASE UNCHANGED pc
    BY <2>1, <2>2 DEF Inserting
  <2>3. ASSUME NEW label, Go(t, label), label # "insert", pc[t] # "insert"
        PROVE  Inserting' = Inserting
    BY <2>3 DEF Go, Inserting, TypeOK
  <2>4. CASE pc' # pc
    BY <1>4, <2>1, <2>3, <2>4
       DEF Dispatch, Timeout, Step, BudgetStop, CapacityRefused, Authorized, HttpResponse,
           HttpSilence, CliResponse, Sent, Retry, End, Parse, GiveUp, Decisions, TypeOK
  <2>5. QED BY <2>1, <2>2, <2>4
<1>5. ASSUME (\E c \in Connectors : Expire(c)) \/ UNCHANGED vars
      PROVE  Inserting' = Inserting /\ rows' = rows
  BY <1>5 DEF Expire, vars, Inserting
<1>6. QED BY <1>1, <1>2, <1>3, <1>4, <1>5 DEF Next

(* However many threads hand the task off, only one row per further thread *)
(* comes on top of the limit.                                              *)
THEOREM HandoffRows == Spec => []HandoffsBounded
<1>1. Init => RowsInv
  <2>1. SUFFICES ASSUME Init PROVE RowsInv
    OBVIOUS
  <2>2. Inserting = {}
    BY <2>1 DEF Init, Inserting
  <2>3. QED BY <2>1, <2>2, FS_EmptySet, ThreadsAssumption, LimitsAssumption DEF Init, RowsInv
<1>2. TypeOK /\ RowsInv => HandoffsBounded
  <2>1. SUFFICES ASSUME TypeOK, RowsInv PROVE HandoffsBounded
    OBVIOUS
  <2>2. Cardinality(Inserting) \in Nat
    BY ThreadsAreFinite DEF Inserting
  <2>3. QED BY <2>1, <2>2, ThreadsAssumption, LimitsAssumption
            DEF RowsInv, HandoffsBounded, TypeOK
<1>3. QED BY <1>1, <1>2, RowsStep, HandoffTypes, PTL DEF Spec
-----------------------------------------------------------------------------
(* What a thread does leaves the counters of the others alone.             *)
Untouched(u) ==
  /\ pc'[u] = pc[u] /\ attempt'[u] = attempt[u] /\ tries'[u] = tries[u]
  /\ reformat'[u] = reformat[u] /\ sends'[u] = sends[u]

(* What a thread sends is no concern of the others. *)
LEMMA OthersSends ==
  ASSUME SendsInv, NEW t \in Threads, SendsOf(t)', \A u \in Threads \ {t} : Untouched(u)
  PROVE  SendsInv'
<1>1. ASSUME NEW u \in Threads, u # t PROVE SendsOf(u)'
  <2>1. SendsOf(u) /\ Untouched(u) BY <1>1 DEF SendsInv
  <2>2. QED BY <2>1 DEF SendsOf, Untouched, Base, Quota
<1>2. QED BY <1>1 DEF SendsInv

(* Where an attempt of a thread stands: what is left of its quota.         *)
LEMMA QuotaOfAttempt ==
  ASSUME TypeOK, NEW t \in Threads
  PROVE  /\ Base(t) \in Nat /\ Quota(attempt[t]) \in Nat /\ Quota(attempt[t] - 1) \in Nat
         /\ Base(t) + MaxTries <= Quota(attempt[t])
         /\ ~reformat[t] => Base(t) + MaxTries + MaxTries = Quota(attempt[t])
<1>1. attempt[t] \in Nat \ {0} /\ MaxTries \in Nat \ {0} /\ reformat[t] \in BOOLEAN
  BY LimitsAssumption DEF TypeOK
<1>2. Quota(attempt[t] - 1) \in Nat
  BY <1>1 DEF Quota
<1>3. Quota(attempt[t]) = Quota(attempt[t] - 1) + MaxTries + MaxTries
  BY <1>1 DEF Quota
<1>4. QED BY <1>1, <1>2, <1>3 DEF Base

(* Every step keeps what the threads may have sent. *)
LEMMA SendsStep == TypeOK /\ SendsInv /\ [Next]_vars => SendsInv'
<1> SUFFICES ASSUME TypeOK, SendsInv, [Next]_vars PROVE SendsInv'
  OBVIOUS
<1> USE LimitsAssumption
<1>0. CASE UNCHANGED <<pc, attempt, tries, reformat, sends>>
  BY <1>0 DEF SendsInv, SendsOf, Base, Quota
<1>1. ASSUME NEW t \in Threads, UNCHANGED <<attempt, tries, reformat, sends>>,
             NEW label \in {"call", "choose", "ended"}, Go(t, label),
             label = "call" => pc[t] \in {"idle", "insert"}
      PROVE  SendsInv'
  <2>1. SendsOf(t)'
    BY <1>1 DEF SendsInv, SendsOf, Base, Quota, Go, TypeOK
  <2>2. \A u \in Threads \ {t} : Untouched(u)
    BY <1>1 DEF Untouched, Go, TypeOK
  <2>3. QED BY <2>1, <2>2, OthersSends
<1>2. ASSUME NEW t \in Threads, Authorized(t) PROVE SendsInv'
  <2>1. SendsOf(t)'
    BY <1>2 DEF Authorized, SendsInv, SendsOf, Base, Quota, Go, TypeOK
  <2>2. \A u \in Threads \ {t} : Untouched(u)
    BY <1>2 DEF Authorized, Untouched, Go, TypeOK
  <2>3. QED BY <2>1, <2>2, OthersSends
<1>3. ASSUME NEW t \in Threads, Sent(t),
             \/ Retry(t)
             \/ UNCHANGED tries /\ \E label \in {"parse", "choose", "ended"} : Go(t, label)
      PROVE  SendsInv'
  <2>1. sends[t] + 1 <= Base(t) + tries[t] /\ sends[t] \in Nat /\ tries[t] \in 1..MaxTries
    BY <1>3 DEF Sent, SendsInv, SendsOf, TypeOK
  <2>2. sends'[t] = sends[t] + 1 /\ UNCHANGED <<attempt, reformat>>
    BY <1>3 DEF Sent, TypeOK
  <2>3. sends'[t] <= Quota(attempt[t])
    BY <2>1, <2>2, QuotaOfAttempt
  <2>4. SendsOf(t)'
    <3>1. CASE Retry(t) /\ tries[t] < MaxTries
      <4>1. pc'[t] = "send" /\ tries'[t] = tries[t] + 1
        BY <1>3, <3>1 DEF Retry, Sent, TypeOK
      <4>2. QED BY <2>1, <2>2, <2>3, <4>1, QuotaOfAttempt DEF SendsOf, Base, Quota
    <3>2. CASE Retry(t) /\ ~(tries[t] < MaxTries)
      <4>1. pc'[t] = "choose"
        BY <3>2 DEF Retry, Go, TypeOK
      <4>2. QED BY <2>2, <2>3, <4>1 DEF SendsOf, Quota
    <3>3. ASSUME UNCHANGED tries, NEW label \in {"parse", "choose", "ended"}, Go(t, label)
          PROVE  SendsOf(t)'
      <4>1. pc'[t] \in {"parse", "choose", "ended"}
        BY <3>3 DEF Go, TypeOK
      <4>2. QED BY <2>1, <2>2, <2>3, <3>3, <4>1, QuotaOfAttempt DEF SendsOf, Base, Quota
    <3>4. QED BY <1>3, <3>1, <3>2, <3>3
  <2>5. \A u \in Threads \ {t} : Untouched(u)
    BY <1>3 DEF Sent, Retry, Untouched, Go, TypeOK
  <2>6. QED BY <2>4, <2>5, OthersSends
<1>4. ASSUME NEW t \in Threads, Parse(t), pc'[t] = "call" PROVE SendsInv'
  <2>1. /\ pc[t] = "parse" /\ ~reformat[t]
        /\ reformat' = [reformat EXCEPT ![t] = TRUE]
        /\ Go(t, "call")
        /\ UNCHANGED <<attempt, tries, sends>>
    BY <1>4 DEF Parse, End, Go, TypeOK
  <2>2. sends[t] <= Base(t) + tries[t] /\ sends[t] <= Quota(attempt[t])
        /\ tries[t] \in 1..MaxTries /\ sends[t] \in Nat
    BY <2>1 DEF SendsInv, SendsOf, TypeOK
  <2>3. Base(t) = Quota(attempt[t] - 1) /\ Base(t) \in Nat
    BY <2>1, QuotaOfAttempt DEF Base
  <2>4. reformat'[t] /\ attempt'[t] = attempt[t] /\ sends'[t] = sends[t]
    BY <2>1 DEF TypeOK
  <2>5. sends[t] <= Quota(attempt[t] - 1) + MaxTries
    BY <2>2, <2>3
  <2>6. SendsOf(t)'
    BY <1>4, <2>2, <2>4, <2>5 DEF SendsOf, Base, Quota
  <2>7. \A u \in Threads \ {t} : Untouched(u)
    BY <2>1 DEF Untouched, Go, TypeOK
  <2>8. QED BY <2>6, <2>7, OthersSends
<1>5. ASSUME NEW t \in Threads, Choose(t) PROVE SendsInv'
  <2>1. /\ attempt'[t] = attempt[t] + 1 /\ ~reformat'[t] /\ pc'[t] = "insert"
        /\ sends' = sends /\ sends[t] \in Nat /\ attempt[t] \in Nat
    BY <1>5 DEF Choose, Go, TypeOK
  <2>2. sends[t] <= Quota(attempt[t])
    BY DEF SendsInv, SendsOf
  <2>3. (attempt[t] + 1) - 1 = attempt[t]
    BY <2>1
  <2>4. Quota(attempt[t]) <= Quota(attempt[t] + 1)
        /\ Quota(attempt[t]) \in Nat /\ Quota(attempt[t] + 1) \in Nat
    BY <2>1 DEF Quota
  <2>5. SendsOf(t)'
    BY <2>1, <2>2, <2>3, <2>4 DEF SendsOf, Base, Quota
  <2>6. \A u \in Threads \ {t} : Untouched(u)
    BY <1>5 DEF Choose, Untouched, Go, TypeOK
  <2>7. QED BY <2>5, <2>6, OthersSends
<1>6. ASSUME NEW t \in Threads, Dispatch(t) PROVE SendsInv'
  <2>1. \E label \in {"call", "ended"} : Go(t, label)
    BY <1>6 DEF Dispatch, End, Decisions, TypeOK
  <2>2. QED BY <1>1, <1>6, <2>1 DEF Dispatch, locals
<1>7. ASSUME NEW t \in Threads, BudgetStop(t) \/ CapacityRefused(t) \/ GiveUp(t) \/ Insert(t)
      PROVE  SendsInv'
  BY <1>1, <1>7 DEF BudgetStop, CapacityRefused, GiveUp, Insert, End, locals
<1>8. ASSUME NEW t \in Threads, HttpResponse(t) \/ HttpSilence(t) \/ CliResponse(t)
      PROVE  SendsInv'
  BY <1>3, <1>8 DEF HttpResponse, HttpSilence, CliResponse, End
<1>9. ASSUME NEW t \in Threads, Parse(t) PROVE SendsInv'
  <2>1. CASE pc'[t] = "call" BY <1>4, <1>9, <2>1
  <2>2. CASE pc'[t] # "call"
    <3>1. Go(t, "ended") /\ UNCHANGED <<attempt, tries, reformat, sends>>
      BY <1>9, <2>2 DEF Parse, End, Go, TypeOK
    <3>2. QED BY <1>1, <3>1
  <2>3. QED BY <2>1, <2>2
<1>10. ASSUME (\E t \in Threads : Timeout(t)) \/ (\E c \in Connectors : Expire(c)) \/ UNCHANGED vars
       PROVE  SendsInv'
  BY <1>0, <1>10 DEF Timeout, Expire, locals, vars
<1>11. QED
  BY <1>2, <1>5, <1>6, <1>7, <1>8, <1>9, <1>10 DEF Next, Step

(* Retries, a reformat and handoffs multiply and no more than that, for    *)
(* every limit.                                                            *)
THEOREM Sends == Spec => []SendsBounded
<1>1. Init => SendsInv
  BY LimitsAssumption DEF Init, SendsInv, SendsOf, Base, Quota
<1>2. SendsInv => SendsBounded
  BY DEF SendsInv, SendsOf, SendsBounded, Quota
<1>3. QED BY <1>1, <1>2, SendsStep, HandoffTypes, PTL DEF Spec
-----------------------------------------------------------------------------
(* An end of a thread: nothing if the guard is closed.                     *)
LEMMA ResultEnd ==
  ASSUME TypeOK, ResultInv, NEW t \in Threads, NEW result, End(t, result),
         Working(t) \/ (pc[t] = "idle" /\ \A s \in Threads : s < t => Passed(s)),
         active' = active
  PROVE  ResultInv'
<1>1. /\ pc' = [pc EXCEPT ![t] = "ended"]
      /\ outcome' = [outcome EXCEPT ![t] = IF active[t] THEN result ELSE "dropped"]
  BY DEF End, Go
<1>2. outcome[t] = "none"
  BY DEF ResultInv, Working
<1>3. \A u \in Threads : pc'[u] # "ended" => outcome'[u] = "none"
  BY <1>1 DEF ResultInv, TypeOK
<1>4. \A u \in Threads : ~active'[u] => pc'[u] # "idle" /\ outcome'[u] \notin Completed
  BY <1>1 DEF ResultInv, TypeOK, Completed
<1>5. ASSUME NEW s \in Threads, Passed(s) PROVE Passed(s)'
  BY <1>1, <1>2, <1>5 DEF Passed, TypeOK
<1>6. ASSUME NEW s \in Threads, NEW u \in Threads, s < u, pc'[u] # "idle"
      PROVE  Passed(s)'
  <2>1. Passed(s)
    BY <1>1, <1>6 DEF ResultInv, Working, TypeOK
  <2>2. QED BY <1>5, <2>1
<1>7. QED BY <1>3, <1>4, <1>6 DEF ResultInv

(* Every step keeps who may still bring a result. *)
LEMMA ResultStep == TypeOK /\ ResultInv /\ [Next]_vars => ResultInv'
<1> SUFFICES ASSUME TypeOK, ResultInv, [Next]_vars PROVE ResultInv'
  OBVIOUS
<1>0. CASE UNCHANGED <<pc, active, outcome>>
  BY <1>0 DEF ResultInv, Passed
<1>1. ASSUME NEW t \in Threads, NEW label, label \notin {"idle", "ended"}, Go(t, label),
             UNCHANGED <<active, outcome>>,
             Working(t) \/ (pc[t] = "idle" /\ \A s \in Threads : s < t => Passed(s))
      PROVE  ResultInv'
  <2>1. pc' = [pc EXCEPT ![t] = label]
    BY <1>1 DEF Go
  <2>2. \A s \in Threads : Passed(s)' <=> Passed(s)
    BY <1>1 DEF Passed
  <2>3. \A u \in Threads : pc'[u] # "ended" => outcome'[u] = "none"
    BY <1>1, <2>1 DEF ResultInv, TypeOK, Working
  <2>4. \A u \in Threads : ~active'[u] => pc'[u] # "idle" /\ outcome'[u] \notin Completed
    BY <1>1, <2>1 DEF ResultInv, TypeOK
  <2>5. \A s, u \in Threads : s < u /\ pc'[u] # "idle" => Passed(s)'
    BY <1>1, <2>1, <2>2 DEF ResultInv, TypeOK, Working
  <2>6. QED BY <2>3, <2>4, <2>5 DEF ResultInv
<1>2. ASSUME NEW t \in Threads, Dispatch(t) PROVE ResultInv'
  <2>1. ASSUME NEW s \in Threads, s < t PROVE Passed(s)
    <3>1. t \in Nat /\ s \in Nat /\ t - 1 \in Threads /\ (t - 1) + 1 = t
      BY <2>1, ThreadsAssumption DEF Threads
    <3>2. Passed(t - 1)
      BY <1>2, <3>1 DEF Dispatch, Passed
    <3>3. pc[t - 1] # "idle"
      BY <3>1, <3>2 DEF Passed, ResultInv
    <3>4. CASE s = t - 1 BY <3>2, <3>4
    <3>5. CASE s < t - 1 BY <3>1, <3>3, <3>5 DEF ResultInv
    <3>6. QED BY <2>1, <3>1, <3>4, <3>5
  <2>2. pc[t] = "idle" /\ active' = active
    BY <1>2 DEF Dispatch
  <2>3. CASE \E result \in {"paused", "extractive"} : End(t, result)
    BY <2>1, <2>2, <2>3, ResultEnd
  <2>4. CASE Go(t, "call") /\ UNCHANGED outcome
    BY <1>1, <2>1, <2>2, <2>4
  <2>5. QED BY <1>2, <2>3, <2>4 DEF Dispatch, Decisions, TypeOK
<1>3. ASSUME NEW t \in Threads, Step(t) PROVE ResultInv'
  <2>1. Working(t) /\ active' = active
    BY <1>3 DEF Step, Working, BudgetStop, CapacityRefused, Authorized, HttpResponse,
                HttpSilence, CliResponse, Sent, Parse, GiveUp, Choose, Insert
  <2>2. \/ \E result \in Outcomes : End(t, result)
        \/ outcome' = outcome /\ \E label \in {"call", "send", "parse", "choose", "insert"} : Go(t, label)
        \/ UNCHANGED <<pc, outcome>>
    BY <1>3 DEF Step, BudgetStop, CapacityRefused, Authorized, HttpResponse, HttpSilence, Retry,
                CliResponse, Parse, GiveUp, Choose, Insert, Outcomes, Completed
  <2>3. QED BY <1>0, <1>1, <2>1, <2>2, ResultEnd
<1>4. ASSUME NEW t \in Threads, Timeout(t) PROVE ResultInv'
  <2>1. pc' = pc /\ outcome' = outcome /\ active' = [active EXCEPT ![t] = FALSE]
    BY <1>4 DEF Timeout
  <2>2. outcome[t] = "none" /\ pc[t] # "idle"
    BY <1>4 DEF Timeout, ResultInv
  <2>3. \A s \in Threads : Passed(s) => Passed(s)'
    BY <2>1 DEF Passed, TypeOK
  <2>4. \A u \in Threads : ~active'[u] => pc'[u] # "idle" /\ outcome'[u] \notin Completed
    BY <2>1, <2>2 DEF ResultInv, TypeOK, Completed
  <2>5. QED BY <2>1, <2>3, <2>4 DEF ResultInv
<1>5. ASSUME (\E c \in Connectors : Expire(c)) \/ UNCHANGED vars PROVE ResultInv'
  BY <1>0, <1>5 DEF Expire, vars
<1>6. QED BY <1>2, <1>3, <1>4, <1>5 DEF Next

(* A task gets one result from all its threads, however many there are and *)
(* whenever the abandoned ones answer.                                     *)
THEOREM SingleResult == Spec => []OneResult
<1>1. Init => ResultInv
  BY DEF Init, ResultInv, Completed
<1>2. TypeOK /\ ResultInv => OneResult
  <2>1. SUFFICES ASSUME ResultInv, NEW s \in Threads, NEW t \in Threads,
                        outcome[s] \in Completed, outcome[t] \in Completed, s < t
                 PROVE  FALSE
    BY DEF OneResult, Threads
  <2>2. pc[t] # "idle"
    BY <2>1 DEF ResultInv, Completed
  <2>3. Passed(s)
    BY <2>1, <2>2 DEF ResultInv
  <2>4. QED BY <2>1, <2>3 DEF Passed, ResultInv, Completed
<1>3. QED BY <1>1, <1>2, ResultStep, HandoffTypes, PTL DEF Spec
=============================================================================
