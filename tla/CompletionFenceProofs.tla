----------------------- MODULE CompletionFenceProofs -----------------------
(***************************************************************************)
(* Proofs about CompletionFence, for any number of attempts, calls and     *)
(* prices.  The inductive invariant says where each call id can be held:   *)
(* by its own thread, in its own attempt's cleanups, nowhere else.  From   *)
(* it the ledger is shown to be the run budget, which needs what a sum     *)
(* does when an entry is added, replaced or taken out.                     *)
(***************************************************************************)
EXTENDS CompletionFence, FiniteSetTheorems, WellFoundedInduction, TLAPS

(* Call ids are private: no other attempt can forget or release mine. *)
PrivateCalls ==
  \A a, b \in Attempts :
    a # b /\ call[a] # 0 =>
      /\ call[a] # call[b]
      /\ call[a] \notin cleanups[b]
      /\ call[a] \notin cleaning[b]
      /\ call[a] # sweep[b]

(* Only an attempt's latest call can be open. *)
OpenIsLatest == \A i \in DOMAIN reservations : call[reservations[i].attempt] = i

(* Between calls, and after a thread protected by its try, nothing is open. *)
ClosedBetweenCalls ==
  \A a \in Attempts :
    \/ pc[a] \in {"begin", "authorize", "answered", "failed"}
    \/ a \in Protected /\ pc[a] \in Finished
    => call[a] \notin DOMAIN reservations

(* While the lease is open, a call on its way keeps what its commit needs. *)
OpenLeaseKeeps ==
  \A a \in Attempts :
    active[a] /\ pc[a] \in {"register", "transport", "commit", "settle"} =>
      /\ call[a] \in DOMAIN reservations
      /\ pc[a] # "settle" => call[a] \in guards
      /\ pc[a] # "register" => call[a] \in cleanups[a]
      /\ pc[a] = "settle" => fenced[a]

(* Once it is closed, the call is released or about to be; only a closed   *)
(* lease makes the registration release at once.                           *)
ClosedLeaseReleases ==
  \A a \in Attempts :
    /\ ~active[a] /\ pc[a] \in {"transport", "commit", "settle"} =>
         call[a] \in cleaning[a] \/ call[a] \notin DOMAIN reservations
    /\ pc[a] \in {"now_forget", "now_release"} => ~active[a]

(* The waiting thread and the guard agree. *)
WaiterAgrees ==
  \A a \in Attempts :
    /\ active[a] <=> wait[a] \in {"waiting", "collected"}
    /\ active[a] => cleaning[a] = {} /\ sweep[a] = 0
    /\ wait[a] = "timed_out" => cleaning[a] = {}

IInv ==
  /\ TypeOK
  /\ PrivateCalls
  /\ OpenIsLatest
  /\ ClosedBetweenCalls
  /\ OpenLeaseKeeps
  /\ ClosedLeaseReleases
  /\ WaiterAgrees

(* The invariant holds before the first call is authorized. *)
LEMMA InitIInv == Init => IInv
<1> SUFFICES ASSUME Init PROVE IInv
  OBVIOUS
<1>1. DOMAIN reservations = {} /\ DOMAIN calls = {} /\ CallIds = {}
  BY DEF Init, CallIds
<1>2. TypeOK
  BY <1>1, FenceAssumption DEF Init, TypeOK, Finished, Labels
<1>3. PrivateCalls /\ OpenIsLatest /\ ClosedBetweenCalls
  BY <1>1 DEF Init, PrivateCalls, OpenIsLatest, ClosedBetweenCalls
<1>4. OpenLeaseKeeps /\ ClosedLeaseReleases /\ WaiterAgrees
  BY DEF Init, OpenLeaseKeeps, ClosedLeaseReleases, WaiterAgrees
<1> QED
  BY <1>2, <1>3, <1>4 DEF IInv

(* No operation of the ledger, the guard or the adapter leaves the types. *)
LEMMA TypeStep == TypeOK /\ [Next]_vars => TypeOK'
<1> SUFFICES ASSUME TypeOK, [Next]_vars PROVE TypeOK'
  OBVIOUS
<1> USE FenceAssumption DEF TypeOK, Go, ledger, guardvs, thread, waiter, CallIds
<1>1. ASSUME NEW a \in Attempts, NEW q \in Quotes, Authorize(a, q)
      PROVE  TypeOK'
  <2> DEFINE r == [attempt |-> a, quote |-> q]
  <2>1. r \in Reservation
    BY DEF Reservation
  <2>2. /\ DOMAIN reservations' = DOMAIN reservations \cup {sequence + 1}
        /\ \A i \in DOMAIN reservations' : reservations'[i] \in Reservation
    BY <1>1, <2>1 DEF Authorize, With
  <2>3. sequence' \in Nat /\ 1..sequence \subseteq 1..sequence' /\ 0..sequence \subseteq 0..sequence'
    BY <1>1 DEF Authorize
  <2>4. cleanups \in [Attempts -> SUBSET (0..sequence')] /\ cleaning \in [Attempts -> SUBSET (0..sequence')]
    BY <2>3
  <2>5. call' \in [Attempts -> 0..sequence'] /\ sweep \in [Attempts -> 0..sequence']
    BY <1>1, <2>3 DEF Authorize
  <2>6. DOMAIN reservations' \subseteq 1..sequence' /\ DOMAIN calls \subseteq 1..sequence'
    BY <1>1, <2>2, <2>3 DEF Authorize
  <2>7. guards' \subseteq 1..sequence'
    BY <1>1, <2>3 DEF Authorize
  <2>8. pc' \in [Attempts -> Labels]
    BY <1>1 DEF Authorize, Labels
  <2> QED
    BY <1>1, <2>2, <2>3, <2>4, <2>5, <2>6, <2>7, <2>8 DEF Authorize
<1>2. ASSUME NEW a \in Attempts, Release(a)
      PROVE  TypeOK'
  <2>1. /\ DOMAIN reservations' = DOMAIN reservations \ {call[a]}
        /\ \A i \in DOMAIN reservations' : reservations'[i] \in Reservation
    BY <1>2 DEF Release, Without
  <2> QED
    BY <1>2, <2>1 DEF Release, Labels
<1>3. ASSUME NEW a \in Attempts, Commit(a)
      PROVE  TypeOK'
  <2> DEFINE r == [attempt |-> a, quote |-> reservations[call[a]].quote, bill |-> bill[a]]
  <2>1. r \in Row
    BY <1>3 DEF Commit, Reservation, Row
  <2>2. /\ DOMAIN calls' = DOMAIN calls \cup {call[a]}
        /\ \A i \in DOMAIN calls' : calls'[i] \in Row
    BY <1>3, <2>1 DEF Commit, With
  <2>3. /\ DOMAIN reservations' = DOMAIN reservations \ {call[a]}
        /\ \A i \in DOMAIN reservations' : reservations'[i] \in Reservation
    BY <1>3 DEF Commit, Without
  <2> QED
    BY <1>3, <2>2, <2>3 DEF Commit, EndCommit, Labels
<1>4. ASSUME NEW a \in Attempts, CleanupRelease(a)
      PROVE  TypeOK'
  <2>1. /\ DOMAIN reservations' = DOMAIN reservations \ {sweep[a]}
        /\ \A i \in DOMAIN reservations' : reservations'[i] \in Reservation
    BY <1>4 DEF CleanupRelease, Without
  <2> QED
    BY <1>4, <2>1 DEF CleanupRelease
<1>5. ASSUME NEW a \in Attempts, Begin(a)
      PROVE  TypeOK'
  BY <1>5 DEF Begin, Labels, Finished
<1>6. ASSUME NEW a \in Attempts, Register(a)
      PROVE  TypeOK'
  BY <1>6 DEF Register, Labels, Finished
<1>7. ASSUME NEW a \in Attempts, ForgetGuard(a)
      PROVE  TypeOK'
  BY <1>7 DEF ForgetGuard, Labels, Finished
<1>8. ASSUME NEW a \in Attempts, Fail(a)
      PROVE  TypeOK'
  BY <1>8 DEF Fail, Labels, Finished
<1>9. ASSUME NEW a \in Attempts, Malformed(a)
      PROVE  TypeOK'
  BY <1>9 DEF Malformed, Labels, Finished, Uncaught
<1>10. ASSUME NEW a \in Attempts, TakeGuard(a)
      PROVE  TypeOK'
  <2>1. (call[a] \in guards) \in BOOLEAN
    OBVIOUS
  <2>2. fenced' \in [Attempts -> BOOLEAN]
    BY <1>10, <2>1 DEF TakeGuard
  <2> QED
    BY <1>10, <2>2 DEF TakeGuard, Labels, Finished
<1>11. ASSUME NEW a \in Attempts, CommitClosed(a)
      PROVE  TypeOK'
  BY <1>11 DEF CommitClosed, Labels, Finished, Uncaught, EndCommit
<1>12. ASSUME NEW a \in Attempts, RefuseLate(a)
      PROVE  TypeOK'
  BY <1>12 DEF RefuseLate, Labels, Finished, EndCommit
<1>13. ASSUME NEW a \in Attempts, Use(a)
      PROVE  TypeOK'
  BY <1>13 DEF Use, Labels, Finished
<1>14. ASSUME NEW a \in Attempts, Reformat(a)
      PROVE  TypeOK'
  BY <1>14 DEF Reformat, Labels, Finished
<1>15. ASSUME NEW a \in Attempts, Handoff(a)
      PROVE  TypeOK'
  BY <1>15 DEF Handoff, Labels, Finished
<1>16. ASSUME NEW a \in Attempts, GiveUp(a)
      PROVE  TypeOK'
  BY <1>16 DEF GiveUp, Labels, Finished
<1>17. ASSUME NEW a \in Attempts, NEW q \in Quotes, BudgetStop(a, q)
      PROVE  TypeOK'
  BY <1>17 DEF BudgetStop, Labels, Finished
<1>18. ASSUME NEW a \in Attempts, NEW b \in Bills, Respond(a, b)
      PROVE  TypeOK'
  BY <1>18 DEF Respond, Labels
<1>19. ASSUME NEW a \in Attempts, Collect(a)
      PROVE  TypeOK'
  BY <1>19 DEF Collect
<1>20. ASSUME NEW a \in Attempts, Timeout(a)
      PROVE  TypeOK'
  BY <1>20 DEF Timeout
<1>21. ASSUME NEW a \in Attempts, ReportTimeout(a)
      PROVE  TypeOK'
  BY <1>21 DEF ReportTimeout
<1>22. ASSUME NEW a \in Attempts, NEW id \in cleaning[a], CleanupForget(a, id)
      PROVE  TypeOK'
  BY <1>22 DEF CleanupForget
<1>23. CASE UNCHANGED vars
  BY <1>23 DEF vars
<1> QED
  BY <1>1, <1>2, <1>3, <1>4, <1>5, <1>6, <1>7, <1>8, <1>9, <1>10, <1>11, <1>12, <1>13, <1>14, <1>15, <1>16, <1>17, <1>18, <1>19, <1>20, <1>21, <1>22, <1>23 DEF Next, Worker, Provider, Scheduler

(* Every step of the ledger, the guard, the adapter, the worker and the    *)
(* scheduler keeps the whole invariant.                                    *)
LEMMA IInvStep == IInv /\ [Next]_vars => IInv'
<1> SUFFICES ASSUME IInv, [Next]_vars PROVE IInv'
  OBVIOUS
<1> USE DEF IInv, Go, ledger, guardvs, thread, waiter
<1>1. TypeOK'
  BY TypeStep
<1>2. ASSUME NEW a \in Attempts, NEW q \in Quotes, Authorize(a, q)
      PROVE  IInv'
  <2>1. PrivateCalls'
    BY <1>2 DEF Authorize, TypeOK, PrivateCalls, With, CallIds
  <2>2. OpenIsLatest'
    <3> SUFFICES ASSUME NEW i \in DOMAIN reservations'
                 PROVE  call'[reservations'[i].attempt] = i
      BY DEF OpenIsLatest
    <3>1. CASE i = sequence + 1
      BY <1>2, <3>1 DEF Authorize, With, TypeOK
    <3>2. CASE i # sequence + 1
      <4>1. i \in DOMAIN reservations /\ reservations'[i] = reservations[i]
        BY <1>2, <3>2 DEF Authorize, With
      <4>2. call[reservations[i].attempt] = i /\ reservations[i].attempt # a
        BY <1>2, <4>1 DEF Authorize, OpenIsLatest, ClosedBetweenCalls
      <4> QED
        BY <1>2, <4>1, <4>2 DEF Authorize, TypeOK, Reservation
    <3> QED
      BY <3>1, <3>2
  <2>3. ClosedBetweenCalls'
    BY <1>2 DEF Authorize, TypeOK, ClosedBetweenCalls, With, Finished, CallIds
  <2>4. OpenLeaseKeeps'
    BY <1>2 DEF Authorize, TypeOK, OpenLeaseKeeps, With, PrivateCalls, CallIds
  <2>5. ClosedLeaseReleases'
    BY <1>2 DEF Authorize, TypeOK, ClosedLeaseReleases, With, CallIds
  <2>6. WaiterAgrees'
    BY <1>2 DEF Authorize, TypeOK, WaiterAgrees, With
  <2> QED
    BY <1>1, <2>1, <2>2, <2>3, <2>4, <2>5, <2>6
<1>3. ASSUME NEW a \in Attempts, NEW q \in Quotes, BudgetStop(a, q)
      PROVE  IInv'
  <2>1. PrivateCalls'
    BY <1>3 DEF BudgetStop, TypeOK, PrivateCalls, CallIds
  <2>2. OpenIsLatest'
    BY <1>3 DEF BudgetStop, TypeOK, OpenIsLatest
  <2>3. ClosedBetweenCalls'
    BY <1>3 DEF BudgetStop, TypeOK, ClosedBetweenCalls, Finished, CallIds
  <2>4. OpenLeaseKeeps'
    BY <1>3 DEF BudgetStop, TypeOK, OpenLeaseKeeps, PrivateCalls, CallIds
  <2>5. ClosedLeaseReleases'
    BY <1>3 DEF BudgetStop, TypeOK, ClosedLeaseReleases, CallIds
  <2>6. WaiterAgrees'
    BY <1>3 DEF BudgetStop, TypeOK, WaiterAgrees
  <2> QED
    BY <1>1, <2>1, <2>2, <2>3, <2>4, <2>5, <2>6
<1>4. ASSUME NEW a \in Attempts, Begin(a)
      PROVE  IInv'
  <2>1. PrivateCalls'
    BY <1>4 DEF Begin, TypeOK, PrivateCalls, CallIds
  <2>2. OpenIsLatest'
    BY <1>4 DEF Begin, TypeOK, OpenIsLatest
  <2>3. ClosedBetweenCalls'
    BY <1>4 DEF Begin, TypeOK, ClosedBetweenCalls, Finished, CallIds
  <2>4. OpenLeaseKeeps'
    BY <1>4 DEF Begin, TypeOK, OpenLeaseKeeps, PrivateCalls, CallIds
  <2>5. ClosedLeaseReleases'
    BY <1>4 DEF Begin, TypeOK, ClosedLeaseReleases, CallIds
  <2>6. WaiterAgrees'
    BY <1>4 DEF Begin, TypeOK, WaiterAgrees
  <2> QED
    BY <1>1, <2>1, <2>2, <2>3, <2>4, <2>5, <2>6
<1>5. ASSUME NEW a \in Attempts, Register(a)
      PROVE  IInv'
  <2>1. PrivateCalls'
    BY <1>5 DEF Register, TypeOK, PrivateCalls, CallIds
  <2>2. OpenIsLatest'
    BY <1>5 DEF Register, TypeOK, OpenIsLatest
  <2>3. ClosedBetweenCalls'
    BY <1>5 DEF Register, TypeOK, ClosedBetweenCalls, Finished, CallIds
  <2>4. OpenLeaseKeeps'
    BY <1>5 DEF Register, TypeOK, OpenLeaseKeeps, PrivateCalls, CallIds
  <2>5. ClosedLeaseReleases'
    BY <1>5 DEF Register, TypeOK, ClosedLeaseReleases, CallIds
  <2>6. WaiterAgrees'
    BY <1>5 DEF Register, TypeOK, WaiterAgrees
  <2> QED
    BY <1>1, <2>1, <2>2, <2>3, <2>4, <2>5, <2>6
<1>6. ASSUME NEW a \in Attempts, ForgetGuard(a)
      PROVE  IInv'
  <2>1. PrivateCalls'
    BY <1>6 DEF ForgetGuard, TypeOK, PrivateCalls, CallIds
  <2>2. OpenIsLatest'
    BY <1>6 DEF ForgetGuard, TypeOK, OpenIsLatest
  <2>3. ClosedBetweenCalls'
    BY <1>6 DEF ForgetGuard, TypeOK, ClosedBetweenCalls, Finished, CallIds
  <2>4. OpenLeaseKeeps'
    BY <1>6 DEF ForgetGuard, TypeOK, OpenLeaseKeeps, PrivateCalls, CallIds
  <2>5. ClosedLeaseReleases'
    BY <1>6 DEF ForgetGuard, TypeOK, ClosedLeaseReleases, CallIds
  <2>6. WaiterAgrees'
    BY <1>6 DEF ForgetGuard, TypeOK, WaiterAgrees
  <2> QED
    BY <1>1, <2>1, <2>2, <2>3, <2>4, <2>5, <2>6
<1>7. ASSUME NEW a \in Attempts, Release(a)
      PROVE  IInv'
  <2>1. PrivateCalls'
    BY <1>7 DEF Release, TypeOK, PrivateCalls, Without, CallIds
  <2>2. OpenIsLatest'
    BY <1>7 DEF Release, TypeOK, OpenIsLatest, Without
  <2>3. ClosedBetweenCalls'
    BY <1>7 DEF Release, TypeOK, ClosedBetweenCalls, Without, Finished, CallIds
  <2>4. OpenLeaseKeeps'
    <3> SUFFICES ASSUME NEW b \in Attempts, active[b],
                        pc'[b] \in {"register", "transport", "commit", "settle"}
                 PROVE  /\ call[b] \in DOMAIN reservations'
                        /\ pc'[b] # "settle" => call[b] \in guards
                        /\ pc'[b] # "register" => call[b] \in cleanups[b]
                        /\ pc'[b] = "settle" => fenced[b]
      BY <1>7 DEF Release, OpenLeaseKeeps
    <3>1. CASE a # b
      <4>1. call[b] \in DOMAIN reservations /\ call[b] # 0 /\ pc'[b] = pc[b]
        BY <1>7, <3>1 DEF Release, OpenLeaseKeeps, TypeOK, CallIds
      <4>2. call[b] # call[a]
        BY <3>1, <4>1 DEF PrivateCalls
      <4> QED
        BY <1>7, <4>1, <4>2 DEF Release, Without, OpenLeaseKeeps
    <3>2. CASE a = b
      <4>1. pc[a] # "now_release"
        BY <3>2 DEF ClosedLeaseReleases
      <4> QED
        BY <1>7, <3>2, <4>1 DEF Release, TypeOK
    <3> QED
      BY <3>1, <3>2
  <2>5. ClosedLeaseReleases'
    BY <1>7 DEF Release, TypeOK, ClosedLeaseReleases, Without, CallIds
  <2>6. WaiterAgrees'
    BY <1>7 DEF Release, TypeOK, WaiterAgrees, Without
  <2> QED
    BY <1>1, <2>1, <2>2, <2>3, <2>4, <2>5, <2>6
<1>8. ASSUME NEW a \in Attempts, NEW b \in Bills, Respond(a, b)
      PROVE  IInv'
  <2>1. PrivateCalls'
    BY <1>8 DEF Respond, TypeOK, PrivateCalls, CallIds
  <2>2. OpenIsLatest'
    BY <1>8 DEF Respond, TypeOK, OpenIsLatest
  <2>3. ClosedBetweenCalls'
    BY <1>8 DEF Respond, TypeOK, ClosedBetweenCalls, Finished, CallIds
  <2>4. OpenLeaseKeeps'
    BY <1>8 DEF Respond, TypeOK, OpenLeaseKeeps, PrivateCalls, CallIds
  <2>5. ClosedLeaseReleases'
    BY <1>8 DEF Respond, TypeOK, ClosedLeaseReleases, CallIds
  <2>6. WaiterAgrees'
    BY <1>8 DEF Respond, TypeOK, WaiterAgrees
  <2> QED
    BY <1>1, <2>1, <2>2, <2>3, <2>4, <2>5, <2>6
<1>9. ASSUME NEW a \in Attempts, Fail(a)
      PROVE  IInv'
  <2>1. PrivateCalls'
    BY <1>9 DEF Fail, TypeOK, PrivateCalls, CallIds
  <2>2. OpenIsLatest'
    BY <1>9 DEF Fail, TypeOK, OpenIsLatest
  <2>3. ClosedBetweenCalls'
    BY <1>9 DEF Fail, TypeOK, ClosedBetweenCalls, Finished, CallIds
  <2>4. OpenLeaseKeeps'
    BY <1>9 DEF Fail, TypeOK, OpenLeaseKeeps, PrivateCalls, CallIds
  <2>5. ClosedLeaseReleases'
    BY <1>9 DEF Fail, TypeOK, ClosedLeaseReleases, CallIds
  <2>6. WaiterAgrees'
    BY <1>9 DEF Fail, TypeOK, WaiterAgrees
  <2> QED
    BY <1>1, <2>1, <2>2, <2>3, <2>4, <2>5, <2>6
<1>10. ASSUME NEW a \in Attempts, Malformed(a)
      PROVE  IInv'
  <2>1. PrivateCalls'
    BY <1>10 DEF Malformed, TypeOK, PrivateCalls, Uncaught, CallIds
  <2>2. OpenIsLatest'
    BY <1>10 DEF Malformed, TypeOK, OpenIsLatest, Uncaught
  <2>3. ClosedBetweenCalls'
    BY <1>10 DEF Malformed, TypeOK, ClosedBetweenCalls, Uncaught, Finished, CallIds
  <2>4. OpenLeaseKeeps'
    BY <1>10 DEF Malformed, TypeOK, OpenLeaseKeeps, Uncaught, PrivateCalls, CallIds
  <2>5. ClosedLeaseReleases'
    BY <1>10 DEF Malformed, TypeOK, ClosedLeaseReleases, Uncaught, CallIds
  <2>6. WaiterAgrees'
    BY <1>10 DEF Malformed, TypeOK, WaiterAgrees, Uncaught
  <2> QED
    BY <1>1, <2>1, <2>2, <2>3, <2>4, <2>5, <2>6
<1>11. ASSUME NEW a \in Attempts, TakeGuard(a)
      PROVE  IInv'
  <2>1. PrivateCalls'
    BY <1>11 DEF TakeGuard, TypeOK, PrivateCalls, CallIds
  <2>2. OpenIsLatest'
    BY <1>11 DEF TakeGuard, TypeOK, OpenIsLatest
  <2>3. ClosedBetweenCalls'
    BY <1>11 DEF TakeGuard, TypeOK, ClosedBetweenCalls, Finished, CallIds
  <2>4. OpenLeaseKeeps'
    BY <1>11 DEF TakeGuard, TypeOK, OpenLeaseKeeps, PrivateCalls, CallIds
  <2>5. ClosedLeaseReleases'
    BY <1>11 DEF TakeGuard, TypeOK, ClosedLeaseReleases, CallIds
  <2>6. WaiterAgrees'
    BY <1>11 DEF TakeGuard, TypeOK, WaiterAgrees
  <2> QED
    BY <1>1, <2>1, <2>2, <2>3, <2>4, <2>5, <2>6
<1>12. ASSUME NEW a \in Attempts, Commit(a)
      PROVE  IInv'
  <2>1. PrivateCalls'
    BY <1>12 DEF Commit, TypeOK, PrivateCalls, With, Without, EndCommit, MayCommit, CallIds
  <2>2. OpenIsLatest'
    BY <1>12 DEF Commit, TypeOK, OpenIsLatest, With, Without, EndCommit, MayCommit
  <2>3. ClosedBetweenCalls'
    BY <1>12 DEF Commit, TypeOK, ClosedBetweenCalls, With, Without, EndCommit, MayCommit, Finished, CallIds
  <2>4. OpenLeaseKeeps'
    BY <1>12 DEF Commit, TypeOK, OpenLeaseKeeps, With, Without, EndCommit, MayCommit, PrivateCalls, CallIds
  <2>5. ClosedLeaseReleases'
    BY <1>12 DEF Commit, TypeOK, ClosedLeaseReleases, With, Without, EndCommit, MayCommit, CallIds
  <2>6. WaiterAgrees'
    BY <1>12 DEF Commit, TypeOK, WaiterAgrees, With, Without, EndCommit, MayCommit
  <2> QED
    BY <1>1, <2>1, <2>2, <2>3, <2>4, <2>5, <2>6
<1>13. ASSUME NEW a \in Attempts, CommitClosed(a)
      PROVE  IInv'
  <2>1. PrivateCalls'
    BY <1>13 DEF CommitClosed, TypeOK, PrivateCalls, Uncaught, EndCommit, MayCommit, CallIds
  <2>2. OpenIsLatest'
    BY <1>13 DEF CommitClosed, TypeOK, OpenIsLatest, Uncaught, EndCommit, MayCommit
  <2>3. ClosedBetweenCalls'
    BY <1>13 DEF CommitClosed, TypeOK, ClosedBetweenCalls, Uncaught, EndCommit, MayCommit, Finished, CallIds
  <2>4. OpenLeaseKeeps'
    BY <1>13 DEF CommitClosed, TypeOK, OpenLeaseKeeps, Uncaught, EndCommit, MayCommit, PrivateCalls, CallIds
  <2>5. ClosedLeaseReleases'
    BY <1>13 DEF CommitClosed, TypeOK, ClosedLeaseReleases, Uncaught, EndCommit, MayCommit, CallIds
  <2>6. WaiterAgrees'
    BY <1>13 DEF CommitClosed, TypeOK, WaiterAgrees, Uncaught, EndCommit, MayCommit
  <2> QED
    BY <1>1, <2>1, <2>2, <2>3, <2>4, <2>5, <2>6
<1>14. ASSUME NEW a \in Attempts, RefuseLate(a)
      PROVE  IInv'
  <2>1. PrivateCalls'
    BY <1>14 DEF RefuseLate, TypeOK, PrivateCalls, EndCommit, MayCommit, CallIds
  <2>2. OpenIsLatest'
    BY <1>14 DEF RefuseLate, TypeOK, OpenIsLatest, EndCommit, MayCommit
  <2>3. ClosedBetweenCalls'
    BY <1>14 DEF RefuseLate, TypeOK, ClosedBetweenCalls, EndCommit, MayCommit, Finished, CallIds
  <2>4. OpenLeaseKeeps'
    BY <1>14 DEF RefuseLate, TypeOK, OpenLeaseKeeps, EndCommit, MayCommit, PrivateCalls, CallIds
  <2>5. ClosedLeaseReleases'
    BY <1>14 DEF RefuseLate, TypeOK, ClosedLeaseReleases, EndCommit, MayCommit, CallIds
  <2>6. WaiterAgrees'
    BY <1>14 DEF RefuseLate, TypeOK, WaiterAgrees, EndCommit, MayCommit
  <2> QED
    BY <1>1, <2>1, <2>2, <2>3, <2>4, <2>5, <2>6
<1>15. ASSUME NEW a \in Attempts, Use(a)
      PROVE  IInv'
  <2>1. PrivateCalls'
    BY <1>15 DEF Use, TypeOK, PrivateCalls, CallIds
  <2>2. OpenIsLatest'
    BY <1>15 DEF Use, TypeOK, OpenIsLatest
  <2>3. ClosedBetweenCalls'
    BY <1>15 DEF Use, TypeOK, ClosedBetweenCalls, Finished, CallIds
  <2>4. OpenLeaseKeeps'
    BY <1>15 DEF Use, TypeOK, OpenLeaseKeeps, PrivateCalls, CallIds
  <2>5. ClosedLeaseReleases'
    BY <1>15 DEF Use, TypeOK, ClosedLeaseReleases, CallIds
  <2>6. WaiterAgrees'
    BY <1>15 DEF Use, TypeOK, WaiterAgrees
  <2> QED
    BY <1>1, <2>1, <2>2, <2>3, <2>4, <2>5, <2>6
<1>16. ASSUME NEW a \in Attempts, Reformat(a)
      PROVE  IInv'
  <2>1. PrivateCalls'
    BY <1>16 DEF Reformat, TypeOK, PrivateCalls, CallIds
  <2>2. OpenIsLatest'
    BY <1>16 DEF Reformat, TypeOK, OpenIsLatest
  <2>3. ClosedBetweenCalls'
    BY <1>16 DEF Reformat, TypeOK, ClosedBetweenCalls, Finished, CallIds
  <2>4. OpenLeaseKeeps'
    BY <1>16 DEF Reformat, TypeOK, OpenLeaseKeeps, PrivateCalls, CallIds
  <2>5. ClosedLeaseReleases'
    BY <1>16 DEF Reformat, TypeOK, ClosedLeaseReleases, CallIds
  <2>6. WaiterAgrees'
    BY <1>16 DEF Reformat, TypeOK, WaiterAgrees
  <2> QED
    BY <1>1, <2>1, <2>2, <2>3, <2>4, <2>5, <2>6
<1>17. ASSUME NEW a \in Attempts, Handoff(a)
      PROVE  IInv'
  <2>1. PrivateCalls'
    BY <1>17 DEF Handoff, TypeOK, PrivateCalls, CallIds
  <2>2. OpenIsLatest'
    BY <1>17 DEF Handoff, TypeOK, OpenIsLatest
  <2>3. ClosedBetweenCalls'
    BY <1>17 DEF Handoff, TypeOK, ClosedBetweenCalls, Finished, CallIds
  <2>4. OpenLeaseKeeps'
    BY <1>17 DEF Handoff, TypeOK, OpenLeaseKeeps, PrivateCalls, CallIds
  <2>5. ClosedLeaseReleases'
    BY <1>17 DEF Handoff, TypeOK, ClosedLeaseReleases, CallIds
  <2>6. WaiterAgrees'
    BY <1>17 DEF Handoff, TypeOK, WaiterAgrees
  <2> QED
    BY <1>1, <2>1, <2>2, <2>3, <2>4, <2>5, <2>6
<1>18. ASSUME NEW a \in Attempts, GiveUp(a)
      PROVE  IInv'
  <2>0. /\ pc'[a] \in Finished
        /\ \A b \in Attempts \ {a} : pc'[b] = pc[b]
        /\ pc'[a] \notin {"register", "transport", "commit", "settle", "now_forget", "now_release"}
    BY <1>18 DEF GiveUp, TypeOK, Finished
  <2>1. PrivateCalls'
    BY <1>18 DEF GiveUp, TypeOK, PrivateCalls, CallIds
  <2>2. OpenIsLatest'
    BY <1>18 DEF GiveUp, TypeOK, OpenIsLatest
  <2>3. ClosedBetweenCalls'
    BY <1>18 DEF GiveUp, TypeOK, ClosedBetweenCalls, Finished, CallIds
  <2>4. OpenLeaseKeeps'
    BY <1>18, <2>0 DEF GiveUp, TypeOK, OpenLeaseKeeps, PrivateCalls, CallIds
  <2>5. ClosedLeaseReleases'
    BY <1>18, <2>0 DEF GiveUp, TypeOK, ClosedLeaseReleases, CallIds
  <2>6. WaiterAgrees'
    BY <1>18 DEF GiveUp, TypeOK, WaiterAgrees
  <2> QED
    BY <1>1, <2>1, <2>2, <2>3, <2>4, <2>5, <2>6
<1>19. ASSUME NEW a \in Attempts, Collect(a)
      PROVE  IInv'
  <2>1. PrivateCalls'
    BY <1>19 DEF Collect, TypeOK, PrivateCalls, CallIds
  <2>2. OpenIsLatest'
    BY <1>19 DEF Collect, TypeOK, OpenIsLatest
  <2>3. ClosedBetweenCalls'
    BY <1>19 DEF Collect, TypeOK, ClosedBetweenCalls, Finished, CallIds
  <2>4. OpenLeaseKeeps'
    BY <1>19 DEF Collect, TypeOK, OpenLeaseKeeps, PrivateCalls, CallIds
  <2>5. ClosedLeaseReleases'
    BY <1>19 DEF Collect, TypeOK, ClosedLeaseReleases, CallIds
  <2>6. WaiterAgrees'
    BY <1>19 DEF Collect, TypeOK, WaiterAgrees
  <2> QED
    BY <1>1, <2>1, <2>2, <2>3, <2>4, <2>5, <2>6
<1>20. ASSUME NEW a \in Attempts, Timeout(a)
      PROVE  IInv'
  <2>1. PrivateCalls'
    BY <1>20 DEF Timeout, TypeOK, PrivateCalls, CallIds
  <2>2. OpenIsLatest'
    BY <1>20 DEF Timeout, TypeOK, OpenIsLatest
  <2>3. ClosedBetweenCalls'
    BY <1>20 DEF Timeout, TypeOK, ClosedBetweenCalls, Finished, CallIds
  <2>4. OpenLeaseKeeps'
    BY <1>20 DEF Timeout, TypeOK, OpenLeaseKeeps, PrivateCalls, CallIds
  <2>5. ClosedLeaseReleases'
    <3>0. ASSUME NEW b \in Attempts, pc[b] \in {"now_forget", "now_release"}
          PROVE  ~active'[b]
      BY <1>20, <3>0 DEF Timeout, ClosedLeaseReleases, TypeOK
    <3> SUFFICES ASSUME NEW b \in Attempts, ~active'[b],
                        pc[b] \in {"transport", "commit", "settle"}
                 PROVE  call[b] \in cleaning'[b] \/ call[b] \notin DOMAIN reservations
      BY <1>20, <3>0 DEF Timeout, ClosedLeaseReleases
    <3>1. CASE a = b
      <4>1. active[a]
        BY <1>20 DEF Timeout, WaiterAgrees
      <4>2. call[b] \in cleanups[b]
        BY <3>1, <4>1 DEF OpenLeaseKeeps
      <4> QED
        BY <1>20, <3>1, <4>2 DEF Timeout, TypeOK
    <3>2. CASE a # b
      BY <1>20, <3>2 DEF Timeout, TypeOK, ClosedLeaseReleases
    <3> QED
      BY <3>1, <3>2
  <2>6. WaiterAgrees'
    BY <1>20 DEF Timeout, TypeOK, WaiterAgrees
  <2> QED
    BY <1>1, <2>1, <2>2, <2>3, <2>4, <2>5, <2>6
<1>21. ASSUME NEW a \in Attempts, NEW id \in cleaning[a], CleanupForget(a, id)
      PROVE  IInv'
  <2>1. PrivateCalls'
    BY <1>21 DEF CleanupForget, TypeOK, PrivateCalls, CallIds
  <2>2. OpenIsLatest'
    BY <1>21 DEF CleanupForget, TypeOK, OpenIsLatest
  <2>3. ClosedBetweenCalls'
    BY <1>21 DEF CleanupForget, TypeOK, ClosedBetweenCalls, Finished, CallIds
  <2>4. OpenLeaseKeeps'
    <3> SUFFICES ASSUME NEW b \in Attempts, active[b],
                        pc[b] \in {"register", "transport", "commit"}
                 PROVE  call[b] \in guards'
      BY <1>21 DEF CleanupForget, OpenLeaseKeeps
    <3>1. call[b] \in guards /\ call[b] # 0
      BY DEF OpenLeaseKeeps, TypeOK, CallIds
    <3>2. ~active[a]
      BY <1>21 DEF CleanupForget, WaiterAgrees
    <3>3. call[b] # id
      BY <1>21, <3>1, <3>2 DEF PrivateCalls
    <3> QED
      BY <1>21, <3>1, <3>3 DEF CleanupForget
  <2>5. ClosedLeaseReleases'
    BY <1>21 DEF CleanupForget, TypeOK, ClosedLeaseReleases, CallIds
  <2>6. WaiterAgrees'
    BY <1>21 DEF CleanupForget, TypeOK, WaiterAgrees
  <2> QED
    BY <1>1, <2>1, <2>2, <2>3, <2>4, <2>5, <2>6
<1>22. ASSUME NEW a \in Attempts, CleanupRelease(a)
      PROVE  IInv'
  <2>1. PrivateCalls'
    BY <1>22 DEF CleanupRelease, TypeOK, PrivateCalls, Without, CallIds
  <2>2. OpenIsLatest'
    BY <1>22 DEF CleanupRelease, TypeOK, OpenIsLatest, Without
  <2>3. ClosedBetweenCalls'
    BY <1>22 DEF CleanupRelease, TypeOK, ClosedBetweenCalls, Without, Finished, CallIds
  <2>4. OpenLeaseKeeps'
    <3> SUFFICES ASSUME NEW b \in Attempts, active[b],
                        pc[b] \in {"register", "transport", "commit", "settle"}
                 PROVE  call[b] \in DOMAIN reservations'
      BY <1>22 DEF CleanupRelease, OpenLeaseKeeps
    <3>1. call[b] \in DOMAIN reservations /\ call[b] # 0
      BY DEF OpenLeaseKeeps, TypeOK, CallIds
    <3>2. ~active[a]
      BY <1>22 DEF CleanupRelease, WaiterAgrees
    <3>3. call[b] # sweep[a]
      BY <3>1, <3>2 DEF PrivateCalls
    <3> QED
      BY <1>22, <3>1, <3>3 DEF CleanupRelease, Without
  <2>5. ClosedLeaseReleases'
    BY <1>22 DEF CleanupRelease, TypeOK, ClosedLeaseReleases, Without, CallIds
  <2>6. WaiterAgrees'
    BY <1>22 DEF CleanupRelease, TypeOK, WaiterAgrees, Without
  <2> QED
    BY <1>1, <2>1, <2>2, <2>3, <2>4, <2>5, <2>6
<1>23. ASSUME NEW a \in Attempts, ReportTimeout(a)
      PROVE  IInv'
  <2>1. PrivateCalls'
    BY <1>23 DEF ReportTimeout, TypeOK, PrivateCalls, CallIds
  <2>2. OpenIsLatest'
    BY <1>23 DEF ReportTimeout, TypeOK, OpenIsLatest
  <2>3. ClosedBetweenCalls'
    BY <1>23 DEF ReportTimeout, TypeOK, ClosedBetweenCalls, Finished, CallIds
  <2>4. OpenLeaseKeeps'
    BY <1>23 DEF ReportTimeout, TypeOK, OpenLeaseKeeps, PrivateCalls, CallIds
  <2>5. ClosedLeaseReleases'
    BY <1>23 DEF ReportTimeout, TypeOK, ClosedLeaseReleases, CallIds
  <2>6. WaiterAgrees'
    BY <1>23 DEF ReportTimeout, TypeOK, WaiterAgrees
  <2> QED
    BY <1>1, <2>1, <2>2, <2>3, <2>4, <2>5, <2>6
<1>24. CASE UNCHANGED vars
  BY <1>1, <1>24 DEF vars, PrivateCalls, OpenIsLatest, ClosedBetweenCalls, OpenLeaseKeeps,
                  ClosedLeaseReleases, WaiterAgrees
<1> QED
  BY <1>1, <1>2, <1>3, <1>4, <1>5, <1>6, <1>7, <1>8, <1>9, <1>10, <1>11, <1>12, <1>13, <1>14, <1>15, <1>16, <1>17, <1>18, <1>19, <1>20, <1>21, <1>22, <1>23, <1>24 DEF Next, Worker, Provider, Scheduler

(* The invariant holds in every reachable state. *)
THEOREM FenceInvariant == Spec => []IInv
<1> QED
  BY InitIInv, IInvStep, PTL DEF Spec

(* Type correctness of the ledger, the guards and both kinds of thread. *)
THEOREM FenceTypes == Spec => []TypeOK
<1>1. IInv => TypeOK
  BY DEF IInv
<1> QED
  BY <1>1, FenceInvariant, PTL

(* commit_cost finds guard and reservation of every answer in time: no     *)
(* other attempt's cleanup can take them away.                             *)
THEOREM InTimeAnswers == Spec => []InTimeAnswerIsCharged
<1>1. IInv => InTimeAnswerIsCharged
  BY DEF IInv, OpenLeaseKeeps, InTimeAnswerIsCharged
<1> QED
  BY <1>1, FenceInvariant, PTL

(* A timeout the scheduler has reported leaves no reservation of a call    *)
(* that may never come back.                                               *)
THEOREM TimedOutCalls == Spec => []TimedOutCallHoldsNothing
<1>1. IInv => TimedOutCallHoldsNothing
  BY DEF IInv, WaiterAgrees, ClosedLeaseReleases, TimedOutCallHoldsNothing
<1> QED
  BY <1>1, FenceInvariant, PTL

(* No path through a protected adapter leaves its reservation open. *)
THEOREM FinishedThreads == Spec => []FinishedThreadHoldsNothing
<1>1. IInv => FinishedThreadHoldsNothing
  <2> SUFFICES ASSUME IInv, NEW a \in Protected, pc[a] \in Finished,
                      NEW i \in DOMAIN reservations, reservations[i].attempt = a
               PROVE  FALSE
    BY DEF FinishedThreadHoldsNothing
  <2>1. a \in Attempts
    BY FenceAssumption
  <2>2. call[a] = i
    BY DEF IInv, OpenIsLatest
  <2> QED
    BY <2>1, <2>2 DEF IInv, ClosedBetweenCalls
<1> QED
  BY <1>1, FenceInvariant, PTL
-----------------------------------------------------------------------------
(* Sums over finite sets, by induction on their subsets. *)

(* Induction without a predicate as a parameter: a set of numbers that is  *)
(* not empty has a least element.                                          *)
LEMMA Least ==
  ASSUME NEW T \in SUBSET Nat, T # {}
  PROVE  \E n \in T : \A m \in T : n <= m
<1>1. \E x \in T : \A y \in T : ~(<<y, x>> \in OpToRel(<, Nat))
  BY NatLessThanWellFounded, WFMin
<1>2. \A x, y \in Nat : y < x => <<y, x>> \in OpToRel(<, Nat)
  BY DEF OpToRel
<1>3. \A x, y \in Nat : ~(y < x) => x <= y
  OBVIOUS
<1> QED
  BY <1>1, <1>2, <1>3, Zenon

(* A set of numbers with 0 that is closed under successor is Nat. *)
LEMMA NatStep ==
  ASSUME NEW G \in SUBSET Nat, 0 \in G, \A n \in G : n + 1 \in G
  PROVE  G = Nat
<1> SUFFICES ASSUME Nat \ G # {} PROVE FALSE
  OBVIOUS
<1>1. PICK n \in Nat \ G : \A m \in Nat \ G : n <= m
  BY Least
<1>2. n # 0 /\ n - 1 \in Nat /\ n - 1 \notin Nat \ G
  BY <1>1
<1> QED
  BY <1>1, <1>2

(* If a set is in G as soon as it is without any one of its elements, then *)
(* every subset of a finite set is in G.                                   *)
LEMMA SubsetStep ==
  ASSUME NEW S, IsFiniteSet(S), NEW G,
         \A s \in SUBSET S : (\A x \in s : s \ {x} \in G) => s \in G
  PROVE  \A s \in SUBSET S : s \in G
<1> SUFFICES ASSUME NEW b \in SUBSET S, b \notin G PROVE FALSE
  OBVIOUS
<1> DEFINE Bad == {s \in SUBSET S : s \notin G}
           T == {Cardinality(s) : s \in Bad}
<1>1. \A s \in SUBSET S : IsFiniteSet(s) /\ Cardinality(s) \in Nat
  BY FS_Subset, FS_CardinalityType
<1>2. T \in SUBSET Nat /\ T # {}
  BY <1>1
<1>3. PICK n \in T : \A m \in T : n <= m
  BY <1>2, Least
<1>4. PICK s \in Bad : Cardinality(s) = n
  BY <1>3
<1>5. \A x \in s : s \ {x} \in G
  <2> SUFFICES ASSUME NEW x \in s, s \ {x} \notin G PROVE FALSE
    OBVIOUS
  <2>1. Cardinality(s \ {x}) = n - 1
    BY <1>1, <1>4, FS_RemoveElement
  <2>2. s \ {x} \in Bad
    OBVIOUS
  <2>3. n - 1 \in T
    BY <2>1, <2>2
  <2>4. n \in Nat
    BY <1>2
  <2>5. n <= n - 1
    BY <1>3, <2>3
  <2> QED
    BY <2>4, <2>5
<1> QED
  BY <1>4, <1>5

(* The recursion SumFunction unfolds to, one step and as an equation that  *)
(* its value on the subsets of S satisfies.                                *)
Chosen(s) == CHOOSE x \in s : TRUE
SumStep(g, h, s) == IF s = {} THEN 0 ELSE g[Chosen(s)] + h[s \ {Chosen(s)}]
IsSum(g, h, S) == h = [s \in SUBSET S |-> SumStep(g, h, s)]

(* The recursion has a solution on the subsets of a finite set. *)
LEMMA SumExists ==
  ASSUME NEW S, IsFiniteSet(S), NEW g
  PROVE  \E h : IsSum(g, h, S)
<1> DEFINE Small(n) == {s \in SUBSET S : Cardinality(s) <= n}
           G == {n \in Nat : \E h : h = [s \in Small(n) |-> SumStep(g, h, s)]}
<1>0. \A s \in SUBSET S : IsFiniteSet(s) /\ Cardinality(s) \in Nat /\ Cardinality(s) <= Cardinality(S)
  BY FS_Subset, FS_CardinalityType
<1>1. 0 \in G
  <2> DEFINE h == [s \in Small(0) |-> 0]
  <2>1. \A s \in Small(0) : s = {}
    BY <1>0, FS_EmptySet
  <2>2. h = [s \in Small(0) |-> SumStep(g, h, s)]
    BY <2>1 DEF SumStep
  <2> QED
    BY <2>2
<1>2. \A n \in G : n + 1 \in G
  <2> SUFFICES ASSUME NEW n \in G PROVE n + 1 \in G
    OBVIOUS
  <2>1. PICK h : h = [s \in Small(n) |-> SumStep(g, h, s)]
    OBVIOUS
  <2> DEFINE k == [s \in Small(n + 1) |-> SumStep(g, h, s)]
  <2>2. \A s \in Small(n + 1) : s # {} => s \ {Chosen(s)} \in Small(n)
    <3> SUFFICES ASSUME NEW s \in Small(n + 1), s # {} PROVE s \ {Chosen(s)} \in Small(n)
      OBVIOUS
    <3>1. Chosen(s) \in s
      BY DEF Chosen
    <3>2. Cardinality(s \ {Chosen(s)}) = Cardinality(s) - 1
      BY <1>0, <3>1, FS_RemoveElement
    <3> QED
      BY <1>0, <3>2
  <2>3. \A s \in Small(n) : s \in Small(n + 1) /\ k[s] = h[s]
    BY <2>1, <1>0
  <2>4. \A s \in Small(n + 1) : SumStep(g, h, s) = SumStep(g, k, s)
    BY <2>2, <2>3 DEF SumStep
  <2>5. k = [s \in Small(n + 1) |-> SumStep(g, k, s)]
    BY <2>4
  <2>6. \E m : m = [s \in Small(n + 1) |-> SumStep(g, m, s)]
    <3> HIDE DEF k
    <3> QED
      BY <2>5
  <2>7. n + 1 \in Nat
    OBVIOUS
  <2> HIDE DEF Small
  <2> QED
    BY <2>6, <2>7
<1>3. Cardinality(S) \in G
  BY <1>1, <1>2, NatStep, FS_CardinalityType
<1>4. Small(Cardinality(S)) = SUBSET S
  BY <1>0
<1> QED
  BY <1>3, <1>4 DEF IsSum

(* SumFunction is such a solution, at the whole domain. *)
LEMMA SumIsChosen ==
  ASSUME NEW g
  PROVE SumFunction(g) = (CHOOSE h : IsSum(g, h, DOMAIN g))[DOMAIN g]
  BY DEF SumFunction, SumFunctionOnSet, FoldFunctionOnSet, MapThenFoldSet, IsSum, SumStep, Chosen

(* Its values are integers. *)
LEMMA SumIsInt ==
  ASSUME NEW S, IsFiniteSet(S), NEW g \in [S -> Int], NEW h, IsSum(g, h, S)
  PROVE  \A s \in SUBSET S : h[s] \in Int
<1> DEFINE G == {s \in SUBSET S : h[s] \in Int}
<1>1. ASSUME NEW s \in SUBSET S, \A x \in s : s \ {x} \in G
      PROVE  s \in G
  <2>1. h[s] = SumStep(g, h, s)
    BY DEF IsSum
  <2>2. CASE s = {}
    BY <2>1, <2>2 DEF SumStep
  <2>3. CASE s # {}
    <3>1. Chosen(s) \in s
      BY <2>3 DEF Chosen
    <3>2. g[Chosen(s)] \in Int /\ h[s \ {Chosen(s)}] \in Int
      BY <1>1, <3>1
    <3> QED
      BY <2>1, <2>3, <3>2 DEF SumStep
  <2> QED
    BY <2>2, <2>3
<1>2. \A s \in SUBSET S : s \in G
  <2> HIDE DEF G
  <2> QED
    BY <1>1, SubsetStep
<1> QED
  BY <1>2

(* Any element may be taken out first, not only the chosen one. *)
LEMMA SumRule ==
  ASSUME NEW S, IsFiniteSet(S), NEW g \in [S -> Int], NEW h, IsSum(g, h, S),
         NEW y \in S
  PROVE  h[S] = g[y] + h[S \ {y}]
<1> DEFINE G == {s \in SUBSET S : \A x \in s : h[s] = g[x] + h[s \ {x}]}
<1>0. \A s \in SUBSET S : h[s] \in Int
  BY SumIsInt
<1>1. ASSUME NEW s \in SUBSET S, \A x \in s : s \ {x} \in G
      PROVE  s \in G
  <2> SUFFICES ASSUME NEW x \in s PROVE h[s] = g[x] + h[s \ {x}]
    OBVIOUS
  <2>1. PICK c \in s : h[s] = g[c] + h[s \ {c}]
    <3>1. Chosen(s) \in s
      BY DEF Chosen
    <3>2. h[s] = SumStep(g, h, s)
      BY DEF IsSum
    <3> QED
      BY <3>1, <3>2 DEF SumStep
  <2>2. CASE x # c
    <3> DEFINE both == (s \ {c}) \ {x}
    <3>1. h[s \ {c}] = g[x] + h[both]
      BY <1>1, <2>2
    <3>2. both = (s \ {x}) \ {c}
      OBVIOUS
    <3>3. h[s \ {x}] = g[c] + h[both]
      BY <1>1, <2>2, <3>2
    <3>4. h[both] \in Int /\ g[c] \in Int /\ g[x] \in Int
      BY <1>0
    <3> HIDE DEF both
    <3> QED
      BY <2>1, <3>1, <3>3, <3>4
  <2> QED
    BY <2>1, <2>2
<1>2. \A s \in SUBSET S : s \in G
  <2> HIDE DEF G
  <2> QED
    BY <1>1, SubsetStep
<1> QED
  BY <1>2

(* The sum over a set depends on the values in that set only. *)
LEMMA SumAgrees ==
  ASSUME NEW S, IsFiniteSet(S), NEW g, NEW f, NEW h, NEW k, NEW R,
         S \in SUBSET R,
         IsSum(g, h, S), IsSum(f, k, R), \A x \in S : g[x] = f[x]
  PROVE  h[S] = k[S]
<1> DEFINE G == {s \in SUBSET S : h[s] = k[s]}
<1>1. ASSUME NEW s \in SUBSET S, \A x \in s : s \ {x} \in G
      PROVE  s \in G
  <2>1. h[s] = SumStep(g, h, s) /\ k[s] = SumStep(f, k, s)
    BY DEF IsSum
  <2>2. CASE s = {}
    BY <2>1, <2>2 DEF SumStep
  <2>3. CASE s # {}
    <3>1. Chosen(s) \in s
      BY <2>3 DEF Chosen
    <3> QED
      BY <1>1, <2>1, <3>1 DEF SumStep
  <2> QED
    BY <2>2, <2>3
<1>2. \A s \in SUBSET S : s \in G
  <2> HIDE DEF G
  <2> QED
    BY <1>1, SubsetStep
<1> QED
  BY <1>2

(* What the ledger's sums need: one summand can be taken out. *)
LEMMA SumSplit ==
  ASSUME NEW S, IsFiniteSet(S), NEW g \in [S -> Int], NEW x \in S
  PROVE  /\ SumFunction(g) \in Int
         /\ SumFunction(g) = g[x] + SumFunction([i \in S \ {x} |-> g[i]])
<1> DEFINE f == [i \in S \ {x} |-> g[i]]
           h == CHOOSE h : IsSum(g, h, S)
           k == CHOOSE k : IsSum(f, k, S \ {x})
<1>1. DOMAIN g = S /\ DOMAIN f = S \ {x}
  OBVIOUS
<1>2. IsSum(g, h, S) /\ IsSum(f, k, S \ {x})
  BY SumExists, FS_RemoveElement
<1>3. SumFunction(g) = h[S] /\ SumFunction(f) = k[S \ {x}]
  BY <1>1, SumIsChosen
<1> HIDE DEF f, h, k
<1>4. h[S] \in Int /\ h[S] = g[x] + h[S \ {x}]
  <2>1. S \in SUBSET S /\ x \in S
    OBVIOUS
  <2>2. \A s \in SUBSET S : h[s] \in Int
    BY <1>2, SumIsInt
  <2>3. h[S] = g[x] + h[S \ {x}]
    BY <1>2, SumRule
  <2> QED
    BY <2>1, <2>2, <2>3
<1>5. k[S \ {x}] = h[S \ {x}]
  <2>1. \A y \in S \ {x} : f[y] = g[y]
    BY DEF f
  <2>2. IsFiniteSet(S \ {x}) /\ S \ {x} \in SUBSET S
    BY FS_RemoveElement
  <2> QED
    BY <1>2, <2>1, <2>2, SumAgrees
<1> QED
  BY <1>3, <1>4, <1>5 DEF f
(* A sum over nothing is nothing. *)
LEMMA SumEmpty ==
  ASSUME NEW g, DOMAIN g = {}
  PROVE  SumFunction(g) = 0
<1> DEFINE h == CHOOSE h : IsSum(g, h, {})
<1>1. IsFiniteSet({})
  BY FS_EmptySet
<1>2. IsSum(g, h, {})
  BY <1>1, SumExists
<1>3. SumFunction(g) = h[{}]
  BY SumIsChosen
<1> HIDE DEF h
<1> QED
  BY <1>2, <1>3 DEF IsSum, SumStep

(* A sum of integers is one, and a new summand is added to it. *)
LEMMA SumInteger ==
  ASSUME NEW D, IsFiniteSet(D), NEW f \in [D -> Int]
  PROVE  SumFunction(f) \in Int
<1>1. CASE D = {}
  BY <1>1, SumEmpty
<1>2. CASE D # {}
  BY <1>2, SumSplit
<1> QED
  BY <1>1, <1>2

(* An entry that comes adds its value to the sum. *)
LEMMA SumAdd ==
  ASSUME NEW D, IsFiniteSet(D), NEW f \in [D -> Int], NEW x, x \notin D, NEW v \in Int
  PROVE  SumFunction([i \in D \cup {x} |-> IF i = x THEN v ELSE f[i]]) = SumFunction(f) + v
<1> DEFINE E == D \cup {x}
           g == [i \in E |-> IF i = x THEN v ELSE f[i]]
<1>1. IsFiniteSet(E) /\ g \in [E -> Int] /\ x \in E /\ g[x] = v
  BY FS_AddElement
<1>2. [i \in E \ {x} |-> g[i]] = f
  OBVIOUS
<1> HIDE DEF E, g
<1>3. SumFunction(g) = g[x] + SumFunction([i \in E \ {x} |-> g[i]])
  BY <1>1, SumSplit
<1>4. SumFunction(f) \in Int
  BY SumInteger
<1>5. SumFunction(g) = SumFunction(f) + v
  BY <1>1, <1>2, <1>3, <1>4
<1> QED
  BY <1>5 DEF E, g
-----------------------------------------------------------------------------
(* The run budget, at the sums of the ledger: it never promises more than  *)
(* its ceiling, whoever grants, charges and gives back.                    *)

(* Types and ceiling in the initial state of the ledger. *)
LEMMA BudgetInit ==
  ASSUME Budget!PricesOK PROVE Budget!Init => Budget!TypeOK /\ Budget!WithinCeiling
  BY DEF Budget!PricesOK, Budget!Init, Budget!TypeOK, Budget!WithinCeiling

(* Granting, charging and giving back keep types and ceiling: a grant is   *)
(* bounded by what remains, a charge moves a quote from held to spent and  *)
(* books what the bill exceeds it by as overrun.                           *)
LEMMA BudgetStep ==
  ASSUME Budget!PricesOK
  PROVE  Budget!TypeOK /\ Budget!WithinCeiling /\ [Budget!Next]_(Budget!vars)
           => Budget!TypeOK' /\ Budget!WithinCeiling'
<1> SUFFICES ASSUME Budget!TypeOK, Budget!WithinCeiling, [Budget!Next]_(Budget!vars)
             PROVE  Budget!TypeOK' /\ Budget!WithinCeiling'
  OBVIOUS
<1> USE DEF Budget!PricesOK, Budget!TypeOK, Budget!WithinCeiling, Budget!NonNegative
<1>1. ASSUME NEW q \in Quotes, Budget!Authorize(q)
      PROVE  Budget!TypeOK' /\ Budget!WithinCeiling'
  <2>1. DOMAIN OpenQuotes' = DOMAIN OpenQuotes \cup {sequence + 1} /\ DOMAIN OpenQuotes' \subseteq 1..sequence'
    BY <1>1 DEF Budget!Authorize
  <2>2. \A i \in DOMAIN OpenQuotes' : OpenQuotes'[i] \in Nat
    BY <1>1 DEF Budget!Authorize
  <2>3. Actual' + Reserved' <= Ceiling + Excess'
    <3>1. CASE Ceiling - Actual - Reserved < 0
      BY <1>1, <3>1 DEF Budget!Authorize, Budget!Remaining
    <3>2. CASE ~(Ceiling - Actual - Reserved < 0)
      BY <1>1, <3>2 DEF Budget!Authorize, Budget!Remaining
    <3> QED
      BY <3>1, <3>2
  <2> QED
    BY <1>1, <2>1, <2>2, <2>3 DEF Budget!Authorize
<1>2. ASSUME NEW id \in DOMAIN OpenQuotes, NEW b \in Bills, Budget!Charge(id, b)
      PROVE  Budget!TypeOK' /\ Budget!WithinCeiling'
  <2>1. OpenQuotes[id] \in Nat /\ b \in Nat
    OBVIOUS
  <2>2. DOMAIN OpenQuotes' \subseteq 1..sequence' /\ \A i \in DOMAIN OpenQuotes' : OpenQuotes'[i] \in Nat
    BY <1>2 DEF Budget!Charge, Budget!Without
  <2>3. CASE b - OpenQuotes[id] < 0
    BY <1>2, <2>1, <2>2, <2>3 DEF Budget!Charge
  <2>4. CASE ~(b - OpenQuotes[id] < 0)
    BY <1>2, <2>1, <2>2, <2>4 DEF Budget!Charge
  <2> QED
    BY <2>3, <2>4
<1>3. ASSUME NEW id \in DOMAIN OpenQuotes, Budget!GiveBack(id)
      PROVE  Budget!TypeOK' /\ Budget!WithinCeiling'
  <2>1. OpenQuotes[id] \in Nat
    OBVIOUS
  <2>2. DOMAIN OpenQuotes' \subseteq 1..sequence' /\ \A i \in DOMAIN OpenQuotes' : OpenQuotes'[i] \in Nat
    BY <1>3 DEF Budget!GiveBack, Budget!Without
  <2> QED
    BY <1>3, <2>1, <2>2 DEF Budget!GiveBack
<1>4. CASE UNCHANGED (Budget!vars)
  BY <1>4 DEF Budget!vars
<1> QED
  BY <1>1, <1>2, <1>3, <1>4 DEF Budget!Next

-----------------------------------------------------------------------------
(* The refinement: the threads, seen through the sums of their ledger, take *)
(* steps of the run budget.                                                *)

(* A call is charged once: a charged one is not open any more.  An answer  *)
(* on its way to the ledger has a price the provider can ask.              *)
ChargedIsClosed == DOMAIN calls \cap DOMAIN reservations = {}
AnswersArePriced == \A a \in Attempts : pc[a] \in {"commit", "settle"} => bill[a] \in Bills
LedgerInv == ChargedIsClosed /\ AnswersArePriced

(* Authorizations get a new number, commits move one, and only an answer   *)
(* brings a thread to its commit.                                          *)
LEMMA LedgerStep == TypeOK /\ LedgerInv /\ [Next]_vars => LedgerInv'
<1> SUFFICES ASSUME TypeOK, LedgerInv, [Next]_vars PROVE LedgerInv'
  OBVIOUS
<1> USE DEF LedgerInv, ChargedIsClosed, AnswersArePriced, TypeOK, Go, ledger, thread
<1>1. ASSUME NEW a \in Attempts, NEW q \in Quotes, Authorize(a, q)
      PROVE  LedgerInv'
  <2>1. sequence + 1 \notin DOMAIN calls
    BY DEF CallIds
  <2>2. DOMAIN reservations' = DOMAIN reservations \cup {sequence + 1}
    BY <1>1 DEF Authorize, With
  <2> QED
    BY <1>1, <2>1, <2>2 DEF Authorize
<1>2. ASSUME NEW a \in Attempts, Commit(a)
      PROVE  LedgerInv'
  <2>1. /\ DOMAIN calls' = DOMAIN calls \cup {call[a]}
        /\ DOMAIN reservations' = DOMAIN reservations \ {call[a]}
    BY <1>2 DEF Commit, With, Without
  <2> QED
    BY <1>2, <2>1 DEF Commit, EndCommit
<1>3. ASSUME NEW a \in Attempts, Release(a)
      PROVE  LedgerInv'
  <2>1. DOMAIN reservations' = DOMAIN reservations \ {call[a]}
    BY <1>3 DEF Release, Without
  <2> QED
    BY <1>3, <2>1 DEF Release
<1>4. ASSUME NEW a \in Attempts, CleanupRelease(a)
      PROVE  LedgerInv'
  <2>1. DOMAIN reservations' = DOMAIN reservations \ {sweep[a]}
    BY <1>4 DEF CleanupRelease, Without
  <2> QED
    BY <1>4, <2>1 DEF CleanupRelease
<1>5. ASSUME NEW a \in Attempts, NEW b \in Bills, Respond(a, b)
      PROVE  LedgerInv'
  BY <1>5 DEF Respond
<1>6. ASSUME NEW a \in Attempts, CommitClosed(a) \/ RefuseLate(a)
      PROVE  LedgerInv'
  BY <1>6 DEF CommitClosed, RefuseLate, EndCommit, Uncaught
<1>7. ASSUME NEW a \in Attempts, Begin(a) \/ Register(a) \/ ForgetGuard(a)
      PROVE  LedgerInv'
  BY <1>7 DEF Begin, Register, ForgetGuard
<1>8. ASSUME NEW a \in Attempts, NEW q \in Quotes, BudgetStop(a, q)
      PROVE  LedgerInv'
  BY <1>8 DEF BudgetStop
<1>9. ASSUME NEW a \in Attempts, Fail(a) \/ Malformed(a) \/ TakeGuard(a)
      PROVE  LedgerInv'
  BY <1>9 DEF Fail, Malformed, TakeGuard, Uncaught
<1>10. ASSUME NEW a \in Attempts, Use(a) \/ Reformat(a) \/ Handoff(a)
       PROVE  LedgerInv'
  BY <1>10 DEF Use, Reformat, Handoff
<1>11. ASSUME NEW a \in Attempts, GiveUp(a)
       PROVE  LedgerInv'
  BY <1>11 DEF GiveUp, Finished
<1>12. ASSUME NEW a \in Attempts, Collect(a) \/ Timeout(a) \/ ReportTimeout(a)
       PROVE  LedgerInv'
  BY <1>12 DEF Collect, Timeout, ReportTimeout
<1>13. ASSUME NEW a \in Attempts, NEW id \in cleaning[a], CleanupForget(a, id)
       PROVE  LedgerInv'
  BY <1>13 DEF CleanupForget
<1>14. CASE UNCHANGED vars
  BY <1>14 DEF vars
<1> QED
  BY <1>1, <1>2, <1>3, <1>4, <1>5, <1>6, <1>7, <1>8, <1>9, <1>10, <1>11, <1>12, <1>13, <1>14
     DEF Next, Worker, Provider, Scheduler

(* No call is charged twice and every answer has its price, in every state. *)
THEOREM FenceLedger == Spec => []LedgerInv
<1>1. Init => LedgerInv
  BY DEF Init, LedgerInv, ChargedIsClosed, AnswersArePriced
<1> QED
  BY <1>1, LedgerStep, FenceTypes, PTL DEF Spec

(* The open quotes and the charges are finitely many numbers. *)
LEMMA LedgerNumbers ==
  ASSUME TypeOK
  PROVE  /\ IsFiniteSet(DOMAIN reservations) /\ OpenQuotes \in [DOMAIN reservations -> Nat]
         /\ IsFiniteSet(DOMAIN calls)
         /\ Billed \in [DOMAIN calls -> Nat] /\ Overruns \in [DOMAIN calls -> Nat]
<1>1. IsFiniteSet(1..sequence)
  <2>1. 1 \in Int /\ sequence \in Int
    BY DEF TypeOK
  <2> QED
    BY <2>1, FS_Interval
<1>2. IsFiniteSet(DOMAIN reservations) /\ IsFiniteSet(DOMAIN calls)
  BY <1>1, FS_Subset DEF TypeOK, CallIds
<1>3. OpenQuotes \in [DOMAIN reservations -> Nat]
  BY FenceAssumption DEF TypeOK, OpenQuotes, Reservation
<1>4. \A i \in DOMAIN calls : calls[i].bill \in Nat /\ calls[i].quote \in Nat
  <2>1. \A i \in DOMAIN calls : calls[i] \in Row
    BY DEF TypeOK
  <2>2. Bills \cup {0} \subseteq Nat /\ Quotes \subseteq Nat
    BY FenceAssumption
  <2>3. \A r \in Row : r.bill \in Nat /\ r.quote \in Nat
    BY <2>2 DEF Row
  <2> QED
    BY <2>1, <2>3
<1>5. Billed \in [DOMAIN calls -> Nat] /\ Overruns \in [DOMAIN calls -> Nat]
  BY <1>4 DEF Billed, Overruns, NonNegative
<1> QED
  BY <1>2, <1>3, <1>5

(* Giving a reservation back, whoever does it, is a step of the budget, or *)
(* none if it was not there any more.                                      *)
LEMMA ReleaseMaps ==
  ASSUME TypeOK, NEW id, reservations' = Without(reservations, id), UNCHANGED <<sequence, calls>>
  PROVE  [Budget!Next]_(Budget!vars)
<1>1. UNCHANGED <<Actual, Excess>>
  BY DEF Actual, Excess, Billed, Overruns
<1>2. CASE id \in DOMAIN reservations
  <2>1. OpenQuotes' = [i \in DOMAIN reservations \ {id} |-> OpenQuotes[i]]
    BY DEF OpenQuotes, Without
  <2>2. Reserved = OpenQuotes[id] + SumFunction([i \in DOMAIN reservations \ {id} |-> OpenQuotes[i]])
    <3>1. IsFiniteSet(DOMAIN reservations) /\ OpenQuotes \in [DOMAIN reservations -> Int]
      BY LedgerNumbers
    <3> QED
      BY <1>2, <3>1, SumSplit DEF Reserved
  <2>3. Reserved' = SumFunction(OpenQuotes')
    BY DEF Reserved
  <2>4. Reserved' \in Int /\ OpenQuotes[id] \in Int
    <3>1. IsFiniteSet(DOMAIN reservations \ {id})
      BY LedgerNumbers, FS_RemoveElement
    <3>2. OpenQuotes' \in [DOMAIN reservations \ {id} -> Int] /\ OpenQuotes[id] \in Int
      BY <1>2, <2>1, LedgerNumbers
    <3> QED
      BY <2>3, <3>1, <3>2, SumInteger
  <2>5. Reserved' = Reserved - OpenQuotes[id]
    BY <2>1, <2>2, <2>3, <2>4
  <2>6. DOMAIN OpenQuotes = DOMAIN reservations
    BY DEF OpenQuotes
  <2>7. Budget!GiveBack(id)
    BY <1>1, <2>1, <2>5, <2>6 DEF Budget!GiveBack, Budget!Without
  <2> QED
    BY <1>2, <2>6, <2>7 DEF Budget!Next
<1>3. CASE id \notin DOMAIN reservations
  <2>1. OpenQuotes' = OpenQuotes
    BY <1>3 DEF OpenQuotes, Without
  <2> QED
    BY <1>1, <2>1 DEF Budget!vars, Reserved
<1> QED
  BY <1>2, <1>3

(* A granted quote fits under the ceiling next to what is charged and open. *)
LEMMA AuthorizeMaps ==
  ASSUME TypeOK, NEW a \in Attempts, NEW q \in Quotes, Authorize(a, q)
  PROVE  Budget!Authorize(q)
<1> DEFINE new == sequence + 1
           D == DOMAIN reservations
<1>1. new \notin D /\ q \in Int
  BY FenceAssumption DEF TypeOK, CallIds
<1>2. OpenQuotes' = [i \in D \cup {new} |-> IF i = new THEN q ELSE OpenQuotes[i]]
  BY <1>1 DEF Authorize, OpenQuotes, With
<1>3. OpenQuotes \in [D -> Int] /\ IsFiniteSet(D) /\ DOMAIN OpenQuotes = D
  BY LedgerNumbers DEF OpenQuotes
<1>4. Reserved' = Reserved + q
  <2>1. SumFunction([i \in D \cup {new} |-> IF i = new THEN q ELSE OpenQuotes[i]])
          = SumFunction(OpenQuotes) + q
    BY <1>1, <1>3, SumAdd
  <2> QED
    BY <1>2, <2>1 DEF Reserved
<1>5. UNCHANGED <<Actual, Excess>> /\ sequence' = new /\ q <= Remaining
  BY DEF Authorize, Actual, Excess, Billed, Overruns
<1>6. q <= Budget!Remaining
  BY <1>5 DEF Remaining, NonNegative, Budget!Remaining, Budget!NonNegative
<1> QED
  BY <1>2, <1>3, <1>4, <1>5, <1>6 DEF Budget!Authorize

(* A commit closes the reservation and charges the bill in its place. *)
LEMMA CommitMaps ==
  ASSUME TypeOK, LedgerInv, NEW a \in Attempts, Commit(a)
  PROVE  \E id \in DOMAIN OpenQuotes, b \in Bills : Budget!Charge(id, b)
<1>0. Bills \subseteq Int /\ Quotes \subseteq Int
  BY FenceAssumption
<1> DEFINE id == call[a]
           b == bill[a]
           D == DOMAIN reservations
           E == DOMAIN calls
           quote == reservations[id].quote
           over == NonNegative(b - quote)
<1>1. id \in D /\ id \notin E /\ b \in Bills /\ b \in Int
  <2>1. id \in D /\ pc[a] = "settle"
    BY DEF Commit
  <2>2. id \notin E
    BY <2>1 DEF LedgerInv, ChargedIsClosed
  <2>3. b \in Bills
    BY <2>1 DEF LedgerInv, AnswersArePriced
  <2> QED
    BY <1>0, <2>1, <2>2, <2>3
<1>2. OpenQuotes[id] = quote /\ DOMAIN OpenQuotes = D /\ quote \in Int
  <2>1. reservations[id] \in Reservation
    BY <1>1 DEF TypeOK
  <2>2. quote \in Quotes
    BY <2>1 DEF Reservation
  <2> QED
    BY <1>0, <1>1, <2>2 DEF OpenQuotes
<1>3. over \in Int
  BY <1>1, <1>2 DEF NonNegative
<1>4. /\ OpenQuotes' = [i \in D \ {id} |-> OpenQuotes[i]]
      /\ Billed' = [i \in E \cup {id} |-> IF i = id THEN b ELSE Billed[i]]
      /\ Overruns' = [i \in E \cup {id} |-> IF i = id THEN over ELSE Overruns[i]]
  <2>1. OpenQuotes' = [i \in D \ {id} |-> OpenQuotes[i]]
    BY DEF Commit, OpenQuotes, Without
  <2>2. calls' = With(calls, id, [attempt |-> a, quote |-> quote, bill |-> b])
    BY DEF Commit
  <2>3. /\ DOMAIN calls' = E \cup {id}
        /\ calls'[id].bill = b /\ calls'[id].quote = quote
        /\ \A i \in E : calls'[i] = calls[i]
    BY <1>1, <2>2 DEF With
  <2>4. Billed' = [i \in E \cup {id} |-> IF i = id THEN b ELSE Billed[i]]
    BY <1>1, <2>3 DEF Billed
  <2>5. Overruns' = [i \in E \cup {id} |-> IF i = id THEN over ELSE Overruns[i]]
    BY <1>1, <2>3 DEF Overruns
  <2> QED
    BY <2>1, <2>4, <2>5
<1>5. /\ OpenQuotes \in [D -> Int] /\ IsFiniteSet(D)
      /\ Billed \in [E -> Int] /\ Overruns \in [E -> Int] /\ IsFiniteSet(E)
  BY LedgerNumbers
<1> HIDE DEF b, over, quote
<1>6. Actual' = Actual + b
  BY <1>1, <1>4, <1>5, SumAdd DEF Actual
<1>7. Excess' = Excess + over
  <2>1. SumFunction([i \in E \cup {id} |-> IF i = id THEN over ELSE Overruns[i]])
          = SumFunction(Overruns) + over
    <3>1. id \notin E /\ over \in Int /\ Overruns \in [E -> Int] /\ IsFiniteSet(E)
      BY <1>1, <1>3, <1>5
    <3> HIDE DEF id, E
    <3> QED
      BY <3>1, SumAdd
  <2> QED
    BY <1>4, <2>1 DEF Excess
<1>8. Reserved' = Reserved - OpenQuotes[id]
  <2>1. Reserved = OpenQuotes[id] + Reserved'
    BY <1>1, <1>4, <1>5, SumSplit DEF Reserved
  <2>2. Reserved' \in Int
    <3>1. IsFiniteSet(D \ {id}) /\ OpenQuotes' \in [D \ {id} -> Int]
      BY <1>4, <1>5, FS_RemoveElement
    <3> QED
      BY <3>1, SumInteger DEF Reserved
  <2>3. OpenQuotes[id] \in Int
    BY <1>2
  <2>4. \A m, n \in Int : (m + n) - m = n
    OBVIOUS
  <2> QED
    BY <2>1, <2>2, <2>3, <2>4
<1>9. sequence' = sequence
  BY DEF Commit
<1>10. over = Budget!NonNegative(b - OpenQuotes[id])
  BY <1>2 DEF over, NonNegative, Budget!NonNegative
<1>11. Budget!Charge(id, b)
  BY <1>2, <1>4, <1>6, <1>7, <1>8, <1>9, <1>10 DEF Budget!Charge, Budget!Without
<1> QED
  BY <1>1, <1>2, <1>11

(* Every other step leaves the ledger alone. *)
LEMMA StepMaps ==
  TypeOK /\ LedgerInv /\ [Next]_vars => [Budget!Next]_(Budget!vars)
<1> SUFFICES ASSUME TypeOK, LedgerInv, [Next]_vars PROVE [Budget!Next]_(Budget!vars)
  OBVIOUS
<1>1. ASSUME NEW a \in Attempts, NEW q \in Quotes, Authorize(a, q)
      PROVE  [Budget!Next]_(Budget!vars)
  BY <1>1, AuthorizeMaps DEF Budget!Next
<1>2. ASSUME NEW a \in Attempts, Commit(a)
      PROVE  [Budget!Next]_(Budget!vars)
  BY <1>2, CommitMaps DEF Budget!Next
<1>3. ASSUME NEW a \in Attempts, Release(a)
      PROVE  [Budget!Next]_(Budget!vars)
  BY <1>3, ReleaseMaps DEF Release
<1>4. ASSUME NEW a \in Attempts, CleanupRelease(a)
      PROVE  [Budget!Next]_(Budget!vars)
  BY <1>4, ReleaseMaps DEF CleanupRelease
<1>5. ASSUME UNCHANGED ledger
      PROVE  [Budget!Next]_(Budget!vars)
  BY <1>5 DEF ledger, Budget!vars, OpenQuotes, Billed, Overruns, Reserved, Actual, Excess
<1>6. ASSUME NEW a \in Attempts,
             \/ Begin(a) \/ Register(a) \/ ForgetGuard(a) \/ TakeGuard(a)
             \/ CommitClosed(a) \/ RefuseLate(a)
             \/ Use(a) \/ Reformat(a) \/ Handoff(a) \/ GiveUp(a)
             \/ (\E q \in Quotes : BudgetStop(a, q)) \/ Provider(a)
      PROVE  UNCHANGED ledger
  BY <1>6 DEF Begin, Register, ForgetGuard, TakeGuard, CommitClosed, RefuseLate, Use,
              Reformat, Handoff, GiveUp, BudgetStop, Provider, Respond, Fail, Malformed
<1>7. ASSUME NEW a \in Attempts,
             \/ Collect(a) \/ Timeout(a) \/ ReportTimeout(a)
             \/ \E id \in cleaning[a] : CleanupForget(a, id)
      PROVE  UNCHANGED ledger
  BY <1>7 DEF Collect, Timeout, ReportTimeout, CleanupForget
<1>8. CASE UNCHANGED vars
  BY <1>5, <1>8 DEF vars
<1> QED
  BY <1>1, <1>2, <1>3, <1>4, <1>5, <1>6, <1>7, <1>8 DEF Next, Worker, Scheduler

(* Nothing is open, charged or overrun before the first call. *)
LEMMA InitMaps == Init => Budget!Init
<1> SUFFICES ASSUME Init PROVE Budget!Init
  OBVIOUS
<1>1. DOMAIN reservations = {} /\ DOMAIN calls = {} /\ sequence = 0
  BY DEF Init
<1>2. DOMAIN OpenQuotes = {} /\ DOMAIN Billed = {} /\ DOMAIN Overruns = {}
  BY <1>1 DEF OpenQuotes, Billed, Overruns
<1>3. OpenQuotes = [i \in {} |-> 0]
  BY <1>1 DEF OpenQuotes
<1>4. Reserved = 0 /\ Actual = 0 /\ Excess = 0
  BY <1>2, SumEmpty DEF Reserved, Actual, Excess
<1> QED
  BY <1>1, <1>3, <1>4 DEF Budget!Init

(* The worker threads, the waiting threads and the providers together      *)
(* implement the run budget, in every interleaving of answers, timeouts    *)
(* and cleanups (CostLedger.authorize, commit and release).                *)
THEOREM FenceImplementsBudget == Spec => ImplementsBudget
<1> QED
  BY InitMaps, StepMaps, FenceTypes, FenceLedger, PTL DEF Spec, ImplementsBudget, Budget!Spec

(* A run budget never pays and promises more than its ceiling, except by   *)
(* what providers bill beyond the quotes they were authorized for.         *)
THEOREM BudgetWithinCeiling ==
  ASSUME Budget!PricesOK
  PROVE  Budget!Spec => [](Budget!TypeOK /\ Budget!WithinCeiling)
<1> QED
  BY BudgetInit, BudgetStep, PTL DEF Budget!Spec

(* So the ledger of a run stays within its ceiling, up to the overruns the *)
(* providers bill, however many threads share it and whatever times out.   *)
THEOREM LedgerCeiling == Spec => []LedgerWithinCeiling
<1>1. Budget!PricesOK
  BY FenceAssumption DEF Budget!PricesOK
<1>2. Budget!Spec => [](Budget!TypeOK /\ Budget!WithinCeiling)
  BY <1>1, BudgetWithinCeiling
<1> QED
  BY <1>2, FenceImplementsBudget, PTL DEF ImplementsBudget, LedgerWithinCeiling
=============================================================================
