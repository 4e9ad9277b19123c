------------------------- MODULE DagSchedulerProofs -------------------------
(* Proofs about the scheduler for every plan, retry policy and pool size. *)
EXTENDS DagScheduler, TLAPS

(* A task of the pool has its dependencies, and only such a task has a     *)
(* thread.                                                                 *)
PoolHasDependencies ==
  \A t \in Tasks :
    /\ t \in runnable => \A d \in Deps[t] : result[d] \in Success
    /\ worker[t] # "none" => t \in runnable

(* The tasks of the batch have no result until the commit pass gets there. *)
BatchIsOpen ==
  /\ phase \in {"serial", "pool"} => \A t \in batch : result[t] = "none"
  /\ phase = "commit" => \A t \in todo : result[t] = "none"

(* An attempt that began too late was the last one. *)
LateIsLast == \A t \in Tasks : late[t] = 0 \/ (late[t] = 1 /\ cancel /\ worker[t] # "go")

(* A lease is held for a task the commit pass has yet to release. *)
HeldIsPending ==
  /\ phase \in {"serial", "pool"} => step = "look"
  /\ phase # "dead" => \A t \in Tasks : lease[t] = "held" =>
       /\ phase # "done" /\ t \in runnable
       /\ phase = "commit" => t \in todo /\ (First(t, todo) => step # "settle")

(* What the pool runs has no checkpoint with the key of this execution,    *)
(* and in the commit pass, which writes the checkpoints, the pool is empty.*)
RunsUncheckpointed ==
  /\ \A t \in Cacheable : worker[t] \in {"queued", "check", "go", "busy"} =>
       cache_key_for_task(t) \notin checkpoint
  /\ phase = "commit" => \A t \in Tasks : worker[t] \in {"none", "over"}

IInv ==
  /\ TypeOK
  /\ SuccessNeedsDependencies
  /\ PoolHasDependencies
  /\ BatchIsOpen
  /\ LateIsLast
  /\ HeldIsPending
  /\ RunsUncheckpointed

(* The first batch is open and nothing has run. *)
LEMMA InitIInv == ASSUME DagAssumption PROVE Init => IInv
<1> SUFFICES ASSUME Init PROVE IInv
  OBVIOUS
<1> USE DagAssumption DEF Init, Ready, Tasks, Success, Status
<1>1. TypeOK
  <2>1. attempt \in [Tasks -> 0..MaxAttempts] /\ resumes \in 0..MaxResumes /\ late \in [Tasks -> Nat]
    BY DEF DagAssumption
  <2> QED
    BY <2>1 DEF TypeOK
<1>2. SuccessNeedsDependencies /\ PoolHasDependencies /\ BatchIsOpen
  BY DEF SuccessNeedsDependencies, PoolHasDependencies, BatchIsOpen, DagAssumption
<1>3. LateIsLast /\ HeldIsPending /\ RunsUncheckpointed
  BY DEF LateIsLast, HeldIsPending, RunsUncheckpointed, DagAssumption
<1> QED
  BY <1>1, <1>2, <1>3 DEF IInv

(* Starting a batch gives the types of a fresh batch. *)
LEMMA BatchTypes ==
  ASSUME DagAssumption, NEW placed, StartBatch(placed)
  PROVE  /\ todo' \subseteq batch' /\ batch' \subseteq Tasks \ placed /\ runnable' = {}
         /\ phase' \in {"serial", "done"} /\ step' = "look"
         /\ worker' = [t \in Tasks |-> "none"]
         /\ attempt' = [t \in Tasks |-> 0]
         /\ got' = [t \in Tasks |-> "none"]
  BY DEF StartBatch, Ready

(* Every step of an execution and of its surroundings keeps the invariant. *)
LEMMA IInvStep == ASSUME DagAssumption PROVE IInv /\ [Next]_vars => IInv'
<1> SUFFICES ASSUME IInv, [Next]_vars PROVE IInv'
  OBVIOUS
<1> USE DagAssumption DEF DagAssumption, IInv, Success, Status, store, history, cache_key_for_task
<1>1. ASSUME NEW t \in Tasks, Serial(t) PROVE IInv'
  <2>1. ASSUME NEW s \in Status, Decide(t, s), phase = "serial", t \in todo,
               s \in Success => ~Blocked(t)
        PROVE  IInv'
    <3>1. TypeOK'
      BY <2>1 DEF TypeOK, Decide
    <3>2. SuccessNeedsDependencies' /\ PoolHasDependencies' /\ BatchIsOpen'
      BY <2>1 DEF TypeOK, Decide, SuccessNeedsDependencies, PoolHasDependencies, BatchIsOpen, Blocked
    <3>3. LateIsLast' /\ HeldIsPending' /\ RunsUncheckpointed'
      BY <2>1 DEF TypeOK, Decide, LateIsLast, HeldIsPending, RunsUncheckpointed
    <3> QED
      BY <3>1, <3>2, <3>3
  <2>2. CASE SeeCancel(t)
    BY <2>1, <2>2 DEF SeeCancel, First
  <2>3. CASE Skip(t)
    BY <2>1, <2>3 DEF Skip, First
  <2>4. CASE Load(t)
    BY <2>1, <2>4 DEF Load, First
  <2>5. CASE Refuse(t)
    BY <2>1, <2>5 DEF Refuse, First
  <2>6. CASE Acquire(t)
    <3>1. TypeOK'
      BY <2>6 DEF TypeOK, Acquire, First
    <3>2. SuccessNeedsDependencies' /\ PoolHasDependencies' /\ BatchIsOpen'
      BY <2>6 DEF TypeOK, Acquire, First, SuccessNeedsDependencies, PoolHasDependencies, BatchIsOpen, Blocked
    <3>3. LateIsLast'
      BY <2>6 DEF TypeOK, Acquire, LateIsLast
    <3>4. HeldIsPending'
      BY <2>6 DEF TypeOK, Acquire, HeldIsPending
    <3>5. RunsUncheckpointed'
      BY <2>6 DEF TypeOK, Acquire, RunsUncheckpointed, Loaded
    <3> QED
      BY <3>1, <3>2, <3>3, <3>4, <3>5
  <2> QED
    BY <1>1, <2>2, <2>3, <2>4, <2>5, <2>6 DEF Serial
<1>2. CASE StartPool
  <2>1. TypeOK' /\ SuccessNeedsDependencies' /\ PoolHasDependencies' /\ BatchIsOpen'
    BY <1>2 DEF StartPool, TypeOK, SuccessNeedsDependencies, PoolHasDependencies, BatchIsOpen
  <2>2. LateIsLast' /\ HeldIsPending' /\ RunsUncheckpointed'
    BY <1>2 DEF StartPool, TypeOK, LateIsLast, HeldIsPending, RunsUncheckpointed
  <2> QED
    BY <2>1, <2>2
<1>3. CASE StartCommit
  <2>1. TypeOK' /\ SuccessNeedsDependencies' /\ PoolHasDependencies' /\ BatchIsOpen'
    BY <1>3 DEF StartCommit, TypeOK, SuccessNeedsDependencies, PoolHasDependencies, BatchIsOpen
  <2>2. LateIsLast' /\ HeldIsPending'
    BY <1>3 DEF StartCommit, TypeOK, LateIsLast, HeldIsPending
  <2>3. RunsUncheckpointed'
    BY <1>3 DEF StartCommit, TypeOK, RunsUncheckpointed, PoolHasDependencies
  <2> QED
    BY <2>1, <2>2, <2>3
<1>4. ASSUME NEW t \in Tasks, Pool(t) PROVE IInv'
  <2>1. CASE Begin(t)
    BY <1>4, <2>1 DEF Begin, TypeOK, SuccessNeedsDependencies, PoolHasDependencies, BatchIsOpen, LateIsLast, HeldIsPending, RunsUncheckpointed
  <2>2. CASE Check(t)
    <3>1. TypeOK' /\ PoolHasDependencies'
      BY <1>4, <2>2 DEF Check, Give, TypeOK, PoolHasDependencies
    <3>2. SuccessNeedsDependencies' /\ BatchIsOpen'
      BY <1>4, <2>2 DEF Check, Give, TypeOK, SuccessNeedsDependencies, BatchIsOpen
    <3>3. LateIsLast'
      BY <1>4, <2>2 DEF Check, Give, TypeOK, LateIsLast
    <3>4. HeldIsPending' /\ RunsUncheckpointed'
      BY <1>4, <2>2 DEF Check, Give, TypeOK, HeldIsPending, RunsUncheckpointed
    <3> QED
      BY <3>1, <3>2, <3>3, <3>4
  <2>3. CASE Go(t)
    <3>1. TypeOK' /\ PoolHasDependencies' /\ SuccessNeedsDependencies' /\ BatchIsOpen'
      BY <1>4, <2>3 DEF Go, TypeOK, PoolHasDependencies, SuccessNeedsDependencies, BatchIsOpen
    <3>2. LateIsLast'
      BY <1>4, <2>3 DEF Go, TypeOK, LateIsLast
    <3>3. HeldIsPending' /\ RunsUncheckpointed'
      BY <1>4, <2>3 DEF Go, TypeOK, HeldIsPending, RunsUncheckpointed
    <3> QED
      BY <3>1, <3>2, <3>3
  <2> QED
    BY <1>4, <2>1, <2>2, <2>3 DEF Pool
<1>5. ASSUME NEW t \in Tasks, NEW s \in Status, Close(t, s) PROVE IInv'
  <2>1. attempt' \in [Tasks -> 0..MaxAttempts]
    <3>1. attempt \in [Tasks -> 0..MaxAttempts] /\ MaxAttempts \in Nat
      BY DEF TypeOK
    <3>2. CASE UNCHANGED attempt
      BY <3>1, <3>2
    <3>3. CASE attempt[t] # MaxAttempts /\ attempt' = [attempt EXCEPT ![t] = @ + 1]
      <4>1. attempt[t] + 1 \in 0..MaxAttempts
        BY <3>1, <3>3
      <4> QED
        BY <3>1, <3>3, <4>1
    <3> QED
      BY <1>5, <3>2, <3>3 DEF Close
  <2>6. got' \in [Tasks -> Status \cup {"none"}] /\ worker' \in [Tasks -> {"none", "queued", "check", "go", "busy", "over"}]
    <3>1. got \in [Tasks -> Status \cup {"none"}] /\ worker \in [Tasks -> {"none", "queued", "check", "go", "busy", "over"}]
      BY DEF TypeOK
    <3>2. CASE Give(t, s)
      BY <3>1, <3>2 DEF Give
    <3>3. CASE UNCHANGED got /\ worker' = [worker EXCEPT ![t] = "check"]
      BY <3>1, <3>3
    <3> QED
      BY <1>5, <3>2, <3>3 DEF Close
  <2>4. TypeOK'
    BY <1>5, <2>1, <2>6 DEF Close, TypeOK
  <2>5. PoolHasDependencies' /\ BatchIsOpen'
    BY <1>5 DEF Close, Give, TypeOK, PoolHasDependencies, BatchIsOpen
  <2>2. SuccessNeedsDependencies'
    BY <1>5 DEF Close, Give, TypeOK, SuccessNeedsDependencies, PoolHasDependencies
  <2>3. LateIsLast' /\ HeldIsPending' /\ RunsUncheckpointed'
    BY <1>5 DEF Close, Give, TypeOK, LateIsLast, HeldIsPending, RunsUncheckpointed
  <2> QED
    BY <2>2, <2>3, <2>4, <2>5
<1>6. ASSUME NEW t \in Tasks, Commit(t) PROVE IInv'
  <2>1. CASE Look(t)
    <3>1. TypeOK' /\ PoolHasDependencies' /\ SuccessNeedsDependencies' /\ BatchIsOpen'
      <4>1. TypeOK'
        BY <1>6, <2>1 DEF Look, TypeOK
      <4>2. PoolHasDependencies' /\ SuccessNeedsDependencies' /\ BatchIsOpen'
        BY <1>6, <2>1 DEF Look, TypeOK, PoolHasDependencies, SuccessNeedsDependencies, BatchIsOpen
      <4> QED
        BY <4>1, <4>2
    <3>2. LateIsLast' /\ RunsUncheckpointed'
      BY <1>6, <2>1 DEF Look, TypeOK, LateIsLast, RunsUncheckpointed
    <3>3. ASSUME NEW u \in Tasks, First(u, todo), u # t PROVE FALSE
      BY <2>1, <3>3 DEF Look, First, Tasks
    <3>4. HeldIsPending'
      BY <1>6, <2>1, <3>3 DEF Look, TypeOK, HeldIsPending, First
    <3> QED
      BY <3>1, <3>2, <3>4
  <2>2. CASE Save(t)
    <3>1. TypeOK' /\ PoolHasDependencies' /\ SuccessNeedsDependencies' /\ BatchIsOpen'
      <4>1. checkpoint' \subseteq Tasks \X Contexts
        BY <1>6, <2>2 DEF Save, TypeOK
      <4>2. PoolHasDependencies' /\ SuccessNeedsDependencies' /\ BatchIsOpen'
        BY <1>6, <2>2 DEF Save, TypeOK, PoolHasDependencies, SuccessNeedsDependencies, BatchIsOpen
      <4> QED
        BY <1>6, <2>2, <4>1, <4>2 DEF Save, TypeOK
    <3>2. LateIsLast' /\ RunsUncheckpointed'
      BY <1>6, <2>2 DEF Save, TypeOK, LateIsLast, RunsUncheckpointed
    <3>3. HeldIsPending'
      BY <1>6, <2>2 DEF Save, TypeOK, HeldIsPending
    <3> QED
      BY <3>1, <3>2, <3>3
  <2>3. CASE Release(t)
    <3>1. TypeOK' /\ PoolHasDependencies' /\ SuccessNeedsDependencies' /\ BatchIsOpen'
      BY <1>6, <2>3 DEF Release, TypeOK, PoolHasDependencies, SuccessNeedsDependencies, BatchIsOpen
    <3>2. LateIsLast' /\ RunsUncheckpointed'
      BY <1>6, <2>3 DEF Release, TypeOK, LateIsLast, RunsUncheckpointed
    <3>3. HeldIsPending'
      BY <1>6, <2>3 DEF Release, TypeOK, HeldIsPending, First, Tasks
    <3> QED
      BY <3>1, <3>2, <3>3
  <2>4. CASE Settle(t)
    <3>1. result[t] = "none" /\ t \in batch /\ result' = [result EXCEPT ![t] = got[t]]
      BY <2>4 DEF Settle, First, BatchIsOpen, TypeOK
    <3>2. SuccessNeedsDependencies'
      BY <2>4, <3>1, BatchTypes DEF Settle, TypeOK, SuccessNeedsDependencies
    <3>3. CASE todo = {t}
      <4>1. StartBatch(Placed \cup {t})
        BY <2>4, <3>3 DEF Settle
      <4>2. TypeOK' /\ PoolHasDependencies' /\ LateIsLast' /\ RunsUncheckpointed'
        BY <2>4, <4>1, BatchTypes DEF Settle, TypeOK, PoolHasDependencies, LateIsLast, RunsUncheckpointed
      <4>3. BatchIsOpen'
        BY <2>4, <3>1, <4>1, BatchTypes DEF Settle, TypeOK, BatchIsOpen, Placed
      <4>4. \A u \in Tasks : lease[u] # "held"
        BY <2>4, <3>3 DEF Settle, HeldIsPending, First
      <4>5. HeldIsPending'
        BY <2>4, <4>1, <4>4, BatchTypes DEF Settle, HeldIsPending
      <4> QED
        BY <3>2, <4>2, <4>3, <4>5
    <3>4. CASE todo # {t}
      <4>1. TypeOK' /\ PoolHasDependencies'
        BY <2>4, <3>1, <3>4 DEF Settle, TypeOK, PoolHasDependencies
      <4>2. BatchIsOpen' /\ LateIsLast' /\ RunsUncheckpointed'
        BY <2>4, <3>1, <3>4 DEF Settle, TypeOK, BatchIsOpen, LateIsLast, RunsUncheckpointed
      <4>3. HeldIsPending'
        BY <2>4, <3>4 DEF Settle, TypeOK, HeldIsPending, First
      <4> QED
        BY <3>2, <4>1, <4>2, <4>3
    <3> QED
      BY <3>3, <3>4
  <2> QED
    BY <1>6, <2>1, <2>2, <2>3, <2>4 DEF Commit
<1>7. ASSUME lease' \in [Tasks -> {"free", "held", "expired", "foreign"}],
             \A t \in Tasks : lease'[t] = "held" => lease[t] = "held",
             UNCHANGED <<memory, checkpoint, cache, history>>, cancel' \in BOOLEAN, cancel => cancel'
      PROVE  IInv'
  <2>1. TypeOK' /\ SuccessNeedsDependencies' /\ PoolHasDependencies' /\ BatchIsOpen'
    BY <1>7 DEF memory, TypeOK, SuccessNeedsDependencies, PoolHasDependencies, BatchIsOpen
  <2>2. LateIsLast' /\ HeldIsPending' /\ RunsUncheckpointed'
    BY <1>7 DEF memory, TypeOK, LateIsLast, HeldIsPending, RunsUncheckpointed, First
  <2> QED
    BY <2>1, <2>2
<1>8. CASE \E t \in Tasks : Expire(t)
  BY <1>7, <1>8 DEF Expire, TypeOK
<1>9. CASE Recover
  BY <1>7, <1>9 DEF Recover, TypeOK
<1>10. CASE RequestCancel
  BY <1>7, <1>10 DEF RequestCancel, TypeOK
<1>11. CASE Crash
  BY <1>11 DEF Crash, TypeOK, SuccessNeedsDependencies, PoolHasDependencies, BatchIsOpen, LateIsLast, HeldIsPending, RunsUncheckpointed
<1>12. CASE Resume
  <2>1. lease' \in [Tasks -> {"free", "foreign"}]
    BY <1>12 DEF Resume, TypeOK
  <2>4. resumes' \in 0..MaxResumes
    BY <1>12 DEF Resume, TypeOK
  <2>7. late' = [t \in Tasks |-> 0] /\ attempt' = [t \in Tasks |-> 0] /\ cancel' = FALSE
    BY <1>12, BatchTypes DEF Resume
  <2>6. attempt' \in [Tasks -> 0..MaxAttempts] /\ late' \in [Tasks -> Nat]
    <3>1. 0 \in 0..MaxAttempts
      OBVIOUS
    <3> QED
      BY <2>7, <3>1
  <2>5. TypeOK'
    <3>1. /\ todo' \subseteq batch' /\ batch' \subseteq Tasks /\ runnable' \subseteq batch'
          /\ phase' \in {"serial", "pool", "commit", "done", "dead"}
          /\ step' \in {"look", "save", "release", "settle"}
      BY <1>12, BatchTypes DEF Resume
    <3>2. /\ worker' \in [Tasks -> {"none", "queued", "check", "go", "busy", "over"}]
          /\ got' \in [Tasks -> Status \cup {"none"}]
          /\ result' \in [Tasks -> Status \cup {"none"}]
      BY <1>12, BatchTypes DEF Resume
    <3>3. /\ lease' \in [Tasks -> {"free", "held", "expired", "foreign"}]
          /\ checkpoint' \subseteq Tasks \X Contexts /\ cache' \subseteq Cacheable \X Contexts
          /\ context' \in Contexts
      BY <1>12, <2>1 DEF Resume, TypeOK
    <3> QED
      BY <2>4, <2>6, <2>7, <3>1, <3>2, <3>3 DEF TypeOK
  <2>2. PoolHasDependencies' /\ BatchIsOpen'
    BY <1>12, BatchTypes DEF Resume, PoolHasDependencies, BatchIsOpen
  <2>3. SuccessNeedsDependencies' /\ LateIsLast' /\ HeldIsPending' /\ RunsUncheckpointed'
    BY <1>12, <2>1, BatchTypes DEF Resume, TypeOK, SuccessNeedsDependencies, LateIsLast, HeldIsPending, RunsUncheckpointed
  <2> QED
    BY <2>2, <2>3, <2>5
<1>13. CASE UNCHANGED vars
  BY <1>7, <1>13 DEF vars, memory, TypeOK
<1> QED
  BY <1>1, <1>2, <1>3, <1>4, <1>5, <1>6, <1>8, <1>9, <1>10, <1>11, <1>12, <1>13 DEF Next, Owner, Environment, Answer, Timeout

(* The invariant holds in every reachable state. *)
THEOREM SchedulerInvariant == ASSUME DagAssumption PROVE Spec => []IInv
<1>1. Init => IInv
  BY InitIInv
<1>2. IInv /\ [Next]_vars => IInv'
  BY IInvStep
<1> QED
  BY <1>1, <1>2, PTL DEF Spec

(* Type correctness of the execution, the leases and the checkpoints. *)
THEOREM SchedulerTypes == ASSUME DagAssumption PROVE Spec => []TypeOK
<1>1. IInv => TypeOK
  BY DEF IInv
<1> QED
  BY <1>1, SchedulerInvariant, PTL

(* For every plan, no task succeeds, by running or from a store, past a    *)
(* dependency that did not.                                                *)
THEOREM DependenciesFirst == ASSUME DagAssumption PROVE Spec => []SuccessNeedsDependencies
<1>1. IInv => SuccessNeedsDependencies
  BY DEF IInv
<1> QED
  BY <1>1, SchedulerInvariant, PTL

(* For every retry policy, a stored cancellation leaves a task at most the *)
(* attempt that had passed its check.                                      *)
THEOREM CancelBounds == ASSUME DagAssumption PROVE Spec => []CancelBoundsWork
<1>1. IInv => CancelBoundsWork
  BY DEF IInv, LateIsLast, CancelBoundsWork
<1> QED
  BY <1>1, SchedulerInvariant, PTL

(* An execution that ended holds no lease, for every plan. *)
THEOREM LeasesReturned == ASSUME DagAssumption PROVE Spec => []EndedHoldsNoLease
<1>1. IInv => EndedHoldsNoLease
  BY DEF IInv, HeldIsPending, EndedHoldsNoLease
<1> QED
  BY <1>1, SchedulerInvariant, PTL

(* Whatever becomes of the context between executions, no step executes a  *)
(* cacheable task whose latest checkpoint has the present fingerprint.     *)
THEOREM NeverRepeats == ASSUME DagAssumption PROVE Spec => MatchingCheckpointIsReused
<1>1. IInv => [\A t \in Cacheable : cache_key_for_task(t) \in checkpoint => ~Go(t)]_vars
  <2> SUFFICES ASSUME IInv, NEW t \in Cacheable, cache_key_for_task(t) \in checkpoint, Go(t)
               PROVE  FALSE
    OBVIOUS
  <2> QED
    BY DEF IInv, RunsUncheckpointed, Go
<1> QED
  BY <1>1, SchedulerInvariant, PTL DEF MatchingCheckpointIsReused
=============================================================================
