---------------------------- MODULE DagScheduler ----------------------------
(***************************************************************************)
(* DAGScheduler.execute: the batches of a plan, the serial pass in front   *)
(* of each batch, the bounded pool with retries and timeouts, the commit   *)
(* pass on the owner thread, and what a crash leaves to the execution that *)
(* resumes the run.  Module TaskLease has the lease rows in detail; here a *)
(* lease is seen from the execution in progress.                           *)
(***************************************************************************)
EXTENDS Integers, FiniteSets

CONSTANTS
  N,            \* number of tasks; a task is its place in the order of ids
  Deps,         \* dependencies of each task
  Cacheable,    \* the cacheable tasks
  Contexts,     \* what cache_context may come to: policy, provider table with
                \* its health, and all the decisions of the router
  MaxAttempts,  \* retry_policy.max_attempts
  MaxParallel,  \* max_parallel_tasks
  Earlier,      \* bound: keys that earlier runs may have left in the cache
  MaxResumes    \* bound: executions after the first

Tasks == 1..N

ASSUME DagAssumption ==
  /\ N \in Nat
  /\ Deps \in [Tasks -> SUBSET Tasks]
  /\ \E rank \in [Tasks -> Tasks] : \A t \in Tasks : \A d \in Deps[t] : rank[d] < rank[t]
  /\ Cacheable \subseteq Tasks /\ Earlier \subseteq Cacheable \X Contexts
  /\ MaxAttempts \in Nat \ {0} /\ MaxParallel \in Nat \ {0} /\ MaxResumes \in Nat

VARIABLES
  phase,        \* of the execution; "dead" when its process or it failed
  todo,         \* tasks of the batch the pass has not come to
  batch,        \* tasks of the batch
  runnable,     \* tasks of the batch for the pool
  step,         \* where the commit pass stands with its task
  worker,       \* _execute_with_retries of each task
  attempt,      \* its attempt
  got,          \* batch_results
  result,       \* result_by_task
  lease,        \* the task's lease row: free, held by this execution, run out
                \* though still active, or held by an execution that is gone
  context,      \* cache_context of the execution; with a task it makes a key
  checkpoint,   \* keys in the latest rows of task_checkpoints
  cache,        \* keys with an entry in the exact-match cache
  cancel,       \* a cancellation is stored
  late,         \* history: attempts begun with the cancellation stored
  resumes       \* executions after the first

memory == <<phase, todo, batch, runnable, step, worker, attempt, got, result, context>>
store == <<lease, checkpoint, cache, cancel>>
history == <<late, resumes>>
vars == <<memory, store, history>>

Success == {"completed", "cached"}
Status == Success \cup {"failed", "skipped", "cancelled", "waiting"}

First(t, s) == t \in s /\ \A u \in s : t <= u
Ready(placed) == {t \in Tasks \ placed : Deps[t] \subseteq placed}
Placed == {t \in Tasks : result[t] # "none"}

(* Dependents that wait for a missing result only. *)
BlockedByMissing(t) == \E d \in Deps[t] : result[d] = "none"

(* _blocked_by_dependency *)
Blocked(t) == \E d \in Deps[t] : result[d] \notin Success

cache_key_for_task(t) == <<t, context>>

(* A look that skips the checkpoints. *)
LoadedFromCache(t) == t \in Cacheable /\ cache_key_for_task(t) \in cache

(* A checkpoint of the run with the fingerprint of this execution, or an   *)
(* entry of the exact-match cache.                                         *)
Loaded(t) == t \in Cacheable /\ cache_key_for_task(t) \in checkpoint \cup cache

StartBatch(placed) ==
  /\ batch' = Ready(placed)
  /\ todo' = Ready(placed)
  /\ runnable' = {}
  /\ worker' = [t \in Tasks |-> "none"]
  /\ attempt' = [t \in Tasks |-> 0]
  /\ got' = [t \in Tasks |-> "none"]
  /\ step' = "look"
  /\ phase' = IF Ready(placed) = {} THEN "done" ELSE "serial"
-----------------------------------------------------------------------------
(* The cache may hold results of earlier runs. *)
Init ==
  /\ batch = Ready({}) /\ todo = Ready({}) /\ runnable = {}
  /\ phase = IF Ready({}) = {} THEN "done" ELSE "serial"
  /\ step = "look"
  /\ worker = [t \in Tasks |-> "none"]
  /\ attempt = [t \in Tasks |-> 0]
  /\ got = [t \in Tasks |-> "none"]
  /\ result = [t \in Tasks |-> "none"]
  /\ lease = [t \in Tasks |-> "free"]
  /\ context \in Contexts
  /\ checkpoint = {} /\ cache \in SUBSET Earlier
  /\ cancel = FALSE
  /\ late = [t \in Tasks |-> 0] /\ resumes = 0

(* The serial pass settles a task ... *)
Decide(t, status) ==
  /\ got' = [got EXCEPT ![t] = status]
  /\ todo' = todo \ {t}
  /\ UNCHANGED <<phase, batch, runnable, step, worker, attempt, result, context, store, history>>

SeeCancel(t) ==
  /\ phase = "serial" /\ First(t, todo)
  /\ cancel
  /\ Decide(t, "cancelled")

Skip(t) ==
  /\ phase = "serial" /\ First(t, todo)
  /\ ~cancel /\ Blocked(t)
  /\ Decide(t, "skipped")

Load(t) ==
  /\ phase = "serial" /\ First(t, todo)
  /\ ~cancel /\ ~Blocked(t) /\ Loaded(t)
  /\ Decide(t, "cached")

Refuse(t) ==
  /\ phase = "serial" /\ First(t, todo)
  /\ ~cancel /\ ~Blocked(t) /\ ~Loaded(t)
  /\ lease[t] \in {"held", "foreign"}
  /\ Decide(t, "failed")

(* ... or takes its lease and leaves it to the pool. *)
Acquire(t) ==
  /\ phase = "serial" /\ First(t, todo)
  /\ ~cancel /\ ~Blocked(t) /\ ~Loaded(t)
  /\ lease[t] \in {"free", "expired"}
  /\ lease' = [lease EXCEPT ![t] = "held"]
  /\ runnable' = runnable \cup {t}
  /\ worker' = [worker EXCEPT ![t] = "queued"]
  /\ todo' = todo \ {t}
  /\ UNCHANGED <<phase, batch, step, attempt, got, result, context, checkpoint, cache, cancel, history>>

StartPool ==
  /\ phase = "serial" /\ todo = {}
  /\ phase' = "pool"
  /\ UNCHANGED <<todo, batch, runnable, step, worker, attempt, got, result, context, store, history>>
-----------------------------------------------------------------------------
(* A thread of the pool takes a task; each of its attempts asks for the    *)
(* cancellation first.                                                     *)
Busy == {t \in Tasks : worker[t] \in {"check", "go", "busy"}}

Begin(t) ==
  /\ phase = "pool" /\ worker[t] = "queued"
  /\ Cardinality(Busy) < MaxParallel
  /\ worker' = [worker EXCEPT ![t] = "check"]
  /\ attempt' = [attempt EXCEPT ![t] = 1]
  /\ UNCHANGED <<phase, todo, batch, runnable, step, got, result, context, store, history>>

Give(t, status) ==
  /\ got' = [got EXCEPT ![t] = status]
  /\ worker' = [worker EXCEPT ![t] = "over"]

(* Check that looks for a cancellation before the first attempt only. *)
CheckOnce(t) ==
  /\ phase = "pool" /\ worker[t] = "check"
  /\ IF cancel /\ attempt[t] = 1
       THEN Give(t, "cancelled")
       ELSE worker' = [worker EXCEPT ![t] = "go"] /\ UNCHANGED got
  /\ UNCHANGED <<phase, todo, batch, runnable, step, attempt, result, context, store, history>>

Check(t) ==
  /\ phase = "pool" /\ worker[t] = "check"
  /\ IF cancel
       THEN Give(t, "cancelled")
       ELSE worker' = [worker EXCEPT ![t] = "go"] /\ UNCHANGED got
  /\ UNCHANGED <<phase, todo, batch, runnable, step, attempt, result, context, store, history>>

(* The attempt's own thread starts. *)
Go(t) ==
  /\ phase = "pool" /\ worker[t] = "go"
  /\ worker' = [worker EXCEPT ![t] = "busy"]
  /\ late' = IF cancel THEN [late EXCEPT ![t] = @ + 1] ELSE late
  /\ UNCHANGED <<phase, todo, batch, runnable, step, attempt, got, result, context, store, resumes>>

(* Close that tries again for ever. *)
CloseUncounted(t, status) ==
  /\ phase = "pool" /\ worker[t] = "busy"
  /\ IF status = "completed"
       THEN Give(t, status) /\ UNCHANGED attempt
       ELSE /\ worker' = [worker EXCEPT ![t] = "check"]
            /\ UNCHANGED <<attempt, got>>
  /\ UNCHANGED <<phase, todo, batch, runnable, step, result, context, store, history>>

(* An attempt ends: with a completed task, with another attempt, or with   *)
(* the last status.                                                        *)
Close(t, status) ==
  /\ phase = "pool" /\ worker[t] = "busy"
  /\ IF status = "completed" \/ attempt[t] = MaxAttempts
       THEN Give(t, status) /\ UNCHANGED attempt
       ELSE /\ worker' = [worker EXCEPT ![t] = "check"]
            /\ attempt' = [attempt EXCEPT ![t] = @ + 1]
            /\ UNCHANGED got
  /\ UNCHANGED <<phase, todo, batch, runnable, step, result, context, store, history>>

(* The stage worker answers, or raises. *)
Answer(t) == \E status \in {"completed", "failed", "waiting", "skipped"} : Close(t, status)

(* The scheduler stops waiting; the thread is left behind. *)
Timeout(t) == Close(t, "failed")

StartCommit ==
  /\ phase = "pool"
  /\ \A t \in runnable : worker[t] = "over"
  /\ phase' = "commit"
  /\ todo' = batch
  /\ UNCHANGED <<batch, runnable, step, worker, attempt, got, result, context, store, history>>
-----------------------------------------------------------------------------
(* The commit pass, task by task: current_task_lease ... *)
Look(t) ==
  /\ phase = "commit" /\ First(t, todo) /\ step = "look"
  /\ t \in runnable
  /\ IF lease[t] \in {"held", "expired"}
       THEN /\ step' = IF got[t] = "completed" THEN "save" ELSE "release"
            /\ UNCHANGED got
       ELSE /\ step' = "settle"
            /\ got' = [got EXCEPT ![t] = "failed"]
  /\ UNCHANGED <<phase, todo, batch, runnable, worker, attempt, result, context, store, history>>

(* ... save_checkpoint, under a lease that has not run out ... *)
Save(t) ==
  /\ phase = "commit" /\ First(t, todo) /\ step = "save"
  /\ IF lease[t] = "held"
       THEN /\ checkpoint' = {key \in checkpoint : key[1] # t} \cup {cache_key_for_task(t)}
            /\ UNCHANGED got
       ELSE got' = [got EXCEPT ![t] = "failed"] /\ UNCHANGED checkpoint
  /\ step' = "release"
  /\ UNCHANGED <<phase, todo, batch, runnable, worker, attempt, result, context, lease, cache, cancel, history>>

(* ... release_task_lease, which has nothing to do after a recovery ... *)
Release(t) ==
  /\ phase = "commit" /\ First(t, todo) /\ step = "release"
  /\ lease' = [lease EXCEPT ![t] = "free"]
  /\ step' = "settle"
  /\ UNCHANGED <<phase, todo, batch, runnable, worker, attempt, got, result, context, checkpoint, cache, cancel, history>>

(* ... the cache entry and the result.  The next batch follows the last    *)
(* task.                                                                   *)
Settle(t) ==
  /\ phase = "commit" /\ First(t, todo)
  /\ step = "settle" \/ (step = "look" /\ t \notin runnable)
  /\ cache' = IF t \in Cacheable /\ got[t] = "completed" THEN cache \cup {cache_key_for_task(t)} ELSE cache
  /\ result' = [result EXCEPT ![t] = got[t]]
  /\ IF todo = {t}
       THEN StartBatch(Placed \cup {t})
       ELSE /\ todo' = todo \ {t} /\ step' = "look"
            /\ UNCHANGED <<phase, batch, runnable, worker, attempt, got>>
  /\ UNCHANGED <<context, lease, checkpoint, cancel, history>>
-----------------------------------------------------------------------------
(* A lease runs out: timeouts, retries and the rest of the batch may take  *)
(* longer than the timeout of one task plus five seconds.                  *)
Expire(t) ==
  /\ lease[t] \in {"held", "foreign"}
  /\ lease' = [lease EXCEPT ![t] = "expired"]
  /\ UNCHANGED <<memory, checkpoint, cache, cancel, history>>

(* The execution of another run starts and abandons expired rows. *)
Recover ==
  /\ \E t \in Tasks : lease[t] = "expired"
  /\ lease' = [t \in Tasks |-> IF lease[t] = "expired" THEN "free" ELSE lease[t]]
  /\ UNCHANGED <<memory, checkpoint, cache, cancel, history>>

RequestCancel ==
  /\ ~cancel
  /\ cancel' = TRUE
  /\ UNCHANGED <<memory, lease, checkpoint, cache, history>>

(* The process dies, or a statement of the store raises. *)
Crash ==
  /\ phase \notin {"done", "dead"}
  /\ phase' = "dead"
  /\ UNCHANGED <<todo, batch, runnable, step, worker, attempt, got, result, context, store, history>>

(* Orchestrator.resume: the cancellation is cleared, the providers are     *)
(* probed and the tasks routed anew, which may give another context, and   *)
(* the same plan is executed again by a new scheduler.                     *)
Resume ==
  /\ phase \in {"done", "dead"} /\ resumes < MaxResumes
  /\ resumes' = resumes + 1
  /\ context' \in Contexts
  /\ cancel' = FALSE /\ late' = [t \in Tasks |-> 0]
  /\ lease' = [t \in Tasks |-> CASE lease[t] = "held" -> "foreign"
                                 [] lease[t] = "expired" -> "free"
                                 [] OTHER -> lease[t]]
  /\ result' = [t \in Tasks |-> "none"]
  /\ StartBatch({})
  /\ UNCHANGED <<checkpoint, cache>>

Serial(t) == SeeCancel(t) \/ Skip(t) \/ Load(t) \/ Refuse(t) \/ Acquire(t)
Pool(t) == Begin(t) \/ Check(t) \/ Go(t)
Commit(t) == Look(t) \/ Save(t) \/ Release(t) \/ Settle(t)
Owner == StartPool \/ StartCommit \/ \E t \in Tasks : Serial(t) \/ Commit(t)
Environment == Recover \/ RequestCancel \/ Crash \/ Resume

Next ==
  \/ Owner \/ Environment
  \/ \E t \in Tasks : Pool(t) \/ Answer(t) \/ Timeout(t) \/ Expire(t)

Spec == Init /\ [][Next]_vars

(* The threads of the process run and a timeout fires in the end; nothing  *)
(* obliges a stage worker to answer.                                       *)
FairSpec ==
  /\ Spec
  /\ WF_vars(Owner)
  /\ \A t \in Tasks : WF_vars(Pool(t)) /\ WF_vars(Timeout(t))
-----------------------------------------------------------------------------
TypeOK ==
  /\ phase \in {"serial", "pool", "commit", "done", "dead"}
  /\ todo \subseteq batch /\ batch \subseteq Tasks /\ runnable \subseteq batch
  /\ step \in {"look", "save", "release", "settle"}
  /\ worker \in [Tasks -> {"none", "queued", "check", "go", "busy", "over"}]
  /\ attempt \in [Tasks -> 0..MaxAttempts]
  /\ got \in [Tasks -> Status \cup {"none"}]
  /\ result \in [Tasks -> Status \cup {"none"}]
  /\ lease \in [Tasks -> {"free", "held", "expired", "foreign"}]
  /\ context \in Contexts
  /\ checkpoint \subseteq Tasks \X Contexts /\ cache \subseteq Cacheable \X Contexts
  /\ cancel \in BOOLEAN
  /\ late \in [Tasks -> Nat]
  /\ resumes \in 0..MaxResumes

(* No task, run or loaded, succeeds past a dependency that did not: not    *)
(* one that failed, was skipped, was cancelled, lost its lease or paused.  *)
SuccessNeedsDependencies ==
  \A t \in Tasks : got[t] \in Success \/ result[t] \in Success =>
    \A d \in Deps[t] : result[d] \in Success

(* While a cancellation is stored, a task starts at most the one attempt   *)
(* whose check had already passed.                                         *)
CancelBoundsWork == \A t \in Tasks : late[t] <= 1

(* An execution that came to its end has given back every lease it took,   *)
(* whatever became of the task.                                            *)
EndedHoldsNoLease == phase = "done" => \A t \in Tasks : lease[t] # "held"

(* A cacheable task whose latest checkpoint has the fingerprint of the     *)
(* execution is not executed again, wherever the crash between its commit  *)
(* and the end of the run was.  Under another provider table, policy or    *)
(* routing it is, and an older checkpoint does not count.                  *)
MatchingCheckpointIsReused ==
  [][\A t \in Cacheable : cache_key_for_task(t) \in checkpoint => ~Go(t)]_vars

(* An execution ends even if a stage worker never answers. *)
ScheduleEnds == []<>(phase \in {"done", "dead"})
=============================================================================
