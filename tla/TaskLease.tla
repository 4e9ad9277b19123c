----------------------------- MODULE TaskLease -----------------------------
(***************************************************************************)
(* The lease row and the checkpoint rows of one task in the runtime store, *)
(* used by several executions of the task's run: the run itself, a resume  *)
(* while it still works, another process on the same artifact directory.   *)
(* A scheduler keeps one owner id for its life, so executions started in   *)
(* one process share it.                                                   *)
(*                                                                         *)
(* Every SQL statement is a step of its own: sqlite3 opens a transaction   *)
(* at the first write, so a SELECT followed by an INSERT is not atomic.    *)
(* Time is what is left of each lease; a lease id is the execution that    *)
(* wrote it, since an execution acquires a task once.                      *)
(***************************************************************************)
EXTENDS Integers, FiniteSets

CONSTANTS
  Executions,   \* DAGScheduler.execute calls that reach the task
  Owners,       \* scheduler instances
  OwnerOf,      \* owner_id of the scheduler each execution runs on
  NoLease,      \* the row before the first acquisition
  Ttl,          \* ttl_seconds of a lease, in clock ticks
  Attempts      \* attempt numbers a result may carry

ASSUME LeaseAssumption ==
  /\ OwnerOf \in [Executions -> Owners]
  /\ NoLease \notin Executions
  /\ Ttl \in Nat \ {0}
  /\ Attempts \subseteq Nat \ {0}
  /\ IsFiniteSet(Executions)

VARIABLES
  row,          \* task_leases: [lease, epoch, status]
  left,         \* ticks until each lease's expires_at
  last,         \* MAX(sequence) of the checkpoints, 0 when there is none
  checkpoints,  \* task_checkpoints: [attempt, sequence, epoch, lease, by]
  pc,           \* where each execution stands
  epoch,        \* the epoch an execution is about to write
  lease,        \* the lease current_task_lease gave it
  number,       \* next_checkpoint_sequence
  outcome,      \* what the task's executor returned
  result,       \* the result the scheduler reports
  moved,        \* history: the row was written since the execution read it
  undisturbed   \* history: no write straddled another, no lease was shared

rows == <<last, checkpoints>>
locals == <<epoch, lease, number, outcome, result>>
history == <<moved, undisturbed>>
vars == <<row, left, rows, pc, locals, history>>

Final == {"cached", "refused", "lost", "raised", "done", "crashed"}

Go(e, label) == pc' = [pc EXCEPT ![e] = label]

Live(l) == row.lease = l /\ row.status = "active"
Valid(l) == Live(l) /\ left[l] > 0

(* An execution may hold the lease from its write to its release. *)
Holding(e) == pc[e] \in {"running", "finished", "sequence", "check", "insert", "release"}
-----------------------------------------------------------------------------
Init ==
  /\ row = [lease |-> NoLease, epoch |-> 0, status |-> "none"]
  /\ left = [e \in Executions |-> 0]
  /\ last = 0
  /\ checkpoints = {}
  /\ pc = [e \in Executions |-> "recover"]
  /\ epoch = [e \in Executions |-> 0]
  /\ lease = [e \in Executions |-> NoLease]
  /\ number = [e \in Executions |-> 0]
  /\ outcome = [e \in Executions |-> "none"]
  /\ result = [e \in Executions |-> "none"]
  /\ moved = [e \in Executions |-> FALSE]
  /\ undisturbed = TRUE

(* Recover that abandons the active lease, expired or not. *)
RecoverAll(e) ==
  /\ pc[e] = "recover"
  /\ row' = IF row.status = "active" THEN [row EXCEPT !.status = "abandoned"] ELSE row
  /\ Go(e, "lookup")
  /\ UNCHANGED <<left, rows, locals, history>>

(* recover_expired_leases, one UPDATE at the start of every execution. *)
Recover(e) ==
  /\ pc[e] = "recover"
  /\ row' = IF row.lease # NoLease /\ Live(row.lease) /\ left[row.lease] = 0
              THEN [row EXCEPT !.status = "abandoned"] ELSE row
  /\ Go(e, "lookup")
  /\ UNCHANGED <<left, rows, locals, history>>

(* latest_checkpoint: a stored result is reused when its fingerprint is    *)
(* the task's, which the store does not know: both outcomes are possible.  *)
Reuse(e) ==
  /\ pc[e] = "lookup"
  /\ checkpoints # {}
  /\ result' = [result EXCEPT ![e] = "cached"]
  /\ Go(e, "cached")
  /\ UNCHANGED <<row, left, rows, epoch, lease, number, outcome, history>>

Miss(e) ==
  /\ pc[e] = "lookup"
  /\ Go(e, "read")
  /\ UNCHANGED <<row, left, rows, locals, history>>

(* Read without its look at the status and the expiry. *)
ReadUnchecked(e) ==
  /\ pc[e] = "read"
  /\ epoch' = [epoch EXCEPT ![e] = row.epoch + 1]
  /\ left' = [left EXCEPT ![e] = Ttl]
  /\ moved' = [moved EXCEPT ![e] = FALSE]
  /\ Go(e, "write")
  /\ UNCHANGED <<row, rows, lease, number, outcome, result, undisturbed>>

(* acquire_task_lease, the SELECT: refuse while the lease is active and    *)
(* not expired, else take the next epoch.  expires_at counts from here.    *)
Read(e) ==
  /\ pc[e] = "read"
  /\ ~(row.lease # NoLease /\ Valid(row.lease))
  /\ epoch' = [epoch EXCEPT ![e] = row.epoch + 1]
  /\ left' = [left EXCEPT ![e] = Ttl]
  /\ moved' = [moved EXCEPT ![e] = FALSE]
  /\ Go(e, "write")
  /\ UNCHANGED <<row, rows, lease, number, outcome, result, undisturbed>>

Refuse(e) ==
  /\ pc[e] = "read"
  /\ row.lease # NoLease /\ Valid(row.lease)
  /\ result' = [result EXCEPT ![e] = "failed"]
  /\ Go(e, "refused")
  /\ UNCHANGED <<row, left, rows, epoch, lease, number, outcome, history>>

(* ... and the upsert, which looks at nothing. *)
Write(e) ==
  /\ pc[e] = "write"
  /\ row' = [lease |-> e, epoch |-> epoch[e], status |-> "active"]
  /\ moved' = [f \in Executions |-> f # e]
  /\ undisturbed' = (undisturbed /\ ~moved[e])
  /\ Go(e, "running")
  /\ UNCHANGED <<left, rows, locals>>

(* The batch runs the task: queueing, attempts and backoff take any time.  *)
Finish(e) ==
  /\ pc[e] = "running"
  /\ \E o \in {"completed", "failed"} : outcome' = [outcome EXCEPT ![e] = o]
  /\ Go(e, "finished")
  /\ UNCHANGED <<row, left, rows, epoch, lease, number, result, history>>

(* current_task_lease looks for the owner's active row, whatever its lease *)
(* id, and not at its expiry.                                              *)
OwnRow(e) == row.lease # NoLease /\ Live(row.lease) /\ OwnerOf[row.lease] = OwnerOf[e]

Current(e) ==
  /\ pc[e] = "finished"
  /\ OwnRow(e)
  /\ lease' = [lease EXCEPT ![e] = row.lease]
  /\ epoch' = [epoch EXCEPT ![e] = row.epoch]
  /\ result' = [result EXCEPT ![e] = outcome[e]]
  /\ undisturbed' = (undisturbed /\ row.lease = e)
  /\ Go(e, IF outcome[e] = "completed" THEN "sequence" ELSE "release")
  /\ UNCHANGED <<row, left, rows, number, outcome, moved>>

Disappeared(e) ==
  /\ pc[e] = "finished"
  /\ ~OwnRow(e)
  /\ result' = [result EXCEPT ![e] = "failed"]
  /\ Go(e, "lost")
  /\ UNCHANGED <<row, left, rows, epoch, lease, number, outcome, history>>

Sequence(e) ==
  /\ pc[e] = "sequence"
  /\ number' = [number EXCEPT ![e] = last + 1]
  /\ Go(e, "check")
  /\ UNCHANGED <<row, left, rows, epoch, lease, outcome, result, history>>

(* save_checkpoint, the SELECT of _lease_is_current ... *)
Check(e) ==
  /\ pc[e] = "check"
  /\ row.epoch = epoch[e] /\ Valid(lease[e])
  /\ Go(e, "insert")
  /\ UNCHANGED <<row, left, rows, locals, history>>

(* Expired that goes on with the result as it is. *)
ExpiredIgnored(e) ==
  /\ pc[e] = "check"
  /\ ~(row.epoch = epoch[e] /\ Valid(lease[e]))
  /\ Go(e, "release")
  /\ UNCHANGED <<row, left, rows, locals, history>>

Expired(e) ==
  /\ pc[e] = "check"
  /\ ~(row.epoch = epoch[e] /\ Valid(lease[e]))
  /\ result' = [result EXCEPT ![e] = "failed"]
  /\ Go(e, "release")
  /\ UNCHANGED <<row, left, rows, epoch, lease, number, outcome, history>>

(* ... and the INSERT, under UNIQUE(run, task, attempt, sequence). *)
Taken(a, n) == \E c \in checkpoints : c.attempt = a /\ c.sequence = n

Insert(e, a) ==
  /\ pc[e] = "insert"
  /\ ~Taken(a, number[e])
  /\ last' = IF number[e] > last THEN number[e] ELSE last
  /\ checkpoints' = checkpoints \cup
       {[attempt |-> a, sequence |-> number[e], epoch |-> epoch[e], lease |-> lease[e], by |-> e]}
  /\ Go(e, "release")
  /\ UNCHANGED <<row, left, locals, history>>

(* The IntegrityError leaves the scheduler; the lease row stays active. *)
InsertRaises(e, a) ==
  /\ pc[e] = "insert"
  /\ Taken(a, number[e])
  /\ Go(e, "raised")
  /\ UNCHANGED <<row, left, rows, locals, history>>

Release(e) ==
  /\ pc[e] = "release"
  /\ row' = IF Live(lease[e]) /\ row.epoch = epoch[e] THEN [row EXCEPT !.status = result[e]] ELSE row
  /\ Go(e, "done")
  /\ UNCHANGED <<left, rows, locals, history>>

(* A process dies with every execution in it; its rows stay. *)
Crash(o) ==
  /\ \E e \in Executions : OwnerOf[e] = o /\ pc[e] \notin Final
  /\ pc' = [e \in Executions |-> IF OwnerOf[e] = o /\ pc[e] \notin Final THEN "crashed" ELSE pc[e]]
  /\ UNCHANGED <<row, left, rows, locals, history>>

Tick ==
  /\ \E e \in Executions : left[e] > 0
  /\ left' = [e \in Executions |-> IF left[e] > 0 THEN left[e] - 1 ELSE 0]
  /\ UNCHANGED <<row, rows, pc, locals, history>>

Step(e) ==
  \/ Recover(e) \/ Reuse(e) \/ Miss(e) \/ Read(e) \/ Refuse(e) \/ Write(e) \/ Finish(e)
  \/ Current(e) \/ Disappeared(e) \/ Sequence(e) \/ Check(e) \/ Expired(e)
  \/ (\E a \in Attempts : Insert(e, a) \/ InsertRaises(e, a))
  \/ Release(e)

Next == (\E e \in Executions : Step(e)) \/ (\E o \in Owners : Crash(o)) \/ Tick

Spec == Init /\ [][Next]_vars
-----------------------------------------------------------------------------
Statuses == {"none", "active", "abandoned", "completed", "failed"}
Results == {"none", "cached", "completed", "failed"}
Leases == Executions \cup {NoLease}

Checkpoint ==
  [attempt : Attempts, sequence : Nat \ {0}, epoch : Nat, lease : Executions, by : Executions]

TypeOK ==
  /\ row \in [lease : Leases, epoch : Nat, status : Statuses]
  /\ left \in [Executions -> 0..Ttl]
  /\ last \in Nat
  /\ checkpoints \subseteq Checkpoint
  /\ pc \in [Executions -> Final \cup {"recover", "lookup", "read", "write", "running", "finished",
                                       "sequence", "check", "insert", "release"}]
  /\ epoch \in [Executions -> Nat]
  /\ lease \in [Executions -> Leases]
  /\ number \in [Executions -> Nat]
  /\ outcome \in [Executions -> Results]
  /\ result \in [Executions -> Results]
  /\ moved \in [Executions -> BOOLEAN]
  /\ undisturbed \in BOOLEAN

(* A task the scheduler reports as completed has its checkpoint stored:    *)
(* a resume after any crash finds the work (DAGScheduler.execute turns the *)
(* result into FAILED whenever the checkpoint is refused).                 *)
CompletedIsStored ==
  \A e \in Executions :
    pc[e] = "done" /\ result[e] = "completed" => \E c \in checkpoints : c.by = e

(* As long as no acquisition straddled another one, at most one execution  *)
(* works under a lease that has not expired, crashes and expiries included.*)
OneHolder ==
  undisturbed =>
    \A e, f \in Executions :
      e # f /\ Holding(e) /\ Holding(f) => left[e] = 0 \/ left[f] = 0

(* Under the same condition epochs fence: no two leases write checkpoints  *)
(* under one epoch, and no stored epoch is ahead of the row.               *)
EpochsFence ==
  undisturbed =>
    /\ \A c, d \in checkpoints : c.epoch = d.epoch => c.lease = d.lease
    /\ \A c \in checkpoints : c.epoch <= row.epoch

(* Completed work is thrown away only for a lease that ran out, that was   *)
(* overwritten, or that a sibling execution of the same owner closed.      *)
WorkLostOnlyWithLease ==
  \A e \in Executions :
    pc[e] \in {"lost", "done"} /\ outcome[e] = "completed" /\ result[e] = "failed" =>
      \/ left[e] = 0
      \/ row.lease # e
      \/ \E f \in Executions \ {e} : lease[f] = e \/ lease[e] = f

(* ADR-004: a lease is "identified by owner, lease ID, and monotonically   *)
(* increasing epoch".                                                      *)
(* The code does not keep it: README, section 5.                           *)
EpochMonotone == [][row'.epoch >= row.epoch]_vars
=============================================================================
