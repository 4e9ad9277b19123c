-------------------------- MODULE TaskLeaseProofs --------------------------
(***************************************************************************)
(* The invariants of TaskLease, for any number of executions, owners,      *)
(* attempts and any time to live.  Each one is proved from a strengthening *)
(* of its own; all of them rest on the types.                              *)
(***************************************************************************)
EXTENDS TaskLease, TLAPS

(* After current_task_lease an execution works under the row it found. *)
Committing(e) == pc[e] \in {"sequence", "check", "insert", "release"}

TypeInv ==
  /\ TypeOK
  /\ \A e \in Executions :
       Committing(e) => lease[e] \in Executions /\ result[e] \in {"completed", "failed"}
  /\ \A e \in Executions : pc[e] = "finished" => outcome[e] \in {"completed", "failed"}
  /\ \A e \in Executions : pc[e] \in {"check", "insert"} => number[e] # 0

(* last stands for MAX(sequence) of the stored rows. *)
LastIsLargest == \A c \in checkpoints : c.sequence <= last

StoredInv ==
  /\ CompletedIsStored
  /\ LastIsLargest
  /\ \A e \in Executions :
       pc[e] = "release" /\ result[e] = "completed" => \E c \in checkpoints : c.by = e

(* The writers that would overwrite nobody read an expired row. *)
HolderInv ==
  undisturbed =>
    /\ \A e \in Executions :
         Holding(e) /\ left[e] > 0 => row.lease = e /\ row.status = "active"
    /\ \A e, f \in Executions :
         Holding(e) /\ pc[f] = "write" /\ ~moved[f] => left[e] = 0
    /\ \A e \in Executions : Committing(e) => lease[e] = e

(* A stamp is an epoch that somebody relies on, with its lease. *)
Stamps ==
  {<<c.epoch, c.lease>> : c \in checkpoints}
    \cup {<<epoch[e], lease[e]>> : e \in {f \in Executions : Committing(f)}}
    \cup {<<row.epoch, row.lease>>}

EpochInv ==
  undisturbed =>
    /\ \A s \in Stamps : s[1] <= row.epoch
    /\ \A s, t \in Stamps : s[1] = t[1] => s[2] = t[2]
    /\ \A e \in Executions : pc[e] = "write" /\ ~moved[e] => epoch[e] = row.epoch + 1

Shared(e) == \E f \in Executions \ {e} : lease[f] = e \/ lease[e] = f

LossInv ==
  \A e \in Executions :
    /\ Holding(e) /\ row.lease = e => row.status = "active" \/ left[e] = 0 \/ Shared(e)
    /\ Committing(e) /\ row.lease = e /\ lease[e] = e => row.epoch = epoch[e]
    /\ Committing(e) \/ pc[e] \in {"lost", "done"} =>
         (outcome[e] = "completed" /\ result[e] = "failed" =>
            left[e] = 0 \/ row.lease # e \/ Shared(e))
-----------------------------------------------------------------------------
(* The initial state has the types and every strengthening. *)
LEMMA InitInv ==
  ASSUME LeaseAssumption, Init
  PROVE  TypeInv /\ StoredInv /\ HolderInv /\ EpochInv /\ LossInv
  BY DEF LeaseAssumption, Init, TypeInv, TypeOK, StoredInv, CompletedIsStored, LastIsLargest,
         HolderInv, Holding, EpochInv, Stamps, LossInv, Committing, Shared, Leases, Statuses,
         Results, Checkpoint, Final

(* Every step keeps the types. *)
LEMMA TypeStep ==
  ASSUME LeaseAssumption, TypeInv, [Next]_vars
  PROVE  TypeInv'
<1> USE DEF TypeInv, TypeOK, Committing, Leases, Statuses, Results, Checkpoint, Final,
            LeaseAssumption, Go
<1>1. ASSUME NEW e \in Executions, Recover(e) PROVE TypeInv'
  BY <1>1 DEF Recover, rows, locals, history
<1>2. ASSUME NEW e \in Executions, Reuse(e) \/ Miss(e) PROVE TypeInv'
  BY <1>2 DEF Reuse, Miss, rows, locals, history
<1>3. ASSUME NEW e \in Executions, Read(e) PROVE TypeInv'
  BY <1>3 DEF Read, rows
<1>4. ASSUME NEW e \in Executions, Refuse(e) PROVE TypeInv'
  BY <1>4 DEF Refuse, rows, history
<1>5. ASSUME NEW e \in Executions, Write(e) PROVE TypeInv'
  BY <1>5 DEF Write, rows, locals
<1>6. ASSUME NEW e \in Executions, Finish(e) PROVE TypeInv'
  BY <1>6 DEF Finish, rows, history
<1>7. ASSUME NEW e \in Executions, Current(e) PROVE TypeInv'
  BY <1>7 DEF Current, OwnRow, Live, rows
<1>8. ASSUME NEW e \in Executions, Disappeared(e) PROVE TypeInv'
  BY <1>8 DEF Disappeared, rows, history
<1>9. ASSUME NEW e \in Executions, Sequence(e) PROVE TypeInv'
  BY <1>9 DEF Sequence, rows, history
<1>10. ASSUME NEW e \in Executions, Check(e) PROVE TypeInv'
  BY <1>10 DEF Check, rows, locals, history
<1>11. ASSUME NEW e \in Executions, Expired(e) PROVE TypeInv'
  BY <1>11 DEF Expired, rows, history
<1>12. ASSUME NEW e \in Executions, NEW a \in Attempts, Insert(e, a) PROVE TypeInv'
  BY <1>12 DEF Insert, locals, history
<1>13. ASSUME NEW e \in Executions, NEW a \in Attempts, InsertRaises(e, a) PROVE TypeInv'
  BY <1>13 DEF InsertRaises, rows, locals, history
<1>14. ASSUME NEW e \in Executions, Release(e) PROVE TypeInv'
  BY <1>14 DEF Release, rows, locals, history
<1>15. ASSUME NEW o \in Owners, Crash(o) PROVE TypeInv'
  BY <1>15 DEF Crash, rows, locals, history
<1>16. CASE Tick
  BY <1>16 DEF Tick, rows, locals, history
<1>17. CASE UNCHANGED vars
  BY <1>17 DEF vars, rows, locals, history
<1> QED
  BY <1>1, <1>2, <1>3, <1>4, <1>5, <1>6, <1>7, <1>8, <1>9, <1>10, <1>11, <1>12, <1>13,
     <1>14, <1>15, <1>16, <1>17 DEF Next, Step

(* A result stays completed only with its row, and last stays the largest. *)
LEMMA StoredStep ==
  ASSUME LeaseAssumption, TypeInv, TypeInv', StoredInv, [Next]_vars
  PROVE  StoredInv'
<1> USE DEF StoredInv, CompletedIsStored, LastIsLargest, TypeInv, TypeOK, Committing, Leases, Checkpoint, Final, LeaseAssumption, Go
<1>1. ASSUME NEW e \in Executions, Recover(e) PROVE StoredInv'
  BY <1>1 DEF Recover, Live, rows, locals, history
<1>2. ASSUME NEW e \in Executions, Reuse(e) \/ Miss(e) PROVE StoredInv'
  BY <1>2 DEF Reuse, Miss, rows, locals, history
<1>3. ASSUME NEW e \in Executions, Read(e) PROVE StoredInv'
  BY <1>3 DEF Read, Valid, Live, rows
<1>4. ASSUME NEW e \in Executions, Refuse(e) PROVE StoredInv'
  BY <1>4 DEF Refuse, rows, history
<1>5. ASSUME NEW e \in Executions, Write(e) PROVE StoredInv'
  BY <1>5 DEF Write, rows, locals
<1>6. ASSUME NEW e \in Executions, Finish(e) PROVE StoredInv'
  BY <1>6 DEF Finish, rows, history
<1>7. ASSUME NEW e \in Executions, Current(e) PROVE StoredInv'
  BY <1>7 DEF Current, OwnRow, Live, rows
<1>8. ASSUME NEW e \in Executions, Disappeared(e) PROVE StoredInv'
  BY <1>8 DEF Disappeared, OwnRow, Live, rows, history
<1>9. ASSUME NEW e \in Executions, Sequence(e) PROVE StoredInv'
  BY <1>9 DEF Sequence, rows, history
<1>10. ASSUME NEW e \in Executions, Check(e) PROVE StoredInv'
  BY <1>10 DEF Check, rows, locals, history
<1>11. ASSUME NEW e \in Executions, Expired(e) PROVE StoredInv'
  BY <1>11 DEF Expired, Valid, Live, rows, history
<1>12. ASSUME NEW e \in Executions, NEW a \in Attempts, Insert(e, a) PROVE StoredInv'
  <2> DEFINE new == [attempt |-> a, sequence |-> number[e], epoch |-> epoch[e],
                     lease |-> lease[e], by |-> e]
  <2>1. checkpoints' = checkpoints \cup {new} /\ new.by = e /\ new.sequence = number[e]
    BY <1>12 DEF Insert
  <2> HIDE DEF new
  <2>2. LastIsLargest'
    <3> SUFFICES ASSUME NEW c \in checkpoints' PROVE c.sequence <= last'
      BY DEF LastIsLargest
    <3>1. CASE c = new
      BY <1>12, <2>1, <3>1 DEF Insert
    <3>2. CASE c \in checkpoints
      <4>1. c.sequence <= last /\ c.sequence \in Nat
        BY <3>2
      <4> QED BY <1>12, <4>1 DEF Insert
    <3> QED BY <2>1, <3>1, <3>2
  <2>3. \A f \in Executions : pc'[f] \in {"release", "done"} /\ result'[f] = "completed" =>
           \E c \in checkpoints' : c.by = f
    <3> SUFFICES ASSUME NEW f \in Executions, pc'[f] \in {"release", "done"},
                        result'[f] = "completed"
                 PROVE  \E c \in checkpoints' : c.by = f
      OBVIOUS
    <3>1. CASE f = e
      BY <2>1, <3>1
    <3>2. CASE f # e
      BY <1>12, <2>1, <3>2 DEF Insert, locals
    <3> QED BY <3>1, <3>2
  <2> QED BY <2>2, <2>3
<1>13. ASSUME NEW e \in Executions, NEW a \in Attempts, InsertRaises(e, a) PROVE StoredInv'
  BY <1>13 DEF InsertRaises, rows, locals, history
<1>14. ASSUME NEW e \in Executions, Release(e) PROVE StoredInv'
  BY <1>14 DEF Release, Live, rows, locals, history
<1>15. ASSUME NEW o \in Owners, Crash(o) PROVE StoredInv'
  BY <1>15 DEF Crash, rows, locals, history
<1>16. CASE Tick
  BY <1>16 DEF Tick, rows, locals, history
<1>17. CASE UNCHANGED vars
  BY <1>17 DEF vars, rows, locals, history
<1> QED
  BY <1>1, <1>2, <1>3, <1>4, <1>5, <1>6, <1>7, <1>8, <1>9, <1>10, <1>11, <1>12, <1>13,
     <1>14, <1>15, <1>16, <1>17 DEF Next, Step

(* While undisturbed, the unexpired holder owns the row. *)
LEMMA HolderStep ==
  ASSUME LeaseAssumption, TypeInv, TypeInv', HolderInv, [Next]_vars
  PROVE  HolderInv'
<1> USE DEF HolderInv, Holding, TypeInv, TypeOK, Committing, Leases, Checkpoint, Final, LeaseAssumption, Go
<1>1. ASSUME NEW e \in Executions, Recover(e) PROVE HolderInv'
  BY <1>1 DEF Recover, Live, rows, locals, history
<1>2. ASSUME NEW e \in Executions, Reuse(e) \/ Miss(e) PROVE HolderInv'
  <2>1. CASE Reuse(e)
    BY <2>1 DEF Reuse, rows, history
  <2>2. CASE Miss(e)
    BY <2>2 DEF Miss, rows, locals, history
  <2> QED BY <1>2, <2>1, <2>2
<1>3. ASSUME NEW e \in Executions, Read(e) PROVE HolderInv'
  BY <1>3 DEF Read, Valid, Live, rows
<1>4. ASSUME NEW e \in Executions, Refuse(e) PROVE HolderInv'
  BY <1>4 DEF Refuse, rows, history
<1>5. ASSUME NEW e \in Executions, Write(e) PROVE HolderInv'
  <2> SUFFICES ASSUME undisturbed' PROVE HolderInv'
    OBVIOUS
  <2>1. undisturbed /\ pc[e] = "write" /\ ~moved[e]
    BY <1>5 DEF Write
  <2>2. row' = [lease |-> e, epoch |-> epoch[e], status |-> "active"] /\ left' = left
    BY <1>5 DEF Write
  <2>3. \A f \in Executions : Holding(f)' <=> Holding(f) \/ f = e
    BY <1>5 DEF Write
  <2>4. \A f \in Executions : Holding(f)' /\ left'[f] > 0 => f = e
    BY <2>1, <2>2, <2>3
  <2>5. \A f \in Executions : pc'[f] = "write" => moved'[f]
    BY <1>5 DEF Write
  <2>6. \A f \in Executions : Committing(f)' => lease'[f] = f
    BY <1>5, <2>1 DEF Write, locals
  <2> QED
    BY <2>2, <2>4, <2>5, <2>6
<1>6. ASSUME NEW e \in Executions, Finish(e) PROVE HolderInv'
  BY <1>6 DEF Finish, rows, history
<1>7. ASSUME NEW e \in Executions, Current(e) PROVE HolderInv'
  <2> SUFFICES ASSUME undisturbed' PROVE HolderInv'
    OBVIOUS
  <2>1. undisturbed /\ row.lease = e /\ row' = row /\ left' = left /\ moved' = moved
    BY <1>7 DEF Current, rows
  <2>2. \A f \in Executions : Holding(f)' <=> Holding(f)
    BY <1>7 DEF Current
  <2>3. \A f \in Executions : pc'[f] = "write" <=> pc[f] = "write"
    BY <1>7 DEF Current
  <2>4. \A f \in Executions : Committing(f)' => lease'[f] = f
    BY <1>7, <2>1 DEF Current
  <2> QED
    BY <2>1, <2>2, <2>3, <2>4
<1>8. ASSUME NEW e \in Executions, Disappeared(e) PROVE HolderInv'
  BY <1>8 DEF Disappeared, OwnRow, Live, rows, history
<1>9. ASSUME NEW e \in Executions, Sequence(e) PROVE HolderInv'
  BY <1>9 DEF Sequence, rows, history
<1>10. ASSUME NEW e \in Executions, Check(e) PROVE HolderInv'
  BY <1>10 DEF Check, rows, locals, history
<1>11. ASSUME NEW e \in Executions, Expired(e) PROVE HolderInv'
  BY <1>11 DEF Expired, Valid, Live, rows, history
<1>12. ASSUME NEW e \in Executions, NEW a \in Attempts, Insert(e, a) PROVE HolderInv'
  BY <1>12 DEF Insert, locals, history
<1>13. ASSUME NEW e \in Executions, NEW a \in Attempts, InsertRaises(e, a) PROVE HolderInv'
  BY <1>13 DEF InsertRaises, rows, locals, history
<1>14. ASSUME NEW e \in Executions, Release(e) PROVE HolderInv'
  BY <1>14 DEF Release, Live, rows, locals, history
<1>15. ASSUME NEW o \in Owners, Crash(o) PROVE HolderInv'
  BY <1>15 DEF Crash, rows, locals, history
<1>16. CASE Tick
  BY <1>16 DEF Tick, rows, locals, history
<1>17. CASE UNCHANGED vars
  BY <1>17 DEF vars, rows, locals, history
<1> QED
  BY <1>1, <1>2, <1>3, <1>4, <1>5, <1>6, <1>7, <1>8, <1>9, <1>10, <1>11, <1>12, <1>13,
     <1>14, <1>15, <1>16, <1>17 DEF Next, Step

(* Work that is thrown away had its lease run out, overwritten or shared. *)
LEMMA LossStep ==
  ASSUME LeaseAssumption, TypeInv, TypeInv', LossInv, [Next]_vars
  PROVE  LossInv'
<1> USE DEF LossInv, Holding, Shared, TypeInv, TypeOK, Committing, Leases, Checkpoint, Final, LeaseAssumption, Go
<1>1. ASSUME NEW e \in Executions, Recover(e) PROVE LossInv'
  BY <1>1 DEF Recover, Live, rows, locals, history
<1>2. ASSUME NEW e \in Executions, Reuse(e) \/ Miss(e) PROVE LossInv'
  BY <1>2 DEF Reuse, Miss, rows, locals, history
<1>3. ASSUME NEW e \in Executions, Read(e) PROVE LossInv'
  BY <1>3 DEF Read, Valid, Live, rows
<1>4. ASSUME NEW e \in Executions, Refuse(e) PROVE LossInv'
  BY <1>4 DEF Refuse, rows, history
<1>5. ASSUME NEW e \in Executions, Write(e) PROVE LossInv'
  BY <1>5 DEF Write, rows, locals
<1>6. ASSUME NEW e \in Executions, Finish(e) PROVE LossInv'
  BY <1>6 DEF Finish, rows, history
<1>7. ASSUME NEW e \in Executions, Current(e) PROVE LossInv'
  BY <1>7 DEF Current, OwnRow, Live, rows
<1>8. ASSUME NEW e \in Executions, Disappeared(e) PROVE LossInv'
  BY <1>8 DEF Disappeared, OwnRow, Live, rows, history
<1>9. ASSUME NEW e \in Executions, Sequence(e) PROVE LossInv'
  BY <1>9 DEF Sequence, rows, history
<1>10. ASSUME NEW e \in Executions, Check(e) PROVE LossInv'
  BY <1>10 DEF Check, rows, locals, history
<1>11. ASSUME NEW e \in Executions, Expired(e) PROVE LossInv'
  BY <1>11 DEF Expired, Valid, Live, rows, history
<1>12. ASSUME NEW e \in Executions, NEW a \in Attempts, Insert(e, a) PROVE LossInv'
  BY <1>12 DEF Insert, locals, history
<1>13. ASSUME NEW e \in Executions, NEW a \in Attempts, InsertRaises(e, a) PROVE LossInv'
  BY <1>13 DEF InsertRaises, rows, locals, history
<1>14. ASSUME NEW e \in Executions, Release(e) PROVE LossInv'
  BY <1>14 DEF Release, Live, rows, locals, history
<1>15. ASSUME NEW o \in Owners, Crash(o) PROVE LossInv'
  BY <1>15 DEF Crash, rows, locals, history
<1>16. CASE Tick
  BY <1>16 DEF Tick, rows, locals, history
<1>17. CASE UNCHANGED vars
  BY <1>17 DEF vars, rows, locals, history
<1> QED
  BY <1>1, <1>2, <1>3, <1>4, <1>5, <1>6, <1>7, <1>8, <1>9, <1>10, <1>11, <1>12, <1>13,
     <1>14, <1>15, <1>16, <1>17 DEF Next, Step

(* A step that adds no stamp and leaves the row its epoch keeps the stamps *)
(* in order.                                                               *)
LEMMA NoNewStamp ==
  ASSUME EpochInv, undisturbed' => undisturbed, Stamps' \subseteq Stamps,
         row'.epoch = row.epoch,
         \A e \in Executions : pc'[e] = "write" /\ ~moved'[e] =>
           \/ epoch'[e] = row.epoch + 1
           \/ pc[e] = "write" /\ ~moved[e] /\ epoch'[e] = epoch[e]
  PROVE  EpochInv'
<1> SUFFICES ASSUME undisturbed' PROVE EpochInv'
  BY DEF EpochInv
<1> HIDE DEF Stamps
<1> QED BY DEF EpochInv

(* Two stamps of one epoch are stamps of one lease, at every step. *)
LEMMA EpochStep ==
  ASSUME LeaseAssumption, TypeInv, TypeInv', EpochInv, [Next]_vars
  PROVE  EpochInv'
<1> USE DEF TypeInv, TypeOK, Committing, Leases, Checkpoint, Final, LeaseAssumption, Go
<1>1. ASSUME NEW e \in Executions, Recover(e) PROVE EpochInv'
  <2>1. Stamps' \subseteq Stamps
    BY <1>1 DEF Stamps, Recover, Live, rows, locals, history
  <2>2. row'.epoch = row.epoch /\ (undisturbed' => undisturbed)
    BY <1>1 DEF Recover, Live, rows, locals, history
  <2>3. \A f \in Executions : pc'[f] = "write" /\ ~moved'[f] =>
           \/ epoch'[f] = row.epoch + 1
           \/ pc[f] = "write" /\ ~moved[f] /\ epoch'[f] = epoch[f]
    BY <1>1 DEF Recover, Live, rows, locals, history
  <2> QED BY <2>1, <2>2, <2>3, NoNewStamp
<1>2. ASSUME NEW e \in Executions, Reuse(e) PROVE EpochInv'
  <2>1. Stamps' \subseteq Stamps
    BY <1>2 DEF Stamps, Reuse, rows, locals, history
  <2>2. row'.epoch = row.epoch /\ (undisturbed' => undisturbed)
    BY <1>2 DEF Reuse, rows, locals, history
  <2>3. \A f \in Executions : pc'[f] = "write" /\ ~moved'[f] =>
           \/ epoch'[f] = row.epoch + 1
           \/ pc[f] = "write" /\ ~moved[f] /\ epoch'[f] = epoch[f]
    BY <1>2 DEF Reuse, rows, locals, history
  <2> QED BY <2>1, <2>2, <2>3, NoNewStamp
<1>3. ASSUME NEW e \in Executions, Miss(e) PROVE EpochInv'
  <2>1. Stamps' \subseteq Stamps
    BY <1>3 DEF Stamps, Miss, rows, locals, history
  <2>2. row'.epoch = row.epoch /\ (undisturbed' => undisturbed)
    BY <1>3 DEF Miss, rows, locals, history
  <2>3. \A f \in Executions : pc'[f] = "write" /\ ~moved'[f] =>
           \/ epoch'[f] = row.epoch + 1
           \/ pc[f] = "write" /\ ~moved[f] /\ epoch'[f] = epoch[f]
    BY <1>3 DEF Miss, rows, locals, history
  <2> QED BY <2>1, <2>2, <2>3, NoNewStamp
<1>4. ASSUME NEW e \in Executions, Read(e) PROVE EpochInv'
  <2>1. Stamps' \subseteq Stamps
    BY <1>4 DEF Stamps, Read, rows
  <2>2. row'.epoch = row.epoch /\ (undisturbed' => undisturbed)
    BY <1>4 DEF Read, rows
  <2>3. \A f \in Executions : pc'[f] = "write" /\ ~moved'[f] =>
           \/ epoch'[f] = row.epoch + 1
           \/ pc[f] = "write" /\ ~moved[f] /\ epoch'[f] = epoch[f]
    BY <1>4 DEF Read, rows
  <2> QED BY <2>1, <2>2, <2>3, NoNewStamp
<1>5. ASSUME NEW e \in Executions, Refuse(e) PROVE EpochInv'
  <2>1. Stamps' \subseteq Stamps
    BY <1>5 DEF Stamps, Refuse, rows, history
  <2>2. row'.epoch = row.epoch /\ (undisturbed' => undisturbed)
    BY <1>5 DEF Refuse, rows, history
  <2>3. \A f \in Executions : pc'[f] = "write" /\ ~moved'[f] =>
           \/ epoch'[f] = row.epoch + 1
           \/ pc[f] = "write" /\ ~moved[f] /\ epoch'[f] = epoch[f]
    BY <1>5 DEF Refuse, rows, history
  <2> QED BY <2>1, <2>2, <2>3, NoNewStamp
<1>6. ASSUME NEW e \in Executions, Write(e) PROVE EpochInv'
  <2> SUFFICES ASSUME undisturbed' PROVE EpochInv'
    BY DEF EpochInv
  <2>1. undisturbed /\ pc[e] = "write" /\ ~moved[e]
    BY <1>6 DEF Write
  <2>2. epoch[e] = row.epoch + 1
    BY <2>1 DEF EpochInv
  <2>3. row'.epoch = row.epoch + 1 /\ row.epoch \in Nat
    BY <1>6, <2>2 DEF Write
  <2>4. Stamps' \subseteq Stamps \cup {<<row'.epoch, row'.lease>>}
    BY <1>6 DEF Write, Stamps, rows, locals
  <2>5. \A s \in Stamps : s[1] <= row.epoch /\ s[1] \in Nat
    BY <2>1 DEF EpochInv, Stamps
  <2>6. \A f \in Executions : pc'[f] = "write" => moved'[f]
    BY <1>6 DEF Write
  <2>7. \A s \in Stamps' : s[1] <= row'.epoch
    BY <2>3, <2>4, <2>5
  <2>8. \A s, t \in Stamps' : s[1] = t[1] => s[2] = t[2]
    <3>1. \A s, t \in Stamps : s[1] = t[1] => s[2] = t[2]
      BY <2>1 DEF EpochInv
    <3>2. \A s \in Stamps : s[1] # row'.epoch
      BY <2>3, <2>5
    <3> HIDE DEF Stamps
    <3> QED BY <2>4, <3>1, <3>2
  <2> QED
    BY <2>6, <2>7, <2>8 DEF EpochInv
<1>7. ASSUME NEW e \in Executions, Finish(e) PROVE EpochInv'
  <2>1. Stamps' \subseteq Stamps
    BY <1>7 DEF Stamps, Finish, rows, history
  <2>2. row'.epoch = row.epoch /\ (undisturbed' => undisturbed)
    BY <1>7 DEF Finish, rows, history
  <2>3. \A f \in Executions : pc'[f] = "write" /\ ~moved'[f] =>
           \/ epoch'[f] = row.epoch + 1
           \/ pc[f] = "write" /\ ~moved[f] /\ epoch'[f] = epoch[f]
    BY <1>7 DEF Finish, rows, history
  <2> QED BY <2>1, <2>2, <2>3, NoNewStamp
<1>8. ASSUME NEW e \in Executions, Current(e) PROVE EpochInv'
  <2>1. Stamps' \subseteq Stamps
    BY <1>8 DEF Stamps, Current, OwnRow, Live, rows
  <2>2. row'.epoch = row.epoch /\ (undisturbed' => undisturbed)
    BY <1>8 DEF Current, OwnRow, Live, rows
  <2>3. \A f \in Executions : pc'[f] = "write" /\ ~moved'[f] =>
           \/ epoch'[f] = row.epoch + 1
           \/ pc[f] = "write" /\ ~moved[f] /\ epoch'[f] = epoch[f]
    BY <1>8 DEF Current, OwnRow, Live, rows
  <2> QED BY <2>1, <2>2, <2>3, NoNewStamp
<1>9. ASSUME NEW e \in Executions, Disappeared(e) PROVE EpochInv'
  <2>1. Stamps' \subseteq Stamps
    BY <1>9 DEF Stamps, Disappeared, rows, history
  <2>2. row'.epoch = row.epoch /\ (undisturbed' => undisturbed)
    BY <1>9 DEF Disappeared, rows, history
  <2>3. \A f \in Executions : pc'[f] = "write" /\ ~moved'[f] =>
           \/ epoch'[f] = row.epoch + 1
           \/ pc[f] = "write" /\ ~moved[f] /\ epoch'[f] = epoch[f]
    BY <1>9 DEF Disappeared, rows, history
  <2> QED BY <2>1, <2>2, <2>3, NoNewStamp
<1>10. ASSUME NEW e \in Executions, Sequence(e) PROVE EpochInv'
  <2>1. Stamps' \subseteq Stamps
    BY <1>10 DEF Stamps, Sequence, rows, history
  <2>2. row'.epoch = row.epoch /\ (undisturbed' => undisturbed)
    BY <1>10 DEF Sequence, rows, history
  <2>3. \A f \in Executions : pc'[f] = "write" /\ ~moved'[f] =>
           \/ epoch'[f] = row.epoch + 1
           \/ pc[f] = "write" /\ ~moved[f] /\ epoch'[f] = epoch[f]
    BY <1>10 DEF Sequence, rows, history
  <2> QED BY <2>1, <2>2, <2>3, NoNewStamp
<1>11. ASSUME NEW e \in Executions, Check(e) PROVE EpochInv'
  <2>1. Stamps' \subseteq Stamps
    BY <1>11 DEF Stamps, Check, rows, locals, history
  <2>2. row'.epoch = row.epoch /\ (undisturbed' => undisturbed)
    BY <1>11 DEF Check, rows, locals, history
  <2>3. \A f \in Executions : pc'[f] = "write" /\ ~moved'[f] =>
           \/ epoch'[f] = row.epoch + 1
           \/ pc[f] = "write" /\ ~moved[f] /\ epoch'[f] = epoch[f]
    BY <1>11 DEF Check, rows, locals, history
  <2> QED BY <2>1, <2>2, <2>3, NoNewStamp
<1>12. ASSUME NEW e \in Executions, Expired(e) PROVE EpochInv'
  <2>1. Stamps' \subseteq Stamps
    BY <1>12 DEF Stamps, Expired, rows, history
  <2>2. row'.epoch = row.epoch /\ (undisturbed' => undisturbed)
    BY <1>12 DEF Expired, rows, history
  <2>3. \A f \in Executions : pc'[f] = "write" /\ ~moved'[f] =>
           \/ epoch'[f] = row.epoch + 1
           \/ pc[f] = "write" /\ ~moved[f] /\ epoch'[f] = epoch[f]
    BY <1>12 DEF Expired, rows, history
  <2> QED BY <2>1, <2>2, <2>3, NoNewStamp
<1>13. ASSUME NEW e \in Executions, NEW a \in Attempts, Insert(e, a) PROVE EpochInv'
  <2> DEFINE new == [attempt |-> a, sequence |-> number[e], epoch |-> epoch[e],
                     lease |-> lease[e], by |-> e]
  <2>1. checkpoints' = checkpoints \cup {new} /\ new.epoch = epoch[e] /\ new.lease = lease[e]
    BY <1>13 DEF Insert
  <2> HIDE DEF new
  <2>2. <<new.epoch, new.lease>> \in Stamps
    BY <1>13, <2>1 DEF Insert, Stamps
  <2>3. row' = row /\ epoch' = epoch /\ lease' = lease /\ moved' = moved /\ undisturbed' = undisturbed
    BY <1>13 DEF Insert, locals, history
  <2>4. \A f \in Executions : Committing(f)' => Committing(f)
    BY <1>13 DEF Insert
  <2>5. Stamps' \subseteq Stamps
    BY <2>1, <2>2, <2>3, <2>4 DEF Stamps
  <2>6. \A f \in Executions : pc'[f] = "write" => pc[f] = "write"
    BY <1>13 DEF Insert
  <2> QED
    BY <2>3, <2>5, <2>6, NoNewStamp
<1>14. ASSUME NEW e \in Executions, NEW a \in Attempts, InsertRaises(e, a) PROVE EpochInv'
  <2>1. Stamps' \subseteq Stamps
    BY <1>14 DEF Stamps, InsertRaises, rows, locals, history
  <2>2. row'.epoch = row.epoch /\ (undisturbed' => undisturbed)
    BY <1>14 DEF InsertRaises, rows, locals, history
  <2>3. \A f \in Executions : pc'[f] = "write" /\ ~moved'[f] =>
           \/ epoch'[f] = row.epoch + 1
           \/ pc[f] = "write" /\ ~moved[f] /\ epoch'[f] = epoch[f]
    BY <1>14 DEF InsertRaises, rows, locals, history
  <2> QED BY <2>1, <2>2, <2>3, NoNewStamp
<1>15. ASSUME NEW e \in Executions, Release(e) PROVE EpochInv'
  <2>1. Stamps' \subseteq Stamps
    BY <1>15 DEF Stamps, Release, Live, rows, locals, history
  <2>2. row'.epoch = row.epoch /\ (undisturbed' => undisturbed)
    BY <1>15 DEF Release, Live, rows, locals, history
  <2>3. \A f \in Executions : pc'[f] = "write" /\ ~moved'[f] =>
           \/ epoch'[f] = row.epoch + 1
           \/ pc[f] = "write" /\ ~moved[f] /\ epoch'[f] = epoch[f]
    BY <1>15 DEF Release, Live, rows, locals, history
  <2> QED BY <2>1, <2>2, <2>3, NoNewStamp
<1>16. ASSUME NEW o \in Owners, Crash(o) PROVE EpochInv'
  <2>1. Stamps' \subseteq Stamps
    BY <1>16 DEF Stamps, Crash, rows, locals, history
  <2>2. row'.epoch = row.epoch /\ (undisturbed' => undisturbed)
    BY <1>16 DEF Crash, rows, locals, history
  <2>3. \A f \in Executions : pc'[f] = "write" /\ ~moved'[f] =>
           \/ epoch'[f] = row.epoch + 1
           \/ pc[f] = "write" /\ ~moved[f] /\ epoch'[f] = epoch[f]
    BY <1>16 DEF Crash, rows, locals, history
  <2> QED BY <2>1, <2>2, <2>3, NoNewStamp
<1>17. CASE Tick
  BY <1>17, NoNewStamp DEF Tick, Stamps, rows, locals, history
<1>18. CASE UNCHANGED vars
  BY <1>18, NoNewStamp DEF vars, Stamps, rows, locals, history
<1> QED
  BY <1>1, <1>2, <1>3, <1>4, <1>5, <1>6, <1>7, <1>8, <1>9, <1>10, <1>11, <1>12, <1>13,
     <1>14, <1>15, <1>16, <1>17, <1>18 DEF Next, Step
-----------------------------------------------------------------------------
(* Every reachable state satisfies the types and every strengthening. *)
THEOREM LeaseInvariant ==
  ASSUME LeaseAssumption
  PROVE  Spec => [](TypeInv /\ StoredInv /\ HolderInv /\ EpochInv /\ LossInv)
<1>1. Init => TypeInv /\ StoredInv /\ HolderInv /\ EpochInv /\ LossInv
  BY InitInv
<1>2. TypeInv /\ StoredInv /\ HolderInv /\ EpochInv /\ LossInv /\ [Next]_vars =>
        (TypeInv /\ StoredInv /\ HolderInv /\ EpochInv /\ LossInv)'
  BY TypeStep, StoredStep, HolderStep, EpochStep, LossStep
<1> QED BY <1>1, <1>2, PTL DEF Spec

(* The row, the checkpoints and every execution keep their types. *)
THEOREM LeaseTypes == ASSUME LeaseAssumption PROVE Spec => []TypeOK
<1>1. TypeInv => TypeOK
  BY DEF TypeInv
<1> QED BY <1>1, LeaseInvariant, PTL

(* A task reported completed has its checkpoint stored, whatever the other *)
(* executions do and whichever processes die.                              *)
THEOREM CompletedResults == ASSUME LeaseAssumption PROVE Spec => []CompletedIsStored
<1>1. StoredInv => CompletedIsStored
  BY DEF StoredInv
<1> QED BY <1>1, LeaseInvariant, PTL

(* Two executions hold the task at once only after two acquisitions        *)
(* straddled each other, or after a sibling took the row for its own.      *)
THEOREM Holders == ASSUME LeaseAssumption PROVE Spec => []OneHolder
<1>1. TypeInv /\ HolderInv => OneHolder
  <2> SUFFICES ASSUME TypeInv, HolderInv, undisturbed,
                      NEW e \in Executions, NEW f \in Executions, e # f,
                      Holding(e), Holding(f)
               PROVE  left[e] = 0 \/ left[f] = 0
    BY DEF OneHolder
  <2>1. left[e] \in Nat /\ left[f] \in Nat
    BY DEF TypeInv, TypeOK, LeaseAssumption
  <2> QED BY <2>1 DEF HolderInv
<1> QED BY <1>1, LeaseInvariant, PTL

(* Under the same condition an epoch belongs to one lease in everything    *)
(* that was ever stored.                                                   *)
THEOREM Fencing == ASSUME LeaseAssumption PROVE Spec => []EpochsFence
<1>1. EpochInv => EpochsFence
  <2> SUFFICES ASSUME EpochInv, undisturbed PROVE EpochsFence
    BY DEF EpochsFence
  <2>1. \A c \in checkpoints : <<c.epoch, c.lease>> \in Stamps
    BY DEF Stamps
  <2> HIDE DEF Stamps
  <2> QED BY <2>1 DEF EpochInv, EpochsFence
<1> QED BY <1>1, LeaseInvariant, PTL

(* Completed work is lost only with its lease.  *)
THEOREM LostWork == ASSUME LeaseAssumption PROVE Spec => []WorkLostOnlyWithLease
<1>1. LossInv => WorkLostOnlyWithLease
  BY DEF LossInv, Shared, WorkLostOnlyWithLease
<1> QED BY <1>1, LeaseInvariant, PTL
=============================================================================
