------------------------- MODULE RunLifecycleProofs -------------------------
(***************************************************************************)
(* Proofs about a run for every number of resumes, cancellations and       *)
(* faults.                                                                 *)
(***************************************************************************)
EXTENDS RunLifecycle, TLAPS

(* The bundle is attempted twice at most. *)
Unbundled ==
  {"idle", "clear", "again", "request", "begin", "enter", "work", "check", "package", "unlink"}

TriesInv ==
  \A e \in Executions :
    /\ pc[e] \in Unbundled => tries[e] = 0
    /\ pc[e] = "manifest" => tries[e] <= 1

(* A resume needs the request of the run; without an overlap one execution *)
(* at most is at work.                                                     *)
AloneInv ==
  /\ request => pc[First] # "idle"
  /\ \A e \in Executions \ {First} : pc[e] \notin {"idle", "refused"} => request
  /\ alone => \A e, f \in Executions : Working(e) /\ Working(f) => e = f

(* What the delivery of an execution has on disk at each of its steps. *)
Bundled(e) ==
  /\ pc[e] \in {"manifest", "zip", "receipt"} => receipt = Nobody
  /\ pc[e] = "zip" => manifest = [by |-> e, says |-> FinalState(e)]
  /\ pc[e] = "receipt" /\ passed[e] =>
       /\ zip = [by |-> e, valid |-> TRUE]
       /\ manifest = [by |-> e, says |-> "DELIVERED"]
  /\ pc[e] \in {"summary", "deliver"} => receipt = IF passed[e] THEN e ELSE Nobody
  /\ pc[e] = "deliver" => summary = FinalState(e)

(* While an execution is at work, the state of an earlier one is gone.     *)
Open ==
  {"request", "begin", "enter", "work", "check", "stopped", "cancelmark", "cancelsummary",
   "package", "unlink", "manifest", "zip", "receipt", "summary", "deliver"}

Progressing(e) ==
  /\ pc[e] \in Open => state \notin {"DELIVERED", "NEEDS_ATTENTION", "FAILED"}
  /\ pc[e] = "failsummary" => state \in {"FAILED", "CANCELLED"}

DeliveryInv ==
  /\ alone => \A e \in Executions : Bundled(e) /\ Progressing(e)
  /\ ReceiptMatchesBundle
  /\ FinalStateMatchesReceipt

(* Whom a cancellation must stop is owed as long as it is stored. *)
OwedInv == (owed # {} => cancelled) /\ StoredCancelStops

(* A state that is not terminal belongs to an execution that has yet to    *)
(* write a terminal one, and a failure to one that has yet to write the    *)
(* summary.                                                                *)
Pending ==
  {"request", "begin", "enter", "work", "check", "stopped", "cancelmark", "raised",
   "package", "unlink", "manifest", "zip", "receipt", "summary", "deliver"}

PendingInv ==
  ~Unrecorded =>
    /\ pc[First] # "idle" => state \in Terminal \/ \E e \in Executions : pc[e] \in Pending
    /\ alone /\ state = "FAILED" => summary = "FAILED" \/ \E e \in Executions : pc[e] = "failsummary"

IInv == TypeOK /\ TriesInv /\ AloneInv /\ DeliveryInv /\ OwedInv /\ PendingInv
-----------------------------------------------------------------------------
(* A stage is followed by a stage or by the packaging, which only the last *)
(* one is followed by.                                                     *)
LEMMA AfterStages ==
  ASSUME NEW stage \in Stages, NEW ok \in BOOLEAN
  PROVE  /\ After(stage, ok) \in Stages \cup {"PACKAGING"}
         /\ After(stage, ok) = "PACKAGING" => stage = "ARTIFACT_VALIDATION"
  BY DEF After, Stages

(* What judging the results and going on to the next stage can change. *)
LEMMA AdvanceEffect ==
  ASSUME TypeOK, NEW a \in Executions, Work(a) \/ WorkChecked(a) \/ Continue(a)
  PROVE  /\ passed' \in [Executions -> BOOLEAN]
         /\ at' \in [Executions -> Stages]
         /\ \A e \in Executions \ {a} : passed'[e] = passed[e]
         /\ pc' = [pc EXCEPT ![a] = pc'[a]] /\ pc'[a] \in {"package", "enter", "check"}
         /\ pc'[a] = "package" => at[a] = "ARTIFACT_VALIDATION" /\ ~WorkChecked(a)
<1>1. passed' \in [Executions -> BOOLEAN] /\ \A e \in Executions \ {a} : passed'[e] = passed[e]
  BY DEF TypeOK, Work, WorkChecked, Continue, Judge
<1>2. CASE WorkChecked(a)
  BY <1>1, <1>2 DEF WorkChecked, Go, TypeOK, local
<1>3. CASE Work(a) \/ Continue(a)
  <2>1. Advance(a) /\ at[a] \in Stages /\ passed'[a] \in BOOLEAN
    BY <1>1, <1>3 DEF Work, Continue, TypeOK
  <2>2. PICK next \in Stages \cup {"PACKAGING"} :
          /\ next = After(at[a], passed'[a])
          /\ next = "PACKAGING" => at[a] = "ARTIFACT_VALIDATION"
    BY <2>1, AfterStages
  <2>3. /\ at' = IF next = "PACKAGING" THEN at ELSE [at EXCEPT ![a] = next]
        /\ pc' = [pc EXCEPT ![a] = IF next = "PACKAGING" THEN "package" ELSE "enter"]
    BY <2>1, <2>2 DEF Advance, Go
  <2>4. at' \in [Executions -> Stages]
    BY <2>2, <2>3 DEF TypeOK
  <2>5. pc'[a] = IF next = "PACKAGING" THEN "package" ELSE "enter"
    BY <2>3 DEF TypeOK
  <2>6. ~WorkChecked(a)
    BY <2>5, <2>2 DEF WorkChecked, Go, TypeOK
  <2>7. pc' = [pc EXCEPT ![a] = pc'[a]]
    BY <2>3, <2>5
  <2>8. pc'[a] \in {"package", "enter",
  "check"} /\ (pc'[a] = "package" => at[a] = "ARTIFACT_VALIDATION")
    BY <2>2, <2>5
  <2> QED
    BY <1>1, <2>4, <2>6, <2>7, <2>8
<1> QED
  BY <1>2, <1>3

(* The initial state has the types and every strengthening. *)
LEMMA InitIInv == ASSUME LifecycleAssumption, Init PROVE IInv
<1>0. TriesInv
  BY DEF Init, TriesInv
<1>1. TypeOK
  <2>1. faults \in 0..MaxFaults /\ tries \in [Executions -> 0..2] /\ at \in [Executions -> Stages]
    BY DEF Init, LifecycleAssumption, Stages
  <2>2. pc \in [Executions -> Labels] /\ passed \in [Executions -> BOOLEAN]
    BY DEF Init, Labels
  <2>3. /\ manifest \in [by : Writers, says : {"none", "DELIVERED", "NEEDS_ATTENTION"}]
        /\ zip \in [by : Writers, valid : BOOLEAN]
    BY DEF Init, Writers
  <2> QED
    BY <2>1, <2>2, <2>3 DEF Init, TypeOK, Writers
<1>2. AloneInv /\ DeliveryInv /\ OwedInv /\ PendingInv
  BY DEF LifecycleAssumption, Init, AloneInv, DeliveryInv, OwedInv, PendingInv, Working,
     Ended, Executions,
     Bundled, Progressing, ReceiptMatchesBundle, FinalStateMatchesReceipt, StoredCancelStops,
     Open
<1> QED
  BY <1>0, <1>1, <1>2 DEF IInv

(* Every step keeps the types. *)
LEMMA TypeStep == ASSUME LifecycleAssumption, IInv, [Next]_vars PROVE TypeOK'
<1>0. First \in Executions
  BY DEF Executions
<1> USE DEF IInv, store, files, local, Go, TypeOK, Labels, Ended, Finalizing, Stages,
   Terminal, Writers
<1>1. CASE Run
  BY <1>1, <1>0 DEF Run
<1>2. ASSUME NEW a \in Executions, Launch(a) \/ Proceed(a) \/ Crash(a), ~Run PROVE TypeOK'
  <2>1. CASE Resume(a) \/ Refuse(a)
    <3>1. CASE Resume(a)
      BY <3>1 DEF Resume
    <3>2. CASE Refuse(a)
      BY <3>2 DEF Refuse
    <3> QED
      BY <2>1, <3>1, <3>2
  <2>2. CASE ClearCancel(a)
    <3>1. cancelled' = FALSE /\ cancelled' \in BOOLEAN /\ owed' \subseteq Executions
      BY <2>2 DEF ClearCancel
    <3>2. pc' \in [Executions -> Labels]
      BY <2>2 DEF ClearCancel, Go, TypeOK, Labels
    <3> QED
      BY <3>1, <3>2, <2>2 DEF ClearCancel, TypeOK
  <2>3. CASE Again(a)
    BY <2>3 DEF Again
  <2>4. CASE Request(a)
    BY <2>4 DEF Request
  <2>5. CASE Stopped(a) \/ Begin(a) \/ Enter(a)
    <3>1. CASE Stopped(a)
      BY <3>1 DEF Stopped
    <3>2. CASE Begin(a)
      BY <3>2 DEF Begin
    <3>3. CASE Enter(a)
      BY <3>3 DEF Enter
    <3> QED
      BY <2>5, <3>1, <3>2, <3>3
  <2>6. CASE Work(a) \/ Continue(a)
    <3>1. TypeOK /\ at' \in [Executions -> Stages] /\ passed' \in [Executions -> BOOLEAN]
      BY <2>6, AdvanceEffect
    <3>2. pc' \in [Executions -> Labels]
      BY <2>6, <3>1, AdvanceEffect DEF TypeOK, Labels, Finalizing
    <3> QED
      BY <3>1, <3>2, <2>6 DEF TypeOK, Work, Continue
  <2>7. CASE WorkChecked(a)
    <3>1. TypeOK /\ at' \in [Executions -> Stages] /\ passed' \in [Executions -> BOOLEAN]
      BY <2>7, AdvanceEffect
    <3>2. pc' \in [Executions -> Labels]
      BY <2>7, <3>1, AdvanceEffect DEF TypeOK, Labels, Finalizing
    <3> QED
      BY <3>1, <3>2, <2>7 DEF TypeOK, WorkChecked
  <2>8. CASE Package(a) \/ Unlink(a)
    <3>1. CASE Package(a)
      BY <3>1 DEF Package
    <3>2. CASE Unlink(a)
      BY <3>2 DEF Unlink
    <3> QED
      BY <2>8, <3>1, <3>2
  <2>9. CASE Manifest(a)
    BY <2>9 DEF Manifest, FinalState, TriesInv
  <2>10. CASE ZipValid(a)
    BY <2>10 DEF ZipValid
  <2>11. CASE ZipInvalid(a)
    BY <2>11 DEF ZipInvalid
  <2>12. CASE Receipt(a) \/ Summary(a)
    <3>1. CASE Receipt(a)
      BY <3>1 DEF Receipt
    <3>2. CASE Summary(a)
      BY <3>2 DEF Summary, FinalState
    <3> QED
      BY <2>12, <3>1, <3>2
  <2>13. CASE Deliver(a) \/ Report(a)
    <3>1. CASE Deliver(a)
      BY <3>1 DEF Deliver, FinalState
    <3>2. CASE Report(a)
      BY <3>2 DEF Report, FinalState
    <3> QED
      BY <2>13, <3>1, <3>2
  <2>14. CASE Raise(a)
    BY <2>14 DEF Raise, Fault
  <2>15. CASE Escape(a) \/ Crash(a)
    <3>1. CASE Escape(a)
      BY <3>1 DEF Escape, Fault
    <3>2. CASE Crash(a)
      BY <3>2 DEF Crash, Fault
    <3> QED
      BY <2>15, <3>1, <3>2
  <2>16. CASE MarkFailed(a) \/ FailSummary(a)
    <3>1. CASE MarkFailed(a)
      BY <3>1 DEF MarkFailed
    <3>2. CASE FailSummary(a)
      BY <3>2 DEF FailSummary
    <3> QED
      BY <2>16, <3>1, <3>2
  <2>17. CASE SeeCancelled(a) \/ MarkCancelled(a) \/ CancelSummary(a)
    <3>1. CASE SeeCancelled(a)
      BY <3>1 DEF SeeCancelled
    <3>2. CASE MarkCancelled(a)
      BY <3>2 DEF MarkCancelled
    <3>3. CASE CancelSummary(a)
      BY <3>3 DEF CancelSummary
    <3> QED
      BY <2>17, <3>1, <3>2, <3>3
  <2> QED
    BY <1>2, <2>1, <2>2, <2>3, <2>4, <2>5, <2>6, <2>7, <2>8, <2>9, <2>10, <2>11, <2>12, <2>13,
       <2>14, <2>15, <2>16, <2>17 DEF Launch, Proceed
<1>3. ASSUME NEW c \in Cancellers, Cancel(c) PROVE TypeOK'
  <2>1. CASE AskCancel(c)
    BY <2>1 DEF AskCancel
  <2>2. CASE InsertCancel(c)
    BY <2>2 DEF InsertCancel
  <2>3. CASE MarkCancel(c)
    BY <2>3 DEF MarkCancel
  <2> QED
    BY <1>3, <2>1, <2>2, <2>3 DEF Cancel
<1>4. CASE UNCHANGED vars
  BY <1>4 DEF vars
<1> QED
  BY <1>1, <1>2, <1>3, <1>4 DEF Next, Launch

(* A step of an execution that goes on, or of one that dies, is its own.   *)
LEMMA OwnStep ==
  ASSUME TypeOK, NEW a \in Executions, Proceed(a) \/ Crash(a)
  PROVE  /\ Working(a) /\ alone' = alone
         /\ \A e \in Executions \ {a} : pc'[e] = pc[e] /\ passed'[e] = passed[e] /\ tries'[e] = tries[e]
         /\ pc'[a] \notin {"idle", "refused"}
         /\ request' \in {request, TRUE}
<1>1. CASE ClearCancel(a) \/ Again(a) \/ Request(a)
  BY <1>1 DEF ClearCancel, Again, Request, Go, TypeOK, Working, Ended, Finalizing, files, local
<1>2. CASE Stopped(a) \/ Begin(a) \/ Enter(a)
  BY <1>2 DEF Stopped, Begin, Enter, Go, TypeOK, Working, Ended, Finalizing, files, local
<1>3. CASE Work(a) \/ WorkChecked(a) \/ Continue(a)
  <2>1. Working(a) /\ alone' = alone /\ tries' = tries /\ request' = request
    BY <1>3 DEF Work, WorkChecked, Continue, Working, Ended, files
  <2> QED
    BY <1>3, <2>1, AdvanceEffect DEF TypeOK
<1>4. CASE Package(a) \/ Unlink(a)
  BY <1>4 DEF Package, Unlink, Go, TypeOK, Working, Ended, Finalizing, files, local
<1>5. CASE Manifest(a)
  BY <1>5 DEF Manifest, Go, TypeOK, Working, Ended, Finalizing, files, local
<1>6. CASE ZipValid(a)
  BY <1>6 DEF ZipValid, Go, TypeOK, Working, Ended, Finalizing, files, local
<1>7. CASE ZipInvalid(a)
  BY <1>7 DEF ZipInvalid, Go, TypeOK, Working, Ended, Finalizing, files, local
<1>8. CASE Receipt(a) \/ Summary(a)
  BY <1>8 DEF Receipt, Summary, Go, TypeOK, Working, Ended, Finalizing, files, local
<1>9. CASE Deliver(a) \/ Report(a)
  BY <1>9 DEF Deliver, Report, Go, TypeOK, Working, Ended, Finalizing, files, local
<1>10. CASE Raise(a) \/ Escape(a)
  BY <1>10 DEF Raise, Escape, Go, TypeOK, Working, Ended, Finalizing, files, local
<1>11. CASE Crash(a)
  BY <1>11 DEF Crash, Go, TypeOK, Working, Ended, Finalizing, files, local
<1>12. CASE MarkFailed(a) \/ FailSummary(a)
  BY <1>12 DEF MarkFailed, FailSummary, Go, TypeOK, Working, Ended, Finalizing, files, local
<1>13. CASE SeeCancelled(a) \/ MarkCancelled(a) \/ CancelSummary(a)
  BY <1>13 DEF SeeCancelled, MarkCancelled, CancelSummary, Go, TypeOK, Working, Ended,
     Finalizing, files, local
<1> QED
  BY <1>1, <1>2, <1>3, <1>4, <1>5, <1>6, <1>7, <1>8, <1>9, <1>10, <1>11, <1>12,
     <1>13 DEF Proceed

(* Every step keeps the number of attempts. *)
LEMMA TriesStep == ASSUME LifecycleAssumption, IInv, [Next]_vars PROVE TriesInv'
<1>0. TypeOK /\ First \in Executions
  BY DEF IInv, Executions
<1>1. CASE Run
  BY <1>0, <1>1 DEF Run, Go, IInv, TriesInv, Unbundled, TypeOK, local
<1>2. ASSUME NEW a \in Executions \ {First}, Resume(a) \/ Refuse(a) PROVE TriesInv'
  BY <1>0, <1>2 DEF Resume, Refuse, Go, IInv, TriesInv, Unbundled, TypeOK, local
<1>3. ASSUME NEW a \in Executions, Proceed(a) \/ Crash(a) PROVE TriesInv'
  <2>1. CASE ClearCancel(a) \/ Again(a) \/ Request(a)
    BY <2>1, <1>0 DEF ClearCancel, Again, Request, Go, IInv, TriesInv, Unbundled, TypeOK, local
  <2>2. CASE Stopped(a) \/ Begin(a) \/ Enter(a)
    BY <2>2, <1>0 DEF Stopped, Begin, Enter, Go, IInv, TriesInv, Unbundled, TypeOK, local
  <2>3. CASE Work(a) \/ WorkChecked(a) \/ Continue(a)
    BY <2>3, <1>0, AdvanceEffect DEF Work, WorkChecked, Continue, IInv, TriesInv, Unbundled,
       TypeOK
  <2>4. CASE Package(a) \/ Unlink(a)
    BY <2>4, <1>0 DEF Package, Unlink, Go, IInv, TriesInv, Unbundled, TypeOK, local
  <2>5. CASE Manifest(a)
    BY <2>5, <1>0 DEF Manifest, Go, IInv, TriesInv, Unbundled, TypeOK, local
  <2>6. CASE ZipValid(a)
    BY <2>6, <1>0 DEF ZipValid, Go, IInv, TriesInv, Unbundled, TypeOK, local
  <2>7. CASE ZipInvalid(a)
    BY <2>7, <1>0 DEF ZipInvalid, Go, IInv, TriesInv, Unbundled, TypeOK, local
  <2>8. CASE Receipt(a) \/ Summary(a)
    BY <2>8, <1>0 DEF Receipt, Summary, Go, IInv, TriesInv, Unbundled, TypeOK, local
  <2>9. CASE Deliver(a) \/ Report(a)
    BY <2>9, <1>0 DEF Deliver, Report, Go, IInv, TriesInv, Unbundled, TypeOK, local
  <2>10. CASE Raise(a) \/ Escape(a)
    BY <2>10, <1>0 DEF Raise, Escape, Go, IInv, TriesInv, Unbundled, TypeOK, local, Finalizing
  <2>11. CASE Crash(a)
    BY <2>11, <1>0 DEF Crash, Go, IInv, TriesInv, Unbundled, TypeOK, local
  <2>12. CASE MarkFailed(a) \/ FailSummary(a)
    BY <2>12, <1>0 DEF MarkFailed, FailSummary, Go, IInv, TriesInv, Unbundled, TypeOK, local
  <2>13. CASE SeeCancelled(a) \/ MarkCancelled(a) \/ CancelSummary(a)
    BY <2>13, <1>0 DEF SeeCancelled, MarkCancelled, CancelSummary, Go, IInv, TriesInv,
       Unbundled, TypeOK, local
  <2> QED
    BY <1>3, <2>1, <2>2, <2>3, <2>4, <2>5, <2>6, <2>7, <2>8, <2>9, <2>10, <2>11, <2>12,
       <2>13 DEF Proceed
<1>4. ASSUME NEW c \in Cancellers, Cancel(c) PROVE TriesInv'
  BY <1>4 DEF Cancel, AskCancel, InsertCancel, MarkCancel, IInv, TriesInv, local
<1>5. CASE UNCHANGED vars
  BY <1>5 DEF vars, IInv, TriesInv, local
<1> QED
  BY <1>1, <1>2, <1>3, <1>4, <1>5 DEF Next, Launch

(* Every step keeps executions apart that did not overlap. *)
LEMMA AloneStep == ASSUME LifecycleAssumption, IInv, [Next]_vars PROVE AloneInv'
<1>0. TypeOK /\ First \in Executions
  BY DEF IInv, Executions
<1>1. CASE Run
  BY <1>0, <1>1 DEF Run, Go, IInv, AloneInv, Working, Ended, TypeOK, files
<1>2. ASSUME NEW a \in Executions \ {First}, Resume(a) \/ Refuse(a) PROVE AloneInv'
  <2>1. CASE Refuse(a)
    BY <1>0, <2>1 DEF Refuse, Go, IInv, AloneInv, Working, Ended, TypeOK, files
  <2>2. CASE Resume(a)
    <3>1. request /\ request' /\ pc' = [pc EXCEPT ![a] = "clear"] /\ pc[a] = "idle"
      BY <2>2 DEF Resume, Go, files
    <3>2. alone' => \A e \in Executions \ {a} : ~Working(e)'
      <4>1. alone' => \A e \in Executions : ~Working(e)
        BY <2>2 DEF Resume
      <4>2. \A e \in Executions \ {a} : pc'[e] = pc[e]
        BY <1>0, <3>1 DEF TypeOK
      <4> QED
        BY <4>1, <4>2 DEF Working
    <3> QED
      BY <1>0, <3>1, <3>2 DEF IInv, AloneInv, TypeOK
  <2> QED
    BY <1>2, <2>1, <2>2
<1>3. ASSUME NEW a \in Executions, Proceed(a) \/ Crash(a) PROVE AloneInv'
  <2>1. CASE Request(a)
    BY <1>0, <2>1 DEF Request, Go, IInv, AloneInv, Working, Ended, TypeOK
  <2>2. CASE ~Request(a)
    <3>1. request' = request
      BY <1>3, <2>2 DEF Proceed, ClearCancel, Again, Stopped, Begin, Enter, Work, WorkChecked,
         Continue, Package, Unlink, Manifest, ZipValid, ZipInvalid, Receipt, Summary, Deliver,
         Report, Raise, Escape, Crash, MarkFailed, FailSummary, SeeCancelled, MarkCancelled,
         CancelSummary, files
    <3> QED
      BY <1>0, <1>3, <3>1, OwnStep DEF IInv, AloneInv, Working, Ended
  <2> QED
    BY <2>1, <2>2
<1>4. ASSUME NEW c \in Cancellers, Cancel(c) PROVE AloneInv'
  BY <1>4 DEF Cancel, AskCancel, InsertCancel, MarkCancel, IInv, AloneInv, Working, Ended, files
<1>5. CASE UNCHANGED vars
  BY <1>5 DEF vars, IInv, AloneInv, Working, Ended, files
<1> QED
  BY <1>1, <1>2, <1>3, <1>4, <1>5 DEF Next, Launch

(* No step takes an execution past the check that must stop it. *)
LEMMA OwedStep == ASSUME LifecycleAssumption, IInv, [Next]_vars PROVE OwedInv'
<1>0. TypeOK /\ First \in Executions
  BY DEF IInv, Executions
<1>1. CASE Run
  BY <1>0, <1>1 DEF Run, Go, IInv, OwedInv, StoredCancelStops, Finalizing, TypeOK
<1>2. ASSUME NEW a \in Executions \ {First}, Resume(a) \/ Refuse(a) PROVE OwedInv'
  BY <1>0, <1>2 DEF Resume, Refuse, Go, IInv, OwedInv, StoredCancelStops, Finalizing, TypeOK,
     store
<1>3. ASSUME NEW a \in Executions, Proceed(a) \/ Crash(a) PROVE OwedInv'
  <2> USE <1>0 DEF Go, IInv, OwedInv, StoredCancelStops, Finalizing, TypeOK, store, Fault
  <2>1. CASE ClearCancel(a) \/ Again(a) \/ Request(a)
    BY <2>1 DEF ClearCancel, Again, Request
  <2>2. CASE Stopped(a) \/ Begin(a) \/ Enter(a)
    BY <2>2 DEF Stopped, Begin, Enter
  <2>3. CASE Work(a) \/ WorkChecked(a) \/ Continue(a)
    <3>1. owed' = owed /\ cancelled' = cancelled
      BY <2>3 DEF Work, WorkChecked, Continue, store
    <3>2. pc'[a] = "package" => ~cancelled
      BY <2>3, <1>0, AdvanceEffect DEF Work, Continue, Checked
    <3>3. pc'[a] # "package" => pc'[a] \notin Finalizing
      BY <2>3, <1>0, AdvanceEffect DEF Finalizing
    <3>4. \A e \in Executions \ {a} : pc'[e] = pc[e]
      BY <1>0, <1>3, OwnStep
    <3>5. owed \subseteq Executions /\ (owed # {} => cancelled) /\ \A e \in owed : pc[e] \notin Finalizing
      BY <1>0 DEF IInv, OwedInv, StoredCancelStops, TypeOK
    <3>6. \A e \in owed : pc'[e] \notin Finalizing
      BY <3>2, <3>3, <3>4, <3>5
    <3> QED
      BY <3>1, <3>5, <3>6 DEF OwedInv, StoredCancelStops
  <2>4. CASE Package(a) \/ Unlink(a)
    BY <2>4 DEF Package, Unlink
  <2>5. CASE Manifest(a)
    BY <2>5 DEF Manifest
  <2>6. CASE ZipValid(a)
    BY <2>6 DEF ZipValid
  <2>7. CASE ZipInvalid(a)
    BY <2>7 DEF ZipInvalid
  <2>8. CASE Receipt(a) \/ Summary(a)
    BY <2>8 DEF Receipt, Summary
  <2>9. CASE Deliver(a) \/ Report(a)
    BY <2>9 DEF Deliver, Report
  <2>10. CASE Raise(a) \/ Escape(a)
    BY <2>10 DEF Raise, Escape
  <2>11. CASE Crash(a)
    BY <2>11 DEF Crash
  <2>12. CASE MarkFailed(a) \/ FailSummary(a)
    BY <2>12 DEF MarkFailed, FailSummary
  <2>13. CASE SeeCancelled(a) \/ MarkCancelled(a) \/ CancelSummary(a)
    BY <2>13 DEF SeeCancelled, MarkCancelled, CancelSummary
  <2> QED
    BY <1>3, <2>1, <2>2, <2>3, <2>4, <2>5, <2>6, <2>7, <2>8, <2>9, <2>10, <2>11, <2>12,
       <2>13 DEF Proceed
<1>4. ASSUME NEW c \in Cancellers, Cancel(c) PROVE OwedInv'
  BY <1>4 DEF Cancel, AskCancel, InsertCancel, MarkCancel, IInv, OwedInv, StoredCancelStops,
     store
<1>5. CASE UNCHANGED vars
  BY <1>5 DEF vars, IInv, OwedInv, StoredCancelStops, store
<1> QED
  BY <1>1, <1>2, <1>3, <1>4, <1>5 DEF Next, Launch

(* Every step keeps what receipt, bundle, summary and state say of each    *)
(* other.                                                                  *)
LEMMA DeliveryStep == ASSUME LifecycleAssumption, IInv, [Next]_vars PROVE DeliveryInv'
<1>0. TypeOK /\ First \in Executions
  BY DEF IInv, Executions
<1>1. CASE Run
  <2>1. \A e \in Executions \ {First} : pc'[e] \in {"idle", "refused"}
    BY <1>0, <1>1 DEF Run, Go, IInv, AloneInv, TypeOK
  <2>2. pc'[First] = "request" /\ state' = "RECEIVED" /\ UNCHANGED <<files, summary, alone>>
    BY <1>0, <1>1 DEF Run, Go, TypeOK
  <2>3. \A e \in Executions : Bundled(e)' /\ Progressing(e)'
    BY <2>1, <2>2 DEF Bundled, Progressing, Open
  <2> QED
    BY <2>2, <2>3 DEF files, IInv, DeliveryInv, ReceiptMatchesBundle, FinalStateMatchesReceipt
<1>2. ASSUME NEW a \in Executions \ {First}, Resume(a) \/ Refuse(a) PROVE DeliveryInv'
  <2>1. UNCHANGED <<store, files, local>> /\ (alone' => alone)
    <3>1. CASE Resume(a)
      BY <3>1 DEF Resume
    <3>2. CASE Refuse(a)
      BY <3>2 DEF Refuse
    <3> QED
      BY <1>2, <3>1, <3>2
  <2>2. pc'[a] \in {"clear", "refused"} /\ \A e \in Executions \ {a} : pc'[e] = pc[e]
    BY <1>0, <1>2 DEF Resume, Refuse, Go, TypeOK
  <2>3. ASSUME alone', NEW e \in Executions PROVE Bundled(e)' /\ Progressing(e)'
    BY <2>1, <2>2, <2>3 DEF store, files, local, IInv, DeliveryInv, Bundled, Progressing,
       Open, FinalState
  <2> QED
    BY <2>1, <2>3 DEF store, files, IInv, DeliveryInv, ReceiptMatchesBundle,
       FinalStateMatchesReceipt
<1>3. ASSUME NEW a \in Executions, Proceed(a) \/ Crash(a) PROVE DeliveryInv'
  <2> DEFINE Mine == Bundled(a) /\ Progressing(a) /\ ReceiptMatchesBundle /\ FinalStateMatchesReceipt
  <2> SUFFICES ASSUME alone PROVE DeliveryInv'
    BY <1>0, <1>3, OwnStep DEF DeliveryInv, ReceiptMatchesBundle, FinalStateMatchesReceipt
  <2>0. Mine
    BY DEF IInv, DeliveryInv
  <2>a. \A e \in Executions \ {a} : pc'[e] \in Ended \cup {"idle"}
    BY <1>0, <1>3, OwnStep DEF IInv, AloneInv, Working
  <2>b. \A e \in Executions \ {a} : Bundled(e)' /\ Progressing(e)'
    BY <2>a DEF Bundled, Progressing, Open, Ended
  <2>c. SUFFICES Mine'
    BY <2>b DEF DeliveryInv
  <2> USE <1>0, <2>0 DEF Go, Mine, Bundled, Progressing, Open, FinalState, ReceiptMatchesBundle,
          FinalStateMatchesReceipt, TypeOK, store, files, local
  <2>1. CASE ClearCancel(a)
    BY <2>1 DEF ClearCancel
  <2>2. CASE Again(a)
    BY <2>2 DEF Again
  <2>3. CASE Request(a)
    BY <2>3 DEF Request
  <2>4. CASE Stopped(a)
    BY <2>4 DEF Stopped
  <2>5. CASE Begin(a)
    BY <2>5 DEF Begin
  <2>6. CASE Enter(a)
    <3>1. /\ pc[a] = "enter" /\ pc'[a] = "work" /\ state' \in Stages
          /\ UNCHANGED <<files, summary>>
      BY <2>6, <1>0 DEF Enter, Go, TypeOK
    <3>2. state' \notin {"DELIVERED", "NEEDS_ATTENTION", "FAILED"}
      BY <3>1 DEF Stages
    <3> QED
      BY <3>1, <3>2, <2>0 DEF files, Mine, Bundled, Progressing, ReceiptMatchesBundle,
         FinalStateMatchesReceipt
  <2>7. CASE Work(a) \/ WorkChecked(a) \/ Continue(a)
    <3>1. UNCHANGED <<store, files>>
      BY <2>7 DEF Work, WorkChecked, Continue
    <3>2. pc[a] \in {"work", "check"} /\ pc'[a] \in {"package", "enter", "check"}
      BY <2>7, <1>0, AdvanceEffect DEF Work, WorkChecked, Continue
    <3> QED
      BY <3>1, <3>2, <2>0 DEF store, files, Mine, Bundled, Progressing, Open,
         ReceiptMatchesBundle, FinalStateMatchesReceipt
  <2>8. CASE Package(a)
    BY <2>8 DEF Package
  <2>9. CASE Unlink(a)
    BY <2>9 DEF Unlink
  <2>10. CASE Manifest(a)
    BY <2>10 DEF Manifest
  <2>11. CASE ZipValid(a)
    BY <2>11 DEF ZipValid
  <2>12. CASE ZipInvalid(a)
    BY <2>12 DEF ZipInvalid
  <2>13. CASE Receipt(a)
    BY <2>13 DEF Receipt
  <2>14. CASE Summary(a)
    BY <2>14 DEF Summary
  <2>15. CASE Deliver(a)
    <3>1. /\ pc[a] = "deliver" /\ pc'[a] = "event" /\ state' = FinalState(a)
          /\ UNCHANGED <<files, summary>>
      BY <2>15, <1>0 DEF Deliver, Go, TypeOK
    <3>2. /\ summary' = state' /\ state' = IF passed[a] THEN "DELIVERED" ELSE "NEEDS_ATTENTION"
          /\ receipt' = IF passed[a] THEN a ELSE Nobody
      BY <3>1, <2>0 DEF files, Mine, Bundled, FinalState
    <3>3. a # Nobody
      BY DEF LifecycleAssumption, Executions
    <3> QED
      BY <3>1, <3>2, <3>3, <2>0 DEF files, Mine, Bundled, Progressing, Open,
         ReceiptMatchesBundle, FinalStateMatchesReceipt
  <2>16. CASE Report(a)
    BY <2>16 DEF Report
  <2>17. CASE Raise(a)
    BY <2>17 DEF Raise, Finalizing, Fault
  <2>18. CASE Escape(a)
    BY <2>18 DEF Escape
  <2>19. CASE Crash(a)
    BY <2>19 DEF Crash, Working, Ended, Fault
  <2>20. CASE MarkFailed(a)
    BY <2>20 DEF MarkFailed
  <2>21. CASE FailSummary(a)
    BY <2>21 DEF FailSummary
  <2>22. CASE SeeCancelled(a)
    BY <2>22 DEF SeeCancelled
  <2>23. CASE MarkCancelled(a)
    BY <2>23 DEF MarkCancelled
  <2>24. CASE CancelSummary(a)
    BY <2>24 DEF CancelSummary
  <2> QED
    BY <1>3, <2>1, <2>2, <2>3, <2>4, <2>5, <2>6, <2>7, <2>8, <2>9, <2>10, <2>11, <2>12, <2>13,
       <2>14, <2>15, <2>16, <2>17, <2>18, <2>19, <2>20, <2>21, <2>22, <2>23, <2>24 DEF Proceed
<1>4. ASSUME NEW c \in Cancellers, Cancel(c) PROVE DeliveryInv'
  <2>1. UNCHANGED <<files, pc, local, alone, summary>> /\ state' \in {state, "CANCELLED"}
    BY <1>4 DEF Cancel, AskCancel, InsertCancel, MarkCancel, store
  <2>2. ASSUME alone', NEW e \in Executions PROVE Bundled(e)' /\ Progressing(e)'
    BY <2>1, <2>2 DEF files, local, IInv, DeliveryInv, Bundled, Progressing, FinalState
  <2> QED
    BY <2>1, <2>2 DEF files, IInv, DeliveryInv, ReceiptMatchesBundle, FinalStateMatchesReceipt
<1>5. CASE UNCHANGED vars
  BY <1>5 DEF vars, store, files, local, IInv, DeliveryInv, Bundled, Progressing, Open,
     FinalState, ReceiptMatchesBundle, FinalStateMatchesReceipt
<1> QED
  BY <1>1, <1>2, <1>3, <1>4, <1>5 DEF Next, Launch

(* Every step leaves somebody who writes the end, or the end. *)
LEMMA PendingStep == ASSUME LifecycleAssumption, IInv, [Next]_vars PROVE PendingInv'
<1>0. TypeOK /\ First \in Executions
  BY DEF IInv, Executions
<1>1. CASE Run
  <2>1. pc'[First] = "request" /\ state' = "RECEIVED"
    BY <1>0, <1>1 DEF Run, Go, TypeOK
  <2> QED
    BY <1>0, <2>1 DEF PendingInv, Pending
<1>2. ASSUME NEW a \in Executions \ {First}, Resume(a) \/ Refuse(a) PROVE PendingInv'
  <2>1. pc[a] = "idle" /\ pc'[a] \in {"clear",
  "refused"} /\ \A e \in Executions \ {a} : pc'[e] = pc[e]
    BY <1>0, <1>2 DEF Resume, Refuse, Go, TypeOK
  <2>2. state' = state /\ summary' = summary /\ (alone' => alone)
    <3>1. CASE Resume(a)
      BY <3>1 DEF Resume, store
    <3>2. CASE Refuse(a)
      BY <3>2 DEF Refuse, store
    <3> QED
      BY <1>2, <3>1, <3>2
  <2>3. Unrecorded => Unrecorded'
    BY <2>1 DEF Unrecorded
  <2>4. pc'[First] # "idle" => pc[First] # "idle"
    BY <1>0, <2>1
  <2> QED
    BY <2>1, <2>2, <2>3, <2>4 DEF IInv, PendingInv, Pending
<1>3. ASSUME NEW a \in Executions, Proceed(a) \/ Crash(a) PROVE PendingInv'
  <2>a. alone' = alone /\ \A e \in Executions \ {a} : pc'[e] = pc[e]
    BY <1>0, <1>3, OwnStep
  <2>b. ~Unrecorded' => ~Unrecorded /\ PendingInv
    <3>1. Unrecorded => Unrecorded'
      BY <1>0, <1>3, <2>a, OwnStep DEF Unrecorded, Working, Ended
    <3> QED
      BY <3>1 DEF IInv
  <2>c. pc'[First] # "idle" => pc[First] # "idle"
    BY <1>0, <1>3, <2>a, OwnStep DEF Working
  <2>d. alone /\ pc[a] \in Open => state \notin {"DELIVERED", "NEEDS_ATTENTION", "FAILED"}
    BY DEF IInv, DeliveryInv, Progressing
  <2> USE <1>0, <2>a, <2>b, <2>c, <2>d DEF Go, PendingInv, Pending, Terminal, TypeOK, store
  <2>1. CASE ClearCancel(a)
    BY <2>1 DEF ClearCancel
  <2>2. CASE Again(a)
    BY <2>2 DEF Again
  <2>3. CASE Request(a)
    BY <2>3 DEF Request
  <2>4. CASE Stopped(a)
    BY <2>4 DEF Stopped
  <2>5. CASE Begin(a)
    BY <2>5 DEF Begin
  <2>6. CASE Enter(a)
    BY <2>6 DEF Enter, Stages
  <2>7. CASE Work(a) \/ WorkChecked(a) \/ Continue(a)
    <3>1. state' = state /\ summary' = summary /\ pc[a] \in {"work", "check"}
      BY <2>7 DEF Work, WorkChecked, Continue, store
    <3>2. pc'[a] \in Pending
      BY <2>7, <1>0, AdvanceEffect DEF Pending
    <3>3. pc[a] # "failsummary"
      BY <3>1
    <3> QED
      BY <2>a, <2>b, <2>c, <3>1, <3>2, <3>3 DEF PendingInv
  <2>8. CASE Package(a)
    BY <2>8 DEF Package
  <2>9. CASE Unlink(a)
    BY <2>9 DEF Unlink
  <2>10. CASE Manifest(a)
    BY <2>10 DEF Manifest
  <2>11. CASE ZipValid(a)
    BY <2>11 DEF ZipValid
  <2>12. CASE ZipInvalid(a)
    BY <2>12 DEF ZipInvalid
  <2>13. CASE Receipt(a)
    BY <2>13 DEF Receipt
  <2>14. CASE Summary(a)
    BY <2>14 DEF Summary, Open, FinalState
  <2>15. CASE Deliver(a)
    BY <2>15 DEF Deliver, FinalState
  <2>16. CASE Report(a)
    BY <2>16 DEF Report
  <2>17. CASE Raise(a)
    BY <2>17 DEF Raise, Finalizing, Fault
  <2>18. CASE Escape(a)
    <3>1. Unrecorded'
      BY <2>18, <1>0 DEF Escape, Go, Unrecorded, TypeOK
    <3> QED
      BY <3>1 DEF PendingInv
  <2>19. CASE Crash(a)
    <3>1. Unrecorded'
      BY <2>19, <1>0 DEF Crash, Go, Unrecorded, TypeOK
    <3> QED
      BY <3>1 DEF PendingInv
  <2>20. CASE MarkFailed(a)
    BY <2>20 DEF MarkFailed
  <2>21. CASE FailSummary(a)
    BY <2>21 DEF FailSummary
  <2>22. CASE SeeCancelled(a)
    BY <2>22 DEF SeeCancelled
  <2>23. CASE MarkCancelled(a)
    BY <2>23 DEF MarkCancelled
  <2>24. CASE CancelSummary(a)
    BY <2>24 DEF CancelSummary, Open
  <2> QED
    BY <1>3, <2>1, <2>2, <2>3, <2>4, <2>5, <2>6, <2>7, <2>8, <2>9, <2>10, <2>11, <2>12, <2>13,
       <2>14, <2>15, <2>16, <2>17, <2>18, <2>19, <2>20, <2>21, <2>22, <2>23, <2>24 DEF Proceed
<1>4. ASSUME NEW c \in Cancellers, Cancel(c) PROVE PendingInv'
  <2>1. UNCHANGED <<pc, alone, summary>> /\ state' \in {state, "CANCELLED"}
    BY <1>4 DEF Cancel, AskCancel, InsertCancel, MarkCancel, store
  <2> QED
    BY <2>1 DEF IInv, PendingInv, Unrecorded, Terminal
<1>5. CASE UNCHANGED vars
  <2>1. UNCHANGED <<pc, alone, summary, state>>
    BY <1>5 DEF vars, store
  <2> QED
    BY <2>1 DEF IInv, PendingInv, Unrecorded
<1> QED
  BY <1>1, <1>2, <1>3, <1>4, <1>5 DEF Next, Launch

(* The invariant holds in every reachable state. *)
THEOREM LifecycleInvariant == ASSUME LifecycleAssumption PROVE Spec => []IInv
<1>1. Init => IInv
  BY InitIInv
<1>2. IInv /\ [Next]_vars => IInv'
  BY TypeStep, TriesStep, AloneStep, DeliveryStep, OwedStep, PendingStep DEF IInv
<1> QED
  BY <1>1, <1>2, PTL DEF Spec

(* Type correctness; a delivery makes at most two attempts at its bundle. *)
THEOREM LifecycleTypes == ASSUME LifecycleAssumption PROVE Spec => []TypeOK
<1>1. IInv => TypeOK
  BY DEF IInv
<1> QED
  BY <1>1, LifecycleInvariant, PTL

(* Without overlap, a receipt on disk vouches for the bundle on disk after *)
(* any number of resumes, crashes and exceptions.                          *)
THEOREM ReceiptVouches == ASSUME LifecycleAssumption PROVE Spec => []ReceiptMatchesBundle
<1>1. IInv => ReceiptMatchesBundle
  BY DEF IInv, DeliveryInv
<1> QED
  BY <1>1, LifecycleInvariant, PTL

(* Without overlap, state, summary and receipt tell the same story. *)
THEOREM StateVouches == ASSUME LifecycleAssumption PROVE Spec => []FinalStateMatchesReceipt
<1>1. IInv => FinalStateMatchesReceipt
  BY DEF IInv, DeliveryInv
<1> QED
  BY <1>1, LifecycleInvariant, PTL

(* A stored cancellation stops every execution that had not passed its     *)
(* last check, for any number of executions that overlap.                  *)
THEOREM CancellationStops == ASSUME LifecycleAssumption PROVE Spec => []StoredCancelStops
<1>1. IInv => StoredCancelStops
  BY DEF IInv, OwedInv
<1> QED
  BY <1>1, LifecycleInvariant, PTL

(* A run that nobody works on is in a terminal state, for any number of    *)
(* executions that overlap, unless one of them died without a word.        *)
THEOREM QuietIsTerminal == ASSUME LifecycleAssumption PROVE Spec => []QuietRunIsTerminal
<1>1. IInv => QuietRunIsTerminal
  <2> SUFFICES ASSUME IInv, Quiet, ~Unrecorded, pc[First] # "idle"
               PROVE  state \in Terminal /\ (alone => summary = state \/ state = "CANCELLED")
    BY DEF QuietRunIsTerminal
  <2>1. \A e \in Executions : pc[e] \in Ended \cup {"idle"}
    BY DEF Quiet, Working
  <2>2. \A e \in Executions : pc[e] \notin Pending /\ pc[e] # "failsummary"
    BY <2>1 DEF Ended, Pending
  <2>3. state \in Terminal /\ (alone /\ state = "FAILED" => summary = "FAILED")
    BY <2>2 DEF IInv, PendingInv
  <2> QED
    BY <2>3 DEF IInv, DeliveryInv, FinalStateMatchesReceipt, Terminal
<1> QED
  BY <1>1, LifecycleInvariant, PTL
=============================================================================
