---------------------------- MODULE RunLifecycle ----------------------------
(***************************************************************************)
(* One run: its executions (Orchestrator.run, then any number of           *)
(* Orchestrator.resume, each in a process of its own), the cancellations   *)
(* that clients ask for, and the files that make up its delivery.          *)
(*                                                                         *)
(* Executions and cancellers meet in the runtime store only, one statement *)
(* at a time, and in the run directory.                                    *)
(***************************************************************************)
EXTENDS Naturals, FiniteSets

CONSTANTS
  Resumes,      \* calls of resume
  Cancellers,   \* calls of request_cancel
  First,        \* the execution that run() makes
  Nobody,       \* no execution: the file does not exist
  MaxFaults     \* exceptions and crashes together (bound)

ASSUME LifecycleAssumption ==
  /\ First \notin Resumes
  /\ Nobody \notin Resumes \cup {First}
  /\ MaxFaults \in Nat

Executions == Resumes \cup {First}

VARIABLES
  state,      \* the last row of state_transitions
  cancelled,  \* the run has a row in cancellations
  summary,    \* run_summaries.state
  request,    \* run_request.json is written
  manifest,   \* run_manifest.json: who wrote it, and the state it says
  zip,        \* delivery_bundle.zip: who wrote it, and whether it validates
  receipt,    \* delivery_receipt.json: who wrote it
  pc,         \* where each execution stands
  at,         \* the pipeline stage of each execution
  passed,     \* quality.passed of each execution
  tries,      \* ZIP attempts of each execution
  ask,        \* where each canceller stands
  faults,
  alone,      \* history: no resume began while another execution worked
  owed        \* history: executions that an accepted cancellation must stop

store == <<state, cancelled, summary>>
files == <<request, manifest, zip, receipt>>
local == <<at, passed, tries>>
vars == <<store, files, pc, local, ask, faults, alone, owed>>

Stages ==
  {"INGESTING", "CONTEXT_INDEXING", "CONTRACTING", "PLANNING", "ROUTING", "EXECUTING",
   "VALIDATION", "REPAIR_EXECUTION", "FINAL_ASSEMBLY", "ARTIFACT_BUILD", "ARTIFACT_VALIDATION"}

(* The stages that end with _ensure_not_cancelled. *)
Checked ==
  {"INGESTING", "CONTEXT_INDEXING", "PLANNING", "ROUTING", "EXECUTING", "ARTIFACT_VALIDATION"}

(* What follows a stage, with the quality it ended with. *)
After(stage, ok) ==
  [INGESTING |-> "CONTEXT_INDEXING", CONTEXT_INDEXING |-> "CONTRACTING",
   CONTRACTING |-> "PLANNING", PLANNING |-> "ROUTING", ROUTING |-> "EXECUTING",
   EXECUTING |-> "VALIDATION",
   VALIDATION |-> IF ok THEN "FINAL_ASSEMBLY" ELSE "REPAIR_EXECUTION",
   REPAIR_EXECUTION |-> "FINAL_ASSEMBLY", FINAL_ASSEMBLY |-> "ARTIFACT_BUILD",
   ARTIFACT_BUILD |-> "ARTIFACT_VALIDATION", ARTIFACT_VALIDATION |-> "PACKAGING"][stage]

Terminal == {"DELIVERED", "NEEDS_ATTENTION", "FAILED", "CANCELLED"}

Ended == {"done", "failed", "cancelled", "refused", "escaped", "crashed"}
Working(e) == pc[e] \notin Ended \cup {"idle"}

(* The part of an execution that no cancellation can stop any more. *)
Finalizing == {"package", "unlink", "manifest", "zip", "receipt", "summary", "deliver",
               "event", "done"}

(* The state the run manifest of an execution says. *)
FinalState(e) == IF passed[e] THEN "DELIVERED" ELSE "NEEDS_ATTENTION"

Go(e, label) == pc' = [pc EXCEPT ![e] = label]
-----------------------------------------------------------------------------
Init ==
  /\ state = "none" /\ cancelled = FALSE /\ summary = "none"
  /\ request = FALSE
  /\ manifest = [by |-> Nobody, says |-> "none"]
  /\ zip = [by |-> Nobody, valid |-> FALSE]
  /\ receipt = Nobody
  /\ pc = [e \in Executions |-> "idle"]
  /\ at = [e \in Executions |-> "INGESTING"]
  /\ passed = [e \in Executions |-> FALSE]
  /\ tries = [e \in Executions |-> 0]
  /\ ask = [c \in Cancellers |-> "idle"]
  /\ faults = 0
  /\ alone = TRUE
  /\ owed = {}

(* run: RECEIVED, then run_request.json. *)
Run ==
  /\ pc[First] = "idle"
  /\ state' = "RECEIVED"
  /\ Go(First, "request")
  /\ UNCHANGED <<cancelled, summary, files, local, ask, faults, alone, owed>>

(* resume refuses a delivered run, and one that has no request on disk; it *)
(* does not ask whether an execution of the run is still at work.          *)
Resume(e) ==
  /\ pc[e] = "idle"
  /\ state # "DELIVERED" /\ request
  /\ alone' = (alone /\ \A f \in Executions : ~Working(f))
  /\ Go(e, "clear")
  /\ UNCHANGED <<store, files, local, ask, faults, owed>>

Refuse(e) ==
  /\ pc[e] = "idle"
  /\ state = "DELIVERED" \/ ~request
  /\ Go(e, "refused")
  /\ UNCHANGED <<store, files, local, ask, faults, alone, owed>>

ClearCancel(e) ==
  /\ pc[e] = "clear"
  /\ cancelled' = FALSE
  /\ owed' = {}
  /\ Go(e, "again")
  /\ UNCHANGED <<state, summary, files, local, ask, faults, alone>>

Again(e) ==
  /\ pc[e] = "again"
  /\ state' = "RECEIVED"
  /\ Go(e, "request")
  /\ UNCHANGED <<cancelled, summary, files, local, ask, faults, alone, owed>>

Request(e) ==
  /\ pc[e] = "request"
  /\ request' = TRUE
  /\ Go(e, "begin")
  /\ UNCHANGED <<store, manifest, zip, receipt, local, ask, faults, alone, owed>>

(* _ensure_not_cancelled, before the first stage and at the end of a       *)
(* checked one.                                                            *)
Stopped(e) ==
  /\ pc[e] \in {"begin", "check"}
  /\ cancelled
  /\ Go(e, "stopped")
  /\ UNCHANGED <<store, files, local, ask, faults, alone, owed>>

Begin(e) ==
  /\ pc[e] = "begin"
  /\ ~cancelled
  /\ Go(e, "enter")
  /\ UNCHANGED <<store, files, local, ask, faults, alone, owed>>

(* transition to the stage ... *)
Enter(e) ==
  /\ pc[e] = "enter"
  /\ state' = at[e]
  /\ Go(e, "work")
  /\ UNCHANGED <<cancelled, summary, files, local, ask, faults, alone, owed>>

(* ... and its work.  VALIDATION and a repair judge the results anew, the  *)
(* artifact stages, fidelity and integrity audits can only demote them.    *)
Judge(e) ==
  CASE at[e] \in {"VALIDATION", "REPAIR_EXECUTION"} ->
         \E ok \in BOOLEAN : passed' = [passed EXCEPT ![e] = ok]
    [] at[e] \in {"ARTIFACT_BUILD", "ARTIFACT_VALIDATION"} ->
         \E ok \in BOOLEAN : passed' = [passed EXCEPT ![e] = @ /\ ok]
    [] OTHER -> UNCHANGED passed

Advance(e) ==
  LET next == After(at[e], passed'[e]) IN
    /\ at' = IF next = "PACKAGING" THEN at ELSE [at EXCEPT ![e] = next]
    /\ Go(e, IF next = "PACKAGING" THEN "package" ELSE "enter")

Work(e) ==
  /\ pc[e] = "work" /\ at[e] \notin Checked
  /\ Judge(e)
  /\ Advance(e)
  /\ UNCHANGED <<store, files, tries, ask, faults, alone, owed>>

WorkChecked(e) ==
  /\ pc[e] = "work" /\ at[e] \in Checked
  /\ Judge(e)
  /\ Go(e, "check")
  /\ UNCHANGED <<store, files, at, tries, ask, faults, alone, owed>>

(* Continue that does not look for a cancellation. *)
ContinueUnchecked(e) ==
  /\ pc[e] = "check"
  /\ UNCHANGED passed
  /\ Advance(e)
  /\ UNCHANGED <<store, files, tries, ask, faults, alone, owed>>

Continue(e) ==
  /\ pc[e] = "check"
  /\ ~cancelled
  /\ UNCHANGED passed
  /\ Advance(e)
  /\ UNCHANGED <<store, files, tries, ask, faults, alone, owed>>
-----------------------------------------------------------------------------
(* _finalize_delivery. *)
Package(e) ==
  /\ pc[e] = "package"
  /\ state' = "PACKAGING"
  /\ Go(e, "unlink")
  /\ UNCHANGED <<cancelled, summary, files, local, ask, faults, alone, owed>>

(* Unlink that leaves the receipt of an earlier execution. *)
UnlinkNothing(e) ==
  /\ pc[e] = "unlink"
  /\ Go(e, "manifest")
  /\ UNCHANGED <<store, files, local, ask, faults, alone, owed>>

Unlink(e) ==
  /\ pc[e] = "unlink"
  /\ receipt' = Nobody
  /\ Go(e, "manifest")
  /\ UNCHANGED <<store, request, manifest, zip, local, ask, faults, alone, owed>>

(* quality report, run manifest and checksums of one attempt. *)
Manifest(e) ==
  /\ pc[e] = "manifest"
  /\ manifest' = [by |-> e, says |-> FinalState(e)]
  /\ tries' = [tries EXCEPT ![e] = @ + 1]
  /\ Go(e, "zip")
  /\ UNCHANGED <<store, request, zip, receipt, at, passed, ask, faults, alone, owed>>

ZipValid(e) ==
  /\ pc[e] = "zip"
  /\ zip' = [by |-> e, valid |-> TRUE]
  /\ Go(e, "receipt")
  /\ UNCHANGED <<store, request, manifest, receipt, local, ask, faults, alone, owed>>

(* Errors, or an exception that is turned into one: the run is demoted and *)
(* the whole attempt is repeated once.                                     *)
ZipInvalid(e) ==
  /\ pc[e] = "zip"
  /\ \E left \in {e, Nobody} : zip' = [by |-> left, valid |-> FALSE]
  /\ passed' = [passed EXCEPT ![e] = FALSE]
  /\ Go(e, IF tries[e] < 2 THEN "manifest" ELSE "receipt")
  /\ UNCHANGED <<store, request, manifest, receipt, at, tries, ask, faults, alone, owed>>

(* Receipt that is removed after it was written. *)
ReceiptRemoved(e) ==
  /\ pc[e] = "receipt"
  /\ receipt' = Nobody
  /\ Go(e, "summary")
  /\ UNCHANGED <<store, request, manifest, zip, local, ask, faults, alone, owed>>

Receipt(e) ==
  /\ pc[e] = "receipt"
  /\ receipt' = IF passed[e] THEN e ELSE Nobody
  /\ Go(e, "summary")
  /\ UNCHANGED <<store, request, manifest, zip, local, ask, faults, alone, owed>>

Summary(e) ==
  /\ pc[e] = "summary"
  /\ summary' = FinalState(e)
  /\ Go(e, "deliver")
  /\ UNCHANGED <<state, cancelled, files, local, ask, faults, alone, owed>>

Deliver(e) ==
  /\ pc[e] = "deliver"
  /\ state' = FinalState(e)
  /\ Go(e, "event")
  /\ UNCHANGED <<cancelled, summary, files, local, ask, faults, alone, owed>>

(* record_event, still inside the failure boundary. *)
Report(e) ==
  /\ pc[e] = "event"
  /\ Go(e, "done")
  /\ UNCHANGED <<store, files, local, ask, faults, alone, owed>>
-----------------------------------------------------------------------------
Fault == faults < MaxFaults /\ faults' = faults + 1

(* _run_with_failure_boundary: an exception of a stage, of a file write or *)
(* of the store.                                                           *)
Raise(e) ==
  /\ pc[e] \in {"begin", "enter", "work", "check"} \cup (Finalizing \ {"zip", "done"})
  /\ Fault
  /\ Go(e, "raised")
  /\ UNCHANGED <<store, files, local, ask, alone, owed>>

(* An exception outside the boundary (run_request.json) or in the handlers *)
(* themselves (save_failure and failure.json come before FAILED) reaches   *)
(* the caller and leaves the state as it is.                               *)
Escape(e) ==
  /\ pc[e] \in {"request", "raised", "cancelmark"}
  /\ Fault
  /\ Go(e, "escaped")
  /\ UNCHANGED <<store, files, local, ask, alone, owed>>

MarkFailed(e) ==
  /\ pc[e] = "raised"
  /\ state' = "FAILED"
  /\ Go(e, "failsummary")
  /\ UNCHANGED <<cancelled, summary, files, local, ask, faults, alone, owed>>

FailSummary(e) ==
  /\ pc[e] = "failsummary"
  /\ summary' = "FAILED"
  /\ Go(e, "failed")
  /\ UNCHANGED <<state, cancelled, files, local, ask, faults, alone, owed>>

(* SeeCancelled that leaves CANCELLED to the canceller. *)
SeeCancelledUnmarked(e) ==
  /\ pc[e] = "stopped"
  /\ Go(e, "cancelsummary")
  /\ UNCHANGED <<store, files, local, ask, faults, alone, owed>>

(* RunCancelledError: CANCELLED is written unless it is the latest state.  *)
SeeCancelled(e) ==
  /\ pc[e] = "stopped"
  /\ Go(e, IF state = "CANCELLED" THEN "cancelsummary" ELSE "cancelmark")
  /\ UNCHANGED <<store, files, local, ask, faults, alone, owed>>

MarkCancelled(e) ==
  /\ pc[e] = "cancelmark"
  /\ state' = "CANCELLED"
  /\ Go(e, "cancelsummary")
  /\ UNCHANGED <<cancelled, summary, files, local, ask, faults, alone, owed>>

CancelSummary(e) ==
  /\ pc[e] = "cancelsummary"
  /\ summary' = "CANCELLED"
  /\ Go(e, "cancelled")
  /\ UNCHANGED <<state, cancelled, files, local, ask, faults, alone, owed>>

(* The process of an execution dies. *)
Crash(e) ==
  /\ Working(e)
  /\ Fault
  /\ Go(e, "crashed")
  /\ UNCHANGED <<store, files, local, ask, alone, owed>>
-----------------------------------------------------------------------------
(* request_cancel: read the latest state, insert the row, append CANCELLED. *)
AskCancel(c) ==
  /\ ask[c] = "idle"
  /\ ask' = [ask EXCEPT ![c] = IF state \in Terminal THEN "refused" ELSE "insert"]
  /\ UNCHANGED <<store, files, pc, local, faults, alone, owed>>

InsertCancel(c) ==
  /\ ask[c] = "insert"
  /\ cancelled' = TRUE
  /\ owed' = {e \in Executions : Working(e) /\ pc[e] \notin Finalizing}
  /\ ask' = [ask EXCEPT ![c] = "mark"]
  /\ UNCHANGED <<state, summary, files, pc, local, faults, alone>>

MarkCancel(c) ==
  /\ ask[c] = "mark"
  /\ state' = "CANCELLED"
  /\ ask' = [ask EXCEPT ![c] = "accepted"]
  /\ UNCHANGED <<cancelled, summary, files, pc, local, faults, alone, owed>>
-----------------------------------------------------------------------------
Launch(e) == (e = First /\ Run) \/ (e # First /\ (Resume(e) \/ Refuse(e)))

Proceed(e) ==
  \/ ClearCancel(e) \/ Again(e) \/ Request(e) \/ Stopped(e) \/ Begin(e)
  \/ Enter(e) \/ Work(e) \/ WorkChecked(e) \/ Continue(e)
  \/ Package(e) \/ Unlink(e) \/ Manifest(e) \/ ZipValid(e) \/ ZipInvalid(e)
  \/ Receipt(e) \/ Summary(e) \/ Deliver(e) \/ Report(e)
  \/ Raise(e) \/ Escape(e) \/ MarkFailed(e) \/ FailSummary(e)
  \/ SeeCancelled(e) \/ MarkCancelled(e) \/ CancelSummary(e)

Cancel(c) == AskCancel(c) \/ InsertCancel(c) \/ MarkCancel(c)

Next ==
  \/ \E e \in Executions : Launch(e) \/ Proceed(e) \/ Crash(e)
  \/ \E c \in Cancellers : Cancel(c)

Spec == Init /\ [][Next]_vars

(* A thread that has begun an execution or a cancellation keeps running.   *)
FairSpec ==
  /\ Spec
  /\ \A e \in Executions : WF_vars(Proceed(e))
  /\ \A c \in Cancellers : WF_vars(InsertCancel(c)) /\ WF_vars(MarkCancel(c))
  /\ WF_vars(Run)
-----------------------------------------------------------------------------
Labels ==
  Ended \cup Finalizing \cup
  {"idle", "clear", "again", "request", "begin", "enter", "work", "check", "stopped",
   "cancelmark", "cancelsummary", "raised", "failsummary"}

Writers == Executions \cup {Nobody}

TypeOK ==
  /\ state \in Stages \cup Terminal \cup {"none", "RECEIVED", "PACKAGING"}
  /\ cancelled \in BOOLEAN /\ request \in BOOLEAN
  /\ summary \in Terminal \cup {"none"}
  /\ manifest \in [by : Writers, says : {"none", "DELIVERED", "NEEDS_ATTENTION"}]
  /\ zip \in [by : Writers, valid : BOOLEAN]
  /\ receipt \in Writers
  /\ pc \in [Executions -> Labels]
  /\ at \in [Executions -> Stages]
  /\ passed \in [Executions -> BOOLEAN]
  /\ tries \in [Executions -> 0..2]
  /\ ask \in [Cancellers -> {"idle", "refused", "insert", "mark", "accepted"}]
  /\ faults \in 0..MaxFaults
  /\ alone \in BOOLEAN
  /\ owed \subseteq Executions

(* A receipt on disk vouches for the ZIP and the manifest on disk: one     *)
(* execution wrote all three, the ZIP validates and the manifest says      *)
(* delivered, whatever crashed or failed since (_finalize_delivery removes *)
(* the receipt before it touches the bundle).                              *)
ReceiptMatchesBundle ==
  alone /\ receipt # Nobody =>
    /\ zip = [by |-> receipt, valid |-> TRUE]
    /\ manifest = [by |-> receipt, says |-> "DELIVERED"]

(* The durable state says delivered only with a receipt on disk, and needs *)
(* attention only without one; the summary agrees.                         *)
FinalStateMatchesReceipt ==
  alone =>
    /\ state = "DELIVERED" => receipt # Nobody /\ summary = "DELIVERED"
    /\ state = "NEEDS_ATTENTION" => receipt = Nobody /\ summary = "NEEDS_ATTENTION"

(* An execution that was still before its last cancellation check when the *)
(* cancellation was stored is not finalized, unless a resume took the      *)
(* cancellation back.                                                      *)
StoredCancelStops == \A e \in owed : pc[e] \notin Finalizing

Quiet ==
  /\ \A e \in Executions : ~Working(e)
  /\ \A c \in Cancellers : ask[c] \notin {"insert", "mark"}

(* An execution that ended without a word to the store. *)
Unrecorded == \E e \in Executions : pc[e] \in {"crashed", "escaped"}

(* When nobody is at work any more and every execution could record how it *)
(* ended, the run is in a terminal state; the summary differs from it only *)
(* by a cancellation that was written last.                                *)
QuietRunIsTerminal ==
  Quiet /\ ~Unrecorded /\ pc[First] # "idle" =>
    /\ state \in Terminal
    /\ alone => summary = state \/ state = "CANCELLED"

(* The run comes to a terminal state, whatever executions overlap.         *)
RunSettles == <>[](~Unrecorded => state \in Terminal)

(* A stored cancellation ends the executions it must stop before they are  *)
(* done, unless a resume takes it back.                                    *)
CancelTakesEffect ==
  \A e \in Executions : e \in owed ~> e \notin owed \/ pc[e] \in Ended \ {"done"}

(* docs/implementation-log.md:413, "cancellation is terminal before        *)
(* delivery": a run whose latest state is cancelled is not delivered by    *)
(* the next transition.                                                    *)
(* The code does not keep it: README, section 5.                           *)
CancelledIsNotDelivered == [][state = "CANCELLED" => state' # "DELIVERED"]_vars
=============================================================================
