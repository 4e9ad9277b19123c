--------------------------- MODULE RepoTransaction ---------------------------
(***************************************************************************)
(* RepositoryWorkflow.apply of a prepared change set (approval, then the    *)
(* fingerprint of git status) and TransactionalRepoEditor.apply under it:  *)
(* preflight, staging, recheck, deletions, replacements, verification, and *)
(* the rollback of what was replaced.  The file system fails, somebody     *)
(* else writes to the files, and the process dies: there is no journal,    *)
(* all that is left is to apply the change set again.  The bytes and the   *)
(* mode of a file are one value.                                           *)
(***************************************************************************)
EXTENDS Naturals, Sequences

CONSTANTS
  Edits,        \* number of edits; edit i is about file i
  MaxFaults,    \* bound: file operations that fail, and crashes
  MaxWrites     \* bound: writes of somebody else

Files == 1..Edits
Kinds == {"create", "modify", "delete"}

ASSUME RepoAssumption == Edits \in Nat \ {0} /\ MaxFaults \in Nat /\ MaxWrites \in Nat

VARIABLES
  kind,         \* what each edit is, by its content, delete and expected_sha256
  disk,         \* the files
  phase,        \* where apply stands
  todo,         \* files the loop of the phase has not come to
  backup,       \* current bytes and mode, as read by the preflight
  errors,       \* the preflight found an error
  replaced,     \* replaced, in order
  bound,        \* _rollback has assigned rollback_path
  unrestored,   \* rollback_errors is not empty
  faults, writes,
  foreign,      \* history: files somebody else wrote to
  early,        \* history: files changed after prepare and before the recheck
  lost          \* history: files whose foreign bytes apply overwrote

report == <<errors, replaced, bound, unrestored>>
outside == <<writes, foreign, early>>
repoVars == <<kind, disk, phase, todo, backup, report, faults, outside, lost>>

Before(i) == IF kind[i] = "create" THEN "absent" ELSE "old"

After(i) == IF kind[i] = "delete" THEN "absent" ELSE "new"

First(i) == i \in todo /\ \A j \in todo : i <= j
Deletions == {i \in Files : kind[i] = "delete"}
Returned == phase \in {"committed", "rejected", "failed"}

(* except Exception: the files that were replaced are rolled back. *)
Abort == phase' = "rollback" /\ todo' = {}

(* The loop goes on with the next file, or the next loop starts. *)
Loop(i, next, files) ==
  IF todo = {i} THEN phase' = next /\ todo' = files
                ELSE phase' = phase /\ todo' = todo \ {i}
-----------------------------------------------------------------------------
(* prepare: the edits are for files that are as they say. *)
RepoInit ==
  /\ kind \in [Files -> Kinds]
  /\ disk = [i \in Files |-> Before(i)]
  /\ phase = "prepared" /\ todo = Files
  /\ backup = [i \in Files |-> "absent"]
  /\ errors = FALSE /\ replaced = <<>> /\ bound = FALSE /\ unrestored = FALSE
  /\ faults = 0 /\ writes = 0
  /\ foreign = {} /\ early = {} /\ lost = {}

Changed == {i \in Files : disk[i] # Before(i)}

(* RepositoryWorkflow.apply.  The fingerprint covers the lines of git      *)
(* status, not the bytes: a change of a file that was listed already is    *)
(* not seen, nor is any outside a git worktree.  After a crash the change  *)
(* set is applied again by a new process, with nothing but the files.      *)
Apply ==
  /\ phase \in {"prepared", "crashed"}
  /\ \E approved \in BOOLEAN, listed \in SUBSET Files :
       phase' = IF approved /\ Changed \subseteq listed THEN "preflight" ELSE "rejected"
  /\ todo' = Files
  /\ backup' = [i \in Files |-> "absent"]
  /\ errors' = FALSE /\ replaced' = <<>> /\ bound' = FALSE /\ unrestored' = FALSE
  /\ foreign' = foreign \cup Changed /\ early' = Changed /\ lost' = {}
  /\ UNCHANGED <<kind, disk, faults, writes>>

(* A file that exists needs its hash, a new one must not be there; an edit *)
(* may also be rejected for its path or its content.                       *)
Preflight(i) ==
  /\ phase = "preflight" /\ First(i)
  /\ backup' = [backup EXCEPT ![i] = disk[i]]
  /\ \E improper \in BOOLEAN : errors' = (errors \/ improper \/ disk[i] # Before(i))
  /\ IF todo = {i}
       THEN /\ phase' = IF errors' THEN "rejected" ELSE "stage"
            /\ todo' = IF errors' THEN {} ELSE Files \ Deletions
       ELSE phase' = phase /\ todo' = todo \ {i}
  /\ UNCHANGED <<kind, disk, replaced, bound, unrestored, faults, outside, lost>>

Stage(i) ==
  /\ phase = "stage" /\ First(i)
  /\ todo' = todo \ {i}
  /\ UNCHANGED <<kind, disk, phase, backup, report, faults, outside, lost>>

StageFails ==
  /\ phase = "stage" /\ todo # {}
  /\ faults < MaxFaults /\ faults' = faults + 1
  /\ Abort
  /\ UNCHANGED <<kind, disk, backup, report, outside, lost>>

Staged ==
  /\ phase = "stage" /\ todo = {}
  /\ phase' = "verify" /\ todo' = Files
  /\ UNCHANGED <<kind, disk, backup, report, faults, outside, lost>>

(* Verify that looks at the files that existed only. *)
VerifyExisting(i) ==
  /\ phase = "verify" /\ First(i)
  /\ IF disk[i] # backup[i] /\ kind[i] # "create" THEN Abort ELSE Loop(i, "delete", Deletions)
  /\ UNCHANGED <<kind, disk, backup, report, faults, outside, lost>>

(* _verify_live_targets *)
Verify(i) ==
  /\ phase = "verify" /\ First(i)
  /\ IF disk[i] # backup[i] THEN Abort ELSE Loop(i, "delete", Deletions)
  /\ UNCHANGED <<kind, disk, backup, report, faults, outside, lost>>

Overwrite(i, value) ==
  /\ disk' = [disk EXCEPT ![i] = value]
  /\ lost' = IF disk[i] = "other" THEN lost \cup {i} ELSE lost

(* Change that notes the file after its directory was synced. *)
ChangeNotedLate(i) ==
  /\ Overwrite(i, After(i))
  /\ \/ replaced' = Append(replaced, i) /\ Loop(i, phase, {}) /\ UNCHANGED faults
     \/ faults < MaxFaults /\ faults' = faults + 1 /\ Abort /\ UNCHANGED replaced

(* A deletion or replacement, noted in replaced before the directory is    *)
(* synced, which may fail.                                                 *)
Change(i) ==
  /\ Overwrite(i, After(i))
  /\ replaced' = Append(replaced, i)
  /\ \/ Loop(i, phase, {}) /\ UNCHANGED faults
     \/ faults < MaxFaults /\ faults' = faults + 1 /\ Abort

Delete(i) ==
  /\ phase = "delete" /\ First(i)
  /\ Change(i)
  /\ UNCHANGED <<kind, backup, errors, bound, unrestored, outside>>

Deleted ==
  /\ phase = "delete" /\ todo = {}
  /\ phase' = "replace" /\ todo' = Files \ Deletions
  /\ UNCHANGED <<kind, disk, backup, report, faults, outside, lost>>

Replace(i) ==
  /\ phase = "replace" /\ First(i)
  /\ Change(i)
  /\ UNCHANGED <<kind, backup, errors, bound, unrestored, outside>>

(* unlink or os.replace itself fails. *)
ChangeFails ==
  /\ phase \in {"delete", "replace"} /\ todo # {}
  /\ faults < MaxFaults /\ faults' = faults + 1
  /\ Abort
  /\ UNCHANGED <<kind, disk, backup, report, outside, lost>>

Replaced ==
  /\ phase = "replace" /\ todo = {}
  /\ phase' = "check" /\ todo' = Files
  /\ UNCHANGED <<kind, disk, backup, report, faults, outside, lost>>

Check(i) ==
  /\ phase = "check" /\ First(i)
  /\ IF disk[i] # After(i) THEN Abort ELSE Loop(i, "committed", {})
  /\ UNCHANGED <<kind, disk, backup, report, faults, outside, lost>>
-----------------------------------------------------------------------------
(* _rollback goes through replaced backwards.  A file that did not exist   *)
(* is removed, and the finally of its round reads rollback_path, which     *)
(* only a round with an existing file assigns.                             *)
Last == replaced[Len(replaced)]
Rest == SubSeq(replaced, 1, Len(replaced) - 1)

RemoveNew ==
  /\ phase = "rollback" /\ replaced # <<>> /\ backup[Last] = "absent"
  /\ \/ Overwrite(Last, "absent") /\ UNCHANGED <<unrestored, faults>>
     \/ /\ faults < MaxFaults /\ faults' = faults + 1
        /\ unrestored' = TRUE
        /\ Overwrite(Last, "absent") \/ UNCHANGED <<disk, lost>>
  /\ replaced' = Rest
  /\ phase' = IF bound THEN phase ELSE "escaped"
  /\ UNCHANGED <<kind, todo, backup, errors, bound, outside>>

Restore ==
  /\ phase = "rollback" /\ replaced # <<>> /\ backup[Last] # "absent"
  /\ \/ Overwrite(Last, backup[Last]) /\ UNCHANGED <<unrestored, faults>>
     \/ /\ faults < MaxFaults /\ faults' = faults + 1
        /\ unrestored' = TRUE
        /\ Overwrite(Last, backup[Last]) \/ UNCHANGED <<disk, lost>>
  /\ replaced' = Rest
  /\ bound' = TRUE
  /\ UNCHANGED <<kind, phase, todo, backup, errors, outside>>

RolledBack ==
  /\ phase = "rollback" /\ replaced = <<>>
  /\ phase' = "failed"
  /\ UNCHANGED <<kind, disk, todo, backup, report, faults, outside, lost>>

(* The process is killed between two operations. *)
Crash ==
  /\ phase \in {"preflight", "stage", "verify", "delete", "replace", "check", "rollback"}
  /\ faults < MaxFaults /\ faults' = faults + 1
  /\ phase' = "crashed"
  /\ UNCHANGED <<kind, disk, todo, backup, report, outside, lost>>
-----------------------------------------------------------------------------
(* Somebody else saves a file. *)
ForeignWrite(i) ==
  /\ writes < MaxWrites /\ writes' = writes + 1
  /\ ~Returned /\ phase # "escaped"
  /\ disk' = [disk EXCEPT ![i] = "other"]
  /\ foreign' = foreign \cup {i}
  /\ early' = IF \/ phase \in {"prepared", "preflight", "stage"}
                 \/ phase = "verify" /\ i \in todo
               THEN early \cup {i} ELSE early
  /\ UNCHANGED <<kind, phase, todo, backup, report, faults, lost>>

RepoNext ==
  \/ \E i \in Files :
       \/ Preflight(i) \/ Stage(i) \/ Verify(i) \/ Delete(i) \/ Replace(i) \/ Check(i)
       \/ ForeignWrite(i)
  \/ Apply \/ Crash \/ StageFails \/ Staged \/ Deleted \/ ChangeFails \/ Replaced
  \/ RemoveNew \/ Restore \/ RolledBack

RepoSpec == RepoInit /\ [][RepoNext]_repoVars
-----------------------------------------------------------------------------
Contents == {"absent", "old", "new", "other"}

RepoTypeOK ==
  /\ kind \in [Files -> Kinds]
  /\ disk \in [Files -> Contents] /\ backup \in [Files -> Contents]
  /\ phase \in {"prepared", "preflight", "stage", "verify", "delete", "replace", "check",
                "rollback", "committed", "rejected", "failed", "escaped", "crashed"}
  /\ todo \subseteq Files
  /\ errors \in BOOLEAN /\ bound \in BOOLEAN /\ unrestored \in BOOLEAN
  /\ replaced \in Seq(Files)
  /\ faults \in 0..MaxFaults /\ writes \in 0..MaxWrites
  /\ foreign \subseteq Files /\ early \subseteq foreign /\ lost \subseteq foreign

(* A committed transaction has done every edit, a failed one that reports  *)
(* no rollback error has undone every edit, and nothing in between.        *)
AllOrNothing ==
  \A i \in Files \ foreign :
    /\ phase = "committed" => disk[i] = After(i)
    /\ phase \in {"rejected", "failed"} /\ ~unrestored => disk[i] = Before(i)

(* A file that is not as the edits were prepared for, because somebody     *)
(* wrote to it before its recheck or because an application that crashed   *)
(* left it changed, stops the transaction before it touches any file: the  *)
(* fingerprint may miss it, a second application never goes on from half.  *)
EarlyChangeStops == early # {} => replaced = <<>> /\ lost = {} /\ phase # "committed"

(* README.md:127, "stale or failed transactions are rejected or rolled     *)
(* back with a structured report"; of an error inside the rollback,        *)
(* docs/reviews/2026-07-14-tranche-p-disposition.md:14 says it is closed.  *)
EscapedIsRolledBack ==
  phase = "escaped" => \A i \in Files \ foreign : disk[i] = Before(i)
=============================================================================
