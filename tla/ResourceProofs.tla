--------------------------- MODULE ResourceProofs ---------------------------
(***************************************************************************)
(* Proofs about the two resources a run shares with others: the files of a *)
(* repository (RepoTransaction, for any number of edits, failures and      *)
(* foreign writes) and the calls of a subscription (SubscriptionCapacity,  *)
(* for every number of attempts, calls and processes and every limit).     *)
(***************************************************************************)
EXTENDS RepoTransaction, SubscriptionCapacity, FiniteSetTheorems, TLAPS


Ran(s) == {s[k] : k \in DOMAIN s}

(* The elements of a sequence with one more at its end. *)
LEMMA RanAppend ==
  ASSUME NEW S, NEW s \in Seq(S), NEW x \in S
  PROVE  Append(s, x) \in Seq(S) /\ Ran(Append(s, x)) = Ran(s) \cup {x}
<1>1. /\ Append(s, x) \in Seq(S) /\ Len(s) \in Nat
      /\ DOMAIN s = 1..Len(s) /\ DOMAIN Append(s, x) = 1..(Len(s) + 1)
  OBVIOUS
<1>2. Append(s, x)[Len(s) + 1] = x /\ \A k \in 1..Len(s) : Append(s, x)[k] = s[k]
  OBVIOUS
<1>3. 1..(Len(s) + 1) = 1..Len(s) \cup {Len(s) + 1} /\ Len(s) + 1 \notin 1..Len(s)
  BY <1>1
<1>4. Ran(Append(s, x)) \subseteq Ran(s) \cup {x}
  BY <1>1, <1>2, <1>3 DEF Ran
<1>5. Ran(s) \cup {x} \subseteq Ran(Append(s, x))
  BY <1>1, <1>2, <1>3 DEF Ran
<1> QED
  BY <1>1, <1>4, <1>5

(* The elements of a sequence without its last. *)
LEMMA RanRest ==
  ASSUME NEW S, NEW s \in Seq(S), s # <<>>
  PROVE  /\ s[Len(s)] \in S
         /\ SubSeq(s, 1, Len(s) - 1) \in Seq(S)
         /\ Ran(s) \subseteq Ran(SubSeq(s, 1, Len(s) - 1)) \cup {s[Len(s)]}
<1>1. Len(s) \in Nat /\ Len(s) > 0 /\ DOMAIN s = 1..Len(s)
  OBVIOUS
<1>2. s[Len(s)] \in S
  BY <1>1
<1>3. /\ SubSeq(s, 1, Len(s) - 1) \in Seq(S)
      /\ Len(SubSeq(s, 1, Len(s) - 1)) = Len(s) - 1
      /\ \A k \in 1..(Len(s) - 1) : SubSeq(s, 1, Len(s) - 1)[k] = s[k]
  BY <1>1
<1>4. ASSUME NEW k \in DOMAIN s, k # Len(s) PROVE s[k] \in Ran(SubSeq(s, 1, Len(s) - 1))
  <2>1. k \in 1..(Len(s) - 1) /\ DOMAIN SubSeq(s, 1, Len(s) - 1) = 1..(Len(s) - 1)
    BY <1>1, <1>3, <1>4
  <2> QED
    BY <1>3, <2>1 DEF Ran
<1> QED
  BY <1>2, <1>3, <1>4 DEF Ran

(* After the preflight the backups are what the edits were prepared for.   *)
BackupIsBefore ==
  /\ phase = "preflight" /\ ~errors => \A i \in Files \ todo : backup[i] = Before(i)
  /\ phase \notin {"prepared", "crashed", "preflight", "rejected"} =>
       \A i \in Files : backup[i] = Before(i)

(* What somebody else wrote is where somebody else wrote. *)
OtherIsForeign == \A i \in Files : disk[i] = "other" => i \in foreign

(* A file differs from what it was only while it is in replaced.           *)
ChangedIsNoted ==
  phase \notin {"committed", "escaped"} /\ ~unrestored =>
    \A i \in Files \ foreign : disk[i] # Before(i) => i \in Ran(replaced)

(* What the last loop has passed is as asked. *)
CheckedIsAfter ==
  \A i \in Files \ foreign :
    phase = "committed" \/ (phase = "check" /\ i \notin todo) => disk[i] = After(i)

NothingYet ==
  /\ phase \in {"prepared", "preflight", "rejected", "stage", "verify"} =>
       replaced = <<>> /\ lost = {}
  /\ phase = "failed" => replaced = <<>>

(* An early change is on the disk until the recheck gets there, and then   *)
(* there was nothing to roll back.                                         *)
EarlyIsSeen ==
  early # {} =>
    /\ phase \in {"prepared", "preflight", "rejected", "stage", "verify", "rollback", "failed",
                  "crashed"}
    /\ replaced = <<>> /\ lost = {}
    /\ \A i \in early : phase \in {"prepared", "preflight", "stage", "verify"} =>
                         disk[i] # Before(i)
    /\ phase = "verify" => early \subseteq todo

TransactionInv ==
  /\ RepoTypeOK
  /\ BackupIsBefore
  /\ OtherIsForeign
  /\ ChangedIsNoted
  /\ CheckedIsAfter
  /\ NothingYet
  /\ EarlyIsSeen

(* The prepared files satisfy the invariant. *)
LEMMA InitTransactionInv == RepoInit => TransactionInv
<1> SUFFICES ASSUME RepoInit PROVE TransactionInv
  OBVIOUS
<1>1. RepoTypeOK
  <2>1. 0 \in 0..MaxFaults /\ 0 \in 0..MaxWrites /\ <<>> \in Seq(Files)
    BY RepoAssumption
  <2>2. disk \in [Files -> Contents] /\ backup \in [Files -> Contents]
    BY DEF RepoInit, Before, Contents
  <2> QED
    BY <2>1, <2>2 DEF RepoInit, RepoTypeOK
<1>2. BackupIsBefore /\ OtherIsForeign /\ ChangedIsNoted /\ CheckedIsAfter /\ NothingYet /\ EarlyIsSeen
  BY DEF RepoInit, Before, BackupIsBefore, OtherIsForeign, ChangedIsNoted, CheckedIsAfter, NothingYet, EarlyIsSeen
<1> QED
  BY <1>1, <1>2 DEF TransactionInv

(* Every step of the transaction and every foreign write keeps it. *)
LEMMA IInvStep == TransactionInv /\ [RepoNext]_repoVars => TransactionInv'
<1> SUFFICES ASSUME TransactionInv, [RepoNext]_repoVars PROVE TransactionInv'
  OBVIOUS
<1> USE RepoAssumption DEF TransactionInv, report, outside
<1>1. ASSUME NEW i \in Files, Preflight(i) PROVE TransactionInv'
  <2>1. RepoTypeOK'
    BY <1>1 DEF Preflight, RepoTypeOK
  <2>2. BackupIsBefore'
    BY <1>1 DEF Preflight, RepoTypeOK, BackupIsBefore, Before, First
  <2>3. OtherIsForeign' /\ ChangedIsNoted' /\ CheckedIsAfter'
    BY <1>1 DEF Preflight, RepoTypeOK, OtherIsForeign, ChangedIsNoted, CheckedIsAfter, Before
  <2>4. NothingYet' /\ EarlyIsSeen'
    BY <1>1 DEF Preflight, RepoTypeOK, NothingYet, EarlyIsSeen, Before
  <2> QED
    BY <2>1, <2>2, <2>3, <2>4
<1>2. ASSUME NEW i \in Files, Stage(i) PROVE TransactionInv'
  BY <1>2 DEF Stage, RepoTypeOK, BackupIsBefore, OtherIsForeign, ChangedIsNoted, CheckedIsAfter, NothingYet, EarlyIsSeen, Before, After
<1>3. CASE StageFails
  BY <1>3 DEF StageFails, Abort, RepoTypeOK, BackupIsBefore, OtherIsForeign, ChangedIsNoted, CheckedIsAfter, NothingYet, EarlyIsSeen, Before, After
<1>4. CASE Staged
  BY <1>4 DEF Staged, RepoTypeOK, BackupIsBefore, OtherIsForeign, ChangedIsNoted, CheckedIsAfter, NothingYet, EarlyIsSeen, Before, After
<1>5. ASSUME NEW i \in Files, Verify(i) PROVE TransactionInv'
  <2>1. RepoTypeOK'
    BY <1>5 DEF Verify, Abort, Loop, RepoTypeOK, Deletions
  <2>2. BackupIsBefore' /\ OtherIsForeign' /\ ChangedIsNoted' /\ CheckedIsAfter' /\ NothingYet'
    BY <1>5 DEF Verify, Abort, Loop, RepoTypeOK, BackupIsBefore, OtherIsForeign, ChangedIsNoted, CheckedIsAfter, NothingYet, Before, After
  <2>3. /\ phase = "verify" /\ i \in todo /\ replaced = <<>> /\ lost = {}
        /\ early' = early /\ replaced' = replaced /\ lost' = lost /\ disk' = disk
    BY <1>5 DEF Verify, First, NothingYet
  <2>4. EarlyIsSeen'
    <3>1. CASE disk[i] # backup[i]
      <4>1. phase' = "rollback"
        BY <1>5, <3>1 DEF Verify, Abort
      <4> QED
        BY <2>3, <4>1 DEF EarlyIsSeen
    <3>2. CASE disk[i] = backup[i]
      <4>1. disk[i] = Before(i)
        BY <2>3, <3>2 DEF BackupIsBefore, Before
      <4>2. i \notin early
        BY <2>3, <4>1 DEF EarlyIsSeen
      <4>3. CASE todo = {i}
        <5>1. early = {}
          BY <2>3, <4>2, <4>3 DEF EarlyIsSeen
        <5> QED
          BY <2>3, <5>1 DEF EarlyIsSeen
      <4>4. CASE todo # {i}
        <5>1. phase' = phase /\ todo' = todo \ {i}
          BY <1>5, <3>2, <4>4 DEF Verify, Loop
        <5>2. \A j \in Files : Before(j)' = Before(j)
          BY <1>5 DEF Verify, Before
        <5>3. early \subseteq Files /\ early \subseteq todo'
          BY <2>3, <4>2, <5>1 DEF EarlyIsSeen, RepoTypeOK
        <5> QED
          BY <2>3, <5>1, <5>2, <5>3 DEF EarlyIsSeen
      <4> QED
        BY <4>3, <4>4
    <3> QED
      BY <3>1, <3>2
  <2> QED
    BY <2>1, <2>2, <2>4
<1>6. ASSUME NEW i \in Files, phase \in {"delete", "replace"}, Change(i),
             UNCHANGED <<kind, backup, errors, bound, unrestored, outside>>
      PROVE  TransactionInv'
  <2>1. replaced' \in Seq(Files) /\ Ran(replaced') = Ran(replaced) \cup {i}
    BY <1>6, RanAppend DEF Change, RepoTypeOK
  <2>2. /\ disk' = [disk EXCEPT ![i] = After(i)] /\ After(i) \in Contents
        /\ phase' \in {phase, "rollback"} /\ todo' \subseteq todo
        /\ faults' \in 0..MaxFaults /\ lost' \subseteq foreign
    <3>1. disk[i] = "other" => i \in foreign
      BY DEF OtherIsForeign
    <3>2. After(i) \in Contents
      BY DEF After, Contents
    <3>3. /\ disk' = [disk EXCEPT ![i] = After(i)]
          /\ lost' = IF disk[i] = "other" THEN lost \cup {i} ELSE lost
          /\ phase' \in {phase, "rollback"} /\ todo' \subseteq todo
          /\ faults' = faults \/ (faults < MaxFaults /\ faults' = faults + 1)
      BY <1>6 DEF Change, Overwrite, Loop, Abort
    <3>4. faults' \in 0..MaxFaults
      BY <3>3 DEF RepoTypeOK
    <3> QED
      BY <3>1, <3>2, <3>3, <3>4 DEF RepoTypeOK
  <2>3. RepoTypeOK'
    BY <1>6, <2>1, <2>2 DEF RepoTypeOK
  <2>4. BackupIsBefore' /\ OtherIsForeign' /\ NothingYet' /\ EarlyIsSeen' /\ CheckedIsAfter'
    BY <1>6, <2>2 DEF OtherIsForeign, RepoTypeOK, After, BackupIsBefore, NothingYet, EarlyIsSeen, CheckedIsAfter, Before
  <2>5. ChangedIsNoted'
    BY <1>6, <2>1, <2>2 DEF ChangedIsNoted, Before, RepoTypeOK
  <2> QED
    BY <2>3, <2>4, <2>5
<1>7. CASE Deleted \/ ChangeFails \/ Replaced
  BY <1>7 DEF Deleted, ChangeFails, Replaced, Abort, Deletions, RepoTypeOK, BackupIsBefore, OtherIsForeign, ChangedIsNoted, CheckedIsAfter, NothingYet, EarlyIsSeen, Before, After
<1>8. ASSUME NEW i \in Files, Check(i) PROVE TransactionInv'
  BY <1>8 DEF Check, Abort, Loop, RepoTypeOK, BackupIsBefore, OtherIsForeign, ChangedIsNoted, CheckedIsAfter, NothingYet, EarlyIsSeen, Before, After
<1>9. ASSUME RemoveNew \/ Restore PROVE TransactionInv'
  <2>1. /\ Last \in Files /\ Rest \in Seq(Files) /\ replaced' = Rest
        /\ Ran(replaced) \subseteq Ran(Rest) \cup {Last}
    BY <1>9, RanRest DEF RemoveNew, Restore, Last, Rest, RepoTypeOK
  <2>2. /\ phase = "rollback" /\ phase' \in {"rollback", "escaped"}
        /\ early = {} /\ backup[Last] = Before(Last)
        /\ UNCHANGED <<kind, todo, backup, errors, outside>>
        /\ faults' \in 0..MaxFaults /\ bound' \in BOOLEAN
    <3>1. /\ phase = "rollback" /\ phase' \in {"rollback", "escaped"} /\ replaced # <<>>
          /\ UNCHANGED <<kind, todo, backup, errors, outside>>
      BY <1>9 DEF RemoveNew, Restore
    <3>2. early = {}
      BY <3>1 DEF EarlyIsSeen
    <3>3. backup[Last] = Before(Last)
      BY <2>1, <3>1 DEF BackupIsBefore
    <3>4. faults' = faults \/ (faults < MaxFaults /\ faults' = faults + 1)
      BY <1>9 DEF RemoveNew, Restore
    <3>5. faults' \in 0..MaxFaults
      BY <3>4 DEF RepoTypeOK
    <3>6. bound' \in BOOLEAN
      BY <1>9 DEF RemoveNew, Restore, RepoTypeOK
    <3> QED
      BY <3>1, <3>2, <3>3, <3>5, <3>6
  <2>3. /\ \/ disk' = [disk EXCEPT ![Last] = Before(Last)]
           \/ disk' = disk /\ unrestored'
        /\ unrestored => unrestored'
        /\ unrestored' \in BOOLEAN
        /\ lost' \in {lost, lost \cup {Last}}
    BY <1>9, <2>2 DEF RemoveNew, Restore, Overwrite, RepoTypeOK
  <2>4. RepoTypeOK'
    <3>1. Before(Last) \in Contents
      BY DEF Before, Contents
    <3>2. disk' \in [Files -> Contents]
      BY <2>1, <2>3, <3>1 DEF RepoTypeOK
    <3>3. lost' \subseteq foreign
      BY <1>9, <2>1 DEF RemoveNew, Restore, Overwrite, OtherIsForeign, RepoTypeOK
    <3> QED
      BY <2>1, <2>2, <2>3, <3>2, <3>3 DEF RepoTypeOK
  <2>5. ChangedIsNoted'
    BY <2>1, <2>2, <2>3 DEF ChangedIsNoted, Before, RepoTypeOK
  <2>6. BackupIsBefore' /\ OtherIsForeign' /\ CheckedIsAfter' /\ NothingYet' /\ EarlyIsSeen'
    BY <2>1, <2>2, <2>3 DEF OtherIsForeign, RepoTypeOK, BackupIsBefore, CheckedIsAfter, NothingYet, EarlyIsSeen, Before
  <2> QED
    BY <2>4, <2>5, <2>6
<1>10. CASE RolledBack
  BY <1>10 DEF RolledBack, RepoTypeOK, BackupIsBefore, OtherIsForeign, ChangedIsNoted, CheckedIsAfter, NothingYet, EarlyIsSeen, Before, After
<1>11. ASSUME NEW i \in Files, ForeignWrite(i) PROVE TransactionInv'
  <2>1. RepoTypeOK'
    BY <1>11 DEF ForeignWrite, RepoTypeOK, Contents
  <2>2. BackupIsBefore' /\ OtherIsForeign' /\ ChangedIsNoted' /\ CheckedIsAfter' /\ NothingYet'
    BY <1>11 DEF ForeignWrite, Returned, RepoTypeOK, BackupIsBefore, OtherIsForeign, ChangedIsNoted, CheckedIsAfter, NothingYet, Before, After
  <2>3. \A j \in Files : Before(j)' = Before(j) /\ Before(j) # "other"
    BY <1>11 DEF ForeignWrite, Before
  <2>4. EarlyIsSeen'
    <3> DEFINE before == \/ phase \in {"prepared", "preflight", "stage"}
                         \/ phase = "verify" /\ i \in todo
    <3>0. /\ disk' = [disk EXCEPT ![i] = "other"]
          /\ UNCHANGED <<phase, todo, replaced, lost>>
          /\ early' = IF before THEN early \cup {i} ELSE early
      BY <1>11 DEF ForeignWrite
    <3>1. early' \in {early, early \cup {i}} /\ (early' # early => before)
      BY <3>0
    <3>2. early \subseteq Files
      BY DEF RepoTypeOK
    <3>3. \A j \in early' : phase' \in {"prepared", "preflight", "stage", "verify"} =>
                            disk'[j] # Before(j)
      BY <2>3, <3>0, <3>1, <3>2 DEF EarlyIsSeen, RepoTypeOK
    <3> QED
      BY <2>3, <3>0, <3>1, <3>2, <3>3 DEF EarlyIsSeen, NothingYet
  <2> QED
    BY <2>1, <2>2, <2>4
<1>13. CASE Apply
  <2>1. /\ phase' \in {"preflight", "rejected"} /\ todo' = Files
        /\ backup' = [i \in Files |-> "absent"] /\ errors' = FALSE
        /\ replaced' = <<>> /\ bound' = FALSE /\ unrestored' = FALSE
        /\ foreign' = foreign \cup Changed /\ early' = Changed /\ lost' = {}
        /\ UNCHANGED <<kind, disk, faults, writes>> /\ Changed \subseteq Files
    BY <1>13 DEF Apply, Changed
  <2>2. RepoTypeOK'
    <3>1. "absent" \in Contents /\ <<>> \in Seq(Files)
      BY DEF Contents
    <3>2. backup' \in [Files -> Contents] /\ replaced' \in Seq(Files)
      BY <2>1, <3>1
    <3>3. /\ foreign' \subseteq Files /\ early' \subseteq foreign' /\ lost' \subseteq foreign'
          /\ todo' \subseteq Files
      BY <2>1 DEF RepoTypeOK
    <3> QED
      BY <2>1, <3>2, <3>3 DEF RepoTypeOK
  <2>3. \A i \in Files : Before(i)' = Before(i)
    BY <2>1 DEF Before
  <2>4. BackupIsBefore' /\ OtherIsForeign' /\ CheckedIsAfter' /\ NothingYet'
    BY <2>1 DEF BackupIsBefore, OtherIsForeign, CheckedIsAfter, NothingYet, RepoTypeOK
  <2>5. ChangedIsNoted' /\ EarlyIsSeen'
    BY <2>1, <2>3 DEF ChangedIsNoted, EarlyIsSeen, Changed
  <2> QED
    BY <2>2, <2>4, <2>5
<1>14. CASE Crash
  <2>1. /\ phase' = "crashed" /\ faults' = faults + 1 /\ faults < MaxFaults
        /\ phase \notin {"committed", "escaped", "rejected", "failed"}
        /\ UNCHANGED <<kind, disk, todo, backup, errors, replaced, bound, unrestored,
                       writes, foreign, early, lost>>
    BY <1>14 DEF Crash
  <2>2. RepoTypeOK'
    BY <2>1 DEF RepoTypeOK
  <2>3. BackupIsBefore' /\ OtherIsForeign' /\ CheckedIsAfter' /\ NothingYet' /\ EarlyIsSeen'
    BY <2>1 DEF BackupIsBefore, OtherIsForeign, CheckedIsAfter, NothingYet, EarlyIsSeen
  <2>4. ChangedIsNoted'
    BY <2>1 DEF ChangedIsNoted, Before
  <2> QED
    BY <2>2, <2>3, <2>4
<1>12. CASE UNCHANGED repoVars
  BY <1>12 DEF repoVars, RepoTypeOK, BackupIsBefore, OtherIsForeign, ChangedIsNoted, CheckedIsAfter, NothingYet, EarlyIsSeen, Before, After
<1> QED
  BY <1>1, <1>2, <1>3, <1>4, <1>5, <1>6, <1>7, <1>8, <1>9, <1>10, <1>11, <1>12, <1>13, <1>14 DEF RepoNext, Delete, Replace

(* The invariant holds in every reachable state. *)
THEOREM TransactionInvariant == RepoSpec => []TransactionInv
<1> QED
  BY InitTransactionInv, IInvStep, PTL DEF RepoSpec

(* Type correctness of the files, the backups and the report. *)
THEOREM TransactionTypes == RepoSpec => []RepoTypeOK
<1>1. TransactionInv => RepoTypeOK
  BY DEF TransactionInv
<1> QED
  BY <1>1, TransactionInvariant, PTL

(* For any number of edits, failures and foreign writes: done as a whole,  *)
(* or undone as a whole unless the report has a rollback error.            *)
THEOREM Atomicity == RepoSpec => []AllOrNothing
<1>1. TransactionInv => AllOrNothing
  BY DEF TransactionInv, AllOrNothing, ChangedIsNoted, CheckedIsAfter, NothingYet, Ran
<1> QED
  BY <1>1, TransactionInvariant, PTL

(* What somebody wrote before the recheck survives, and stops the rest.    *)
THEOREM EarlyChanges == RepoSpec => []EarlyChangeStops
<1>1. TransactionInv => EarlyChangeStops
  BY DEF TransactionInv, EarlyIsSeen, EarlyChangeStops
<1> QED
  BY <1>1, TransactionInvariant, PTL
-----------------------------------------------------------------------------
(* SubscriptionCapacity. *)


(* A broker knows only the call its own attempt is at, and marks it only   *)
(* between the two parts of commit.                                        *)
Held(a, b, k) ==
  /\ <<a, k>> \in reserved[b] =>
       /\ b = BrokerOf[a] /\ k = n[a]
       /\ pc[a] \in {"register", "transport", "commit", "settle", "fail"}
  /\ <<a, k>> \in marked[b] => b = BrokerOf[a] /\ k = n[a] /\ pc[a] = "settle"

HoldInv == \A a \in Attempts, b \in Brokers, k \in 1..MaxCalls : Held(a, b, k)

(* Who is between the SELECT and the upsert has the lock, and in one       *)
(* process nobody moves the counter meanwhile.                             *)
LockInv ==
  \A a \in Attempts :
    /\ pc[a] = "reserve" <=> lock[BrokerOf[a]] = a
    /\ OneBroker /\ pc[a] = "reserve" => seen[a] = used

(* No call is known to the history before its reservation. *)
FreshInv ==
  \A a \in Attempts, k \in 1..MaxCalls :
    <<a, k>> \in billed \cup open => k <= n[a] /\ (k = n[a] => pc[a] \notin {"call", "reserve"})

(* Until the first timeout or failed record, a call is open up to its      *)
(* commit and then marked until it is released.                            *)
Timely(a) ==
  /\ active[a] /\ due[a] = {}
  /\ pc[a] = "settle" => This(a) \in marked[BrokerOf[a]]
  /\ pc[a] \in {"register", "transport", "commit", "fail"} => This(a) \in open \ billed

TimelyInv == timely => \A a \in Attempts : Timely(a)

CountInv == NeverOvercounted /\ ExactWhileTimely

IInv == TypeOK /\ HoldInv /\ LockInv /\ FreshInv /\ TimelyInv /\ CountInv
-----------------------------------------------------------------------------
(* What the history counts is finite. *)
LEMMA HistoryFinite ==
  ASSUME CapacityAssumption, TypeOK
  PROVE  IsFiniteSet(billed \cup open) /\ Cardinality(billed \cup open) \in Nat
<1>1. IsFiniteSet(1..MaxCalls)
  BY FS_Interval DEF CapacityAssumption
<1>2. IsFiniteSet(Calls)
  BY <1>1, FS_Product DEF Calls, CapacityAssumption
<1>3. IsFiniteSet(billed \cup open)
  BY <1>2, FS_Subset DEF TypeOK
<1> QED
  BY <1>3, FS_CardinalityType

(* A release only takes away from a broker, and lowers the counter by one  *)
(* at most.                                                                *)
LEMMA ReleaseEffect ==
  ASSUME CapacityAssumption, TypeOK, NEW a \in Attempts, NEW call, Release(a, call)
  PROVE  /\ lock[BrokerOf[a]] = Nobody
         /\ reserved' \in [Brokers -> SUBSET Calls] /\ marked' \in [Brokers -> SUBSET Calls]
         /\ \A b \in Brokers :
              /\ reserved'[b] = IF b = BrokerOf[a] THEN reserved[b] \ {call} ELSE reserved[b]
              /\ marked'[b] = IF b = BrokerOf[a] THEN marked[b] \ {call} ELSE marked[b]
         /\ used' \in 0..Limit /\ used' <= used
         /\ call \in marked[BrokerOf[a]] => used' = used
         /\ call \notin marked[BrokerOf[a]] => used' = IF used > 0 THEN used - 1 ELSE 0
<1> DEFINE b == BrokerOf[a]
<1>1. b \in Brokers /\ used \in Nat /\ Limit \in Nat /\ used <= Limit
  BY DEF CapacityAssumption, TypeOK
<1>2. /\ used' = IF call \in marked[b] THEN used ELSE IF used > 0 THEN used - 1 ELSE 0
      /\ reserved' = [reserved EXCEPT ![b] = @ \ {call}]
      /\ marked' = [marked EXCEPT ![b] = @ \ {call}]
      /\ lock[b] = Nobody
  BY DEF Release, Free
<1>3. used' \in 0..Limit /\ used' <= used
  BY <1>1, <1>2
<1>4. /\ reserved' \in [Brokers -> SUBSET Calls] /\ marked' \in [Brokers -> SUBSET Calls]
      /\ \A x \in Brokers :
           /\ reserved'[x] = IF x = b THEN reserved[x] \ {call} ELSE reserved[x]
           /\ marked'[x] = IF x = b THEN marked[x] \ {call} ELSE marked[x]
  BY <1>1, <1>2 DEF TypeOK
<1> QED
  BY <1>2, <1>3, <1>4

(* The initial state has the types and every strengthening. *)
LEMMA InitIInv == ASSUME CapacityAssumption, Init PROVE IInv
<1>1. TypeOK
  BY DEF CapacityAssumption, Init, TypeOK
<1>2. HoldInv /\ LockInv /\ FreshInv /\ TimelyInv
  BY DEF CapacityAssumption, Init, HoldInv, Held, LockInv, FreshInv, TimelyInv, Timely
<1>3. CountInv
  BY FS_EmptySet DEF Init, CountInv, NeverOvercounted, ExactWhileTimely
<1> QED
  BY <1>1, <1>2, <1>3 DEF IInv

(* Every step keeps the types. *)
LEMMA TypeStep == ASSUME CapacityAssumption, IInv, [Next]_vars PROVE TypeOK'
<1> USE DEF IInv, counter, broker, guard, history
<1>1. ASSUME NEW a \in Attempts, Step(a) PROVE TypeOK'
  <2> USE <1>1
  <2>1. CASE Ineligible(a) \/ Answer(a) \/ Finish(a)
    BY <2>1 DEF Ineligible, Answer, Finish, Go, TypeOK
  <2>2. CASE ReserveRead(a) \/ ReserveRefused(a)
    BY <2>2 DEF ReserveRead, ReserveRefused, Go, TypeOK, CapacityAssumption
  <2>3. CASE ReserveWrite(a)
    BY <2>3 DEF ReserveWrite, Go, TypeOK, This, Calls, CapacityAssumption
  <2>4. CASE Register(a)
    BY <2>4 DEF Register, Go, TypeOK, This, Calls
  <2>5. CASE RegisterLate(a) \/ Settle(a) \/ Fail(a)
    BY <2>5, ReleaseEffect DEF RegisterLate, Settle, Fail, Go, TypeOK
  <2>6. CASE Mark(a)
    BY <2>6 DEF Mark, Go, TypeOK, This, Calls
  <2>7. CASE Again(a)
    <3>1. n' \in [Attempts -> 1..MaxCalls]
      BY <2>7 DEF Again, TypeOK, CapacityAssumption
    <3> QED
      BY <3>1, <2>7 DEF Again, Go, TypeOK
  <2>8. CASE RecordRaises(a)
    BY <2>8 DEF RecordRaises, Go, TypeOK
  <2> QED
    BY <2>1, <2>2, <2>3, <2>4, <2>5, <2>6, <2>7, <2>8 DEF Step
<1>2. ASSUME NEW a \in Attempts, Timeout(a) PROVE TypeOK'
  BY <1>2 DEF Timeout, TypeOK
<1>3. ASSUME NEW a \in Attempts, Cleanup(a) PROVE TypeOK'
  BY <1>3, ReleaseEffect DEF Cleanup, TypeOK
<1>4. CASE UNCHANGED vars
  BY <1>4 DEF vars, TypeOK
<1> QED
  BY <1>1, <1>2, <1>3, <1>4 DEF Next

(* Every step keeps what a broker may know. *)
LEMMA HoldStep == ASSUME CapacityAssumption, IInv, [Next]_vars PROVE HoldInv'
<1> SUFFICES ASSUME NEW c \in Attempts, NEW b \in Brokers, NEW k \in 1..MaxCalls
             PROVE  Held(c, b, k)'
  BY DEF HoldInv
<1>0. Held(c, b, k) /\ TypeOK
  BY DEF IInv, HoldInv
<1> USE <1>0 DEF counter, broker, guard, history, Held
<1>1. ASSUME NEW a \in Attempts, Step(a) PROVE Held(c, b, k)'
  <2> USE <1>1
  <2>1. CASE Ineligible(a) \/ ReserveRead(a) \/ ReserveRefused(a) \/ Register(a) \/ Answer(a)
    BY <2>1 DEF Ineligible, ReserveRead, ReserveRefused, Register, Answer, Go, TypeOK
  <2>2. CASE ReserveWrite(a)
    BY <2>2 DEF ReserveWrite, Go, TypeOK, This, CapacityAssumption
  <2>3. CASE RegisterLate(a) \/ Settle(a) \/ Fail(a)
    <3>1. /\ reserved'[b] \subseteq reserved[b] /\ marked'[b] \subseteq marked[b]
          /\ b = BrokerOf[a] => This(a) \notin reserved'[b] \cup marked'[b]
      <4>1. /\ reserved' = [reserved EXCEPT ![BrokerOf[a]] = @ \ {This(a)}]
            /\ marked' = [marked EXCEPT ![BrokerOf[a]] = @ \ {This(a)}]
        BY <2>3 DEF RegisterLate, Settle, Fail, Release
      <4> QED
        BY <4>1 DEF TypeOK
    <3>2. CASE RegisterLate(a)
      BY <3>1, <3>2 DEF RegisterLate, Go, TypeOK, This
    <3>3. CASE Settle(a)
      BY <3>1, <3>3 DEF Settle, Go, TypeOK, This
    <3>4. CASE Fail(a)
      BY <3>1, <3>4 DEF Fail, Go, TypeOK, This
    <3> QED
      BY <2>3, <3>2, <3>3, <3>4
  <2>4. CASE Mark(a)
    BY <2>4 DEF Mark, Go, TypeOK, This, CapacityAssumption
  <2>5. CASE Again(a) \/ Finish(a) \/ RecordRaises(a)
    BY <2>5 DEF Again, Finish, RecordRaises, Go, TypeOK
  <2> QED
    BY <2>1, <2>2, <2>3, <2>4, <2>5 DEF Step
<1>2. ASSUME NEW a \in Attempts, Timeout(a) PROVE Held(c, b, k)'
  BY <1>2 DEF Timeout
<1>3. ASSUME NEW a \in Attempts, Cleanup(a) PROVE Held(c, b, k)'
  BY <1>3, ReleaseEffect DEF Cleanup
<1>4. CASE UNCHANGED vars
  BY <1>4 DEF vars
<1> QED
  BY <1>1, <1>2, <1>3, <1>4 DEF Next

(* Every step keeps the reservation exclusive. *)
LEMMA LockStep == ASSUME CapacityAssumption, IInv, [Next]_vars PROVE LockInv'
<1> USE DEF IInv, counter, broker, guard, history, OneBroker
<1>1. ASSUME NEW a \in Attempts, Step(a) PROVE LockInv'
  <2> USE <1>1
  <2>1. CASE Ineligible(a) \/ Register(a) \/ Answer(a) \/ Mark(a) \/ Again(a) \/ Finish(a) \/ RecordRaises(a)
    BY <2>1 DEF Ineligible, Register, Answer, Mark, Again, Finish, RecordRaises, Go, TypeOK, LockInv
  <2>2. CASE ReserveRead(a)
    BY <2>2 DEF ReserveRead, Free, Go, TypeOK, LockInv, CapacityAssumption
  <2>3. CASE ReserveRefused(a) \/ ReserveWrite(a)
    BY <2>3 DEF ReserveRefused, ReserveWrite, Go, TypeOK, LockInv, CapacityAssumption
  <2>4. CASE RegisterLate(a) \/ Settle(a) \/ Fail(a)
    BY <2>4, ReleaseEffect DEF RegisterLate, Settle, Fail, Go, TypeOK, LockInv, CapacityAssumption
  <2> QED
    BY <2>1, <2>2, <2>3, <2>4 DEF Step
<1>2. ASSUME NEW a \in Attempts, Timeout(a) PROVE LockInv'
  BY <1>2 DEF Timeout, LockInv
<1>3. ASSUME NEW a \in Attempts, Cleanup(a) PROVE LockInv'
  BY <1>3, ReleaseEffect DEF Cleanup, LockInv, TypeOK, CapacityAssumption
<1>4. CASE UNCHANGED vars
  BY <1>4 DEF vars, LockInv
<1> QED
  BY <1>1, <1>2, <1>3, <1>4 DEF Next

(* Every step keeps calls unknown until they are reserved. *)
LEMMA FreshStep == ASSUME CapacityAssumption, IInv, [Next]_vars PROVE FreshInv'
<1> USE DEF IInv, counter, broker, guard, history
<1>1. ASSUME NEW a \in Attempts, Step(a) PROVE FreshInv'
  <2> USE <1>1
  <2>1. CASE Ineligible(a) \/ ReserveRead(a) \/ ReserveRefused(a) \/ Register(a) \/ Answer(a)
    BY <2>1 DEF Ineligible, ReserveRead, ReserveRefused, Register, Answer, Go, TypeOK, FreshInv
  <2>2. CASE ReserveWrite(a) \/ Mark(a)
    BY <2>2 DEF ReserveWrite, Mark, Go, TypeOK, This, FreshInv
  <2>3. CASE RegisterLate(a) \/ Settle(a) \/ Fail(a)
    BY <2>3 DEF RegisterLate, Settle, Fail, Go, TypeOK, This, FreshInv
  <2>4. CASE Again(a) \/ Finish(a) \/ RecordRaises(a)
    BY <2>4 DEF Again, Finish, RecordRaises, Go, TypeOK, FreshInv
  <2> QED
    BY <2>1, <2>2, <2>3, <2>4 DEF Step
<1>2. ASSUME NEW a \in Attempts, Timeout(a) \/ Cleanup(a) PROVE FreshInv'
  BY <1>2 DEF Timeout, Cleanup, FreshInv
<1>3. CASE UNCHANGED vars
  BY <1>3 DEF vars, FreshInv
<1> QED
  BY <1>1, <1>2, <1>3 DEF Next

(* Every step keeps the account of a run without a timeout. *)
LEMMA TimelyStep == ASSUME CapacityAssumption, IInv, [Next]_vars PROVE TimelyInv'
<1> SUFFICES ASSUME timely', NEW c \in Attempts
             PROVE  Timely(c)'
  BY DEF TimelyInv
<1>0. TypeOK /\ FreshInv /\ (timely => \A a \in Attempts : Timely(a))
  BY DEF IInv, TimelyInv
<1> USE <1>0 DEF counter, broker, guard, history, Timely
<1>1. ASSUME NEW a \in Attempts, Step(a) PROVE Timely(c)'
  <2> USE <1>1
  <2>1. CASE Ineligible(a) \/ ReserveRead(a) \/ ReserveRefused(a) \/ Register(a) \/ Answer(a)
    <3>0. timely /\ Timely(c)
      BY <2>1 DEF Ineligible, ReserveRead, ReserveRefused, Register, Answer
    <3>1. CASE Ineligible(a) \/ ReserveRead(a) \/ ReserveRefused(a)
      BY <3>0, <3>1 DEF Ineligible, ReserveRead, ReserveRefused, Go, TypeOK, This
    <3>2. CASE Register(a) \/ Answer(a)
      BY <3>0, <3>2 DEF Register, Answer, Go, TypeOK, This
    <3> QED
      BY <2>1, <3>1, <3>2
  <2>2. CASE ReserveWrite(a)
    BY <2>2 DEF ReserveWrite, Go, TypeOK, This, FreshInv
  <2>3. CASE Mark(a)
    BY <2>3 DEF Mark, Go, TypeOK, This, CapacityAssumption
  <2>4. CASE RegisterLate(a)
    BY <2>4 DEF RegisterLate
  <2>5. CASE Settle(a) \/ Fail(a)
    <3>1. /\ pc' = [pc EXCEPT ![a] = IF Settle(a) THEN "record" ELSE "failed"]
          /\ n' = n /\ active' = active /\ due' = due /\ billed' = billed /\ timely
          /\ c # a => (This(c) \in open => This(c) \in open')
      BY <2>5 DEF Settle, Fail, Go, This
    <3>2. c # a => (This(c) \in marked[BrokerOf[c]] => This(c) \in marked'[BrokerOf[c]])
      <4>1. marked' = [marked EXCEPT ![BrokerOf[a]] = @ \ {This(a)}]
        BY <2>5 DEF Settle, Fail, Release
      <4>2. BrokerOf[c] \in Brokers
        BY DEF CapacityAssumption
      <4> QED
        BY <4>1, <4>2 DEF This, TypeOK
    <3> QED
      BY <3>1, <3>2 DEF TypeOK, This
  <2>6. CASE Again(a) \/ Finish(a) \/ RecordRaises(a)
    <3>1. CASE Again(a)
      BY <3>1 DEF Again, Go, TypeOK, This
    <3>2. CASE Finish(a)
      BY <3>2 DEF Finish, Go, TypeOK, This
    <3>3. CASE RecordRaises(a)
      BY <3>3 DEF RecordRaises
    <3> QED
      BY <2>6, <3>1, <3>2, <3>3
  <2> QED
    BY <2>1, <2>2, <2>3, <2>4, <2>5, <2>6 DEF Step
<1>2. ASSUME NEW a \in Attempts, Timeout(a) \/ Cleanup(a) PROVE Timely(c)'
  BY <1>2 DEF Timeout, Cleanup
<1>3. CASE UNCHANGED vars
  BY <1>3 DEF vars, This
<1> QED
  BY <1>1, <1>2, <1>3 DEF Next

(* Every step keeps the counter between nothing and what happened.         *)
LEMMA CountStep == ASSUME CapacityAssumption, IInv, [Next]_vars PROVE CountInv'
<1> USE DEF IInv, counter, broker, guard, history
<1> DEFINE known == Cardinality(billed \cup open)
<1>0. IsFiniteSet(billed \cup open) /\ known \in Nat /\ used \in Nat
  BY HistoryFinite DEF TypeOK
<1>1. ASSUME used' <= used, timely' => timely /\ used' = used, (billed \cup open)' = billed \cup open,
             used' \in Nat
      PROVE  CountInv'
  BY <1>0, <1>1 DEF CountInv, NeverOvercounted, ExactWhileTimely
<1>2. ASSUME NEW a \in Attempts, Step(a) PROVE CountInv'
  <2> USE <1>2
  <2>1. CASE Ineligible(a) \/ ReserveRead(a) \/ ReserveRefused(a) \/ Register(a) \/ Answer(a)
             \/ Again(a) \/ Finish(a) \/ RecordRaises(a)
    BY <2>1, <1>0, <1>1 DEF Ineligible, ReserveRead, ReserveRefused, Register, Answer, Again, Finish, RecordRaises
  <2>2. CASE ReserveWrite(a)
    <3>1. (billed \cup open)' = (billed \cup open) \cup {This(a)}
      BY <2>2 DEF ReserveWrite
    <3>2. This(a) \notin billed \cup open
      BY <2>2 DEF ReserveWrite, FreshInv, This, TypeOK
    <3>3. known' = known + 1
      BY <3>1, <3>2, <1>0, FS_AddElement
    <3>4. OneBroker => used' = used + 1
      BY <2>2 DEF ReserveWrite, LockInv
    <3> QED
      BY <3>3, <3>4, <2>2, <1>0 DEF CountInv, NeverOvercounted, ExactWhileTimely, ReserveWrite
  <2>3. CASE Mark(a)
    <3>1. (billed \cup open)' = (billed \cup open) \cup {This(a)}
      BY <2>3 DEF Mark
    <3>2. known' \in Nat /\ known' >= known
      <4>1. \/ Cardinality((billed \cup open) \cup {This(a)}) = known
            \/ Cardinality((billed \cup open) \cup {This(a)}) = known + 1
        BY <1>0, FS_AddElement
      <4>2. known' = Cardinality((billed \cup open) \cup {This(a)})
        BY <3>1
      <4> QED
        BY <4>1, <4>2, <1>0
    <3>3. timely => known' = known
      <4>1. timely => This(a) \in open
        BY <2>3 DEF Mark, TimelyInv, Timely
      <4>2. timely => (billed \cup open)' = billed \cup open
        BY <4>1, <3>1
      <4> QED
        BY <4>2
    <3> QED
      BY <3>2, <3>3, <2>3, <1>0 DEF CountInv, NeverOvercounted, ExactWhileTimely, Mark
  <2>4. CASE RegisterLate(a)
    BY <2>4, <1>1, ReleaseEffect DEF RegisterLate, TimelyInv, Timely
  <2>5. CASE Settle(a)
    BY <2>5, <1>1, ReleaseEffect DEF Settle, TimelyInv, Timely
  <2>6. CASE Fail(a)
    <3>1. used' = IF used > 0 THEN used - 1 ELSE 0
      <4>1. This(a) \notin marked[BrokerOf[a]]
        BY <2>6 DEF Fail, HoldInv, Held, This, TypeOK, CapacityAssumption
      <4> QED
        BY <4>1, <2>6, ReleaseEffect DEF Fail
    <3>2. CASE This(a) \in open \ billed
      <4>1. (billed \cup open)' = (billed \cup open) \ {This(a)}
        BY <3>2, <2>6 DEF Fail
      <4>2. known' = known - 1
        <5>1. Cardinality((billed \cup open) \ {This(a)}) = known - 1
          BY <3>2, <1>0, FS_RemoveElement
        <5> QED
          BY <5>1, <4>1
      <4>3. known > 0
        BY <3>2, <1>0, FS_EmptySet
      <4> QED
        BY <4>2, <4>3, <3>1, <2>6, <1>0 DEF CountInv, NeverOvercounted, ExactWhileTimely, Fail
    <3>3. CASE This(a) \notin open \ billed
      <4>1. (billed \cup open)' = billed \cup open /\ ~timely
        BY <3>3, <2>6 DEF Fail, TimelyInv, Timely
      <4>2. known' = known /\ ~timely'
        BY <4>1, <2>6 DEF Fail
      <4> QED
        BY <4>2, <3>1, <2>6, <1>0 DEF CountInv, NeverOvercounted, ExactWhileTimely, Fail
    <3> QED
      BY <3>2, <3>3
  <2> QED
    BY <2>1, <2>2, <2>3, <2>4, <2>5, <2>6 DEF Step
<1>3. ASSUME NEW a \in Attempts, Timeout(a) PROVE CountInv'
  BY <1>3, <1>0, <1>1 DEF Timeout
<1>4. ASSUME NEW a \in Attempts, Cleanup(a) PROVE CountInv'
  BY <1>4, <1>1, ReleaseEffect DEF Cleanup, TimelyInv, Timely
<1>5. CASE UNCHANGED vars
  BY <1>5, <1>0, <1>1 DEF vars
<1> QED
  BY <1>2, <1>3, <1>4, <1>5 DEF Next

(* The invariant holds in every reachable state. *)
THEOREM CapacityInvariant == ASSUME CapacityAssumption PROVE Spec => []IInv
<1>1. Init => IInv
  BY InitIInv
<1>2. IInv /\ [Next]_vars => IInv'
  BY TypeStep, HoldStep, LockStep, FreshStep, TimelyStep, CountStep DEF IInv
<1> QED
  BY <1>1, <1>2, PTL DEF Spec

(* The counter never leaves 0..Limit, in any number of processes. *)
THEOREM CapacityTypes == ASSUME CapacityAssumption PROVE Spec => []TypeOK
<1>1. IInv => TypeOK
  BY DEF IInv
<1> QED
  BY <1>1, CapacityInvariant, PTL

(* Timeouts, late answers and failures never eat the limit of a run in one *)
(* process up, whatever the number of attempts.                            *)
THEOREM CounterNotAbove == ASSUME CapacityAssumption PROVE Spec => []NeverOvercounted
<1>1. IInv => NeverOvercounted
  BY DEF IInv, CountInv
<1> QED
  BY <1>1, CapacityInvariant, PTL

(* In one process and without a timeout the counter is exact. *)
THEOREM CounterExact == ASSUME CapacityAssumption PROVE Spec => []ExactWhileTimely
<1>1. IInv => ExactWhileTimely
  BY DEF IInv, CountInv
<1> QED
  BY <1>1, CapacityInvariant, PTL

(* An attempt that ended leaves nothing in any broker, in any number of    *)
(* processes.                                                              *)
THEOREM BrokersLeftClean == ASSUME CapacityAssumption PROVE Spec => []EndedAttemptHoldsNothing
<1>1. IInv => EndedAttemptHoldsNothing
  BY DEF IInv, HoldInv, Held, Held, EndedAttemptHoldsNothing, Ended
<1> QED
  BY <1>1, CapacityInvariant, PTL
=============================================================================
