-------------------------- MODULE OutcomeProofs ---------------------------
(***************************************************************************)
(* Proofs about the two ends of a run: McpService, which accepts it and    *)
(* answers for it, and Assurance, which decides what of it is delivered.   *)
(* Assurance is proved for any number of chapters and chunks, whatever the *)
(* chapters bring, the verifier answers and the repairs complete; its      *)
(* inductive invariant says, phase by phase, what a run that still passes  *)
(* has been found to have, and that claims and package stay up to date.    *)
(* McpService is proved for any number of lines, runs and workers; its     *)
(* invariant says of every line who has it, or that it has its answer.     *)
(***************************************************************************)
EXTENDS Assurance, McpService, SequenceTheorems, FiniteSetTheorems, TLAPS

Statuses    == Successful \cup {"failed", "skipped"}
Manuscripts == {"whole", "malformed", "missing"}
ResultType  == [status : Statuses, manuscript : Manuscripts, sections : SUBSET Refs,
                stated : BOOLEAN, refs : SUBSET Refs]

(* The types of everything the phases read. *)
Types ==
  /\ mode \in Modes
  /\ consumed \in [Chapters -> SUBSET Chunks]
  /\ results \in [Tasks -> ResultType]
  /\ verdict \in [Chapters -> ProviderVerdicts \cup {Unasked}]
  /\ DOMAIN claims = Chapters
  /\ checks \in Checks /\ repaired \in {"none", "completed", "failed"}
  /\ passed \in BOOLEAN /\ audited \in BOOLEAN /\ stopped \in BOOLEAN
  /\ DOMAIN package.cited = Chapters
  /\ passed => violations = {}

(* What was skipped was skipped for something that failed. *)
SkippedForAFailure ==
  (\A t \in Tasks : results[t].status # "failed") => \A t \in Tasks : succeeded(t)

(* A run that passes has no finding against its results as they are now. *)
NoFindings == pc # "quality" /\ passed => evaluate(results, repaired) = {}

(* After the first audit no claim is without an answer. *)
Answered ==
  pc \notin {"quality", "audit", "failed"} => \A c \in Asked : verdict[c] # Unasked

Judged   == {"judge", "assemble", "final", "validate", "fidelity", "done"}
Settled  == {"assemble", "final", "validate", "fidelity", "done"}
Packaged == {"final", "validate", "fidelity", "done"}
Audited  == {"validate", "fidelity", "done"}

(* From the last audit before the panel on, the claims are those of the    *)
(* results and verdicts at hand, and the package is made of them.          *)
ClaimsCurrent == pc \in Judged => claims = _claims(verdict)
PackageCurrent ==
  pc \in Packaged =>
    package = [cited   |-> [c \in Chapters |-> IF claims[c].eligible THEN claims[c].refs ELSE {}],
               blocked |-> {c \in Chapters : claims[c].made /\ verdict[c] \in Blocking}]

(* What a run that passes has behind it. *)
PassedSoFar ==
  passed =>
    /\ pc \in Settled => ~stopped
    /\ pc \in Audited => AuditPasses(claims, verdict, TRUE)
    /\ pc = "done" => \A c \in Chapters : Faithful(c)

IInv ==
  /\ Types
  /\ SkippedForAFailure
  /\ NoFindings
  /\ Answered
  /\ ClaimsCurrent
  /\ PackageCurrent
  /\ PassedSoFar

(* The scheduler leaves results of the right type, and skips only what     *)
(* depends on something that failed.                                       *)
LEMMA InitIInv == Init => IInv
<1> SUFFICES ASSUME Init PROVE IInv
  OBVIOUS
<1>1. PICK gap \in BOOLEAN, built \in BOOLEAN, evaluated \in BOOLEAN :
        \E chapter \in [Chapters -> IF gap THEN Works \cup {Failure} ELSE {Stage("skipped")}] :
          LET whole == \A c \in Chapters : chapter[c].status \in Successful
              After(ok, ran) == IF ~ok THEN Stage("skipped")
                                ELSE IF ran THEN Stage("completed") ELSE Stage("failed")
          IN  /\ results = [t \in Tasks |->
                   CASE t \in Chapters -> chapter[t]
                     [] t = "T-GAP-ANALYSIS" -> After(TRUE, gap)
                     [] t = "T-ARTIFACT-BUILD" -> After(whole, built)
                     [] t = "T-QUALITY" -> After(whole /\ built, evaluated)]
              /\ stopped \in {FALSE, \E c \in Chapters : chapter[c].status = "failed"}
  BY DEF Init
<1>2. PICK chapter \in [Chapters -> IF gap THEN Works \cup {Failure} ELSE {Stage("skipped")}] :
          LET whole == \A c \in Chapters : chapter[c].status \in Successful
              After(ok, ran) == IF ~ok THEN Stage("skipped")
                                ELSE IF ran THEN Stage("completed") ELSE Stage("failed")
          IN  /\ results = [t \in Tasks |->
                   CASE t \in Chapters -> chapter[t]
                     [] t = "T-GAP-ANALYSIS" -> After(TRUE, gap)
                     [] t = "T-ARTIFACT-BUILD" -> After(whole, built)
                     [] t = "T-QUALITY" -> After(whole /\ built, evaluated)]
              /\ stopped \in {FALSE, \E c \in Chapters : chapter[c].status = "failed"}
  BY <1>1
<1> DEFINE whole == \A c \in Chapters : chapter[c].status \in Successful
           After(ok, ran) == IF ~ok THEN Stage("skipped")
                             ELSE IF ran THEN Stage("completed") ELSE Stage("failed")
<1>3. /\ "T-GAP-ANALYSIS" \in Tasks /\ "T-GAP-ANALYSIS" \notin Chapters
      /\ "T-ARTIFACT-BUILD" \in Tasks /\ "T-ARTIFACT-BUILD" \notin Chapters
      /\ "T-QUALITY" \in Tasks /\ "T-QUALITY" \notin Chapters
      /\ Tasks = Chapters \cup {"T-GAP-ANALYSIS", "T-ARTIFACT-BUILD", "T-QUALITY"}
  BY WorksAssumption DEF Tasks, Support
<1>4. /\ DOMAIN results = Tasks
      /\ results = [t \in Tasks |-> results[t]]
      /\ \A c \in Chapters : results[c] = chapter[c]
      /\ results["T-GAP-ANALYSIS"] = After(TRUE, gap)
      /\ results["T-ARTIFACT-BUILD"] = After(whole, built)
      /\ results["T-QUALITY"] = After(whole /\ built, evaluated)
  BY <1>2, <1>3
<1>5. \A s \in Statuses : Stage(s) \in ResultType /\ Stage(s).status = s
  BY DEF Stage, Result, ResultType, Manuscripts
<1>6. Works \subseteq ResultType /\ \A w \in Works : w.status \in Successful
  BY WorksAssumption DEF ResultType, Statuses, Manuscripts
<1>7. Failure \in ResultType /\ Failure.status = "failed"
  BY <1>5 DEF Failure, Statuses
<1>8. \A ok, ran \in BOOLEAN : After(ok, ran) \in ResultType
  BY <1>5 DEF Statuses, Successful
<1>9. results \in [Tasks -> ResultType]
  <2>1. \A c \in Chapters : chapter[c] \in ResultType
    BY <1>5, <1>6, <1>7 DEF Statuses
  <2> QED
    BY <1>3, <1>4, <1>8, <2>1
<1>10. SkippedForAFailure
  <2> SUFFICES ASSUME \A t \in Tasks : results[t].status # "failed"
               PROVE  \A t \in Tasks : succeeded(t)
    BY DEF SkippedForAFailure
  <2>1. gap
    BY <1>3, <1>4, <1>5 DEF Statuses
  <2>2. \A c \in Chapters : chapter[c].status \in Successful
    BY <1>3, <1>4, <1>6, <1>7, <2>1
  <2>3. built
    BY <1>3, <1>4, <1>5, <2>2 DEF Statuses
  <2>4. evaluated
    BY <1>3, <1>4, <1>5, <2>2, <2>3 DEF Statuses
  <2> QED
    BY <1>3, <1>4, <1>5, <2>1, <2>2, <2>3, <2>4 DEF succeeded, Successful, Statuses
<1>11. consumed \in [Chapters -> SUBSET Chunks]
  BY WorksAssumption DEF Init
<1>12. Types
  BY <1>2, <1>9, <1>11 DEF Init, Types
<1> QED
  BY <1>10, <1>12 DEF Init, IInv, NoFindings, Answered, ClaimsCurrent, PackageCurrent,
       PassedSoFar, Judged, Settled, Packaged, Audited

(* An audit asks about what has no answer yet, and leaves the others.      *)
LEMMA AnswersKept ==
  ASSUME Types, NEW v \in Verdicts
  PROVE  /\ v \in [Chapters -> ProviderVerdicts \cup {Unasked}]
         /\ \A c \in Asked : v[c] # Unasked
         /\ (\A c \in Asked : verdict[c] # Unasked) => v = verdict
<1>1. v \in [Chapters -> ProviderVerdicts \cup {Unasked}]
  BY DEF Verdicts
<1>2. ASSUME NEW c \in Asked PROVE v[c] # Unasked
  <2>1. c \in Chapters
    BY DEF Asked
  <2>2. verify(c) \subseteq ProviderVerdicts
    <3>1. mode \in {"structural", "semantic", "required_semantic", "unavailable"}
      BY WorksAssumption DEF Types
    <3> QED
      BY <3>1 DEF verify, StructuralVerdict, ProviderVerdicts
  <2>3. CASE verdict[c] = Unasked
    <3>1. v[c] \in verify(c)
      BY <1>2, <2>1, <2>3 DEF Verdicts
    <3> QED
      BY <2>2, <3>1 DEF ProviderVerdicts, Unasked
  <2>4. CASE verdict[c] # Unasked
    BY <1>2, <2>1, <2>4 DEF Verdicts
  <2> QED
    BY <2>3, <2>4
<1>3. ASSUME \A c \in Asked : verdict[c] # Unasked PROVE v = verdict
  <2>1. verdict \in [Chapters -> ProviderVerdicts \cup {Unasked}]
    BY DEF Types
  <2>2. \A c \in Chapters : v[c] = verdict[c]
    BY <1>3 DEF Verdicts
  <2> QED
    BY <1>1, <2>1, <2>2
<1> QED
  BY <1>1, <1>2, <1>3

(* An evaluation finds a fault whenever it says a run does not pass, and   *)
(* applying an audit to it keeps that so.                                  *)
LEMMA ApplyKeeps ==
  ASSUME passed \in BOOLEAN, passed => violations = {}, NEW ok \in BOOLEAN, Apply(ok)
  PROVE  /\ passed' \in BOOLEAN /\ audited' \in BOOLEAN
         /\ passed' => passed /\ ok /\ violations' = {}
BY DEF Apply

(* An audit passes or does not. *)
LEMMA AuditIsBoolean ==
  ASSUME NEW cs, NEW v, NEW final PROVE AuditPasses(cs, v, final) \in BOOLEAN
BY DEF AuditPasses

(* What a claim says of a chapter, and whom a repair may touch. *)
LEMMA ClaimFields ==
  ASSUME NEW c, NEW v
  PROVE  /\ _claim(c, v).made /\ _claim(c, v).refs = results[c].refs
         /\ _claim(c, v).resolved => Resolves(c) /\ results[c].stated /\ v \notin Blocking
         /\ _claim(c, v).eligible <=> _claim(c, v).resolved
<1> DEFINE fits == Resolves(c) /\ results[c].stated /\ v \notin Blocking
<1>1. _claim(c, v) = [made |-> TRUE, resolved |-> fits, eligible |-> fits, refs |-> results[c].refs]
  BY DEF _claim
<1>2. fits => Resolves(c) /\ results[c].stated /\ v \notin Blocking
  OBVIOUS
<1> HIDE DEF fits
<1> QED
  BY <1>1, <1>2

(* A repair is aimed at chapters only. *)
LEMMA TargetsAreChapters == \A repairs : Targets(repairs) \subseteq Chapters
BY DEF Targets

(* Both audits before the panel. *)
LEMMA AuditStep ==
  ASSUME IInv, pc \in {"audit", "reaudit"}, verdict' \in Verdicts,
         claims' = _claims(verdict'), Apply(AuditPasses(claims', verdict', FALSE)),
         pc' \in {"judge", "repair"},
         UNCHANGED <<given, results, repaired, package>>
  PROVE  IInv'
<1>1. Types /\ SkippedForAFailure /\ NoFindings
  BY DEF IInv
<1>2. /\ verdict' \in [Chapters -> ProviderVerdicts \cup {Unasked}]
      /\ \A c \in Asked : verdict'[c] # Unasked
  BY <1>1, AnswersKept
<1>3. /\ passed' \in BOOLEAN /\ audited' \in BOOLEAN
      /\ passed' => passed /\ violations' = {}
  <2>1. passed \in BOOLEAN /\ (passed => violations = {})
    BY <1>1 DEF Types
  <2> QED
    BY <2>1, ApplyKeeps, AuditIsBoolean
<1>4. Types'
  BY <1>1, <1>2, <1>3 DEF Types, given, _claims
<1>5. SkippedForAFailure' /\ NoFindings'
  BY <1>1, <1>3 DEF SkippedForAFailure, NoFindings, succeeded, given, evaluate, validators,
       _manuscript_findings, _execution_findings
<1>6. Answered'
  BY <1>2 DEF Answered, Asked, succeeded, given
<1>7. ClaimsCurrent'
  BY DEF ClaimsCurrent, _claims, _claim, Resolves, succeeded, given
<1>8. PackageCurrent' /\ PassedSoFar'
  BY DEF PackageCurrent, PassedSoFar, Packaged, Settled, Audited
<1> QED
  BY <1>4, <1>5, <1>6, <1>7, <1>8 DEF IInv

(* A step that changes neither results nor answers, claims and package, in *)
(* a run that passes afterwards only if it did before.                     *)
LEMMA LaterStep ==
  ASSUME IInv, UNCHANGED <<given, results, repaired, judged, package>>,
         pc \in Judged \ {"done"}, pc' \in Judged,
         pc' \in Packaged => pc \in Packaged,
         passed' \in BOOLEAN, passed' => passed /\ violations' = {}
  PROVE  /\ Types' /\ SkippedForAFailure' /\ NoFindings' /\ Answered'
         /\ ClaimsCurrent' /\ PackageCurrent'
<1>1. Types'
  BY DEF IInv, Types, given, judged
<1>2. SkippedForAFailure' /\ NoFindings'
  BY DEF IInv, Judged, SkippedForAFailure, NoFindings, succeeded, given, evaluate, validators,
       _manuscript_findings, _execution_findings
<1>3. Answered'
  BY DEF IInv, Judged, Answered, Asked, succeeded, given, judged
<1>4. ClaimsCurrent'
  BY DEF IInv, Judged, ClaimsCurrent, _claims, _claim, Resolves, succeeded, given, judged
<1>5. PackageCurrent'
  BY DEF IInv, PackageCurrent, judged
<1> QED
  BY <1>1, <1>2, <1>3, <1>4, <1>5

(* A repair leaves every status as it is. *)
LEMMA RepairedResults ==
  ASSUME results \in [Tasks -> ResultType], NEW S \in SUBSET Chapters,
         results' = [t \in Tasks |-> IF t \in S THEN Replacement(results[t]) ELSE results[t]]
  PROVE  /\ results' \in [Tasks -> ResultType]
         /\ \A t \in Tasks : results'[t].status = results[t].status
<1>1. ASSUME NEW r \in ResultType
      PROVE  Replacement(r) \in ResultType /\ Replacement(r).status = r.status
  BY DEF Replacement, ResultType, Manuscripts
<1> QED
  BY <1>1

(* Every phase of the assurance keeps the invariant. *)
LEMMA IInvStep == IInv /\ [Next]_vars => IInv'
<1> SUFFICES ASSUME IInv, [Next]_vars PROVE IInv'
  OBVIOUS
<1> USE DEF IInv
<1>0. Types /\ SkippedForAFailure /\ NoFindings
  OBVIOUS
<1>1. CASE Quality
  <2>1. passed' => violations' = {} /\ evaluate(results, repaired) = {}
    BY <1>1 DEF Quality, InRun
  <2>2. Types'
    BY <1>0, <1>1, <2>1 DEF Types, Quality, given, judged
  <2>3. SkippedForAFailure'
    BY <1>0, <1>1 DEF Quality, SkippedForAFailure, succeeded
  <2>4. NoFindings'
    BY <1>1, <2>1 DEF Quality, NoFindings, given, evaluate, validators,
         _manuscript_findings, _execution_findings
  <2> QED
    BY <1>1, <2>2, <2>3, <2>4 DEF Quality, Answered, ClaimsCurrent, PackageCurrent, PassedSoFar,
         Judged, Settled, Packaged, Audited
<1>2. CASE Audit
  BY <1>2, AuditStep DEF Audit
<1>3. CASE VerifierEscapes
  <2>1. pc' = "failed" /\ pc # "quality"
    BY <1>3 DEF VerifierEscapes
  <2>2. Types'
    BY <1>0, <1>3 DEF Types, VerifierEscapes, given, judged, quality
  <2>3. SkippedForAFailure' /\ NoFindings'
    BY <1>0, <1>3, <2>1 DEF VerifierEscapes, SkippedForAFailure, NoFindings, given, quality,
         succeeded, evaluate, validators, _manuscript_findings, _execution_findings
  <2> QED
    BY <2>1, <2>2, <2>3 DEF Answered, ClaimsCurrent, PackageCurrent, PassedSoFar,
         Judged, Settled, Packaged, Audited
<1>4. CASE Repair
  <2>1. PICK completed \in SUBSET create_repair_dag, validated \in BOOLEAN :
          /\ results' = [t \in Tasks |->
               IF t \in Targets(completed) \ Whole THEN Replacement(results[t]) ELSE results[t]]
          /\ repaired' = IF completed = create_repair_dag /\ validated
                          THEN "completed" ELSE "failed"
    BY <1>4 DEF Repair
  <2>2. /\ results' \in [Tasks -> ResultType]
        /\ \A t \in Tasks : results'[t].status = results[t].status
    <3>1. results \in [Tasks -> ResultType] /\ Targets(completed) \ Whole \in SUBSET Chapters
      BY <1>0, TargetsAreChapters DEF Types
    <3> QED
      BY <2>1, <3>1, RepairedResults
  <2>3. pc = "repair" /\ pc' = "reaudit" /\ UNCHANGED <<given, judged, package>>
    BY <1>4 DEF Repair
  <2>4. /\ violations' = evaluate(results', repaired')
        /\ passed' = (violations' = {})
    BY <1>4 DEF Repair
  <2>5. Types'
    BY <1>0, <2>1, <2>2, <2>3, <2>4 DEF Types, given, judged
  <2>6. SkippedForAFailure'
    BY <1>0, <2>2 DEF SkippedForAFailure, succeeded
  <2>7. NoFindings'
    BY <2>3, <2>4 DEF NoFindings, given, evaluate, validators,
         _manuscript_findings, _execution_findings
  <2>8. Answered'
    BY <2>2, <2>3 DEF Answered, Asked, succeeded, given, judged, Tasks
  <2> QED
    BY <2>3, <2>5, <2>6, <2>7, <2>8 DEF ClaimsCurrent, PackageCurrent, PassedSoFar,
         Judged, Settled, Packaged, Audited
<1>5. CASE Reaudit
  BY <1>5, AuditStep DEF Reaudit
<1>6. CASE Judge
  <2>1. /\ passed' \in BOOLEAN
        /\ passed' => passed /\ ~stopped /\ violations' = {}
    BY <1>0, <1>6 DEF Judge, Types
  <2>2. /\ Types' /\ SkippedForAFailure' /\ NoFindings' /\ Answered'
        /\ ClaimsCurrent' /\ PackageCurrent'
    BY <1>6, <2>1, LaterStep DEF Judge, Judged, Packaged
  <2>3. PassedSoFar'
    BY <1>6, <2>1 DEF Judge, given, PassedSoFar, Audited
  <2> QED
    BY <2>2, <2>3
<1>7. CASE Assemble
  <2>1. pc = "assemble" /\ pc' = "final" /\ UNCHANGED <<given, results, repaired, judged, quality>>
    BY <1>7 DEF Assemble
  <2>2. Types'
    BY <1>0, <1>7 DEF Assemble, Types, given, judged, quality
  <2>3. SkippedForAFailure' /\ NoFindings'
    BY <1>0, <2>1 DEF SkippedForAFailure, NoFindings, given, quality,
         succeeded, evaluate, validators, _manuscript_findings, _execution_findings
  <2>4. Answered'
    BY <2>1 DEF Answered, Asked, succeeded, given, judged
  <2>5. ClaimsCurrent'
    BY <2>1 DEF ClaimsCurrent, Judged, _claims, _claim, Resolves, succeeded, given, judged
  <2>6. PackageCurrent'
    BY <1>7 DEF Assemble, PackageCurrent, judged
  <2>7. PassedSoFar'
    BY <2>1 DEF PassedSoFar, Settled, Audited, given, quality
  <2> QED
    BY <2>2, <2>3, <2>4, <2>5, <2>6, <2>7
<1>8. CASE FinalAudit
  <2>1. pc = "final" /\ pc' = "validate" /\ UNCHANGED <<given, results, repaired, package>>
    BY <1>8 DEF FinalAudit
  <2>2. verdict' = verdict
    BY <1>0, <1>8, <2>1, AnswersKept DEF FinalAudit, Answered
  <2>3. claims' = claims
    BY <1>8, <2>1, <2>2 DEF FinalAudit, ClaimsCurrent, Judged
  <2>4. /\ passed' \in BOOLEAN /\ audited' \in BOOLEAN
        /\ passed' => passed /\ AuditPasses(claims', verdict', TRUE) /\ violations' = {}
    <3>1. passed \in BOOLEAN /\ (passed => violations = {})
      BY <1>0 DEF Types
    <3>2. Apply(AuditPasses(claims', verdict', TRUE))
      BY <1>8 DEF FinalAudit
    <3> QED
      BY <3>1, <3>2, ApplyKeeps, AuditIsBoolean
  <2>5. Types'
    BY <1>0, <2>1, <2>2, <2>3, <2>4 DEF Types, given
  <2>6. SkippedForAFailure' /\ NoFindings'
    BY <1>0, <2>1, <2>4 DEF SkippedForAFailure, NoFindings, given, quality,
         succeeded, evaluate, validators, _manuscript_findings, _execution_findings
  <2>7. Answered'
    BY <2>1, <2>2 DEF Answered, Asked, succeeded, given
  <2>8. ClaimsCurrent'
    BY <2>1, <2>2, <2>3 DEF ClaimsCurrent, Judged, _claims, _claim, Resolves, succeeded, given
  <2>9. PackageCurrent'
    BY <2>1, <2>2, <2>3 DEF PackageCurrent, Packaged
  <2>10. PassedSoFar'
    BY <2>1, <2>4 DEF PassedSoFar, Settled, given, AuditPasses
  <2> QED
    BY <2>5, <2>6, <2>7, <2>8, <2>9, <2>10
<1>9. CASE ValidateArtifacts
  <2>1. passed' \in BOOLEAN /\ (passed' => passed /\ violations' = {})
    BY <1>0, <1>9 DEF ValidateArtifacts, Types
  <2>2. /\ Types' /\ SkippedForAFailure' /\ NoFindings' /\ Answered'
        /\ ClaimsCurrent' /\ PackageCurrent'
    BY <1>9, <2>1, LaterStep DEF ValidateArtifacts, Judged, Packaged
  <2>3. PassedSoFar'
    BY <1>9, <2>1 DEF ValidateArtifacts, given, judged, PassedSoFar, Settled, Audited, AuditPasses
  <2> QED
    BY <2>2, <2>3
<1>10. CASE Fidelity
  <2>1. /\ passed' \in BOOLEAN
        /\ passed' => passed /\ violations' = {} /\ \A c \in Chapters : Faithful(c)
    BY <1>0, <1>10 DEF Fidelity, Types
  <2>2. /\ Types' /\ SkippedForAFailure' /\ NoFindings' /\ Answered'
        /\ ClaimsCurrent' /\ PackageCurrent'
    BY <1>10, <2>1, LaterStep DEF Fidelity, Judged, Packaged
  <2>3. PassedSoFar'
    BY <1>10, <2>1 DEF Fidelity, given, judged, PassedSoFar, Settled, Audited, AuditPasses,
         Faithful, succeeded
  <2> QED
    BY <2>2, <2>3
<1>11. CASE Rest \/ UNCHANGED vars
  <2>1. UNCHANGED vars
    BY <1>11 DEF Rest
  <2>2. Types' /\ SkippedForAFailure' /\ NoFindings' /\ Answered'
    BY <1>0, <2>1 DEF vars, given, judged, quality, Types, SkippedForAFailure, NoFindings,
         Answered, Asked, succeeded, evaluate, validators,
         _manuscript_findings, _execution_findings
  <2>3. ClaimsCurrent' /\ PackageCurrent'
    BY <2>1 DEF vars, given, judged, ClaimsCurrent, PackageCurrent, _claims, _claim, Resolves,
         succeeded
  <2>4. PassedSoFar'
    BY <2>1 DEF vars, given, judged, quality, PassedSoFar, AuditPasses, Faithful, succeeded
  <2> QED
    BY <2>2, <2>3, <2>4
<1> QED
  BY <1>1, <1>2, <1>3, <1>4, <1>5, <1>6, <1>7, <1>8, <1>9, <1>10, <1>11 DEF Next

(* What a run has found stays true of it: in every reachable state the     *)
(* phases before have left what the invariant says.                        *)
THEOREM AssuranceInvariant == Spec => []IInv
BY InitIInv, IInvStep, PTL DEF Spec

(* Types, and a run with a violation never counts as passed. *)
THEOREM AssuranceTypes == Spec => []TypeOK
<1>1. IInv => TypeOK
  BY DEF IInv, Types, TypeOK
<1> QED
  BY <1>1, AssuranceInvariant, PTL

(* Delivery: what passes is complete, rests on the chunks it was given and *)
(* cites them, and nothing spoke against it.                               *)
THEOREM Delivery == Spec => []DeliveredIsSound
<1>1. ASSUME IInv PROVE DeliveredIsSound
  <2> SUFFICES ASSUME pc = "done", passed
               PROVE  /\ ~stopped /\ repaired # "failed" /\ "failed" \notin checks
                      /\ \A t \in Tasks : succeeded(t)
                      /\ \A c \in Chapters :
                           /\ c \in Whole /\ results[c].stated
                           /\ results[c].refs # {}
                           /\ results[c].refs \cup results[c].sections \subseteq consumed[c]
                           /\ package.cited[c] = results[c].refs
                           /\ verdict[c] \notin Blocking
                           /\ mode = "required_semantic" => verdict[c] = "supported"
    BY DEF DeliveredIsSound
  <2>1. Types /\ evaluate(results, repaired) = {}
    BY <1>1 DEF IInv, NoFindings
  <2>2. /\ ~stopped /\ AuditPasses(claims, verdict, TRUE)
        /\ \A c \in Chapters : Faithful(c)
    BY <1>1 DEF IInv, PassedSoFar, Settled, Audited
  <2>3. repaired # "failed"
    <3>1. {v \in {InRun("failed")} : repaired = "failed"} = {}
      BY <2>1 DEF evaluate, validators, _execution_findings
    <3> QED
      BY <3>1
  <2>4. "failed" \notin checks
    <3>1. {v \in {InRun("repository validation")} : "failed" \in checks} = {}
      BY <2>1 DEF evaluate
    <3> QED
      BY <3>1
  <2>5. ASSUME NEW kind, NEW S, Violation(kind, S) = {} PROVE S = {}
    <3>1. S # {} => [kind |-> kind, tasks |-> S] \in Violation(kind, S)
      BY DEF Violation
    <3> QED
      BY <2>5, <3>1
  <2>6. {t \in Tasks : results[t].status = "failed"} = {}
    BY <2>1, <2>5 DEF evaluate, validators, _execution_findings
  <2>7. \A t \in Tasks : succeeded(t)
    BY <1>1, <2>6 DEF IInv, SkippedForAFailure
  <2>8. /\ {c \in Chapters : results[c].manuscript = "missing"} = {}
        /\ {c \in Chapters : results[c].manuscript = "malformed"} = {}
    BY <2>1, <2>5 DEF evaluate, validators, _manuscript_findings
  <2>9. ASSUME NEW c \in Chapters
        PROVE  /\ c \in Whole /\ results[c].stated
               /\ results[c].refs # {}
               /\ results[c].refs \cup results[c].sections \subseteq consumed[c]
               /\ package.cited[c] = results[c].refs
               /\ verdict[c] \notin Blocking
               /\ mode = "required_semantic" => verdict[c] = "supported"
    <3>1. c \in Tasks /\ results[c] \in ResultType /\ succeeded(c)
      BY <2>1, <2>7 DEF Types, Tasks
    <3>2. c \in Whole
      BY <2>8, <3>1 DEF Whole, ResultType, Manuscripts
    <3>3. claims = _claims(verdict) /\ claims[c] = _claim(c, verdict[c])
      BY <1>1, <3>1 DEF IInv, ClaimsCurrent, Judged, _claims
    <3>4. claims[c].made /\ claims[c].refs = results[c].refs
      BY <3>3, ClaimFields
    <3>5. /\ claims[c].resolved
          /\ verdict[c] \notin Blocking
          /\ mode = "required_semantic" => verdict[c] # "unknown"
      BY <2>2, <3>4 DEF AuditPasses
    <3>6. Resolves(c) /\ results[c].stated /\ claims[c].eligible
      BY <3>3, <3>5, ClaimFields
    <3>7. package.cited[c] = results[c].refs
      BY <1>1, <3>4, <3>6 DEF IInv, PackageCurrent, Packaged
    <3>8. results[c].refs \cup results[c].sections \subseteq consumed[c]
      BY <2>2, <3>1 DEF Faithful
    <3>9. verdict[c] # Unasked
      <4>1. c \in Asked
        BY <3>1, <3>6 DEF Asked, Resolves
      <4> QED
        BY <1>1, <4>1 DEF IInv, Answered
    <3>10. verdict[c] \in ProviderVerdicts \cup {Unasked}
      BY <2>1 DEF Types
    <3> QED
      BY <3>2, <3>5, <3>6, <3>7, <3>8, <3>9, <3>10 DEF Resolves, ProviderVerdicts, Blocking
  <2> QED
    BY <2>2, <2>3, <2>4, <2>7, <2>9
<1> QED
  BY <1>1, AssuranceInvariant, PTL

(* Citations: the audit of the package finds every claim as the package    *)
(* was made of it, whether the run passes or not.                          *)
THEOREM Citations == Spec => []CitationsStand
<1>1. ASSUME IInv PROVE CitationsStand
  <2> SUFFICES ASSUME pc \in {"validate", "fidelity", "done"}, NEW c \in Chapters
               PROVE  /\ package.cited[c] # {} =>
                            claims[c].eligible /\ package.cited[c] = claims[c].refs
                      /\ c \in package.blocked => ~claims[c].eligible /\ package.cited[c] = {}
    BY DEF CitationsStand
  <2>1. /\ package.cited[c] = IF claims[c].eligible THEN claims[c].refs ELSE {}
        /\ c \in package.blocked => claims[c].made /\ verdict[c] \in Blocking
    <3>1. package = [cited   |-> [d \in Chapters |-> IF claims[d].eligible THEN claims[d].refs ELSE {}],
                     blocked |-> {d \in Chapters : claims[d].made /\ verdict[d] \in Blocking}]
      BY <1>1 DEF IInv, PackageCurrent, Packaged
    <3>2. package.blocked = {d \in Chapters : claims[d].made /\ verdict[d] \in Blocking}
      BY <3>1
    <3> QED
      BY <3>1, <3>2
  <2>2. claims[c] = IF succeeded(c) THEN _claim(c, verdict[c]) ELSE NoClaim
    BY <1>1 DEF IInv, ClaimsCurrent, Judged, _claims
  <2>3. verdict[c] \in Blocking => ~claims[c].eligible
    BY <2>2, ClaimFields DEF NoClaim
  <2> QED
    BY <2>1, <2>3
<1> QED
  BY <1>1, AssuranceInvariant, PTL

(* Repair: nothing but the manuscript and the sections of a chapter that   *)
(* was not whole ever changes.                                             *)
THEOREM RepairLimits == Spec => RepairKeepsWork
<1>1. ASSUME IInv, [Next]_vars
      PROVE  [\A t \in Tasks : results'[t] # results[t] =>
                t \in Chapters \ Whole /\ results'[t] = Replacement(results[t])]_vars
  <2>1. CASE Repair
    <3>1. PICK completed : results' = [t \in Tasks |->
            IF t \in Targets(completed) \ Whole THEN Replacement(results[t]) ELSE results[t]]
      BY <2>1 DEF Repair
    <3> QED
      BY <3>1, TargetsAreChapters
  <2>2. CASE ~Repair
    <3>1. results' = results
      BY <1>1, <2>2 DEF Next, Quality, Audit, VerifierEscapes, Reaudit, Judge, Assemble, FinalAudit,
           ValidateArtifacts, Fidelity, Rest, vars
    <3> QED
      BY <3>1
  <2> QED
    BY <2>1, <2>2
<1> QED
  BY <1>1, AssuranceInvariant, PTL DEF Spec, RepairKeepsWork
-----------------------------------------------------------------------------
(* McpService.  A line is with one thread at a time: unread, in the queue, *)
(* with the job that works for it, or answered as often as it should be.   *)
JobType == [by : {"reader", "worker", "pool", "daemon"}, line : Nat, run : Runs,
            phase : {"begin", "check", "work"}]

ServiceTypes ==
  /\ request \in Seq(Requests) /\ Len(request) <= MaxLines
  /\ unread \in 1..(Len(request) + 1)
  /\ closed \in BOOLEAN
  /\ reader \in {"loop", "busy", "draining", "exited"}
  /\ queue \in Seq(Lines) /\ waiting \in Seq(Runs)
  /\ jobs \in SUBSET JobType /\ IsFiniteSet(jobs)
  /\ replies \in [Lines -> Nat]
  /\ state \in [Runs -> {"none", "received"} \cup Terminal]
  /\ cancelled \subseteq Runs /\ stored \subseteq Runs
  /\ early \subseteq Runs /\ asked \in 0..MaxAsked

USE DEF Served

(* Which lines a thread holds and has still to answer. *)
Queued(line) == \E i \in 1..Len(queue) : queue[i] = line
Worked(line) == \E j \in jobs : j.by \in Served /\ j.line = line
Held(line)   == Queued(line) \/ Worked(line)

QueueOnce ==
  /\ \A i \in 1..Len(queue) :
       /\ queue[i] < unread /\ ~Worked(queue[i])
       /\ _is_run_request(request[queue[i]])
  /\ \A i, k \in 1..Len(queue) : queue[i] = queue[k] => i = k

JobsOnce ==
  \A j \in jobs : j.by \in Served =>
    /\ j.line \in 1..(unread - 1) /\ request[j.line].op \in Ops
    /\ \A k \in jobs : k.by \in Served /\ k.line = j.line => k = j

(* The reader has at most one job, and is in it or past its loop.          *)
ReaderOnce ==
  /\ reader = "busy" <=> \E j \in jobs : j.by = "reader"
  /\ \A j, k \in jobs : j.by = "reader" /\ k.by = "reader" => j = k
  /\ reader \in {"draining", "exited"} => closed /\ unread > Len(request)
  /\ reader = "exited" => queue = <<>> /\ \A j \in jobs : j.by # "worker"

Replies ==
  \A line \in Lines :
    replies[line] = IF line < unread /\ ~Held(line) /\ Expected(line) THEN 1 ELSE 0

PoolsBounded ==
  /\ Count({"worker"}) <= Workers
  /\ Count({"pool"}) <= AsyncWorkers
  /\ Count({"daemon"}) <= DaemonThreads

ServiceInv ==
  /\ ServiceTypes
  /\ QueueOnce
  /\ JobsOnce
  /\ ReaderOnce
  /\ Replies
  /\ PoolsBounded

(* Part of a finite set is finite and no larger. *)
LEMMA SmallerSet ==
  ASSUME NEW S, IsFiniteSet(S), NEW T \in SUBSET S
  PROVE  /\ IsFiniteSet(T) /\ Cardinality(T) \in Nat /\ Cardinality(S) \in Nat
         /\ Cardinality(T) <= Cardinality(S)
BY FS_Subset, FS_CardinalityType

(* One job more is at most one more to count. *)
LEMMA OneMore ==
  ASSUME NEW S, IsFiniteSet(S), NEW x, NEW T \in SUBSET (S \cup {x})
  PROVE  /\ IsFiniteSet(T) /\ Cardinality(T) \in Nat /\ Cardinality(S) \in Nat
         /\ Cardinality(T) <= Cardinality(S) + 1
<1>1. IsFiniteSet(S \cup {x}) /\ Cardinality(S \cup {x}) <= Cardinality(S) + 1
  <2>1. /\ IsFiniteSet(S \cup {x})
        /\ Cardinality(S \cup {x}) = IF x \in S THEN Cardinality(S) ELSE Cardinality(S) + 1
    BY FS_AddElement
  <2>2. Cardinality(S) \in Nat
    BY FS_CardinalityType
  <2> QED
    BY <2>1, <2>2
<1> QED
  BY <1>1, SmallerSet, FS_CardinalityType

(* A job in the place of another leaves the count as it was, at most. *)
LEMMA OneForAnother ==
  ASSUME NEW S, IsFiniteSet(S), NEW j \in S, NEW x, NEW T \in SUBSET ((S \ {j}) \cup {x})
  PROVE  Cardinality(T) \in Nat /\ Cardinality(S) \in Nat /\ Cardinality(T) <= Cardinality(S)
<1>1. IsFiniteSet(S \ {j}) /\ Cardinality(S \ {j}) = Cardinality(S) - 1
  BY FS_RemoveElement
<1>2. Cardinality(T) \in Nat /\ Cardinality(T) <= Cardinality(S \ {j}) + 1
  BY <1>1, OneMore
<1> QED
  BY <1>1, <1>2, FS_CardinalityType

(* The jobs of a pool when one begins, goes on or ends. *)
By(by) == {j \in jobs : j.by \in by}

(* The jobs of a kind are a finite set, and counted as one. *)
LEMMA CountTypes ==
  ASSUME ServiceTypes, NEW by PROVE IsFiniteSet(By(by)) /\ Count(by) = Cardinality(By(by))
<1>1. By(by) \in SUBSET jobs
  BY DEF By
<1> QED
  BY <1>1, SmallerSet DEF ServiceTypes, Count, By

(* What waits in the queue was read. *)
LEMMA QueuedLines ==
  ASSUME ServiceInv
  PROVE  \A i \in 1..Len(queue) : queue[i] \in Lines /\ queue[i] \in Nat /\ queue[i] < unread
<1>1. queue \in Seq(Lines) /\ \A i \in 1..Len(queue) : queue[i] < unread
  BY DEF ServiceInv, ServiceTypes, QueueOnce
<1>2. \A i \in 1..Len(queue) : queue[i] \in Lines
  BY <1>1, ElementOfSeq, Zenon
<1>3. \A line \in Lines : line \in Nat
  BY McpAssumption DEF Lines
<1> QED
  BY <1>1, <1>2, <1>3, Zenon

(* A job that begins where there is a thread for it keeps the pools        *)
(* bounded.                                                                *)
LEMMA JobBegins ==
  ASSUME ServiceInv, NEW x \in JobType, jobs' = jobs \cup {x},
         x.by = "worker" => Count({"worker"}) < Workers,
         x.by = "pool" => Count({"pool"}) < AsyncWorkers,
         x.by = "daemon" => Count({"daemon"}) < DaemonThreads
  PROVE  jobs' \in SUBSET JobType /\ IsFiniteSet(jobs') /\ PoolsBounded'
<1>1. jobs' \in SUBSET JobType /\ IsFiniteSet(jobs')
  BY FS_AddElement DEF ServiceInv, ServiceTypes
<1>2. Workers \in Nat /\ AsyncWorkers \in Nat /\ DaemonThreads \in Nat
  BY McpAssumption
<1>3. ASSUME NEW by \in {"worker", "pool", "daemon"}
      PROVE  /\ Cardinality(By({by})') <= IF x.by = by THEN Cardinality(By({by})) + 1
                                          ELSE Cardinality(By({by}))
             /\ Cardinality(By({by})') \in Nat /\ Cardinality(By({by})) \in Nat
  <2>1. IsFiniteSet(By({by}))
    BY CountTypes DEF ServiceInv
  <2>2. CASE x.by = by
    <3>1. By({by})' \in SUBSET (By({by}) \cup {x})
      BY DEF By
    <3> QED
      BY <2>1, <2>2, <3>1, OneMore
  <2>3. CASE x.by # by
    <3>1. By({by})' \in SUBSET By({by})
      BY <2>3 DEF By
    <3> QED
      BY <2>1, <2>3, <3>1, SmallerSet
  <2> QED
    BY <2>2, <2>3
<1>4. \A by : Count(by) = Cardinality(By(by)) /\ Count(by)' = Cardinality(By(by)')
  BY DEF Count, By
<1>5. Count({"worker"})' <= Workers
  BY <1>2, <1>3, <1>4 DEF ServiceInv, PoolsBounded
<1>6. Count({"pool"})' <= AsyncWorkers
  BY <1>2, <1>3, <1>4 DEF ServiceInv, PoolsBounded
<1>7. Count({"daemon"})' <= DaemonThreads
  BY <1>2, <1>3, <1>4 DEF ServiceInv, PoolsBounded
<1> QED
  BY <1>1, <1>5, <1>6, <1>7 DEF PoolsBounded

(* A job at its next step stays the one job of its line. *)
LEMMA JobGoesOn ==
  ASSUME ServiceInv, NEW j \in jobs, NEW x \in JobType, x.by = j.by, x.line = j.line,
         jobs' = (jobs \ {j}) \cup {x}
  PROVE  /\ jobs' \in SUBSET JobType /\ IsFiniteSet(jobs') /\ PoolsBounded'
         /\ \A line : Worked(line)' <=> Worked(line)
         /\ \A i, k \in jobs' : i.by \in Served /\ k.by \in Served /\ k.line = i.line => k = i
         /\ \A by : (\E k \in jobs' : k.by = by) <=> \E k \in jobs : k.by = by
         /\ \A i, k \in jobs' : i.by = "reader" /\ k.by = "reader" => i = k
<1>1. jobs' \in SUBSET JobType /\ IsFiniteSet(jobs')
  BY FS_RemoveElement, FS_AddElement DEF ServiceInv, ServiceTypes
<1>2. ASSUME NEW by \in {"worker", "pool", "daemon"}
      PROVE  /\ Count({by})' <= Count({by})
             /\ Count({by}) \in Nat /\ Count({by})' \in Nat
  <2>1. IsFiniteSet(By({by}))
    BY CountTypes DEF ServiceInv
  <2>2. Count({by}) = Cardinality(By({by})) /\ Count({by})' = Cardinality(By({by})')
    BY DEF Count, By
  <2>3. CASE j.by = by
    <3>1. By({by})' \in SUBSET ((By({by}) \ {j}) \cup {x}) /\ j \in By({by})
      BY <2>3 DEF By
    <3> QED
      BY <2>1, <2>2, <3>1, OneForAnother
  <2>4. CASE j.by # by
    <3>1. By({by})' \in SUBSET By({by})
      BY <2>4 DEF By
    <3> QED
      BY <2>1, <2>2, <3>1, SmallerSet
  <2> QED
    BY <2>3, <2>4
<1>3. PoolsBounded'
  BY <1>2, McpAssumption DEF ServiceInv, PoolsBounded
<1>4. \A line : Worked(line)' <=> Worked(line)
  BY DEF Worked
<1>5. \A i, k \in jobs' : i.by \in Served /\ k.by \in Served /\ k.line = i.line => k = i
  BY DEF ServiceInv, JobsOnce
<1>6. \A i, k \in jobs' : i.by = "reader" /\ k.by = "reader" => i = k
  BY DEF ServiceInv, ReaderOnce
<1> QED
  BY <1>1, <1>3, <1>4, <1>5, <1>6

(* A job that ends sets its line free and no other. *)
LEMMA JobEnds ==
  ASSUME ServiceInv, NEW j \in jobs, jobs' = jobs \ {j}
  PROVE  /\ jobs' \in SUBSET JobType /\ IsFiniteSet(jobs') /\ PoolsBounded'
         /\ \A line : Worked(line)' <=> Worked(line) /\ (j.by \notin Served \/ line # j.line)
<1>1. jobs' \in SUBSET JobType /\ IsFiniteSet(jobs')
  BY FS_RemoveElement DEF ServiceInv, ServiceTypes
<1>2. ASSUME NEW by \in {"worker", "pool", "daemon"}
      PROVE  /\ Count({by})' <= Count({by})
             /\ Count({by}) \in Nat /\ Count({by})' \in Nat
  <2>1. IsFiniteSet(By({by})) /\ By({by})' \in SUBSET By({by})
    BY CountTypes DEF ServiceInv, By
  <2>2. Count({by}) = Cardinality(By({by})) /\ Count({by})' = Cardinality(By({by})')
    BY DEF Count, By
  <2> QED
    BY <2>1, <2>2, SmallerSet
<1>3. PoolsBounded'
  BY <1>2, McpAssumption DEF ServiceInv, PoolsBounded
<1>4. ASSUME NEW line
      PROVE  Worked(line)' <=> Worked(line) /\ (j.by \notin Served \/ line # j.line)
  BY DEF Worked, ServiceInv, JobsOnce
<1> QED
  BY <1>1, <1>3, <1>4

(* What is written changes nothing that was read. *)
LEMMA ClientSteps == ServiceInv /\ Client => ServiceInv'
<1> SUFFICES ASSUME ServiceInv, Client PROVE ServiceInv'
  OBVIOUS
<1>1. CASE ClientClose
  BY <1>1 DEF ClientClose, ServiceInv, ServiceTypes, QueueOnce, JobsOnce, ReaderOnce, Replies,
       PoolsBounded, Held, Queued, Worked, Expected, Count
<1>2. ASSUME NEW q \in Requests, ClientWrite(q) PROVE ServiceInv'
  <2>1. /\ request \in Seq(Requests) /\ Len(request) < MaxLines /\ ~closed
        /\ request' = Append(request, q) /\ unread \in 1..(Len(request) + 1)
    BY <1>2 DEF ClientWrite, ServiceInv, ServiceTypes
  <2>2. /\ request' \in Seq(Requests) /\ Len(request') = Len(request) + 1
        /\ \A i \in 1..Len(request) : request'[i] = request[i]
    BY <2>1, AppendProperties
  <2>3. UNCHANGED <<unread, closed, reader, queue, waiting, jobs, replies, state, cancelled, stored, early, asked>>
    BY <1>2 DEF ClientWrite
  <2>4. \A line \in Lines : line < unread => request'[line] = request[line]
    BY <2>1, <2>2, McpAssumption DEF Lines
  <2>5. ServiceTypes'
    BY <2>1, <2>2, <2>3, McpAssumption DEF ServiceInv, ServiceTypes
  <2>6. QueueOnce'
    <3>1. \A i \in 1..Len(queue) : queue[i] \in Lines
      BY ElementOfSeq DEF ServiceInv, ServiceTypes
    <3> QED
      BY <2>3, <2>4, <3>1 DEF ServiceInv, QueueOnce, Worked
  <2>7. Replies'
    BY <2>3, <2>4 DEF ServiceInv, Replies, Held, Queued, Worked, Expected
  <2>8. ReaderOnce' /\ PoolsBounded'
    BY <2>1, <2>3 DEF ServiceInv, ReaderOnce, PoolsBounded, Count
  <2>9. JobsOnce'
    <3>1. \A i \in 1..(unread - 1) : i \in 1..Len(request)
      BY <2>1
    <3> QED
      BY <2>2, <2>3, <3>1 DEF ServiceInv, JobsOnce
  <2> QED
    BY <2>5, <2>6, <2>7, <2>8, <2>9 DEF ServiceInv
<1> QED
  BY <1>1, <1>2 DEF Client

(* The daemon touches no line: it adds a run to those that wait, asks for  *)
(* a cancellation, or begins a job of its own.                             *)
LEMMA DaemonSteps == ServiceInv /\ Daemon => ServiceInv'
<1> SUFFICES ASSUME ServiceInv, Daemon PROVE ServiceInv'
  OBVIOUS
<1>1. UNCHANGED <<request, unread, closed, reader, queue, replies, stored>>
  BY DEF Daemon, DaemonCreate, DaemonCancel, DaemonResume
<1>2. waiting' \in Seq(Runs)
  <2>1. CASE DaemonCreate
    <3>1. 0 \in Runs /\ waiting \in Seq(Runs)
      BY McpAssumption DEF Runs, ServiceInv, ServiceTypes
    <3> QED
      BY <2>1, <3>1, AppendProperties DEF DaemonCreate
  <2>2. CASE ~DaemonCreate
    BY <2>2 DEF Daemon, DaemonCancel, DaemonResume, ServiceInv, ServiceTypes
  <2> QED
    BY <2>1, <2>2
<1>3. /\ state' \in [Runs -> {"none", "received"} \cup Terminal]
      /\ cancelled' \subseteq Runs /\ early' \subseteq Runs /\ asked' \in 0..MaxAsked
  <2>1. MaxAsked \in Nat
    BY McpAssumption
  <2>2. CASE DaemonCreate
    BY <2>2 DEF DaemonCreate, ServiceInv, ServiceTypes
  <2>3. ASSUME NEW r \in Runs, DaemonCancel(r) \/ DaemonResume(r)
        PROVE  /\ state' \in [Runs -> {"none", "received"} \cup Terminal]
               /\ cancelled' \subseteq Runs /\ early' \subseteq Runs /\ asked' \in 0..MaxAsked
    <3>1. asked' \in 0..MaxAsked
      BY <2>1, <2>3 DEF DaemonCancel, DaemonResume, AskDaemon, ServiceInv, ServiceTypes
    <3>2. Cancel(r) \/ ResumeStart(r)
      BY <2>3 DEF DaemonCancel, DaemonResume
    <3> QED
      BY <3>1, <3>2 DEF Cancel, ResumeStart, ServiceInv, ServiceTypes, Terminal
  <2> QED
    BY <2>2, <2>3 DEF Daemon
<1>4. CASE UNCHANGED jobs
  <2>1. ServiceTypes'
    BY <1>1, <1>2, <1>3, <1>4 DEF ServiceInv, ServiceTypes
  <2>2. QueueOnce' /\ JobsOnce' /\ ReaderOnce' /\ Replies' /\ PoolsBounded'
    BY <1>1, <1>4 DEF ServiceInv, QueueOnce, JobsOnce, ReaderOnce, Replies,
         PoolsBounded, Held, Queued, Worked, Expected, Count
  <2> QED
    BY <2>1, <2>2 DEF ServiceInv
<1>5. ASSUME NEW r \in Runs, DaemonResume(r) PROVE ServiceInv'
  <2>1. Count({"daemon"}) < DaemonThreads
    BY <1>5 DEF DaemonResume
  <2>2. PICK thread \in 1..DaemonThreads : jobs' = jobs \cup {Job("daemon", thread, r, "check")}
    BY <1>5 DEF DaemonResume
  <2> DEFINE x == Job("daemon", thread, r, "check")
  <2>3. x \in JobType /\ x.by = "daemon"
    BY McpAssumption DEF Job, JobType
  <2>4. jobs' \in SUBSET JobType /\ IsFiniteSet(jobs') /\ PoolsBounded'
    BY <2>1, <2>2, <2>3, JobBegins
  <2> HIDE DEF x
  <2>5. jobs' = jobs \cup {x}
    BY <2>2 DEF x
  <2>6. \A l : Worked(l)' <=> Worked(l)
    BY <2>3, <2>5 DEF Worked
  <2>7. ServiceTypes'
    BY <1>1, <1>2, <1>3, <2>4 DEF ServiceInv, ServiceTypes
  <2>8. QueueOnce' /\ Replies'
    BY <1>1, <2>6 DEF ServiceInv, QueueOnce, Replies, Held, Queued, Expected
  <2>9. JobsOnce' /\ ReaderOnce'
    BY <1>1, <2>3, <2>5 DEF ServiceInv, JobsOnce, ReaderOnce
  <2> QED
    BY <2>4, <2>7, <2>8, <2>9 DEF ServiceInv
<1> QED
  BY <1>4, <1>5 DEF Daemon, DaemonCreate, DaemonCancel

(* A line nobody has read is with nobody. *)
LEMMA UnreadLine ==
  ASSUME ServiceInv, Reading
  PROVE  /\ unread \in Lines /\ request[unread] \in Requests /\ unread <= Len(request)
         /\ ~Held(unread) /\ replies[unread] = 0 /\ reader = "loop"
         /\ \A j \in jobs : j.by # "reader"
<1>1. unread \in Lines /\ unread \in 1..Len(request) /\ reader = "loop"
  BY McpAssumption DEF Reading, ServiceInv, ServiceTypes, Lines
<1>2. request[unread] \in Requests
  BY <1>1, ElementOfSeq DEF ServiceInv, ServiceTypes
<1>3. ~Queued(unread)
  BY <1>1, McpAssumption DEF ServiceInv, ServiceTypes, QueueOnce, Queued, Lines
<1>4. ~Worked(unread)
  BY <1>1, McpAssumption DEF ServiceInv, JobsOnce, Worked, Lines
<1>5. replies[unread] = 0
  BY <1>1, McpAssumption DEF ServiceInv, Replies, Lines
<1>6. \A j \in jobs : j.by # "reader"
  BY <1>1 DEF ServiceInv, ReaderOnce
<1> QED
  BY <1>1, <1>2, <1>3, <1>4, <1>5, <1>6 DEF Held

(* The line just read, if it goes neither to the queue nor to a job, is    *)
(* answered at once or has no answer to get.                               *)
LEMMA ReadLine ==
  ASSUME ServiceInv, Reading, Consumed, UNCHANGED <<reader, queue, jobs>>,
         replies' = IF Expected(unread) THEN [replies EXCEPT ![unread] = @ + 1] ELSE replies
  PROVE  /\ replies' \in [Lines -> Nat] /\ unread' \in 1..(Len(request') + 1)
         /\ QueueOnce' /\ JobsOnce' /\ ReaderOnce' /\ Replies' /\ PoolsBounded'
<1>1. /\ unread \in Lines /\ unread <= Len(request)
      /\ ~Held(unread) /\ replies[unread] = 0 /\ reader = "loop"
  BY UnreadLine
<1>2. /\ unread' = unread + 1 /\ UNCHANGED <<request, closed>>
      /\ replies \in [Lines -> Nat] /\ unread \in 1..(Len(request) + 1) /\ Len(request) \in Nat
  BY LenProperties DEF Consumed, ServiceInv, ServiceTypes
<1>3. replies' \in [Lines -> Nat] /\ unread' \in 1..(Len(request') + 1)
  BY <1>1, <1>2
<1>4. QueueOnce'
  <2>1. \A i \in 1..Len(queue) : queue[i] \in Lines
    BY ElementOfSeq DEF ServiceInv, ServiceTypes
  <2> QED
    BY <1>2, <2>1, McpAssumption DEF ServiceInv, QueueOnce, Worked, Lines
<1>5. JobsOnce' /\ ReaderOnce' /\ PoolsBounded'
  BY <1>1, <1>2 DEF ServiceInv, JobsOnce, ReaderOnce, PoolsBounded, Count
<1>6. Replies'
  <2> SUFFICES ASSUME NEW line \in Lines
               PROVE  replies'[line] =
                        IF line < unread' /\ ~Held(line)' /\ Expected(line)' THEN 1 ELSE 0
    BY DEF Replies
  <2>1. /\ Held(line)' <=> Held(line)
        /\ Expected(line)' <=> Expected(line)
    BY <1>2 DEF Held, Queued, Worked, Expected
  <2>2. replies[line] = IF line < unread /\ ~Held(line) /\ Expected(line) THEN 1 ELSE 0
    BY DEF ServiceInv, Replies
  <2>3. line \in Nat /\ (line < unread' <=> line < unread \/ line = unread)
    BY <1>2, McpAssumption DEF Lines
  <2> QED
    BY <1>1, <1>2, <2>1, <2>2, <2>3
<1> QED
  BY <1>3, <1>4, <1>5, <1>6

(* A line that is no request is answered at once, or skipped when blank. *)
LEMMA ReadBadSteps == ServiceInv /\ ReadBad => ServiceInv'
<1> SUFFICES ASSUME ServiceInv, ReadBad PROVE ServiceInv'
  OBVIOUS
<1>1. /\ Reading /\ request[unread].op \in Bad /\ Consumed
      /\ IF request[unread].op = "blank" THEN NoReply ELSE Answer(unread)
      /\ UNCHANGED <<reader, queue, waiting, jobs, state, cancelled, stored, early, asked>>
  BY DEF ReadBad
<1>2. request[unread].id = "absent"
  BY <1>1, UnreadLine DEF Requests, Bad, Ops
<1>3. replies' = IF Expected(unread) THEN [replies EXCEPT ![unread] = @ + 1] ELSE replies
  BY <1>1, <1>2 DEF Expected, NoReply, Answer, Bad
<1>4. /\ replies' \in [Lines -> Nat] /\ unread' \in 1..(Len(request') + 1)
      /\ QueueOnce' /\ JobsOnce' /\ ReaderOnce' /\ Replies' /\ PoolsBounded'
  BY <1>1, <1>3, ReadLine
<1>5. ServiceTypes'
  BY <1>1, <1>4 DEF Consumed, ServiceInv, ServiceTypes
<1> QED
  BY <1>4, <1>5 DEF ServiceInv

(* A run with an id moves from the input to the end of the queue. *)
LEMMA ReadRunSteps == ServiceInv /\ ReadRun => ServiceInv'
<1> SUFFICES ASSUME ServiceInv, ReadRun PROVE ServiceInv'
  OBVIOUS
<1>1. /\ Reading /\ _is_run_request(request[unread]) /\ queue' = Append(queue, unread)
      /\ unread' = unread + 1
      /\ UNCHANGED <<request, closed, reader, waiting, jobs, replies, state, cancelled, stored, early, asked>>
  BY DEF ReadRun, Consumed
<1>2. /\ unread \in Lines /\ unread <= Len(request)
      /\ ~Held(unread) /\ replies[unread] = 0 /\ reader = "loop"
      /\ unread \in Nat /\ Len(request) \in Nat
  <2>1. request \in Seq(Requests) /\ unread \in 1..(Len(request) + 1)
    BY DEF ServiceInv, ServiceTypes
  <2>2. Len(request) \in Nat
    BY <2>1, LenProperties
  <2> QED
    BY <1>1, <2>1, <2>2, UnreadLine
<1>3. /\ queue' \in Seq(Lines) /\ Len(queue') = Len(queue) + 1 /\ Len(queue) \in Nat
      /\ \A i \in 1..Len(queue) : queue'[i] = queue[i]
      /\ queue'[Len(queue) + 1] = unread
  BY <1>1, <1>2, AppendProperties, LenProperties DEF ServiceInv, ServiceTypes
<1>4. \A i \in 1..Len(queue) : queue[i] \in Lines /\ queue[i] \in Nat /\ queue[i] < unread
  BY QueuedLines
<1>5. ServiceTypes'
  BY <1>1, <1>2, <1>3 DEF ServiceInv, ServiceTypes
<1>6. QueueOnce'
  <2>1. \A i \in 1..Len(queue') :
          (i \in 1..Len(queue) /\ queue'[i] = queue[i]) \/ (i = Len(queue) + 1 /\ queue'[i] = unread)
    BY <1>3
  <2>2. ASSUME NEW i \in 1..Len(queue')
        PROVE  (/\ queue[i] < unread /\ ~Worked(queue[i])
                /\ _is_run_request(request[queue[i]]))'
    BY <1>1, <1>2, <1>4, <2>1 DEF ServiceInv, QueueOnce, Worked, Held, _is_run_request
  <2>3. ASSUME NEW i \in 1..Len(queue'), NEW k \in 1..Len(queue'), queue'[i] = queue'[k]
        PROVE  i = k
    BY <1>4, <1>2, <2>1, <2>3 DEF ServiceInv, QueueOnce
  <2>4. \A i \in 1..Len(queue') :
          (/\ queue[i] < unread /\ ~Worked(queue[i])
           /\ _is_run_request(request[queue[i]]))'
    BY <2>2
  <2> QED
    BY <2>3, <2>4 DEF QueueOnce
<1>7. JobsOnce' /\ ReaderOnce' /\ PoolsBounded'
  BY <1>1, <1>2 DEF ServiceInv, JobsOnce, ReaderOnce, PoolsBounded, Count
<1>8. Replies'
  <2> SUFFICES ASSUME NEW line \in Lines
               PROVE  replies'[line] =
                        IF line < unread' /\ ~Held(line)' /\ Expected(line)' THEN 1 ELSE 0
    BY DEF Replies
  <2>1. Queued(line)' <=> Queued(line) \/ line = unread
    <3>1. ASSUME NEW i \in 1..Len(queue'), queue'[i] = line PROVE Queued(line) \/ line = unread
      BY <1>3, <3>1 DEF Queued
    <3>2. Len(queue) + 1 \in 1..Len(queue') /\ 1..Len(queue) \subseteq 1..Len(queue')
      BY <1>3
    <3> QED
      BY <1>3, <3>1, <3>2 DEF Queued
  <2>2. /\ Held(line)' <=> Held(line) \/ line = unread
        /\ Expected(line)' <=> Expected(line)
    BY <1>1, <2>1 DEF Held, Worked, Expected
  <2>3. replies[line] = IF line < unread /\ ~Held(line) /\ Expected(line) THEN 1 ELSE 0
    BY DEF ServiceInv, Replies
  <2>4. line \in Nat /\ (line < unread' <=> line < unread \/ line = unread)
    BY <1>1, <1>2, McpAssumption DEF Lines
  <2> QED
    BY <1>1, <1>2, <2>2, <2>3, <2>4
<1> QED
  BY <1>5, <1>6, <1>7, <1>8 DEF ServiceInv

(* The reader's own job holds its line as the queue would. *)
LEMMA ReaderBegins ==
  ASSUME ServiceInv, Reading, Consumed, request[unread].op \in Ops,
         NEW r \in Runs, NEW phase \in {"begin", "check"},
         jobs' = jobs \cup {Job("reader", unread, r, phase)}, reader' = "busy",
         UNCHANGED <<queue, replies>>
  PROVE  /\ jobs' \in SUBSET JobType /\ IsFiniteSet(jobs') /\ unread' \in 1..(Len(request') + 1)
         /\ QueueOnce' /\ JobsOnce' /\ ReaderOnce' /\ Replies' /\ PoolsBounded'
<1> DEFINE x == Job("reader", unread, r, phase)
<1>1. /\ unread \in Lines /\ unread <= Len(request) /\ ~Held(unread) /\ replies[unread] = 0
      /\ \A j \in jobs : j.by # "reader"
  BY UnreadLine
<1>2. /\ unread' = unread + 1 /\ UNCHANGED <<request, closed>>
      /\ unread \in Nat \ {0} /\ Len(request) \in Nat /\ MaxLines \in Nat /\ unread \in 0..MaxLines
  BY <1>1, LenProperties, McpAssumption DEF Consumed, ServiceInv, ServiceTypes, Lines
<1>3. x \in JobType /\ x.by = "reader" /\ x.line = unread
  BY <1>2 DEF Job, JobType
<1>4. jobs' \in SUBSET JobType /\ IsFiniteSet(jobs') /\ PoolsBounded'
  BY <1>3, JobBegins
<1> HIDE DEF x
<1>5. \A line : Worked(line)' <=> Worked(line) \/ line = unread
  BY <1>3 DEF Worked, x
<1>6. \A i \in 1..Len(queue) : queue[i] \in Nat /\ queue[i] < unread
  BY QueuedLines
<1>7. QueueOnce'
  BY <1>2, <1>5, <1>6 DEF ServiceInv, QueueOnce
<1>8. JobsOnce'
  <2>1. \A j \in jobs : j.by \in Served => j.line \in 1..(unread - 1)
    BY DEF ServiceInv, JobsOnce
  <2> SUFFICES ASSUME NEW j \in jobs', j.by \in Served
               PROVE  /\ j.line \in 1..(unread' - 1) /\ request'[j.line].op \in Ops
                      /\ \A k \in jobs' : k.by \in Served /\ k.line = j.line => k = j
    BY DEF JobsOnce
  <2>2. jobs' = jobs \cup {x}
    BY DEF x
  <2>3. CASE j \in jobs
    <3>1. j.line \in 1..(unread - 1)
      BY <2>1, <2>3
    <3> QED
      BY <1>2, <1>3, <2>2, <2>3, <3>1 DEF ServiceInv, JobsOnce
  <2>4. CASE j = x
    BY <1>2, <1>3, <2>1, <2>2, <2>4
  <2> QED
    BY <2>2, <2>3, <2>4
<1>9. ReaderOnce'
  <2>1. jobs' = jobs \cup {x} /\ reader = "loop" /\ reader' = "busy"
    BY UnreadLine DEF x
  <2> QED
    BY <1>1, <1>3, <2>1 DEF ReaderOnce
<1>10. Replies'
  <2> SUFFICES ASSUME NEW line \in Lines
               PROVE  replies'[line] =
                        IF line < unread' /\ ~Held(line)' /\ Expected(line)' THEN 1 ELSE 0
    BY DEF Replies
  <2>1. /\ Held(line)' <=> Held(line) \/ line = unread
        /\ Expected(line)' <=> Expected(line)
    BY <1>2, <1>5 DEF Held, Queued, Expected
  <2>2. replies[line] = IF line < unread /\ ~Held(line) /\ Expected(line) THEN 1 ELSE 0
    BY DEF ServiceInv, Replies
  <2>3. line \in Nat /\ (line < unread' <=> line < unread \/ line = unread)
    BY <1>2, McpAssumption DEF Lines
  <2> QED
    BY <1>1, <2>1, <2>2, <2>3
<1>11. unread' \in 1..(Len(request') + 1)
  BY <1>1, <1>2
<1> QED
  BY <1>4, <1>7, <1>8, <1>9, <1>10, <1>11

(* What the reader handles itself: a job of its own, a run handed to the   *)
(* asynchronous pool, or an answer at once.                                *)
LEMMA ReadInlineSteps == ServiceInv /\ ReadInline => ServiceInv'
<1> SUFFICES ASSUME ServiceInv, ReadInline PROVE ServiceInv'
  OBVIOUS
<1> DEFINE q == request[unread]
<1>1. /\ Reading /\ q.op \in Ops /\ Consumed /\ UNCHANGED <<queue, stored, asked>>
      /\ ~ (_is_run_request(q) /\ q.id # "absent")
  BY DEF ReadInline
<1>2. /\ unread \in Lines /\ q \in Requests /\ reader = "loop"
  BY <1>1, UnreadLine
<1>3. q.run \in Runs /\ unread \in Runs
  BY <1>2, McpAssumption DEF Requests, Runs, Lines
<1>4. Expected(unread) <=> q.id = "value"
  BY <1>1 DEF Expected, Ops, Bad
<1>5. ASSUME UNCHANGED <<reader, jobs>>, Reply(unread),
             waiting' \in Seq(Runs), state' \in [Runs -> {"none", "received"} \cup Terminal],
             cancelled' \subseteq Runs, early' \subseteq Runs
      PROVE  ServiceInv'
  <2>1. replies' = IF Expected(unread) THEN [replies EXCEPT ![unread] = @ + 1] ELSE replies
    BY <1>4, <1>5 DEF Reply, Answer
  <2>2. /\ replies' \in [Lines -> Nat] /\ unread' \in 1..(Len(request') + 1)
        /\ QueueOnce' /\ JobsOnce' /\ ReaderOnce' /\ Replies' /\ PoolsBounded'
    BY <1>1, <1>5, <2>1, ReadLine
  <2>3. ServiceTypes'
    BY <1>1, <1>5, <2>2 DEF Consumed, ServiceInv, ServiceTypes
  <2> QED
    BY <2>2, <2>3 DEF ServiceInv
<1>6. ASSUME NEW r \in Runs, NEW phase \in {"begin", "check"},
             jobs' = jobs \cup {Job("reader", unread, r, phase)}, reader' = "busy",
             UNCHANGED <<replies, waiting>>,
             state' \in [Runs -> {"none", "received"} \cup Terminal], cancelled' \subseteq Runs,
             early' \subseteq Runs
      PROVE  ServiceInv'
  <2>1. /\ jobs' \in SUBSET JobType /\ IsFiniteSet(jobs') /\ unread' \in 1..(Len(request') + 1)
        /\ QueueOnce' /\ JobsOnce' /\ ReaderOnce' /\ Replies' /\ PoolsBounded'
    BY <1>1, <1>6, ReaderBegins
  <2>2. ServiceTypes'
    BY <1>1, <1>6, <2>1 DEF Consumed, ServiceInv, ServiceTypes
  <2> QED
    BY <2>1, <2>2 DEF ServiceInv
<1>7. /\ waiting \in Seq(Runs) /\ state \in [Runs -> {"none", "received"} \cup Terminal]
      /\ cancelled \subseteq Runs /\ early \subseteq Runs
  BY DEF ServiceInv, ServiceTypes
<1>8. CASE q.op = "cancel"
  <2>1. Cancel(q.run) /\ Reply(unread) /\ UNCHANGED <<reader, jobs, waiting>>
    BY <1>8 DEF ReadInline
  <2>2. /\ state' \in [Runs -> {"none", "received"} \cup Terminal]
        /\ cancelled' \subseteq Runs /\ early' \subseteq Runs
    BY <1>3, <1>7, <2>1 DEF Cancel, Terminal
  <2> QED
    BY <1>5, <1>7, <2>1, <2>2
<1>9. CASE q.op = "resume" /\ Resumable(q.run)
  <2>1. /\ ResumeStart(q.run) /\ jobs' = jobs \cup {Job("reader", unread, q.run, "check")}
        /\ reader' = "busy" /\ UNCHANGED <<replies, waiting>>
    BY <1>9 DEF ReadInline, NoReply
  <2>2. /\ state' \in [Runs -> {"none", "received"} \cup Terminal]
        /\ cancelled' \subseteq Runs /\ early' \subseteq Runs
    BY <1>3, <1>7, <2>1 DEF ResumeStart
  <2> QED
    BY <1>3, <1>6, <2>1, <2>2
<1>10. CASE q.op = "run"
  <2>1. /\ jobs' = jobs \cup {Job("reader", unread, unread, "begin")}
        /\ reader' = "busy" /\ UNCHANGED <<replies, waiting, state, cancelled, early>>
    BY <1>10 DEF ReadInline, NoReply
  <2> QED
    BY <1>3, <1>6, <1>7, <2>1
<1>11. CASE q.op = "run_start"
  <2>1. /\ waiting' = Append(waiting, unread) /\ UNCHANGED <<reader, jobs, replies, state, cancelled, early>>
    BY <1>11 DEF ReadInline, NoReply
  <2>2. waiting' \in Seq(Runs)
    BY <1>3, <1>7, <2>1, AppendProperties
  <2>3. Reply(unread)
    BY <1>1, <1>11, <2>1 DEF Reply, _is_run_request
  <2> QED
    BY <1>5, <1>7, <2>1, <2>2, <2>3
<1>12. CASE q.op \notin {"cancel", "run", "run_start"} /\ ~(q.op = "resume" /\ Resumable(q.run))
  <2>1. Reply(unread) /\ UNCHANGED <<reader, jobs, waiting, state, cancelled, early>>
    BY <1>12 DEF ReadInline
  <2> QED
    BY <1>5, <1>7, <2>1
<1> QED
  BY <1>8, <1>9, <1>10, <1>11, <1>12

(* A line leaves the head of the queue, for a worker's job or, once the    *)
(* run is with the other pool, for its answer.                             *)
LEMMA WorkerSteps == ServiceInv /\ WorkerTake => ServiceInv'
<1> SUFFICES ASSUME ServiceInv, WorkerTake PROVE ServiceInv'
  OBVIOUS
<1> DEFINE line == Head(queue)
<1>1. /\ queue # <<>> /\ Count({"worker"}) < Workers /\ queue' = Tail(queue)
      /\ UNCHANGED <<request, unread, closed, reader, state, cancelled, stored, early, asked>>
  BY DEF WorkerTake
<1>2. /\ queue \in Seq(Lines) /\ replies \in [Lines -> Nat] /\ waiting \in Seq(Runs)
      /\ unread \in Nat /\ Len(request) \in Nat /\ MaxLines \in Nat /\ Len(queue) \in Nat
  <2>1. request \in Seq(Requests) /\ queue \in Seq(Lines) /\ unread \in 1..(Len(request) + 1)
    BY DEF ServiceInv, ServiceTypes
  <2>2. Len(request) \in Nat /\ Len(queue) \in Nat
    BY <2>1, LenProperties
  <2> QED
    BY <2>1, <2>2, McpAssumption DEF ServiceInv, ServiceTypes
<1>3. /\ queue' \in Seq(Lines) /\ Len(queue') = Len(queue) - 1 /\ Len(queue) \in Nat \ {0}
      /\ line = queue[1] /\ \A i \in 1..Len(queue') : queue'[i] = queue[i + 1]
  <2>1. Len(queue) # 0
    BY <1>1, <1>2, EmptySeq
  <2> QED
    BY <1>1, <1>2, <2>1, HeadTailProperties
<1>4. /\ line \in Lines /\ line \in 0..MaxLines /\ line \in Runs /\ line \in Nat \ {0}
      /\ line < unread
      /\ ~Worked(line) /\ _is_run_request(request[line]) /\ Queued(line)
      /\ \A i \in 2..Len(queue) : queue[i] # line
  <2>1. 1 \in 1..Len(queue) /\ \A i \in 2..Len(queue) : i \in 1..Len(queue) /\ i # 1
    BY <1>3
  <2>2. line \in Lines
    BY <1>2, <1>3, <2>1, ElementOfSeq
  <2> QED
    BY <1>2, <1>3, <2>1, <2>2 DEF ServiceInv, QueueOnce, Queued, Lines, Runs
<1> HIDE DEF line
<1>5. \A l : Queued(l)' <=> Queued(l) /\ l # line
  <2>1. ASSUME NEW l, Queued(l)' PROVE Queued(l) /\ l # line
    <3>1. PICK i \in 1..Len(queue') : queue'[i] = l
      BY <2>1 DEF Queued
    <3>2. i + 1 \in 2..Len(queue) /\ i + 1 \in 1..Len(queue) /\ queue[i + 1] = l
      BY <1>3, <3>1
    <3> QED
      BY <1>4, <3>2 DEF Queued
  <2>2. ASSUME NEW l, Queued(l), l # line PROVE Queued(l)'
    <3>1. PICK i \in 1..Len(queue) : queue[i] = l
      BY <2>2 DEF Queued
    <3>2. i # 1
      BY <1>3, <2>2, <3>1
    <3>3. i - 1 \in 1..Len(queue') /\ queue'[i - 1] = l
      BY <1>3, <3>1, <3>2
    <3> QED
      BY <3>3 DEF Queued
  <2> QED
    BY <2>1, <2>2
<1>6. /\ \A i \in 1..Len(queue') :
           /\ queue'[i] < unread /\ ~Worked(queue'[i]) /\ queue'[i] # line
           /\ _is_run_request(request[queue'[i]])
      /\ \A i, k \in 1..Len(queue') : queue'[i] = queue'[k] => i = k
  <2>1. \A i \in 1..Len(queue') : i \in Nat /\ i + 1 \in 1..Len(queue) /\ i + 1 \in 2..Len(queue)
    BY <1>3
  <2>2. ASSUME NEW i \in 1..Len(queue')
        PROVE  /\ queue'[i] < unread /\ ~Worked(queue'[i]) /\ queue'[i] # line
               /\ _is_run_request(request[queue'[i]])
    BY <1>3, <1>4, <2>1 DEF ServiceInv, QueueOnce
  <2>3. ASSUME NEW i \in 1..Len(queue'), NEW k \in 1..Len(queue'), queue'[i] = queue'[k]
        PROVE  i = k
    <3>1. queue[i + 1] = queue[k + 1]
      BY <1>3, <2>3
    <3>2. i + 1 = k + 1
      BY <2>1, <3>1 DEF ServiceInv, QueueOnce
    <3> QED
      BY <2>1, <3>2
  <2> QED
    BY <2>2, <2>3
<1>7. CASE request[line].op = "run"
  <2> DEFINE x == Job("worker", line, line, "begin")
  <2>1. jobs' = jobs \cup {x} /\ UNCHANGED <<waiting, replies>>
    BY <1>7 DEF WorkerTake, line
  <2>2. x \in JobType /\ x.by = "worker" /\ x.line = line
    BY <1>4 DEF Job, JobType
  <2>3. jobs' \in SUBSET JobType /\ IsFiniteSet(jobs') /\ PoolsBounded'
    BY <1>1, <2>1, <2>2, JobBegins
  <2> HIDE DEF x
  <2>4. \A l : Worked(l)' <=> Worked(l) \/ l = line
    BY <2>1, <2>2 DEF Worked
  <2>5. ServiceTypes'
    BY <1>1, <1>3, <2>1, <2>3 DEF ServiceInv, ServiceTypes
  <2>6. QueueOnce'
    BY <1>1, <1>6, <2>4 DEF QueueOnce, _is_run_request
  <2>7. JobsOnce'
    <3>1. line \in 1..(unread - 1)
      BY <1>2, <1>4
    <3>2. request[line].op \in Ops /\ \A j \in jobs : j.by \in Served => j.line # line
      BY <1>4 DEF Worked, _is_run_request, Ops
    <3>3. ASSUME NEW j \in jobs', j.by \in Served
          PROVE  /\ j.line \in 1..(unread - 1) /\ request[j.line].op \in Ops
                 /\ \A k \in jobs' : k.by \in Served /\ k.line = j.line => k = j
      BY <2>1, <2>2, <3>1, <3>2, <3>3 DEF ServiceInv, JobsOnce
    <3> QED
      BY <1>1, <3>3 DEF JobsOnce
  <2>8. ReaderOnce'
    <3>1. reader # "exited"
      BY <1>1 DEF ServiceInv, ReaderOnce
    <3> QED
      BY <1>1, <2>1, <2>2, <3>1 DEF ServiceInv, ReaderOnce
  <2>9. Replies'
    <3>1. \A l : Held(l)' <=> Held(l)
      BY <1>4, <1>5, <2>4 DEF Held
    <3> QED
      BY <1>1, <2>1, <3>1 DEF ServiceInv, Replies, Expected
  <2> QED
    BY <2>3, <2>5, <2>6, <2>7, <2>8, <2>9 DEF ServiceInv
<1>8. CASE request[line].op # "run"
  <2>1. waiting' = Append(waiting, line) /\ Reply(line) /\ jobs' = jobs
    BY <1>8 DEF WorkerTake, line
  <2>2. waiting' \in Seq(Runs)
    BY <1>2, <1>4, <2>1, AppendProperties
  <2>3. /\ replies[line] = 0 /\ (Expected(line) <=> request[line].id = "value")
        /\ replies' = IF Expected(line) THEN [replies EXCEPT ![line] = @ + 1] ELSE replies
    <3>1. Expected(line) <=> request[line].id = "value"
      BY <1>4 DEF Expected, _is_run_request, Bad
    <3>2. replies[line] = 0
      BY <1>4 DEF ServiceInv, Replies, Held
    <3> QED
      BY <2>1, <3>1, <3>2 DEF Reply, Answer
  <2>4. ServiceTypes'
    <3>1. replies' \in [Lines -> Nat]
      BY <1>2, <1>4, <2>3
    <3> QED
      BY <1>1, <1>3, <2>1, <2>2, <3>1 DEF ServiceInv, ServiceTypes
  <2>5. QueueOnce'
    BY <1>1, <1>6, <2>1 DEF QueueOnce, Worked, _is_run_request
  <2>6. JobsOnce' /\ PoolsBounded'
    BY <1>1, <2>1 DEF ServiceInv, JobsOnce, PoolsBounded, Count
  <2>7. ReaderOnce'
    <3>1. reader # "exited"
      BY <1>1 DEF ServiceInv, ReaderOnce
    <3> QED
      BY <1>1, <2>1, <3>1 DEF ServiceInv, ReaderOnce
  <2>8. Replies'
    <3> SUFFICES ASSUME NEW l \in Lines
                 PROVE  replies'[l] =
                          IF l < unread' /\ ~Held(l)' /\ Expected(l)' THEN 1 ELSE 0
      BY DEF Replies
    <3>1. /\ Held(l)' <=> Held(l) /\ l # line
          /\ Expected(l)' <=> Expected(l)
      BY <1>1, <1>4, <1>5, <2>1 DEF Held, Worked, Expected
    <3>2. replies[l] = IF l < unread /\ ~Held(l) /\ Expected(l) THEN 1 ELSE 0
      BY DEF ServiceInv, Replies
    <3> QED
      BY <1>1, <1>2, <1>4, <2>3, <3>1, <3>2
  <2> QED
    BY <2>4, <2>5, <2>6, <2>7, <2>8 DEF ServiceInv
<1> QED
  BY <1>7, <1>8

(* The asynchronous pool takes the first that waits. *)
LEMMA PoolSteps == ServiceInv /\ PoolTake => ServiceInv'
<1> SUFFICES ASSUME ServiceInv, PoolTake PROVE ServiceInv'
  OBVIOUS
<1> DEFINE x == Job("pool", 0, Head(waiting), "begin")
<1>1. /\ waiting # <<>> /\ Count({"pool"}) < AsyncWorkers
      /\ jobs' = jobs \cup {x} /\ waiting' = Tail(waiting)
      /\ UNCHANGED <<request, unread, closed, reader, queue, replies, state, cancelled, stored, early, asked>>
  BY DEF PoolTake
<1>2. Head(waiting) \in Runs /\ waiting' \in Seq(Runs)
  <2>1. waiting \in Seq(Runs)
    BY DEF ServiceInv, ServiceTypes
  <2> QED
    BY <1>1, <2>1, HeadTailProperties
<1>3. x \in JobType /\ x.by = "pool"
  BY <1>2, McpAssumption DEF Job, JobType
<1>4. jobs' \in SUBSET JobType /\ IsFiniteSet(jobs') /\ PoolsBounded'
  BY <1>1, <1>3, JobBegins
<1> HIDE DEF x
<1>5. \A l : Worked(l)' <=> Worked(l)
  BY <1>1, <1>3 DEF Worked
<1>6. ServiceTypes'
  BY <1>1, <1>2, <1>4 DEF ServiceInv, ServiceTypes
<1>7. QueueOnce' /\ Replies'
  BY <1>1, <1>5 DEF ServiceInv, QueueOnce, Replies, Held, Queued, Expected
<1>8. JobsOnce' /\ ReaderOnce'
  BY <1>1, <1>3 DEF ServiceInv, JobsOnce, ReaderOnce
<1> QED
  BY <1>4, <1>6, <1>7, <1>8 DEF ServiceInv

(* A job goes on: nothing changes hands. *)
LEMMA JobStays ==
  ASSUME ServiceInv, NEW j \in jobs, NEW phase \in {"check", "work"},
         jobs' = (jobs \ {j}) \cup {[j EXCEPT !.phase = phase]},
         UNCHANGED <<request, unread, closed, reader, queue, waiting, replies>>,
         state' \in [Runs -> {"none", "received"} \cup Terminal],
         cancelled' \subseteq Runs, stored' \subseteq Runs, UNCHANGED <<early, asked>>
  PROVE  ServiceInv'
<1> DEFINE x == [j EXCEPT !.phase = phase]
<1>1. j \in JobType
  BY DEF ServiceInv, ServiceTypes
<1>2. x \in JobType /\ x.by = j.by /\ x.line = j.line
  BY <1>1 DEF JobType
<1> HIDE DEF x
<1>3. jobs' = (jobs \ {j}) \cup {x}
  BY DEF x
<1>4. /\ jobs' \in SUBSET JobType /\ IsFiniteSet(jobs') /\ PoolsBounded'
      /\ \A line : Worked(line)' <=> Worked(line)
      /\ \A i, k \in jobs' : i.by \in Served /\ k.by \in Served /\ k.line = i.line => k = i
      /\ \A by : (\E k \in jobs' : k.by = by) <=> \E k \in jobs : k.by = by
      /\ \A i, k \in jobs' : i.by = "reader" /\ k.by = "reader" => i = k
  BY <1>2, <1>3, JobGoesOn
<1>5. ServiceTypes'
  BY <1>4 DEF ServiceInv, ServiceTypes
<1>6. QueueOnce' /\ Replies'
  BY <1>4 DEF ServiceInv, QueueOnce, Replies, Held, Queued, Expected
<1>7. JobsOnce'
  <2>1. \A i \in jobs' : i.by \in Served => i.line \in 1..(unread - 1) /\ request[i.line].op \in Ops
    BY <1>2, <1>3 DEF ServiceInv, JobsOnce
  <2> QED
    BY <1>4, <2>1 DEF JobsOnce
<1>8. ReaderOnce'
  BY <1>4 DEF ServiceInv, ReaderOnce
<1> QED
  BY <1>4, <1>5, <1>6, <1>7, <1>8 DEF ServiceInv

(* A job ends: its line gets its answer, and the reader its loop back. *)
LEMMA JobReleased ==
  ASSUME ServiceInv, NEW j \in jobs, Release(j),
         state' \in [Runs -> {"none", "received"} \cup Terminal]
  PROVE  ServiceInv'
<1>1. /\ jobs' = jobs \ {j}
      /\ IF j.by \in Served THEN Reply(j.line) ELSE NoReply
      /\ reader' = IF j.by = "reader" THEN "loop" ELSE reader
      /\ UNCHANGED <<request, unread, closed, queue, waiting, cancelled, stored, early, asked>>
  BY DEF Release
<1>2. /\ jobs' \in SUBSET JobType /\ IsFiniteSet(jobs') /\ PoolsBounded'
      /\ \A line : Worked(line)' <=> Worked(line) /\ (j.by \notin Served \/ line # j.line)
  BY <1>1, JobEnds
<1>3. /\ j \in JobType /\ replies \in [Lines -> Nat] /\ unread \in 1..(Len(request) + 1)
      /\ Len(request) \in Nat /\ Len(request) <= MaxLines /\ MaxLines \in Nat
  <2>1. request \in Seq(Requests)
    BY DEF ServiceInv, ServiceTypes
  <2>2. Len(request) \in Nat
    BY <2>1, LenProperties
  <2> QED
    BY <2>2, McpAssumption DEF ServiceInv, ServiceTypes
<1>4. j.by \in Served =>
        /\ j.line \in Lines /\ j.line < unread /\ Worked(j.line) /\ ~Queued(j.line)
        /\ replies[j.line] = 0
  <2> SUFFICES ASSUME j.by \in Served
               PROVE  /\ j.line \in Lines /\ j.line < unread /\ Worked(j.line)
                      /\ ~Queued(j.line) /\ replies[j.line] = 0
    OBVIOUS
  <2>1. j.line \in 1..(unread - 1) /\ Worked(j.line)
    BY DEF ServiceInv, JobsOnce, Worked
  <2>2. ~Queued(j.line)
    BY <2>1 DEF ServiceInv, QueueOnce, Queued
  <2>3. j.line \in Lines /\ j.line < unread
    BY <1>3, <2>1 DEF Lines
  <2> QED
    BY <2>1, <2>2, <2>3 DEF ServiceInv, Replies, Held
<1>5. replies' = IF j.by \in Served /\ request[j.line].id = "value"
                 THEN [replies EXCEPT ![j.line] = @ + 1] ELSE replies
  BY <1>1 DEF NoReply, Reply, Answer
<1>6. ServiceTypes'
  <2>1. replies' \in [Lines -> Nat]
    BY <1>3, <1>4, <1>5
  <2> QED
    BY <1>1, <1>2, <2>1 DEF ServiceInv, ServiceTypes
<1>7. QueueOnce'
  BY <1>1, <1>2 DEF ServiceInv, QueueOnce
<1>8. JobsOnce'
  BY <1>1 DEF ServiceInv, JobsOnce
<1>9. ReaderOnce'
  <2>1. CASE j.by = "reader"
    BY <1>1, <2>1 DEF ServiceInv, ReaderOnce
  <2>2. CASE j.by # "reader"
    BY <1>1, <2>2 DEF ServiceInv, ReaderOnce
  <2> QED
    BY <2>1, <2>2
<1>10. Replies'
  <2> SUFFICES ASSUME NEW l \in Lines
               PROVE  replies'[l] =
                        IF l < unread' /\ ~Held(l)' /\ Expected(l)' THEN 1 ELSE 0
    BY DEF Replies
  <2>1. /\ Held(l)' <=> Queued(l) \/ (Worked(l) /\ (j.by \notin Served \/ l # j.line))
        /\ Expected(l)' <=> Expected(l)
    BY <1>1, <1>2 DEF Held, Queued, Expected
  <2>2. replies[l] = IF l < unread /\ ~Held(l) /\ Expected(l) THEN 1 ELSE 0
    BY DEF ServiceInv, Replies
  <2>3. j.by \in Served => (Expected(j.line) <=> request[j.line].id = "value")
    BY DEF ServiceInv, JobsOnce, Expected, Ops, Bad
  <2> QED
    BY <1>1, <1>3, <1>4, <1>5, <2>1, <2>2, <2>3 DEF Held
<1> QED
  BY <1>2, <1>6, <1>7, <1>8, <1>9, <1>10 DEF ServiceInv

(* A job begins its run, checks for a cancellation and finishes. *)
LEMMA WorkSteps == ServiceInv /\ Work => ServiceInv'
<1> SUFFICES ASSUME ServiceInv, NEW j \in jobs, Begin(j) \/ Check(j) \/ Finish(j)
             PROVE  ServiceInv'
  BY DEF Work
<1>1. /\ state \in [Runs -> {"none", "received"} \cup Terminal] /\ j.run \in Runs
      /\ cancelled \subseteq Runs /\ stored \subseteq Runs
  BY DEF ServiceInv, ServiceTypes, JobType
<1>2. CASE Begin(j)
  <2>1. /\ state' \in [Runs -> {"none", "received"} \cup Terminal]
        /\ cancelled' \subseteq Runs /\ stored' \subseteq Runs
    BY <1>1, <1>2 DEF Begin
  <2> QED
    BY <1>2, <2>1, JobStays DEF Begin
<1>3. CASE Check(j)
  <2>1. CASE j.run \in cancelled
    <3>1. Release(j) /\ state' \in [Runs -> {"none", "received"} \cup Terminal]
      BY <1>1, <1>3, <2>1 DEF Check, Terminal
    <3> QED
      BY <3>1, JobReleased
  <2>2. CASE j.run \notin cancelled
    BY <1>1, <1>3, <2>2, JobStays DEF Check
  <2> QED
    BY <2>1, <2>2
<1>4. CASE Finish(j)
  <2>1. Release(j) /\ state' \in [Runs -> {"none", "received"} \cup Terminal]
    BY <1>1, <1>4 DEF Finish, Terminal
  <2> QED
    BY <2>1, JobReleased
<1> QED
  BY <1>2, <1>3, <1>4

(* The input ends, and the server when nothing is left to do. *)
LEMMA EndSteps == ServiceInv /\ (EndOfInput \/ Exit) => ServiceInv'
<1> SUFFICES ASSUME ServiceInv, EndOfInput \/ Exit PROVE ServiceInv'
  OBVIOUS
<1>1. UNCHANGED <<request, unread, closed, queue, waiting, jobs, replies, state, cancelled, stored, early, asked>>
  BY DEF EndOfInput, Exit
<1>2. ServiceTypes'
  BY <1>1 DEF EndOfInput, Exit, ServiceInv, ServiceTypes
<1>3. ReaderOnce'
  <2>1. CASE EndOfInput
    BY <1>1, <2>1 DEF EndOfInput, ServiceInv, ServiceTypes, ReaderOnce
  <2>2. CASE Exit
    <3>1. IsFiniteSet(By({"worker"})) /\ Cardinality(By({"worker"})) = 0
      BY <2>2, CountTypes DEF Exit, ServiceInv
    <3>2. By({"worker"}) = {}
      BY <3>1, FS_EmptySet
    <3>3. \A j \in jobs : j.by # "worker"
      BY <3>2 DEF By
    <3> QED
      BY <1>1, <2>2, <3>3 DEF Exit, ServiceInv, ReaderOnce
  <2> QED
    BY <2>1, <2>2
<1>4. QueueOnce' /\ JobsOnce' /\ Replies' /\ PoolsBounded'
  BY <1>1 DEF ServiceInv, QueueOnce, JobsOnce, Replies, PoolsBounded, Held, Queued, Worked,
       Expected, Count
<1> QED
  BY <1>2, <1>3, <1>4 DEF ServiceInv

(* Nothing has been read at first. *)
LEMMA InitServiceInv == ServiceInit => ServiceInv
<1> SUFFICES ASSUME ServiceInit PROVE ServiceInv
  OBVIOUS
<1>1. MaxLines \in Nat /\ Workers \in Nat /\ AsyncWorkers \in Nat /\ DaemonThreads \in Nat
  BY McpAssumption
<1>2. /\ Len(request) = 0 /\ Len(queue) = 0
      /\ request \in Seq(Requests) /\ queue \in Seq(Lines) /\ waiting \in Seq(Runs)
  BY EmptySeq DEF ServiceInit
<1>3. IsFiniteSet(jobs) /\ jobs = {}
  BY FS_EmptySet DEF ServiceInit
<1>4. ServiceTypes
  <2>1. unread \in 1..(Len(request) + 1)
    BY <1>2 DEF ServiceInit
  <2>2. jobs \in SUBSET JobType /\ cancelled \subseteq Runs /\ stored \subseteq Runs
    BY DEF ServiceInit
  <2>3. replies \in [Lines -> Nat] /\ state \in [Runs -> {"none", "received"} \cup Terminal]
    BY DEF ServiceInit
  <2>4. Len(request) <= MaxLines
    BY <1>1, <1>2
  <2>5. closed \in BOOLEAN /\ reader = "loop" /\ early \subseteq Runs
    BY DEF ServiceInit
  <2>6. asked \in 0..MaxAsked
    BY McpAssumption DEF ServiceInit
  <2> QED
    BY <1>2, <1>3, <2>1, <2>2, <2>3, <2>4, <2>5, <2>6 DEF ServiceTypes
<1>5. PoolsBounded
  <2>1. \A by : By(by) = {} /\ Count(by) = Cardinality(By(by))
    BY <1>3 DEF By, Count
  <2> QED
    BY <1>1, <2>1, FS_EmptySet DEF PoolsBounded
<1>6. Replies
  <2>1. \A line \in Lines : ~(line < unread)
    BY <1>1 DEF ServiceInit, Lines
  <2> QED
    BY <2>1 DEF ServiceInit, Replies
<1> QED
  BY <1>2, <1>3, <1>4, <1>5, <1>6 DEF ServiceInit, ServiceInv, QueueOnce, JobsOnce, ReaderOnce

(* Of every line it is known who has it, or that it has its answer. *)
THEOREM ServiceInvariant == ServiceSpec => []ServiceInv
<1>1. ServiceInv /\ [ServiceNext]_serviceVars => ServiceInv'
  <2> SUFFICES ASSUME ServiceInv, [ServiceNext]_serviceVars PROVE ServiceInv'
    OBVIOUS
  <2>1. CASE UNCHANGED serviceVars
    BY <2>1 DEF serviceVars, ServiceInv, ServiceTypes, QueueOnce, JobsOnce, ReaderOnce, Replies,
         PoolsBounded, Held, Queued, Worked, Expected, Count
  <2> QED
    BY <2>1, ClientSteps, DaemonSteps, WorkSteps, ReadBadSteps, ReadRunSteps, ReadInlineSteps,
       WorkerSteps, PoolSteps, EndSteps DEF ServiceNext, Serve, Reader
<1> QED
  BY <1>1, InitServiceInv, PTL DEF ServiceSpec

(* The pools never run more jobs than they have threads, and the reader is *)
(* busy exactly while it has its one job.                                  *)
THEOREM ServiceTypeCorrect == ServiceSpec => []ServiceTypeOK
<1>1. ASSUME ServiceInv PROVE ServiceTypeOK
  <2>1. request \in Seq(Requests) /\ Len(request) <= MaxLines /\ unread \in 1..(Len(request) + 1)
    BY <1>1 DEF ServiceInv, ServiceTypes
  <2>2. unread \in 1..(MaxLines + 1)
    <3>1. Len(request) \in Nat
      BY <2>1, LenProperties
    <3> QED
      BY <2>1, <3>1, McpAssumption
  <2>3. IsFiniteSet(By({"reader"})) /\ Count({"reader"}) = Cardinality(By({"reader"}))
    BY <1>1, CountTypes DEF ServiceInv
  <2>4. CASE reader = "busy"
    <3>1. \E j : By({"reader"}) = {j}
      BY <1>1, <2>4 DEF ServiceInv, ReaderOnce, By
    <3>2. Count({"reader"}) = 1
      BY <2>3, <3>1, FS_Singleton
    <3> QED
      BY <1>1, <2>1, <2>2, <2>4, <3>2 DEF ServiceInv, ServiceTypes, PoolsBounded,
         ServiceTypeOK, JobType
  <2>5. CASE reader # "busy"
    <3>1. By({"reader"}) = {}
      BY <1>1, <2>5 DEF ServiceInv, ReaderOnce, By
    <3>2. Count({"reader"}) = 0
      BY <2>3, <3>1, FS_EmptySet
    <3> QED
      BY <1>1, <2>1, <2>2, <2>5, <3>2 DEF ServiceInv, ServiceTypes, PoolsBounded,
         ServiceTypeOK, JobType
  <2> QED
    BY <2>4, <2>5
<1> QED
  BY <1>1, ServiceInvariant, PTL

(* Whoever handles a request, it is answered once if it is to be answered, *)
(* and nothing is owed when the server has ended.                          *)
THEOREM Answers == ServiceSpec => []AnsweredOnce
<1>1. ASSUME ServiceInv PROVE AnsweredOnce
  <2> SUFFICES ASSUME NEW line \in DOMAIN request
               PROVE  /\ replies[line] <= IF Expected(line) THEN 1 ELSE 0
                      /\ reader = "exited" /\ Expected(line) => replies[line] = 1
    BY DEF AnsweredOnce
  <2>1. /\ Len(request) \in Nat /\ line \in 1..Len(request) /\ Len(request) <= MaxLines
        /\ unread \in Nat
    <3>1. request \in Seq(Requests) /\ Len(request) <= MaxLines /\ unread \in 1..(Len(request) + 1)
      BY <1>1 DEF ServiceInv, ServiceTypes
    <3> QED
      BY <3>1, LenProperties
  <2>2. line \in Lines
    BY <2>1, McpAssumption DEF Lines
  <2>3. replies[line] = IF line < unread /\ ~Held(line) /\ Expected(line) THEN 1 ELSE 0
    BY <1>1, <2>2 DEF ServiceInv, Replies
  <2>4. ASSUME reader = "exited", Expected(line) PROVE replies[line] = 1
    <3>1. line < unread
      BY <1>1, <2>1, <2>4 DEF ServiceInv, ReaderOnce
    <3>2. ~Queued(line)
      <4>1. queue = <<>>
        BY <1>1, <2>4 DEF ServiceInv, ReaderOnce
      <4> QED
        BY <4>1 DEF Queued
    <3>3. ~Worked(line)
      BY <1>1, <2>4 DEF ServiceInv, ReaderOnce, ServiceTypes, JobType, Worked
    <3> QED
      BY <2>3, <2>4, <3>1, <3>2, <3>3 DEF Held
  <2> QED
    BY <2>3, <2>4
<1> QED
  BY <1>1, ServiceInvariant, PTL

(* What makes an early cancellation stick: its row stays, and whoever has  *)
(* begun a run has left its request file.                                  *)
CancelInv ==
  /\ \A r \in early : r \in cancelled
  /\ \A j \in jobs : j.phase # "begin" => j.run \in stored
  /\ EarlyCancelSticks

(* The client and the reader: a cancellation, or a resume of a stored run. *)
LEMMA CancelKeeps ==
  ASSUME ServiceInv, CancelInv, NEW r \in Runs, Cancel(r), UNCHANGED <<jobs, stored>>
  PROVE  CancelInv'
<1>1. state \in [Runs -> {"none", "received"} \cup Terminal] /\ early \subseteq Runs
  BY DEF ServiceInv, ServiceTypes
<1>2. CASE state[r] \in Terminal
  BY <1>2 DEF Cancel, CancelInv, EarlyCancelSticks
<1>3. CASE state[r] \notin Terminal
  <2>1. r \notin stored => \A j \in jobs : j.run = r => j.phase # "work"
    BY DEF CancelInv
  <2> QED
    BY <1>1, <1>3, <2>1 DEF Cancel, CancelInv, EarlyCancelSticks
<1> QED
  BY <1>2, <1>3

LEMMA ResumeKeeps ==
  ASSUME ServiceInv, CancelInv, NEW r \in Runs, Resumable(r), ResumeStart(r),
         NEW by, NEW line, jobs' = jobs \cup {Job(by, line, r, "check")}, UNCHANGED stored
  PROVE  CancelInv'
<1>1. state \in [Runs -> {"none", "received"} \cup Terminal] /\ early \subseteq Runs
  BY DEF ServiceInv, ServiceTypes
<1>2. r \in stored /\ early' = early \ {r} /\ cancelled' = cancelled \ {r}
  BY DEF Resumable, ResumeStart
<1>3. \A i \in Runs : i # r => state'[i] = state[i]
  BY <1>1 DEF ResumeStart
<1>4. \A j \in jobs' : j \in jobs \/ (j.run = r /\ j.phase = "check")
  BY DEF Job
<1> QED
  BY <1>1, <1>2, <1>3, <1>4 DEF CancelInv, EarlyCancelSticks

(* A job of a run that was cancelled early stops at its check. *)
LEMMA WorkKeeps ==
  ASSUME ServiceInv, CancelInv, NEW j \in jobs, Begin(j) \/ Check(j) \/ Finish(j)
  PROVE  CancelInv'
<1>1. /\ state \in [Runs -> {"none", "received"} \cup Terminal] /\ early \subseteq Runs
      /\ j \in JobType /\ UNCHANGED early
  BY DEF ServiceInv, ServiceTypes, Begin, Check, Finish, Release
<1>2. CASE Begin(j)
  <2>1. /\ UNCHANGED cancelled /\ stored' = stored \cup {j.run}
        /\ \A r \in Runs : state'[r] = state[r] \/ state'[r] = "received"
    BY <1>1, <1>2 DEF Begin
  <2>2. \A i \in jobs' : i \in jobs \/ (i.run = j.run /\ i.phase = "check")
    BY <1>1, <1>2 DEF Begin, JobType
  <2> QED
    BY <1>1, <2>1, <2>2 DEF CancelInv, EarlyCancelSticks
<1>3. CASE Check(j) /\ j.run \in cancelled
  <2>1. /\ UNCHANGED <<cancelled, stored>> /\ jobs' \subseteq jobs
        /\ \A r \in Runs : state'[r] = state[r] \/ state'[r] = "cancelled"
    BY <1>1, <1>3 DEF Check, Release
  <2> QED
    BY <1>1, <2>1 DEF CancelInv, EarlyCancelSticks
<1>4. CASE Check(j) /\ j.run \notin cancelled
  <2>1. UNCHANGED <<cancelled, stored, state>> /\ j.run \in stored /\ j.run \notin early
    BY <1>4 DEF Check, CancelInv
  <2>2. \A i \in jobs' : i \in jobs \/ i.run = j.run
    BY <1>1, <1>4 DEF Check, JobType
  <2> QED
    BY <1>1, <2>1, <2>2 DEF CancelInv, EarlyCancelSticks
<1>5. CASE Finish(j)
  <2>1. /\ UNCHANGED <<cancelled, stored>> /\ jobs' \subseteq jobs /\ j.run \notin early
        /\ \A r \in Runs : r # j.run => state'[r] = state[r]
    BY <1>1, <1>5 DEF Finish, Release, CancelInv, EarlyCancelSticks
  <2> QED
    BY <1>1, <2>1 DEF CancelInv, EarlyCancelSticks
<1> QED
  BY <1>2, <1>3, <1>4, <1>5

(* The reader cancels, resumes, begins a run or leaves both rows alone. *)
LEMMA InlineKeeps == ServiceInv /\ CancelInv /\ ReadInline => CancelInv'
<1> SUFFICES ASSUME ServiceInv, CancelInv, ReadInline PROVE CancelInv'
  OBVIOUS
<1> DEFINE q == request[unread]
<1>1. Reading /\ q \in Requests /\ UNCHANGED stored
  BY UnreadLine DEF ReadInline
<1>2. q.run \in Runs
  BY <1>1, McpAssumption DEF Requests, Runs
<1>3. CASE q.op = "cancel"
  BY <1>1, <1>2, <1>3, CancelKeeps DEF ReadInline
<1>4. CASE q.op = "resume" /\ Resumable(q.run)
  BY <1>1, <1>2, <1>4, ResumeKeeps DEF ReadInline
<1>5. CASE q.op # "cancel" /\ ~(q.op = "resume" /\ Resumable(q.run))
  <2>1. /\ UNCHANGED <<state, cancelled, early, stored>>
        /\ \A j \in jobs' : j \in jobs \/ j.phase = "begin"
    BY <1>5 DEF ReadInline, Job
  <2> QED
    BY <2>1 DEF CancelInv, EarlyCancelSticks
<1> QED
  BY <1>3, <1>4, <1>5

(* For any number of lines, threads and daemon requests: a run cancelled   *)
(* before it began is not worked on, and ends neither delivered nor        *)
(* failed, unless it is resumed after it began.                            *)
THEOREM Cancellations == ServiceSpec => []EarlyCancelSticks
<1>1. ServiceInit => CancelInv
  BY DEF ServiceInit, CancelInv, EarlyCancelSticks
<1>2. ServiceInv /\ CancelInv /\ [ServiceNext]_serviceVars => CancelInv'
  <2> SUFFICES ASSUME ServiceInv, CancelInv, [ServiceNext]_serviceVars PROVE CancelInv'
    OBVIOUS
  <2>1. CASE UNCHANGED serviceVars
    BY <2>1 DEF serviceVars, CancelInv, EarlyCancelSticks
  <2>2. CASE Work
    BY <2>2, WorkKeeps DEF Work
  <2>3. ASSUME NEW r \in Runs, DaemonCancel(r) PROVE CancelInv'
    BY <2>3, CancelKeeps DEF DaemonCancel
  <2>4. ASSUME NEW r \in Runs, DaemonResume(r) PROVE CancelInv'
    BY <2>4, ResumeKeeps DEF DaemonResume
  <2>5. CASE WorkerTake \/ PoolTake
    <3>1. /\ UNCHANGED <<state, cancelled, early, stored>>
          /\ \A j \in jobs' : j \in jobs \/ j.phase = "begin"
      BY <2>5 DEF WorkerTake, PoolTake, Job
    <3> QED
      BY <3>1 DEF CancelInv, EarlyCancelSticks
  <2>6. CASE Client \/ DaemonCreate \/ ReadBad \/ ReadRun \/ EndOfInput \/ Exit
    <3>1. UNCHANGED <<jobs, state, cancelled, early, stored>>
      BY <2>6 DEF Client, ClientClose, ClientWrite, DaemonCreate, ReadBad, ReadRun, EndOfInput,
           Exit
    <3> QED
      BY <3>1 DEF CancelInv, EarlyCancelSticks
  <2> QED
    BY <2>1, <2>2, <2>3, <2>4, <2>5, <2>6, InlineKeeps DEF ServiceNext, Serve, Reader, Daemon
<1>3. CancelInv => EarlyCancelSticks
  BY DEF CancelInv
<1> QED
  BY <1>1, <1>2, <1>3, ServiceInvariant, PTL DEF ServiceSpec
=============================================================================
