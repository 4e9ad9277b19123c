----------------------------- MODULE Assurance -----------------------------
(***************************************************************************)
(* How a run decides whether what it made may be delivered: the quality    *)
(* stage, the audit of the claims against the chunks each chapter was      *)
(* given, one round of repair, the second evaluation and audit, the        *)
(* validator panel, the package with its citations, the audit of the       *)
(* package, the validation of the artifacts and the fidelity audit.        *)
(*                                                                         *)
(* A chapter makes one claim.  A manuscript is "whole", "malformed" (a     *)
(* section has a blank heading, objective or body) or "missing".  A        *)
(* violation is a kind and the tasks its message names; scores, warnings   *)
(* and wording are left out, and so are checks that no result of the       *)
(* pipeline fails (an empty manifest, an invalid DAG, a paused task).      *)
(***************************************************************************)
EXTENDS Naturals, FiniteSets, Functions

CONSTANTS
  Chapters,   \* final_synthesis tasks
  Chunks,     \* chunks of the run
  Strays,     \* references that name no chunk
  Given,      \* what a chapter may be given of them
  Works,      \* what a successful chapter may bring
  Modes,      \* verification modes
  Checks,     \* what the repository's commands may report
  Defects     \* outcomes of the artifact validation and the fidelity audit


Support == {"T-GAP-ANALYSIS", "T-ARTIFACT-BUILD", "T-QUALITY"}
Tasks   == Chapters \cup Support
Refs    == Chunks \cup Strays
Successful == {"completed", "cached"}
Blocking   == {"contradicted", "insufficient"}
Unasked == "unasked"

VARIABLES
  mode,      \* verification mode of the invocation
  consumed,  \* chapter -> chunk_refs_by_task
  results,   \* task -> [status, manuscript, sections, stated, refs]
  stopped,   \* the ledger has stopped a call of a chapter
  checks,    \* statuses of the RepoValidationReport
  repaired,  \* the repair graph: "none", "completed" or "failed"
  pc,
  verdict,   \* chapter -> answer in the verifier's cache
  claims,    \* chapter -> EvidenceClaim of the last audit
  passed, violations,   \* QualityGateResult
  package,   \* [cited |-> chapter -> refs, blocked |-> chapters]
  audited    \* the last audit passed

judged  == <<verdict, claims, audited>>
quality == <<passed, violations>>
given   == <<mode, consumed, stopped, checks>>
vars    == <<given, results, repaired, pc, judged, quality, package>>

(* RepoValidationRunner.run: without a shell every command is skipped, with *)
(* one the command is executed or is not on the list.                      *)
validations == {{}, {"skipped"}} \cup SUBSET {"blocked", "passed", "failed"}

Result(status, manuscript, sections, stated, refs) ==
  [status |-> status, manuscript |-> manuscript, sections |-> sections,
   stated |-> stated, refs |-> refs]
ASSUME WorksAssumption ==
  /\ Chapters \cap Support = {}
  /\ Modes \subseteq {"structural", "semantic", "required_semantic", "unavailable"}
  /\ Given \subseteq SUBSET Chunks
  /\ Checks \subseteq validations
  /\ Works \subseteq [status : Successful, manuscript : {"whole", "malformed"},
                     sections : SUBSET Refs, stated : BOOLEAN, refs : SUBSET Refs]

NoClaim == [made |-> FALSE, resolved |-> FALSE, eligible |-> FALSE, refs |-> {}]

succeeded(t) == results[t].status \in Successful
Whole == {c \in Chapters : results[c].manuscript = "whole"}

(* What the scheduler leaves: a task whose dependency did not succeed is   *)
(* skipped; a chapter that did succeed has a manuscript, which refers to   *)
(* what it likes, and one that did not has none.                           *)
Stage(status) == Result(status, "missing", {}, TRUE, {})
Failure == Stage("failed")

Init ==
  /\ mode \in Modes
  /\ consumed \in [Chapters -> Given]
  /\ checks \in Checks
  /\ \E gap, built, evaluated \in BOOLEAN :
       \E chapter \in [Chapters -> IF gap THEN Works \cup {Failure} ELSE {Stage("skipped")}] :
         LET whole == \A c \in Chapters : chapter[c].status \in Successful
             After(ok, ran) == IF ~ok THEN Stage("skipped")
                               ELSE IF ran THEN Stage("completed") ELSE Stage("failed")
         IN  /\ results = [t \in Tasks |->
                  CASE t \in Chapters -> chapter[t]
                    [] t = "T-GAP-ANALYSIS" -> After(TRUE, gap)
                    [] t = "T-ARTIFACT-BUILD" -> After(whole, built)
                    [] t = "T-QUALITY" -> After(whole /\ built, evaluated)]
             /\ stopped \in {FALSE, \E c \in Chapters : chapter[c].status = "failed"}
  /\ pc = "quality" /\ repaired = "none"
  /\ verdict = [c \in Chapters |-> Unasked]
  /\ claims = [c \in Chapters |-> NoClaim] /\ audited = FALSE
  /\ passed = FALSE /\ violations = {}
  /\ package = [cited |-> [c \in Chapters |-> {}], blocked |-> {}]
-----------------------------------------------------------------------------
Violation(kind, tasks) == {[kind |-> k, tasks |-> tasks] : k \in {x \in {kind} : tasks # {}}}
InRun(kind) == [kind |-> kind, tasks |-> {"run"}]

(* ValidatorRegistry: the manuscripts, the executions *)
_manuscript_findings(rs) ==
  Violation("lack a manuscript", {c \in Chapters : rs[c].manuscript = "missing"})
    \cup Violation("malformed manuscript", {c \in Chapters : rs[c].manuscript = "malformed"})
_execution_findings(rs, rep) ==
  Violation("failed", {t \in Tasks : rs[t].status = "failed"})
    \cup {v \in {InRun("failed")} : rep = "failed"}
validators(rs, rep) == _manuscript_findings(rs) \cup _execution_findings(rs, rep)

(* QualityGateEngine.evaluate: what was skipped is only warned about, and  *)
(* so is a command that was not executed.                                  *)
evaluate(rs, rep) ==
  validators(rs, rep) \cup {v \in {InRun("repository validation")} : "failed" \in checks}

(* The quality stage has evaluated the run, or there is no evaluation. *)
Quality ==
  /\ pc = "quality"
  /\ violations' = IF succeeded("T-QUALITY") THEN evaluate(results, repaired)
                   ELSE {InRun("quality stage did not complete")}
  /\ passed' = (violations' = {})
  /\ pc' = "audit"
  /\ UNCHANGED <<given, results, repaired, judged, package>>
-----------------------------------------------------------------------------
(* The verifiers.  The structural one resolves references and never says   *)
(* "supported"; without an authorized provider everything is unknown; a    *)
(* provider's answer that is no verdict is unknown too.                    *)
StructuralVerdict(c) ==
  IF results[c].refs = {} \/ ~(results[c].refs \subseteq consumed[c]) THEN "insufficient"
  ELSE "unknown"
ProviderVerdicts == {"supported", "contradicted", "insufficient", "unknown"}
verify(c) ==
  CASE mode = "structural" -> {StructuralVerdict(c)}
    [] mode = "unavailable" -> {"unknown"}
    [] mode \in {"semantic", "required_semantic"} -> ProviderVerdicts

(* The claims of the successful chapters that were given chunks are asked  *)
(* about, those with an answer not again.                                  *)
Asked == {c \in Chapters : succeeded(c) /\ consumed[c] # {}}

(* mutant: an answer is asked for in every audit *)
VerdictsAnew ==
  {v \in [Chapters -> ProviderVerdicts \cup {Unasked}] :
     \A c \in Chapters : IF c \in Asked THEN v[c] \in verify(c) ELSE v[c] = Unasked}

Verdicts ==
  {v \in [Chapters -> ProviderVerdicts \cup {Unasked}] :
     \A c \in Chapters :
       v[c] \in IF c \in Asked /\ verdict[c] = Unasked THEN verify(c) ELSE {verdict[c]}}

Resolves(c) ==
  /\ results[c].refs # {}
  /\ results[c].refs \subseteq Chunks
  /\ results[c].refs \subseteq consumed[c]

(* EvidenceAuditor._claim of a chapter, whose evidence is always required  *)
_claim(c, v) ==
  LET fits == Resolves(c) /\ results[c].stated /\ v \notin Blocking IN
  [made |-> TRUE, resolved |-> fits, eligible |-> fits, refs |-> results[c].refs]

_claims(v) == [c \in Chapters |-> IF succeeded(c) THEN _claim(c, v[c]) ELSE NoClaim]

(* mutant: an unknown verdict never blocks *)
AuditPassesUnknown(cs, v, final) ==
  LET made == {c \in Chapters : cs[c].made}
  IN  /\ \E c \in Chapters : results[c].refs # {}
      /\ \A c \in Chapters : results[c].refs \subseteq Chunks
      /\ \A c \in made : cs[c].resolved /\ v[c] \notin Blocking

(* EvidenceAuditor.audit.  The references of the outputs are those of the  *)
(* claims; a package cites inline what its chapters cite.                  *)
AuditPasses(cs, v, final) ==
  LET made     == {c \in Chapters : cs[c].made}
      blockers == Blocking \cup (IF mode = "required_semantic" THEN {"unknown"} ELSE {})
      eligible == {c \in made : cs[c].eligible}
  IN  /\ \E c \in Chapters : results[c].refs # {}
      /\ \A c \in Chapters : results[c].refs \subseteq Chunks
      /\ \A c \in made : cs[c].refs \subseteq consumed[c]
      /\ \A c \in made : cs[c].resolved
      /\ \A c \in made : v[c] \notin blockers
      /\ final => \A c \in eligible : cs[c].refs \subseteq UNION Range(package.cited)

(* apply_to_quality: without a chapter's claim, a contract that asks for   *)
(* sources, as the compiled ones do, counts.                               *)
Apply(ok) ==
  /\ audited' = ok
  /\ passed' = (passed /\ ok)
  /\ violations' = violations \cup {v \in {InRun("evidence")} : ~ok}

Audit ==
  /\ pc = "audit"
  /\ verdict' \in Verdicts
  /\ claims' = _claims(verdict')
  /\ Apply(AuditPasses(claims', verdict', FALSE))
  /\ pc' = IF passed' THEN "judge" ELSE "repair"
  /\ UNCHANGED <<given, results, repaired, package>>

(* A ledger's stop or a command's timeout is not caught by the verifier. *)
VerifierEscapes ==
  /\ pc \in {"audit", "reaudit", "final"} /\ mode \in {"semantic", "required_semantic"}
  /\ \E c \in Asked : verdict[c] = Unasked
  /\ pc' = "failed"
  /\ UNCHANGED <<given, results, repaired, judged, quality, package>>
-----------------------------------------------------------------------------
(* RepairPlanner: one task per violation, aimed at the tasks it names; all *)
(* of them are executed, and some may fail.  _apply_repair_replacements    *)
(* takes a completed repair of a violation that speaks of manuscripts and  *)
(* makes what is not whole of the chapter's own summary.  The task         *)
(* T-REPAIR-VALIDATE comes after all of them and has a result like them.   *)
create_repair_dag == violations
Targets(repairs) ==
  Chapters \cap UNION {v.tasks : v \in {r \in repairs :
                         r.kind \in {"lack a manuscript", "malformed manuscript"}}}
Replacement(r) == [r EXCEPT !.manuscript = "whole", !.sections = r.refs]

(* mutant: any completed repair replaces every manuscript *)
RepairEverything ==
  /\ pc = "repair"
  /\ \E completed \in SUBSET create_repair_dag, validated \in BOOLEAN :
       /\ results' = [t \in Tasks |->
            IF completed # {} /\ t \in Chapters THEN Replacement(results[t]) ELSE results[t]]
       /\ repaired' = IF completed = create_repair_dag /\ validated
                       THEN "completed" ELSE "failed"
  /\ violations' = evaluate(results', repaired') /\ passed' = (violations' = {})
  /\ pc' = "reaudit"
  /\ UNCHANGED <<given, judged, package>>

(* The repaired results are evaluated as if there had been no stage. *)
Repair ==
  /\ pc = "repair"
  /\ \E completed \in SUBSET create_repair_dag, validated \in BOOLEAN :
       /\ results' = [t \in Tasks |->
            IF t \in Targets(completed) \ Whole THEN Replacement(results[t]) ELSE results[t]]
       /\ repaired' = IF completed = create_repair_dag /\ validated
                       THEN "completed" ELSE "failed"
  /\ violations' = evaluate(results', repaired') /\ passed' = (violations' = {})
  /\ pc' = "reaudit"
  /\ UNCHANGED <<given, judged, package>>

Reaudit ==
  /\ pc = "reaudit"
  /\ verdict' \in Verdicts
  /\ claims' = _claims(verdict')
  /\ Apply(AuditPasses(claims', verdict', FALSE))
  /\ pc' = "judge"
  /\ UNCHANGED <<given, results, repaired, package>>

(* The ledger's stop, and the validator panel once more. *)
Judge ==
  /\ pc = "judge"
  /\ violations' = violations \cup validators(results, repaired)
                     \cup {v \in {InRun("budget stop")} : stopped}
  /\ passed' = (passed /\ ~stopped /\ validators(results, repaired) = {})
  /\ pc' = "assemble"
  /\ UNCHANGED <<given, results, repaired, judged, package>>

(* ProductOwner.assemble: citations of eligible claims, and the claims     *)
(* that a verdict has blocked.                                             *)
Assemble ==
  /\ pc = "assemble"
  /\ package' = [cited   |-> [c \in Chapters |-> IF claims[c].eligible THEN claims[c].refs ELSE {}],
                 blocked |-> {c \in Chapters : claims[c].made /\ verdict[c] \in Blocking}]
  /\ pc' = "final"
  /\ UNCHANGED <<given, results, repaired, judged, quality>>

FinalAudit ==
  /\ pc = "final"
  /\ verdict' \in Verdicts
  /\ claims' = _claims(verdict')
  /\ Apply(AuditPasses(claims', verdict', TRUE))
  /\ pc' = "validate"
  /\ UNCHANGED <<given, results, repaired, package>>

(* mutant: the errors are reported only *)
ValidateAndReport ==
  /\ pc = "validate"
  /\ \E errors \in SUBSET Defects : violations' = violations \cup {InRun(e) : e \in errors}
  /\ pc' = "fidelity"
  /\ UNCHANGED <<given, results, repaired, judged, passed, package>>

(* The artifacts are built of the package and validated one by one. *)
ValidateArtifacts ==
  /\ pc = "validate"
  /\ \E errors \in SUBSET (Defects \cap {"pdf", "docx", "pptx", "image", "patch_plan"}) :
       /\ passed' = (passed /\ errors = {})
       /\ violations' = violations \cup {InRun(e) : e \in errors}
  /\ pc' = "fidelity"
  /\ UNCHANGED <<given, results, repaired, judged, package>>

(* ContextArtifactFidelityAuditor: chunk identities, the references of the *)
(* outputs and of their sections, the bytes of the artifacts.              *)
Faithful(c) ==
  succeeded(c) =>
    results[c].refs \cup results[c].sections \subseteq Chunks \cap consumed[c]
Fidelity ==
  /\ pc = "fidelity"
  /\ \E changed \in SUBSET (Defects \cap {"duplicate chunk", "changed artifact"}) :
       LET ok == changed = {} /\ \A c \in Chapters : Faithful(c)
       IN  /\ passed' = (passed /\ ok)
           /\ violations' = violations \cup {v \in {InRun("fidelity")} : ~ok}
  /\ pc' = "done"
  /\ UNCHANGED <<given, results, repaired, judged, package>>

Rest == pc \in {"done", "failed"} /\ UNCHANGED vars

Next == \/ Quality \/ Audit \/ VerifierEscapes \/ Repair \/ Reaudit \/ Judge
        \/ Assemble \/ FinalAudit \/ ValidateArtifacts \/ Fidelity \/ Rest

Spec == Init /\ [][Next]_vars
-----------------------------------------------------------------------------
TypeOK ==
  /\ mode \in Modes
  /\ consumed \in [Chapters -> SUBSET Chunks]
  /\ DOMAIN results = Tasks
  /\ verdict \in [Chapters -> ProviderVerdicts \cup {Unasked}]
  /\ DOMAIN claims = Chapters
  /\ checks \in Checks /\ repaired \in {"none", "completed", "failed"}
  /\ passed \in BOOLEAN /\ audited \in BOOLEAN
  /\ DOMAIN package.cited = Chapters
  /\ passed => violations = {}

(* A run that passes has every task done and every manuscript whole; each  *)
(* chapter states its claim, rests it on chunks it was given and cites     *)
(* exactly those; no verdict speaks against one and, where semantic        *)
(* verification is required, each is supported; no call was stopped and no *)
(* repair or command of the repository failed.                             *)
DeliveredIsSound ==
  pc = "done" /\ passed =>
    /\ ~stopped /\ repaired # "failed" /\ "failed" \notin checks
    /\ \A t \in Tasks : succeeded(t)
    /\ \A c \in Chapters :
         /\ c \in Whole /\ results[c].stated
         /\ results[c].refs # {}
         /\ results[c].refs \cup results[c].sections \subseteq consumed[c]
         /\ package.cited[c] = results[c].refs
         /\ verdict[c] \notin Blocking
         /\ mode = "required_semantic" => verdict[c] = "supported"

(* What the package cites is eligible in the last audit as it was in the   *)
(* one before, and a claim the package says was rejected is not cited,     *)
(* whether the run passes or not.                                          *)
CitationsStand ==
  pc \in {"validate", "fidelity", "done"} =>
    \A c \in Chapters :
      /\ package.cited[c] # {} => claims[c].eligible /\ package.cited[c] = claims[c].refs
      /\ c \in package.blocked => ~claims[c].eligible /\ package.cited[c] = {}

(* Repair touches the manuscripts that were not whole and nothing else: no *)
(* good chapter is replaced, and no failed one becomes successful.         *)
RepairKeepsWork ==
  [][\A t \in Tasks : results'[t] # results[t] =>
       t \in Chapters \ Whole /\ results'[t] = Replacement(results[t])]_vars
=============================================================================
