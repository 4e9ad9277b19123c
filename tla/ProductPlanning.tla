-------------------------- MODULE ProductPlanning --------------------------
(***************************************************************************)
(* What a run promises and the plan that is to keep it, as functions of    *)
(* the invocation: the product contract, the approval gates, the task      *)
(* graph, the budget put on it and the product plan.  A prompt is the set  *)
(* of the words the code looks for in it, a price is a tier, titles and    *)
(* texts are left out.                                                     *)
(*                                                                         *)
(* A graph is [nodes |-> sequence of names, deps |-> name -> sequence].    *)
(***************************************************************************)
EXTENDS Naturals, Sequences, FiniteSets, SequencesExt, FiniteSetsExt

Meets(words, some) == words \cap some # {}

(* ProductContractCompiler *)
_infer_run_type(words, types) ==
  IF Meets(words, {"report", "research", "pdf"}) THEN "research_report"
  ELSE IF "repo" \in types \/ Meets(words, {"repo", "codebase"})
       THEN IF Meets(words, {"review", "audit"}) THEN "code_review"
            ELSE "repo_implementation"
  ELSE IF "document" \in words THEN "research_report"
  ELSE IF Meets(words, {"image", "screenshot", "visual"}) THEN "visual_task"
  ELSE "orchestrated_task"

_infer_primary_artifacts(words, requested) ==
  LET named == requested \cup (words \cap {"pdf", "docx", "patch"})
                 \cup {a \in {"pptx"} : "ppt" \in words}
                 \cup {a \in {"image"} : Meets(words, {"image", "screenshot", "visual"})}
  IN  IF named = {} THEN {"final_report"} ELSE named

compile_contract(o, types) ==
  [words |-> o.words,
   run_type |-> _infer_run_type(o.words, types),
   artifacts |-> _infer_primary_artifacts(o.words, o.artifacts),
   constraints |-> [internet |-> o.internet, writes |-> o.writes,
                    shell |-> o.shell, privacy |-> o.privacy]]

(* ApprovalGateEngine: the gates, and whether the report says "blocked".   *)
(* Nothing stops a run whose report does.                                  *)
Gate(required, granted, blocking) ==
  [required |-> required, granted |-> granted, blocking |-> blocking]

InternetGate(o, links, types) ==
  LET required == links \/ Meets(types, {"url", "api"})
  IN  Gate(required, o.internet, required)
RepoWriteGate(o, contract) ==
  Gate(contract.run_type = "repo_implementation" \/ "patch" \in contract.artifacts,
       o.writes, FALSE)
ShellGate(o, contract, types) ==
  Gate(contract.run_type \in {"repo_implementation", "code_review"} \/ "repo" \in types,
       o.shell, FALSE)
CloudGate(o) ==
  LET required == o.privacy \in {"local_only", "explicit_approval"}
  IN  Gate(required,
           o.privacy # "local_only" /\ (o.privacy = "cloud_allowed" \/ o.cloud),
           required)

evaluate_gates(o, links, types, contract) ==
  [internet |-> InternetGate(o, links, types),
   writes   |-> RepoWriteGate(o, contract),
   shell    |-> ShellGate(o, contract, types),
   cloud    |-> CloudGate(o)]

Blocked(gates) == \E g \in DOMAIN gates : gates[g].blocking /\ ~gates[g].granted
-----------------------------------------------------------------------------
(* TaskDAG.topological_order: depth first, dependencies in their order; a  *)
(* node met while it is open closes a cycle and the graph is refused.      *)
Walks(g) == [open : SUBSET Range(g.nodes), order : Seq(Range(g.nodes)), cycle : BOOLEAN]
Walk(g) ==
  LET visit[n \in Range(g.nodes), s \in Walks(g)] ==
        IF s.cycle \/ n \in Range(s.order) THEN s
        ELSE IF n \in s.open THEN [s EXCEPT !.cycle = TRUE]
        ELSE LET inner == FoldLeft(LAMBDA acc, d : visit[d, acc],
                                   [s EXCEPT !.open = @ \cup {n}], g.deps[n])
             IN  [inner EXCEPT !.open = @ \ {n}, !.order = Append(@, n)]
  IN  FoldLeft(LAMBDA acc, n : visit[n, acc],
               [open |-> {}, order |-> <<>>, cycle |-> FALSE], g.nodes)
topological_order(g) == Walk(g).order

Known(g) == \A n \in Range(g.nodes) : Range(g.deps[n]) \subseteq Range(g.nodes)
Valid(g) == Known(g) /\ ~Walk(g).cycle

(* DAGScheduler.parallel_batches and PlannerEnsemble.simulate_plan: the    *)
(* nodes whose dependencies are done, until none is left or ready.         *)
parallel_batches(g) ==
  LET after[done \in SUBSET Range(g.nodes)] ==
        LET ready == {n \in Range(g.nodes) \ done : Range(g.deps[n]) \subseteq done}
        IN  IF ready = {} THEN <<>> ELSE <<ready>> \o after[done \cup ready]
  IN  after[{}]
simulate_plan(g) ==
  [batches |-> parallel_batches(g),
   parallelism |-> Max({0} \cup {Cardinality(b) : b \in Range(parallel_batches(g))})]

(* The first of the longest paths, by way of the first of the longest.     *)
Longest(paths) ==
  paths[CHOOSE i \in DOMAIN paths :
          /\ \A j \in DOMAIN paths : Len(paths[j]) <= Len(paths[i])
          /\ \A j \in 1..(i - 1) : Len(paths[j]) < Len(paths[i])]
critical_path(g) ==
  LET path[n \in Range(g.nodes)] ==
        IF g.deps[n] = <<>> THEN <<n>>
        ELSE Append(Longest([i \in DOMAIN g.deps[n] |-> path[g.deps[n][i]]]), n)
  IN  Longest([i \in DOMAIN g.nodes |-> path[g.nodes[i]]])
-----------------------------------------------------------------------------
Chapters == <<"T-SYNTHESIS", "T-CHAPTER-002", "T-CHAPTER-003">>
IsChapter(t) == t \in Range(Chapters)

(* PlannerEnsemble.create_execution_plan.  The compiler never puts         *)
(* "sections" into the constraints, so that a plan has three chapters.     *)
PlanGraph ==
  [nodes |-> <<"T-AGGREGATE", "T-GAP-ANALYSIS">> \o Chapters
               \o <<"T-ARTIFACT-BUILD", "T-QUALITY">>,
   deps |-> [t \in {"T-AGGREGATE", "T-GAP-ANALYSIS", "T-ARTIFACT-BUILD", "T-QUALITY"}
                     \cup Range(Chapters) |->
               IF IsChapter(t) THEN <<"T-GAP-ANALYSIS">>
               ELSE CASE t = "T-AGGREGATE" -> <<>>
                      [] t = "T-GAP-ANALYSIS" -> <<"T-AGGREGATE">>
                      [] t = "T-ARTIFACT-BUILD" -> Chapters
                      [] t = "T-QUALITY" -> <<"T-ARTIFACT-BUILD">>]]
Tasks == Range(PlanGraph.nodes)

Requires(t, model) ==
  CASE t = "T-AGGREGATE" -> {<<"context_aggregation", 90>>}
    [] t = "T-GAP-ANALYSIS" -> {<<"gap_analysis", 90>>}
    [] t = "T-ARTIFACT-BUILD" -> {<<"artifact_build", 90>>, <<"file_io", 90>>}
    [] t = "T-QUALITY" -> {<<"quality_evaluation", 90>>}
    [] IsChapter(t) /\ model -> {<<"final_synthesis", 60>>}
    [] IsChapter(t) /\ ~model -> {<<"extractive_synthesis", 90>>}

create_execution_plan(model) ==
  [t \in Tasks |->
     [needs |-> Requires(t, model),
      tier |-> IF IsChapter(t) /\ model THEN "premium" ELSE "free",
      cacheable |-> t \notin {"T-ARTIFACT-BUILD", "T-QUALITY"},
      attempts |-> IF t = "T-ARTIFACT-BUILD" THEN 2 ELSE 1]]

(* create_product_plan and the errors of validate_product_plan *)
create_product_plan(contract, tasks) ==
  LET planned == {c \in Range(Chapters) : c \in tasks}
  IN  [run_type |-> contract.run_type,
       chapters |-> IF planned = {} THEN {tasks} ELSE {{c} : c \in planned},
       required |-> contract.artifacts]
validate_product_plan(plan, tasks, contract) ==
  {e \in {"unknown task", "no artifacts", "empty chapter", "run type"} :
     CASE e = "unknown task" -> ~(UNION plan.chapters \subseteq tasks)
       [] e = "no artifacts" -> plan.required = {}
       [] e = "empty chapter" -> {} \in plan.chapters
       [] e = "run type" -> plan.run_type # contract.run_type}
-----------------------------------------------------------------------------
CostOrder == [free |-> 0, cheap |-> 1, medium |-> 2, premium |-> 3]
ProfileMaxTier ==
  [cheap |-> "cheap", balanced |-> "medium", premium |-> "premium", unlimited |-> "premium"]
ProfileTokens ==
  [cheap |-> 40000, balanced |-> 160000, premium |-> 500000, unlimited |-> 2000000]

_min_tier(a, b) == IF CostOrder[a] <= CostOrder[b] THEN a ELSE b

(* BudgetController.apply, as far as the plan is changed by it *)
EnforceTiers(plan, profile) ==
  [t \in DOMAIN plan |->
     [plan[t] EXCEPT !.tier = _min_tier(@, ProfileMaxTier[profile])]]

BaseTokens(t) ==
  CASE t = "T-AGGREGATE" -> 3500
    [] t \in {"T-GAP-ANALYSIS", "T-QUALITY"} -> 2500
    [] t = "T-ARTIFACT-BUILD" -> 1000
    [] IsChapter(t) -> 6500

AtMost(a, b) == IF a <= b THEN a ELSE b

(* packed: tokens of the cards and chunks of the pack *)
PackTokens == 16000
estimate_task_tokens(t, node, packed) ==
  BaseTokens(t) + 10 * MapThenSumSet(LAMBDA n : n[2], node.needs)
    + AtMost(PackTokens, packed)

(* The token report, and reconcile_estimated_usage over it *)
budget_report(plan, profile, packed) ==
  LET est == [t \in DOMAIN plan |-> estimate_task_tokens(t, plan[t], packed[t])]
      per == Max({1000, ProfileTokens[profile] \div Cardinality(DOMAIN plan)})
  IN  [total |-> MapThenSumSet(LAMBDA t : est[t], DOMAIN plan),
       over |-> {t \in DOMAIN plan : est[t] > per},
       ledger |-> [t \in DOMAIN plan |->
                     LET input == AtMost(est[t], packed[t])
                     IN  [input |-> input, output |-> est[t] - input]]]
=============================================================================
