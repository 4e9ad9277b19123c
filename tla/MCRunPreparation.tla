-------------------------- MODULE MCRunPreparation --------------------------
(* Four invocations, a hosted and a local model, two runs; and the graph   *)
(* algorithms on every graph of four nodes, the budget on every profile.   *)
EXTENDS RunPreparation

Invocation(attachments, links, words, privacy, internet, cloud, budget, verification) ==
  [attachments |-> attachments, links |-> links, words |-> words, artifacts |-> {},
   internet |-> internet, cloud |-> cloud, writes |-> FALSE, shell |-> FALSE,
   privacy |-> privacy, budget |-> budget, verification |-> verification, hosts |-> {}]

TheOptions ==
  { Invocation(<<"notes.txt", "scan.pdf">>, <<>>, {"report"}, "balanced", TRUE, FALSE,
               "balanced", "structural"),
    Invocation(<<"notes.txt", "repo">>, <<"notes.txt">>, {"repo"}, "cloud_allowed",
               TRUE, FALSE, "premium", "structural"),
    Invocation(<<"lan">>, <<"page", "page">>, {"review"}, "explicit_approval",
               TRUE, TRUE, "balanced", "semantic"),
    Invocation(<<"pack.zip", "odd">>, <<>>, {}, "balanced", FALSE, FALSE, "cheap",
               "structural") }
LocalOptions ==
  { Invocation(<<"notes.txt">>, <<>>, {}, "local_only", FALSE, TRUE, "premium", "semantic") }

TheSource ==
  ("notes.txt" :> "text") @@ ("scan.pdf" :> "pdf") @@ ("repo" :> "repo")
    @@ ("pack.zip" :> "archive") @@ ("page" :> "url") @@ ("lan" :> "url")
    @@ ("odd" :> "malformed")

PlainDisks == {[f \in Files |-> "plain"]}

Nodes == 1..4
Graphs == {[nodes |-> <<1, 2, 3, 4>>, deps |-> [n \in Nodes |-> SetToSeq(d[n])]] :
             d \in [Nodes -> SUBSET Nodes]}
Acyclic(g) ==
  LET R[k \in 0..2] ==
        IF k = 0 THEN {e \in Nodes \X Nodes : e[2] \in Range(g.deps[e[1]])}
        ELSE R[k - 1] \cup {e \in Nodes \X Nodes :
                              \E c \in Nodes : <<e[1], c>> \in R[k - 1] /\ <<c, e[2]>> \in R[k - 1]}
  IN  \A n \in Nodes : <<n, n>> \notin R[2]

(* A graph is accepted iff no node depends on itself; its order respects   *)
(* the dependencies, and there are as many batches as the critical path    *)
(* has nodes.                                                              *)
ASSUME GraphsAreOrdered ==
  \A g \in Graphs :
    /\ Valid(g) = Acyclic(g)
    /\ Acyclic(g) =>
         LET order == topological_order(g) IN
         /\ Len(order) = 4 /\ Range(order) = Nodes
         /\ \A i \in Nodes : Range(g.deps[order[i]]) \subseteq Range(SubSeq(order, 1, i - 1))
         /\ UNION Range(parallel_batches(g)) = Nodes
         /\ Len(critical_path(g)) = Len(parallel_batches(g))
         /\ simulate_plan(g).parallelism >= 1

(* Every contract has a valid product plan; a budget never raises a tier,  *)
(* and its ledger adds up to its total.                                    *)
ASSUME PlansAreValid ==
  \A inv \in TheOptions, types \in SUBSET {"repo", "url"} :
    LET c == compile_contract(inv, types)
    IN  validate_product_plan(create_product_plan(c, Tasks), Tasks, c) = {}
ASSUME BudgetsAddUp ==
  \A profile \in DOMAIN ProfileTokens, model \in BOOLEAN, size \in {0, 9000, 40000} :
    LET plan0 == create_execution_plan(model)
        packed == [t \in Tasks |-> size]
        report == budget_report(plan0, profile, packed)
    IN  /\ \A t \in Tasks :
             CostOrder[EnforceTiers(plan0, profile)[t].tier] <= CostOrder[plan0[t].tier]
        /\ MapThenSumSet(LAMBDA t : report.ledger[t].input + report.ledger[t].output, Tasks)
             = report.total
        /\ \A t \in Tasks : report.ledger[t].output \in Nat
=============================================================================
