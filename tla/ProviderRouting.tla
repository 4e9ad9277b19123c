-------------------------- MODULE ProviderRouting --------------------------
(***************************************************************************)
(* Which provider a task goes to: the execution policy, the table of       *)
(* CapabilityRegistry.from_environment, the liveness probes, the score of  *)
(* AdaptiveRouter and its decision.  Scores are ten-thousandths and        *)
(* capabilities hundredths; of the capabilities the table has those that a *)
(* task or the claim verifier asks for.                                    *)
(***************************************************************************)
EXTENDS ProductPlanning

CONSTANT Configured   \* providers whose variables or executable are present

Provider(kind, tier, trust, capabilities) ==
  [kind |-> kind, tier |-> tier, trust |-> trust, capabilities |-> capabilities]
Model(final, structured) ==
  {<<"final_synthesis", final>>, <<"structured_output", structured>>}

(* The function f, and g where f says nothing. *)
Merge(f, g) ==
  [x \in DOMAIN f \cup DOMAIN g |-> IF x \in DOMAIN f THEN f[x] ELSE g[x]]

FirstProviders ==
  [p \in {"deterministic.tools", "openai.configured", "anthropic.configured", "ollama.local"} |->
     CASE p = "deterministic.tools" ->
            Provider("deterministic_tool", "free", 95,
              {<<"file_io", 100>>, <<"artifact_build", 95>>, <<"context_aggregation", 100>>,
               <<"gap_analysis", 100>>, <<"extractive_synthesis", 100>>,
               <<"quality_evaluation", 100>>})
       [] p = "openai.configured" -> Provider("hosted_model", "premium", 85, Model(94, 92))
       [] p = "anthropic.configured" -> Provider("hosted_model", "premium", 85, Model(88, 0))
       [] p = "ollama.local" -> Provider("local_model", "free", 50, Model(65, 55))]
MoreProviders ==
  [p \in {"gemini.configured", "xai.configured", "openai-compatible.local",
          "claude-code.cli", "codex.cli"} |->
     CASE p = "gemini.configured" -> Provider("hosted_model", "premium", 80, Model(88, 86))
       [] p = "xai.configured" -> Provider("hosted_model", "premium", 78, Model(84, 80))
       [] p = "openai-compatible.local" -> Provider("local_model", "free", 50, Model(62, 60))
       [] p = "claude-code.cli" -> Provider("subscription_cli", "premium", 50, Model(90, 80))
       [] p = "codex.cli" -> Provider("subscription_cli", "premium", 50, Model(90, 85))]

Table == Merge(FirstProviders, MoreProviders)
Registered == <<"deterministic.tools", "openai.configured", "anthropic.configured",
                "ollama.local", "gemini.configured", "xai.configured",
                "openai-compatible.local", "claude-code.cli", "codex.cli">>
Providers == Range(Registered)
Kind(p) == Table[p].kind
Remote  == {"hosted_model", "subscription_cli"}

ASSUME ConfiguredAssumption ==
  Configured \subseteq Providers /\ "deterministic.tools" \in Configured

(* Health of a new registry: hosted models are taken to be healthy before  *)
(* anybody asked, local models and CLIs are unknown.                       *)
Health(status, score) == [status |-> status, score |-> score, latency |-> 0]
InitialHealth ==
  [p \in Providers |->
     IF p \notin Configured THEN Health("unavailable", 0)
     ELSE Health(IF Kind(p) \in {"deterministic_tool", "hosted_model"}
                 THEN "healthy" ELSE "unknown", Table[p].trust)]

Capability(p, c) == Max({0} \cup {k[2] : k \in {x \in Table[p].capabilities : x[1] = c}})
supports(p, needs) == \A n \in needs : Capability(p, n[1]) >= n[2]

(* PolicyCompiler *)
compile_policy(o) ==
  [privacy |-> o.privacy, network |-> o.internet, shell |-> o.shell, writes |-> o.writes,
   hosted |-> /\ o.privacy # "local_only"
              /\ o.privacy = "cloud_allowed" \/ o.cloud]
provider_allowed(policy, p) == Kind(p) \in Remote => policy.hosted

(* ProviderHealthChecker._classify of an answer that took so long, and of  *)
(* silence.  The latency is part of the provider's description.            *)
Answers == {"object", "other_json", "no_json", "429", "error", "silence"}
_classify(answer, latency) ==
  CASE answer = "object" -> [status |-> "healthy", score |-> 90, latency |-> latency]
    [] answer \in {"other_json", "no_json"} ->
         [status |-> "degraded", score |-> 40, latency |-> latency]
    [] answer = "429" -> [status |-> "degraded", score |-> 30, latency |-> latency]
    [] answer = "error" -> [status |-> "unavailable", score |-> 0, latency |-> latency]
    [] answer = "silence" -> Health("unavailable", 0)

(* mutant: the probes ask every provider there is *)
ProbedAnyway(o) == {p \in Configured : Kind(p) \in {"hosted_model", "local_model"}}

(* refresh_health asks these; a CLI is never asked, and a local model is   *)
(* asked whatever the invocation allows.                                   *)
Probed(o) ==
  {p \in Configured :
     /\ Kind(p) \in {"hosted_model", "local_model"}
     /\ provider_allowed(compile_policy(o), p)
     /\ Kind(p) = "hosted_model" => o.internet}

Available(health) == {p \in Configured : health[p].status # "unavailable"}

_model_synthesis_available(health, o) ==
  \E p \in Available(health) :
    /\ Kind(p) # "deterministic_tool"
    /\ supports(p, {<<"final_synthesis", 60>>})
    /\ provider_allowed(compile_policy(o), p)
    /\ Kind(p) \in Remote => o.internet
-----------------------------------------------------------------------------
(* CapacityBroker: is_eligible and score of a connector *)
CapacityStatuses == {"unseen", "available", "constrained", "unknown", "exhausted"}
is_eligible(status) == status # "exhausted"
CapacityScore(status) ==
  CASE status \in {"unseen", "available"} -> 100
    [] status = "constrained" -> 75
    [] status = "unknown" -> 60
    [] status = "exhausted" -> 0

_within_cost(node, p) == CostOrder[Table[p].tier] <= CostOrder[node.tier]

(* mutant: the tier of the budget is not looked at *)
EligibleAtAnyPrice(node, policy, health, capacity, p) ==
  /\ p \in Available(health)
  /\ provider_allowed(policy, p)
  /\ supports(p, node.needs)
  /\ is_eligible(capacity[p])

(* A provider that supports the task has full marks for capability. *)
Eligible(node, policy, health, capacity, p) ==
  /\ p \in Available(health)
  /\ provider_allowed(policy, p)
  /\ _within_cost(node, p)
  /\ supports(p, node.needs)
  /\ is_eligible(capacity[p])

Total(health, capacity, p) ==
  5500 + 20 * health[p].score + 10 * (100 - 25 * CostOrder[Table[p].tier])
    + 15 * CapacityScore(capacity[p])

(* provider_metrics: a stable sort, so that the first of the best wins. *)
Decision(action, provider, alternatives) ==
  [action |-> action, provider |-> provider, alternatives |-> alternatives]
NoProvider == "none"

route(node, policy, health, capacity) ==
  LET Fits(p) == Eligible(node, policy, health, capacity, p)
      Mark(i) == Total(health, capacity, Registered[i])
      fit     == {i \in DOMAIN Registered : Fits(Registered[i])}
      best    == CHOOSE i \in fit : \A j \in fit :
                   Mark(i) > Mark(j) \/ (Mark(i) = Mark(j) /\ i <= j)
  IN  IF fit = {} THEN Decision("reshape", NoProvider, {})
      ELSE Decision("route", Registered[best], {Registered[i] : i \in fit \ {best}})

(* Orchestrator._configure_claim_verifier: the first provider that writes  *)
(* structured output, and that has an adapter.  The policy is not asked.   *)
_configure_claim_verifier(o) ==
  LET fit == {i \in DOMAIN Registered :
                /\ Registered[i] \in Configured
                /\ supports(Registered[i], {<<"structured_output", 80>>})
                /\ Kind(Registered[i]) = "hosted_model" => o.cloud}
  IN  IF o.verification = "structural" \/ fit = {} THEN NoProvider
      ELSE Registered[Min(fit)]
=============================================================================
