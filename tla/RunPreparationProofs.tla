------------------------ MODULE RunPreparationProofs ------------------------
(***************************************************************************)
(* Proofs about RunPreparation, for any invocations, files, texts, probes, *)
(* observations and number of runs.  The inductive invariant says what the *)
(* ingestion has recorded so far, that the phases after it work from the   *)
(* same invocation and the same records, and what a hash tells of a text,  *)
(* in the records of this run and in the keys of the cache.                *)
(***************************************************************************)
EXTENDS RunPreparation, FiniteSetTheorems, TLAPS

Phases == {"idle", "ingest", "probe", "route", "execute", "audit", "done", "failed"}
Early  == {"idle", "ingest", "failed"}   \* before the contract of the run

(* What a hash tells of the text of its input; an absent file has none.    *)
Told == {<<<<"bytes", t>>, t>> : t \in Texts} \cup {<<<<"shown", t>>, t>> : t \in Texts}
          \cup {<<<<"uri", u>>, "note">> : u \in DOMAIN Source}
          \cup {<<<<"prompt", x.words>>, "prompt">> : x \in Options}
SomeHashes == {h[1] : h \in Told}

Uris        == DOMAIN Source \cup {"prompt"}
RecordTypes == FileTypes \cup {"url", "api", "prompt"}
RecordSet ==
  [uri : Uris, type : RecordTypes, status : {"parsed", "partial", "failed"},
   hash : SomeHashes \cup {NoHash}, text : Texts \cup {"note", "nothing", "prompt"}]
ReadingSet == [status : {"parsed", "partial"}, text : Texts \cup {"note", "nothing"}]

IntakeTypes ==
  /\ disk \in [Files -> Texts \cup {"absent"}]
  /\ o \in Options /\ pc \in Phases
  /\ at \in 1..(Len(Inputs) + 1)
  /\ held \in ReadingSet \cup {NotRead}
  /\ records \in Seq(RecordSet)
  /\ unsure \subseteq {<<"bytes", t>> : t \in Texts}

(* Only a file that was read is to be hashed. *)
HeldIsFile ==
  held # NotRead =>
    pc = "ingest" /\ ~IsLink /\ Current \in Files /\ Source[Current] \notin {"folder", "repo"}

(* A record has the text its hash tells, unless the hash is unsure. *)
RecordOK(r, doubt) ==
  /\ (r.status = "failed") = (r.hash = NoHash)
  /\ r.status = "failed" => r.text = "nothing"
  /\ r.hash \notin doubt \cup {NoHash} => <<r.hash, r.text>> \in Told
RecordsOK == \A i \in DOMAIN records : RecordOK(records[i], unsure)

(* Up to at, each input has its record; those of the links are new. *)
Inventoried ==
  LET n == Len(o.attachments) IN
  pc # "idle" =>
    /\ Len(records) >= 1 /\ records[1].uri = "prompt"
    /\ at <= n + 1 => Len(records) = at
    /\ at > n + 1 => Len(records) > n
    /\ \A i \in 1..n : i < at => records[i + 1].uri = o.attachments[i]
    /\ \A i \in 1..Len(o.links) : n + i < at =>
         \E j \in DOMAIN records : records[j].uri = o.links[i]
    /\ \A i, j \in DOMAIN records :
         i < j /\ j > n + 1 /\ i > 1 => records[i].uri # records[j].uri

(* A page was fetched for a link or for an attachment that is one. *)
FetchedWithLeave ==
  fetched # {} =>
    /\ pc # "idle" /\ o.internet
    /\ o.links # <<>> \/ \E i \in DOMAIN records : records[i].type \in {"url", "api"}

(* The contract is made when every input has been dealt with. *)
IngestionOver == pc \notin Early => at > Len(Inputs)

GatesOfRun ==
  /\ pc \in Early => gates = <<>>
  /\ pc \notin Early => gates = evaluate_gates(o, o.links # <<>>, Types, contract)

ContactsAllowed ==
  /\ pc \in Early => contacted = {}
  /\ \A c \in contacted : c[2] # "verify" => provider_allowed(policy, c[1])
  /\ probing \subseteq Configured
  /\ pc = "probe" => probing \subseteq Probed(o)

(* The deterministic tools are always there. *)
HealthSet ==
  [status : {"healthy", "degraded", "unavailable", "unknown"}, score : Nat, latency : Nat]
ToolsStand ==
  /\ health \in [Providers -> HealthSet]
  /\ capacity \in [Providers -> CapacityStatuses]
  /\ health["deterministic.tools"].status = "healthy"
  /\ capacity["deterministic.tools"] = "unseen"

PlanOfRun ==
  pc \in {"route", "execute", "audit", "done"} =>
    \E model \in BOOLEAN : plan = EnforceTiers(create_execution_plan(model), o.budget)

DecisionOK(t, d) ==
  /\ ~IsChapter(t) => d.provider = "deterministic.tools"
  /\ d.action = "route" =>
       \A p \in {d.provider} \cup d.alternatives :
         /\ p \in Providers
         /\ supports(p, plan[t].needs) /\ health[p].status # "unavailable"
         /\ CostOrder[Table[p].tier] <= CostOrder[ProfileMaxTier[o.budget]]
         /\ provider_allowed(policy, p)
  /\ d.action = "reshape" => IsChapter(t) /\ plan[t].needs = Requires(t, TRUE)
Decided ==
  /\ DOMAIN decisions \subseteq Tasks
  /\ pc \in Early \cup {"probe"} => DOMAIN decisions = {}
  /\ pc \notin Early \cup {"probe", "route"} => DOMAIN decisions = Tasks
  /\ \A t \in DOMAIN decisions : DecisionOK(t, decisions[t])

(* What the cache has under a key was made from texts its hashes tell. *)
CacheTells ==
  \A k \in DOMAIN cache :
    /\ cache[k].shown \cap Injected = {}
    /\ \A i \in DOMAIN k.inputs : k.inputs[i] \notin unsure \cup {NoHash} =>
         \E text : <<k.inputs[i], text>> \in Told /\ <<k.inputs[i], text>> \in cache[k].basis

ResultsStand ==
  /\ pc \in Early \cup {"probe", "route", "execute"} => DOMAIN results = {}
  /\ \A t \in DOMAIN results : Stale(t) = {} /\ results[t].from.shown \cap Injected = {}

IntakeInv == IntakeTypes /\ HeldIsFile /\ RecordsOK /\ Inventoried /\ FetchedWithLeave
StageInv  ==
  IngestionOver /\ GatesOfRun /\ ContactsAllowed /\ ToolsStand /\ PlanOfRun /\ Decided
ReuseInv  == CacheTells /\ ResultsStand
PreparationInv == IntakeInv /\ StageInv /\ ReuseInv
-----------------------------------------------------------------------------
(* Names.  The plan has seven tasks, three of them chapters, and the table *)
(* nine providers.                                                         *)
LEMMA TaskNames ==
  Tasks = {"T-AGGREGATE", "T-GAP-ANALYSIS", "T-SYNTHESIS", "T-CHAPTER-002", "T-CHAPTER-003",
           "T-ARTIFACT-BUILD", "T-QUALITY"}
  BY DEF Tasks, PlanGraph, Chapters, Range

(* The three chapters by name. *)
LEMMA ChapterNames ==
  \A t : IsChapter(t) <=> t \in {"T-SYNTHESIS", "T-CHAPTER-002", "T-CHAPTER-003"}
  BY DEF IsChapter, Chapters, Range

(* The nine providers by name. *)
LEMMA ProviderNames ==
  Providers = {"deterministic.tools", "openai.configured", "anthropic.configured",
               "ollama.local", "gemini.configured", "xai.configured",
               "openai-compatible.local", "claude-code.cli", "codex.cli"}
  BY DEF Providers, Registered, Range

(* What the table says of the deterministic tools, and that the others     *)
(* write texts and nothing else.                                           *)
LEMMA ToolsRow ==
  Table["deterministic.tools"] = FirstProviders["deterministic.tools"]
  BY DEF Table, Merge, FirstProviders

(* What the tools can do, at what price. *)
LEMMA ToolsEntry ==
  /\ Kind("deterministic.tools") = "deterministic_tool"
  /\ Table["deterministic.tools"].tier = "free"
  /\ Table["deterministic.tools"].capabilities =
       {<<"file_io", 100>>, <<"artifact_build", 95>>, <<"context_aggregation", 100>>,
        <<"gap_analysis", 100>>, <<"extractive_synthesis", 100>>,
        <<"quality_evaluation", 100>>}
  BY ToolsRow DEF Kind, FirstProviders, Provider

(* Every other provider is a model. *)
LEMMA ModelRows ==
  ASSUME NEW p \in Providers, p # "deterministic.tools"
  PROVE  \E kind, tier, trust, final, structured :
           Table[p] = Provider(kind, tier, trust, Model(final, structured))
<1>1. CASE p \in {"openai.configured", "anthropic.configured", "ollama.local"}
  <2>1. Table[p] = FirstProviders[p]
    BY <1>1 DEF Table, Merge, FirstProviders
  <2> QED
    BY <1>1, <2>1 DEF FirstProviders
<1>2. CASE p \notin {"openai.configured", "anthropic.configured", "ollama.local"}
  <2>1. p \in {"gemini.configured", "xai.configured", "openai-compatible.local",
               "claude-code.cli", "codex.cli"}
    BY <1>2, ProviderNames
  <2>2. Table[p] = MoreProviders[p]
    BY <2>1 DEF Table, Merge, FirstProviders, MoreProviders
  <2> QED
    BY <2>1, <2>2 DEF MoreProviders
<1> QED
  BY <1>1, <1>2

(* The best of the marks for one capability, when there is at most one. *)
LEMMA MaxOfOne ==
  /\ Max({0}) = 0
  /\ \A n \in Nat : Max({0, n}) = n
  BY DEF Max

(* The tools have what every task but a model's chapter asks for, and      *)
(* nobody else has it.                                                     *)
LEMMA ToolsCapable ==
  /\ \A t \in Tasks, model \in BOOLEAN :
       ~IsChapter(t) \/ ~model => supports("deterministic.tools", Requires(t, model))
<1>1. ASSUME NEW c, NEW v \in Nat, <<c, v>> \in Table["deterministic.tools"].capabilities
      PROVE  Capability("deterministic.tools", c) = v
  <2>1. {k[2] : k \in {x \in Table["deterministic.tools"].capabilities : x[1] = c}} = {v}
    <3>1. \A x \in Table["deterministic.tools"].capabilities : x[1] = c => x[2] = v
      BY <1>1, ToolsEntry
    <3>2. <<c, v>>[1] = c /\ <<c, v>>[2] = v
      OBVIOUS
    <3> QED
      BY <1>1, <3>1, <3>2
  <2>2. {0} \cup {v} = {0, v}
    OBVIOUS
  <2> QED
    BY <2>1, <2>2, MaxOfOne DEF Capability
<1>2. /\ Capability("deterministic.tools", "file_io") = 100
      /\ Capability("deterministic.tools", "artifact_build") = 95
      /\ Capability("deterministic.tools", "context_aggregation") = 100
      /\ Capability("deterministic.tools", "gap_analysis") = 100
      /\ Capability("deterministic.tools", "extractive_synthesis") = 100
      /\ Capability("deterministic.tools", "quality_evaluation") = 100
  BY <1>1, ToolsEntry
<1> QED
  BY <1>2, TaskNames, ChapterNames DEF supports, Requires

(* A model has nothing of what a task that is no chapter asks for. *)
LEMMA OthersIncapable ==
  ASSUME NEW p \in Providers, p # "deterministic.tools",
         NEW t \in Tasks, ~IsChapter(t), NEW model \in BOOLEAN
  PROVE  ~supports(p, Requires(t, model))
<1>1. PICK kind, trust, final, structured, tier :
        Table[p] = Provider(kind, tier, trust, Model(final, structured))
  BY ModelRows
<1>2. Table[p].capabilities = Model(final, structured)
  BY <1>1 DEF Provider
<1>3. ASSUME NEW c, c \notin {"final_synthesis", "structured_output"}
      PROVE  Capability(p, c) = 0
  <2>1. {k[2] : k \in {x \in Table[p].capabilities : x[1] = c}} = {}
    BY <1>2, <1>3 DEF Model
  <2>2. {0} \cup {} = {0}
    OBVIOUS
  <2> QED
    BY <2>1, <2>2, MaxOfOne DEF Capability
<1>4. \E n \in Requires(t, model) :
        n[1] \notin {"final_synthesis", "structured_output"} /\ n[2] = 90
  BY TaskNames, ChapterNames DEF Requires
<1> QED
  BY <1>3, <1>4 DEF supports

(* Trust and tier of a provider are what the score computes with. *)
LEMMA TableTypes ==
  ASSUME NEW p \in Providers
  PROVE  Table[p].tier \in {"free", "premium"} /\ Table[p].trust \in Nat
<1>1. CASE p \in {"deterministic.tools", "openai.configured", "anthropic.configured",
                 "ollama.local"}
  <2>1. Table[p] = FirstProviders[p]
    BY <1>1 DEF Table, Merge, FirstProviders
  <2> QED
    BY <1>1, <2>1 DEF FirstProviders, Provider
<1>2. CASE p \in {"gemini.configured", "xai.configured", "openai-compatible.local",
                 "claude-code.cli", "codex.cli"}
  <2>1. Table[p] = MoreProviders[p]
    BY <1>2 DEF Table, Merge, FirstProviders, MoreProviders
  <2> QED
    BY <1>2, <2>1 DEF MoreProviders, Provider
<1> QED
  BY <1>1, <1>2, ProviderNames

(* A budget never raises a tier above its own. *)
LEMMA PlanNode ==
  ASSUME NEW model \in BOOLEAN, NEW b \in DOMAIN ProfileMaxTier, NEW t \in Tasks,
         NEW node, node = EnforceTiers(create_execution_plan(model), b)[t]
  PROVE  /\ node.needs = Requires(t, model)
         /\ node.tier \in DOMAIN CostOrder
         /\ CostOrder[node.tier] <= CostOrder[ProfileMaxTier[b]]
<1> DEFINE first == create_execution_plan(model)[t]
<1>1. /\ DOMAIN create_execution_plan(model) = Tasks
      /\ first.needs = Requires(t, model) /\ first.tier \in {"free", "premium"}
  BY DEF create_execution_plan
<1>2. /\ node.needs = first.needs
      /\ node.tier = _min_tier(first.tier, ProfileMaxTier[b])
  BY <1>1 DEF EnforceTiers, create_execution_plan
<1>3. ProfileMaxTier[b] \in {"cheap", "medium", "premium"}
  BY DEF ProfileMaxTier
<1> QED
  BY <1>1, <1>2, <1>3 DEF _min_tier, CostOrder

(* Of finitely many marks the first of the best is chosen. *)
LEMMA BestStep ==
  ASSUME NEW mark, NEW fit \in SUBSET (1..9), \A i \in fit : mark[i] \in Int,
         NEW k \in 0..8,
         \/ fit \cap 1..k = {}
         \/ \E i \in fit \cap 1..k : \A j \in fit \cap 1..k :
              mark[i] > mark[j] \/ (mark[i] = mark[j] /\ i <= j)
  PROVE  \/ fit \cap 1..(k + 1) = {}
         \/ \E i \in fit \cap 1..(k + 1) : \A j \in fit \cap 1..(k + 1) :
              mark[i] > mark[j] \/ (mark[i] = mark[j] /\ i <= j)
<1>1. 1..(k + 1) = 1..k \cup {k + 1}
  OBVIOUS
<1>2. CASE k + 1 \notin fit
  BY <1>1, <1>2
<1>3. CASE k + 1 \in fit /\ fit \cap 1..k = {}
  <2>1. fit \cap 1..(k + 1) = {k + 1}
    BY <1>1, <1>3
  <2> QED
    BY <1>3, <2>1
<1>4. CASE k + 1 \in fit /\ fit \cap 1..k # {}
  <2>1. PICK i \in fit \cap 1..k : \A j \in fit \cap 1..k :
          mark[i] > mark[j] \/ (mark[i] = mark[j] /\ i <= j)
    BY <1>4
  <2>2. i < k + 1 /\ mark[i] \in Int /\ mark[k + 1] \in Int
    BY <1>4
  <2>3. \A j \in fit \cap 1..(k + 1) : j = k + 1 \/ j \in fit \cap 1..k
    BY <1>1
  <2>4. CASE mark[k + 1] > mark[i]
    <3>1. \A j \in fit \cap 1..(k + 1) :
            mark[k + 1] > mark[j] \/ (mark[k + 1] = mark[j] /\ k + 1 <= j)
      BY <2>1, <2>2, <2>3, <2>4
    <3> QED
      BY <1>1, <1>4, <3>1
  <2>5. CASE mark[k + 1] <= mark[i]
    <3>1. \A j \in fit \cap 1..(k + 1) :
            mark[i] > mark[j] \/ (mark[i] = mark[j] /\ i <= j)
      BY <2>1, <2>2, <2>3, <2>5
    <3> QED
      BY <1>1, <2>1, <3>1
  <2> QED
    BY <2>2, <2>4, <2>5
<1> QED
  BY <1>2, <1>3, <1>4

(* The choice of the router is never empty when a provider fits. *)
LEMMA BestExists ==
  ASSUME NEW mark, NEW fit \in SUBSET (1..9), \A i \in fit : mark[i] \in Int, fit # {}
  PROVE  \E i \in fit : \A j \in fit : mark[i] > mark[j] \/ (mark[i] = mark[j] /\ i <= j)
<1> DEFINE Best(k) ==
      \/ fit \cap 1..k = {}
      \/ \E i \in fit \cap 1..k : \A j \in fit \cap 1..k :
           mark[i] > mark[j] \/ (mark[i] = mark[j] /\ i <= j)
<1>1. Best(0)
  OBVIOUS
<1>2. \A k \in 0..8 : Best(k) => Best(k + 1)
  BY BestStep
<1> HIDE DEF Best
<1>3. Best(1) /\ Best(2) /\ Best(3) /\ Best(4) /\ Best(5) /\ Best(6) /\ Best(7) /\ Best(8)
  BY <1>1, <1>2
<1>4. Best(9)
  BY <1>2, <1>3
<1>5. fit \cap 1..9 = fit
  OBVIOUS
<1> QED
  BY <1>4, <1>5 DEF Best

(* The registry lists the nine providers and no others. *)
LEMMA RegisteredRange ==
  /\ DOMAIN Registered = 1..9
  /\ \A i \in 1..9 : Registered[i] \in Providers
  /\ \A p \in Providers : \E i \in 1..9 : Registered[i] = p
<1>1. DOMAIN Registered = 1..9
  BY DEF Registered
<1> QED
  BY <1>1 DEF Providers, Range

(* A task goes to providers that are eligible for it, and is reshaped when *)
(* there is none.                                                          *)
LEMMA RouteChoice ==
  ASSUME NEW node, NEW pol, NEW hl \in [Providers -> HealthSet],
         NEW cp \in [Providers -> CapacityStatuses], NEW d, d = route(node, pol, hl, cp)
  PROVE  \/ /\ d.action = "reshape"
            /\ \A p \in Providers : ~Eligible(node, pol, hl, cp, p)
         \/ /\ d.action = "route"
            /\ \A p \in {d.provider} \cup d.alternatives :
                 p \in Providers /\ Eligible(node, pol, hl, cp, p)
<1> DEFINE Mark(i) == Total(hl, cp, Registered[i])
           fit     == {i \in DOMAIN Registered : Eligible(node, pol, hl, cp, Registered[i])}
           best    == CHOOSE i \in fit : \A j \in fit :
                        Mark(i) > Mark(j) \/ (Mark(i) = Mark(j) /\ i <= j)
           mark    == [i \in 1..9 |-> Mark(i)]
<1>1. d = IF fit = {} THEN Decision("reshape", NoProvider, {})
          ELSE Decision("route", Registered[best], {Registered[i] : i \in fit \ {best}})
  BY DEF route
<1>2. fit \in SUBSET (1..9)
  BY RegisteredRange
<1>3. CASE fit = {}
  <2>1. d.action = "reshape"
    BY <1>1, <1>3 DEF Decision
  <2>2. \A p \in Providers : ~Eligible(node, pol, hl, cp, p)
    BY <1>3, RegisteredRange
  <2> QED
    BY <2>1, <2>2
<1>4. CASE fit # {}
  <2>1. ASSUME NEW i \in 1..9 PROVE Mark(i) \in Int
    <3>1. Registered[i] \in Providers
      BY RegisteredRange
    <3>2. hl[Registered[i]].score \in Nat /\ CapacityScore(cp[Registered[i]]) \in Nat
      BY <3>1 DEF HealthSet, CapacityScore, CapacityStatuses
    <3>3. CostOrder[Table[Registered[i]].tier] \in Nat
      BY <3>1, TableTypes DEF CostOrder
    <3> QED
      BY <3>2, <3>3 DEF Total
  <2>2. \A i \in fit : mark[i] \in Int
    BY <1>2, <2>1
  <2> HIDE DEF fit, Mark
  <2>3. \E i \in fit : \A j \in fit : mark[i] > mark[j] \/ (mark[i] = mark[j] /\ i <= j)
    BY <1>2, <1>4, <2>2, BestExists
  <2>4. \A i \in fit : mark[i] = Mark(i)
    BY <1>2
  <2>5. best \in fit
    BY <2>3, <2>4
  <2>6. /\ d.action = "route" /\ d.provider = Registered[best]
        /\ d.alternatives = {Registered[i] : i \in fit \ {best}}
    BY <1>1, <1>4 DEF Decision
  <2>7. \A p \in {d.provider} \cup d.alternatives : \E i \in fit : p = Registered[i]
    BY <2>5, <2>6
  <2>8. \A i \in fit : Registered[i] \in Providers /\ Eligible(node, pol, hl, cp, Registered[i])
    BY <1>2, RegisteredRange DEF fit
  <2> QED
    BY <2>6, <2>7, <2>8
<1> QED
  BY <1>3, <1>4

(* What the router decides for a node of a plan is what DecisionOK says,   *)
(* whatever was probed and observed.                                       *)
LEMMA RouteIsOK ==
  ASSUME ToolsStand, NEW model \in BOOLEAN, o.budget \in DOMAIN ProfileMaxTier,
         plan = EnforceTiers(create_execution_plan(model), o.budget), NEW t \in Tasks
  PROVE  DecisionOK(t, route(plan[t], policy, health, capacity))
<1> DEFINE d == route(plan[t], policy, health, capacity)
           tools == "deterministic.tools"
<1> SUFFICES DecisionOK(t, d)
  OBVIOUS
<1>1. /\ plan[t].needs = Requires(t, model) /\ plan[t].tier \in DOMAIN CostOrder
      /\ CostOrder[plan[t].tier] <= CostOrder[ProfileMaxTier[o.budget]]
  BY PlanNode
<1>2. \/ /\ d.action = "reshape"
         /\ \A p \in Providers : ~Eligible(plan[t], policy, health, capacity, p)
      \/ /\ d.action = "route"
         /\ \A p \in {d.provider} \cup d.alternatives :
              p \in Providers /\ Eligible(plan[t], policy, health, capacity, p)
  BY RouteChoice DEF ToolsStand
<1> HIDE DEF d
<1>3. tools \in Providers /\ tools \in Configured
  BY ProviderNames, ConfiguredAssumption
<1>4. ~IsChapter(t) \/ ~model => Eligible(plan[t], policy, health, capacity, tools)
  <2>1. ~IsChapter(t) \/ ~model => supports(tools, plan[t].needs)
    BY <1>1, ToolsCapable
  <2>2. tools \in Available(health)
    BY <1>3 DEF Available, ToolsStand
  <2>3. provider_allowed(policy, tools)
    BY ToolsEntry DEF provider_allowed, Remote
  <2>4. _within_cost(plan[t], tools)
    BY <1>1, ToolsEntry DEF _within_cost, CostOrder
  <2>5. is_eligible(capacity[tools])
    BY DEF ToolsStand, is_eligible
  <2> QED
    BY <2>1, <2>2, <2>3, <2>4, <2>5 DEF Eligible
<1>5. ASSUME NEW p \in Providers, Eligible(plan[t], policy, health, capacity, p)
      PROVE  /\ supports(p, plan[t].needs) /\ health[p].status # "unavailable"
             /\ CostOrder[Table[p].tier] <= CostOrder[ProfileMaxTier[o.budget]]
             /\ provider_allowed(policy, p)
             /\ ~IsChapter(t) => p = tools
  <2>1. supports(p, plan[t].needs) /\ health[p].status # "unavailable" /\ provider_allowed(policy, p)
    BY <1>5 DEF Eligible, Available
  <2>2. CostOrder[Table[p].tier] <= CostOrder[plan[t].tier]
    BY <1>5 DEF Eligible, _within_cost
  <2>3. CostOrder[Table[p].tier] \in Int /\ CostOrder[plan[t].tier] \in Int
        /\ CostOrder[ProfileMaxTier[o.budget]] \in Int
    BY <1>1, TableTypes DEF CostOrder, ProfileMaxTier
  <2>4. CostOrder[Table[p].tier] <= CostOrder[ProfileMaxTier[o.budget]]
    BY <1>1, <2>2, <2>3
  <2>5. ~IsChapter(t) => p = tools
    BY <1>1, <2>1, OthersIncapable
  <2> QED
    BY <2>1, <2>4, <2>5
<1>6. CASE d.action = "reshape"
  <2>1. IsChapter(t) /\ model = TRUE
    BY <1>2, <1>3, <1>4, <1>6
  <2> QED
    BY <1>1, <1>6, <2>1 DEF DecisionOK
<1>7. CASE d.action = "route"
  BY <1>2, <1>5, <1>7 DEF DecisionOK
<1> QED
  BY <1>2, <1>6, <1>7
-----------------------------------------------------------------------------
(* Ingestion. *)

(* What two sequences have in common with the one they make. *)
LEMMA ConcatFacts ==
  \A S : \A s, t \in Seq(S) :
    /\ Len(s) \in Nat /\ Len(t) \in Nat
    /\ s \o t \in Seq(S) /\ Len(s \o t) = Len(s) + Len(t)
    /\ \A i \in 1..Len(s) : (s \o t)[i] = s[i]
    /\ \A i \in 1..Len(t) : (s \o t)[Len(s) + i] = t[i]
    /\ \A i \in 1..Len(s \o t) : (s \o t)[i] \in S
  OBVIOUS

(* The inputs of an invocation are its attachments and then its links. *)
LEMMA InputFacts ==
  ASSUME o \in Options
  PROVE  /\ Len(o.attachments) \in Nat /\ Len(o.links) \in Nat
         /\ Inputs \in Seq(DOMAIN Source)
         /\ Len(Inputs) = Len(o.attachments) + Len(o.links)
         /\ \A i \in 1..Len(o.attachments) : Inputs[i] = o.attachments[i]
         /\ \A i \in 1..Len(o.links) : Inputs[Len(o.attachments) + i] = o.links[i]
         /\ \A i \in 1..Len(Inputs) : Inputs[i] \in DOMAIN Source
         /\ o.budget \in DOMAIN ProfileMaxTier /\ o.internet \in BOOLEAN
<1> DEFINE a == o.attachments
           l == o.links
<1>1. /\ a \in Seq(DOMAIN Source) /\ l \in Seq(DOMAIN Source)
      /\ o.budget \in DOMAIN ProfileMaxTier /\ o.internet \in BOOLEAN
  BY PreparationAssumption
<1>2. Inputs = a \o l
  BY DEF Inputs
<1> HIDE DEF a, l
<1>3. /\ Len(a) \in Nat /\ Len(l) \in Nat
      /\ a \o l \in Seq(DOMAIN Source) /\ Len(a \o l) = Len(a) + Len(l)
      /\ \A i \in 1..Len(a) : (a \o l)[i] = a[i]
      /\ \A i \in 1..Len(l) : (a \o l)[Len(a) + i] = l[i]
      /\ \A i \in 1..Len(a \o l) : (a \o l)[i] \in DOMAIN Source
  BY <1>1, ConcatFacts
<1> QED
  BY <1>1, <1>2, <1>3, Zenon DEF a, l

(* A place among all the inputs is one among the first or the others. *)
LEMMA PlaceOfInput ==
  ASSUME NEW a \in Nat, NEW l \in Nat, NEW m, m = a + l, NEW i \in 1..(m + 1), i <= m
  PROVE  /\ i \in Nat \ {0} /\ i \in 1..m
         /\ ~(i > a) => i <= a /\ i \in 1..a
         /\ i > a => i - a \in 1..l /\ i = a + (i - a)
  OBVIOUS

(* Before the last attachment the input at hand is one, and after it a     *)
(* link.                                                                   *)
LEMMA CurrentFacts ==
  ASSUME IntakeTypes, Ingesting
  PROVE  /\ at \in Nat \ {0} /\ at <= Len(Inputs)
         /\ Current \in DOMAIN Source
         /\ ~IsLink => at <= Len(o.attachments) /\ Current = o.attachments[at]
         /\ IsLink => /\ at > Len(o.attachments)
                      /\ at - Len(o.attachments) \in 1..Len(o.links)
                      /\ Current = o.links[at - Len(o.attachments)]
<1> DEFINE n == Len(o.attachments)
           l == Len(o.links)
           m == Len(Inputs)
<1>1. o \in Options /\ at \in 1..(m + 1) /\ at <= m
  BY DEF IntakeTypes, Ingesting
<1>2. /\ n \in Nat /\ l \in Nat /\ m = n + l
      /\ Inputs \in Seq(DOMAIN Source)
      /\ \A i \in 1..n : Inputs[i] = o.attachments[i]
      /\ \A i \in 1..l : Inputs[n + i] = o.links[i]
  BY <1>1, InputFacts
<1>3. \A i \in 1..m : Inputs[i] \in DOMAIN Source
  BY <1>1, InputFacts
<1>4. IsLink = (at > n)
  BY DEF IsLink
<1> HIDE DEF n, l, m
<1>5. /\ at \in Nat \ {0} /\ at \in 1..m
      /\ ~(at > n) => at <= n /\ at \in 1..n
      /\ at > n => at - n \in 1..l /\ at = n + (at - n)
  BY <1>1, <1>2, PlaceOfInput, Zenon
<1>6. Current \in DOMAIN Source
  BY <1>3, <1>5, Zenon DEF Current
<1>7. ~IsLink => at <= n /\ Current = o.attachments[at]
  BY <1>2, <1>4, <1>5, Zenon DEF Current
<1>8. IsLink => at > n /\ at - n \in 1..l /\ Current = o.links[at - n]
  BY <1>2, <1>4, <1>5, Zenon DEF Current
<1> QED
  BY <1>1, <1>5, <1>6, <1>7, <1>8, Zenon DEF n, l, m

(* Where a new record stands. *)
LEMMA AddFacts ==
  ASSUME IntakeTypes, NEW r \in RecordSet, records' = Append(records, r)
  PROVE  /\ Len(records) \in Nat /\ DOMAIN records = 1..Len(records)
         /\ records' \in Seq(RecordSet) /\ Len(records') = Len(records) + 1
         /\ DOMAIN records' = 1..(Len(records) + 1)
         /\ records'[Len(records) + 1] = r
         /\ \A i \in 1..Len(records) : records'[i] = records[i]
<1>1. records \in Seq(RecordSet)
  BY DEF IntakeTypes
<1> QED
  BY <1>1

(* The next input has its record. *)
LEMMA InventoryGrows ==
  ASSUME IntakeTypes, Inventoried, Ingesting, NEW r \in RecordSet, r.uri = Current,
         records' = Append(records, r), at' = at + 1, UNCHANGED <<pc, o>>,
         IsLink => \A i \in DOMAIN records : records[i].uri # Current
  PROVE  Inventoried'
<1> DEFINE n == Len(o.attachments)
<1>1. /\ Len(records) \in Nat /\ DOMAIN records = 1..Len(records)
      /\ Len(records') = Len(records) + 1 /\ DOMAIN records' = 1..(Len(records) + 1)
      /\ records'[Len(records) + 1] = r
      /\ \A i \in 1..Len(records) : records'[i] = records[i]
  BY AddFacts
<1>2. /\ at \in Nat \ {0} /\ n \in Nat /\ Len(o.links) \in Nat
      /\ ~IsLink => at <= n /\ Current = o.attachments[at]
      /\ IsLink => at > n /\ at - n \in 1..Len(o.links) /\ Current = o.links[at - n]
  BY CurrentFacts, InputFacts DEF IntakeTypes
<1>3. /\ Len(records) >= 1 /\ records[1].uri = "prompt"
      /\ at <= n + 1 => Len(records) = at
      /\ at > n + 1 => Len(records) > n
      /\ \A i \in 1..n : i < at => records[i + 1].uri = o.attachments[i]
      /\ \A i \in 1..Len(o.links) : n + i < at =>
           \E j \in DOMAIN records : records[j].uri = o.links[i]
      /\ \A i, j \in DOMAIN records :
           i < j /\ j > n + 1 /\ i > 1 => records[i].uri # records[j].uri
  BY DEF Inventoried, Ingesting
<1>4. records'[1] = records[1] /\ Len(records') >= 1
  BY <1>1, <1>3
<1> HIDE DEF n
<1>5. CASE ~IsLink
  <2>1. at <= n /\ Len(records) = at
    BY <1>2, <1>3, <1>5
  <2>2. \A i \in 1..n : i < at + 1 => records'[i + 1].uri = o.attachments[i]
    <3>1. TAKE i \in 1..n
    <3>2. HAVE i < at + 1
    <3>3. CASE i = at
      BY <1>1, <1>2, <1>5, <2>1, <3>3
    <3>4. CASE i < at
      <4>1. i + 1 \in 1..Len(records)
        BY <1>2, <2>1, <3>4
      <4> QED
        BY <1>1, <1>3, <3>4, <4>1
    <3>5. \A x, y \in Int : x < y + 1 => x = y \/ x < y
      OBVIOUS
    <3>6. i \in Int /\ at \in Int
      BY <1>2
    <3> QED
      BY <3>2, <3>3, <3>4, <3>5, <3>6, Zenon
  <2>3. \A i \in 1..Len(o.links) : ~(n + i < at + 1)
    BY <1>2, <2>1
  <2>4. \A j \in DOMAIN records' : ~(j > n + 1)
    BY <1>1, <1>2, <2>1
  <2>5. at + 1 <= n + 1 /\ Len(records') = at + 1
    BY <1>1, <1>2, <2>1
  <2> QED
    BY <1>2, <1>3, <1>4, <2>2, <2>3, <2>4, <2>5 DEF Inventoried, n
<1>6. CASE IsLink
  <2>1. at > n /\ Len(records) > n /\ at + 1 > n + 1
    BY <1>1, <1>2, <1>3, <1>6
  <2>2. \A i \in 1..n : records'[i + 1].uri = o.attachments[i]
    <3>1. \A i \in 1..n : i < at /\ i + 1 \in 1..Len(records)
      BY <1>1, <1>2, <2>1
    <3> QED
      BY <1>1, <1>3, <3>1
  <2>3. \A i \in 1..Len(o.links) : n + i < at + 1 =>
          \E j \in DOMAIN records' : records'[j].uri = o.links[i]
    <3>1. TAKE i \in 1..Len(o.links)
    <3>2. HAVE n + i < at + 1
    <3>3. CASE n + i = at
      <4>1. i = at - n /\ Len(records) + 1 \in DOMAIN records'
        BY <1>1, <1>2, <3>3
      <4> QED
        BY <1>1, <1>2, <1>6, <4>1
    <3>4. CASE n + i < at
      BY <1>1, <1>3, <3>4
    <3> QED
      BY <1>2, <3>2, <3>3, <3>4
  <2>4. \A i, j \in DOMAIN records' :
          i < j /\ j > n + 1 /\ i > 1 => records'[i].uri # records'[j].uri
    <3>1. TAKE i, j \in DOMAIN records'
    <3>2. HAVE i < j /\ j > n + 1 /\ i > 1
    <3>3. i \in DOMAIN records /\ records'[i] = records[i]
      BY <1>1, <3>2
    <3>4. CASE j = Len(records) + 1
      BY <1>1, <1>6, <3>3, <3>4
    <3>5. CASE j # Len(records) + 1
      <4>1. j \in DOMAIN records /\ records'[j] = records[j]
        BY <1>1, <3>5
      <4> QED
        BY <1>3, <3>2, <3>3, <4>1
    <3> QED
      BY <3>4, <3>5
  <2>5. ~(at + 1 <= n + 1) /\ Len(records') > n
    BY <1>1, <1>2, <2>1
  <2> QED
    BY <1>3, <1>4, <2>2, <2>3, <2>4, <2>5 DEF Inventoried, n
<1> QED
  BY <1>5, <1>6

(* What the constants say of texts, files and hashes. *)
LEMMA FileFacts ==
  /\ {"absent", "note", "nothing"} \cap Texts = {}
  /\ \A u \in Files : u \in DOMAIN Source /\ Source[u] \in FileTypes
  /\ \A u \in DOMAIN Source :
       Source[u] # "malformed" => /\ Source[u] \in RecordTypes
                                  /\ u \in Files \/ Source[u] \in {"url", "api"}
BY PreparationAssumption DEF Files, RecordTypes

(* The hashes that are made, and what they tell. *)
LEMMA HashFacts ==
  /\ \A t \in Texts : /\ <<<<"bytes", t>>, t>> \in Told /\ <<"bytes", t>> \in SomeHashes
                      /\ <<<<"shown", t>>, t>> \in Told /\ <<"shown", t>> \in SomeHashes
  /\ \A u \in DOMAIN Source : <<<<"uri", u>>, "note">> \in Told /\ <<"uri", u>> \in SomeHashes
  /\ \A x \in Options :
       <<<<"prompt", x.words>>, "prompt">> \in Told /\ <<"prompt", x.words>> \in SomeHashes
  /\ \A a, b : <<a, b>> # NoHash
<1>1. /\ \A t \in Texts : <<<<"bytes", t>>, t>> \in Told /\ <<<<"shown", t>>, t>> \in Told
      /\ \A u \in DOMAIN Source : <<<<"uri", u>>, "note">> \in Told
      /\ \A x \in Options : <<<<"prompt", x.words>>, "prompt">> \in Told
  BY DEF Told
<1>2. \A h, t : <<h, t>> \in Told => h \in SomeHashes
  <2>1. ASSUME NEW h, NEW t, <<h, t>> \in Told PROVE h \in SomeHashes
    <3>1. <<h, t>>[1] = h
      OBVIOUS
    <3> QED
      BY <2>1, <3>1, Zenon DEF SomeHashes
  <2> QED
    BY <2>1
<1>3. \A a, b : <<a, b>> # NoHash
  BY DEF NoHash
<1> QED
  BY <1>1, <1>2, <1>3, Zenon

(* A hash tells one text. *)
LEMMA ToldOnce ==
  ASSUME NEW h, NEW x, NEW y, <<h, x>> \in Told, <<h, y>> \in Told
  PROVE  x = y
BY DEF Told

(* A record added for the input at hand keeps what is known of the intake. *)
LEMMA RecordAdded ==
  ASSUME IntakeTypes, RecordsOK, Inventoried, Ingesting, NEW r \in RecordSet,
         r.uri = Current, Add(r), RecordOK(r, unsure'), UNCHANGED <<pc, o, disk>>,
         unsure \subseteq unsure', unsure' \subseteq {<<"bytes", t>> : t \in Texts},
         IsLink => \A i \in DOMAIN records : records[i].uri # Current
  PROVE  IntakeTypes' /\ HeldIsFile' /\ RecordsOK' /\ Inventoried'
<1>1. /\ Len(records) \in Nat /\ DOMAIN records = 1..Len(records)
      /\ records' \in Seq(RecordSet) /\ DOMAIN records' = 1..(Len(records) + 1)
      /\ records'[Len(records) + 1] = r
      /\ \A i \in 1..Len(records) : records'[i] = records[i]
  BY AddFacts DEF Add
<1>2. at' = at + 1 /\ held' = NotRead
  BY DEF Add
<1>3. at + 1 \in 1..(Len(Inputs) + 1)
  <2>1. at \in Nat \ {0} /\ at <= Len(Inputs) /\ Len(Inputs) \in Nat
    BY CurrentFacts, InputFacts DEF IntakeTypes
  <2>2. \A a, m \in Nat : a <= m => a + 1 \in 1..(m + 1)
    OBVIOUS
  <2> QED
    BY <2>1, <2>2, Zenon
<1>4. IntakeTypes'
  BY <1>1, <1>2, <1>3 DEF IntakeTypes, Inputs
<1>5. HeldIsFile'
  BY <1>2 DEF HeldIsFile
<1>6. RecordsOK'
  <2>1. ASSUME NEW i \in DOMAIN records' PROVE RecordOK(records'[i], unsure')
    <3>1. CASE i = Len(records) + 1
      BY <1>1, <3>1
    <3>2. CASE i # Len(records) + 1
      <4>1. i \in DOMAIN records /\ records'[i] = records[i]
        BY <1>1, <3>2
      <4>2. RecordOK(records[i], unsure)
        BY <4>1 DEF RecordsOK
      <4> QED
        BY <4>1, <4>2 DEF RecordOK
    <3> QED
      BY <3>1, <3>2
  <2> QED
    BY <2>1 DEF RecordsOK
<1>7. Inventoried'
  BY InventoryGrows DEF Add
<1> QED
  BY <1>4, <1>5, <1>6, <1>7

(* The pages fetched stay accounted for while records are added. *)
LEMMA LeaveStays ==
  ASSUME FetchedWithLeave, IntakeTypes, NEW r \in RecordSet, Add(r),
         UNCHANGED <<pc, o, fetched>>
  PROVE  FetchedWithLeave'
<1>1. ASSUME NEW i \in DOMAIN records PROVE i \in DOMAIN records' /\ records'[i] = records[i]
  BY AddFacts DEF Add
<1> QED
  BY <1>1 DEF FetchedWithLeave

(* A missing file is recorded as failed. *)
LEMMA MissingIntake ==
  ASSUME IntakeInv, Missing PROVE IntakeInv'
<1> DEFINE r == Record(Current, detect_input_type(Current), "failed", NoHash, "nothing")
<1>1. /\ IntakeTypes /\ RecordsOK /\ Inventoried /\ FetchedWithLeave
      /\ Ingesting /\ ~IsLink /\ Current \in Files /\ Add(r)
      /\ UNCHANGED <<pc, o, disk, fetched, unsure>>
  BY DEF IntakeInv, Missing, IsFile, Elsewhere, world
<1>2. /\ Current \in Uris /\ detect_input_type(Current) \in RecordTypes
  BY <1>1, FileFacts DEF detect_input_type, Uris, RecordTypes, FileTypes
<1>3. r \in RecordSet /\ r.uri = Current
  BY <1>2 DEF RecordSet, Record
<1>4. RecordOK(r, unsure')
  BY DEF RecordOK, Record
<1> HIDE DEF r
<1>5. unsure \subseteq unsure' /\ unsure' \subseteq {<<"bytes", t>> : t \in Texts}
  BY <1>1 DEF IntakeTypes
<1> QED
  BY <1>1, <1>3, <1>4, <1>5, RecordAdded, LeaveStays DEF IntakeInv

(* Whatever a parser makes of a file is a reading. *)
LEMMA ReadingTypes ==
  ASSUME NEW type \in FileTypes \ {"folder", "repo"}, NEW content \in Texts
  PROVE  Readings(type, content) \subseteq ReadingSet
<1> USE DEF ReadingSet, Reading
<1>1. CASE type \in {"text", "markdown", "code", "unknown"}
  BY <1>1 DEF Readings, _ingest_text_file
<1>2. CASE type \in {"docx", "pptx", "spreadsheet"}
  BY <1>2 DEF Readings, _ingest_docx, _ingest_pptx, _ingest_spreadsheet
<1>3. CASE type \in {"image", "audio_video"}
  BY <1>3 DEF Readings, _ingest_image, _ingest_audio_video
<1>4. CASE type \in {"archive", "pdf"}
  BY <1>4 DEF Readings, _ingest_archive, _ingest_pdf
<1> QED
  BY <1>1, <1>2, <1>3, <1>4 DEF FileTypes

(* A file that was read is held until it is hashed. *)
LEMMA ReadIntake ==
  ASSUME IntakeInv, Read PROVE IntakeInv'
<1>1. /\ Ingesting /\ ~IsLink /\ Current \in Files /\ Source[Current] \notin {"folder", "repo"}
      /\ held' \in Readings(Source[Current], disk[Current]) /\ disk[Current] # "absent"
      /\ UNCHANGED <<pc, o, disk, at, records, fetched, unsure>>
  BY DEF Read, IsFile, Elsewhere, world
<1>2. disk[Current] \in Texts /\ Source[Current] \in FileTypes \ {"folder", "repo"}
  BY <1>1, FileFacts DEF IntakeInv, IntakeTypes
<1>3. held' \in ReadingSet
  BY <1>1, <1>2, ReadingTypes
<1>4. IntakeTypes'
  BY <1>1, <1>3 DEF IntakeInv, IntakeTypes, Inputs
<1>5. HeldIsFile'
  BY <1>1 DEF HeldIsFile, Ingesting, IsLink, Current, Inputs
<1>6. RecordsOK' /\ FetchedWithLeave'
  BY <1>1 DEF IntakeInv, RecordsOK, RecordOK, FetchedWithLeave
<1>7. Inventoried'
  BY <1>1 DEF IntakeInv, Inventoried
<1> QED
  BY <1>4, <1>5, <1>6, <1>7 DEF IntakeInv

(* A file that is hashed has its record, and its hash is unsure if the     *)
(* text is another one.                                                    *)
LEMMA HashFileIntake ==
  ASSUME IntakeInv, HashFile PROVE IntakeInv'
<1> DEFINE d == disk[Current]
           gone == Record(Current, Source[Current], "failed", NoHash, "nothing")
           kept == Record(Current, Source[Current], held.status, <<"bytes", d>>, held.text)
           r == IF d = "absent" THEN gone ELSE kept
<1>1. /\ IntakeTypes /\ RecordsOK /\ Inventoried /\ FetchedWithLeave /\ Ingesting /\ Add(r)
      /\ unsure' = unsure \cup {<<"bytes", t>> : t \in {d} \ {held.text, "absent"}}
      /\ UNCHANGED <<pc, o, disk, fetched>>
  BY DEF IntakeInv, HashFile, Elsewhere, world
<1>2. /\ ~IsLink /\ Current \in Files /\ held \in ReadingSet
      /\ disk \in [Files -> Texts \cup {"absent"}]
  BY DEF IntakeInv, HeldIsFile, IntakeTypes, HashFile
<1>3. /\ Current \in Uris /\ Source[Current] \in RecordTypes /\ d \in Texts \cup {"absent"}
  BY <1>2, FileFacts DEF Uris, RecordTypes
<1>4. gone \in RecordSet
  BY <1>3 DEF RecordSet, Record
<1>5. d # "absent" => kept \in RecordSet
  BY <1>2, <1>3, HashFacts DEF RecordSet, Record, ReadingSet
<1>6. r \in RecordSet /\ r.uri = Current
  BY <1>4, <1>5 DEF Record
<1>7. unsure' \subseteq {<<"bytes", t>> : t \in Texts} /\ unsure \subseteq unsure'
  BY <1>1, <1>3 DEF IntakeTypes
<1>8. RecordOK(gone, unsure')
  BY DEF RecordOK, Record
<1>9. ASSUME d # "absent" PROVE RecordOK(kept, unsure')
  <2>1. kept.status # "failed" /\ kept.hash # NoHash
    BY <1>2, HashFacts DEF ReadingSet, Record
  <2>2. CASE d = held.text
    <3>1. <<kept.hash, kept.text>> \in Told
      BY <1>3, <1>9, <2>2, HashFacts DEF Record
    <3> QED
      BY <2>1, <3>1 DEF RecordOK
  <2>3. CASE d # held.text
    <3>1. kept.hash \in unsure'
      BY <1>1, <1>9, <2>3 DEF Record
    <3> QED
      BY <2>1, <3>1 DEF RecordOK
  <2> QED
    BY <2>2, <2>3
<1>10. RecordOK(r, unsure')
  BY <1>8, <1>9
<1> HIDE DEF r, gone, kept, d
<1> QED
  BY <1>1, <1>2, <1>6, <1>7, <1>10, RecordAdded, LeaveStays DEF IntakeInv

(* A folder has its record with the hash of what it showed. *)
LEMMA ReadFolderIntake ==
  ASSUME IntakeInv, ReadFolder PROVE IntakeInv'
<1> DEFINE r == _ingest_folder(Current)
<1>1. /\ IntakeTypes /\ RecordsOK /\ Inventoried /\ FetchedWithLeave
      /\ Ingesting /\ ~IsLink /\ Current \in Files /\ disk[Current] # "absent" /\ Add(r)
      /\ UNCHANGED <<pc, o, disk, fetched, unsure>>
  BY DEF IntakeInv, ReadFolder, IsFile, Elsewhere, world
<1>2. /\ Current \in Uris /\ Source[Current] \in RecordTypes /\ disk[Current] \in Texts
  BY <1>1, FileFacts DEF Uris, RecordTypes, IntakeTypes
<1>3. /\ r \in RecordSet /\ r.uri = Current
  BY <1>2, HashFacts DEF RecordSet, Record, _ingest_folder
<1>4. RecordOK(r, unsure')
  BY <1>2, HashFacts DEF RecordOK, Record, _ingest_folder
<1> HIDE DEF r
<1>5. unsure \subseteq unsure' /\ unsure' \subseteq {<<"bytes", t>> : t \in Texts}
  BY <1>1 DEF IntakeTypes
<1> QED
  BY <1>1, <1>3, <1>4, <1>5, RecordAdded, LeaveStays DEF IntakeInv

(* A link that has a record needs no other. *)
LEMMA SkipIntake ==
  ASSUME IntakeInv, Skip PROVE IntakeInv'
<1> DEFINE n == Len(o.attachments)
<1>1. /\ IntakeTypes /\ Inventoried /\ Ingesting /\ IsLink
      /\ \E i \in DOMAIN records : records[i].uri = Current
      /\ at' = at + 1 /\ UNCHANGED <<pc, o, disk, held, records, fetched, unsure>>
  BY DEF IntakeInv, Skip, Elsewhere, world
<1>2. /\ at \in Nat /\ n \in Nat /\ Len(Inputs) \in Nat /\ at <= Len(Inputs) /\ at > n
      /\ at - n \in 1..Len(o.links) /\ Current = o.links[at - n] /\ Len(o.links) \in Nat
  BY <1>1, CurrentFacts, InputFacts DEF IntakeTypes
<1>3. at + 1 \in 1..(Len(Inputs) + 1)
  <2>1. \A a, m \in Nat : a <= m => a + 1 \in 1..(m + 1)
    OBVIOUS
  <2> QED
    BY <1>2, <2>1, Zenon
<1>4. IntakeTypes'
  BY <1>1, <1>3 DEF IntakeTypes, Inputs
<1>5. held = NotRead
  BY <1>1 DEF IntakeInv, HeldIsFile
<1>6. HeldIsFile' /\ RecordsOK' /\ FetchedWithLeave'
  BY <1>1, <1>5 DEF IntakeInv, HeldIsFile, RecordsOK, RecordOK, FetchedWithLeave
<1>7. /\ Len(records) >= 1 /\ records[1].uri = "prompt" /\ (at > n + 1 => Len(records) > n)
      /\ (at <= n + 1 => Len(records) = at)
      /\ \A i \in 1..n : i < at => records[i + 1].uri = o.attachments[i]
      /\ \A i \in 1..Len(o.links) : n + i < at =>
           \E j \in DOMAIN records : records[j].uri = o.links[i]
      /\ \A i, j \in DOMAIN records :
           i < j /\ j > n + 1 /\ i > 1 => records[i].uri # records[j].uri
  BY <1>1 DEF Inventoried, Ingesting
<1> HIDE DEF n
<1>8. /\ ~(at + 1 <= n + 1) /\ Len(records) > n /\ \A i \in 1..n : i < at
      /\ \A i \in 1..Len(o.links) : n + i < at + 1 => n + i < at \/ i = at - n
  <2>1. at \in Nat /\ n \in Nat /\ at > n /\ Len(records) \in Nat
    BY <1>1, <1>2 DEF IntakeTypes
  <2>2. Len(records) > n
    BY <1>7, <2>1
  <2> QED
    BY <2>1, <2>2
<1>9. \A i \in 1..Len(o.links) : n + i < at + 1 =>
           \E j \in DOMAIN records : records[j].uri = o.links[i]
  BY <1>1, <1>2, <1>7, <1>8, Zenon
<1>10. Inventoried'
  BY <1>1, <1>7, <1>8, <1>9 DEF Inventoried, n
<1> QED
  BY <1>4, <1>6, <1>10 DEF IntakeInv

(* A page has its record, fetched with leave or not at all. *)
LEMMA FetchIntake ==
  ASSUME IntakeInv, Fetch PROVE IntakeInv'
<1> DEFINE Back == {Record(Current, Source[Current], "parsed", <<"bytes", t>>, t) : t \in Texts}
<1>1. /\ IntakeTypes /\ RecordsOK /\ Inventoried /\ FetchedWithLeave /\ Ingesting /\ ~IsFile
      /\ Source[Current] # "malformed"
      /\ IsLink => \A i \in DOMAIN records : records[i].uri # Current
      /\ UNCHANGED <<pc, o, disk, unsure>>
  BY DEF IntakeInv, Fetch, Elsewhere, world
<1>2. /\ Current \in DOMAIN Source /\ Current \in Uris /\ Source[Current] \in RecordTypes
      /\ Current \in Files \/ Source[Current] \in {"url", "api"}
  BY <1>1, CurrentFacts, FileFacts DEF Uris
<1>3. PICK r \in {Unfetched(Current)} \cup Back :
        /\ Add(r)
        /\ fetched' # fetched => o.internet
        /\ fetched' # {} => fetched # {} \/ o.internet
  BY <1>1 DEF Fetch, _fetch_url
<1>4. r \in RecordSet /\ r.uri = Current /\ r.type = Source[Current] /\ RecordOK(r, unsure')
  <2>1. CASE r = Unfetched(Current)
    BY <1>2, <2>1, HashFacts DEF RecordSet, RecordOK, Record, Unfetched
  <2>2. ASSUME NEW t \in Texts, r = Record(Current, Source[Current], "parsed", <<"bytes", t>>, t)
        PROVE  r \in RecordSet /\ r.uri = Current /\ r.type = Source[Current]
               /\ RecordOK(r, unsure')
    BY <1>2, <2>2, HashFacts DEF RecordSet, RecordOK, Record
  <2> QED
    BY <1>3, <2>1, <2>2
<1>5. unsure \subseteq unsure' /\ unsure' \subseteq {<<"bytes", t>> : t \in Texts}
  BY <1>1 DEF IntakeTypes
<1>6. IntakeTypes' /\ HeldIsFile' /\ RecordsOK' /\ Inventoried'
  BY <1>1, <1>3, <1>4, <1>5, RecordAdded
<1>7. FetchedWithLeave'
  <2>1. /\ Len(records) \in Nat /\ DOMAIN records = 1..Len(records)
        /\ DOMAIN records' = 1..(Len(records) + 1) /\ records'[Len(records) + 1] = r
        /\ \A i \in 1..Len(records) : records'[i] = records[i]
    BY <1>1, <1>3, <1>4, AddFacts DEF Add
  <2>2. CASE fetched' = fetched
    BY <1>1, <2>1, <2>2 DEF FetchedWithLeave
  <2>3. CASE fetched' # fetched
    <3>1. o.internet /\ pc # "idle"
      BY <1>1, <1>3, <2>3 DEF Ingesting
    <3>2. CASE IsLink
      <4>1. Len(o.links) >= 1
        BY <1>1, <3>2, CurrentFacts, InputFacts DEF IntakeTypes
      <4>2. o.links # <<>>
        BY <4>1
      <4> QED
        BY <1>1, <3>1, <4>2 DEF FetchedWithLeave
    <3>3. CASE ~IsLink
      <4>1. r.type \in {"url", "api"}
        BY <1>1, <1>2, <1>4, <3>3 DEF IsFile
      <4>2. Len(records) + 1 \in DOMAIN records'
        BY <2>1
      <4> QED
        BY <1>1, <2>1, <3>1, <4>1, <4>2 DEF FetchedWithLeave
    <3> QED
      BY <3>2, <3>3
  <2> QED
    BY <2>2, <2>3
<1> QED
  BY <1>6, <1>7 DEF IntakeInv

(* What a step leaves of the intake when it reads nothing of it. *)
LEMMA IntakeStays ==
  ASSUME IntakeInv, disk' \in [Files -> Texts \cup {"absent"}], UNCHANGED <<o, intake>>,
         pc' \in Phases, (pc' = "idle") = (pc = "idle"), held # NotRead => pc' = pc
  PROVE  IntakeInv'
<1>1. UNCHANGED <<at, held, records, fetched, unsure, o>>
  BY DEF intake
<1>2. IntakeTypes' /\ RecordsOK' /\ FetchedWithLeave'
  BY <1>1 DEF IntakeInv, IntakeTypes, RecordsOK, RecordOK, FetchedWithLeave, Inputs
<1>3. HeldIsFile'
  BY <1>1 DEF IntakeInv, HeldIsFile, IsLink, Current, Inputs
<1>4. Inventoried'
  BY <1>1 DEF IntakeInv, Inventoried
<1> QED
  BY <1>2, <1>3, <1>4 DEF IntakeInv

(* A run starts with the record of its prompt. *)
LEMMA StartIntake ==
  ASSUME IntakeInv, NEW inv \in Options, StartRun(inv) PROVE IntakeInv'
<1> DEFINE r == Prompt(inv)
<1>1. /\ pc' = "ingest" /\ o' = inv /\ at' = 1 /\ records' = <<r>> /\ fetched' = {}
      /\ held' = NotRead /\ UNCHANGED <<disk, unsure>>
  BY DEF StartRun, world
<1>2. r \in RecordSet /\ r.uri = "prompt" /\ RecordOK(r, unsure')
  BY HashFacts DEF RecordSet, Record, Prompt, RecordOK, Uris, RecordTypes
<1> HIDE DEF r
<1>3. /\ records' \in Seq(RecordSet) /\ DOMAIN records' = {1} /\ Len(records') = 1
      /\ records'[1] = r
  BY <1>1, <1>2
<1>4. IntakeTypes'
  <2>1. o' \in Options
    BY <1>1
  <2>2. \A n \in Nat : 1 \in 1..(n + 1)
    OBVIOUS
  <2>3. Len(o'.attachments \o o'.links) \in Nat
    <3>1. o'.attachments \in Seq(DOMAIN Source) /\ o'.links \in Seq(DOMAIN Source)
      BY <2>1, PreparationAssumption
    <3>2. o'.attachments \o o'.links \in Seq(DOMAIN Source)
      BY <3>1, ConcatFacts, Zenon
    <3> QED
      BY <3>2, ConcatFacts, Zenon
  <2>4. Len(Inputs') \in Nat
    BY <2>3 DEF Inputs
  <2>5. at' \in 1..(Len(Inputs') + 1)
    BY <1>1, <2>2, <2>4, Zenon
  <2> QED
    BY <1>1, <1>3, <2>1, <2>5 DEF IntakeInv, IntakeTypes, Phases
<1>5. HeldIsFile' /\ RecordsOK' /\ FetchedWithLeave'
  BY <1>1, <1>2, <1>3 DEF HeldIsFile, RecordsOK, FetchedWithLeave
<1>6. Inventoried'
  <2>1. Len(o'.attachments) \in Nat
    <3>1. o'.attachments \in Seq(DOMAIN Source)
      BY <1>1, PreparationAssumption
    <3> QED
      BY <3>1
  <2> DEFINE n == Len(o'.attachments)
  <2> HIDE DEF n
  <2>2. /\ n \in Nat /\ 1 <= n + 1 /\ ~(1 > n + 1) /\ ~(1 < 1)
    BY <2>1 DEF n
  <2>3. \A i \in 1..n : ~(i < 1)
    BY <2>1 DEF n
  <2>4. \A i \in 1..Len(o'.links) : ~(n + i < 1)
    BY <2>1 DEF n
  <2> QED
    BY <1>1, <1>2, <1>3, <2>2, <2>3, <2>4 DEF Inventoried, n
<1> QED
  BY <1>4, <1>5, <1>6 DEF IntakeInv

(* A malformed input ends the run. *)
LEMMA RefuseIntake ==
  ASSUME IntakeInv, Refuse PROVE IntakeInv'
<1>1. /\ Ingesting /\ Source[Current] = "malformed" /\ pc' = "failed" /\ pc = "ingest"
      /\ UNCHANGED <<o, disk, intake>>
  BY DEF Refuse, Elsewhere, world, Ingesting
<1>2. held = NotRead
  BY <1>1 DEF IntakeInv, HeldIsFile, Files
<1> QED
  BY <1>1, <1>2, IntakeStays DEF IntakeInv, IntakeTypes, Phases

(* When the contract is made nothing is held that was not hashed. *)
LEMMA ContractIntake ==
  ASSUME IntakeInv, Contract PROVE IntakeInv'
<1>1. /\ pc = "ingest" /\ pc' = "probe" /\ at > Len(Inputs) /\ UNCHANGED <<o, disk, intake>>
  BY DEF Contract, world
<1>2. o \in Options /\ at \in 1..(Len(Inputs) + 1)
  BY DEF IntakeInv, IntakeTypes
<1>3. IsLink
  <2>1. /\ Len(o.attachments) \in Nat /\ Len(o.links) \in Nat
        /\ Len(Inputs) = Len(o.attachments) + Len(o.links)
    BY <1>2, InputFacts, Zenon
  <2>2. \A a, l \in Nat : \A i \in 1..(a + l + 1) : i > a + l => i > a
    OBVIOUS
  <2>3. at > Len(o.attachments)
    BY <1>1, <1>2, <2>1, <2>2, Zenon
  <2> QED
    BY <2>3 DEF IsLink
<1>4. held = NotRead
  BY <1>3 DEF IntakeInv, HeldIsFile
<1> QED
  BY <1>1, <1>4, IntakeStays DEF IntakeInv, IntakeTypes, Phases

(* A write changes the disk and nothing that was read of it. *)
LEMMA WriteIntake ==
  ASSUME IntakeInv, NEW f \in Files, NEW t \in Texts \cup {"absent"}, Write(f, t)
  PROVE  IntakeInv'
<1>1. disk' = [disk EXCEPT ![f] = t] /\ UNCHANGED <<o, pc, intake>>
  BY DEF Write
<1> QED
  BY <1>1, IntakeStays DEF IntakeInv, IntakeTypes

(* After the ingestion nothing touches the intake but the next run. *)
LEMMA LaterIntake ==
  ASSUME IntakeInv,
         \/ \E p \in Configured, s \in Statuses : Observe(p, s)
         \/ \E p \in Providers : Probe(p)
         \/ Plan \/ RouteNext \/ Compare \/ Execute \/ Audit \/ Rest \/ UNCHANGED vars
  PROVE  IntakeInv'
<1>1. /\ UNCHANGED <<o, disk, intake>>
      /\ pc' = pc \/ (pc \notin {"idle", "ingest"} /\ pc' \in Phases \ {"idle"})
  BY DEF Observe, Probe, Plan, RouteNext, Compare, Execute, Audit, Rest, vars, world, Phases
<1>2. held # NotRead => pc' = pc
  BY <1>1 DEF IntakeInv, HeldIsFile
<1> QED
  BY <1>1, <1>2, IntakeStays DEF IntakeInv, IntakeTypes

(* Nothing is recorded at first. *)
LEMMA InitIntake ==
  ASSUME Init PROVE IntakeInv
<1>1. o \in Options
  BY PreparationAssumption DEF Init
<1>2. Len(Inputs) \in Nat
  <2>1. Inputs \in Seq(DOMAIN Source)
    BY <1>1, InputFacts, Zenon
  <2> QED
    BY <2>1, ConcatFacts, Zenon
<1>3. 1 \in 1..(Len(Inputs) + 1)
  <2>1. \A n \in Nat : 1 \in 1..(n + 1)
    OBVIOUS
  <2> QED
    BY <1>2, <2>1
<1>4. disk \in [Files -> Texts \cup {"absent"}]
  BY PreparationAssumption DEF Init
<1>5. IntakeTypes
  BY <1>1, <1>3, <1>4 DEF Init, IntakeTypes, Phases
<1> QED
  BY <1>5 DEF Init, IntakeInv, HeldIsFile, RecordsOK, Inventoried, FetchedWithLeave

(* Every step keeps what is known of the intake. *)
LEMMA StepIntake ==
  ASSUME IntakeInv, [Next]_vars PROVE IntakeInv'
<1>1. ASSUME Environment PROVE IntakeInv'
  BY <1>1, WriteIntake, LaterIntake DEF Environment
<1>2. ASSUME Ingest PROVE IntakeInv'
  BY <1>2, RefuseIntake, MissingIntake, ReadIntake, HashFileIntake, ReadFolderIntake,
     SkipIntake, FetchIntake DEF Ingest
<1>3. ASSUME Advance PROVE IntakeInv'
  BY <1>2, <1>3, ContractIntake, LaterIntake DEF Advance
<1>4. ASSUME NEW inv \in Options, StartRun(inv) PROVE IntakeInv'
  BY <1>4, StartIntake
<1> QED
  BY <1>1, <1>3, <1>4, LaterIntake DEF Next
-----------------------------------------------------------------------------
(* From the contract on. *)

(* What a step of the ingestion, or a write beside it, has to do with the  *)
(* rest of the run: it may fail.                                           *)
LEMMA IngestShape ==
  ASSUME Ingest \/ \E f \in Files, t \in Texts \cup {"absent"} : Write(f, t)
  PROVE  /\ pc = "ingest" /\ pc' \in {"ingest", "failed"}
         /\ UNCHANGED <<o, gates, health, probing, plan, decisions, capacity, reuse, results,
                        cache, past, contacted>>
<1>1. CASE Refuse
  BY <1>1 DEF Refuse, Ingesting, Elsewhere, world, made
<1>2. CASE Missing \/ Read \/ ReadFolder
  BY <1>2 DEF Missing, Read, ReadFolder, IsFile, Ingesting, Elsewhere, world, made
<1>3. CASE HashFile \/ Skip \/ Fetch
  BY <1>3 DEF HashFile, Skip, Fetch, Ingesting, Elsewhere, world, made
<1>4. CASE \E f \in Files, t \in Texts \cup {"absent"} : Write(f, t)
  BY <1>4 DEF Write, made
<1> QED
  BY <1>1, <1>2, <1>3, <1>4 DEF Ingest

(* What the steps after the contract have to do with the intake and the    *)
(* gates: nothing.                                                         *)
LEMMA LaterShape ==
  ASSUME \/ \E p \in Configured, s \in Statuses : Observe(p, s)
         \/ \E p \in Providers : Probe(p)
         \/ Plan \/ RouteNext \/ Compare \/ Execute \/ Audit \/ Rest \/ UNCHANGED vars
  PROVE  /\ UNCHANGED <<o, at, records, gates, unsure>>
         /\ pc \in Early => pc' = pc
         /\ pc \notin Early => pc' \notin Early
BY DEF Observe, Probe, Plan, RouteNext, Compare, Execute, Audit, Rest, vars, intake, Early

(* The ingestion is over once the contract is made. *)
LEMMA OverStep ==
  ASSUME IngestionOver, [Next]_vars PROVE IngestionOver'
<1>1. CASE Ingest \/ \E f \in Files, t \in Texts \cup {"absent"} : Write(f, t)
  BY <1>1, IngestShape DEF IngestionOver, Early
<1>2. CASE Contract
  BY <1>2 DEF IngestionOver, Contract, intake, Inputs
<1>3. CASE \/ \E p \in Configured, s \in Statuses : Observe(p, s)
           \/ \E p \in Providers : Probe(p)
           \/ Plan \/ RouteNext \/ Compare \/ Execute \/ Audit \/ Rest \/ UNCHANGED vars
  BY <1>3, LaterShape DEF IngestionOver, Inputs
<1>4. CASE \E inv \in Options : StartRun(inv)
  BY <1>4 DEF StartRun, IngestionOver, Early
<1> QED
  BY <1>1, <1>2, <1>3, <1>4 DEF Next, Environment, Advance

(* The approval report stays that of the invocation and the records. *)
LEMMA GatesStep ==
  ASSUME GatesOfRun, [Next]_vars PROVE GatesOfRun'
<1>1. CASE Ingest \/ \E f \in Files, t \in Texts \cup {"absent"} : Write(f, t)
  BY <1>1, IngestShape DEF GatesOfRun, Early
<1>2. CASE Contract
  BY <1>2 DEF GatesOfRun, Contract, Early, Types, contract, intake
<1>3. CASE \/ \E p \in Configured, s \in Statuses : Observe(p, s)
           \/ \E p \in Providers : Probe(p)
           \/ Plan \/ RouteNext \/ Compare \/ Execute \/ Audit \/ Rest \/ UNCHANGED vars
  BY <1>3, LaterShape DEF GatesOfRun, Types, contract
<1>4. CASE \E inv \in Options : StartRun(inv)
  BY <1>4 DEF StartRun, GatesOfRun, Early
<1> QED
  BY <1>1, <1>2, <1>3, <1>4 DEF Next, Environment, Advance

(* Whom the probes ask: models that the policy allows, never the tools. *)
LEMMA ProbedFacts ==
  ASSUME NEW inv, NEW p \in Probed(inv)
  PROVE  /\ p \in Configured /\ p \in Providers /\ p # "deterministic.tools"
         /\ provider_allowed(compile_policy(inv), p)
BY ToolsEntry, ConfiguredAssumption DEF Probed

(* Providers are contacted with the leave of the policy, but for the       *)
(* verifier.                                                               *)
LEMMA ContactsStep ==
  ASSUME ContactsAllowed, Decided, [Next]_vars PROVE ContactsAllowed'
<1> USE DEF ContactsAllowed, Early
<1>1. CASE Ingest \/ \E f \in Files, t \in Texts \cup {"absent"} : Write(f, t)
  BY <1>1, IngestShape
<1>2. CASE Contract
  <2>1. probing' = Probed(o) /\ o' = o /\ contacted' = contacted /\ pc = "ingest" /\ pc' = "probe"
    BY <1>2 DEF Contract
  <2>2. Probed(o) \subseteq Configured
    BY DEF Probed
  <2> QED
    BY <2>1, <2>2
<1>3. ASSUME NEW p \in Providers, Probe(p) PROVE ContactsAllowed'
  <2>1. /\ pc = "probe" /\ pc' = pc /\ o' = o /\ p \in probing /\ probing' = probing \ {p}
        /\ contacted' = contacted \cup {<<p, "probe">>}
    BY <1>3 DEF Probe
  <2>2. provider_allowed(policy, p)
    BY <2>1, ProbedFacts DEF policy
  <2>3. policy' = policy
    BY <2>1 DEF policy
  <2>4. \A c \in contacted' : c[2] # "verify" => provider_allowed(policy', c[1])
    BY <2>1, <2>2, <2>3
  <2> QED
    BY <2>1, <2>4
<1>4. CASE Execute
  <2>1. PICK more \in SUBSET UNION {decisions[t].alternatives : t \in ToModels} :
          contacted' = contacted
            \cup {<<p, "chapter">> : p \in ({decisions[t].provider : t \in ToModels} \cup more)
                                           \ {"deterministic.tools"}}
    BY <1>4 DEF Execute
  <2>2. pc = "execute" /\ pc' = "audit" /\ o' = o /\ probing' = probing
    BY <1>4 DEF Execute
  <2>3. DOMAIN decisions = Tasks
    BY <2>2 DEF Decided
  <2>4. ASSUME NEW t \in ToModels, NEW p \in {decisions[t].provider} \cup decisions[t].alternatives
        PROVE  provider_allowed(policy, p)
    BY <2>3, <2>4 DEF Decided, DecisionOK, ToModels, Fresh
  <2>5. \A p \in {decisions[t].provider : t \in ToModels} \cup more : provider_allowed(policy, p)
    BY <2>4
  <2>6. policy' = policy
    BY <2>2 DEF policy
  <2>7. \A c \in contacted' : c[2] # "verify" => provider_allowed(policy', c[1])
    BY <2>1, <2>5, <2>6
  <2> QED
    BY <2>2, <2>7
<1>5. CASE Audit
  <2>1. /\ pc = "audit" /\ pc' = "done" /\ UNCHANGED <<o, probing>>
        /\ \A c \in contacted' : c \in contacted \/ c[2] = "verify"
    BY <1>5 DEF Audit
  <2> QED
    BY <2>1 DEF policy
<1>6. CASE \E inv \in Options : StartRun(inv)
  BY <1>6 DEF StartRun
<1>7. CASE \/ \E p \in Configured, s \in Statuses : Observe(p, s)
           \/ Plan \/ RouteNext \/ Compare \/ Rest \/ UNCHANGED vars
  <2>1. UNCHANGED <<o, contacted, probing>>
    BY <1>7 DEF Observe, Plan, RouteNext, Compare, Rest, vars
  <2>2. pc' # pc => pc \notin Early /\ pc' \notin Early \cup {"probe"}
    BY <1>7 DEF Observe, Plan, RouteNext, Compare, Rest, vars
  <2> QED
    BY <2>1, <2>2 DEF policy
<1> QED
  BY <1>1, <1>2, <1>3, <1>4, <1>5, <1>6, <1>7 DEF Next, Environment, Advance

(* What health a provider may have, at first and after a probe. *)
LEMMA HealthFacts ==
  /\ InitialHealth \in [Providers -> HealthSet]
  /\ InitialHealth["deterministic.tools"].status = "healthy"
  /\ \A answer \in Answers, latency \in Nat : _classify(answer, latency) \in HealthSet
<1>1. ASSUME NEW answer \in Answers, NEW latency \in Nat
      PROVE  _classify(answer, latency) \in HealthSet
  BY DEF Answers, _classify, HealthSet, Health
<1>2. ASSUME NEW p \in Providers PROVE InitialHealth[p] \in HealthSet
  BY TableTypes DEF InitialHealth, HealthSet, Health
<1>3. "deterministic.tools" \in Providers /\ "deterministic.tools" \in Configured
  BY ProviderNames, ConfiguredAssumption
<1> QED
  BY <1>1, <1>2, <1>3, ToolsEntry DEF InitialHealth, Health

(* No probe and no observation takes the tools away. *)
LEMMA ToolsStep ==
  ASSUME ToolsStand, ContactsAllowed, [Next]_vars PROVE ToolsStand'
<1> USE DEF ToolsStand
<1>1. ASSUME NEW p \in Configured, NEW s \in Statuses, Observe(p, s) PROVE ToolsStand'
  <2>1. health' = health /\ capacity' = [capacity EXCEPT ![p] = s] /\ p # "deterministic.tools"
    BY <1>1, ToolsEntry DEF Observe
  <2>2. p \in Providers /\ s \in CapacityStatuses
    BY ConfiguredAssumption, PreparationAssumption
  <2> QED
    BY <2>1, <2>2
<1>2. ASSUME NEW p \in Providers, Probe(p) PROVE ToolsStand'
  <2>1. PICK answer \in ProbeAnswers, latency \in Latencies :
          health' = [health EXCEPT ![p] = _classify(answer, latency)]
    BY <1>2 DEF Probe
  <2>2. capacity' = capacity /\ p # "deterministic.tools"
    BY <1>2, ProbedFacts DEF Probe, ContactsAllowed, world
  <2>3. _classify(answer, latency) \in HealthSet
    BY HealthFacts, PreparationAssumption
  <2> QED
    BY <2>1, <2>2, <2>3
<1>3. ASSUME NEW inv \in Options, StartRun(inv) PROVE ToolsStand'
  BY <1>3, HealthFacts DEF StartRun, world
<1>4. CASE Ingest \/ \E f \in Files, t \in Texts \cup {"absent"} : Write(f, t)
  BY <1>4, IngestShape
<1>5. CASE Contract \/ Plan \/ RouteNext \/ Compare \/ Execute \/ Audit \/ Rest \/ UNCHANGED vars
  <2>1. UNCHANGED <<health, capacity>>
    BY <1>5 DEF Contract, Plan, RouteNext, Compare, Execute, Audit, Rest, vars, world
  <2> QED
    BY <2>1
<1> QED
  BY <1>1, <1>2, <1>3, <1>4, <1>5 DEF Next, Environment, Advance

(* The plan is one of the two that there are, under the budget of the run. *)
LEMMA PlanStep ==
  ASSUME PlanOfRun, [Next]_vars PROVE PlanOfRun'
<1>1. CASE Ingest \/ \E f \in Files, t \in Texts \cup {"absent"} : Write(f, t)
  BY <1>1, IngestShape DEF PlanOfRun
<1>2. CASE Plan
  <2>1. _model_synthesis_available(health, o) \in BOOLEAN
    BY DEF _model_synthesis_available
  <2> QED
    BY <1>2, <2>1 DEF Plan, PlanOfRun
<1>3. CASE Contract \/ \E inv \in Options : StartRun(inv)
  BY <1>3 DEF Contract, StartRun, PlanOfRun
<1>4. CASE \/ \E p \in Configured, s \in Statuses : Observe(p, s)
           \/ \E p \in Providers : Probe(p)
           \/ RouteNext \/ Compare \/ Execute \/ Audit \/ Rest \/ UNCHANGED vars
  <2>1. UNCHANGED <<plan, o>> /\ (pc' = pc \/ pc \in {"route", "execute", "audit"})
    BY <1>4 DEF Observe, Probe, RouteNext, Compare, Execute, Audit, Rest, vars
  <2> QED
    BY <2>1 DEF PlanOfRun
<1> QED
  BY <1>1, <1>2, <1>3, <1>4 DEF Next, Environment, Advance

(* The tasks can be counted. *)
LEMMA TasksFinite ==
  IsFiniteSet(Tasks)
<1>1. \A S, x : IsFiniteSet(S) => IsFiniteSet(S \cup {x})
  BY FS_AddElement
<1> DEFINE A == {"T-AGGREGATE"} \cup {"T-GAP-ANALYSIS"}
           B == (A \cup {"T-SYNTHESIS"}) \cup {"T-CHAPTER-002"}
           C == (B \cup {"T-CHAPTER-003"}) \cup {"T-ARTIFACT-BUILD"}
<1>2. IsFiniteSet(A) /\ (IsFiniteSet(A) => IsFiniteSet(B)) /\ (IsFiniteSet(B) => IsFiniteSet(C))
  BY <1>1, FS_Singleton
<1>3. Tasks = C \cup {"T-QUALITY"}
  BY TaskNames
<1> HIDE DEF A, B, C
<1> QED
  BY <1>1, <1>2, <1>3

(* While a task is undecided there is a next one in the routing order. *)
LEMMA NextToRoute ==
  ASSUME DOMAIN decisions \subseteq Tasks, DOMAIN decisions # Tasks
  PROVE  RoutingOrder[Cardinality(DOMAIN decisions) + 1] \in Tasks
<1> DEFINE n == Cardinality(DOMAIN decisions)
           m == Cardinality(Tasks)
<1>1. n \in Nat /\ m \in Nat /\ n <= m /\ n # m
  BY TasksFinite, FS_Subset, FS_CardinalityType
<1>2. RoutingOrder \in Seq(Tasks) /\ Len(RoutingOrder) = m
  BY RoutingOrderAssumption
<1> HIDE DEF n, m
<1>3. n + 1 \in 1..m
  BY <1>1
<1>4. n + 1 \in 1..Len(RoutingOrder)
  BY <1>2, <1>3
<1>5. \A s \in Seq(Tasks) : \A i \in 1..Len(s) : s[i] \in Tasks
  OBVIOUS
<1>6. RoutingOrder[n + 1] \in Tasks
  BY <1>2, <1>4, <1>5, Zenon
<1> QED
  BY <1>6 DEF n

(* Every decision is one the router may make, also after later             *)
(* observations.                                                           *)
LEMMA DecidedStep ==
  ASSUME IntakeInv, StageInv, [Next]_vars PROVE Decided'
<1>1. CASE Ingest \/ \E f \in Files, t \in Texts \cup {"absent"} : Write(f, t)
  <2>1. DOMAIN decisions' = {} /\ pc' \in Early
    BY <1>1, IngestShape DEF StageInv, Decided, Early
  <2> QED
    BY <2>1 DEF Decided
<1>2. CASE Contract \/ Plan \/ (\E p \in Providers : Probe(p))
  <2>1. DOMAIN decisions' = {} /\ pc' \in {"probe", "route"}
    BY <1>2 DEF Contract, Plan, Probe, StageInv, Decided, Early
  <2> QED
    BY <2>1 DEF Decided, Early
<1>3. CASE \E inv \in Options : StartRun(inv)
  <2>1. DOMAIN decisions' = {} /\ pc' = "ingest"
    BY <1>3 DEF StartRun
  <2> QED
    BY <2>1 DEF Decided, Early
<1>4. CASE RouteNext
  <2> DEFINE t == RoutingOrder[Cardinality(DOMAIN decisions) + 1]
             d == route(plan[t], policy, health, capacity)
  <2>1. /\ pc = "route" /\ DOMAIN decisions # Tasks /\ UNCHANGED <<pc, o, plan, health>>
        /\ decisions' = Merge(decisions, [x \in {t} |-> route(plan[x], policy, health, capacity)])
    BY <1>4 DEF RouteNext
  <2>2. t \in Tasks
    BY <2>1, NextToRoute DEF StageInv, Decided
  <2>3. DecisionOK(t, d)
    <3>1. o.budget \in DOMAIN ProfileMaxTier
      BY InputFacts DEF IntakeInv, IntakeTypes
    <3>2. PICK model \in BOOLEAN : plan = EnforceTiers(create_execution_plan(model), o.budget)
      BY <2>1 DEF StageInv, PlanOfRun
    <3> HIDE DEF t, d
    <3>3. ToolsStand
      BY DEF StageInv
    <3> QED
      BY <2>2, <3>1, <3>2, <3>3, RouteIsOK, Zenon DEF d
  <2> DEFINE g == [x \in {t} |-> route(plan[x], policy, health, capacity)]
  <2>4. DOMAIN g = {t} /\ g[t] = d
    OBVIOUS
  <2>5. decisions' = Merge(decisions, g)
    BY <2>1
  <2> HIDE DEF t, d, g
  <2>6. /\ DOMAIN decisions' = DOMAIN decisions \cup {t}
        /\ \A x \in DOMAIN decisions : decisions'[x] = decisions[x]
        /\ t \notin DOMAIN decisions => decisions'[t] = d
    BY <2>4, <2>5 DEF Merge
  <2>7. \A x \in DOMAIN decisions' : DecisionOK(x, decisions'[x])
    BY <2>3, <2>6 DEF StageInv, Decided
  <2>8. policy' = policy
    BY <2>1 DEF policy
  <2> QED
    BY <2>1, <2>2, <2>6, <2>7, <2>8 DEF StageInv, Decided, DecisionOK, Early
<1>5. CASE \/ \E p \in Configured, s \in Statuses : Observe(p, s)
           \/ Compare \/ Execute \/ Audit \/ Rest \/ UNCHANGED vars
  <2>1. UNCHANGED <<decisions, plan, health, o>>
    BY <1>5 DEF Observe, Compare, Execute, Audit, Rest, vars
  <2>2. \/ pc' = pc
        \/ pc = "route" /\ DOMAIN decisions = Tasks /\ pc' = "execute"
        \/ pc \in {"execute", "audit"} /\ pc' \in {"audit", "done"}
    BY <1>5 DEF Observe, Compare, Execute, Audit, Rest, vars
  <2>3. policy' = policy
    BY <2>1 DEF policy
  <2>4. \A t \in DOMAIN decisions : DecisionOK(t, decisions[t])
    BY DEF StageInv, Decided
  <2>5. \A t \in DOMAIN decisions' : DecisionOK(t, decisions[t])'
    BY <2>1, <2>3, <2>4 DEF DecisionOK
  <2> QED
    BY <2>1, <2>2, <2>5 DEF StageInv, Decided, Early
<1> QED
  BY <1>1, <1>2, <1>3, <1>4, <1>5 DEF Next, Environment, Advance

(* Nothing is decided at first. *)
LEMMA InitStage ==
  ASSUME Init PROVE StageInv
<1>1. IngestionOver /\ GatesOfRun /\ ContactsAllowed /\ PlanOfRun /\ Decided
  BY DEF Init, IngestionOver, GatesOfRun, ContactsAllowed, PlanOfRun, Decided, Early
<1>2. ToolsStand
  BY HealthFacts, ProviderNames DEF Init, ToolsStand, CapacityStatuses
<1> QED
  BY <1>1, <1>2 DEF StageInv

(* Every step keeps what is known of the stages. *)
LEMMA StepStage ==
  ASSUME IntakeInv, StageInv, [Next]_vars PROVE StageInv'
<1>1. IngestionOver' /\ GatesOfRun' /\ ContactsAllowed' /\ ToolsStand' /\ PlanOfRun'
  BY OverStep, GatesStep, ContactsStep, ToolsStep, PlanStep DEF StageInv
<1> QED
  BY <1>1, DecidedStep DEF StageInv
-----------------------------------------------------------------------------
(* Reuse. *)

(* Nothing is told of a text that is not there. *)
LEMMA NothingUntold ==
  \A h : <<h, "nothing">> \notin Told
BY FileFacts DEF Told

(* A record with a hash that tells its text is a chunk. *)
LEMMA ChunkOfRecord ==
  ASSUME RecordsOK, NEW i \in DOMAIN records, records[i].hash \notin unsure \cup {NoHash}
  PROVE  /\ <<records[i].hash, records[i].text>> \in Told
         /\ <<records[i].hash, records[i].text>> \in Basis
<1>1. <<records[i].hash, records[i].text>> \in Told
  BY DEF RecordsOK, RecordOK
<1>2. records[i].text # "nothing"
  BY <1>1, NothingUntold
<1>3. Chunk(records[i]) \in Chunks
  BY <1>2 DEF Chunks, Range
<1>4. Chunk(records[i]).hash = records[i].hash /\ Chunk(records[i]).text = records[i].text
  BY DEF Chunk
<1> QED
  BY <1>1, <1>3, <1>4 DEF Basis

(* A chunk whose hash is not unsure has the text the hash tells. *)
LEMMA RecordOfChunk ==
  ASSUME RecordsOK, NEW c \in Chunks, c.hash \notin unsure
  PROVE  \E i \in DOMAIN records : /\ c.hash = records[i].hash /\ c.hash # NoHash
                                   /\ <<c.hash, c.text>> \in Told
<1>1. PICK i \in DOMAIN records : c = Chunk(records[i]) /\ records[i].text # "nothing"
  BY DEF Chunks, Range
<1>2. c.hash = records[i].hash /\ c.text = records[i].text
  BY <1>1 DEF Chunk
<1>3. c.hash # NoHash
  BY <1>1, <1>2 DEF RecordsOK, RecordOK
<1> QED
  BY <1>2, <1>3 DEF RecordsOK, RecordOK

(* What chapters are shown was not marked by the scan. *)
LEMMA ShownIsClean ==
  /\ TextsOf(Pack) \cap Injected = {}
  /\ \A refs \in ChunkRefs : TextsOf(refs) \cap Injected = {}
<1>1. \A c \in Pack : c.text \notin Injected
  BY DEF Pack
<1>2. \A refs \in ChunkRefs : refs \subseteq Pack
  BY DEF ChunkRefs, kSubset
<1> QED
  BY <1>1, <1>2 DEF TextsOf

(* A result that is made or taken has what its hashes tell, and no marked text. *)
LEMMA ExecuteReuse ==
  ASSUME RecordsOK, ReuseInv, Execute PROVE ReuseInv'
<1> DEFINE key(t) == cache_key_for_task(t)
           stored == {f \in Fresh : plan[f].cacheable}
<1>1. PICK refs \in ChunkRefs :
        LET Made(t) == [basis |-> Basis,
                        shown |-> TextsOf(IF t \in ToModels THEN Pack ELSE refs)]
        IN  /\ results' = [t \in Tasks |-> [reused |-> Cached(t),
                             from |-> IF Cached(t) THEN cache[key(t)] ELSE Made(t)]]
            /\ cache' = Merge(cache, [k \in {key(t) : t \in stored} |->
                                      Made(CHOOSE t \in stored : key(t) = k)])
  BY DEF Execute
<1> DEFINE Made(t) == [basis |-> Basis,
                       shown |-> TextsOf(IF t \in ToModels THEN Pack ELSE refs)]
           new == [k \in {key(t) : t \in stored} |-> Made(CHOOSE t \in stored : key(t) = k)]
<1>2. /\ results' = [t \in Tasks |-> [reused |-> Cached(t),
                       from |-> IF Cached(t) THEN cache[key(t)] ELSE Made(t)]]
      /\ cache' = Merge(cache, new)
  BY <1>1
<1>3. UNCHANGED <<records, unsure>> /\ pc' = "audit"
  BY DEF Execute, intake
<1>4. \A t : Made(t).basis = Basis /\ Made(t).shown \cap Injected = {}
  BY ShownIsClean
<1>5. \A t : key(t).inputs = [i \in DOMAIN records |-> records[i].hash]
  BY DEF cache_key_for_task
<1> HIDE DEF Made, key, stored
<1>6. \A k \in DOMAIN new : (\E t : k = key(t)) /\ (\E t : new[k] = Made(t))
  OBVIOUS
<1> HIDE DEF new
<1>7. ASSUME NEW k \in DOMAIN cache'
      PROVE  \/ k \in DOMAIN cache /\ cache'[k] = cache[k]
             \/ (\E t : k = key(t)) /\ (\E t : cache'[k] = Made(t))
  BY <1>2, <1>6 DEF Merge
<1>8. ASSUME NEW k, NEW m, (\E t : k = key(t)), (\E t : m = Made(t)),
             NEW i \in DOMAIN k.inputs, k.inputs[i] \notin unsure \cup {NoHash}
      PROVE  \E text : <<k.inputs[i], text>> \in Told /\ <<k.inputs[i], text>> \in m.basis
  <2>1. i \in DOMAIN records /\ k.inputs[i] = records[i].hash /\ m.basis = Basis
    <3>1. k.inputs = [j \in DOMAIN records |-> records[j].hash] /\ m.basis = Basis
      BY <1>4, <1>5, <1>8, Zenon
    <3> QED
      BY <3>1
  <2> QED
    BY <1>8, <2>1, ChunkOfRecord
<1>9. CacheTells'
  <2>1. ASSUME NEW k \in DOMAIN cache'
        PROVE  /\ cache'[k].shown \cap Injected = {}
               /\ \A i \in DOMAIN k.inputs : k.inputs[i] \notin unsure \cup {NoHash} =>
                    \E text : <<k.inputs[i], text>> \in Told
                              /\ <<k.inputs[i], text>> \in cache'[k].basis
    <3>1. CASE k \in DOMAIN cache /\ cache'[k] = cache[k]
      BY <3>1 DEF ReuseInv, CacheTells
    <3>2. CASE (\E t : k = key(t)) /\ (\E t : cache'[k] = Made(t))
      BY <1>4, <1>8, <3>2
    <3> QED
      BY <1>7, <3>1, <3>2
  <2> QED
    BY <1>3, <2>1 DEF CacheTells
<1>10. ASSUME NEW t \in DOMAIN results'
       PROVE  /\ \A c \in Chunks : c.hash \notin unsure =>
                   <<c.hash, c.text>> \in results'[t].from.basis
              /\ results'[t].from.shown \cap Injected = {}
  <2>1. results'[t].from = IF Cached(t) THEN cache[key(t)] ELSE Made(t)
    BY <1>2
  <2>2. CASE ~Cached(t)
    <3>1. results'[t].from.basis = Basis /\ results'[t].from.shown \cap Injected = {}
      BY <1>4, <2>1, <2>2
    <3> QED
      BY <3>1 DEF Basis
  <2>3. CASE Cached(t)
    <3>1. key(t) \in DOMAIN cache /\ results'[t].from = cache[key(t)]
      BY <2>1, <2>3 DEF Cached, key
    <3>2. ASSUME NEW c \in Chunks, c.hash \notin unsure
          PROVE  <<c.hash, c.text>> \in cache[key(t)].basis
      <4>1. PICK i \in DOMAIN records : c.hash = records[i].hash /\ c.hash # NoHash
                                        /\ <<c.hash, c.text>> \in Told
        BY <3>2, RecordOfChunk
      <4>2. i \in DOMAIN key(t).inputs /\ key(t).inputs[i] = c.hash
        BY <1>5, <4>1
      <4>3. PICK text : /\ <<c.hash, text>> \in Told
                        /\ <<c.hash, text>> \in cache[key(t)].basis
        BY <3>1, <3>2, <4>1, <4>2 DEF ReuseInv, CacheTells
      <4>4. text = c.text
        BY <4>1, <4>3, ToldOnce
      <4> QED
        BY <4>3, <4>4
    <3>3. cache[key(t)].shown \cap Injected = {}
      BY <3>1 DEF ReuseInv, CacheTells
    <3> QED
      BY <3>1, <3>2, <3>3
  <2> QED
    BY <2>2, <2>3
<1>11. ResultsStand'
  <2>1. Chunks' = Chunks
    BY <1>3 DEF Chunks
  <2> QED
    BY <1>3, <1>10, <2>1 DEF ResultsStand, Stale, Early
<1> QED
  BY <1>9, <1>11 DEF ReuseInv

(* Elsewhere the cache stays; hashes only become unsure. *)
LEMMA CacheStays ==
  ASSUME CacheTells, cache' = cache, unsure \subseteq unsure' PROVE CacheTells'
BY DEF CacheTells

(* Every step keeps what is known of the cache and the results. *)
LEMMA StepReuse ==
  ASSUME IntakeInv, ReuseInv, [Next]_vars PROVE ReuseInv'
<1>1. CASE Ingest \/ \E f \in Files, t \in Texts \cup {"absent"} : Write(f, t)
  <2>1. unsure \subseteq unsure'
    BY <1>1 DEF Ingest, Refuse, Missing, Read, HashFile, ReadFolder, Skip, Fetch, Write, intake
  <2>2. cache' = cache /\ DOMAIN results' = {}
    BY <1>1, IngestShape DEF ReuseInv, ResultsStand, Early
  <2> QED
    BY <2>1, <2>2, CacheStays DEF ReuseInv, ResultsStand
<1>2. CASE \E inv \in Options : StartRun(inv)
  <2>1. UNCHANGED <<cache, unsure>> /\ DOMAIN results' = {}
    BY <1>2 DEF StartRun
  <2> QED
    BY <2>1, CacheStays DEF ReuseInv, ResultsStand
<1>3. CASE \/ \E p \in Configured, s \in Statuses : Observe(p, s)
           \/ \E p \in Providers : Probe(p)
           \/ Contract \/ Plan \/ RouteNext \/ Compare \/ Audit \/ Rest \/ UNCHANGED vars
  <2>1. UNCHANGED <<cache, results, records, unsure>>
    BY <1>3 DEF Observe, Probe, Contract, Plan, RouteNext, Compare, Audit, Rest, vars, intake,
                made
  <2>2. pc' \in Early \cup {"probe", "route", "execute"} =>
          pc \in Early \cup {"probe", "route", "execute"}
    BY <1>3 DEF Observe, Probe, Contract, Plan, RouteNext, Compare, Audit, Rest, vars, Early
  <2>3. Chunks' = Chunks
    BY <2>1 DEF Chunks
  <2>4. ResultsStand'
    BY <2>1, <2>2, <2>3 DEF ReuseInv, ResultsStand, Stale
  <2> QED
    BY <2>1, <2>4, CacheStays DEF ReuseInv
<1>4. CASE Execute
  BY <1>4, ExecuteReuse DEF IntakeInv
<1> QED
  BY <1>1, <1>2, <1>3, <1>4 DEF Next, Environment, Advance
-----------------------------------------------------------------------------
(* The invariant, for every value of the constants: what is recorded of the *)
(* inputs, gates, contacts, plan and decisions that belong to the run, and  *)
(* results that were made from what their hashes tell.                      *)
THEOREM PreparationInvariant ==
  Spec => []PreparationInv
<1>1. Init => PreparationInv
  <2>1. Init => ReuseInv
    BY DEF Init, ReuseInv, CacheTells, ResultsStand
  <2> QED
    BY <2>1, InitIntake, InitStage DEF PreparationInv
<1>2. PreparationInv /\ [Next]_vars => PreparationInv'
  BY StepIntake, StepStage, StepReuse DEF PreparationInv
<1> QED
  BY <1>1, <1>2, PTL DEF Spec

(* The type invariant: files, readings and records are what they can be, a *)
(* failed record and no other is without a hash and without a text.        *)
THEOREM TypeCorrect ==
  Spec => []TypeOK
<1>1. PreparationInv => TypeOK
  <2> SUFFICES ASSUME PreparationInv PROVE TypeOK
    OBVIOUS
  <2>1. IntakeTypes /\ HeldIsFile /\ RecordsOK /\ ContactsAllowed /\ Decided
    BY DEF PreparationInv, IntakeInv, StageInv
  <2>2. held # NotRead => pc = "ingest" /\ held.text \in Texts \cup {"note", "nothing"}
    BY <2>1 DEF IntakeTypes, HeldIsFile, ReadingSet
  <2>3. ASSUME NEW r \in Range(records)
        PROVE  /\ r.status \in {"parsed", "partial", "failed"}
               /\ (r.status = "failed") = (r.hash = NoHash)
               /\ r.status = "failed" => r.text = "nothing"
    <3>1. PICK i \in DOMAIN records : r = records[i]
      BY DEF Range
    <3>2. r \in RecordSet
      BY <2>1, <3>1 DEF IntakeTypes
    <3> QED
      BY <2>1, <3>1, <3>2 DEF RecordsOK, RecordOK, RecordSet
  <2> QED
    BY <2>1, <2>2, <2>3 DEF TypeOK, IntakeTypes, ContactsAllowed, Decided, Phases
<1> QED
  BY <1>1, PreparationInvariant, PTL

(* The end of a sequence of records, after the prompt and n attachments. *)
LEMMA EndOfRecords ==
  ASSUME NEW S, NEW s \in Seq(S), NEW n \in Nat, Len(s) > n
  PROVE  /\ Len(SubSeq(s, n + 2, Len(s))) = Len(s) - n - 1
         /\ Len(s) - n - 1 \in Nat
         /\ DOMAIN SubSeq(s, n + 2, Len(s)) = 1..(Len(s) - n - 1)
         /\ \A k \in 1..(Len(s) - n - 1) :
              /\ SubSeq(s, n + 2, Len(s))[k] = s[n + 1 + k]
              /\ n + 1 + k \in DOMAIN s /\ n + 1 + k > n + 1 /\ n + 1 + k > 1
  OBVIOUS

(* As many names as places, when no two places have the same name. *)
LEMMA DistinctCount ==
  ASSUME NEW m \in Nat, NEW name, DOMAIN name = 1..m,
         \A i, j \in 1..m : i < j => name[i] # name[j]
  PROVE  Cardinality({name[i] : i \in 1..m}) = m
<1> DEFINE S == {name[i] : i \in 1..m}
           f == [i \in 1..m |-> name[i]]
<1>1. f \in [1..m -> S] /\ \A x \in S : \E i \in 1..m : f[i] = x
  OBVIOUS
<1>2. \A i, j \in 1..m : f[i] = f[j] => i = j
  <2>1. \A i, j \in 1..m : i = j \/ i < j \/ j < i
    OBVIOUS
  <2> QED
    BY <2>1
<1>3. f \in Bijection(1..m, S)
  BY <1>1, <1>2 DEF Bijection, Injection, Surjection, IsInjective
<1>4. ExistsBijection(1..m, S)
  BY <1>3 DEF ExistsBijection
<1> QED
  BY <1>4, FS_CountingElements

(* Every supplied input has its record, in the order given and only one,   *)
(* once the contract is made, whatever the files did meanwhile.            *)
THEOREM Inventory ==
  Spec => []InventoryComplete
<1>1. PreparationInv => InventoryComplete
  <2> SUFFICES ASSUME PreparationInv, pc \notin Early
               PROVE  /\ Len(records) > Len(o.attachments)
                      /\ records[1].uri = "prompt"
                      /\ \A i \in DOMAIN o.attachments : records[i + 1].uri = o.attachments[i]
                      /\ LET later == SubSeq(records, Len(o.attachments) + 2, Len(records)) IN
                           /\ \A i \in DOMAIN o.links :
                                \E r \in Range(records) : r.uri = o.links[i]
                           /\ {r.uri : r \in Range(later)} \cap Range(o.attachments) = {}
                           /\ Cardinality({r.uri : r \in Range(later)}) = Len(later)
    BY DEF InventoryComplete, Early
  <2> DEFINE n == Len(o.attachments)
             l == Len(o.links)
             m == Len(records) - n - 1
             later == SubSeq(records, n + 2, Len(records))
             names == [k \in 1..m |-> later[k].uri]
  <2>1. /\ n \in Nat /\ l \in Nat /\ Len(Inputs) = n + l /\ at > Len(Inputs)
        /\ at \in 1..(Len(Inputs) + 1) /\ records \in Seq(RecordSet)
        /\ DOMAIN o.attachments = 1..n /\ DOMAIN o.links = 1..l
    <3>1. o \in Options /\ at \in 1..(Len(Inputs) + 1) /\ records \in Seq(RecordSet)
      BY DEF PreparationInv, IntakeInv, IntakeTypes
    <3>2. at > Len(Inputs)
      BY DEF PreparationInv, StageInv, IngestionOver
    <3>3. o.attachments \in Seq(DOMAIN Source) /\ o.links \in Seq(DOMAIN Source)
      BY <3>1, PreparationAssumption
    <3>4. DOMAIN o.attachments = 1..n /\ DOMAIN o.links = 1..l
      BY <3>3
    <3>5. n \in Nat /\ l \in Nat /\ Len(Inputs) = n + l
      BY <3>1, InputFacts, Zenon
    <3> QED
      BY <3>1, <3>2, <3>4, <3>5, Zenon
  <2>2. /\ Len(records) >= 1 /\ records[1].uri = "prompt"
        /\ at <= n + 1 => Len(records) = at
        /\ at > n + 1 => Len(records) > n
        /\ \A i \in 1..n : i < at => records[i + 1].uri = o.attachments[i]
        /\ \A i \in 1..l : n + i < at => \E j \in DOMAIN records : records[j].uri = o.links[i]
        /\ \A i, j \in DOMAIN records :
             i < j /\ j > n + 1 /\ i > 1 => records[i].uri # records[j].uri
    BY DEF PreparationInv, IntakeInv, Inventoried, Early
  <2>3. at = n + l + 1
    <3>1. \A a, b \in Nat : \A i \in 1..(a + b + 1) : i > a + b => i = a + b + 1
      OBVIOUS
    <3> QED
      BY <2>1, <3>1, Zenon
  <2> HIDE DEF n, l
  <2>4. Len(records) > n
    BY <2>1, <2>2, <2>3
  <2>5. \A i \in 1..n : records[i + 1].uri = o.attachments[i]
    BY <2>1, <2>2, <2>3
  <2>6. \A i \in 1..l : \E j \in DOMAIN records : records[j].uri = o.links[i]
    BY <2>1, <2>2, <2>3
  <2>7. /\ Len(later) = m /\ m \in Nat /\ DOMAIN later = 1..m
        /\ \A k \in 1..m : /\ later[k] = records[n + 1 + k] /\ n + 1 + k \in DOMAIN records
                           /\ n + 1 + k > n + 1 /\ n + 1 + k > 1
    BY <2>1, <2>4, EndOfRecords
  <2> HIDE DEF later, m
  <2>8. {r.uri : r \in Range(later)} = {names[k] : k \in 1..m}
    BY <2>7 DEF Range
  <2>9. ASSUME NEW i \in 1..n, NEW k \in 1..m PROVE names[k] # o.attachments[i]
    <3>1. i + 1 \in DOMAIN records /\ i + 1 < n + 1 + k /\ i + 1 > 1
      BY <2>1, <2>4, <2>7
    <3>2. records[i + 1].uri # records[n + 1 + k].uri
      BY <2>2, <2>7, <3>1
    <3> QED
      BY <2>5, <2>7, <3>2
  <2>10. {r.uri : r \in Range(later)} \cap Range(o.attachments) = {}
    BY <2>1, <2>8, <2>9 DEF Range
  <2>11. ASSUME NEW i \in 1..m, NEW j \in 1..m, i < j PROVE names[i] # names[j]
    <3>1. n + 1 + i < n + 1 + j
      BY <2>1, <2>7, <2>11
    <3>2. records[n + 1 + i].uri # records[n + 1 + j].uri
      BY <2>2, <2>7, <3>1
    <3> QED
      BY <2>7, <3>2
  <2>12. Cardinality({names[k] : k \in 1..m}) = m
    <3>1. DOMAIN names = 1..m
      OBVIOUS
    <3>2. \A i, j \in 1..m : i < j => names[i] # names[j]
      BY <2>11
    <3>3. m \in Nat
      BY <2>7
    <3> HIDE DEF names
    <3> QED
      BY <3>1, <3>2, <3>3, DistinctCount, Zenon
  <2>13. \A i \in DOMAIN o.links : \E r \in Range(records) : r.uri = o.links[i]
    BY <2>1, <2>6 DEF Range
  <2> QED
    BY <2>1, <2>2, <2>4, <2>5, <2>7, <2>8, <2>10, <2>12, <2>13 DEF later, n
<1> QED
  BY <1>1, PreparationInvariant, PTL

(* The approval report covers what the run does: pages are fetched with    *)
(* the leave of the internet gate, and a hosted model or a subscription is *)
(* probed or asked for a chapter with that of the cloud gate.              *)
THEOREM GatesAreTrue ==
  Spec => []GatesTellTheTruth
<1>1. PreparationInv => GatesTellTheTruth
  <2> SUFFICES ASSUME PreparationInv, gates # <<>>
               PROVE  /\ fetched # {} => gates.internet.required /\ gates.internet.granted
                      /\ \A c \in contacted :
                           c[2] # "verify" /\ Kind(c[1]) \in Remote => gates.cloud.granted
    BY DEF GatesTellTheTruth
  <2>1. gates = evaluate_gates(o, o.links # <<>>, Types, contract)
    BY DEF PreparationInv, StageInv, GatesOfRun
  <2>2. ASSUME fetched # {} PROVE gates.internet.required /\ gates.internet.granted
    <3>1. o.internet /\ (o.links # <<>> \/ \E i \in DOMAIN records : records[i].type \in {"url", "api"})
      BY <2>2 DEF PreparationInv, IntakeInv, FetchedWithLeave
    <3>2. o.links # <<>> \/ Meets(Types, {"url", "api"})
      BY <3>1 DEF Meets, Types
    <3> QED
      BY <2>1, <3>1, <3>2 DEF evaluate_gates, InternetGate, Gate
  <2>3. ASSUME NEW c \in contacted, c[2] # "verify", Kind(c[1]) \in Remote
        PROVE  gates.cloud.granted
    <3>1. policy.hosted
      BY <2>3 DEF PreparationInv, StageInv, ContactsAllowed, provider_allowed
    <3> QED
      BY <2>1, <3>1 DEF policy, compile_policy, evaluate_gates, CloudGate, Gate
  <2> QED
    BY <2>2, <2>3
<1> QED
  BY <1>1, PreparationInvariant, PTL

(* The router gives a chapter to workers that can write it, within the     *)
(* budget and the policy, everything else to the tools, and no task is     *)
(* left to the user, whatever was probed and observed.                     *)
THEOREM Workers ==
  Spec => []ChaptersHaveAWorker
<1>1. PreparationInv => ChaptersHaveAWorker
  BY DEF PreparationInv, StageInv, Decided, DecisionOK, ChaptersHaveAWorker, provider_allowed
<1> QED
  BY <1>1, PreparationInvariant, PTL

(* A result, fresh or from the cache, was made from every text that this   *)
(* run has read, but for hashes that tell two texts.                       *)
THEOREM Reuse ==
  Spec => []ReuseIsSound
<1>1. PreparationInv => ReuseIsSound
  BY DEF PreparationInv, ReuseInv, ResultsStand, ReuseIsSound
<1> QED
  BY <1>1, PreparationInvariant, PTL

(* No chapter, cached ones included, was shown a text the scan has marked. *)
THEOREM NoInjection ==
  Spec => []NoInjectedText
<1>1. PreparationInv => NoInjectedText
  BY DEF PreparationInv, ReuseInv, ResultsStand, NoInjectedText
<1> QED
  BY <1>1, PreparationInvariant, PTL
=============================================================================
