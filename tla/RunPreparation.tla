--------------------------- MODULE RunPreparation ---------------------------
(***************************************************************************)
(* What Orchestrator._run_pipeline does before and while it executes: the  *)
(* ingestion of every input, the contract and its gates, the probes, the   *)
(* plan, the routing, the comparison with earlier runs, and the chapters   *)
(* made from what was read or taken from the cache.  Runs follow each      *)
(* other in one store; meanwhile files are written, providers answer or    *)
(* not, and other runs observe capacity.  Cancellation is in RunLifecycle, *)
(* execution in DagScheduler and SynthesisHandoff, the audit's verdicts in *)
(* Assurance.                                                              *)
(*                                                                         *)
(* A file's content is one text; a folder is the text selected from it.    *)
(* Sizes, encodings, summaries and redaction are left out; a message of    *)
(* the program in the place of a text is "note", no text at all "nothing". *)
(* Every run has an Orchestrator and a registry of its own, as the command *)
(* line, the server and the daemon give it.                                *)
(***************************************************************************)
EXTENDS ProviderRouting

CONSTANTS
  Options,     \* the invocations: options, attachments, links, prompt words
  Source,      \* uri -> its input type, or "malformed"
  Disks,       \* what the files may say at first
  Texts,       \* what a file or a page may say
  Injected,    \* texts that scan_text finds to hold instructions
  Public,      \* uris whose host resolves to public addresses only
  Statuses,    \* capacity statuses another run may observe
  ProbeAnswers, Latencies,   \* what a probe may meet
  MaxRefs,     \* chunks a chapter is given at most
  MaxRuns, MaxWrites, MaxObservations

Files == {u \in DOMAIN Source : Source[u] \notin {"url", "api", "malformed"}}
FileTypes == {"text", "markdown", "code", "unknown", "docx", "pptx", "spreadsheet", "image",
              "audio_video", "archive", "pdf", "folder", "repo"}

ASSUME PreparationAssumption ==
  /\ Options # {}
  /\ \A x \in Options :
       /\ x.attachments \in Seq(DOMAIN Source) /\ x.links \in Seq(DOMAIN Source)
       /\ x.budget \in DOMAIN ProfileMaxTier /\ x.internet \in BOOLEAN
  /\ Source \in [DOMAIN Source -> FileTypes \cup {"url", "api", "malformed"}]
  /\ Disks \subseteq [Files -> Texts \cup {"absent"}]
  /\ {"absent", "note", "nothing"} \cap Texts = {}
  /\ Statuses \subseteq CapacityStatuses
  /\ ProbeAnswers \subseteq Answers /\ Latencies \subseteq Nat

VARIABLES
  disk,      \* file -> text or "absent"
  writes,    \* number of writes so far
  run,       \* number of the run
  o,         \* its invocation
  pc,        \* its phase
  at,        \* index of the input being ingested
  held,      \* what was read of it before it is hashed
  records,   \* ContextManifest.inputs
  gates,     \* the approval report
  health,    \* health of the registry's providers
  probing,   \* providers still to probe
  plan,      \* the budgeted plan
  decisions, \* task -> routing decision
  capacity,  \* provider -> capacity status in the store
  observed,  \* number of observations so far
  reuse,     \* reusable_task_ids of the delta plan
  results,   \* task -> [reused, basis]
  cache,     \* key -> what the cached result was made from
  past,      \* hashes of the manifests of the successful runs
  fetched,   \* uris fetched (history)
  contacted, \* <<provider, purpose>> of this run (history)
  unsure     \* hashes that do not tell the text (history)

world  == <<disk, writes, capacity, observed>>
intake == <<at, held, records, fetched, unsure>>
made   == <<reuse, results, cache, past>>
vars   == <<world, run, o, pc, intake, gates, health, probing, plan, decisions, made,
            contacted>>

Reading(status, text) == [status |-> status, text |-> text]
NotRead == Reading("none", "nothing")
NoHash == <<>>
Record(u, type, status, hash, text) ==
  [uri |-> u, type |-> type, status |-> status, hash |-> hash, text |-> text]
Prompt(inv) == Record("prompt", "prompt", "parsed", <<"prompt", inv.words>>, "prompt")

Types == {records[i].type : i \in DOMAIN records}
Hashes == {records[i].hash : i \in DOMAIN records} \ {NoHash}

Init ==
  /\ disk \in Disks
  /\ writes = 0 /\ observed = 0
  /\ capacity = [p \in Providers |-> "unseen"]
  /\ run = 0 /\ pc = "idle"
  /\ o = CHOOSE x \in Options : TRUE
  /\ at = 1 /\ held = NotRead /\ records = <<>> /\ fetched = {} /\ unsure = {}
  /\ gates = <<>> /\ health = InitialHealth /\ probing = {}
  /\ plan = create_execution_plan(FALSE)
  /\ decisions = <<>> /\ reuse = {} /\ results = <<>>
  /\ cache = <<>> /\ past = {} /\ contacted = {}
-----------------------------------------------------------------------------
(* The environment: an editor, and other runs that share the store.  A     *)
(* write matters from the moment a run is to read the file, and not after. *)
Write(f, t) ==
  /\ writes < MaxWrites /\ pc = "ingest"
  /\ f \in Range(SubSeq(o.attachments, at, Len(o.attachments)))
  /\ disk[f] # t
  /\ disk' = [disk EXCEPT ![f] = t]
  /\ writes' = writes + 1
  /\ UNCHANGED <<capacity, observed, run, o, pc, intake, gates, health, probing, plan,
                 decisions, made, contacted>>

(* Only a call of a model records what is left of its provider's capacity. *)
Observe(p, status) ==
  /\ observed < MaxObservations /\ pc = "route" /\ DOMAIN decisions # Tasks
  /\ Kind(p) # "deterministic_tool"
  /\ capacity' = [capacity EXCEPT ![p] = status]
  /\ observed' = observed + 1
  /\ UNCHANGED <<disk, writes, run, o, pc, intake, gates, health, probing, plan,
                 decisions, made, contacted>>

StartRun(inv) ==
  /\ pc \in {"idle", "done", "failed"} /\ run < MaxRuns
  /\ run' = run + 1 /\ o' = inv /\ pc' = "ingest"
  /\ at' = 1 /\ records' = <<Prompt(inv)>>
  /\ fetched' = {} /\ contacted' = {}
  /\ gates' = <<>> /\ decisions' = <<>> /\ results' = <<>> /\ reuse' = {}
  /\ health' = InitialHealth /\ plan' = create_execution_plan(FALSE)
  /\ held' = NotRead
  /\ UNCHANGED <<world, unsure, probing, cache, past>>
-----------------------------------------------------------------------------
(* InputIngestor.ingest: the attachments in their order, then the links.   *)
Inputs == o.attachments \o o.links
Current == Inputs[at]
Ingesting == pc = "ingest" /\ at <= Len(Inputs)
IsLink == at > Len(o.attachments)
IsFile == Ingesting /\ ~IsLink /\ Current \in Files

Add(r) == records' = Append(records, r) /\ at' = at + 1 /\ held' = NotRead

Elsewhere == UNCHANGED <<world, run, o, gates, health, probing, plan, decisions, made,
                         contacted>>

(* detect_input_type looks at the disk for a directory; it raises on a      *)
(* malformed uri, again in the handler that is to record the failure, and  *)
(* for a link outside of any handler.                                      *)
detect_input_type(u) ==
  IF Source[u] \in {"folder", "repo"} /\ disk[u] = "absent" THEN "unknown" ELSE Source[u]

Refuse ==
  /\ Ingesting /\ Source[Current] = "malformed"
  /\ pc' = "failed"
  /\ UNCHANGED intake /\ Elsewhere

(* mutant: a missing file is passed over in silence *)
MissingUnrecorded ==
  /\ IsFile /\ held = NotRead
  /\ disk[Current] = "absent"
  /\ at' = at + 1
  /\ UNCHANGED <<pc, held, records, fetched, unsure>> /\ Elsewhere

Missing ==
  /\ IsFile /\ held = NotRead
  /\ disk[Current] = "absent"
  /\ Add(Record(Current, detect_input_type(Current), "failed", NoHash, "nothing"))
  /\ UNCHANGED <<pc, fetched, unsure>> /\ Elsewhere

(* What the parsers may make of a content: a parser or program that is not *)
(* there or fails leaves the record partial, with the text of its summary; *)
(* the inventory of an archive that could not be taken still is "parsed".  *)
(* No type of a file gets as far as _ingest_binary_metadata.               *)
_ingest_text_file(content)   == {Reading("parsed", content)}
_ingest_docx(content)        == {Reading("parsed", content), Reading("partial", "note")}
_ingest_pptx(content)        == {Reading("parsed", content), Reading("partial", "note")}
_ingest_spreadsheet(content) == {Reading("parsed", content), Reading("partial", "note")}
_ingest_image(content) ==
  {Reading("parsed", content), Reading("parsed", "note"), Reading("partial", "note")}
_ingest_audio_video(content) == {Reading("parsed", content), Reading("partial", "note")}
_ingest_archive(content)     == {Reading("parsed", content), Reading("parsed", "note")}
_ingest_pdf(content)         == {Reading("parsed", content), Reading("partial", "nothing")}

Readings(type, content) ==
  CASE type \in {"text", "markdown", "code", "unknown"} -> _ingest_text_file(content)
    [] type = "docx" -> _ingest_docx(content)
    [] type = "pptx" -> _ingest_pptx(content)
    [] type = "spreadsheet" -> _ingest_spreadsheet(content)
    [] type = "image" -> _ingest_image(content)
    [] type = "audio_video" -> _ingest_audio_video(content)
    [] type = "archive" -> _ingest_archive(content)
    [] type = "pdf" -> _ingest_pdf(content)

(* The file is read first and hashed when the record is made: what is      *)
(* written in between gives an old text a new hash.                        *)
Read ==
  /\ IsFile /\ held = NotRead
  /\ disk[Current] # "absent" /\ Source[Current] \notin {"folder", "repo"}
  /\ held' \in Readings(Source[Current], disk[Current])
  /\ UNCHANGED <<pc, at, records, fetched, unsure>> /\ Elsewhere

(* mutant: a file gone before it is hashed keeps the text that was read *)
HashFileKept ==
  /\ Ingesting /\ held # NotRead
  /\ Add(IF disk[Current] = "absent"
         THEN Record(Current, Source[Current], "failed", NoHash, held.text)
         ELSE Record(Current, Source[Current], held.status, <<"bytes", disk[Current]>>,
                     held.text))
  /\ UNCHANGED <<pc, fetched, unsure>> /\ Elsewhere

HashFile ==
  /\ Ingesting /\ held # NotRead
  /\ Add(IF disk[Current] = "absent"
         THEN Record(Current, Source[Current], "failed", NoHash, "nothing")
         ELSE Record(Current, Source[Current], held.status, <<"bytes", disk[Current]>>,
                     held.text))
  /\ unsure' = unsure \cup {<<"bytes", t>> : t \in {disk[Current]} \ {held.text, "absent"}}
  /\ UNCHANGED <<pc, fetched>> /\ Elsewhere

(* _ingest_folder hashes what it has shown. *)
_ingest_folder(u) == Record(u, Source[u], "parsed", <<"shown", disk[u]>>, disk[u])
ReadFolder ==
  /\ IsFile /\ Source[Current] \in {"folder", "repo"}
  /\ disk[Current] # "absent"
  /\ Add(_ingest_folder(Current))
  /\ UNCHANGED <<pc, fetched, unsure>> /\ Elsewhere

(* SecurityPolicy.is_url_allowed: an allow list replaces the look-up. *)
is_url_allowed(u) == IF o.hosts # {} THEN u \in o.hosts ELSE u \in Public

(* _ingest_url and _fetch_url; a link that has a record is skipped.  What  *)
(* does not come back, a redirect too, leaves the hash of the address.     *)
Skip ==
  /\ Ingesting /\ IsLink /\ Source[Current] # "malformed"
  /\ \E i \in DOMAIN records : records[i].uri = Current
  /\ at' = at + 1
  /\ UNCHANGED <<pc, held, records, fetched, unsure>> /\ Elsewhere

Unfetched(u) == Record(u, Source[u], "partial", <<"uri", u>>, "note")
_fetch_url(u) == 
  {Unfetched(u)} \cup {Record(u, Source[u], "parsed", <<"bytes", t>>, t) : t \in Texts}
Fetch ==
  /\ Ingesting /\ ~IsFile /\ Source[Current] # "malformed"
  /\ IsLink => \A i \in DOMAIN records : records[i].uri # Current
  /\ IF o.internet /\ is_url_allowed(Current)
     THEN fetched' = fetched \cup {Current} /\ \E r \in _fetch_url(Current) : Add(r)
     ELSE Add(Unfetched(Current)) /\ UNCHANGED fetched
  /\ UNCHANGED <<pc, unsure>> /\ Elsewhere

Ingest == Refuse \/ Missing \/ Read \/ HashFile \/ ReadFolder \/ Skip \/ Fetch
-----------------------------------------------------------------------------
(* ContextIntelligence.chunk_manifest: a chunk has the uri and the hash of  *)
(* its input in its name.                                                  *)
Chunk(r) == [uri |-> r.uri, hash |-> r.hash, text |-> r.text]
Chunks == {Chunk(r) : r \in {x \in Range(records) : x.text # "nothing"}}

(* mutant: the pack takes what the scan has marked *)
PackEverything == Chunks

(* compile_pack leaves the injected chunks out (its 16000 tokens are more  *)
(* than these inputs need); chunk_refs_by_task prefers the sources.        *)
Pack == {c \in Chunks : c.text \notin Injected}

ChunkRefs ==
  LET sources == {c \in Pack : c.uri # "prompt"}
      from    == IF sources # {} THEN sources ELSE Pack
  IN  kSubset(Min({MaxRefs, Cardinality(from)}), from)

contract == compile_contract(o, Types)
policy   == compile_policy(o)

(* The contract and the gates, then the probes of the run's own registry. *)
Contract ==
  /\ pc = "ingest" /\ at > Len(Inputs)
  /\ gates' = evaluate_gates(o, o.links # <<>>, Types, contract)
  /\ probing' = Probed(o)
  /\ pc' = "probe"
  /\ UNCHANGED <<world, run, o, intake, health, plan, decisions, made, contacted>>

(* refresh_health asks one provider after the other. *)
Probe(p) ==
  /\ pc = "probe" /\ p \in probing
  /\ \A i, j \in DOMAIN Registered : Registered[i] = p /\ Registered[j] \in probing => i <= j
  /\ \E answer \in ProbeAnswers, latency \in Latencies :
       health' = [health EXCEPT ![p] = _classify(answer, latency)]
  /\ probing' = probing \ {p}
  /\ contacted' = contacted \cup {<<p, "probe">>}
  /\ UNCHANGED <<world, run, o, pc, intake, gates, plan, decisions, made>>

Plan ==
  /\ pc = "probe" /\ probing = {}
  /\ plan' = EnforceTiers(create_execution_plan(_model_synthesis_available(health, o)),
                          o.budget)
  /\ pc' = "route"
  /\ UNCHANGED <<world, run, o, intake, gates, health, probing, decisions, made, contacted>>

(* AdaptiveRouter.route_all, a task at a time: the capacity another run    *)
(* observes meanwhile counts for the tasks that follow.                    *)
RoutingOrder == topological_order(PlanGraph)
ASSUME RoutingOrderAssumption ==
  RoutingOrder \in Seq(Tasks) /\ Len(RoutingOrder) = Cardinality(Tasks)
RouteNext ==
  LET t == RoutingOrder[Cardinality(DOMAIN decisions) + 1]
  IN  /\ pc = "route" /\ DOMAIN decisions # Tasks
      /\ decisions' = Merge(decisions,
                            [x \in {t} |-> route(plan[x], policy, health, capacity)])
      /\ UNCHANGED <<world, run, o, pc, intake, gates, health, probing, plan, made,
                     contacted>>

(* cache_key_for_task with the cache context of the run.  Of a decision it *)
(* has the action and the provider.                                        *)
RoutingKey == [t \in Tasks |-> <<decisions[t].action, decisions[t].provider>>]

(* mutant: the key says what was asked and not of what *)
KeyOfOptions(t) ==
  [task |-> t, node |-> plan[t], contract |-> contract, policy |-> policy,
   routing |-> RoutingKey]

cache_key_for_task(t) ==
  [task |-> t, node |-> plan[t], inputs |-> [i \in DOMAIN records |-> records[i].hash],
   contract |-> contract, policy |-> policy,
   providers |-> [p \in Configured |-> health[p]], routing |-> RoutingKey]

Cached(t) == plan[t].cacheable /\ cache_key_for_task(t) \in DOMAIN cache

(* DeltaPlanner: the most similar successful manifest, then per task. *)
Similar(h) == (Cardinality(h \cap Hashes) * 100) \div Cardinality(h \cup Hashes)
Previous == {h \in past : Similar(h) > 0 /\ \A g \in past : Similar(g) <= Similar(h)}

Compare ==
  /\ pc = "route" /\ DOMAIN decisions = Tasks
  /\ \/ \E h \in Previous : reuse' = {t \in Tasks : h = Hashes /\ Cached(t)}
     \/ Previous = {} /\ reuse' = {}
  /\ pc' = "execute"
  /\ UNCHANGED <<world, run, o, intake, gates, health, probing, plan, decisions, results,
                 cache, past, contacted>>

(* The scheduler takes cached results and stores the others.  A chapter    *)
(* routed to a model asks it, and the alternatives if it fails, about its  *)
(* whole pack; an extractive one shows the chunks it was given.            *)
Basis == {<<c.hash, c.text>> : c \in Chunks}
TextsOf(chunks) == {c.text : c \in chunks}
Fresh == {t \in Tasks : ~Cached(t)}
ToModels == {t \in Fresh : IsChapter(t) /\ decisions[t].action = "route"}
Execute ==
  /\ pc = "execute"
  /\ \E refs \in ChunkRefs :
       LET Made(t) == [basis |-> Basis,
                       shown |-> TextsOf(IF t \in ToModels THEN Pack ELSE refs)]
           stored  == {f \in Fresh : plan[f].cacheable}
       IN  /\ results' = [t \in Tasks |-> [reused |-> Cached(t),
                            from |-> IF Cached(t) THEN cache[cache_key_for_task(t)]
                                     ELSE Made(t)]]
           /\ cache' = Merge(cache, [k \in {cache_key_for_task(t) : t \in stored} |->
                                     Made(CHOOSE t \in stored : cache_key_for_task(t) = k)])
  /\ \E more \in SUBSET UNION {decisions[t].alternatives : t \in ToModels} :
       contacted' = contacted
         \cup {<<p, "chapter">> : p \in ({decisions[t].provider : t \in ToModels} \cup more)
                                         \ {"deterministic.tools"}}
  /\ pc' = "audit"
  /\ UNCHANGED <<world, run, o, intake, gates, health, probing, plan, decisions, reuse, past>>

(* The claims of the chapters go to the verifier, if one was configured;   *)
(* quality decides whether the run counts as successful.                   *)
Audit ==
  LET verifier == _configure_claim_verifier(o) IN
  /\ pc = "audit"
  /\ contacted' = contacted \cup {<<verifier, "verify">> : v \in {verifier} \ {NoProvider}}
  /\ past' \in {past, past \cup {Hashes}}
  /\ pc' = "done"
  /\ UNCHANGED <<world, run, o, intake, gates, health, probing, plan, decisions, reuse,
                 results, cache>>

Environment == \/ \E f \in Files, t \in Texts \cup {"absent"} : Write(f, t)
               \/ \E p \in Configured, s \in Statuses : Observe(p, s)
Advance == \/ Ingest \/ Contract \/ (\E p \in Providers : Probe(p)) \/ Plan \/ RouteNext
           \/ Compare \/ Execute \/ Audit
Rest == pc \in {"done", "failed"} /\ run = MaxRuns /\ UNCHANGED vars
Next == Environment \/ Advance \/ Rest \/ \E inv \in Options : StartRun(inv)

Spec == Init /\ [][Next]_vars
-----------------------------------------------------------------------------
TypeOK ==
  /\ disk \in [Files -> Texts \cup {"absent"}]
  /\ o \in Options
  /\ pc \in {"idle", "ingest", "probe", "route", "execute", "audit", "done", "failed"}
  /\ held # NotRead => pc = "ingest" /\ held.text \in Texts \cup {"note", "nothing"}
  /\ \A r \in Range(records) :
       /\ r.status \in {"parsed", "partial", "failed"}
       /\ (r.status = "failed") = (r.hash = NoHash)
       /\ r.status = "failed" => r.text = "nothing"
  /\ probing \subseteq Configured
  /\ DOMAIN decisions \subseteq Tasks
  /\ unsure \subseteq {<<"bytes", t>> : t \in Texts}

(* Every supplied input has its record, in the order given and only one,   *)
(* whatever happened to it, and so has every link that is not an attachment*)
(* as well; the prompt comes first.                                        *)
InventoryComplete ==
  pc \notin {"idle", "ingest", "failed"} =>
    /\ Len(records) > Len(o.attachments)
    /\ records[1].uri = "prompt"
    /\ \A i \in DOMAIN o.attachments : records[i + 1].uri = o.attachments[i]
    /\ LET later == SubSeq(records, Len(o.attachments) + 2, Len(records)) IN
         /\ \A i \in DOMAIN o.links : \E r \in Range(records) : r.uri = o.links[i]
         /\ {r.uri : r \in Range(later)} \cap Range(o.attachments) = {}
         /\ Cardinality({r.uri : r \in Range(later)}) = Len(later)

(* The approval report covers what the run does, although ingestion comes  *)
(* before it and the probes and the router work from another compilation   *)
(* of the same options.                                                    *)
GatesTellTheTruth ==
  gates # <<>> =>
    /\ fetched # {} => gates.internet.required /\ gates.internet.granted
    /\ \A c \in contacted :
         c[2] # "verify" /\ Kind(c[1]) \in Remote => gates.cloud.granted

(* A chapter always has a worker that can write it, within the tier of the *)
(* budget, and every other task is the deterministic tools'; no task waits *)
(* for a user.                                                             *)
ChaptersHaveAWorker ==
  \A t \in DOMAIN decisions :
    LET d == decisions[t] IN
    /\ ~IsChapter(t) => d.provider = "deterministic.tools"
    /\ d.action = "route" =>
         \A p \in {d.provider} \cup d.alternatives :
           /\ supports(p, plan[t].needs) /\ health[p].status # "unavailable"
           /\ CostOrder[Table[p].tier] <= CostOrder[ProfileMaxTier[o.budget]]
           /\ Kind(p) \in Remote => policy.hosted
    /\ d.action = "reshape" => IsChapter(t) /\ plan[t].needs = Requires(t, TRUE)

(* What a result was made from is what this run has read, also when it     *)
(* comes from an earlier one, but for hashes that some run has put on      *)
(* another text.  The key of a result has the hashes of the inputs and not *)
(* their uris, so that the same bytes may have had another name.           *)
Stale(t) ==
  {c \in Chunks : c.hash \notin unsure /\ <<c.hash, c.text>> \notin results[t].from.basis}
ReuseIsSound == \A t \in DOMAIN results : Stale(t) = {}

(* No chapter is written from a text that holds instructions, of this run  *)
(* or of the one whose result it takes.                                    *)
NoInjectedText ==
  \A t \in DOMAIN results : results[t].from.shown \cap Injected = {}

(* local_only blocks every hosted transport, whatever else is permitted.   *)
LocalOnlyBlocksHosted ==
  o.privacy = "local_only" => \A c \in contacted : Kind(c[1]) # "hosted_model"
=============================================================================
