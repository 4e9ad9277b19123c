# Formal models of universal-orchestrator

This directory holds TLA+ models of the Python program in
`src/universal_orchestrator`, the TLC configurations that check them on small
instances, and proofs about them that TLAPS checks for every instance.
`PROJECT.json` lists the components, the runs, the mutants that show each
property can fail, the source lines behind each definition, the findings, the
hazards and the theorems. File names below are relative to
`src/universal_orchestrator`.

    tlc -config MCDagScheduler.cfg MCDagScheduler     one run
    tlapm DagSchedulerProofs.tla                      one module of proofs

## 1. The system

A *run* takes a prompt and files through a fixed pipeline of stages, one of
which executes a graph of tasks with model providers, and delivers a bundle
with a receipt. Its durable state is one SQLite file per artifact root and one
directory per run. Runs are started by the command line, by an MCP server over
stdio and by an HTTP daemon; two processes may share the artifact root.

| Component | State it keeps | Operations | Interacts with | What is hard |
|---|---|---|---|---|
| run pipeline (`pipeline.py`) | run directory: request, manifest, ZIP, receipt | `run`, `resume`, `_finalize_delivery`, failure boundary | runtime store by statements; scheduler by call | cancellation at any point, exceptions after the receipt, resume of a working run |
| runtime store (`runtime.py`) | states, cancellations, leases, checkpoints, subscription counters, handoffs | one SQL statement or a pair per method | everybody, across processes | a `SELECT` and the write after it are two transactions |
| task scheduler (`scheduler.py`) | results of the batch, futures, owner id | `execute`: serial pass, pool, commit pass | leases and checkpoints in the store; stages by threads | timeouts that leave threads behind, retries, crashes, resume |
| completion guard (`scheduler.py`, `providers/base.py`) | lease flag and cleanups of an attempt | `register_cleanup`, `commit_if_active`, `deactivate` | cost ledger and capacity broker | an answer that races the timeout |
| cost ledger (`cost_ledger.py`) | reservations, calls | `authorize`, `commit`, `release` | provider adapters in threads | ceiling under concurrency |
| capacity broker (`capacity.py`) | reservations, marks, snapshots | `reserve`, `commit`, `release`, `update` | durable counter, guards | double release, several processes |
| worker stages (`stages.py`, `model_synthesis.py`, `handoff.py`) | attempted connectors, handoff rows | synthesis, reformat, handoff | adapters, broker, store | late errors of calls that timed out, rows counted and inserted apart |
| provider adapters and transport (`providers/`) | guards of open calls | `execute`, HTTP retry | ledger, broker | order of authorization, transport and settlement |
| repository transaction (`repo_transaction.py`) | target files, backups | `apply` with rollback | file system, other programs | partial failure, files that change underneath |
| repository workflow (`repo_workflow.py`, `repo.py`, `repo_validation.py`) | change sets, worktrees | prepare, apply, publish | git, repository transaction | what changes between preparation and application |
| task graph and planning (`models.py`, `planning.py`, `contracts.py`) | none | plan, topological order | scheduler | cycles, order |
| routing and health (`routing.py`, `health.py`) | cached probes | `route`, `refresh_health` | adapters | stale health |
| budget and pricing (`budget.py`, `pricing.py`) | none | tiers, estimates, reconciliation | planning, ledger | rounding, limits |
| delta, cache, atomic files (`delta.py`, `cache.py`, `utils.py`) | cache directory | plan, `get`, `set`, `write_json` | scheduler | stale or corrupt entries |
| quality, evidence, repair, audits (`quality.py`, `validators.py`, `evidence.py`, `verification.py`, `fidelity.py`, `repair.py`, `integrity.py`) | verdicts already asked for | verdicts on results | pipeline | a demotion that is lost, claims built three times |
| approvals and policies (`approvals.py`, `execution_policy.py`, `policy.py`, `security.py`) | none | gates | pipeline, routing | combinations of options |
| MCP server (`mcp.py`) | four workers and four asynchronous ones | dispatch of requests | pipeline, store | a resume inside the request loop |
| daemon (`daemon.py`) | four workers | HTTP endpoints | pipeline, store | runs cancelled while they wait |
| context, retrieval, ingestion, media | index, parsed inputs | parse, hash, chunk, rank | pipeline | files that change meanwhile |
| artifacts and product | files of the run | build, write | pipeline | - |
| observability, configuration, integrations, command line, benchmarks, evaluations, release gate | files | - | - | - |

What makes each part correct:

- **pipeline**: a receipt on disk belongs to the bundle on disk; the stored
  state, the summary and the receipt agree; a stored cancellation stops every
  execution that has not passed its last check; a run that nobody works on is
  in a terminal state; every run settles.
- **leases and checkpoints**: one holder of a task at a time; epochs fence late
  owners; completed means stored; work is lost only with the lease.
- **scheduler**: a task succeeds only after its dependencies; a cancellation
  leaves at most the attempt that had passed its check; leases are returned; a
  task whose latest checkpoint has the fingerprint of the execution is not
  repeated; the schedule ends although workers hang.
- **guard and ledger**: spend and reservations stay within the ceiling up to
  overruns of the bills; a call in time is charged once; a call that timed out
  or a thread that finished holds nothing.
- **capacity**: the durable counter is exact until a timeout and never above
  what was used; an ended attempt leaves nothing in the broker.
- **repository transaction**: all edits or none; an early change by somebody
  else, or by an application that died, stops it before it touches a file.
- **synthesis and handoff**: retries, reformats and handoffs of all the threads
  of a task stay bounded, no connector is asked twice by one, and the task has
  one result.
- **services**: every request has one answer; a run cancelled before it began is
  not worked on until somebody resumes it; what was accepted ends.
- **preparation**: every input has its record; the gates say what the run does;
  a chapter has a worker that can write it; a reused result was made from what
  this run has read.
- **assurance**: what passes is sound under the mode of verification asked for,
  what is cited stands, and a repair touches only what was broken.

## 2. Modules

| Module | Models | Checked by | Proved in |
|---|---|---|---|
| `RunBudget` | abstract promise of the cost ledger | refinement in `fence_safety` | `CompletionFenceProofs` |
| `CompletionFence` | provider calls of attempts, guard, ledger, timeout | `MCCompletionFence` | `CompletionFenceProofs` |
| `TaskLease` | lease row and checkpoints of one task, several executions and processes | `MCTaskLease` | `TaskLeaseProofs` |
| `DagScheduler` | one plan: batches, pool, retries, commit pass, crash, resume | `MCDagScheduler` | `DagSchedulerProofs` |
| `RunLifecycle` | one run: stages, delivery, failure boundary, resumes, cancellers | `MCRunLifecycle` | `RunLifecycleProofs` |
| `SubscriptionCapacity` | subscription counter, brokers, calls under a guard | `MCSubscriptionCapacity` | `ResourceProofs` |
| `RepoTransaction` | a change set from preparation to application, with failures, crashes and foreign writes | `MCRepoTransaction` | `ResourceProofs` |
| `SynthesisHandoff` | the threads of a synthesis task: reformat, HTTP retries, handoffs, header snapshots | `MCSynthesisHandoff` | `SynthesisHandoffProofs` |
| `McpService` | request loop, worker pools, daemon | `MCMcpService` | `OutcomeProofs` |
| `ProductPlanning` | contract, gates, graph algorithms, plan, budget as operators | `MCRunPreparation` | `RunPreparationProofs` |
| `ProviderRouting` | policy, provider table, probes, scores, choice as operators | `MCRunPreparation` | `RunPreparationProofs` |
| `RunPreparation` | ingestion, gates, probes, plan, routing, reuse, over several runs | `MCRunPreparation` | `RunPreparationProofs` |
| `Assurance` | quality gate, audits, repair, package, artifact checks | `MCAssurance` | `OutcomeProofs` |

The `MC` modules name model values and small constants; `MCRunPreparation` also
compares the graph and budget operators with their definitions.

How they fit together: `RunLifecycle` has the stages of a run as steps.
`RunPreparation` is what the stages before the execution decide, `DagScheduler`
the execution, `SynthesisHandoff` one of its tasks, `CompletionFence` and
`SubscriptionCapacity` the calls of that task, `TaskLease` its durable row, and
`Assurance` what the stages after it decide. `McpService` is what starts runs.
`ProviderRouting` extends `ProductPlanning`, and `RunPreparation` both.

### CompletionFence, RunBudget

An attempt is one `_execute_with_timeout`: the thread of `execute_guarded`, the
scheduler thread that waits, and the guard between them. A step is what happens
between two lock operations. `Authorize`, `Register`, `TakeGuard`, `Commit`,
`RefuseLate` are `authorize_cost`, `register_cleanup` and the halves of
`commit_cost`; `Timeout`, `CleanupForget`, `CleanupRelease` are `deactivate`
and the two halves of `release_cost`. Adapters that settle inside their `try`
(the CLI adapters) are `Protected`; the others lose their reservation when the
answer cannot be parsed, and the properties about leftover reservations are
stated for `Protected` attempts only. Prices are natural numbers.
`RunBudget` is the ledger seen through its sums; `ImplementsBudget` maps
`reservations` to the open quotes and checks that every step of the threads is
a step of the budget or a stutter.

### TaskLease

One row of `task_leases`, the rows of `task_checkpoints` and the executions
that use them. `acquire_task_lease` is `Read` and `Write`, `save_checkpoint` is
`Check` and `Insert`: Python's `sqlite3` opens a transaction at the first write,
so the `SELECT` before it is a step of its own. Owners are scheduler objects;
executions in one process share one. `Tick` is time. The history variable
`undisturbed` says that no acquisition straddled another one and no execution
used a lease of a sibling: `OneHolder` and `EpochsFence` hold under that
condition. `renew_task_lease` is never called by the scheduler and is left out.

### DagScheduler

Tasks are numbers in the order of their ids. `phase` is where `execute` is:
`SeeCancel`, `Skip`, `Load`, `Refuse`, `Acquire` are the serial pass over a
batch; `Begin`, `Check`, `Go`, `Answer`, `Timeout` the pool; `Look`, `Save`,
`Release`, `Settle` the commit pass. Lease rows are seen from the current
execution: `held`, `expired` (run out but still active), `foreign` (of an
execution that is gone) or `free`. `Crash` loses what is in memory and `Resume`
starts a new scheduler on the same plan. The order inside a batch is that of
ids, so the model serialises `Acquire` as the code does.

A checkpoint counts only under the fingerprint it was made with.
`cache_key_for_task` is the task with the `context` of the execution, which is
`cache_context` of the pipeline: the policy, the provider table with the health
of every provider (its measured latency too) and all the decisions of the
router. A resume computes it again and may come to another one (`Resume` chooses
it), and then executes tasks that have a checkpoint. Each save replaces the
task's latest row, so that going back to an earlier context finds the exact-match
cache and no longer the checkpoint. `MatchingCheckpointIsReused` claims neither
more nor less than this.

### RunLifecycle

`First` is the execution of `run()`, the others are `resume()` calls, each with
its program counter. A stage is `Enter` (the transition), `Work` or
`WorkChecked`, and for the stages that end in `_ensure_not_cancelled` a
`Continue` or `Stopped`. The delivery is one action per file or row. `Raise`
enters the failure boundary, `Escape` leaves it, `Crash` kills the process.
`request_cancel` is `AskCancel`, `InsertCancel`, `MarkCancel`.

### SubscriptionCapacity

`ReserveRead` and `ReserveWrite` are the `SELECT` and the upsert of
`reserve_subscription_capacity`, under the lock of one broker only. `Mark` and
`Settle` are the two locked parts of `commit`. `RegisterLate`, `Fail`, `Timeout`
and `Cleanup` are the ways the same reservation is released.

### RepoTransaction

Edit i is about file i; the bytes and the mode of a file are one value. A change
set is prepared first; `Apply` is `RepositoryWorkflow.apply`, which compares the
fingerprint (lines of `git status`, so that a file listed already may change
unseen) and starts the transaction. `Preflight`, `Stage`, `Verify`, `Delete`,
`Replace`, `Check` go through the files as the loops of `apply` do. Every file
operation may fail once per fault; `ForeignWrite` is another program; `Crash`
kills the process, after which the change set may be applied again with nothing
but the files. `RemoveNew` and `Restore` are the rounds of `_rollback`.
Temporary files are not modelled.

### SynthesisHandoff

A thread is one attempt of the scheduler at a synthesis task; `Dispatch` starts
the next one when the last has failed or was abandoned (`Timeout`), and nothing
interrupts an abandoned thread. `Authorized`, `CapacityRefused`, `BudgetStop`
are `adapter.execute` up to the transport, `HttpResponse`, `HttpSilence` and
`CliResponse` the rounds of `_post_json` and of a command, `Parse` the rest of
`ModelSynthesisRunner.run`. `Choose` and `Insert` are
`HandoffController.choose`: the rows are counted in one transaction and the new
one inserted in another. Snapshots of rate-limit headers move between statuses
as `CapacityBroker.update` moves them, and expire.

### McpService

The lines a client writes, the thread in the `for` loop of `serve_stdio`, its
workers, the asynchronous pool of `run_start` and the requests of a daemon on the
same store. A run or a resume the reader executes itself makes it `busy`. A job
is `Begin` (state and request file), `Check` (the first cancellation check) and
`Finish`; what is in between is `RunLifecycle`. `DaemonCreate`, `DaemonCancel`
and `DaemonResume` are the endpoints that change something; a resume executes
its run in the thread of the endpoint (`DaemonThreads`), beside whatever else
works on that run. A cancellation of a run that waits is a row without a run;
the history variable `early` has the runs that were cancelled so and not resumed
after they began, and `EarlyCancelSticks` follows them through begin, resumes
and checks by any thread. A query and an unknown method are one kind of request,
and so are the two kinds of a line that is no request.

### ProductPlanning, ProviderRouting, RunPreparation

The first two hold the pure functions: a prompt is the set of the words the code
looks for, a price is a tier, scores and capabilities are whole numbers. In
`RunPreparation`, ingestion takes one input at a time; a file is read in `Read`
and hashed in `HashFile`, and may be written or removed between the two.
`unsure` is the history of hashes that do not tell the text a run has (a write
between the two, or a parser that left a note): `ReuseIsSound` holds for all
others. The key of a cached result has the hashes of the inputs and not their
names, so that the same bytes under another name take chapters that cite the
first one; what is sound is the text. `Contract`, `Probe`, `Plan`, `RouteNext`
are the stages, a provider or task at a time, with capacity that changes
meanwhile. `Execute` takes what the cache has under the key of a task and makes
the rest; `contacted` records who was asked for what. `Audit` configures the
claim verifier. Runs follow one another on one cache, each with a registry of
its own.

### Assurance

From the results of the scheduler to the verdict. `Audit`, `Reaudit` and
`FinalAudit` build the claims anew from the results and ask for verdicts that
are not in the cache of the verifier (`verdict`); `VerifierEscapes` is an
exception it does not catch. `Repair` executes one task per violation and the
task that validates them, of which any may fail, and replaces manuscripts; `Judge`, `Assemble`,
`ValidateArtifacts`, `Fidelity` are the checks after it, each of which may only
demote.

## 3. Runs

| Run | Question and answer | Configuration |
|---|---|---|
| `fence_safety` | Does the ledger implement the run budget in any order of answers, failures and timeouts, and is every call settled although no provider answers? Yes. | MCCompletionFence.cfg |
| `lease_safety` | One holder, completed is stored, work is lost only with the lease. Yes. | MCTaskLease.cfg |
| `dag_safety` | Do dependencies, cancellation and checkpoints agree over a crash and a resume under the same or another context, and does the schedule end although workers hang? Yes. | MCDagScheduler.cfg |
| `run_safety` | Do receipt, bundle, state and summary agree, does a stored cancellation stop, and does the run settle? Yes. | MCRunLifecycle.cfg |
| `capacity_safety` | Is the durable counter right in one process? Yes. | MCSubscriptionCapacity.cfg |
| `repo_safety` | Are all edits done or none, and does an early change stop it, also after a crash? Yes. | MCRepoTransaction.cfg |
| `repo_escape` | A failed transaction is rolled back. Violated when the rollback starts with a new file. | RepoEscape.cfg |
| `synthesis` | How many handoffs, requests and results do an abandoned thread and its successor make together, and do they end? Within the limits of `HandoffsBounded` and `SendsBounded`; one; yes. | MCSynthesisHandoff.cfg |
| `service` | Is each request answered once although runs block the reader and fill the pools, and does a run cancelled while it waits stay without work although others resume? Yes. | MCMcpService.cfg |
| `preparation` | Do records, gates, routing and reuse agree with what the run does while files, capacity and providers change? Yes. | MCRunPreparation.cfg |
| `hosted_permission` | `local_only` blocks every hosted transport. Violated by the claim verifier. | HostedPermission.cfg |
| `assurance` | Is what passes sound under every mode of verification, and do citations and repairs stand? Yes. | MCAssurance.cfg |

Each property of a passing run has a mutant: a definition of the model replaced
by the form a plausible bug would give it, under which TLC finds the property
violated. The mutated forms stand next to the definitions they replace.

The invariants that are proved and no longer asked of a run are the type
invariants of the proved modules, `FinishedThreadHoldsNothing`, `EpochsFence`,
`EndedHoldsNoLease`, `EndedAttemptHoldsNothing` and `QuietRunIsTerminal`.

### Bounds, and why they are enough

- **Fence**: two attempts (one of each kind of adapter) with one handoff each,
  quotes 1 and 2, a bill of 2 and a ceiling of 2: two quotes fit or compete, and
  a bill equals its quote or passes it and takes the ledger over the ceiling.
- **Lease**: three executions on two owners: the smallest instance with both a
  shared owner and another process. A lease lives one tick.
- **Scheduler**: a diamond of four tasks (parallel middle, join, one artifact
  task that is not cacheable), two attempts, two workers, one resume. Two
  contexts, so that the resume meets its checkpoints or misses them, and an
  entry an earlier run may have left in the cache under one of them.
- **Lifecycle**: the run, one resume, one canceller, one exception or crash at
  any point. One resume is enough for two executions to overlap; the safety
  properties are proved for any number of faults, which two or more make a
  failure in the handler of a failure.
- **Capacity**: three attempts of two calls in one process with a limit of two
  (a refusal, a reformat and a timeout at once). With two processes two
  reservations may read the same count before either writes it (the lock
  belongs to one broker), so the exact properties are asked of one process.
- **Repository**: three edits of every kind, two faults (one to start the
  rollback and one inside it, or a crash of two applications) and two foreign
  writes.
- **Synthesis**: two threads, the least with an abandoned one, one HTTP
  connector and two CLIs, so that a handoff can return or go on; two tries, and
  headers that say nothing or that a window is used up.
- **Service**: two lines of every kind with every kind of id, the daemon's run
  and one worker in each pool: a second run waits, which with four workers takes
  five. The daemon is asked once for a cancellation or a resume of any run at any
  point (`MaxAsked`), in one thread; together with the lines of the client a run
  is cancelled by one of them and resumed by the other, in either order. The
  proof of `EarlyCancelSticks` has neither bound.
- **Preparation**: two runs of any two of four invocations, which between them
  have every kind of input the ingestion tells apart, one write to any file at
  any point, one observation of capacity, a hosted and a local model. The
  reuse needs two runs and one write to go wrong.
- **Assurance**: two chapters (one good while the other is not), two chunks of
  which one was given, a reference that names no chunk, and every mode, verdict
  and defect.

Deadlock checking is off where executions end; `RunPreparation` and `Assurance`
have a step for the end and are checked for deadlock.

### Fairness

- `CompletionFence!FairSpec`: the worker thread and the scheduler thread of an
  attempt keep running, and `future.result(timeout)` fires. Nothing is assumed
  of providers: a transport may ignore its deadline.
- `DagScheduler!FairSpec`: the owner thread and the pool keep running and a
  timeout fires in the end; `Answer`, `Crash`, `Resume` have no fairness.
- `RunLifecycle!FairSpec`: a thread that has begun an execution or the write of
  a cancellation goes on; nobody has to resume, to ask for a cancellation or to
  crash. `Proceed` includes exceptions, which the fault bound limits; stages
  return because the schedule ends (`ScheduleEnds` of `dag_safety`).
- `SynthesisHandoff!FairSpec`: a thread goes on, because sockets and commands
  have timeouts of their own; which answer it gets is free.
- `McpService!FairSpec`: the reader, the pools and the jobs of each kind of
  thread go on (a run settles by `RunSettles`); a client need not write, close,
  cancel or resume.

## 4. Proofs

The proofs hold for every value of the constants that satisfies the named
assumptions of each module (`FenceAssumption`, `LeaseAssumption`,
`DagAssumption`, `RepoAssumption`, `CapacityAssumption`, `LifecycleAssumption`,
`ThreadsAssumption`, `ConnectorsAssumption`, `LimitsAssumption`, `McpAssumption`,
`WorksAssumption`, `ConfiguredAssumption`, `PreparationAssumption`); TLC
evaluates each on its runs. `RoutingOrderAssumption` is of another kind: that the
topological order of the one plan there is lists its seven tasks is a fact
without parameters, which TLC computes and the prover, for which the order is a
recursion, takes from there.

| Module | Theorems | Inductive invariant |
|---|---|---|
| `CompletionFenceProofs` | types, charged answers, closed timeouts, clean threads; the threads implement the run budget, and spend stays within the ceiling | what each program counter says of the call at hand: which of the guard map, the cleanups, the reservations and the rows has it, and who will close it; no call id is both charged and open |
| `TaskLeaseProofs` | types, completed is stored, one holder, epochs fence, work lost only with the lease | which execution wrote the row, which epochs are out, and that no row is newer than the last undisturbed writer |
| `DagSchedulerProofs` | types, dependencies, cancellation bound, returned leases, no repetition | a batch consists of tasks whose dependencies have results; pool tasks passed the block check; held leases belong to the batch; no cacheable task whose latest checkpoint has the execution's fingerprint is in the pool |
| `ResourceProofs` | of `RepoTransaction`: types, all or nothing, early changes | backups are the prepared contents; a file that differs is in `replaced` or was checked; an early change is on the disk until the recheck reaches it (`TransactionInv`) |
| | of `SubscriptionCapacity`: types, counter not above, counter exact, clean brokers | a broker knows only the call its attempt is at; who is between read and upsert has the lock; a call is new to the history until it is reserved; until the first timeout a call is open up to its commit and then marked |
| `RunLifecycleProofs` | types, receipt vouches, state vouches, cancellation stops, quiet is terminal | what each step of a delivery has on disk (`Bundled`), which states are gone while somebody works (`Progressing`), and that a state that is not terminal belongs to an execution that has yet to write one (`PendingInv`) |
| `SynthesisHandoffProofs` | types, bounded handoffs, no connector twice, bounded requests, one result | the rows and the threads about to insert one stay together within the bound; what a thread may have sent at its present step (`SendsOf`); a thread that somebody follows is closed or failed (`Passed`) |
| `OutcomeProofs` | of `McpService`: types, answered once, early cancellations stick | every line read is in a queue, with one job, or answered as often as it is to be; pools within their threads (`ServiceInv`); the row of an early cancellation stays, and who is past its begin has left a request file (`CancelInv`) |
| | of `Assurance`: types, delivery is sound, citations stand, repairs keep work | a run that passes has no finding against its results as they are now; after the first audit no claim is without a verdict; claims and package are those of the results (`IInv`) |
| `RunPreparationProofs` | types, complete inventory, true gates, chapters have a worker, sound reuse, no injected text | `IntakeInv`: how many records there are when input `at` is at hand, and what a hash tells of a text (`Told`); `StageInv`: gates, contacts, plan and decisions are those of this invocation and these records, and the tools are there; `ReuseInv`: what the cache has under a key was made from the texts that the hashes in the key tell |

The invariants of the runs are not inductive as they stand. `AllOrNothing`, for
instance, speaks of the end of a transaction only: its proof needs that in
every state a file that is not as it was is noted for the rollback
(`ChangedIsNoted`), that the backups are what the edits were prepared for
(`BackupIsBefore`), and that the last loop has seen what it passed
(`CheckedIsAfter`). `HandoffsBounded` needs the threads between their count and
their insert: whoever counts is not one of them, so that at most the others
are, and each had found the limit not reached. `OneResult` needs that the
threads before the last one are all past bringing a result, which a thread
learns of its predecessor only. Each proof shows that `Init` establishes the
invariant, that each action keeps it (one step per action), and that it implies
the property. `MatchingCheckpointIsReused` is an action property that follows from
the same invariant. `QuietRunIsTerminal` needs no assumption that executions do
not overlap: whoever wrote the last state that is not terminal is still on its
way to write one (`PendingInv`), because only an exception that escapes or a
crash leaves that path. The facts about sequences that the rollback needs
(`RanAppend`, `RanRest`) are lemmas of their own.

`ImplementsBudget` maps the ledger of the threads to the abstract budget, step
by step: `Authorize` is a grant, `Commit` a charge, each release of an open call
gives it back, and everything else is a stutter (`StepMaps`). The budget keeps
sums, so the proof needs what a sum does when an entry comes or goes
(`SumSplit`, `SumAdd`). `SumFunction` is defined by recursion over the domain;
the library's induction theorems cannot be used, but a recursion over a finite
set can be unfolded by taking a least counterexample in the natural numbers
(`Least`), and this is how `SumExists` and `SumAgrees` are proved. The ceiling
of the threads' ledger then follows from that of the budget. `AnsweredOnce`
needs a count of who has a line: `Replies` says that a line has its answer
exactly when it was read and nobody holds it. `DeliveredIsSound` speaks of the
end and is carried there by one conjunct per thing the later phases must not
undo, because each of them may demote a result after its claims were built.

`ReuseIsSound` relates two runs that never meet: the result was stored by the
first, under a key of hashes, and the second compares it with texts of its own.
The proof goes through `Told`, the texts that hashes are made from: an entry of
the cache was made from a text its key tells (`CacheTells`), a record of the run
has the text its hash tells (`RecordsOK`), and a hash tells one text
(`ToldOnce`). `unsure` only grows, so that an entry stays right.
`InventoryComplete` counts: the records after the attachments have names of
their own, and as many names as places make the cardinality (`DistinctCount`).
`ChaptersHaveAWorker` rests on the table of providers: the tools have what every
task asks for that no model writes (`ToolsCapable`), no model has it
(`OthersIncapable`), and they can neither be probed away nor be out of capacity
(`ToolsStand`); that the router's choice is one of the providers that fit needs
that a best mark exists (`BestExists`).

Only model-checked: the graph algorithms, which are recursive functions and are
compared with their definitions on all graphs of four nodes; the budget report;
and the liveness properties (`EveryReservationIsClosed`, `ScheduleEnds`,
`RunSettles`, `CancelTakesEffect`, `ThreadsEnd`, `RequestsAnswered`,
`AcceptedRunsEnd`), which with fairness and `ENABLED` are out of the prover's
reach. Every invariant and every action property of a passing run is proved.

## 5. Disagreements with the documents

Two runs expect a violation; the `findings` of `PROJECT.json` have the lines.

- `repo_transaction.py` reads an unassigned variable in the `finally` of its
  rollback when the first file of the rollback is a new one (`repo_escape`).
- `_configure_claim_verifier` asks only for cloud permission, never the policy:
  a `local_only` run with that permission sends its claims to a hosted model,
  which docs/configuration.md excludes (`hosted_permission`).

Five more are stated in the modules, each with the sentence it contradicts. To
see one, put the property in the place of those of the module's configuration:

| Property | What the code does instead |
|---|---|
| `SubscriptionCapacity!RetainedOnCommit` (invariant) | `release` forgets the mark of a committed call at its first release, so that a second one takes the call out of the counter |
| `CompletionFence!NoRowAfterTimeout` (property, `Ceiling = 3`, both attempts protected) | `release_cost` forgets the guard and then releases; a late answer between the two commits a ledger row |
| `TaskLease!EpochMonotone` (property) | `acquire_task_lease` computes the epoch before it writes the row, so that two acquisitions may put it back |
| `RunLifecycle!CancelledIsNotDelivered` (property, `MaxFaults = 2`) | a cancellation accepted after the last check is followed by the delivery |
| `SynthesisHandoff!HandoffRecordsWithinLimit` (invariant) | two threads of a task count the rows before either inserts: three records where docs/implementation-log.md says two |

## 6. Not modelled

- Formats: vendor payloads, parsers, archives, rendering, wording, scores of
  retrieval.
- Observability, configuration files, integrations, the command line,
  benchmarks, evaluations and the release gate: front ends and records that
  decide nothing a run depends on.
- `repo_transaction.py`: temporary files. `repo.py`, `repo_validation.py`: the
  worktrees and commands; what the commands report is an input of `Assurance`.
- `capacity.py`: how much a reservation takes from a window. A call may be
  refused at any time instead.
- Context cards: a task of `RunPreparation` is shown chunks only. The adapters
  leave out every flagged chunk and card once more (`_bounded_context_pack` of
  `providers/base.py`), so that a card cannot show what `NoInjectedText` excludes.
- `cache.py`, `utils.py`: torn files. An entry is there or it is not.
- Delays: the time between HTTP retries, the age of a health probe in the front
  ends that keep one.
- Hazards without a property are in `PROJECT.json` with the reason.

## 7. Plan

The concurrent core, the synthesis task, the services, the preparation and the
assurance of a run are modelled. What is left, in this order:

1. An abstract specification of the preparation, which the routing and the
   reuse implement, and of the lease, which `TaskLease` implements while nothing
   disturbs it.
2. Windows of a capacity snapshot with amounts, composed with
   `SubscriptionCapacity`.
