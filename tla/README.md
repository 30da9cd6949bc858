# PayTrace in TLA+

PayTrace diagnoses drops in payment conversion. An HTTP API creates an incident
and a *diagnosis run*; a Celery worker executes the run: it collects evidence
with read-only analytics tools under a governed harness, asks a report model
(OpenAI or rules) for a report, checks the report against an evidence contract,
and stores report, trace and status. A second service runs evaluations of the
whole pipeline over synthetic scenarios. This directory models the parts of the
backend whose correctness depends on interleaving, order, partial failure, a rule
table, or on several computations that have to agree with each other.

All source paths below are under `src/backend/app/`.

## 1. Inventory

| Component | State | Operations | Talks to |
|---|---|---|---|
| Diagnosis run lifecycle: `incidents/service.py`, `api/v1/incidents.py`, `tasks/diagnosis.py`, `tasks/stale_scan.py` | rows `diagnosis_run`, `diagnosis_run_event`, `diagnosis_report`; broker messages; local state of a request or a task | trigger, retry, dispatch, claim, execute, Celery retry, persist result or failure, stale scan | PostgreSQL, Redis broker, orchestrator, event stream |
| Incident creation: `api/v1/incidents.py`, `incidents/service.py` | row `incident` with unique idempotency keys | create or get, get, list | PostgreSQL |
| Event stream: `api/v1/diagnosis.py` | cursor of one SSE connection | poll events, send, heartbeat, close | rows `diagnosis_run_event`, `diagnosis_run` |
| Investigation harness: `harness/harness.py`, `hooks.py`, `ledger.py`, `routing.py`, `investigation.py`, `tools/base.py`, `tools/schemas.py` | budget, tool policy (count, fingerprints), hypothesis ledger, evidence ledger, blocked attempts | triage, route, propose, decide, before-hooks, execute, after-hooks, finish | tools, artifact store, OpenAI |
| Evidence contract: `diagnosis/validator.py`, `diagnosis/orchestrator.py` | one report and one context, in memory | classify a claim, normalise a report, validate, block or publish | report model, tool evidence |
| Report models: `diagnosis/adapter.py`, `diagnosis/prompts.py` | sticky `fallback_used` | generate, parse, retry, fall back | OpenAI |
| Evaluation run lifecycle: `evaluation/service.py`, `api/v1/evaluations.py`, `tasks/evaluation.py` | row `evaluation_run` | create or get, dispatch, claim, execute, persist, fail, stale scan | PostgreSQL, broker, evaluation runner |
| Evaluation runner: `evaluation/runner.py`, `evaluation/metrics.py` | the results of one evaluation, one adapter and one policy object, three files per kind of scenario | generate, write, diagnose, score, aggregate | orchestrator, scenario generator, disk |
| Artifact store: `harness/artifact_store.py` | objects and metadata by key | put, get, ensure bucket | MinIO or local disk |
| Tools: `tools/diagnostic.py` | none | six read-only queries, each turned into evidence | analytics source, artifact store |
| Analytics: `analytics/base.py`, `analytics/duckdb_source.py` | none; reads Parquet files | funnel, breakdown, benefit gap, events, cancel and reorder, config changes, check of the data set | DuckDB |
| Scenario generator: `harness/scenarios/` | per intent: what was drawn for it | generate events, ground truth and config changes | disk |
| Ontology: `ontology/registry.py`, `domain/events.py` | static tables | lookup | everything |
| Health, configuration, observability, heartbeat | metrics, Redis key | probes, counters | PostgreSQL, Redis, MinIO |
| Front end, migrations, scripts | | | API |

What each has to get right, and why it is hard:

* **Diagnosis run lifecycle.** Five actors write one row: the request, the first
  delivery, a Celery retry, a duplicated delivery and the stale scan. PostgreSQL
  runs at READ COMMITTED, `get_run` takes no lock, and the scan neither re-reads
  nor consults the transition table. To keep: the table is the only way a status
  moves; a completed run has exactly one report and announces it once; nothing
  hangs for ever after a crash; the original of a retry stays what it was.
* **Incident creation.** Two requests with one key race to the unique constraint;
  the loser has to return the winner's row. A simulated incident writes files that
  are named by the kind alone and reads them back for its row.
* **Event stream.** It polls the event rows and the run's status separately; the
  last events of a run must be sent before the stream ends.
* **Investigation harness.** A call passes six before-hooks, of which some count
  and some remember, and six after-hooks, whose order decides what the resolution
  sees. To keep: the budget bounds the tools, the loop ends, a hypothesis is
  settled once and only by evidence registered to it, nothing is left open in the
  result.
* **Evidence contract.** A decision table over evidence sets, applied by three
  readers (ledger, normaliser, validator) that have to agree; a report that is
  published must satisfy the rules it was normalised for.
* **Evaluation run lifecycle.** As for diagnosis runs, with its own table and
  without a staleness check at re-entry. A report is two objects in the store and
  a transaction that records their checksums; a second execution writes the same
  keys. Racing requests for one key must dispatch it once.
* **Report models.** Retries and a fallback that is sticky for the lifetime of the
  object.
* **Evaluation runner.** It shares its files with simulated incidents and with the
  diagnosis runs that read them, and its policy object with all scenarios. To keep:
  a score is about the data generated for it, every kind asked for is scored once,
  and what is counted as a use of the model was one.
* **Analytics and tools.** Six queries look at one file independently of each
  other, and a report adds up what they say. To keep: no intent is charged twice,
  nor one that completed, and what one query calls a total is another's sum.
* **Scenario generator.** Two faults can hit one intent, and their effect shows one
  stage after the one they act at. To keep: the ground truth is what the faults
  did, in the terms a report uses.
* **Artifact store.** Keys of tool results are not namespaced by run.

## 2. Plan

| Order | Modules | What they settle | State |
|---|---|---|---|
| 1 | `RunStatus`, `RunLifecycle`, `DiagnosisRun`, `DiagnosisRunProofs` | the shared row of a run: races, crashes, retries; the abstract lifecycle and the refinement | done |
| 2 | `EvidenceContract`, `ReportPipeline`, `ReportPipelineProofs` | the decision table; both report models, validation, normalisation, blocking; the sums of their losses | done |
| 3 | `LogDelivery`, `EventStream`, `EventStreamProofs` | the log of a run from its writers to the page; delivery in order, once | done |
| 4 | `Investigation`, `InvestigationProofs` | the governed loop with hooks, ledger and budget | done |
| 5 | `EvaluationRun`, `EvaluationRunProofs` | the second lifecycle: its own table, no staleness check at re-entry, stored reports, the same scan | done |
| 6 | `ScenarioData`, `Analytics`, `ScenarioReport`, `ScenarioReportProofs` | generated data, the queries over them, the evidence raised, and what the report of `ReportPipeline` makes of it: losses, gaps, the ground truth and the score | done |
| 7 | `EvaluationBatch`, `EvaluationBatchProofs` | the inside of an evaluation: files shared with simulated incidents, objects of tool results, the shared policy, the counts of the metrics | done |
| 8 | `SumTheorems` | induction over finite sets and numbers, and sums over sets, for the proofs of 2, 6 and 7 | done |
| 9 | create-or-get of plain incidents and diagnosis runs, as a module of its own | two unique keys on one table | left: for evaluations `DispatchedOnce` settles the same insert |

Abstract specifications: `RunLifecycle` (a status moves only along the table) and
`LogDelivery` (a log delivered once and in order) are written and implemented; a
run on data implements a run on any evidence (`DatasetRunsAreRuns`). A ledger in
which a hypothesis is settled once would say no more than `SettledStays` does.

## 3. Modules and code

A module's header says what it abstracts; the table says where its state lives in
the code. In each module some definitions are headed "A fault": they are mutated
forms of a definition of the model, used to see that a property can fail, and are
no part of `Next`.

### Diagnosis runs: `RunStatus`, `RunLifecycle`, `DiagnosisRun`

`RunStatus` is the vocabulary and the transition table (`incidents/service.py`).
`RunLifecycle` is the promise, `DiagnosisRun` the service.

| Variable | Code |
|---|---|
| `status`, `started`, `idle`, `origin` | columns of `diagnosis_run`; `started` and `idle` are the ages of `started_at` and `updated_at` against the ten minutes of the re-entry check and of the scan |
| `log` | `event_type` of the rows of `diagnosis_run_event`, in sequence order |
| `report` | the row of `diagnosis_report`, reduced to its status |
| `queue` | messages in the broker, per run and Celery attempt |
| `req` | a request between its two commits and its publish |
| `task` | a worker's task: what it read and has not yet written |
| `batch` | the rows a scan has selected and not yet committed |

Each transaction of the code is two actions, its read and its commit, because
nothing locks the row between them: `TakeMessage`/`Claim`,
`Execute`/`PersistReport` or `PersistFailure`, `ScanRead`/`ScanCommit`.
`Execute` is the whole of the orchestrator, whose inside is the subject of
`Investigation` and `ReportPipeline`; its outcomes are theirs: a report with one
of its two statuses, a failure that is final, or (`RetryLater`) one that Celery
retries. `Flush` models that the ORM writes only a column whose value differs
from the one it loaded, which is what lets a late commit keep the scan's
status. `Refused` stands for the exceptions of `update_run_status` and of the
unique constraints. `RequestDies` and `TaskDies` stop a process at any point. A
publish that raises (`PublishFails`) may have left the message in the broker all
the same: the answer was lost, not the message.

### Reports: `EvidenceContract`, `ReportPipeline`

`EvidenceContract` is `classify_support` of `diagnosis/validator.py` as one
operator. `ReportPipeline` follows one report: `Correct` and `Accept` are the
orchestrator's correction loop, `Publish` is normalisation, final validation and
blocking. `RuleReport` is the rule-based model in full, sums included. A language
model is the set `Drafts`: it may return any of them, or fail, in which case the
rules answer. A context maps evidence codes to a type, a stage and a loss; text,
actions and confidence wording are left out, except where a rule (R10) reads them.
`IsContext` says what a context can be: finitely many codes, and a loss only with the
two types whose tools state one (`Estimated`; `tools/diagnostic.py:80,167`). `TotalLost`
and the rules' claims read the loss of every record of their types, 0 if it has none.

### Events: `LogDelivery`, `EventStream`

| Variable | Code |
|---|---|
| `events`, `tx`, `status` | committed and uncommitted rows of `diagnosis_run_event`; the run's status |
| `conn` | `stream_run_events`: its cursor, the batch it is sending, the status its ORM session holds |
| `wire`, `lastId`, `got` | the TCP connection and the browser's `EventSource` |
| `shown`, `watching` | the list and the effect of `use-diagnosis-events.ts` |

The writers are any transactions that call `write_event`: which there are is the
subject of `DiagnosisRun`, here they write anything, in any order the row lock
allows. The browser is external to the repository and is modelled from how the
page uses it: it sends `Last-Event-ID` and reconnects by itself.

### Investigation: `Investigation`

| Variable | Code |
|---|---|
| `used`, `counted`, `seen` | `Budget.calls_used`; `ToolPolicy._call_count` and its fingerprints |
| `status`, `linked` | the hypothesis ledger: a status per cause, the calls registered to it |
| `calls` | the executed calls with the evidence types they returned |
| `blocked`, `reason`, `pc` | the loop of `harness.py` |
| `setup`, `stages`, `missing` | policy and limit; what triage's funnel shows; the data gaps |

One action is one turn of the loop, with all its hooks: `Triage`, `Call` (every
before-hook passes, the tool answers, registration, resolution, early exit),
`Refuse` (some before-hook refuses), `TriageRaises` and `CallRaises` (the tool
raises after it was counted and before it is paid for), `Finish`, `Close`. A
tool is `Finds`: the sets of evidence types it may come back with. Only that a
whole-incident funnel agrees with triage is fixed. The scripted policy is a
function of the state, the language model proposes anything.

A call is named by its tool and its arguments: the ones the script sends, and those
of the constant `Narrowed`, the other arguments each tool accepts, which are distinct
queries with fingerprints of their own. The run gives the funnel two of them.

### Evaluations: `EvaluationRun`

| Variable | Code |
|---|---|
| `status`, `idle` | columns of `evaluation_runs`; a run is named by its unique idempotency key |
| `records` | the rows of `artifacts` that point to a run's report, by the execution whose checksum they hold; the keys of the row are set with them |
| `objects` | the bytes stored under the run's two report keys, by the execution that wrote them |
| `begun`, `queue` | executions so far; messages in the broker |
| `req`, `task`, `batch` | as in `DiagnosisRun` |

`Insert`/`CommitInsert` is the insert with ON CONFLICT DO NOTHING: a second insert
of the key waits for the first transaction and then finds the row, so it changes
nothing. `PublishRaises`/`CommitDispatchFailed` is the failure branch, which
decides on the QUEUED its session still holds. `TakeMessage`/`Claim` is the first
transaction of the task, which claims a RUNNING run again; `StoreJson`,
`StoreMarkdown` store the report, `Finish`/`PersistReport` is the last
transaction; `Fail`/`PersistFailure` the failure one. The scenarios themselves are
one step, of which the report's bytes are all that is kept: two executions never
write the same ones, since a report holds latencies. The module names model
values itself and needs no MC module.

### Data and diagnosis: `ScenarioData`, `Analytics`, `ScenarioReport`

`ScenarioData` is the generator. An intent is the record of what was drawn for it,
with the fields the queries read; a data set is, per period, a bag of intents.
`Drawable` are the intents a kind can produce, `Reached` is where the funnel walk
and the caps of the faults leave one, `Progressed` and `EventCount` its events.

| Field | Code |
|---|---|
| `gap` | `selected_payable_minor - best_payable_minor` |
| `walked` | the stage the walk reaches before any cap |
| `cancelled`, `reordered`, `switched`, `timedOut` | the flags of `_IntentState` |
| `noBenefit` | `benefit_id` is None |
| `method`, `channel` | the two dimensions the fixed workflow breaks down by |

`Analytics` is a query or a tool per operator, in the order of the code: `get_funnel`
(`ReachedCounts` to `FunnelLoss`), `breakdown_loss` (`Conversion` to `RowDegraded`),
`analyze_benefit_gap`, `trace_cancel_and_reorder`, `validate_dataset`
(`Warnings`), then the evidence of each tool, and `BuildContext`, the fixed
workflow up to the report model. Comparisons of rates are cross-multiplied. The
records of a funnel follow the stages; those of a breakdown or of the config changes
stand in an order of their own (`Drafted`), since nothing that is modelled reads the
order in which a tool lists its rows.

`ScenarioReport` composes both with `ReportPipeline`, by extending it: `data` is the
file a run reads, and its context is what the workflow finds there, or, with
`NoData`, any evidence. `Badcases` is `score_scenario`. The properties of losses and
gaps are about reports the rules wrote (`Finished`): a language model may state any
loss the validator's sums accept.

### The inside of an evaluation: `EvaluationBatch`

| Variable | Code |
|---|---|
| `disk` | the three files of each kind of scenario: what their content was generated from, or that it is torn or absent |
| `at` | where the runner or a request for a simulated incident is in writing them |
| `crossed` | whether somebody else has written the kind's files since a writer turned to it; the code keeps no such note, the properties need it to say "unless" |
| `incident` | the rows of simulated incidents, with the data their measured values came from |
| `objects`, `records` | the object store by key; the artifact records of committed runs |
| `work` | the one job of the `-P solo` worker, with the scenario at hand |
| `fell` | `fallback_used` of the job's policy object |
| `results`, `metrics` | the results of an evaluation; its aggregate, or how it ended |

Every write is two actions, `Truncate` and `Fill`, and what two overlapping writers
leave may be torn. Each query opens its file anew (`Source`), which is why a run
can see two data sets. `Turn` and `Conclude` are a turn of the investigation as far
as it concerns the model, the queries and the files: what the hooks decide is
`Investigation`'s. `Raise` is a scenario that fails, by a file, a tool, the store or
a blocked report; `TruthUnreadable` the read of the ground truth outside the `try`.

## 4. Runs

| Run | Instance | Shows |
|---|---|---|
| `run_solo` | two runs of one incident, two requests, one worker, two retries | the deployed shape (`-P solo`): `SingleDelivery`, `NoResultLost` (nothing refused, nothing recorded written over), `RetryOfSettledRun`, and the refinement of `RunLifecycle` |
| `run_scaled` | one run, two workers, two retries, two copies of each message, fair | overlapping executions leave one result: `CompletedHasReport`, `ResultAnnouncedOnce`; `QueuedBeforeDispatch`; `RunsSettle`: nothing stays QUEUED or RUNNING |
| `run_dispatch`, `run_retry` | one run, one worker | two disagreements of section 6 |
| `report_pipeline` | data sets of all seven kinds over three baselines, reported on by the rules; beside them every evidence set the tools can produce, with and without gaps; and a language model in three contexts, with one or two claims of any label, citations (one of a code that does not exist), sums that do not add up | of reports: `RulesKeepContract`, `ChargedOnce`, `SupportedIsBacked`, `ClaimsBalance`, `NothingSilentlyAltered`; of data and reports: `LossWithinAttrition`, `TruthIsCounterfactual`, `ViewsAgree` (funnel and report, benefit buckets and trace), `GapNeverBlamed`, `FaultsAreFound` |
| `stream_delivery` | two writers, three events, two lost connections, any number of expired streams | `DeliversLog` (refinement of `LogDelivery`), `AllDelivered` |
| `stream_shown` | one writer, two events, one lost connection | a disagreement |
| `harness_governed` | the script with limits 1, 3 and 8 (the deployed one), a model with limit 3, all combinations of five stages and of gaps | `BudgetHolds`, `ScriptNotRefused`, `VerdictsEarned`, `SettledStays`, `InvestigationEnds` |
| `harness_ledger` | the script | a disagreement |
| `evaluation_solo` | two keys, two requests, one worker, two copies of each message, one after a publish that raises, fair | `DispatchedOnce`, `ReportDownloads`, `SucceededHasReport`, `EvaluationsSettle` |
| `evaluation_batch` | two kinds, two data sets, one worker, every job with the object store; in turn: a request and a diagnosis run beside an evaluation of two scenarios; two requests beside each other and a diagnosis run; one of two scenarios in each mode; two evaluations one after the other | `RestsOnOwnData` (scores and incidents), `EveryKindScored`, `ModelUseEarned` (invocations and fallbacks), `ModelUseAccounted`, `ArtifactsMatchWhenRecorded` |
| `artifacts_kept` | two diagnosis runs, one after the other | a disagreement |

**Bounds.** Two runs are needed only for a retry and its original, and one worker
executes them in turn. Two workers are enough for an execution to overlap with
another and, in turn, with a scan; a third would add a second overlap of the same
kind. Two retries let a retry of a retry exist. Two copies of a message let a
duplicate exist at every attempt. Two keys let the worker execute one evaluation
while the other is created, queued or stuck. Three events and two breaks let a connection
fail before, within and after a batch and fail again on the reconnect. Every
signal of the harness has a stage in `MCStages`, and `ORDER_COMPLETED` is a stage
of no signal; limit 1 is spent by triage, 3 is spent by two calls, 8 exceeds what
the script ever asks. The losses of the report catalogue are chosen so that two
estimates overlap, exceed the total, or are zero. A period of a data set has 42
intents: 36 undisturbed, a group of 4 and a group of 2, so that against the 5% of
the code one group is enough to flag a stage, the other only after the first has
dropped out, and a stage can lose intents unflagged. The groups range over every
combination of faults the kind can draw, from stages before, between and behind
those of the faults; both bounds of a benefit bucket occur. Exact fractions differ
from the code's floats only where a rate difference is the threshold or a loss is
half an intent, to within a float's precision. `LIMIT`, `top_k` and the context's
limits are not reached. In `evaluation_batch`, two tags of data are enough to tell
one's own from another's, two requests are what a race for one kind needs, and an evaluation asks for a kind twice with another one
between. The pipeline there is one query of each file, with one probe that repeats a
tool under another filter. The config changes are the same for all data of a kind,
as in the code, which draws nothing for them. Only the two tags of data are
declared symmetric (`evaluation_batch`): no definition and none of its properties tells
them apart, and none of these is a liveness property. The funnel of the harness can be
filtered in two ways, so that narrowing a query again is not always a repetition. Bounds
that stand in guards are `MaxRetries` (a setting of the program), `MaxCopies`,
`MaxLeft` (copies left by a publish that raises), `MaxEvents`, `MaxBreaks` and `MaxBlocked` (a constant of the program).

**Deadlock** is checked for the harness, whose end is the stuttering step `Ended`.
Elsewhere the system may really stop (all runs settled, a report published, all
jobs done, the page closed with a full log), so `CHECK_DEADLOCK` is FALSE.

**Fairness.**
* `run_scaled`, `evaluation_solo`: time passes; a task that is running returns (its calls have
  timeouts, `TaskDies` included as a way to stop); beat keeps sending scans, and a
  worker does not die in every scan it begins, hence strong fairness of
  `ScanCommit`. Nothing is assumed of requests or of the broker.
* `stream_delivery`: the server's polling loop goes on while it has a connection;
  the browser reads and reconnects by itself. Nothing is assumed of writers, of
  breaks, or of the expiry of a stream. `AllDelivered` excepts a page that has
  stopped watching.
* `harness_governed`: the loop is sequential code and takes a step when it can.
  Tools may raise, but are assumed to return.

## 5. Proofs

The proofs are for every value of the constants under the named assumptions
(`RunAssumption`, `PipelineAssumption`, `StreamAssumption`, `SetupsAssumption`,
`EvaluationAssumption`, `ScenarioAssumption`, `DatasetsAssumption`,
`BatchAssumption`, `NarrowedAssumption`), which ask for no more than types, for distinctness of the
null values, for finitely many workers (`EvaluationAssumption`), payment methods and
channels (`ScenarioAssumption`) and, in `IsContext` and `IsDataset`, for finitely many
records and intents: a file has an end. TLC evaluates each of them on a run.

Every safety invariant and action property of section 4's passing runs is stated by
a theorem.

**`SumTheorems`.** Losses are sums over the claims of a report, the records of a run
or the intents of a period, and `Distinct` is a fold over a list, so the proofs about
them are inductions. The library's induction theorems take the statement as an
operator, which none of the provers can instantiate. Here it is a *set* G: of the
subsets of a finite set, or of the numbers, that have the property.
`SubsetInduction` and `NaturalInduction` follow from the minimal element that the
library gives a well-founded relation (`WFMin`). `IterUnique` and `IterExists` then
justify the recursion behind `SumFunctionOnSet`, element by chosen element, and
`SumRemove` that any element may be taken out first; the rest is what one expects of
a sum (adding, splitting, bounding, what lies outside the support).

**`DiagnosisRunProofs`.**
* `TypeCorrect` needs, besides the types, that a busy request or worker holds a
  run (`HoldsRun`): `TypeInv`.
* `ResultsConsistent`: `CompletedHasReport` and `ResultAnnouncedOnce` are
  inductive together (`ResultInv`). Only `PersistReport` appends a completion, and
  the unique constraint lets it do so once; `PrefixKept` and `AppendedCompletions`
  carry this over the growing log. No assumption on workers: deliveries, retries
  and scans may overlap as they like.
* `QueuedFirst`: `QueuedBeforeDispatch` strengthened (`DispatchInv`) by what a
  request knows of its run before it publishes, that nobody else creates or
  publishes it, and by the statuses the service uses at all.
* `SoloLifecycle`, `SoloResults` and `RetriedRunsSettled` assume one worker
  (`OneWorker`), as deployed: a worker that executes cannot scan, so what it has
  read stays true until it writes (`SoloInv`), and no scan finds a run that an execution
  is about to complete. Without the assumption the
  statements are false, as the observations in section 6 say.
* `DeliveredSingly` assumes that a publish leaves one message (`OneCopy`), and
  nothing of the workers: `SingleInv` adds to `SingleDelivery` that a run which is
  still on its way to the queue has no other delivery.
* `AnnouncedOnce` is the half of `ResultInv` about the log.

**`ReportPipelineProofs`.** `FaultsBacked` and `AlterationsNoted` follow from
`PublishInv`, which says of a finished report that its claims are the draft's with
the support the contract gives, and that each change is noted; the lemmas on the
shape of a rule report are needed because the fallback answers too.
`EvidenceOnlyStrengthens` is about the table alone: for a fault, more evidence
types never give a weaker verdict.

`TypeCorrect`, `LossesBalance`, `RulesArePublished` and `RulesCharge` follow from
`OutcomeInv`: what a finished run returns is what contract and validator make of the
last draft, and a blocked one has a blocking issue. The rest is about the operators.
`LossesBalance`: whatever sums the draft states, the contract works them out again from
the claims that keep a standing, caps them by the total, and calls the rest unexplained. `RulesArePublished` is
`ContractKeepsRules`: every claim the rules make is classified again as what they
wrote (`FaultClaimsStand`, `NormalClaimStands`), an UNKNOWN claim explains nothing,
and so there is nothing to correct or to block. `RulesCharge` is a fact about sums over
two disjoint parts of the evidence: the timeout claim takes the records of
the channel's stage, the friction claim those of the friction stages
(`StagesShareNothing`); where the funnel has no loss at the channel's stage the
hypothesis fails, and so would the statement.

**`EventStreamProofs`.** `DeliveryImplemented` is the refinement of `LogDelivery`.
Its invariant has four parts: types; `LogInv`, that uncommitted rows are in one
transaction and behind all committed ones (this is what the row lock of
`write_event` buys: without it a smaller number can be committed after a larger one
was sent); `GotInv`, that what arrived is the prefix of the log up to `lastId`;
`SentInv`, that the wire continues it and the batch continues the wire.
`TypeCorrect` is more than types, since `TypeOK` bounds what is on the wire by the
log: the i-th number there is at least i (`Ranked`).

**`InvestigationProofs`.** `BudgetRespected`, `LedgerIsEarned` and `SettledForGood`
rest on one invariant: `BudgetHolds` and `VerdictsEarned` with `Remembered` (an
executed query has its fingerprint), `Registry` and `Within` (what is registered
is a call that was made) and `Spared` (in the loop some hypothesis is open, which
is what makes `FirstOpen` well defined). The step of `VerdictsEarned` needs that a
call's evidence is inconclusive whenever the hypothesis stays open
(`OpenUntilConclusive`), since evidence is evaluated call by call and the
statement is about all of it. `ScriptPasses` adds `Affordable`: with a limit above
one the loop goes on only while there is budget, and the hooks remember executed
queries and no others; a planned query is of an allowed tool, has arguments the tool
accepts and was not executed, so no hook has a reason to refuse it.

**`EvaluationRunProofs`.** `OnceDispatched` counts, per key, messages, claims on
their way and executions (`Total`): zero until the one publish, and never growing
after it. What makes the publish unique is that a key has one request between its
insert and its answer (`OnceInv`). `ReportKept` assumes one worker: the run of a
task under way has no report yet (`SoloInv`), so nothing rewrites recorded objects
and neither the task nor the scan moves a run that has its report. It uses
`OnceInv`, by which a request that still creates or queues a run knows that it was
never executed. `SucceededKept` is the same invariant's other half.

**`ScenarioReportProofs`.** TLC sees periods of one size; the theorems are about every
data set that the generator can draw.
* The arithmetic (`LossesAreDisjoint`, `RowLossBounded`): the loss of a transition is
  at most what did not make it (`TransitionLoss`, which rests on a rounded quotient
  being no more than an integer bound, `RoundBounded`); since the transitions
  partition the attrition, the sum over the nine stages telescopes.
* The ground truth (`TruthCountsOnce`, `DatasetTruth`): `LostMeansKeptFromCompleting`
  is the case analysis of two overlapping faults, over what an intent can become
  (`Drawn`). Lost and completed intents are two parts of those that would have
  completed, and `PartsAdd` adds them up over the bag.
* The queries (`QueriesAgreeOnAll`, `DatasetViewsAgree`): every gap lies in one bucket.
  Funnel and report agree since only the records of flagged stages charge
  anything (`ToolsCharge`), and what is not flagged loses nothing.
* Gaps (`DatasetGaps`): everybody starts, the withheld stages are reached by nobody in
  the incident and by somebody in the baseline (`GapsAreMissing`).
* Losses (`DatasetLosses`): where nothing is withheld the counts are those of a funnel
  (`CountsAreFunnels`), to which the arithmetic applies.
* The faults alone (`DatasetFaults`): the counts of the incident then fall in
  three steps (`AloneCounts`), so two stages at most are flagged and each is charged
  exactly what stopped before it (`AloneFunnel`, `RoundExact`); the friction tool sees
  a shift of the gaps exactly if there is one (`ShiftSeen`); from the types
  the tools raise (`ToolTypes`) the rules make the claims the truth names
  (`AloneCauses`), and nothing is scored down.

These hold of runs because of `FromData`: the context is that of the data set
throughout. `DatasetRunsAreRuns` carries the theorems of `ReportPipelineProofs` over to
runs on data (`DatasetReportsBacked`, `DatasetReportsBalance`); that the rules' report is
published as written is what turns the facts about `RuleReport` into facts about what
a run publishes.

**`EvaluationBatchProofs`.** One type invariant (`TypeInv`, whose part `WorkOK`
says what a job has at each point) and those that stand on it:
* `OwnInv` for `OwnData`: a writer that nobody has crossed finds in its kind's
  files what it has written so far (`Own`), so what it reads next is its own. It
  cannot be stated of the files alone, since what a file holds depends on how far
  its writer is.
* `RefsInv` for `ArtifactsMatch`: a reference of the job at hand carries the number
  of a call made, and the object under it is the call's. A new key has the next
  number and so spares them. `TypesCorrect` adds `KeysKept`: keys are never
  removed.
* `ModelInv` for `ModelUse`: behind a policy that fell back there is a failed call,
  in the scenario at hand or in a result before it (`Behind`); and a scenario whose
  investigator did not fall back was answered whenever it was asked. The second
  half alone is not inductive, as the flag outlives the scenario.
* `TallyInv` for `KindsScored` and `ModelUseCounted`: the results of the evaluation at
  hand and the kinds still to do are together, in order, the distinct kinds of its
  request (`Progress`), and each result is an invocation or a fallback exactly if a
  model was asked for and it completed (`Counted`). `DistinctMeans` says what the fold
  that removes repetitions leaves: every kind of the request, each once. The fold
  is a recursion over the set of places it has taken (`Gathers`), so its existence and
  what it computes are shown by induction over that set (`GatherUnique`,
  `GatherExists`, `AddNewMeans`). `AggregatedModels` adds up the results.

**Model-checked only.** Liveness: `RunsSettle`, `AllDelivered`, `InvestigationEnds`,
`EvaluationsSettle`. Fairness is ENABLED in disguise, and of ENABLED the provers know
nothing.

## 6. Where documents and code part

Five disagreements have a run that shows them:

| Run | Document says | Code does |
|---|---|---|
| `run_dispatch` | a failed dispatch is persisted as DISPATCH_FAILED (`api/v1/incidents.py:297`, `docs/ai/rules.md:75`) | the run is QUEUED by then, the table has no such transition, the update raises and the run waits for the scan |
| `run_retry` | "Celery will retry and the task re-checks status on re-entry" (`tasks/diagnosis.py:228-230`) | the retry comes after 30 s, finds RUNNING and recent, and skips |
| `stream_shown` | the stream resumes from Last-Event-ID after a disconnection (plan v0.2, line 1404) | the page empties its list on every (re)connect and the server sends only what follows |
| `harness_ledger` | a hypothesis and a claim of the same evidence never disagree (`harness/ledger.py:68-70`) | a hypothesis is judged on the current call's evidence alone (`harness/hooks.py:262`): PARTIAL where the contract says SUPPORTED. `VerdictsEarned` is what does hold |
| `artifacts_kept` | the store keeps the "full tool results", the database "only metadata + references" (`harness/artifact_store.py:3-5`, `docs/ai/project-map.md:89-90`) | the key is `tool_results/c<n>/<kind>.json` (`tools/diagnostic.py:47`) and every run counts from c0, so the second run replaces the objects of the first, whose records then fail their checksum (404). `ArtifactsMatchWhenRecorded` is what does hold |

Further observations, made while reading; no run is spent on them:

* *Runs.* A run left PENDING by a request that died before its second commit is
  never scanned. With two workers the scan, or an execution that fails, can write over
  a completion of another worker, past the transition table (against `docs/ai/rules.md:74`); the
  deployment's single worker is what `SoloLifecycle` assumes. The worker
  acknowledges a message when it takes it (`tasks/diagnosis.py:100`), where
  `docs/adr/0004-celery-worker.md:39` describes the opposite, so a worker's death
  leaves the run to the scan. Stale is ten minutes in `tasks/stale_scan.py:37` and
  five in `docs/domain-model.md:87`.
* *Evaluations.* A publish that fails answers "Retry the request."
  (`api/v1/evaluations.py:94`), but the same key then returns the DISPATCH_FAILED
  run and nothing dispatches it again (against the plan v0.2, line 1868, by which it
  can be recovered). With two workers a second delivery
  overwrites the report objects of the first, and the download, which takes the
  first matching record (`api/v1/evaluations.py:156`), fails on its checksum.
  After a publish that raised although the message was stored, the request's
  session still holds QUEUED (`db/session.py:23`) and writes DISPATCH_FAILED over
  RUNNING, SUCCEEDED or FAILED, past the table (against `docs/ai/rules.md:74-75`). A
  soft time limit raised inside a scenario is scored as a bad scenario
  (`evaluation/runner.py:104`); a ground truth that cannot be read fails the whole
  evaluation, since it is read outside the `try` (lines 107 and 122). A fallback in
  one scenario of a B2 evaluation marks all that follow, also those whose calls the
  model answered (against the comment at lines 145-146); `ModelUseEarned` is what
  does hold, and `ModelUseAccounted` counts such a scenario once.
* *Scenario files.* They are named by kind. A second simulated incident of a kind
  replaces the data set of the first, whose description goes on naming its own seed
  (`api/v1/incidents.py:192-195`); a simulated incident writes no config changes, so
  it is diagnosed with none or with those an evaluation left.
* *Data.* `top_switch_from` and `top_switch_to` are always empty: LAG looks for an
  earlier switch of the intent, and there is one at most
  (`analytics/duckdb_source.py:416-431`). `switch_rate` divides those who switched by
  those who cancelled, which exclude each other, so it can exceed 1. A timed-out
  intent that never initiated a payment still emits PAYMENT_TIMEOUT. The LIMIT of a
  breakdown applies before its rows are sorted by loss. A stage that improved is
  flagged, with loss 0, and raises FUNNEL_STAGE_DEGRADATION. The total of a
  NEEDS_DATA report contains the drop of the withheld stages. A presigned URL is
  given out without a check of the object's checksum.
* *Reports.* An UNKNOWN claim "carries no evidence burden"
  (`diagnosis/validator.py:75-76`), but becomes SUPPORTED, and R3 then asks it for a
  code, which under NEEDS_DATA blocks the report. The comment at
  `diagnosis/adapter.py:24-26` says that summing the friction stages would count
  twice, while the funnel's losses are disjoint (`analytics/duckdb_source.py:169-175`):
  the loss at the second friction stage stays unexplained. A
  NORMAL_PAYMENT_FAILURE claim is judged by what it cites and not by
  the run's evidence (against `docs/architecture.md:121-122`). A report without
  claims publishes the model's sums as they are (against `docs/demo-script.md:104-105`).
  When the channel's stage is not flagged, the timeout claim takes the losses of
  the breakdown, which contain those of the friction stages (against
  `docs/demo-script.md:141-142`). A NEEDS_DATA report with claims is not blocked for
  having them (against the comment in `diagnosis/orchestrator.py:201-202`). Two
  observational types together give SUPPORTED (against the repository's
  `README.md:26`). No tool produces DATA_GAP evidence, so DATA_QUALITY_ISSUE is
  never SUPPORTED.
* *Stream.* When the final event commits between the poll and the status read the
  stream ends without it; the reconnect brings it. The status read comes from a
  loaded ORM object which later queries do not refresh (`api/v1/diagnosis.py:203`),
  so a stream that saw the run active goes on until its sixty seconds are over
  (against the docstring, lines 159-160).
* *Harness.* No tool schema has `hypothesis_id`, by which a model names a
  hypothesis (`harness/investigation.py:308`), so a call that names one is refused.
  The UNKNOWN hypothesis is settled by its first call, which leaves the widened
  bundle unused (`harness/routing.py:94-95`). The script binds a probe without a
  target to the first open hypothesis (`harness/investigation.py:165`), so with
  several signals AUTHENTICATION_FAILURE and CALLBACK_FAILURE may lose theirs. A
  filter on an unknown dimension passes the schema, is raised by the data source
  and fails the run.

## 7. Not modelled

* Plain incidents and uploaded data sets: one insert. The race of two creations with
  one key is `DispatchedOnce`'s for evaluations; in `DiagnosisRun` a key already
  names one run.
* The clock of a task: its time limits end it, which `TaskDies`, `WorkerDies` and a
  task that fails stand for.
* Of the queries: filters, `top_k`, latency percentiles, switch patterns. Whether a
  threshold is right for real traffic is a matter for tests over data.
* Of the generator: times, amounts, regions, currencies and ids, which no modelled
  query reads, and the probabilities of its draws.
* Of the metrics: means, token sums and the Markdown report.
* Of the artifact store: sanitised paths and presigned URLs.
* Ontology: static tables; the parts other components read are in
  `EvidenceContract` and `Investigation`.
* Health, configuration, observability, the heartbeat key: no influence on a run.
* Migrations and scripts: the unique constraints they create are in `DiagnosisRun`.
* The front end, except the hook that follows a run's events.
* In the harness: the hooks that write artifacts and trace records, since no
  decision reads what they write; in the report pipeline, the trimming of the
  context, since a model's answer may cite any subset of the codes anyway.
