# Verification of the sales-operations pipeline

TLA+ models of the sales-operations intelligence pipeline, the TLC runs that
check them on small instances, and TLAPS proofs of the properties that matter
most for every value of the constants.

Each definition is a translation of the source; `PROJECT.json` maps it to the
lines it stands for. Below, `V012` is `src/database/migrations/V012__*.sql`, and
so on, and Python paths are relative to `src/analytics-service/analytics/`.

- [1. The system](#1-the-system)
- [2. Modules](#2-modules)
- [3. Runs](#3-runs)
- [4. Disagreements between code and text](#4-disagreements-between-code-and-text)
- [5. Proofs](#5-proofs)
- [6. Bounds, fairness, abstractions](#6-bounds-fairness-abstractions)
- [7. Not modelled](#7-not-modelled)
- [8. Plan](#8-plan)

## 1. The system

Ten n8n workflows drive stages that communicate through one PostgreSQL database.
SQL functions, triggers and constraints hold most of the rules; the Python
analytics service holds the rest and talks to the outside (a chat or webhook
provider, a remediation provider, a language model).

```
 mock API --> orders-ingestion --> fact_orders --> fx, kpi_daily       (stages 3, 4)
                                                       |
                                               anomaly_daily           (stage 5)
                                                       |
                                             anomaly_decisions         (stage 6)
                                          /            |          \
                             notifications      review_queue    anomaly_hypotheses
                                (stage 8)        (stage 8)          (stage 7)
                                                       |
                                             remediation_actions       (stage 9)
   maintenance (stage 10): recovers stale runs and actions, replays, purges
```

| Component | State | Operations | What is hard | What makes it correct |
|---|---|---|---|---|
| Ingestion (workflow `orders-ingestion`, V001, V004) | run ledger, staged rows, dead letters, facts | open run, fetch window, stage, validate, insert, finalise; error handler | overlapping runs, a run that dies between statements, late orders, a recovered run that finalises anyway | no order between two windows; every row processed, skipped or dead-lettered; counts balance |
| FX and KPI (V005, two workflows) | rates, USD amounts, `kpi_daily` and its completeness | sync rates, attach to facts, refresh days | late rates, refresh racing inserts | a complete day has no unconverted fact; a late rate re-opens the day |
| Detection (`runner.py`, `detector.py`, `baseline.py`, V006, V007) | `anomaly_daily` | choose a baseline, score, upsert | short history, zero spread | unscorable days say so; a rerun is a no-op |
| Decision (V008) | `anomaly_decisions`, reason codes | `decide_anomalies`: grade everything, upsert, rebuild codes | overlapping runs with different evidence; NULLs at tier boundaries | decision = grade of current evidence; worse evidence never grades lower; headline is among the codes |
| Hypotheses (`llm/`, V009) | `anomaly_hypotheses` | select, show evidence, call the model, judge its answer, store, regenerate | slow, failing model; a transaction open during the call; regeneration under foreign keys; aliases of model names | no regeneration loses an analysis; what was delivered stands; what stays actionable is explained |
| Routing and notification (`notifications/`, V010) | `notifications`, `notification_attempts` | read routable, claim, send, record; resend | overlapping runs, timeouts after delivery, kills between send and record, re-decided verdicts | history and counter agree, budget, one delivery |
| Review queue (`notifications/service.py`, V010, V011) | `review_queue`, `review_events` | queue, claim, release, resolve, dismiss | concurrent reviewers and routing runs, verdicts that move | unbroken history, final conclusions, escalations reach the queue |
| Approval (`remediation/service.py`, V011) | the above and `remediation_actions` | read review, approve, insert action in one transaction | several statements at READ COMMITTED, racing approvers | an action rests on exactly one approval, and records its conclusion |
| Remediation (`remediation/service.py`, V011, V012) | `remediation_actions`, `remediation_attempts` | authorise, reject, cancel, claim, call, record, recover, reconcile | a provider call with no lock across it, crashes, late answers, human judgement | at most one execution, exact ledger, uncertainty settled by a human |
| Operations (`operations/`, V012) | `operational_config`, `ingestion_replays`, events | recover stale runs, replay failed batches, purge staging, health | slow runs taken for dead ones, overlapping replays, a step that fails half-way, purges of provenance | dead letters survive, replays are numbered exactly, a summary claims no more than was done |
| Order system (`src/mock-api/`) | order book and anomaly log in memory, two files | generate, inject an anomaly, persist, bootstrap | kills between two files, ids after a restart, rounding | unique ids in the book; no order vanishes without a record |
| Dashboards (`src/metabase/`) | objects in Metabase, found by name | provision, edit, run again | stops at any call, lost replies, a catalogue that changes | no second copy; a finished run is current |
| Adapters (`api.py`, `cli.py`, workflows' report nodes) | none of their own | pass calls on | | |

How they interact. Stages share no memory: stage 6 overwrites a decision at any
time, and stages 7 to 9 hold foreign keys to it and snapshots of it, which
triggers compare with the live row on each write. Concurrency comes from
schedules that overlap with manual runs, from HTTP nodes that retry after a
180-second timeout while the first call is still working
(`notification-and-review-routing.json:118-122`, `remediation-execution.json:118-122`; the
nodes that analyse anomalies and retry notifications do the same),
from the maintenance workflow, which calls routing too, and from people using
the API. Connections are at READ COMMITTED, so each *statement* sees its own
snapshot: the grain of the models' actions is the statement wherever another
process could notice, and the transaction wherever row locks hide what lies
between.

The hazards of this code, each at its line with the properties that cover it,
are listed in `PROJECT.json`.

## 2. Modules

How they depend on one another:

```
Upstream <-- implemented by -- OrderBook            (mock order system)
   ^ EXTENDS
Ingestion --------------> Maintenance  (the dead letters ingestion leaves)
                                              Amounts <- Decision, Detector
Derivation EXTENDS Decision; MCDerivation joins it with Detector
Evidence <- Hypotheses          ReviewQueue          Notifications
RemediationLifecycle <-- implemented by -- Remediation
Catalogue <- MCProvision -> Provision
```

Stages that share only rows another stage may rewrite at any time are kept apart, and
that rewriting is an action of each: `Redecide` in `ReviewQueue`, `Notifications` and
`Hypotheses` is `Derivation`'s `DecidePersist` seen from outside.

### Remediation, RemediationLifecycle, Remediation_proofs

`Remediation` is stage 9's execution side with stage 10's recovery. One variable
for each column that decides anything (`status`, `attempt_count`,
`authorized_by`, `executed_by`), the attempt table, whether a claim is older than
`stale_remediation_timeout_minutes` (`overdue`), what each executor has in memory
between its transactions (`ex`), and what each reconciler has read (`rec`). Two
history variables exist for the properties only: `performed`, how often the
provider did the work of an attempt, and `verdict`, what a human said of it.

| Action | Code |
|---|---|
| `Propose`, `Authorize`, `Reject`, `Cancel` | `create_remediation_action`, `authorize_action`, `_close` |
| `Claim` | `_CLAIM_FOR_EXECUTION` and its commit |
| `ProviderReturns`, `ProviderRaises` | `provider.execute`, and the handler that books an exception as a permanent failure |
| `Record`, `RecordRefused` | attempt row and conditional `_FINISH_EXECUTION` in one transaction; the unique key refuses a late executor's |
| `Crash` | the process dies, or the recording transaction fails |
| `TimeoutPasses`, `RecoverStale` | `recover_stale_remediation`: all stale rows in one transaction |
| `ReconcileRead`, `ReconcileWrite`, `ReconcileFails` | `reconcile_remediation`, whose SELECT takes no lock |

Every status change goes through `GuardTransition`, the BEFORE UPDATE trigger.
Three constants say what is assumed of the environment and are each used both
ways: `PromptExecutors` (no executor outlives its claim), `TruthfulEvidence`
(whoever reconciles is right) and `SerialReconcile` (reconciliations of one action
do not overlap).

`RemediationLifecycle` is the abstract promise: a life of eight phases in which an
attempt is settled exactly once and an attempt nobody can account for waits for a
human. `ImplementsLifecycle` is the refinement, through `PhaseOf` and
`attemptCount`.

### ReviewQueue, ReviewQueue_proofs

Stage 8's queue and the approval that opens stage 9, with stage 6 re-deciding
underneath. A verdict is represented by its severity, from which V008 derives the
rest. A routing run reads (`RouteRead`) and later inserts row by row
(`RouteQueue`). Every review operation is one UPDATE (`Transition`) judged by two
triggers: the snapshot guard (`SnapshotHolds`) and the state machine (`Allowed`),
whose same-status branch writes no event. The approval is three statements:
`ApproveRead`, `ApproveUpdate` (the conditional
UPDATE, which holds the row lock, or rereads after losing), `ApproveInsert` (insert,
commit). An approver asks for one of the conclusions that may carry an approval
(`Approving`: `confirmed` or `requires_follow_up`); one that comes second records the
conclusion of the first, not the one it asked for (`ApprovalOf`). What an approver has written and
not committed is its state `"holding"`; the row changes at commit. The headline and the
reason codes an action copies are left out: no property is about them.

### Notifications, Notifications_proofs

Stage 8's delivery loop, any number of runs at once. `Read` is the query for one
recipient, `ClaimRow` the first transaction of `_deliver` with `_should_attempt`
applied to what it read, `Send` the provider (a retryable failure may have been
delivered), `InsertAttempt` the computation of the attempt number from committed
rows, `Finish` the second transaction, refused by the unique key or by the
snapshot guard. `RowFails` and `Crash` lose what was not committed. `told` records
what reached a recipient.

### Amounts, Decision, Detector, Derivation, Derivation_proofs

Stages 4 to 6. `Decision` holds the rules of `decide_anomalies()` as operators on
one `Evidence` record: `Tier`, `Damage`, `Severity`, `Routing`, `Headline`,
`Codes`, each a translation of the CASE that computes it, with NULL where SQL has
it, and `Accepted`, the CHECKs a decision row must pass. `Detector` holds the
analytics service's detector: `EligibleHistory` and `Baseline` (which days a day is
compared with), `RobustScale` and `RobustZ`, `Scored`, `Detect`.

`Derivation` runs both over tables that change:

| Variable | Table or process |
|---|---|
| `landed`, `rated` | `fact_orders`, and those of its rows with `exchange_rate_to_usd` |
| `kpi`, `anomaly` | `kpi_daily`, `anomaly_daily`, as functions from the days that have a row |
| `decision`, `reasons` | `anomaly_decisions` (evidence columns and verdict), `anomaly_decision_reasons` |
| `stage5` | status of the latest `anomaly-detector` run in the ledger |
| `detector`, `decider` | where each run is and what it holds: computed results, graded rows |

| Action | Code |
|---|---|
| `Land`, `AttachRate` | inserts and rate lookups of `orders-ingestion`, and the FX sync |
| `RefreshKpi` | `refresh_kpi_daily()`: DELETE and INSERT in one transaction |
| `DetectOpen`, `DetectFinalize` | the workflow's ledger row |
| `DetectRead`, `DetectWrite` | `run_detection()`: the one SELECT it computes from, and the upsert and commit that follow |
| `DecideOpen` | the readiness test; the workflow's abort is this action's being disabled |
| `DecideEvaluate` | the temporary table `decide_anomalies()` grades from |
| `DecidePersist` | upsert, delete of codes, insert of codes |
| `DetectFails`, `DecideFails` | any error or kill before the run's end |

The constant `Judge` is the detector. `Derivation` assumes only that its results
satisfy the CHECKs of `anomaly_daily` (`JudgeAssumption`), so what is proved holds
for any scoring; `MCDerivation` gives it `Detect`. A detector outside `Scheduled` is a
CLI or HTTP run, or n8n's own call that timed out and works on while n8n
has already closed its ledger row.

### Upstream, OrderBook, Edges_proofs

`Upstream` is what ingestion may expect of an order system: dated orders appear with ids
above every id in the book, lose or gain soundness, disappear, and a few faults take some
away or bring some back. `OrderBook` is the one the repository has, the mock API: the book,
the log of injected anomalies and the sequence in memory (`_orders`, `_anomalies`,
`_next_sequence`), the two files of its volume, and one lock around each mutation.

| Action | Code |
|---|---|
| `Load`, `GenerateHistory` | `bootstrap`, with and without a volume |
| `Generate` | `POST /admin/generate-orders`: `_build_order` per draw, the business date |
| `Inject` | `POST /admin/inject-anomaly`: `apply_revenue_drop`, `apply_refund_spike`, `apply_regional_drop`, with Python's rounding (`RoundTo`) |
| `WriteOrders`, `WriteAnomalies` | `_persist`: one atomic replacement after the other |
| `PersistFails`, `Killed` | a write raises (the mutation stays in memory); the process dies |

An id stands for its sequence number; the year in front of it is left out. `made`, `dropped` and
`unsaved` are history. `ImplementsUpstream` is the refinement, which hides the injections,
amounts and files and keeps what a reader of `GET /orders` sees.

### Ingestion, Ingestion_proofs

Stage 3 over `Upstream`. A slot's `run` is one n8n execution: its node, whether its ledger
row is open, its window, the batch it has staged. `OpenRun` is *Create Batch Context*, `Fetch`
the request and all that works on the run's own copy of the answer (staging, validation,
dead letters), `Insert` the fact insert with its ON CONFLICT, `Finalize` the last node,
which writes by `batch_id` whatever recovery has made of the row. `NodeFails` includes the error
workflow, `RunKilled` skips it, `RecoverStale` is `recover_stale_runs`.

### Maintenance, Maintenance_proofs

Stage 10 over what ingestion leaves: `rows` (staging), `facts`, `replays`. A maintenance
run goes through the seven steps of `run_maintenance`; an operator may ask for the purge or
the replay step alone (`AskPurge`, `AskReplay`). Replay is two actions: `ReplayReads` picks rows and attempt numbers as a
statement sees them, `ReplayCommits` copies, loads and records, and is refused as a whole
by the unique key on (row, attempt) or by a foreign key. `StageThreeRejects` and
`ReplayRejects` are the two sets of validation rules, by the classes that tell them apart.
A fact is the id of the row it was loaded from. `Settled` is the code's closing UPDATE, which
goes by order: what passes the rules is `processed` when its batch has brought the order in, whichever
of the batch's rows did (`Inserted`), and `skipped` when the order was there before.
A history variable in a run, `debt`, counts the changes made that its summary does not count.

### Evidence, Hypotheses, Hypotheses_proofs

Stage 7. `Evidence` is the evidence package: which numbers of a day are shown, which days
are its history, which names an answer may cite. `Hypotheses` is `run_analysis` and
`_analyse_one`: `Start` reads the eligible decisions once and takes the first `limit` of
them; per anomaly `Begin` opens a transaction, `Delete` removes what a regeneration
replaces (and holds its lock), `Ask` is the HTTP call with its one renegotiation of the response
format and all that is judged of the answer, `Save` inserts under the name the *provider* gave
and commits. `Failed` is the rollback. Notifications that refer to an analysis (`Notify`) make it
undeletable: the foreign key's SET NULL would break a CHECK (`Removable`). The review queue's key may refuse
too, since its SET NULL is an update that the snapshot guard judges; whether an item was queued with the
analysis is not tracked, any may have been. `ready` is what the workflow's "Stage 6 Ready?" asks: a
scheduled run starts only when the newest run of stage 6 is neither running nor failed, a manual one always.

### Catalogue, Provision, Edges_proofs

`Catalogue` is `dashboards.py` as data: cards, their views, the dashboards they are on, links. `Provision` is
`provision.py`'s `main` as a plan of items and a place in it, each looked for (`List`), created (`Create`, whose
reply may be lost) or updated (`Update`), and dashboards filled (`Fill`). `Stop` ends a run at
any call, `Edit` changes the catalogue between and during runs.

The other `MC*` modules give constants their values and add symmetry sets.

## 3. Runs

Passing runs:

| Run | Instance | Shows |
|---|---|---|
| `remediation_fencing` | 1 action, 3 executors, 2 reconcilers, wrong humans and slow executors allowed | `LedgerExact`, `ClaimsAreFenced`, `UncertaintyIsSettled`, `ExecutedIffEvidenced`: attempt numbers are gapless and fence off executors that lost their claim. `ClaimantSettles`: only the holder of the claim leaves `executing` for `executed` or `failed`. `ImplementsLifecycle`: the refinement |
| `remediation_once` | 2 actions, 2 executors, prompt executors, truthful evidence, serial reconciliation, fairness | `PerformedAtMostOnce` and `ClosedMeansUndone`, the point of the stage; nothing stays `executing`, and an authorised action converges without human help or waits for one |
| `review_safety` | 1 anomaly, 2 people, 2 routing runs, 2 action types, histories up to 4 | histories are unbroken, conclusions final, every action rests on one approval, by the person and with the conclusion it records, although racing approvers ask for different ones |
| `notify_overlap` | 2 overlapping runs, budget 3, 1 kill, fairness | counter, attempts and status agree, and `sent` is never a guess; the budget is overrun by at most one attempt per additional run; a standing delivery is repeated only by runs that overlapped it; `failed` is never a dead end; an escalation reaches the queue although it was notified before and stale reads are refused |
| `derive_decisions` | 4 days, 5 orders of which one comes late, and later still its rate; a scheduled and an ad hoc detection, full or incremental; 2 decision runs; fairness | `VerdictIsExplained`: a decision, its evidence and its codes are one verdict, whatever overlapped. `DetectionLooksOnlyBack`: no later and no incomplete day moves a result. `DecisionsConverge`: the schedule repairs every stale write |
| `order_book` | 3 orders in 2 regions, 2 injections of any kind, 1 kill or failed write anywhere | `IdsAreUniqueInTheBook`: unique ids within the book, reused across time only for orders that were removed or never saved. `NothingVanishesSilently`: every order ever made is on the volume or named as removed there. `OnlyRoundingIsRefused`: only rounding makes an order invalid, by at most half a minor unit for the refund and for each piece, per price cut. `ImplementsUpstream`: the refinement |
| `ingest` | a scheduled and a manual execution, 3 days, 1 order, 1 fault; fairness | `WindowsLeaveNoGap`: with overlapping executions that fail, die or are closed as stale while they work, no order falls between two windows. `OrdersLand`: every order that stays, is dated at most one day back and is within a cold start's reach, becomes a fact or a dead letter |
| `maintenance` | a maintenance run and an operator, 1 order with 3 things that may be wrong with it, batches of 2, replay budget 2, 4 rows | `ReplaysAreExact`: attempts on a row are numbered without gaps and within budget, batches are replayed as a whole, outcomes are true of the copy's order. `DeadLettersSurvive`: no purge, replay or recovery touches a failed row or a replay record. `OnlyCurrencyRulesDiffer`: the facts are what stage 3 would load, and, by replay, unsupported currencies. `SummaryIsHonest`: a summary claims no change that was not made, a success leaves none out |
| `hypotheses` | a scheduled and a manual run, 2 anomalies, 1 kill or re-decision, an aliased model name; fairness | `ExplainedStaysExplained`: no regeneration that fails, dies or loses a race takes an analysis away. `DeliveredReasonsStand`: what a notification was sent with is never replaced. `SuccessMeansExplained`: success leaves nothing unexplained. `ExplanationConverges`: what stays actionable is explained in the end |
| `provision` | the whole catalogue, 3 runs, 2 edits | `NoSecondCopy`, `FinishedMeansCurrent`: stopped anywhere, with a reply lost, and run again after edits, the provisioner creates nothing twice, and a finished run leaves every dashboard as it is specified |

What is assumed of the environment bounds what a run shows: `PerformedAtMostOnce`
does not hold with an executor that outlives the timeout and a human who wrongly
states that nothing was done, and the code does not claim it.

## 4. Disagreements between code and text

Two are runs that TLC ends with a counterexample; `PROJECT.json` quotes the text.

| Run | Property | Shortest story |
|---|---|---|
| `remediation_race` | `PerformedAtMostOnce` | Two reconciliations of one action both read `execution_unknown`; after the first writes `failed`, an executor claims and does the work; the second writes `failed` over `executing`; another executor does the work again |
| `replay_unbounded` | `ReplayIsBounded` | A replayed row that fails again is a new failed row with a budget of its own: one payload is replayed without end |

Others were met while modelling. The models contain the behaviour; the properties are
stated around it.

- *A claim can be stolen.* "pending -> in_review" (`notifications/service.py:371`), but the
  UPDATE has no status condition: a second claim of a claimed item succeeds, and no event says so.
- *A stale review is stuck.* Once stage 6 has changed the verdict of a claimed item, the
  snapshot guard (V010:379) refuses every write to it, a release included, which V010:455-456
  says must not happen.
- *"Succeeded" does not mean a fact.* "succeeded = the replay produced a fact row" (V012:399), but the
  closing UPDATE (V012:714-725) goes by order: of two copies of one order in a replayed batch one is
  loaded and both have succeeded, and a copy dated outside the calendar becomes `processed` beside one
  that loads, without meeting the foreign key. `OutcomeIsTrue` and `OnlyCurrencyRulesDiffer` are stated around it.
- *An approval may mix two verdicts.* Severity, headline and reason codes of an action
  come from three statements with a snapshot each (`remediation/service.py:112-116`), while V011:382
  speaks of the verdict "as it stood when a human approved it". The model keeps the severity
  only.
- *Somebody may be told twice.* Two overlapping runs both read `pending` and both deliver;
  `RepeatsNeedOverlap` says that nothing else causes it.
- *`sent` may become `failed` without a resend*, by a run that read the row before
  another delivered it; `repository.py:389-390` names resends only.
- *`authorize_action` may answer `changed: True`* when its UPDATE matched no row
  (`remediation/service.py:268-270`).
- *One bad date blocks replay.* A failed row dated outside `dim_date` passes the validation
  of a replay, is refused by the foreign key of `fact_orders` (V001:289), and rolls its whole batch
  back without spending an attempt, every time; the step ends there, so later
  candidates wait for good. Replay also omits the test for supported currencies.
- *A maintenance summary under-reports* when a step raises after it has changed something.
- *An alias of a model name defeats "already analysed".* The analysis is stored under the name
  the provider answered with and looked for under the configured one: each run asks
  again, and a regeneration deletes nothing. With `limit`, later dates may then starve.
- *An analysis a notification refers to cannot be regenerated.* The key says SET NULL, a
  CHECK forbids the NULL (V010), so the deletion always fails.
- *A model's words may stand above the line.* The card `inv_evidence` reads a view whose fourth layer
  holds `llm_summary` and `llm_primary_hypothesis` (V013:988-991), and is shown
  above the panel that says "Below this line: language-model output"
  (`dashboards.py:1134-1139`); tests look for column names in the SQL of cards only.
- *Order ids come again.* After a `regional_drop` removed the newest orders and the
  service restarted, their ids are given to new orders (`store.py`'s `_compute_next_sequence`), which
  `fact_orders` then takes for duplicates.
- *A revenue drop may over-refund.* Price and refund are rounded apart
  (`anomalies.py:113-124`); an order of several units may end with a refund above its worth,
  which ingestion dead-letters. The drift has no bound of one unit: each further drop may
  add half a minor unit per piece and half for the refund, which is what `OnlyRoundingIsRefused` states.
- *A failed persist leaves memory and disk apart* until the next one that succeeds.
- *The provisioner is safe to run again* (`provision.py:4-7`), but not to run twice at once:
  nothing in Metabase keeps names unique. A renamed card leaves the old one behind.

## 5. Proofs

Eight modules hold theorems, all for arbitrary sets and budgets.

`Remediation_proofs` proves, for any sets of actions, executors, humans and
reconcilers and any positive retry budget, and under the single environment
assumption `SerialReconcile` (executors may be arbitrarily slow, humans wrong):
`TypeCorrect`, `LedgerIsExact`, `ClaimsFenced`, `UncertaintySettled`,
`ExecutedHasEvidence`, `OnlyClaimantSettles` and `Refinement`.

Without `SerialReconcile` they are false, for the reason run `remediation_race`
shows: the assumption is where the code's missing row lock enters the proofs.

They rest on one inductive invariant, `IInv` (theorem `Inductive`):

- `TypeOK`, `LedgerExact`, `ClaimsAreFenced`, `UncertaintyIsSettled`,
  `ExecutedIffEvidenced`, which the run checks;
- `ExecutorMemory`: an executor's attempt number is within reach of the action's
  counter. Without it a late `Record` could write a row beyond the counter, and
  `LedgerExact` is not inductive;
- `BudgetLeft`: an action that is `executing` has an attempt left, so that
  recovery, which tests no budget, stays within it;
- `ReadStillTrue`: what a reconciler read is still so when it writes. This is
  what `SerialReconcile` buys;
- `VerdictsAreRecorded`: a judgement is always about a counted attempt.

The proof that a step preserves `IInv` has one lemma per action; within one, one
step per conjunct it can disturb. The refinement maps each action to an abstract
step or a stutter, using `IInv` to know that a settled attempt is the current one.

The same module proves the guarantee of the stage, `DoneAtMostOnce` and
`ClosedIsUndone`, under all three environment assumptions. Its invariant `Once` adds to `IInv`
what the three together give: `ClaimsAreCurrent` (whoever is in flight holds the current
claim, which is not overdue, and has not yet done what it has not reported),
`WorkIsAccounted` (work is done under the number of the last attempt or of the one that
executes, and never under an attempt recorded or judged as not done) and `EvidenceIsTrue`
(nor is a human about to say so of work that is done). `PromptExecutors` enters at
`TimeoutPasses`, `TruthfulEvidence` at `ReconcileRead`. That `Next` preserves both is proved step
by step, as for `IInv`.

`ReviewQueue_proofs` proves `TypeCorrect`, `HistoryIsUnbroken`, `ActionsAreApproved`,
`ApprovalsHaveActions` and `ConclusionsStand`, from `ConstantsAssumption` alone. The invariant adds
to these `TransactionsStand` (what an approver's open transaction relies on stays so, and
two do not hold one row), `InReviewIsHeld` (an item in review has a holder, so every event
that leaves review has a name) and `ApprovedRows` (an approved row is what the approval wrote).

`Notifications_proofs` proves `TypeCorrect`, `LedgerIsExact`, `StatusTellsTheLastOutcome`,
`OverrunIsBounded` and `RepeatsAreOverlaps`. `RunsKeepUp` says that no run's memory is ahead of the history;
the two bounds need `BudgetLeft` and `SeriesLeft`, which count the runs that are in
flight for a notification: each may spend one more attempt, so an inductive bound holds of
attempts and runs in flight together.

`Ingestion_proofs` proves `TypeCorrect` and `NoGap`: whatever order system keeps to `Upstream`,
however many executions overlap. `RunsCover` says for each node of an execution which orders it
has made sure of; `BookIsMade` and `WindowsArePast` say that an order made after a window's end
was not that window's to find. A window with no successful run before it begins `ColdStart` days back, so the
property is about orders no older than that. That the mock order system is such
a system is `Refinement` of `Edges_proofs`.

`Hypotheses_proofs` proves `TypeCorrect`, `ReasonsStand`, `SuccessExplains` and `RegenerationKeeps`,
for any number of overlapping runs, any answers of the model and any name it gives itself.
`LocksStand` says what the transaction that deleted an analysis protects until it ends: the row others still
see is the one it deleted, no notification comes to refer to it, and nobody else has deleted it. Without
it a commit could replace another run's analysis, or one delivered since. `TakenUp` says that what a run
took up, and has not failed on, is explained or still to come; at the end nothing is to come.

`Derivation_proofs` proves of the grading rules, for all thresholds and any evidence:
`HeadlineIsCited`, `DecisionsAreAccepted` (no evidence yields a row that a CHECK
refuses), `UnmeasuredIsEscalated` (what cannot be measured goes to a human),
`CodesImplySeverity` and `WorseNeverMilder`. The last compares two flagged days against
the same expected revenue; its one arithmetical fact is that `PctAtLeast` is monotone
in the deviation. From `JudgeAssumption` alone it proves `VerdictsAreExplained`, for
any orders and any overlapping runs. The invariant adds to what is stored what is
in flight: a detector holds only results, and a decision run only rows, as good as
the tables must be, because they are written later without being looked at again.
The lemmas about the rules then supply the headline. `DetectorLooksOnlyBack` is about the one `Judge`
there is, the repository's detector: for any two sets of KPI rows that agree on the day judged and
on the complete days before it, it makes the same of the day.

`Maintenance_proofs` proves `TypeCorrect`, `ReplaysExact`, `ReplayLoadsCurrenciesOnly`,
`SummariesAreHonest` and `DeadLettersStay`, for any number of operators and
maintenance runs, which may overlap, fail and be killed. A replay reads in one statement
and writes in later ones, so most of the invariant is about what stays true between:

- `PicksStand`: what a run has picked are dead letters, a batch as a whole, and the attempt it is about to
  write is the next one or one that somebody else has used since, never one beyond it. The unique key
  refuses the second case, so attempts stay gapless;
- `AttemptsAreNumbered`, `BatchesStayTogether`, `ReplaysAreRecorded`: the three parts of `ReplaysAreExact`;
- `BatchesAreNumbered`: a batch is numbered after its first row, so a copy's batch is a new one;
- `RunsAreOrderly`: a run has picks only in its replay step, and its `debt`, the changes it has not reported yet, is
  what its replay has staged unless a step of it has failed.

- `FactsAreLoaded`: the row of a fact was processed, and may have been purged since: no dead letter is
  a fact. An outcome, once true, stays so because facts and the orders and batches of rows stay.

`OnlyCurrencyRulesDiffer` is inductive beside these: what a load adds to the facts has passed the rules
of that load (`NewFactsAreSound`).

`Edges_proofs` holds the proofs about the two programs at the system's edges, which share nothing.
Of `OrderBook` it proves `TypeCorrect`, `NothingVanishes`, `IdsAreUnique`, `OnlyRounding`
and `Refinement` (`BookSpec => ImplementsUpstream`), for any days, regions, quantities, prices and
severities and any number of injections, restarts and faults. The invariant:

- `PhasesAreOrderly`, `LogIsKept`: which file is behind memory while a persist is under way; the log on the volume
  is how the log in memory begins, although a failed write may have left it shorter;
- `BooksAreBooks`: memory and volume each hold orders that were made, each once, with an id of its own. A
  restart takes the one for the other, so it is of both;
- `NothingIsLost`: an order that no fault has put in doubt is in the book or on record as removed, in memory
  always, on the volume whenever no persist is under way. Between the two files it may be on neither;
- `IdsAreFresh`: the sequence is above every id in the book, and of two orders with one id the older has
  left the book or is in doubt. Nothing says so of ids that are no longer in the book: they come again;
- `CutsAreOnRecord`: an order's refund exceeds its worth by half a unit for itself and for each piece, per entry
  of the log or cut whose entry was lost. Lost entries are bounded by the faults, one each, and
  one more while a persist is under way.

`OnlyRoundingIsRefused` has its present form from this proof: an earlier one, a drift of less than one minor unit per piece, held
on one injection and does not on two. In the refinement `GenerateHistory` and `Generate` are
`Upstream`'s new orders, an injection alters or removes, a fault or a kill lets some of the book
lapse or return, and loading and writing change nothing a reader of `GET /orders` sees.

Of `Provision` it proves `NothingTwice` and `DoneMeansCurrent`, for any catalogue whose keys and names are unique
(`NamesAssumption`; TLC evaluates it of the real one, and a test checks it of the cards), any number of runs, any edits.
`PlanShape` and `PlanOrder` say what is needed of the plan: one collection before anything is put in it, one
listing of the cards before the first card, all dashboards before the first is filled. The invariant:

- `ThingsAreOnce`: a kind and a name, and an id, is taken once; `ParentsStand`: cards and dashboards
  are in the one collection, or a listing by collection would miss what an earlier run left;
- `IdsStand`: what a run knows is there under the name it was planned by, and it knows all it has been at;
- `ListingStands`: what has been listed holds everything that the item at hand, and for cards every card
  still ahead, may find, although the run has created some since: this is where a card planned twice under one
  name would break the proof;
- `CardsAreCurrent`, `BoardsAreFilled`: what a run leaves behind it is as it specifies it.

Each safety invariant, action property and refinement that a passing run checks is so stated by a theorem. Left to TLC are the properties under fairness
(`NothingStaysExecuting`, `AuthorizedConverges`, `EscalationIsQueued`, `DeliveryConverges`,
`DecisionsConverge`, `OrdersLand`, `ExplanationConverges`), which TLAPS does not reach. The proofs take the bounds on counters
(`MaxStarts`, `MaxOrders`, `MaxFaults` and the like) for any numbers.

## 6. Bounds, fairness, abstractions

*Bounds.* Retry budgets are 2 or 3 (the code's is 3): enough for a first failure, a
retry and, at the boundary, an attempt that must not happen. Two of any actor are
enough for each race found here; three executors in `remediation_fencing` let one
be late by two rounds. `MaxEvents` caps a
review's history by refusing new claims, `MaxNumber` leaves a notification alone
once its counter has reached it (without resends it is above what overlapping runs can reach), `MaxCrashes` caps kills. `Enough` in `Remediation` stops
counting executions at two.

`derive_decisions`: four days are the fewest on which each baseline occurs (day 4 falls
back to the day type, day 3 has its own weekday, days 1 and 2 lack history), with a
shortfall on day 3 and a spike on day 4: decisions of every severity occur. The late
order lands on a day that later baselines contain and turns day 3 from minor to
major. Windows of 2 and 3 observations
(the code's: 6 to 8 and 10 to 20) and thresholds of tens of dollars scale the code's down
together with the amounts. Two detections and two decision runs give every
overlap of one stale writer with one fresh one.

`order_book`: three orders, two injections and one fault are enough for an id to be dropped,
a restart to reuse it, a persist to be cut short before or after either file, and a price to be
cut twice; one severity (30 %), whose rounding pushes a refund above an order's worth, and no back-dating of generated
orders, which the proofs do not need either, keep the two injections within reach. `ingest`: one order (two multiply the
states beyond use under liveness; `NoGap` is the proof for any number) and three days, so that the clock passes both ends of
a window; a first window reaches 2 days back (`ColdStart`, 180 in the workflow). `maintenance`: budget 2 and four rows let a row be replayed twice, or a copy be
replayed; batches of 2 let a copy succeed by its neighbour's row, or keep it from being loaded; and a row replayed after
a later batch has brought its order in is a duplicate. `hypotheses`: the second anomaly has no KPI row
and no measured column, the first an incomplete day in its history; one kill or one change of verdict.
`provision`: the catalogue is the real one; three runs and two edits let a stopped
run's leftovers be found by one that reads an edited catalogue.

*Fairness.* Remediation: the schedule runs the executor workflow and maintenance
again and again, clocks advance, a live executor finishes its call; nothing makes
a human act and nothing prevents crashes. Notifications: runs start for every recipient
again and again (strong fairness of `Read`, because a run may be busy with the
other recipients) and a run goes on until it ends; errors need not happen, and
not every send is lost to one (strong fairness of `Send`). The routing workflow's "Stage 6 Ready?" gate
is not in the model: that runs get past it again and again is part of the assumption on `Read`. In these modules
stage 6 is under no fairness; liveness is stated for verdicts that settle. Derivation:
the KPI workflow, the daily detection and the daily decision run come round again
(`Scheduled`), and a run that is tried again and again succeeds at last (strong
fairness of its steps); orders, rates and ad hoc runs are owed by nobody. Ingestion: the same for the
hourly execution, the clock and maintenance; manual executions are owed nothing. Hypotheses: a stage 6
run that is open or has failed is followed by one that succeeds, the schedule, which starts again and again, finds it
so at last (strong fairness of `StartScheduled`, which is disabled while stage 6 is not ready), every live run works on, and the model is not wrong about
one anomaly for ever (strong fairness of a good answer).

*Abstractions.* Outside `Derivation` a verdict is a severity. Timestamps, notes, payloads, wording and
latencies are left out. Time is a
flag that may be raised, or in ingestion a day. In `Detector`, money is whole dollars, z-scores are tenths and
scales ten-thousandths, truncated, where the code has floats: thresholds are
compared exactly at that grain. `OrderBook` has minor units and exact percentages. One detector version, one decision version and one channel exist.
What is random or drawn (orders, which orders an injection hits, a model's answer) is any choice.
Databases do not lose committed data. Deadlock is not
checked where the system may rest: when every action is closed, or every item
concluded, or the bounds are spent, nothing need happen.

## 7. Not modelled

- *Migrations and bootstrap scripts*: one-shot, run by an operator. *Presentation views*: they keep no
  state and change none; which card reads which view is in `Catalogue`.
- *Reports, configuration and the command line*: the endpoints that change
  state are actions of the modules; the others read, validate and format.
- *Audit rows* (`remediation_events`, `operational_events`): written in the transaction of
  the change they describe, read by nothing that decides.
- *Prompt wording, message content, floating-point rounding in the statistics*: data, abstracted.
- *Which exchange rate applies to a day* (V005): only that rates come late.
- *The seasonal weights of the generator*: any draw is possible.

## 8. Plan

Done, in this order: `Remediation` with `RemediationLifecycle`; `ReviewQueue`; `Notifications`;
`Decision`, `Detector` and `Derivation`; `Upstream`, `OrderBook` and `Ingestion`; `Maintenance`; `Evidence` and
`Hypotheses`; `Catalogue` and `Provision`; proofs of all of them. What is left, by importance:

1. `Fx` (V005, `fx-rate-sync.json`): which rate applies to a day, carried forward over
   how many days, and what a corrected rate leaves behind; then `Derivation` with it in place of `AttachRate`.
2. The composition of `Maintenance` with `Ingestion` while a run is open: today each has the
   other's effect as an action of its own. Likewise `Ingestion` over `OrderBook` itself: the refinement and
   `NoGap` give the result, but no module states the two together.
3. What the decision rules and the evidence package promise beyond the theorems there are: that severity follows the
   thresholds, and that an analysis cites only what it was shown.
