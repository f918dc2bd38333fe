# oracle-qa in TLA+

A verification project for `oracle-qa`, the service that watches the SLA-Escrow
program for deliveries, judges them against the SLA the buyer agreed to, and
settles the escrow on chain. The modules are translated from the Rust sources
and the SQL migration; `PROJECT.json` maps every definition to its lines.

Paths below are relative to the repository.

## 1. The system

One process runs three long-lived tasks and an HTTP server. They meet in a
bounded channel, in a few maps behind locks, in PostgreSQL, and on the chain.

| Part | State | Operations | Module |
| --- | --- | --- | --- |
| Chain monitor, `src/chain.rs` `monitor_deliveries` | websocket subscription, `RuntimeHealth.last_seen_slot` | notification → note the slot → `fetch_delivery_job` → send to the channel; reconnect | `DeliveryWatch` |
| Startup backfill, `backfill_missed_deliveries` | scan position, `oracle_parameters["chain.last_seen_slot"]` | read the watermark, walk pages of signatures newest first, send jobs, write the watermark | `DeliveryWatch` |
| Delivery matching, `fetch_delivery_job` | none | choose the payment a transaction is a job for | `DeliveryMatch` |
| Evaluation worker, `src/main.rs` | channel, `processed_mem`, `attempts_mem` | dedupe, record, run the pipeline under a timeout, record the end, dead-letter | `Settlement` |
| Pipeline, `src/pipeline.rs` | none of its own | eligibility, documents, evaluation, settlement | `Settlement` as steps of a task, `Pipeline` in detail |
| Evidence fetcher, `fetch_evidence` | none | mirrors × retries, hash check, parse | `EvidenceFetch` |
| Settler, `src/settler.rs` | the transaction in flight | `is_eligible`, `settle` | `Settlement`, `Escrow` |
| Ledger, `src/db.rs`, `migrations/init.sql` | `oracle_jobs`, `oracle_verdicts`, `oracle_lifecycle_events` | `record_*`, `is_terminal`, `attempt_count` | `Ledger` |
| Manual evaluation, `src/server.rs` `manual_evaluate` | the request | read the payment, run the same pipeline, record | `Settlement` |
| Authorization and rate limiter, `src/server.rs` `authorize_manual_evaluate` | queue of time stamps | admit or refuse | `Admission` |
| Evaluator, `src/evaluator.rs` | none | list of checks → verdict and reason | `Evaluator` |
| Health, stats and metrics | `RuntimeHealth`, counters | read-only | `DeliveryWatch` has `websocket_connected` and `last_seen_slot` |
| Configuration and start-up, `src/config.rs`, `src/main.rs` | constants | parse the environment, spawn the tasks | token variables in `Admission`; the rest are constants |
| SLA-Escrow program and cluster (external) | payment accounts, transactions in flight | `SubmitDelivery`, `ConfirmOracle`, expiry, rotation of the authority | `Escrow` |

Interactions: monitor and backfill both send into the channel and both write
`last_seen_slot`; the worker reads the channel, writes the ledger, submits to
the chain and persists `last_seen_slot` as the watermark of the next backfill;
manual handlers bypass the channel and the dedupe and share ledger and chain
with the worker. Another process with the same key and ledger shares both.

### What is hard about it

* Every step of a job is an await: the chain, a handler, a second process or a
  crash may come between any two.
* The pipeline runs under `tokio::time::timeout`. Dropping it does not recall a
  transaction that was sent: an attempt recorded as failed may settle later.
* No two ledger statements share a transaction, and each may fail, be executed
  although the client saw an error, or be executed after the client has given it
  up and gone on to other statements of the same row.
* `is_eligible` reads the chain long before the transaction lands, and may use
  the wall clock.
* The watermark, the lookback and the page cursor together decide which
  deliveries a restart finds.
* The channel is bounded: who sends, waits, holding a job that may be settled by
  then, and holding up the notice that the websocket is gone.
* The rate limiter takes its time stamp before it waits for its lock.
* The order of the checks decides the reason written on chain.

The full list, at its lines, is `hazards` in `PROJECT.json`.

### What makes each part correct

* Settlement: one verdict per payment, the one its documents call for; the
  ledger never says of a settlement what the chain does not say; finished rows
  stay finished; no row says that it is worked on when nobody does; no job is
  dead-lettered before its budget is spent; the worker always comes back to its
  channel.
* Ledger: a signature is never lost; a `settled` event has its verdict row.
* Delivery watch: a scan leaves nothing out between watermark and lookback and
  comes to an end; what was notified is kept until it is a job; the watermark is
  not taken back behind what earlier runs have covered; what lies below the
  watermark was processed (it was not: see section 6).
* Delivery match: a job matches the events of its transaction; strict mode asks
  for more, never for less; of several deliveries it is decided which is taken.
* Evidence: only committed bytes are evaluated; no mirror is given up early;
  the fetch ends.
* Evaluator and pipeline: the verdict and the reason submitted are those of the
  rule set in `spec/api-quality-v1/NORMATIVE.md`, section 6.
* Admission: only who brings the operator's token is let through; the window is
  kept up to the wait for the lock; nobody is refused while budget is left.

## 2. Modules

```
EscrowOracle            what users are promised (abstract)
   ^  refines
Settlement  ----------> Ledger ----> Escrow (external)
   ^      ^ EXTENDS
   |      Settlement_proof
MCSettlement

Pipeline -------------> EvidenceFetch <---- EvidenceFetch_proof
   ^    \-------------> Evaluator     <---- Evaluator_proof
   |      ^
MCPipeline  Pipeline_proof

DeliveryWatch <---- DeliveryWatch_proof
DeliveryMatch <---- DeliveryMatch_proof, MCDeliveryMatch

SlidingWindow           what the limiter promises (abstract)
   ^  refines
Admission     <---- Admission_proof, MCAdmission
```

`X_proof` holds the theorems about `X`, `MCX` its instances for TLC.

**`Escrow`** (external) has the payment accounts as the oracle reads them and
the transactions submitted and not yet processed. `Land` resolves a payment, at
most once, under the conditions the comments in `settler.rs` attribute to the
program; `Drop` stands for rejection and expired blockhashes. A transaction is
identified by payment, verdict and blockhash because signing is deterministic.
`ReadsAsJob` is `read_payment`, `Eligible` is `is_eligible`.

**`Ledger`** has one row of each table per payment. `Record` is an upsert
followed by an event, two committed statements; `Outcomes` are the ways the pair
can end: both done (`ok`), both done and the answer lost (`unanswered`), the
first only (`partial`), neither (`lost`), and the first not yet (`late`): the
client timed out, and the server runs the statement at any later time, or never
(`RunLate`). With `FaultyDb = FALSE` all is `ok`. `UpsertSettled` and
`InsertVerdict` are the two parts of `record_settled`.

**`Settlement`** has the tasks. `pc[t]` is the call task `t` makes next, `job`,
`tx` and `attempt` its locals, `queue`, `processed` and `attemptsMem` the
worker's channel and maps. `PipelineFails` stands for every error of the
pipeline and for the timeout, at any of its calls; the transaction stays in
`sent`. `Disconnect` drops a handler, `Crash` a process with all its tasks.

**`EscrowOracle`** is the promise: a payment is resolved once, as its documents
call for, and only then may that verdict be published. `ImplementsEscrowOracle`
maps `resolution` to `resolvedBy` and `published` to the verdict rows.

**`DeliveryWatch`** has the log of transactions, the subscription with what it
holds, the monitor, the backfill with its scan record, the channel and the
persisted watermark. A slot may hold several transactions. Fetching a job and
sending it are two steps on both sides (`Fetch` and `Send`, `ScanEntry` and
`SendFound`): between them the sender waits for room. `subscribed` is whether the
websocket is up, `connected` what the process believes: `StreamEnds` corrects it
once the stream has been worked off. The worker is reduced to taking, settling
and failing a job. `top` and `cut` of the scan, `sent` and `processed` are
history.

**`DeliveryMatch`** is one call of `fetch_delivery_job`: which payments the
instructions name (`NamesPayment`: partially decoded and compiled instructions
of the program with enough accounts; those the node decoded itself are skipped),
which events the logs carry, then the two loops over candidates and accounts,
one read of the chain per step. Payments are numbered in the order of their
keys, which is the order candidates are read in.

**`EvidenceFetch`** is the two fetches of one pipeline run. What a mirror holds
is fixed; whether a request is answered is not.

**`Evaluator`** has the list of checks of `evaluate_impl` in the order they are
pushed, the defaults of `types.rs`, and the reason of the first failure
(`Evaluate`), next to the rule set of `NORMATIVE.md`, section 6 (`Rules`). A
response body is what the checks ask of it: the keys of the object, whether it
conforms to the SLA's schema, its length. Whether a schema compiles is an input.

**`Pipeline`** puts the two together: once both artifacts are there, `Judge`
parses, evaluates and makes the arguments of `ConfirmOracle`, with no await
between them. To `Settlement` all of this is `FetchEvidence` and `Approve`.

**`Admission`** is `authorize_manual_evaluate`: the token from either header
against the token from either variable, the time stamp, the wait for the lock,
and the sliding window. A client may go away while it waits.

**`SlidingWindow`** is the promise of the limiter, without queue, stamps or lock:
at one moment a request is let in, refused or turned away. It is let in only if
fewer than `Limit` were let in within `Window - Slack`, and refused only if
`Limit` were within `Window + Slack`. `ImplementsSlidingWindow` maps `Slack` to
`MaxWait`, `answer` to what `phase` has told each request so far, and `admitted`
to the admissions with their times; what the stamps in the queue are is hidden.

## 3. Runs

All modules set `CHECK_DEADLOCK FALSE`: a service with nothing to do waits, and
a fetch or a match that is over stops. Every property has a mutant of the
mapped code (a `Bug...` operator next to the definition it replaces) under which
TLC finds it violated.

| Run | Instance | Checks |
| --- | --- | --- |
| `settlement_worker` | 1 worker, 1 payment, 2 blockhashes, failing ledger with a late statement, lagging clock, crashes | `IInv` (the inductive invariant), `NoRedundantSubmit`, `ImplementsEscrowOracle` |
| `settlement_manual` | 1 worker and 1 handler on 1 payment, failing ledger, disconnects, crashes | `LedgerAgreesWithChain`, `AuditTrail`, `DeadLetterOnlyAfterBudget`, `SignatureNeverLost` |
| `settlement_memory` | no ledger, 2 payments, channel of 2 | `TypeOK`, `FailedJobsAreReleased`, `WorkerReturns` |
| `settlement_liveness` | sound ledger, no crash, 2 payments of which one never parses, 2 blockhashes, channel of 2 | `TerminalIsFinal`, `QueuedJobsAreAccounted`, `NoRowIsStranded` |
| `watch_pages` | log of 4 deliveries, lookback 3 in pages of 2, channel of 1, RPC and ledger failures, crashes | `TypeOK`, `BackfillCovers`, `SeenSlotNeverRegresses`, `WatermarkFallsOnlyByBackfill` |
| `watch_liveness` | log of 3 of any kind, lookback 2 in pages of 1, channel of 1, websocket losses | `ScanEnds`, `ScanStepsRunOut`, `ScanLeavesNoGap`, `NotifiedDeliveriesAreSent`, `NotifiedIsKept`, `OutageIsReported` |
| `delivery_match` | 3 payments, 7 instructions and 4 log lines in any combination, both modes | `TypeOK`, `JobMatchesEvents`, `StrictJobIsInstructed`, `DeliveryIsFound`, `FirstDeliveryWins` |
| `pipeline` | 2 mirrors, 2 attempts each, any contents; then SLA documents and evidence in which every check passes, fails or is left out, numbers at their limits, both modes | `TypeOK`, `OnlyCommittedIsEvaluated`, `GivesUpOnlyAfterAll`, `VerdictFollowsRules`, `FetchEnds` |
| `rate_limiter` | 4 requests with any headers, any setting of the variables, limit 2 in a window of 2, waits of up to 1 | `TypeOK`, `RateIsBounded`, `AdmittedIsAuthorized`, `RefusalsAreEarned`, `ImplementsSlidingWindow` |
| `finding_*` | see section 6 | one violated claim each |

### Bounds

* `MaxAttempts` bounds how often a payment is noticed again. It equals
  `DeadLetterMaxAttempts` (2): a failed first attempt, a retry, a dead letter
  and what follows it all occur.
* The runs have one worker; what two processes with one key and one ledger do to
  each other is covered by the theorems, which allow any number of workers
  (`Agreement`, `NoRowStranded`, `Refinement` and others).
* Two blockhashes allow a retry to send the same transaction or another one.
* One payment suffices where the property is about one row and the tasks that
  fight over it; the runs about the channel and the dedupe set have two.
* `MaxLog` of 4 with pages of 2 and a lookback of 3 gives a full page, a page
  cut by the lookback, entries beyond it, and entries that land during the scan
  and after a restart.
* `MaxLate` bounds the statements the server has yet to run. One is enough to
  come after any later statement of its row; it occurs in `settlement_worker`.
  The other runs have none (0), for size; the theorems allow any number.
* Two mirrors and two attempts give an earlier and a later mirror, each answering
  at once, after a fault, or never; the proofs have any number. Three payments
  give a candidate that fails, one that is passed over and one that is found.
* `MCPipeline`'s documents have every check left out, passed and failed, and
  numbers at, below and above their limits, given and by default.
* In `Admission`, `MaxTime` (5) ends the clock after two windows and a wait;
  `MaxWait` (1) is the longest wait for the lock and, unlike the other bounds,
  part of the properties: `RateIsBounded` says that the wait, and nothing else,
  may shorten the window. Four requests fill the limit of 2 twice. Requests are
  interchangeable, and no property of that run is a liveness property, so
  symmetry is sound.

### Fairness

`Settlement!Fairness` is weak fairness of the steps of each worker and each
handler. It rests on bounds in the code: the pipeline ends at
`evaluation_timeout_ms` at the latest, and each statement at `QUERY_TIMEOUT`
after at most `WAIT`, `CREATE` and `RECYCLE` for a connection (`db.rs:41-44`).
Nothing is assumed of the chain: no transaction need land, none need be dropped,
no delivery need come. `DeliveryWatch!Fairness` is weak fairness of monitor,
backfill and worker, which need their RPC calls to end; the client bounds them.
`Subscribe` is not fair: an endpoint may refuse every connection for ever.
`Pipeline` needs requests to end: `main.rs:69` gives each 60 s. `TimeOut` there
is not fair, so `FetchEnds` holds by the loops.

## 4. Proofs

Seven modules hold theorems. Each holds for every value of the constants that
meets the assumption named in its module.

### `Settlement_proof`

For every set of payments, workers and handlers, every capacity and budget, with
and without ledger, failing and late statements, lagging clock and crashes. The
assumption is `SettlementAssumption`: `None` is no payment, transaction or
Boolean, workers and handlers are different tasks, each handler is hosted by a
worker's process, and the constants have their types.

| Theorem | States |
| --- | --- |
| `TypeCorrectness`, `TypesHold` | `[]TypeInv`, `[]TypeOK`: the types, the bound of the channel, and the locals a busy task has |
| `Agreement` | `[]LedgerAgreesWithChain` |
| `SignatureKept` | `SignatureNeverLost` |
| `AuditTrailHolds` | `[]AuditTrail` |
| `DeadLetterBudget` | `[]DeadLetterOnlyAfterBudget` |
| `InvariantHolds` | `[]IInv`, the invariant `settlement_worker` checks |
| `Refinement` | `ImplementsEscrowOracle` |
| `FailedAreReleased` | `[]FailedJobsAreReleased` |
| `OneTaskNeverResubmits` | `NoRedundantSubmit`, assuming `OneTask` |
| `OneTaskTerminalIsFinal` | `TerminalIsFinal`, assuming `OneTask`, a ledger, and statements that do not fail |
| `NoRowStranded` | `[]NoRowIsStranded`, for any number of processes, assuming a ledger, statements that do not fail, no crash and no manual request |

`OneTask` is one worker and no manual requests. Two theorems need it: two tasks
may both pass the probe before either settles. `OneTaskTerminalIsFinal` also
needs statements that succeed: a failed probe counts as "not terminal", and a
statement that runs late overwrites the status of a finished row. What
`NoRowStranded` assumes it needs as well: a row whose last statement failed, whose
process crashed or whose client went away says `queued` or `running` until another
event brings the payment back.

The inductive invariant is `IInv`. None of the safety properties is inductive
alone:

* `AgreementInv` adds `Confirmed`: a task about to write a settlement holds the
  very transaction that resolved its payment. Without it the write could record
  anything. It adds `LateAgrees`: what a late statement will write is true of the
  chain already. Both are kept because a resolved payment is never resolved again.
* `JudgementInv` adds that every transaction in flight carries the verdict of
  its documents, also one whose task was dropped long ago.
* `BudgetInv` adds that a worker's attempt count is 1 or is counted in the row.
  That the row cannot be behind is what makes a lost `record_started` safe: it
  can only delay a dead letter. `LateBudget` says the same of a dead letter the
  server has yet to record; attempts only grow.
* `TypeInv` adds that busy tasks have the locals their call uses.

Init and each action keep each part (one lemma per kind of task); the theorems
follow by PTL. `Refinement` shows that `Land` maps to `Resolve`, the write of a
verdict, at once or late, to `Publish` or a stutter, and every other step to a
stutter.

The other theorems have invariants of their own. `MemoryInv`: an admitted job
runs on the count in its map entry, and every other counted payment has been
released with budget left. `Unsettled`: between the eligibility check and the
submission neither the row nor a late statement names a settlement.
`Unfinished`: from the probe to the record of its end a job's row is open.
`NothingLate`: a ledger that answers leaves no statement behind. With it
`NoRowIsStranded` is inductive: whoever wrote an open status last is still there
to overwrite it.

### The others

| Module | Theorems | Argument |
| --- | --- | --- |
| `EvidenceFetch_proof` | `FetchTypes` (`TypeOK`), `CommittedOnly` (`OnlyCommittedIsEvaluated`), `NoMirrorSpared` (`GivesUpOnlyAfterAll`), for any number of mirrors and attempts, 0 included | `AskedInOrder`: mirrors before `base` hold nothing or were asked `MaxRetries` times, the one at `base` was asked `attempt` times, those after it never |
| `Evaluator_proof` | `EvaluatorFollowsRules`: for every SLA, evidence and mode the checks give the verdict and reason of the rules. `StrictOnlyRejectsMore`: what a strict oracle approves, the other approves too | each group of checks is about one rule (`IsAbout`): it fails if the rule does, and with the rule's reason; the first failure of a concatenation lies in its first failing part |
| `Pipeline_proof` | `PipelineFollowsRules` (`VerdictFollowsRules`) | combines the two above: what is judged is complete and committed, and nothing moves afterwards |
| `DeliveryMatch_proof` | `MatchTypes`, `JobsMatchEvents`, `StrictJobsInstructed`, `DeliveriesFound`, `FirstDeliveryFound`: the five invariants of `delivery_match` | candidates without a job are still to be read, or settled, or do not match, or failed; candidates leave in the order of their keys, and the accounts come after them |
| `DeliveryWatch_proof` | `WatchTypes` (`TypeOK`), `SeenSlotGrows` (`SeenSlotNeverRegresses`), `BackfillCoverage` (`BackfillCovers`, assuming `CursorIsExact`), `NoGapInScan` (`ScanLeavesNoGap`), `WatermarkHeld` (`WatermarkFallsOnlyByBackfill`), `NotifiedNeverLost` (`NotifiedIsKept`), `ScanIsBounded` (`ScanStepsRunOut`) | below |
| `Admission_proof` | `AdmissionTypes` (`TypeOK`), `RateBound` (`RateIsBounded`), `OnlyAuthorizedAdmitted` (`AdmittedIsAuthorized`), `RefusalsEarned` (`RefusalsAreEarned`), `LimiterRefinement` (`ImplementsSlidingWindow`) | below |

`DeliveryWatch_proof` has three invariants on top of the types (`IInv`, which
includes that the slots of the log do not decrease and what a scan in each state
holds):

* `CInv`: above the cursor (`PageCovers`, `EntryCovers`) every delivery in range
  was sent or settled, and the number scanned is the number of entries passed.
  The latter is what `BackfillCovers` needs and what failed transactions break.
* `GapInv` drops the count and the lookback: nothing is left out above the entry
  the scan looks at, nor above the one its next page comes before, to which a
  failed transaction may throw it back (`NothingLeftOut`), and a scan stops only
  for one of three reasons (`StopsForAReason`). It holds without `CursorIsExact`.
* `SlotInv` says that every slot kept is reached by the log (`SlotsAreReached`),
  so that whatever lands later is not below the watermark; and that what the
  process has seen is not behind the watermark or, after a restart that has seen
  nothing yet, that no transaction either task is about to note is
  (`NothingBehind`). The worker's write rests on `NothingBehind`, the backfill's on
  `scan.highest >= scan.last` in `SlotsAreReached`.

`NotifiedIsKept` and `ScanStepsRunOut` are steps from `IInv`. They are the safety
halves of `NotifiedDeliveriesAreSent` and `ScanEnds`: nothing is dropped on the
way, and `ScanSteps` falls with every step of a scan and is never below zero;
that the steps are taken at all is fairness and stays with TLC.

In `Admission_proof` the queue is the stamps of the latest admissions; what left
it was older than the window; each admission came within `MaxWait` of its stamp.
`LimiterRefinement` adds that admissions are in the order of their times
(`AdmissionsInOrder`), so that those let in lately are the last ones. Then the
promise is a matter of counting: while the queue has room the admissions within
`Window - MaxWait` are some of its stamps, fewer than `Limit` (`FewAreLate`);
when it is full the last `Limit` admissions are all within `Window + MaxWait`
(`ManyAreLate`). That no request is admitted twice makes the set count what the
sequence holds.

`CursorIsExact` is `"failed" \notin Kinds \/ PageLimit >= Lookback`: no
transaction of the program fails, or the lookback is one page. Without it
`BackfillCoverage` is false (section 6).

Model-checked only: all liveness (`QueuedJobsAreAccounted`, `WorkerReturns`,
`ScanEnds`, `NotifiedDeliveriesAreSent`, `OutageIsReported`, `FetchEnds`), which
needs fairness and is out of the prover's reach. Of `FetchEnds`, too, the bound is
proved: each request is counted and no mirror is asked for an artifact more than
`MaxRetries` times (`FetchTypes`).

## 5. Not modelled

* Statistics, gauges, `last_error`, log lines, and the bodies of the probes.
  `/health` answers 503 while the websocket is down; the model has the flag it
  reads, not the answer.
* Stale reads from a lagging RPC node, and forks below `confirmed`.
* A lifecycle event inserted late; late statements are upserts. The order of a
  payment's events is not stated by any property.
* The composition of `DeliveryWatch` and `Settlement` over one channel. In
  `Settlement` a notice is any payment that reads as a job, sent any number of
  times, which includes all that monitor and backfill may send; a job held by a
  sender that waits for room looks like a longer channel.
* `Pipeline` inside `Settlement`, likewise: a payment's documents amount to one
  of `DocKinds`, and `PipelineFails` stands for every way a fetch can end badly.
* How long pauses last, in retries and reconnects.
* Hashes and byte layouts: of tokens, documents, instructions, accounts, and the
  resolution hash. JSON Schema validation, an input of `Evaluator`.
* Parsing of the configuration, and configuration that changes between restarts.
  `job_channel_capacity` is at least 1 in the model; `mpsc::channel` panics on 0
  at start-up (`main.rs:84`).
* The registry's authorization header, taken to be well formed.
* PostgreSQL's parameter inference. `db.rs:284` binds an `i64` to
  `$8::double precision`; should the driver refuse it, every upsert fails, which
  is the ledger of `FaultyDb = TRUE` at its worst.

## 6. Where code and documentation disagree

Each with a run that shows it:

* `finding_watermark` — `chain.rs:445`: "Anything at or below the watermark was
  processed in a prior run." The worker persists the slot *notified* last
  (`chain.rs:511`), with jobs still queued behind it; after a crash the backfill
  stops above them.
* `finding_strict_without_event` — `README.md:176` and `chain.rs:326` promise no
  job without a matching event in strict mode. Without any event
  `event_matches_job` is true (`chain.rs:358`), before the mode is looked at.
* `finding_mirror_mismatch` — `README.md:164` and `.env.example:22`: the first
  hash-valid response wins. A wrong hash ends the fetch (`pipeline.rs:65`)
  without asking the next mirror. (`README.md:167` describes the retries of one
  URL as failing closed on a mismatch.)

Met while modelling, without a run of their own:

* `manual_evaluate` (`server.rs:294`) asks the ledger nothing before it writes,
  and a worker that probed before a settlement overwrites it after: with a
  second task a settled row may become `queued`, `failed` or `dead_letter` again
  (its signature stays). `db.rs:112` speaks of rows "already settled
  or permanently dead-lettered"; for one task they are (`OneTaskTerminalIsFinal`).
* `NORMATIVE.md`, sections 4.1 and 5.1, has documents validated against JSON
  schemas before evaluation; the code deserializes them (`pipeline.rs`), which
  accepts more.
* The reason of an unsupported version and that of a foreign profile are the
  same (`GeneralRejection`), so that their order cannot be seen on chain.
* Failed transactions at the end of a page do not move the backfill's cursor
  (`chain.rs:450`) and use up the lookback twice; with `"failed"` among the kinds
  and pages shorter than the lookback, `BackfillCovers` fails: the scan stops short
  of its lookback, though without a gap above where it stops (`NoGapInScan`).
  `README.md:273` promises the last *n* signatures.
* `fetch_delivery_job` makes one job per transaction; the comment at
  `chain.rs:368` promises one for any payment. Which one is taken is decided
  (`FirstDeliveryWins`); the others are left to a retry that does not come.
* `main.rs:130` says the ledger check survives cross-instance races; two
  processes pass it before either settles (`docs/DEPLOYMENT.md:70` says so).
* `README.md:174` speaks of automatic retries; a failed job is released
  (`main.rs:239`) and waits for another event.
* What lands while the websocket is down, between backfill and subscription, or
  after an RPC error of the scan is not found again, and the watermark passes it.

## 7. What could come next

* `DeliveryWatch` and `Settlement` composed over one channel and one ledger, to
  follow a delivery from log to verdict, and an abstract specification of the
  watch (every delivery becomes a job, or is known to be lost) for it to refine.
* The gauges of `/health` and `/metrics`, should something come to depend on them.
