# Verification of Relay and Concord

TLA+ models of `doc-eng-demo`, the configurations that model-check them, and proofs checked by TLAPS.
The paths in this file and in `PROJECT.json` are those of the repository, under `src/`; every
definition that models code is listed in `PROJECT.json` under `map` with the lines it stands for.

Contents: [the system](#1-the-system) · [the modules](#2-the-modules) · [the runs](#3-the-runs) ·
[disagreements](#4-where-the-code-and-its-documents-disagree) · [fairness](#5-fairness-and-deadlock) ·
[the proofs](#6-the-proofs) · [what is left out](#7-what-is-not-modelled) · [the plan](#8-the-plan)

Reading order: for Concord `FanOut`, `AiPhases`, `LiveRuns`, `SnapshotLedger`, `Authority`, `Pipeline`,
`Publish`; for the Relay worker `RelayStore`, `RelayWorkspace`, `RelayTurns`, `RelayChat`, `Relay`; for its
clients `RelayApi`, `RelayCli`, `RelayWeb`, `RelayClients`; for its kernel `KernelOps`, `RelayKernel`; then
the `*Proofs` modules. Each of these parts can be read without the others.

## 1. The system

Two services in one repository. **Relay** is a small workspace product (projects, files, analysis
sessions, chat). **Concord** watches Relay's product truth and a repository of documentation, the
*estate*, and reconciles the two: a *run* fetches the truth, diffs it with the previous snapshot,
decides what each changed fact means for each documentation unit, lets a model draft patches within
a budget, has a second model call try to refute the findings, and opens a pull request on GitHub.
Relay has two clients, a command line and a web application, and a *kernel*, a Python process in a
container that runs the statistical operations.

Both services are Cloudflare Workers: single-threaded JavaScript, so that code between two `await`s is atomic,
and anything may happen at an `await` -- other requests, other consumers, the cron pass, a failure,
the end of the worker. **That is the grain of every model here: one action per awaited call**, with
the code around it up to the next one. (`Pipeline` models code that awaits nothing; its actions are
the turns of a loop whose order is left open.)

### Components

| component | state it keeps | operations | interacts with |
|---|---|---|---|
| Run intake (`concord-api/src/index.ts`) | rows of `run`, `audit_log` | `POST /api/admin/changelab`, `enqueueRun` | sends queue messages |
| Queue consumer, `executeRun` (`index.ts`, `run.ts`) | the run row, its rows (`doc_unit`, `impact`, ...), the audit row's outcome | claim, store, publish, finalize, catch, ack | queue (at least once), Relay, D1 |
| Snapshot ledger (`run.ts`, `concord-core/src/pipeline.ts`) | `snapshot` table; `previous`, the working copy and the deltas in memory | fetch, read latest, store, mutate, `detectDeltas` | Relay's product truth |
| AI phases (`run.ts`, `spend.ts`, `model-extract.ts`) | `SpendState` in memory, `model_call` rows, impact and finding records | `model_extraction`, patch fan-out, falsifier fan-out, `spendGate`, `recordModelCall` | the model API |
| Publisher and cron (`github.ts`) | branches and pull requests on GitHub, `run_step`, `audit_log.pr_url` | `publishRun`, `cleanupStaleRuns` | GitHub, shared by both |
| Pipeline (`concord-core`) | `afterByPath`, `impacts`, local to one call | extract, classify, arbitrate, conflicts, substitute; compose patches | called by `executeRun` |
| Relay workspace (`relay-api/src/workspace.ts`, `routes/`) | D1 rows and R2 objects | projects, files, sessions, artifacts; cascading deletes | kernel, R2 |
| Relay turns (`relay-api/src/analysis/turn.ts`) | turn rows, result objects, artifacts | `runTurn` | model, kernel, workspace |
| Relay budget (`analysis/limits-guard.ts`) | `request_rate`, `model_call` rows | `guardModelCall` | turns, conversations |
| Relay conversations (`routes/conversations.ts`) | messages | send, regenerate, abort | model stream |
| Relay kernel (`relay-kernel/app/`) | one event loop, the requests that wait for it | `POST /op/:id`, `GET /versions`, `/operations`, `/health` | fetches datasets from the worker by a signed URL |
| Its callers (`kernel/container-kernel.ts`, `truth/t0-runtime.ts`, `health.ts`) | an attempt and its clock; the probe object in R2 | operation with a retry, runtime tier of product truth, health check | kernel, R2, Concord (product truth) |
| Relay CLI (`relay-cli/src/`) | the session file; a process ends with an exit code | one request per invocation | Relay worker |
| Relay web application (`relay-web/src/`) | screens, calls without an answer, the browser's cookie | loads, acts, the terminal, navigation by hash | Relay worker |
| Product-truth resolvers T1 to T5, access middleware, read views, contracts, Concord's pages | none that outlives a request | | Concord reads the product truth |

### What is hard about each, and what makes it correct

- **Intake.** The check for a live run in flight, the count against the hourly limit, the INSERT of
  the run, its audit row and the send are five awaited calls. Correct: one live run at a time, no
  more per hour than allowed, every run that can execute is on the audit log, refusals stay refusals.
- **Consumer.** Messages are delivered at least once, and `executeRun` does not look at the status it
  finds. Correct: a redelivered run publishes nothing twice, a run that reads completed is whole, the
  run row and the audit row agree, no run hangs because one consumer died.
- **AI phases.** Five workers share a list, a call budget and a sum of money, and `Promise.all`
  leaves four of them running when the fifth throws. Correct: every item is handled once, the caps
  hold, the ledger agrees with memory, nothing is dropped silently, an unheard finding never surfaces.
- **Snapshot ledger.** A run consumes the drift it detects by storing a snapshot, long before the
  deltas are stored. Correct: drift is neither lost nor reported backwards, hypotheticals stay private.
- **Publisher.** A row of GitHub calls with an undo, a cron pass that deletes branches by age, and no
  shared lock. Correct: failed runs leave no branch, the database claims nothing that did not happen,
  nothing stays for ever, the cron leaves fresh pull requests alone.
- **Pipeline.** One content per path is made of generated files, substitutions from several facts and
  drafts of the model, found in the text by searching for it. Correct: text changes only for facts
  that nobody disputes, no substitution is lost under another, what is published is what was proposed.
- **Relay workspace.** The database and the bucket share no transaction, every write to both is two
  calls, and deletes take many rows at once. Correct: no row without its object, no object without a
  row but for reasons the code knows, nothing written into a project that was archived.
- **Relay turns.** A row is inserted as pending, and model, kernel, bucket and a list of artifacts
  follow, each with its own failure. Correct: the row tells what became of the turn.
- **Relay budget.** Sum, count and record are three calls; money is spent before it is recorded.
  Correct: limits hold but for requests counted at once, nothing that was answered goes unrecorded.
- **Relay conversations.** Streams store through callbacks that run after the response, or never.
  Correct: a conversation reads as questions and their answers.
- **Relay kernel.** An operation blocks the one event loop, so calls wait for each other, time out and
  are tried again while the clock of a signed URL runs; the container may be replaced between any two
  requests; health checks share one object. Correct: what a caller hears is what the operation makes
  of the dataset, not of the way there; claims of one snapshot are of one image; an alarm has a cause.
- **Relay clients.** Two processes may start before either knows who it is; answers get lost, or arrive
  after their screen has gone on to another id. Correct: what a client made belongs to one identity, an
  exit code says what happened, a screen shows what its URL names, nothing is deleted by the name of
  something else.

`PROJECT.json` lists the hazards at their lines, each with the properties that would catch it.

## 2. The modules

| module | what it is | lines of code it stands for |
|---|---|---|
| `BoundedPool` | abstract: what a bounded fan-out promises its caller | -- |
| `FanOut` | `mapConcurrent`; refines `BoundedPool` | `run.ts` 105-123 |
| `AiPhases` (on `FanOut`) | the AI half of `executeRun` | `run.ts`, `spend.ts`, `model-extract.ts` |
| `LiveRuns` | requests, queue, audit log, skeleton of `executeRun` | `index.ts`, `run.ts` |
| `SnapshotLedger` | fetch, snapshot, working copy, deltas | `run.ts` 202-264, `pipeline.ts` 66-97 |
| `Publish` | `publishRun`, `cleanupStaleRuns`, GitHub | `github.ts`, `run.ts` 640-738 |
| `Authority` | what the claims about one fact amount to | `authority.ts`, `conflicts.ts`, `classify.ts` |
| `Pipeline` (on `Authority`) | projections, classification, substitution, drafts, content per path | `pipeline.ts`, `extractors.ts`, `run.ts` |
| `RelayStore` | rows, objects, requests of the Relay worker; what a dying request leaves | `migrations`, `types.ts` |
| `RelayWorkspace` (on `RelayStore`) | projects, files, sessions, artifacts | `relay-api/src/routes/` |
| `RelayTurns` (on `RelayStore`) | guard and rate, turns, narration | `relay-api/src/analysis/` |
| `RelayChat` (on `RelayStore`) | conversations and their streams | `routes/conversations.ts` |
| `Relay` | the three composed, and their properties | -- |
| `RelayApi` | the worker as its clients see it: ownership, routes, answers, served at once | `auth/`, `routes/`, `contracts` |
| `RelayCli` (on `RelayApi`) | processes of the command line | `relay-cli/src/` |
| `RelayWeb` (on `RelayApi`) | one tab of the web application, and another of the same browser | `relay-web/src/` |
| `RelayClients` | the two composed, and their properties | -- |
| `KernelOps` | the eight operations: the Worker's schemas, the kernel's, how each one ends | `operations.ts`, `params.py`, `operations.py` |
| `RelayKernel` (on `KernelOps`) | the kernel, its callers, time and restarts | `main.py`, `container-kernel.ts`, `presign.ts`, `health.ts`, `t0-runtime.ts` |
| `AiPhasesProofs`, `LiveRunsProofs`, `SnapshotLedgerProofs`, `PublishProofs`, `PipelineProofs`, `RelayProofs`, `RelayClientsProofs`, `RelayKernelProofs` | theorems | |
| `MCAiPhases`, `MCLiveRuns`, `MCSnapshotLedger`, `MCPublish`, `MCPipeline`, `MCRelay`, `MCRelayClients`, `MCRelayKernel` | instances for TLC | |

`executeRun` is one long function; it is cut along the state its parts share. `LiveRuns` has the
whole of it as a skeleton (claim, store, publish, finalize, audit, catch); `AiPhases`,
`SnapshotLedger`, `Pipeline` and `Publish` each open up one stretch of that skeleton and leave the
rest closed.
What one module takes from another is said where it is taken: `Publish` lets a dead consumer stop
for good, because `LiveRuns` shows that its redelivery fails before it publishes.

### FanOut and BoundedPool

`next` is the shared counter, `st[w]`, `ix[w]` where worker `w` stands and the index it drew last,
`filled` the indexes of `results`, `promise` what `mapConcurrent` returned. `TakeIndex(w)` is
`const index = next; next += 1; if (index >= items.length) return`, one step since no `await` comes
between. `Launch` is a worker's first draw, `Finish` a handler that returns and the next draw,
`Throw` a handler that throws. `Resolve` and `Reject` are `Promise.all`: it rejects as soon as one
worker has thrown, and the others go on. `BoundedPool` says the same in terms of sets of items --
to do, running, settled, failed -- and a limit; `Abstract` is the refinement mapping.

### AiPhases

`phase` is where `executeRun` stands; `spend` the `SpendState` in memory; `recorded` the sum over the
day's `model_call` rows; `call[w]` the model call in slot `w`, which stands for a fan-out worker's
call and for a call of an extraction batch; `impact` and `finding` the records the run will store;
`exhausted` is `budgetExhausted`. `Begin(w)` is `guardedCall` up to its first `await`: gate,
reservation and issue, in the step in which the worker draws its item, because the handlers do not
await before it. `CallReturns` accrues the cost, `RowInserted` is the INSERT, `ImpactAnswered` and
`FindingAnswered` are the rest of the handlers. `Reply` has the classes of replies the handler tells
apart: `refusal`; `unusable` (empty, no parse, gate (b) or (d): a note, nothing else); `gate_a`;
`risk`; `ok`. `model_extraction` runs in batches under `allSettled`, and its outcomes are recorded
one after the other (`ExtractAccrue`, `ExtractRecorded`) when all of a batch have settled.

Branches of the handlers that no state reaches are not in the model: a patch item without its unit
or delta (`run.ts` 337-340; the pipeline builds an impact from both), a finding without a projection
or a truth claim (`run.ts` 494; `consistencyFindings` emits `inconsistent_value` only for a key that has
an authoritative fact), and a call without a client inside a fan-out (the fan-outs are entered only
with one). Money is counted in units; a call costs 1 to `MaxCost` of them.

### LiveRuns

`pc[r]` is the request handler, `status`, `audit`, `rows` the tables, `msg[r]` and `deliveries[r]`
the message, `exec[r]` where `executeRun` stands. A run is named by the request that asks for it;
`live` are the Change-Lab requests, the others are those of `enqueueRun`, which checks nothing.
`rows[r]` is `none`, `some` or `all` of the run's rows, because `batchAll` writes in chunks; its
first chunk holds `doc_unit` rows, whose key is the run's id and the unit's, so a second execution
fails there (`Clash`). `Rewrite` is the UPDATE by `run_id`, which touches *every* audit row of that
run. `DeliveryLost` is a dead consumer, a rejected `executeRun` (its first UPDATE and those of its
catch are unguarded) and a lost ack alike.

External: the queue. It delivers at least once, redelivers what is not acked, gives up after
`max_retries`, and does not run two deliveries of one message at once.

### SnapshotLedger

`shipped` is the history of Relay's truth, `snapshot` the table in order of `taken_at`; `current`,
`previous`, `mutation`, `deltas` are locals of `executeRun`; `recorded` is what reached the database.
A snapshot carries the number of the truth it holds, so that older and younger can be told apart.
`orphaned` and `overlapped` are history. Runs may overlap because consumers of different messages do.

### Publish

`branch[r]` is where `concord/run-r` points: nowhere, at the estate commit, or at the run's own. `pc[r]` is
the GitHub call the publish half makes next. A call that changes GitHub is answered, refused, or
loses its answer with or without its effect; calls that read or write objects no ref points to are
folded into the call they precede. `cron` and `listed` are one pass of `cleanupStaleRuns`, which works
with the shas it *listed*. A branch still at the estate commit is stale at once, since the code judges
age by the commit's date and the estate commit is assumed older than 48 hours; the assumption is
stated in the module.

### Authority and Pipeline

`Authority` is about one fact, given by its claims in two snapshots: what changed, whether claims
disagree, whether a release announced otherwise. `Disputed` is the reference: the same question asked
without any order among the claims.

`Pipeline` is `runPipeline` from the projections on, and what `executeRun` makes of its patches. `todo`
holds the pairs of a delta and a projection that the nested loops have yet to visit; they are visited
in any order within a delta, and deltas in any order: the code takes them as the snapshot lists its
facts and the file tree its files, and what it promises should not hang on that. `pending` is
`afterByPath`, seeded with the files the generators have changed; `impacts` is what the run reports.
`Substitute(i)` is a turn that rewrites a number, `Throw(i)` the same turn when `replaceSpan` does not
find the body it is looking for, `Visit(i)` every other. Then `Draft` is an accepted answer of the model
for one unit and `Publish` the composition of one content per path.

A file is a description and the text of its units; a unit is its prose and the values at its two
places, so that `indexOf` and `replace` become "the first unit of the file that reads the same": two
units may be *twins*, and the search may find the wrong one. Values are numbers. A place may be *coarse*,
that is, render its value rounded, because `formatValue` rounds. In-product copy (`listed`) keeps its
list of facts when its body is replaced. A unit whose body the Change Lab replaced has the same places
and other prose.

### Relay

One visitor and one project of theirs, and requests of any route to it. `req[r]` is the request: `pc` names
the awaited call its handler makes next, the rest is what the handler remembers. What the handlers
create is named by the request that creates it, so that ids are fresh by construction, as UUIDs are.
`files`, `sessions`, `turns`, `artifacts`, `convs`, `msgs`, `rate`, `ledger` are tables; `objects` the
keys in R2. Foreign keys are guards of the INSERTs and DELETEs they hold up: a statement they refuse
makes the request die. `spent` is what the model provider has charged, whether or not it is recorded.

`Die(r)` is the fault model: at any awaited call the call may reject or the isolate may go, and the
handler stops there; what it wrote stays. Where the code catches the failure there is an action for
it (`LogOrphans`, `TurnFailed`, `EndStream`).

`lost`, `stale`, `raced`, `messy` and `late` are history: objects dropped at a point the code knows of,
requests that were at work when the project was archived, routes whose count was outdated when it was
written, conversations whose streams overlapped or broke off, rows that came between the read and the
batch of a delete. No guard reads them. The foreign keys, batches and types are those of
`relay-api/migrations`; D1 runs a batch as one transaction.

### RelayApi, RelayCli, RelayWeb and RelayClients

`Relay` opens up what happens between the awaited calls of a handler; `RelayApi` closes that again: a
request is served at once, and what matters is who it comes from, what it may read and change, and what
is answered (`Results`, `Answer`). `rows` are the rows of all tables, `made` and `minted` the ids and
visitors given out so far. A handler may also throw, before its effects or after them (`Thrown`).

`RelayCli` is a set of processes. `Send` reads the session file, `ServeCli` is the worker, `Receive` saves
the cookie that came with the answer, if that works, and turns the status into an exit code;
`Unreachable` loses the request or the answer. `split` is history: something happened after which the
command line may have two identities.

`RelayWeb` is a tab. `page` is the mounted component: the screen and the id of the hash, three slots of
loaded data, what is typed and what is at work. `calls` are the requests without an answer, and each
keeps what its closure kept. React keeps the component when only the id changes, so `Land` on the same
screen keeps everything but what an effect resets (`Resets`), and the answers to the old id still arrive;
another screen is a new component. `Deliver` takes any answer that is there, in any order. Another tab of
the same browser renames, archives and deletes (`OtherTab`). `visited`, `page.crossed`, `page.reused` and
`webSplit` are history. `RelayClients` puts one client at a time before the worker (their rows never
meet) and adds `known`, the names that a project has ever had.

### KernelOps and RelayKernel

`KernelOps` has the eight operations as far as a caller can tell them apart: the sizes and optional fields
of their parameters, as the Worker's schemas have them and as the kernel's have them, each from its own
source; and for each handler its row of checks, of which the first that fails is the answer.
`Requests` has every size at and just outside its bounds.

`RelayKernel` is one container and the actors that call it. `waiting` are requests that have arrived or
will, `serving` the one the event loop has begun; `Begin` needs the loop to be `Free`, which is what makes
everybody wait for a slow operation. `Tick` is one timeout of an operation: the clock of the attempt
(`since`) and of the URL (`age`) advance together. `TimeOut`, `Break`, `Gone` and `Crash` are the four ways
in which an attempt ends without an answer; `Retry` is the second attempt with the same URL. `Restart`
replaces the container, perhaps by one of another image. A truth actor asks for versions and operations
at once; a check puts, gets and deletes the one probe object.

Folded into one step because nothing of theirs is shared: gate, row read and signing in `Ask`; the links
of a health check to the assets, the database and the model in `runHealthChecks`; `GET /health`.

## 3. The runs

States and times are for two workers of TLC. `relay` checks a type invariant, because it contains the
foreign keys; elsewhere types are part of the proofs.

| run | instance | distinct states |
|---|---|---|
| `ai_phases` | 2 workers, 3 impacts, 2 findings, 3 pipeline outputs, cap of 3 calls and 3 units of money, costs 1..2, prior sum 0..1, up to 2 extraction units | 197,819 |
| `live_runs` | 2 requests of either kind, limit of 2, 0..2 earlier runs, 1 redelivery | 378,428 |
| `snapshots` | 2 runs, 2 facts, 2 values, 2 changes of the product, 1 redelivery each; symmetric | 2,719,054 |
| `publish` | 2 runs, cron, 2 faults | 106,885 |
| `pipeline` | 2 facts, 4 units in 3 files, up to 2 drafts, 75 sets of documents, each pair of facts of which at most one is in trouble | 959,472 |
| `relay` | any 2 requests, any 3 of the workspace, or a turn and 2 of those; 2 outputs; symmetric | 599,304 |
| `clients` | 2 processes of 7 commands, or a tab with 3 acts, 1 call open at each; 11 rows to start with; symmetric | 647,370 |
| `kernel` | 2 actors of any kinds, 1 dataset, 2 attempts, URL good for 7 ticks of 8 seconds, 2 faults; symmetric | 2,987,112 |

**`ai_phases`** -- `ImplementsBoundedPool`: the fan-out hands
every item to one worker and resolves only when all are in, in both calls of a run and when workers
throw. `GuardedCallsWithinCap`: the slot is reserved with the gate, so the workers cannot pass the
cap together, those of a run that has already failed included. `SpendOvershootBounded`: the daily
cap is tested before the cost is known; the overshoot is at most one call per worker, extraction
apart. `LedgerAgrees`: of a run that ends well, rows, sum in memory and reservations agree.
`NothingDropped`, `PartialIffStarved`, `SurfacedFindingsHeard`: what the
run stores of its impacts and findings means what the documents say. `Terminates`.

*Bounds.* Two workers on three items give both kinds of crew: one worker per item (the falsifiers)
and fewer workers than items (the patches), with a draw after a return. The cap of three is reached
by extraction with patches, in the middle of the patches, or in the falsifiers, depending on the
pipeline output; the money cap by one or two calls. A third worker adds no new kind of race to a
counter that is read and written in one step, and the theorems below hold for any number.

**`live_runs`** -- `OneLiveRunUnlessRaced`, `HourlyLimitUnlessRaced`: the check and the limit hold
when no two Change-Lab requests are handled at once (and, for the first, no ended run is executed
again). `SentRunsAreAudited`. `PublishedAtMostOnce`, `CompletedIsWhole`: under redelivery.
`AckedRunsAgree`: run row and audit row. `SentRunsEnd`: a run that was sent comes to rest unless all
its deliveries are lost.

*Bounds.* The handlers do nothing that depends on more than one other run in flight; two requests
give a race, a refusal, a limit (with `earlier`), and a mix of kinds. One redelivery gives a second
execution after any prefix of the first.

**`snapshots`** -- `MutationsStayPrivate`: the old value a run reports is one the product had.
`DriftOnRecord`: without overlap, every change between two stored snapshots is on record, except at
a snapshot whose run was lost after storing it. `DeltasRunForward`: without overlap, a run compares
with nothing younger than what it fetched.

*Bounds.* Redelivery lets two runs store four snapshots, so that the latest, the oldest and one in
between differ; two facts tell a mutated key from an unmutated one; two changes let a value come back.

**`publish`** -- `NoOrphanUnlessUnsure`: a run that was not published leaves a branch only if the
answer to its creation was lost, the DELETE failed or the consumer died. `ClaimsAreTrue`: a
`published` step and a `pr_url` mean that there was a pull request. `FreshClosedOnlyIfCaught`: the only
way in which the cron closes a fresh pull request is the one of `publish_fresh`. `NothingStays`:
every branch and pull request goes in the end.

*Bounds.* Runs have a branch each and share only the cron pass, so two are enough for one pass to
meet a branch being made and one being aged. Two faults give a failure and a failing undo.

**`pipeline`** -- `DisputedKeysUntouched`: a number in hand-written text changes only where a marker ties
it to a fact on whose value all claims agree. `SubstitutionsLand`: what the run reports as proposed is
in the patch of its file, beside the other substitutions of that file and whatever a generator made of
it, and nothing else has changed; the pipeline fails only over two substitutions in one unit (or
over twins). `PublishedIsProposed`: the content handed to the publisher has every substitution, and
every draft whose file is not named as skipped.

*Bounds.* Every key enters a property by itself or against one other: two facts give a conflict beside
a substitution, two substitutions in one unit or one file, and a number that two facts explain. The
page has two units and a description, so substitutions meet each other and the generator; the table is
generated; in-product copy has its own marks. Values 0 to 2 give a rounding that changes a value and one
that does not. A third draft or a third unit of a page adds no new kind of collision, and the theorems
hold for any number.

**`relay`** -- `RowsHaveObjects`: no interleaving of uploads, turns, deletes and deaths leaves a row
whose bytes are gone. `OrphansAccounted`: an object without a row is in the hands of a request or was
dropped where the code can drop one. `TurnRowsTellTheTruth`: pending means at work or dead, completed
means that all outputs are there once the request is answered, failed and refused left nothing.
`RateKeptUnlessRaced`, `LedgerLacksOnlyTheDead`: the limit is passed only by requests counted at once,
and the ledger lacks only calls of the dead, the aborted and those still at work.
`CleanChatsArePaired`: a conversation whose streams neither overlapped nor broke off is a sequence of
questions with their answers, so a regeneration drops the right one. `ArchiveHolds`: nothing is
written into an archived project but by requests that were at work when it was archived (and renames).
`TypeOK` contains the foreign keys: a file deleted while a session on it is made, and the like.

*Bounds.* A race in these handlers is between a pair of awaited calls of one request and one call of
another, so two requests of any kind show every pair; three, of the kinds whose rows and objects
depend on each other, show a delete overtaken by a delete while a turn or an upload is at work. The constant
operator `Crowd` makes this selection when a request is admitted; the theorems hold for any. The hour and
the day begin one call below their limits, so that the first request passes and the second may not;
two outputs are one record and one table, the two kinds the code distinguishes.

**`clients`** -- `OneWorkspaceUnlessUnsure`: what a client made belongs to the identity it keeps, unless an
answer was lost or not saved, or two requests without a cookie crossed. `ExitTellsTheTruth`: exit code 0
of a command that creates or deletes means that it did, 2 to 5 that nothing has changed (but a failed
turn, which is in the history). `SettledScreensShowTheirKey`: a screen that waits for nothing shows what
its URL names, or has heard of an id it had left. `DeletesAreNamedUnlessReused`: a project is deleted from
its screen only after one of its names was typed, unless the component was given another id meanwhile.

*Bounds.* The two kinds of client share nothing, so a behaviour is of one kind. Two processes give every
crossing of cookies. Three acts are: go to one id, go to another of the same screen, act there, and every
answer may come before or after each; `Tours` limits a visit to screens that lead to each other. One call
may be open when the user acts, beside those a screen makes when it mounts. Two projects of the visitor
and one of the seed, with one row of each kind below them, give foreign, read-only and own rows.

**`kernel`** -- `AnswersAreTheOperations`: a URL never expires under a request somebody waits for, the kernel
never refuses parameters that the Worker let through, a dataset that cannot be fetched was deleted or
the connection broke. `ClaimsFromOneImage`: versions and operations of one snapshot are of one image,
unless the container was replaced between the two. `BucketAlarmsHaveCause`: a check reports the bucket
broken only after a failed call or when another check came between its put and its get.

*Bounds.* Two actors are an operation that waits behind another, a check that crosses a check, and a
snapshot or a check held up by an operation. A URL is good for sixty seconds, seven ticks; two attempts
of one tick each leave it good, with an attempt begun late. Two faults are a lost attempt and a restart.

Every property of these runs has a mutant in `PROJECT.json`: a slip in one definition -- a dropped
guard, a swapped order, an off-by-one -- under which TLC finds that property violated.

## 4. Where the code and its documents disagree

Four runs are expected to fail. Each checks one sentence of the repository.

| run | the sentence | what the run shows |
|---|---|---|
| `one_live` | "One concurrent live run (D1 lock ...)" (`SECURITY.md`) | two requests at once both start one |
| `refusals` | "Append-only: one row per admin action" (`migrations/0007`) | the row of a refused request is rewritten with the outcome of the run in flight |
| `drift_lost` | "no failure path silently drops an impact" (`architecture.md`) | a run that fails after its snapshot is stored takes the drift with it |
| `publish_fresh` | "close PRs and delete ... branches older than 48 hours" (`github.ts`) | the cron closes a pull request opened a moment ago, its branch listed before the run's commit was on it |

For three of them a property of the passing runs says how far the sentence does hold:
`OneLiveRunUnlessRaced`, `DriftOnRecord`, `FreshClosedOnlyIfCaught`.

Two more sentences hold only in part, and the properties of `ai_phases` say in which: "<= 20 [calls] per
run" (`ARCHITECTURE.md`) is true of the calls through the gate (`GuardedCallsWithinCap`), to which the
uncapped calls of `model_extraction` come; "a model_call row for EVERY call" (`spend.ts`) is true of every
call whose reply was parsed (`LedgerAgrees` counts what was read).

## 5. Fairness and deadlock

- `AiPhases`: weak fairness of the run and of each worker. An awaited call settles in the end: the
  model client has a timeout and D1 answers or errors. A failure counts as settling; no success is
  assumed.
- `LiveRuns`: weak fairness of `Execute(r)`: the queue delivers what it holds, a consumer that does
  not die goes on. No fairness on requests (nobody has to ask), on a handler that has begun (it may
  die) or on faults.
- `SnapshotLedger`: safety only, no fairness.
- `Pipeline`, `Relay`, `RelayClients`, `RelayKernel`: safety only, no fairness. Nothing in Relay is retried or resumed: a turn whose
  request died stays pending, an object left behind stays, and no code promises otherwise. An answer
  that a client waits for may never come; the screen then waits.
- `Publish`: weak fairness of a publisher that has not died, of time passing, and of the cron, which
  `wrangler.jsonc` schedules every hour. `NothingStays` needs all three, and needs faults to be finite.

Runs, requests and messages end, so the instances of all modules but `Publish` really come to a stop
and do not check for deadlock; that `AiPhases` and `LiveRuns` do not stop half-way is what `Terminates` and
`SentRunsEnd` say, in Relay `Die` can always end a request, a client's call can always be lost, and an
attempt at the kernel can always time out. In `Publish` the cron never stops, and deadlock is checked.

## 6. The proofs

TLC's instances are small; the theorems hold for every value of the constants that satisfies the
assumptions of their module. Every safety property of a passing run is a theorem, action properties
and the refinement included, and the three invariants of the fan-out and of `LiveRuns` that no run
lists (`EachItemOnce`, `ResolvedIsComplete`, `TypeOK` of `LiveRuns`) are too. Few of the properties are
inductive by themselves; what follows says for each module what the inductive invariant adds, and why
it is needed. Where an invariant is a conjunction, each operation has a lemma, under it a step for each
part it could disturb, and what several proofs need of the model's operators is a lemma of its own.

**`AiPhasesProofs`**, from `PoolAssumption` (at least one worker, a bound on the list) and
`BudgetAssumption` (caps and costs are numbers, the list fits). First the fan-out alone, with any caller
(`PoolSpec`). `EachItemOnce` needs that every index held is below `next`, that nothing at or above `next`
is filled, and which states of workers go with which state of the promise (`StateInv`, `FilledInv`).
From it follow `ResolvedIsCompleteHolds` and `FanOutImplementsBoundedPool`: every step of the fan-out is
a step of the pool or a stutter. What is not routine there is that the items in flight are no more than
the workers, since `ix` maps the busy workers onto them. `RunIsAFanOut` then proves that every step of a
run is a step of the fan-out or a stutter, so all three carry over (`RunImplementsBoundedPool`).

- `CapInv` says that the reservations in memory equal the calls issued through the gate and do not
  exceed the cap. `Begin` reads the gate and reserves in one step, so it is inductive once it also says
  that no worker moves before the spend state is loaded, because loading resets the count (`CapHolds`).
- `PhaseInv` says what the phase tells of the fan-out, the slots and the status. The rest stands on it.
- `SpendInv` bounds the money spent together with the money that is due for calls which are out
  (`Exposed`), not the money spent: a call lets its slot go when it is counted. It is below the cap plus
  one call for each worker, or what the extraction, which passes no gate, has come to
  (`OvershootHolds`).
- `LedgerInv`: as long as nothing failed, what is recorded and what the slots owe is what was spent.
  The sum over the slots is held by its partial sums, because an operator for sums is recursive, which
  the provers cannot follow (`LedgerHolds`, read when no slot owes anything).
- `ImpactInv`, `FindingInv`, `StarveInv`: an impact is untouched exactly while it is an open item of
  the list, a finding that is active was heard or is still open, and `exhausted` is set exactly when
  something was starved (`NothingDroppedHolds`, `SurfacedHolds`, `PartialHolds`).

**`LiveRunsProofs`**, from `LiveRunsAssumption`. `IInv` ties where `executeRun` stands to what is stored:
an execution between the store and the end is the one that stored, since every other fails on `Clash`;
so it has not published before, and the rows are all there when the status is written
(`PublishedAtMostOnceHolds`, `CompletedIsWholeHolds`). `AuditInv` says which audit rows are there at
which step of the handler, that a message is sent only by a handler that is then done, and that a run
is executed only while its message is leased. The first gives that a request never has two rows; the
last that the outcomes written by the executor are those of a run at its end, without which the
rewriting of outcomes by run id could turn a row into a refusal (`TypeOKHolds`,
`SentRunsAreAuditedHolds`). On these stand three more. `LaneInv`: without a race at most one live request
is engaged, where a request between its SELECT and its INSERT already takes the place of the run it
is about to start (`OneLiveRunHolds`). `HourInv`: the live runs of the hour and the requests past their
count are together within the limit (`HourlyLimitHolds`). `AckInv`: the audit row agrees with the run
from the return of the executor on, and a failed write of it is made good by the retry
(`AckedRunsAgreeHolds`).

**`SnapshotLedgerProofs`**, without assumptions. A snapshot is one of the truths the product has had,
under its number (`Genuine`), from which `MutationsStayPrivateHolds`. While no two runs have overlapped at
most one is at work (`Alone`) and what it has fetched is not older than anything stored (`Youngest`):
`DeltasRunForwardHolds`. `DriftOnRecordHolds` needs further that what a run compares with is the snapshot
just before its own (`Before`), and that only the last snapshot may have drift that is on no record
yet, while its run is still at work (`Accounted`).

**`PublishProofs`**, without assumptions. Nothing is written down before `publishRun` has come to its
result (`WrittenDown`), the result does not change after that, and closing a pull request, by an undo
or by the cron, never makes it one that was not opened (`ClaimsAreTrueHolds`). `FateInv` adds for each
run what its branch and pull request may be where its publisher stands, and of the cron that what it
holds is a branch of a stale run or one it listed before the run's URL was stored (`NoOrphanHolds`,
`FreshClosedHolds`).

**`PipelineProofs`**, from `EstateAssumption` (units are numbered, a unit has at most one marker per fact)
and `FactAssumption` (lists are lists, dates are numbers). `Inv` adds that every file, in whatever
state, has the units of its path, each with the prose of the input (`Shapes`), without which a
substitution could not tell a unit from its neighbour; that what is still to be substituted is not yet
reported (`StillDue`), without which a report could come before its patch; and that each draft is the
file of the estate with one body replaced (`DraftsOK`). The step that is not routine is `ReplacedOne`:
replacing the first unit that reads like the one sought replaces that unit, if it has no twin. That
there is a first is the well-foundedness of `<` on the naturals. `AgreedIsUndisputed` relates the code's
checks, which go by the order of the claims, to the reference without order.

**`RelayProofs`**, from `OldAssumption` and `BoundsAssumption`. In this order:

- *Shape.* The types of rows and requests with what a request carries at each of its steps (`Stage`);
  from it `TypeOKHolds`. That a session's file exists is inductive only because the INSERT and the
  DELETE each look at the other's rows again.
- *Objects.* `RowsHaveObjects` needs that what a request is about to delete is never what another is
  about to name (`Reserved`), that a key has had no row before the step that names it (`Fresh`), that a
  row is deleted before its object (`Gone`), and that a batch takes no row but those listed or late
  (`Listed`). `OrphansAccountedHold` is proved with it.
- *Limits.* `LimitsInv` says of each request what it carries: the count it was let in on is below the
  limit, calls that are not on the ledger exist only between the call and its record, and a request
  past the check of an archived project was at work when it was archived (`RateHolds`, `LedgerHolds`,
  and `ArchiveKept`, an action property).
- *Paths.* `Walks` gives, for every operation, how a request goes from call to call; `StepWalks` proves
  that every step is such a walk of one request. The two results below are about walks.
- *Conversations.* `ChatsInv`: while a stream is at work on a conversation that no two streams have
  shared, it is the only one, and what the conversation lacks is exactly the answer that it carries
  (`Carries`). `PairedLonger` and `PairedAgain` say when a conversation with a turn appended, or with an
  answer cut out and to be given again, is paired (`CleanChatsHold`).
- *Turns.* `RowsInv`: what the status of a turn's row tells of where its request is and what is in the
  bucket (`Told`). A completed turn is behind its outputs by the one at hand, and an output it stored
  is there unless it was deleted by itself or with its whole project (`KeptAs`, `TurnRowsHold`).

**`RelayKernelProofs`**, from `KernelAssumption` (there is at least one attempt, and a signed URL is good
for all the attempts together). `ClaimsInv`: what a resolution has brought so far is of the image that runs, or
the container was replaced since (`ClaimsFromOneImageHolds`). `BucketInv`: a check that is about to read
its value is the last that wrote it, unless another crossed it (`BucketAlarmsHaveCauseHolds`).
`AnswersInv`: the age of a URL is at most the earlier attempts' timeouts and the time of this one, so
it is good whenever the kernel uses it; and what passes the Worker's schema, defaults filled in,
passes the kernel's (`ParsedIsValid`), so no answer is a refusal of the kernel
(`AnswersAreTheOperationsHolds`).

**`RelayClientsProofs`**, from `RowsAssumption`, `NumbersAssumption` and `InvokedAssumption`.
`ClientsInv` is the shape of rows, processes and pages (`ClientsInOrder`). What a request may come to is
said of the rows it leaves behind (`Follows`); an act of the user, a selection or a change of the
location is one of `Acted`, `Picked`, `Moved` and `Opened`; and what comes of an answer is one of
`Quiet`, `Filling`, `Failing`, `Done` and `Turned`. `WebStepIs` proves that every step of the browser is
one of these, and each property of the browser is an invariant that all of them preserve.

- `ExitCodesTellTheTruth` follows from where a process stands when it exits.
- `CliIdentity` and `WebIdentity`: what a client has made belongs to the identity it keeps or to the
  one that an answer on its way brings (`OneWorkspace`).
- `NamesInv`: rows, answers and a screen that was not given another project show a name which the
  project has had, so what was typed to confirm a deletion is one (`DeletesAreNamed`).
- `ScreenInv`: a slot that shows something is of the key in the URL, or is being loaded again, or will
  be and is hidden until then (`Excused`). A screen that waits for nothing has no excuse
  (`SettledScreensAreTrue`).

Only model-checked: the liveness properties `Terminates`, `SentRunsEnd` and `NothingStays`, since
fairness is outside the prover's reach.

## 7. What is not modelled

The models cover about a third of the lines of implementation. Much of the rest keeps no state and
decides nothing over time: a generated file of recorded runs (`runs.generated.ts`, the longest of the
repository), layout, evaluation scripts, regular expressions, prompts, numerical operations. In detail:

- In `Pipeline`: values other than integers (booleans, availability per platform, terms), citations, the
  findings of `consistency.ts`, links, coverage, the command-line reference and the navigation. Which
  text is a number and which phrase names a fact is regular expressions; the model starts where they
  have matched. That a body may occur inside other text is left out: bodies are whole units.
- Prompts, and what the model writes: an input, chosen from the classes the code tells apart.
- Authentication of Concord's requests, its read-only views and its web pages.
- Relay: titles of conversations, downloads, the reseed after a reset (it begins where `Reset` ends),
  chart and schema checks, retention days, which no code enforces, and the update of a conversation's
  time (`conversations.ts` 215), which a later one may overtake. Other visitors: rows are selected by
  owner, and a foreign id reads like an unknown one.
- In the Relay clients: banners, the preview and the rows of a result, narration and the browser's
  stream of a conversation, the cached limit on uploads, and what the terminal prints.
- In the Relay kernel: the numerical operations, which are one synchronous call, and the probe of
  what the container can reach. The resolvers of facts that are read from source files and schemas.
- The development fallback without a queue (`waitUntil`): the same executor without redelivery.
- Facts that appear or vanish between snapshots in `SnapshotLedger` (`Authority` has them), and the
  readers that pair a run with a snapshot (`latestContext`).
- Two runs that spend from one daily cap at once: `AiPhases` has one run, to which what others spent
  before it started is `MaxPrior`. No sentence of the code bounds their sum.
- After a `doc_body` mutation a draft for the mutated body becomes the whole file (`run.ts` 419-424), in
  the pull request too. `Pipeline` has the step and `PublishedIsProposed` leaves that file out.
- GitHub is modelled from the way `github.ts` uses it; so are the queue from `index.ts` and
  `wrangler.jsonc`, and D1, R2 and the AI SDK from the way Relay uses them.

## 8. The plan

Done: `FanOut`, `AiPhases`, `LiveRuns`, `SnapshotLedger`, `Publish`; the Relay worker with conversations,
its clients and its kernel; authority, classification and the composition of patches; proofs of every
safety property. What is left:

1. **Two runs over one ledger** of model calls, in `AiPhases`, if a bound on their sum is ever stated.
2. **Readers**: `latestContext` pairing a run with a snapshot, in `SnapshotLedger`.
3. **Other values** in `Pipeline`: availability per platform and terms, with their own conflicts.
4. **The browser's stream** of a conversation, in `RelayWeb`, against `RelayChat`.
