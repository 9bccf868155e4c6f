# Verification of evaluation jobs, revision decisions and held recovery

The repository is a writing platform: an author uploads a manuscript, an
evaluation runs over it for up to two hours in phases (structure, story ledger,
diagnosis, synthesis), a long-form document is written about it, and the author
decides on the revision opportunities that were found and applies the decisions
to a new version. All of this runs on serverless functions that are killed
without notice and called by cron and by browsers at any time, so everything the
system knows between two steps is in the database. What can go wrong is in that
part, and this directory models it.

The modules are TLA+; TLC checks the runs below on small instances, TLAPS checks
the theorems for every value of the constants. PROJECT.json maps each definition
to the lines it models.

## Inventory

The parts share nothing but the database: there are no messages between them,
only rows that one writes and another reads later. The worker route rescues,
claims and runs evaluation jobs; a completed job is what the synthesis worker
looks for; its result is what the queue of revision opportunities is built from;
the author's decisions on them go to the ledger, which Final Review reads; an
opportunity that is held back goes through held recovery.

### Evaluation jobs

| Part | State | Operations | Where it is hard |
| --- | --- | --- | --- |
| Job row (`supabase/migrations`: `evaluation_jobs`, its triggers and CHECKs) | status, phase, phase_status, claim (claimed_by, lease_token, lease_until), pulse and heartbeat, counters, failure_code, completed_at | every UPDATE: runtime-cap trigger, phase_status trigger, CHECK constraints, updated_at touch | a trigger may refuse an UPDATE or rewrite it; callers expect neither |
| Workers (`lib/evaluation/processor.ts`, `persistEvaluationResultV2.ts`, RPCs) | the row they read at the start: owner, token, phase | claim, begin, renew, pulse, mark running, save artifact, hand off, retry, reject, persist, fail | a worker that lost its job goes on; some writes check the token, some the status, some neither |
| Sweeps (`app/api/workers/watchdog`, `failStaleRunningJobs`, `terminalizeQueuedHardStops`, kill switch, self-recovery, SQL sweepers) | the candidates of a scan | rescue, fail, promote and fail, recover, stamp | decision and write are separate statements; ten sweeps with different criteria overlap |
| Controls (cancel, emergency halt, resume, admin retry, ledger rejection, failed kickoff, cost cap) | the claim a cancellation took | as named | several statements without a transaction; each chooses the phase to restart in |
| Claim batch (`claim_evaluation_jobs`, `processQueuedJobs`) | the rows an invocation will rescue, and those of its batch it has not begun | rescue, requeue, recover, claim a batch, begin, hand off, complete, fail, pass over | a batch waits under one token while its first job runs, and other invocations rescue and claim from it |
| Narrative synthesis (`process-dream` and the routes around it) | budget anchor, progress, document, audit | find, clear stubs, pick, anchor, preflight, call, store, judge, store the audit, write progress; poll, retry, skip, stub | nothing is claimed; progress is read and written back as a whole; stubs are found in one statement and deleted by job and type in another |

What makes these correct: a completed evaluation stays complete; the job never
works on a phase without the checkpoint that phase reads; a worker with a valid
token works on the phase the row is in; the result and the completion commit
together; a failure has a code, because recovery goes by the code; past two hours
nothing is started or extended; a job whose worker was killed does not stay running; a job that can
be claimed is claimed; cancellations and halts hold; a job is shown ready only
when it was audited, a document stays, and spending on a document ends.

### Revision decisions

| Part | State | Operations | Where it is hard |
| --- | --- | --- | --- |
| Ledger (`lib/revision/ledger.ts`, `sync_revision_ledger_decisions_atomic`) | decisions by local id, with the edition they were made for | validate, lock, compare, upsert, undo | the queue is read before the transaction; an upsert keeps the time of the row it rewrites |
| Workbench tab (`ReviseCockpitClientWorkflowV2.tsx`) | the latest decisions it believes in, failed entries | decide, retry, reload | answers are lost, and a retry expects what is on display by then |
| TrustedPath (`lib/revision/trustedPath.ts`) | the entries it chose | load, leave out decided ones, sync | chooses before the transaction and states no expectation |
| Final Review (`finalReviewRuntime.ts`, `apply_final_review_once`) | the decisions and the queue it read; versions and their fingerprints | load, certify, lock, look up, insert | ledger and queue change between its reads; repeated and concurrent requests |

What makes these correct: a decision takes the place only of the one its author
saw; an accepted text is one that was offered; transactions do not wait for each
other for ever; what a request looked up before it stores a version is still so
when it does; a request is answered with the text it reviewed.

### Held recovery

A revision opportunity that a quality gate holds back because its place in the
manuscript is not known is a held item. Recovery attempts to locate it; an
attempt that cannot do so at once is to leave a work item behind, which a worker
picks up later.

| Part | State | Operations | Where it is hard |
| --- | --- | --- | --- |
| Work queue (`20260719120000_...reconstruction_work.sql`) | attempts, work items with status, claim token, lease | record and enqueue, claim, renew, complete, fail, supersede | leases are compared with the beginning of a transaction; supersession asks for no token |
| Reconstruction runs (`heldRecoveryReconstructionWorker.ts` and its adapter) | the claim a run holds, whether its heartbeat lost it | claim, heartbeat, reconstruct, complete, fail, supersede | runs are killed, answers are lost, calls come late |
| Initiation (`heldRecoveryProductionInitiationCaller.ts`; as far as the queue sees it) | the version of the held item it loaded | load, record, create the authority | the version is loaded before the transaction; an authority is bound to one version for good |
| Continuation (`heldRecoveryReconstructionProductionCaller.ts`) and authority (`20260719233000_...initial_queue_authority.sql`) | the completed work a run resumes; the state of the held item's authority | look up completed work, run the worker, recover, reclassify | comes after the initiation in one `try`; completed work goes before new claims |

The cron route runs an initiation and then a continuation for one job on every
tick; ticks overlap.

What makes this part correct: an item is completed or failed only for the run
that holds it; one run is told so at most and its report stays true; the newest
version of a held item is the last to complete; where nothing fails closed, no item
is stuck and no completed one is forgotten.

### Not modelled

| Part | Why |
| --- | --- |
| Job creation | One INSERT after checks that reserve nothing; what it does to a job that exists (failed kickoff) is in `JobControls`. |
| Held recovery: retry schedule, contents of anchors and readmission | Reached only through an accepted hand-over, which the database refuses at this commit (the run `handoff`); the retry schedule has no caller in the deployed routes. The steps of the authority are in `ReconstructionWorkers`. |
| Revision sessions and change proposals | The older path: one guarded status update and a pure text function. The product's path is the ledger and Final Review; that a session may take the version number a Final Review is about to use is one of the reasons for `ApplyFails`. |
| Manuscript chunk claims | `claimChunkForProcessing` is reached from a script only: no two workers meet there. |
| Chunk checkpoints of phases 1 and 2 | A cache: what is missing is computed again. |
| Artifact staleness | A trigger over a static graph; nothing in the product acts on freshness_status. |
| Legacy job store, its finalizer and admin routes | No longer what the cron routes run. |
| Rate limits, back-pressure | Count in one process's memory or read the queue's depth, and reserve nothing. |
| Progress reporting, phase prerequisites | Numbers for display; write nothing the modelled parts read. (The poll that does write is in `NarrativeSynthesis`.) |
| Provider-call idempotency | One unique key. |
| Manuscript deletion | One transaction under row locks, idempotent through its tombstones; to a worker, a row that is gone is an UPDATE that matches nothing. |
| LLM passes, quality gates, report rendering | Text in, text out: their verdicts are choices of the worker's actions. They are by far most of the repository's lines, with the user interface. |
| Report shares, agent readiness, storygate, payments, UI | Single-row reads and writes behind access checks, and display. |

## Modules

| Module | Models |
| --- | --- |
| `JobRow` | a row of `evaluation_jobs` and `Update(r, n)`: what the database stores when a statement asks for row `n` over row `r`, or `r` if it raises. No variables. |
| `JobTable` | the shared database: `job`, `artifacts`, `UpdateWhere`, the resume phase, and time as timestamps growing old |
| `EvaluationWorkers` | workers; `worker[w]` is what an invocation remembers between two statements |
| `RecoverySweeps` | sweeps; `sweep[s]` is a decision taken by a scan and not carried out yet |
| `JobControls` | requests; `cancel` is the cancellation or terminal failure under way |
| `EvaluationJobs` | the composition, fairness, and the properties |
| `ClaimQueue` | several rows and the invocations of `processQueuedJobs` that overlap over them, on the row semantics of `JobRow` |
| `NarrativeSynthesis` | completed long-form jobs, overlapping ticks of the synthesis worker, and the requests that look at a synthesis or ask for it again |
| `RevisionLedger` | queue editions, stored decisions, and the sync call with its transaction statement by statement |
| `ReviseWorkbench` | the tabs and TrustedPath, who make the calls |
| `FinalReview` | requests and versions over the two modules before, fairness and properties |
| `ReconstructionQueue` | attempts, work items, the authority of held items, and what each RPC does to them and answers |
| `ReconstructionWorkers` | the continuations of cron ticks over the queue, calls on the way, fairness and properties |
| `JobLifecycle` | what an evaluation job's life is to whoever reads its row: no leases, heartbeats, artifacts or actors. `EvaluationJobs` and `ClaimQueue` implement it |
| `DecisionBook` | what the decision ledger is to those who write in it: no locks, times or statements; a request's decisions are entered at once. `FinalReview` implements it |
| `WorkQueue` | what a queue of leased work items promises: no leases, clocks or lost calls. `ReconstructionWorkers` implements it |
| `MCEvaluationJobs`, `MCFinalReview`, `MCReconstructionWorkers` | model values and symmetry for TLC |
| `JobRow_proofs`, `EvaluationJobs_proofs`, `EvaluationCheckpoints_proofs`, `ClaimQueue_proofs`, `NarrativeSynthesis_proofs`, `FinalReview_proofs`, `ReconstructionWorkers_proofs`, `ReconstructionRefinement` | lemmas and theorems |

One action is one statement (or one transaction) the program sends to the
database, with the WHERE clause as its guard and the SET list as the row asked
for; everything between two statements is an interleaving point. An action's
name is the function's or the event's. A field of the record `Row` of `JobRow` is
a column, or several that every writer sets together, kept as what the code
compares it with:

| Field | Column(s) | Values |
| --- | --- | --- |
| `owner` | claimed_by and lease_token | a token or `NoToken` |
| `lease`, `pulse`, `beat` | lease_until, worker_pulse_at, last_heartbeat_at | none, live/fresh, lapsed/stale |
| `quiet` | updated_at older than 75 minutes | cleared by every write |
| `aged` | created_at older than two hours and no unexpired admin authorization | never cleared |
| `stamped` | completed_at is set | |
| `cause` | failure_code, as the class recovery tells apart | |
| `attempts`, `recoveries`, `retries` | attempt_count, progress.self_recovery_count, progress.phase_3_retry_count | up to their limits |

`artifacts` holds the types stored in `evaluation_artifacts` for the job that
some decision reads: chunk cache, ledger, accepted ledger, hand-off, result.

### What is simplified

In the job row and its actors (`EvaluationJobs`):

* One job. A claim's batch is one row; claims by phase and by id are one action
  guarded by either's WHERE clause. Several rows are `ClaimQueue`'s subject.
* `attempt_count` is compared with its limit and with nothing above it, so
  `Bump` stops at the limit; the code goes on counting, and no decision tells the
  difference. `_admin_stop` excludes a row from both claims, and nothing in the
  repository sets it.
* `next_attempt_at` (a delay), `retry_count` (nothing increments it, so the
  claim's retry cap never bites), `completed_units`, and messages are left out.
* `progress.phase` mostly repeats the column; where it may differ (before phase 0
  has ended, after phase 2's hand-off) the pass that reads it gets either value
  (`ProgressPhase`). Where a guard goes by a history kept in
  `progress` or by elapsed times (the frozen pass's same-code rule, the
  preflight and phase-1a timeouts, the SLA of a queued job), each outcome is possible.
* The review gate is switched off (`STORY_LEDGER_APPROVAL_ENABLED`), as
  deployed: phase 1a hands on to phase 2. A row parked at the gate by an earlier
  deployment is an initial state, for the pass that repairs it.
* The WAVE-only path, the FIPOC kick, the hand-off repair budgets, seed and
  preflight artifacts and the POST_PHASE0 reset are not modelled. Phase 1a's
  auto-accept of the ledger and the hand-off after it are one action.
* The rescues of both stale-job passes read a candidate again, for its phase and
  its attempts, between scan and write: `Rereads` is a step of its own, and
  `RequeueRescued` writes what it saw, by id and status.
* One cancellation or terminal failure is under way at a time. `FailTerminally`,
  the write of a failed kickoff or of an exceeded cost cap, may come at any time.
* The kill switch waits for two hours of quiet; it uses the 75-minute flag.
* A pulse cannot go stale between a watchdog's idle scan and its write
  (`IdleScanOpen`): the cutoff is the scan's, and the whole invocation is about as
  long as the threshold.
* With one job each claim draws a fresh token (`FreshTokens`).

In the claim batch (`ClaimQueue`):

* Phases 2 and 3 only, one that hands over and one that completes. The sweeps of
  the watchdog, the kill switch, the split-brain heal, the failing half of the
  queued hard stop, claims by id and SKIP LOCKED are left out: they are
  `EvaluationJobs`' (a row skipped because it is locked is a smaller batch).
* `RETURNING` gives the batch in no stated order, so `todo` is a set.
* A lease lapses only when nobody attends to the job: a claim's lease lasts 800
  seconds (`processor.ts:12625-12636`), which is as long as the platform lets an
  invocation run, and a job in progress renews. A deployment that configures a
  shorter lease is not modelled.

In the synthesis (`NarrativeSynthesis`):

* The anchor `synthesis_started_at` with its twelve minutes is unset, open or
  spent; WARN passes. `last_error` and the `synthesis_status` made of it are shown
  and decide nothing: they are left out.
* The statements about documents are steps of their own: reading all documents and
  stubs (`Finds`), deleting by job and type for each stub found (`Clears`), picking
  (`Picks`), the preflight's read (`Preflight`) and its delete (`PreflightClears`),
  the audit's read with the judgement (`Judges`) and its write (`StoresAudit`). A
  real document that another tick stores between read and delete is deleted with
  what was to be a stub. That takes a stub, which operators' tooling leaves behind:
  `marked` remembers, for the properties only, that a job ever had one.
* A stub is put only where no document is. A cancelled job is not complete, so the
  worker's check for one finds nothing. The circuit breaker is off by default. A read
  of `progress` that fails and is taken for empty, and the second call after a
  truncated answer, are left out.
* Jobs are long-form ones; `pass3_completed_at` is always there, from the
  evaluation's own documents. The retry route's flags are read by nobody.

In the ledger and Final Review:

* One manuscript, one evaluation, one ledger owner; requests of Final Review may
  come from its author or from an operator.
* One sync under way per tab (the page starts one for each decision without
  waiting for the last; two tabs show what two calls at once can do to each other),
  and a lost answer means that the call is over by the time the tab retries.
* `apply_final_review_once` is three statements: it takes the manuscript's advisory
  lock, which it keeps, looks for a run with its fingerprint, and inserts version
  and run, where the unique index has the last word. Failures anywhere are
  `ApplyFails`: among them a version number that a revision session has used, since
  `createDerivedVersion` (`lib/manuscripts/versions.ts`) takes numbers without the
  lock that is to serialize "all derived-version allocation"
  (`20260713120000_...sql:49`). The model has no session.
* The fingerprint also hashes the counts of the completion certificate, which could
  only tell more requests apart; the model's is the changes and who certified them.
* TrustedPath's mode and cross-check gates, metrics, exports, the run log, and
  the completion artifact are left out; where a passage is found in the text is
  the possibility that a request is blocked.
* Undo rows come from the API and from earlier deployments; no reader of the
  modelled parts looks at them (`undone` is written and not read).

In the reconstruction queue:

* An attempt is named by its idempotency key, a hash over the version of the held
  item: `Attempts` are versions, `HeldItemOf` says of which held item. A work item
  has its attempt's name. A repeated recording finds the attempt and writes
  nothing, so it is no action; a version's attempt is recorded once.
* The claim token is a fresh uuid; the model numbers the claims.
* A lease is live or expired. `now()` is the beginning of a transaction, so a call
  is judged by any moment since it was sent (`InLease`, `early`).
* `earlier[a]` is the order of `created_at`, the beginning of the recording
  transactions, which need not be the order in which they commit. Ties are left out.
* A run that is killed, or whose call throws, ends without an answer. The call may
  have been carried out, never arrive, or arrive later: then it is in `adrift`.
* The completion fingerprint of an item is always the same, since the production
  reconstruction returns the location of the claim, so `idempotency_conflict` does
  not occur.
* All items belong to the opportunities the job's claims are restricted to.
* `authority[h]` is the row of `held_recovery_queue_items`: the attempt it was
  created for (`bound`) and its state. The initiation of a tick creates it or finds
  it, and throws when the held item has since moved to another version; the
  continuation in the same `try` is then not reached. It also returns without a word
  when no item is held, or more than one, so a run may start in any state
  (`LooksUp`), and is sure to where the initiation passes (`InitiationPasses`).
* A run first looks for completed work that is not reclassified (`Resumable`): with
  one such item it resumes that and claims nothing, with two it throws. Whatever
  anchor and readmission may object to ends the run (`Dies`).
* `ExecutorResult` is the result the hand-over is given. The run `handoff` gives it
  the shape the recorder really sends, and the database refuses every one. The run
  `reconstruction` and the theorems ask what the queue would do with the shape it
  accepts (`PermittedResult`); at this commit nothing brings an item into it.

## Runs

In `EvaluationJobs`, `Clocks`, `Daemons` and `Controls` say which timestamps age,
which sweeps run and which requests are made, so that an instance has the parts
its question needs.

| Run | Instance | Shows | States |
| --- | --- | --- | --- |
| `workers` | 2 workers, 1 sweep, 4 tokens, leases, pulses and heartbeats | TypeOK, CheckpointsInPlace, OwnerRunsRowsPhase, PersistedIsComplete, CompleteIsFinal with overlapping workers, lost leases, late writes, crashes, rescues of the stale, resumes and administrative retries; FollowsLifecycle: the refinement | 1,653,875 |
| `controls` | 1 worker, 1 sweep, all requests, six daemons, the cap and the quiet clock | CheckpointsInPlace, FailedIsExplained, PersistedIsComplete, CapIsNeverExtended under every request, with failed kickoffs and exceeded cost caps | 3,832,720 |
| `abandoned` | 1 worker, 1 sweep, fairness | AbandonedIsRescued: killed worker or killed cancellation, the job does not stay running | 283,448 |
| `halted` | worker, self-recovery, emergency halt | violated: self-recovery undoes the halt | |
| `queue` | 2 jobs, 2 invocations, batches of 2, nobody killed | TypeOK, RunningIsServed: rescues, claims and late writes never leave a job running with nobody to run it; FollowsLifecycle: the refinement, with jobs that pass the cap | 2,626,147 |
| `queue_liveness` | 2 jobs, 1 invocation, batch of 1, 1 crash, fairness | LostIsFound: a job claimed by an invocation that was killed does not stay running. QueueMoves: a job waits for ever neither for older ones nor for one past the cap | 232,269 |
| `synthesis` | 2 jobs, 2 ticks, 1 request, fairness | TypeOK, ReadyIsAudited, DocumentIsKept, SpendEnds, OldestIsDecided with overlapping, failing and killed ticks, stubs found and deleted, and progress written back late | 437,376 |
| `decisions` | 2 opportunities, 1 tab, 2 TrustedPath runs, 3 transactions, fairness | TypeOK, DisplacesWhatItSaw, EverySyncEnds with transactions that overlap statement by statement | 989,472 |
| `final_review` | 1 opportunity in 2 editions, 1 tab, 2 TrustedPath runs, 2 requests, 2 transactions, 2 versions | AcceptedWasOffered, LookupStaysTrue, AnsweredAsReviewed while the ledger and the queue change between a request's reads and two requests apply at once; SyncsAreAtomic: the refinement | 1,914,540 |
| `overwritten` | 1 opportunity, 1 tab, 1 TrustedPath run | violated: TrustedPath overwrites a decision | |
| `reconstruction` | 2 runs, 2 versions of one held item, fairness | TypeOK, EndedByItsHolder, ReportIsTrue, CompletedOnce, NewestCompletesLast, EveryItemEnds, CompletionIsTakenUp with expiring leases, killed runs, lost answers, late calls, and a version that may move after its authority was created; IsAWorkQueue: the refinement | 1,227,352 |
| `handoff` | the same with the result the recorder sends | violated: no hand-over is ever accepted | |

The three violations are described, with the lines they contradict, in
PROJECT.json under "findings".

Refinement. `FollowsLifecycle` is `JobLifecycle` with the row's status for `state`;
the owner and the phase of a running row for `tenure`; the tokens that the row, a
worker, a sweep's decision or a pending cancellation still holds for the job as
`spoken`; and `aged` for `late`. One step of the abstract module moves any number of
jobs, since a claim starts a whole batch; renewals, lost leases, refused writes and
everything about artifacts are stutters, and a write that comes late is `Fails`,
`Requeues` or `Completes` of whatever run it meets. The run `workers` has no cap
clock: past the cap the refinement is checked in `queue`, and proved for both.

`IsAWorkQueue` is `WorkQueue` with the status of each item for `state`,
its claims for `taken`, the claims that a run or a call adrift can still speak for
as `tickets`, and the items of which a later attempt exists as `barred`. A
heartbeat, a lease that expires and a refused call are stutters; a call that is
carried out late is a `Finish` with a ticket still held.

`SyncsAreAtomic` is `DecisionBook` with the id of the latest decision of each
opportunity for `inForce`, the stored rows without their times and editions for
`entered`, and the entries of the call each client has under way for `asked`. A call
that is made, refused or given up is `Asks`, the statement that writes is `Enters`,
and the transaction that begins, takes its locks and compares is a run of stutters. A
decision entered again under its id keeps its time, so it is not in force again: the
abstract module says no more of it. It is checked in `final_review` only; over two
opportunities, in `decisions`, TLC agrees too but the run would take half its time for it.

### Bounds

* Two workers are what it takes for one to lose a job to another: the row has one
  owner, and a third worker only repeats the second's part. A token must be
  available for every claim that may be remembered: one on the row, one per
  worker, one for the sweep or the cancellation. Limits of 0 or 1 for the counters
  reach both sides of every comparison with them. One sweeper suffices for
  decisions that grow stale, since every other actor moves between its scan and its
  write; two sweepers racing each other are not checked (the theorems hold for any
  number).
* In `queue`, two invocations and a batch of both jobs let the second rescue, claim
  and finish what waits in the first one's batch, and five tokens are one for each
  row and invocation and one fresh. `RunningIsServed` is stated for as long as nobody
  is killed; `queue_liveness` kills the only invocation at any statement, and
  the next one finds what it left. A batch of one and an older job that returns to the
  queue, or has passed the cap, is the worst case for the younger one.
* In `synthesis`, two ticks are what it takes for one to write after another has
  stored; a second job is what an unfinished first one may starve. One request is
  enough to hold a copy of progress across any of the ticks' steps, or to put the stub
  that one tick deletes after the other has stored its document.
* In `decisions`, two opportunities and two TrustedPath runs besides the tab let two
  transactions want each other's locks; three transactions let a decision be made,
  overwritten and decided upon again. In `final_review`, one opportunity with two
  editions is rebuilt between any two of a request's reads, and two transactions
  change the ledger beside it; two requests meet at the lock and in the two versions
  there may be.
* In `reconstruction`, two claims per item and one call adrift let an item be taken
  over once and be hit by a call of its first claim while the second is at work, or
  after it is over; with two versions of a held item either may be loaded, recorded,
  claimed and completed first. Items of different held items meet only in the order
  of claims.

Deadlock checking is off throughout: a job that is complete, or failed with a code
nobody recovers, items that have all ended, and transactions used up are where the
system, or the instance, is meant to stop. What must not stop is stated as a
liveness property.

### Fairness

* `abandoned`: cron calls the watchdog and the worker route every few minutes, so
  each sweep's scan and write is weakly fair (`vercel.json` holds the schedules),
  and a timestamp nobody refreshes grows old. Workers and requests get none: a
  worker may be killed and a person may do nothing.
* `queue_liveness`: the route is called every minute and the platform ends every
  invocation, by its own steps or killed (`Starts`, `Serves`); timestamps nobody
  writes grow old; a row past the cap, which every claim leaves as it was, goes quiet
  after 75 minutes. Whether a job reaches the cap at all is left open.
* `synthesis`: cron keeps calling (`Finds`), an invocation goes on until it is ended
  (`Works`, which a kill may pre-empt), time passes (`BudgetRunsOut`). `Begin` is
  strongly fair: the statement that anchors the budget, tried by every tick, is not
  the one that the platform kills or the network fails every time. Without that
  assumption no budget need ever be opened.
* `decisions`: the database goes on with a transaction that has begun (`Locks`,
  `Checks`, the writes). Browsers get none.
* `reconstruction`: cron calls on, and where the initiation passes the tick gets to
  its continuation (weak fairness of `InitiationPasses /\ LooksUp`: a tick whose
  initiation throws is owed nothing); a run ends within its function's time limit, by
  its own steps or killed (`Proceeds`, which includes `Dies`); a lease that no run
  renews expires. `Claim` is strongly fair: of the runs that get as far as claiming,
  not every one is killed just before, or finds what is due locked. The heartbeat,
  the readmission and the versions get none. The liveness properties say on what they
  rest: `EveryItemEnds` that from some time on the held items stay in the versions
  their authority is bound to, and no completed work comes first; it excepts an item
  at its bound of claims and expired, which the code would go on claiming and the
  model cannot. `CompletionIsTakenUp` that the items stay in their versions and one
  alone has completed work: it then is taken up again until it is reclassified. Where
  these conditions fail, the code fails closed and promises nothing.

## Theorems

For any sets of workers, sweeps, jobs, invocations, tabs, requests, opportunities,
versions and tokens, any bounds and any choice of clocks, daemons and requests,
under the named assumptions of the modules (`BoundsAssumption`, `TokenAssumption`,
`FailureCausesAssumption`, `QueueAssumption`, `WorkersAssumption`,
`LedgerAssumption`, `WorkbenchAssumption`, `ReviewAssumption`), which say that
limits are numbers, names are distinct, and a function has its domain:

| Module | Theorem | States |
| --- | --- | --- |
| `EvaluationJobs_proofs` | `TypeCorrect` | `Spec => []TypeOK` |
| | `FailedExplained` | `Spec => []FailedIsExplained` |
| | `CompleteForever` | `Spec => CompleteIsFinal` |
| | `CapHolds` | `Spec => CapIsNeverExtended` |
| | `OwnersPhase` | `Spec => []OwnerRunsRowsPhase` |
| | `PersistedComplete` | `Spec => []PersistedIsComplete` |
| | `JobLivesAsPromised` | `Spec => FollowsLifecycle` |
| `EvaluationCheckpoints_proofs` | `CheckpointsHeld` | `Spec => []CheckpointsInPlace` |
| `ClaimQueue_proofs` | `TypeCorrect`, `RunningServed` | `Spec => []TypeOK`, `Spec => []RunningIsServed` |
| | `JobsLiveAsPromised` | `Spec => FollowsLifecycle` |
| `NarrativeSynthesis_proofs` | `TypeCorrect`, `ReadyAudited` | `Spec => []TypeOK`, `Spec => []ReadyIsAudited` |
| | `DocumentKept` | `Spec => DocumentIsKept` |
| `FinalReview_proofs` | `TypeCorrect`, `AcceptedOffered` | `Spec => []TypeOK`, `Spec => []AcceptedWasOffered` |
| | `LookupHolds`, `Answered` | `Spec => []LookupStaysTrue`, `Spec => []AnsweredAsReviewed` |
| | `Displaces` | `Spec => DisplacesWhatItSaw` |
| | `CallsAreAtomic` | `Spec => SyncsAreAtomic` |
| `ReconstructionWorkers_proofs` | `TypeCorrect`, `HolderEnds` | `Spec => []TypeOK`, `Spec => EndedByItsHolder` |
| | `ReportsHold`, `OneCompletion` | `Spec => []ReportIsTrue`, `Spec => []CompletedOnce` |
| | `NewestLast` | `Spec => NewestCompletesLast` |
| `ReconstructionRefinement` | `Implements` | `Spec => IsAWorkQueue` |

**Evaluation jobs.** `JobRow_proofs` says what the database makes of any UPDATE
(`UpdateOutcome`, `CompleteStays`, `UpdateExplained`, `CapStops`).
`EvaluationJobs_proofs` shows that every step is one of three kinds
(`StepKinds`): it sends one UPDATE, or none, for a row that `Sends` describes; it
commits a result; or a timestamp ages. The theorems then look at the kinds, not
at the actions. The inductive invariant `IInv` adds to the types:
* the status and phase_status of the row agree (the CHECK constraint): without it
  a row that is complete in one and not in the other could be reopened through
  the phase_status trigger, and `kill_stale_evaluation_jobs`, which writes failed
  without a code, could fail a job that has none;
* every code that is about to be written exists (`CodesKnown`): a worker's pending
  fallback write and a pending cancellation carry theirs from an earlier step;
* nobody works on a parked row (`ParkedIsUnattended`): awaiting_approval is the one
  value from which a completion past the cap would pass the triggers;
* a running row is claimed (a CHECK constraint), and its owner's worker is in its
  phase (`OwnerRunsRowsPhase` itself): a row gets to running only under a token that
  nobody remembers, or stays running under its owner in its phase (`RunsOnOrFresh`).

`PersistedComplete` follows since only the persistence transaction stores a result
(`ResultIsPersisted`), which completes the job or finds it past the cap
(`ChainOutcome`), and a job never comes back below the cap (`AgedStays`).
`JobLivesAsPromised` rests on the same kinds of step: what an UPDATE makes of a
row's status is read off what it asks for (`LifeStep`), a run's owner is the one it
had or a fresh one (`OwnerStays`), and whoever remembers a token found it on the row
(`HeldStays`), so that a claim is the only step after which a token is spoken for that
was not before. `CheckpointsHeld` has an
invariant of its own, `CInv`: checkpoints are stored in the order of the phases
(`Ordered`); whatever is in phase 3, be it the job, a worker, or a decision to requeue,
finds the hand-off (`Placed`, `DecisionPlaced`); and what a decision was taken on is
still stored when it is written, since nothing deletes a checkpoint. It holds with all
requests, sweeps and clocks together. It makes no claim about entering phase 2: the
rescue of a stale job does send one there that has no ledger (see below), and the gate
at its start, which accepts the ledger or fails the job (`AcceptLedger`, `Needs`), is
why nothing comes of it.

**Claim queue.** `RunningIsServed` speaks of rows and of what invocations remember,
and a sweep writes a row by its id and status. The invariant (`IInv`) says why that
is harmless while nobody is killed: every running job is in somebody's batch, or
worked on under its row's token, and its lease is live. Each row meets the CHECK
constraints (`RowOK`), so that what a write leaves of a running row can be read off
what it asks for (`Stops`): a row written by another is either taken from its batch
for good, or claimed again into one. For `JobsLiveAsPromised` a step writes a row in
one of three ways (`RowSteps`): it claims it among a batch, it completes it, or it
asks for a row whose status, owner and phase follow from the one it found
(`AskedStep`); and an invocation that begins a job speaks for the token on its row
already (`SpokenStays`).

**Narrative synthesis.** Progress is written back from copies, so the readiness
formula may be fed a verdict of long ago. The invariant gives every such verdict a
stored audit: a verdict in progress or in a copy of it is of a stored audit, and an
audit was of a document that is still there, or whose job was marked. A tick that has
a stub on its list has it from a job that was marked (`Fits`), which is all that
stands between its delete by job and type and somebody else's document; no step takes
away an audit, or the document of a job without the mark (`Grows`).

**Ledger and Final Review.** An id is drawn once and belongs to one opportunity
from then on (`OneOppPerId`, `OwnIds`), which makes the upsert by local id harmless;
the decisions of an opportunity differ in time (`Times`), since whoever writes holds
its lock (`Locked`); what a call compared is still so when it writes (`Checked`), and
entries are sent as the tab saw them (`SentAsSeen`), which gives `Displaces`; an
acceptance was offered in the edition it will be stored with (`Offered`); a stored
version's text is that of its fingerprint (`VersionsMatch`), which gives `Answered`;
one request at a time has the lock (`OneHasLock`), and a version is stored by none
that has not got it, which gives `LookupHolds`.
`CallsAreAtomic` also needs that what a tab takes for the latest decision is stored,
and older than the transaction that is to displace it (`SeenIsStored`): a new decision
of a tab then has the latest time of all (`NewLeads`), though TrustedPath's may come
behind a decision whose transaction began later and wrote first. A decision whose id
is known keeps its time and so its place in the order (`KnownKeeps`).

**Reconstruction.** A step leaves the items alone or moves one of them in one of four
ways: it is recorded, leased, claimed or ended (`StepMoves`); and it changes at
most one run, which goes on, takes an item, gets no answer, or reports what is
true (`StepRuns`); the authority moves beside that. The invariant adds to the types, ReportIsTrue and
CompletedOnce:
* a work item exists only when its attempt is recorded (`ItemsAreRecorded`):
  otherwise recording could put an ended item back to pending, and an item that has
  completed would not count as a later attempt;
* a running item has the token of its last claim (`TokenIsLatest`): this is what
  makes a late call of an earlier claim fail;
* runs and late calls are about items that exist (`WorkExists`), since supersession
  looks at the status only.
ReportIsTrue gives CompletedOnce: who is told "completed" found the item not yet
completed, so no report of it can have been made. `Implements` takes the same
invariant and shows each action to be an action of `WorkQueue` or a stutter; what
there is to show is that a step adds no ticket but that of a claim.

Every safety property that a passing run checks is proved, and so are the four
refinements. Only model-checked are the liveness properties (`AbandonedIsRescued`,
`LostIsFound`, `QueueMoves`, `SpendEnds`, `OldestIsDecided`, `EverySyncEnds`,
`EveryItemEnds`, `CompletionIsTakenUp`): the prover reasons neither about fairness nor about ENABLED. No
module declares a RECURSIVE operator.

## What reading the code showed

Besides the three findings, the modelling met these places where the code does
something its text, or a caller, does not expect. The ones that belong to a
modelled part are behaviours of the modules, and the properties are stated so that
they hold in spite of them; none has a run of its own.

Evaluation jobs:

* One row past the two-hour cap makes the single UPDATE of `claim_evaluation_jobs`
  raise for its whole batch, and `processQueuedJobs` then gives up
  (`processor.ts:12976-12990`); the claim's own pick looks at `updated_at` only. Such
  a row is first in every later claim, and the queue goes on when it has been quiet
  for 75 minutes. `QueueMoves` holds because it then does; self-recovery can put the
  row back as often as its count allows.
* `docs/JOB_CONTRACT_v1.md` names complete and failed as the terminal states and rules
  out every transition from failed and the one from queued to complete. Recovery,
  resume and retry revive a failed job, and a late persistence completes one that has
  failed or been requeued. What is left of the contract, and holds, is `JobLifecycle`.
* A rejected result leaves the failed row owned (`persistEvaluationResultV2.ts:687`).
* Late writes that go by the job's id (`processor.ts:10641`, `4839`, and the
  persistence) requeue a job the author cancelled.
* A queued job past the cap is refused by its own sweeper's promotion to running, and
  the persistence of a finished job past the cap stores the result while the trigger
  fails the row: this is why `PersistedIsComplete` excepts jobs past the cap.
* `kill_stale_evaluation_jobs` stamps `completed_at`, which no claim accepts, so a job
  resumed after it waits for ever; and it fails as a whole when one of its rows is refused.
* The rescue of a stale job goes by `progress.phase` and takes a job with a chunk cache
  and no ledger to `phase_2` when that does not say phase_1a, as after an administrative
  retry of a job that a late phase-0 worker had failed. Phase 2's gate finds no ledger to
  accept and fails the job for good (POLICY_VIOLATION_PHASE2_UPSTREAM_INPUT). `CheckpointsInPlace` is stated for what lies behind
  that gate.
* Two workers under one token are possible, since the second adopts the token on
  the row (`docs/SQL_CONCURRENCY_MECHANISM.md:243-245` rules it out). Two self-recovery
  sweeps that read the same count lose one. The review gate's rejection is refused by
  the trigger. The attempt limit is looked at by the heartbeat pass only.
* The kickoff waits five seconds for an answer the worker gives when it is done, so
  a job may be failed with `WORKER_KICKOFF_FAILED` under its running worker. Neither
  that code nor `COST_CAP_EXCEEDED` is terminal to self-recovery, which starts the job
  again though the user was told otherwise.
* Two concurrent creations make two active jobs: the check
  (`app/api/jobs/route.ts:650-680`) precedes the INSERT, and the unique index
  `uq_eval_jobs_active_phase1`, which a pull request's text credits with catching it,
  covers `phase_1` while jobs start in `phase_0`. The free-diagnostic claim is
  inserted before the job and remains when the creation fails.
* Rolling upserts of the chunk caches may land out of order, so the cache can shrink,
  though a comment near `processor.ts:9976` says it never does. It is only a cache.

Narrative synthesis (each is a behaviour of the module, unless it says otherwise):

* A job whose budget is spent stays the oldest pending one, and every tick picks it
  and nothing else, though it is logged as skipped (`process-dream/route.ts:403-405`).
  `OldestIsDecided` is what holds; that the younger jobs are served does not. A retry
  is answered with 202 and does nothing, since the anchor is not reset.
* An invocation that ends between the document and its audit leaves a job that no
  tick picks again: `dream_ready` stays false for good, and a retry answers that all is
  complete. 750 s for a call and 90 s for the audit exceed the 800 s there are.
* A tick that has read a stub deletes by job and type, whatever is there by then: the
  document another tick has stored and audited goes, the job stays ready without it,
  and is synthesised again. Preflight does the same, for the race that its comment names
  (`process-dream/route.ts:687`). Without the exception for marked jobs TLC finds both
  `ReadyIsAudited` and `DocumentIsKept` violated, the second in eleven steps: a tick
  reads the stub, another one clears it, stores its document, and the first one deletes
  it. No run is spent on it, since no text of the repository rules it out.
* Skipping replaces the whole of `progress`, counters included, of a job in any
  status; the word count it erases makes `dream_ready` true without an audit
  (`ReadyIsAudited` speaks of the jobs still known to be long), and the worker does not
  look at the flag.
* Overlapping ticks may run several syntheses of one job; the audit in `progress` may
  differ from the stored one and readiness may be withdrawn. A tick's error overwrites
  or clears another's. Polls write a copy of `progress` back each time.
* Errors of budget and preflight leave `synthesis_status` pending: the pattern that
  recognises fatal errors matches neither of their wordings. (Not modelled.)
* The page opens the report as soon as the unified document exists and takes a
  missing audit for no objection; the poll waits for the audit. A truncated answer
  is retried with a full second timeout, beyond the budget. A failed read of
  `progress` by the worker counts as an empty one. (Not modelled.)

Revision decisions:

* The registry calls the decisions append-only (`reviseRegistry.ts:356`), and a sync
  with a known local id rewrites the row and keeps its time; a retry may bring an
  older decision back under its id. An undo row is seen by some readers and not by
  Final Review (`finalReview.ts:242` against `finalReviewRuntime.ts`).
* A decision that was applied late, from an older set, makes the newest version. The
  fingerprint is looked up per user, so an author and an operator make two. The
  completion artifact is an upsert whose last writer wins. A custom decision on a card
  that is not ready blocks the application.

Held recovery:

* A reconstruction may complete after its held item has moved on: the check of the
  stored version (`20260719120000_...reconstruction_work.sql:777`) compares the row with itself.
* A slow initiation gives an older version the later `created_at`; a held item that
  returns to an earlier version finds the attempt recorded already. Claims of an item
  are not bounded.
* Behind the hand-over, an authority is bound to one version: once the held item has
  moved on, every initiation throws, and neither the newer item nor the older one's
  completion is taken up. Two completed items at once are ambiguous work that nothing
  resolves. `InitiationPasses` and `Resumable` have both, and the liveness properties
  except them. (Not modelled: a second rebuild of the same source hash is refused as an
  identity mismatch.)

## Not proved, not checked, next

* Instances with two sweepers; `queue` with three rows.
* If the hand-over is repaired: what anchors and readmission check, on top of
  `ReconstructionWorkers`, and the retry schedule as a second implementation of
  `WorkQueue`.
