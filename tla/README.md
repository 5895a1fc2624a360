# Verification project for the multimodal generation platform

TLA+ models of the backend under `src/backend/app` and of the evaluation runner
under `src/evals`, the TLC configurations that check them, and TLAPS proofs about
them. Paths below are relative to `src/backend/app` unless they start with
`docs/`, `evals/`, `backend/`, `scripts/` or `docker-`.

The platform sells generations (images with Imagen, videos with Veo) and prompt
enhancements against credits. A request reserves its price, is queued through a
transactional outbox and Celery, runs for minutes against an outside provider,
and ends by settling or releasing the reservation in the same transaction that
records the result. Around that core users log in, masters command, jobs are
deleted, the schema migrates, a manual runner may stand in for the worker, and a
paired evaluation spends real money on the whole system. The questions that
matter are: *is a user charged for exactly what was delivered, whatever is lost,
duplicated, crashes or is suspended on the way* (`GenerationJobs`,
`PromptCredit`), *does the credit account stay coherent over time*
(`CreditLedger`), *who may do what, at the moment it is done* (`Accounts`), and
*what survives* a deletion, a migration, a restart or a resumed run (`Library`,
`SchemaControl`, `Runner`, `Pilot`).

## 1. Inventory

| Component | State it keeps | Operations | Talks to |
|---|---|---|---|
| Credit accounting and lifecycle (`credit_accounting.py`, `credit_lifecycle.py`, `credit_policy.py`, `credit_models.py`) | `credit_accounts`, `credit_cycles`, `credit_grants`, `credit_ledger_events`, `credit_reservations` with items and allocations, `credit_operations` | `ensure_cycle`, `change_plan`, `grant_bonus`, `reserve`, `settle`, `release` | called in the transactions of jobs, prompts and the master; locks the user row |
| Jobs, outbox, dispatcher, worker (`services/jobs/*`, `celery_app.py`, `state_machine.py`, `generation_credit.py`, `models.py`) | `jobs`, `assets`, `outbox_events`, the broker's queue, the session of each running handler | claim, the handlers `handle_t2i/t2v/i2v`, `dispatch_pending_events`, pipeline link, `_mark_failed`, repair scripts | credit accounting, Celery/Redis, provider, files |
| Generation and pipeline API (`api/generations.py`, `api/pipelines.py`) | none of its own | create, retry, create pipeline, list, delete | jobs, credit, ownership, files |
| Suspension and administration (`master_admin.py`, `master_work.py`) | `users.status`, `users.role`, `master_audits` | suspend, reactivate, promote, plan change, bonus | users, sessions, credit, jobs |
| Prompt enhancement credit (`prompt_credit.py`) | `prompt_enhancements` | reserve, call the model, settle or release in three transactions | credit, enhancer |
| Prompt enhancer (`services/llm/enhancer.py`) | none | plan, enhance, sanitise | Gemini, rate limiter, retry |
| Authentication (`auth/*`, `api/auth.py`, `identity_models.py`) | OAuth flows in Redis, `user_sessions` | begin and complete login, authenticate, logout, emergency revocation | users, Google |
| Rate limiter and retry (`services/vertex/rate_limit.py`, `retry.py`) | a deque of admissions per model and process | `acquire`, `with_retry` | every provider call |
| Vertex clients (`services/vertex/*`) | none | submit, poll, download | outside |
| Manual runner (`services/jobs/runner.py`, `worker.py`) | in-process tasks, the state each handler read | sweep, resume, pick, run, shut down | jobs |
| Ownership, files, deletion (`ownership.py`, `api/files.py`, `api/assets.py`) | files on disk | authorise, serve, delete | jobs, assets |
| Master reads, usage, ops | none | read-only projections | everything |
| Schema control (`schema_control.py`, `schema_revision.py`, migrations) | Alembic revision, table locks of the command's transaction | upgrade, downgrade, guarded reset, check at start-up | database, every process |
| Paired evaluation (`evals/prompt_enhancement`) | `manifest.json`, `pilot_usage.json`, `cleanup.json`, `scores.jsonl`, `pilot_decision.json` | plan, generate and resume, score, summarise, decide | API, provider budget |
| Application shell, frontend, offline scorers, QA, infrastructure | configuration, browser state | wiring | everything |

**What is hard.** Per component, the behaviour a test hardly reaches and the
properties that make the component right. The lines are in `PROJECT.json`
under `hazards`.

* *Credit.* Everything of one user is serialised by the lock on the user row,
  but a caller samples its clock before it waits for the lock: operations carry
  instants out of order. Grants lapse while holds on them are open; a cycle rolls over
  between a hold and its end; plans go up at once and down at the next cycle.
  The account must never reach rows its own coherence checks refuse (the user
  could then do nothing any more), never overdraw a grant, never revive what
  has lapsed, and must end each reservation once.
* *Jobs.* At-least-once messages, workers that die between any two commits, a
  dispatcher that commits after it published, rows written back from a copy
  read minutes ago, `SKIP LOCKED` claims, one reservation shared by the two
  jobs of a pipeline and ended on any of five paths. Charge must match
  delivery, the provider must not be asked twice, no job may be forgotten, and
  every job must end together with its reservation.
* *Suspension.* It decides what to cancel from rows that workers and the
  dispatcher are about to change. What it cancels must never have run.
* *Prompt credit.* The hold is committed before the model is called; a process
  that dies in between abandons it. A request that comes again must not be
  charged twice.
* *Authentication and administration.* A request reads a session or a role in one
  transaction and acts in another. A login under way crosses a suspension, a
  second login of the same user, or the emergency revocation; two masters suspend
  each other; a command is sent twice. Clocks are sampled before transactions wait.
* *Provider calls.* Waiters of the limiter wake together; retries and polls must end;
  the window must never hold more than its capacity, nobody may sleep while there is a slot,
  and since the limiter keeps no queue only endless overtaking may starve a caller.
* *Enhancer.* Up to three prompts, each longer than the one before, against a plan made
  before the first.
* *Deletion.* It reads dependents, locks rows one by one, and removes files before it
  commits, while admissions, retries, the link and the worker use the same rows.
* *Manual runner.* A restart sweeps jobs that another process is working on, and a
  handler writes over what it did not see.
* *Schema.* Emptiness is checked before a drop, in a database that processes write to;
  two operators act at once; a reset is three transactions.
* *Paired evaluation.* A crash anywhere between a ledger, a manifest, a request and a
  deletion; resuming must neither pay twice nor lose a result.

## 2. Modules

| Module | What it is |
|---|---|
| `CreditLedger` | the credit account of one user |
| `CreditPromise` | what that account promises, as one pool of credits |
| `JobStates` | the states of a job and `transition()` |
| `GenerationJobs` | API, outbox, dispatcher, broker, workers, link, suspension |
| `PromptCredit` | prompt enhancements: reserve, ask the model, store and settle |
| `Accounts` | logins, sessions, roles, suspension, audited commands, emergency revocation |
| `Library` | deletion from History against admissions, the link and the worker, lock by lock |
| `Runner` | processes of the manual runner and their handlers |
| `Provider` | rate limiter, error mapping, retry and poll of one process |
| `Enhancer` | one enhancement and the plan of tokens it is reserved for |
| `SchemaControl` | migrations and resets beside running processes |
| `Pilot` | a paired evaluation under one run id |
| `SumTheorems` | what is proved of sums over finite sets, for the modules below |
| `CreditLedgerProofs`, `CreditBooksProofs` | TLAPS proofs about the credit account: rows by themselves; rows, ledger, holds and the refinement |
| `GenerationJobsProofs`, `PromptCreditProofs`, `AccountsProofs` | TLAPS proofs about these modules |
| `RequestsProofs` | TLAPS proofs about `Library` and `Runner` |
| `ServicesProofs` | TLAPS proofs about `Provider`, `Enhancer`, `SchemaControl` and `Pilot` |
| `MCCreditLedger`, `MCGenerationJobs`, `MCPromptCredit` | instances for TLC of one module |
| `MCAccounts`, `MCRequests`, `MCServices` | instances for TLC of several modules at once |

The last three put modules that share no state beside each other: a behaviour
chooses one *subject* at its beginning and the others keep their initial states.
A run of such a module is a run of each of its parts.

**How the modules meet.** `GenerationJobs` extends `JobStates`. It, `PromptCredit` and `CreditLedger` meet
at the reservation: `GenerationJobs` and `PromptCredit` keep only its state (`held`, `delivered`,
`partial`, `released`; a prompt is `settled` or `released`) and let accounting refuse an end where the code may
refuse it; `CreditLedger` says what is behind that state. What a suspension does to a user's
jobs is `GenerationJobs`', what it does to sessions is `Accounts`'; both take
`administer`'s lock on the user's row. `Library` keeps of a job what a deletion looks
at: that it works or has ended, and whom it refers to. `PromptCredit` takes an
enhancement as one step; `Enhancer` says what happens in it, and `Provider` what
happens in each of its calls.

### CreditLedger

One user is enough: every operation begins by locking the user row, so the
operations of one user are serial and those of two users touch different rows.
One action is one operation in its savepoint. An operation that raises, or that
finds its own receipt (a replay), changes nothing; it is a stuttering step, and
its conditions are guards.

| Model | Code |
|---|---|
| `clock`, the `now` an action picks from `0..clock` | `clock()` sampled by the caller before it waits for the lock |
| `account`, `cycle`, `grants`, `ledger`, `reservations`, `operations` | the tables of `credit_models.py`; only the latest cycle is kept because no operation reads an older one |
| `EnsureCycle` and the `Ensured*` operators | `_ensure`: lapse what is due, open the cycle of `now`, take a scheduled downgrade into effect |
| `PlanChange`, `Promote`, `GrantBonus` | `change_plan`, the operator CLI's promotion, `grant_bonus`; each runs `_ensure` first |
| `Reserve`, `GreedySplit` | `_reserve` with its greedy loop over grants in order of expiry, age and id |
| `Settle`, `Release` (`TerminalAllowed`, `Returned`, `Terminal`) | `_terminal` |
| `AccountCoherent`, `LedgerMatches`, `ReservationCoherent`, `WithinCapacity` | `_coherent`, `_ledger_coherent`, `_reservation_coherent`, `_capacity` |

The greedy loop is modelled by what it computes: the one split of the total
that fills each grant before the next. Prices are a function of a meter;
provenance of a usage line (measured or estimated), reason codes and labels
only matter to the comparison of a replay and are left out. Calendar arithmetic
is replaced by cycles of `CycleLength` instants from sign-up, as `cycle_bounds`
computes them from an interval of 30 days.

### GenerationJobs

One user's jobs. One action is one database transaction, one call to the
outside, or one read a later step relies on.

| Model | Code |
|---|---|
| `CreateGeneration`, `RetryGeneration`, `CreatePipeline` | the three endpoints: job rows, reservation and outbox event in one transaction |
| `DispatchSelect`, `DispatchPublish`, `DispatchRefused`, `DispatchCommit`, `DispatcherCrash` | `dispatch_pending_events`: one batch of locked rows, one publication per event, one commit at the end |
| `Claim`, `Resume`, `Discard` | `process_job_async`: claim of a pending row, resumption of a polling one, acknowledgement of anything else |
| `Start` ... `Deliver`, `DeliverFails` | the handlers, cut at every commit and at the provider call. `worker[w].copy` is the state in the handler's session, which `transition()` checks; the write does not look at the row again |
| `FailRead`, `MarkFailed`, `MarkFailedRefused` | the exception path and `_mark_failed` with its release |
| `LinkChild`, `LinkNothing`, `FailChildren` | `pipeline_link.py`, transactions of their own after the parent's |
| `SuspendLock`, `SuspendCommit`, `SuspendAbort`, `Reactivate` | `cancel_unpublished` under `administer`; two actions because workers meet its row locks |
| `WorkerCrash`, `BrokerLoss`, `Reenqueue` | `task_acks_late` with `task_reject_on_worker_lost`, Redis without persistence (`docker-compose.yml`), the repair scripts |

The broker is external and is modelled from how `celery_app.py` uses it: per
job a number of messages, taken in any order by any idle worker (prefetch 1).
A provider call is the last attempt of its bounded retry.

### PromptCredit

Any number of calls of `POST /api/prompts/enhance`, of several users. One
action is one transaction, except that the first is cut in two where it waits
for the user's row, and the model call is an action of its own.

| Model | Code |
|---|---|
| `stored[r]` | the row of `prompt_enhancements` whose primary key is the client's request id: one for all users |
| `hold[<<u, r>>]` | the reservation with the keys `_keys` derives from the id; keys are unique per user |
| `call[c]` | where `execute_prompt_enhancement` stands, what its result costs, what the client was told |
| `Lookup`, `Reserve`, `ReserveRefused`, `ReserveReplayed` | the first transaction |
| `ModelAnswers`, `ModelFails` | `enhancer.enhance_prompt`, retries included, and `_usage_report` |
| `Store`, `StoreFails`, `StoreUnconfirmed` | the last transaction: insert and settle; the third is a commit whose confirmation is lost |
| `Release`, `ReleaseFails` | `_release_hold`, which swallows every error |
| `Crash` | the process dies, or an exception other than the ones named ends the call |

What a result costs is one of `fits`, `zero` (nothing to charge, which a
settlement refuses) and `over` (more units of a meter than were reserved, which
both ends refuse). The accounting behind a reservation is `CreditLedger`.
`Lookup` and `Reserve` are two steps, so a call may find no result, wait while
another call of its request stores one, and be told the request ended without a
result; sending it once more gives the result.

### Accounts

Requests run in tasks of the API and take several steps; row locks of PostgreSQL
are the locks a task has taken and not yet given up (`Locked`).

| Model | Code |
|---|---|
| `flow`, `BeginLogin`, `Callback` | `auth/flow_store.py` and the first half of `complete_google_login`: the flow is consumed before anything else is looked at |
| `Login`, `LoginCommit` | Google's answer, the insert of the user, the lock of its row and of its sessions; eviction of the oldest and the new session |
| `Authenticate`, `Logout`, `EmergencyRevoke` | `authenticate` with both deadlines and the five minutes between two updates of `last_seen_at`; `logout`; `auth/emergency.py` |
| `MasterRequest`, then `MasterCommand`; `OperatorCommand` | the two ways to `administer`: after `require_master`, in a transaction of its own, and from the command line |
| `CommandLock`, `CommandCommit`, `RequestFails` | `administer`: advisory lock and both users' rows, then authority, replay and rules; the change with its audit row; a rollback. What a request asks for is chosen under the locks, where it is first looked at |
| `Deploy` | the API is deployed with logins enabled or not; requests under way are gone |

`Sampled` is a clock read at most `MaxLag` before it is used. The emergency command
reads `AUTH_LOGIN_ENABLED` from its own settings; the model takes them to be those of the
running API, as the runbook has it (`docs/runbooks/local-mock.md`, Emergency Session
containment drill). Cookies, CSRF tokens, the signature of the identity token and the
profile of a user are left out.

### Library

| Model | Code |
|---|---|
| `job`, `asset`, `content` | `jobs` with `parent_job_id`, `retry_of_job_id` and `source_asset_id`; `assets`; files on disk |
| `request[r].locks`, `Conflict`, `Blockers` | row locks of open transactions: FOR UPDATE, the update of a row, and the key share of a foreign key check |
| `Animate`, `Retry`, `LockSource`, `Insert`, `LockOwner`, `Admit` | `create_generation` and `retry_generation`: source asset, flush of the new job with its foreign keys, then the owner |
| `Deliver`, `Fail`, `Link` | what `GenerationJobs` cuts in pieces is one step here |
| `Delete`, `LockAssets`, `LockRow`, `CheckDeletable`, `RemoveFiles`, `Detach`, `CommitDelete`, `RollBack` | `delete_generation`, lock by lock; files go before the commit |

A deletion and an admission never wait for each other in a circle
(`DeletionInLockOrder`); two *admissions* of one user may: each inserts a job, which
shares the user's row, before it locks that row for update, and PostgreSQL ends one of
them, which answers `credit_busy`. Two deletions that detach each other's dependents may
wait for each other as well, and the one that is ended has already removed its files.
Neither contradicts what the property or a document says.

### Runner

| Model | Code |
|---|---|
| `Boot`, `Sweep`, `ResumePolling`, `SkipStartup`, `PollOnce`, `Stop` | `run_forever` and its start-up; picking with row locks; shutdown or crash |
| `handler[r][j]`: the state the handler read | the ORM object of the handler's session |
| `ReadJob` ... `HandlerFails` | the handlers of `handlers.py` as the runner calls them |
| `orphaned`, `Ages5Minutes` | `updated_at` older than `sweep_after` |

`SubmittedOnce` holds because the sweep fails jobs and never hands them out again. What it
leaves behind is a reservation: `_sweep_orphaned_jobs` (`services/jobs/runner.py:309`)
sets FAILED without ending it, and a swept job of a live process is written over when its
handler delivers. Operations beyond the free slots are resumed by the next restart
or by `scripts/reenqueue_polling_jobs.py` only.

### Provider

Time is relative: an admission is its age, a sleep what is left of it. A loop runs
what is ready before it sleeps, so `ProviderTick` waits for every step that takes no time.
`Acquire` is one round of the limiter's loop, `CallFails` the decision of `with_retry`,
`PollAgain` and `Get` one turn of the Veo poll. Retries do not ask the limiter again, and a poll
never does. A caller is a slot of the process: when its job ends it is `idle`, and `Start` begins
the next one, with a call or by resuming an operation. Time passes while a call or an
`operations.get` is under way, and counts against the poll's deadline from its first turn (`spent`, which
stops one above the deadline, where the code tells instants no longer apart). Intervals are whole
units: half as long again, rounded down.

### Enhancer

`enhancement` is the run of `enhance_prompt`. A prompt is its length, an answer what
`_payload_from_text` can read from it; `Ask` is one call with its retries; `ReadInvalid`,
`ReadMismatch` and `ReadResult` are what the loop makes of the answer. `PlannedInput` and `PlannedOutput`
are the plan of `maximum_input_tokens` and output tokens the reservation is made from.
The plan is right for input in any order of repairs and retry. For output it is right when the
provider reports usage; where it does not, bytes are counted against tokens (finding 4).

### SchemaControl

`Migrations` lists for each of the seven revisions what it creates and what must be empty to go
up or down. A command is one transaction: `Migrate`, then `LockTables`, `CheckEmpty` and `ApplyStep` for each
revision, then `CommitMigration` or `CommandFails`. The reset is three transactions
(`ConfirmReset`, `DropPublic`, `UpgradeToHead`, `ResetEnds`). A process (`StartClient`) asks for the
revision once, when it starts, and inserts rows that fit the schema as it is then.
The downgrades of the first two revisions drop jobs without owner, users and
sessions without a check, and the property does not protect those. The counts the reset shows
were read before the drop; two resets at once can leave one of them reporting a failure.

### Pilot

| Model | Code |
|---|---|
| `manifest`, `directory`, `ledger`, `cleanup`, `scores`, `decision` | the artifacts of a run directory |
| `Launch`, `LoadManifest`, `CreateManifest`, `LoadFails`, `PilotCrash` | `run_vertex_pilot.py` and the start of `generate_pairs.py` |
| `Reserve`, `PostAnswered`, `PostFails`, `PostCrash`, `Record`, `AnswerMismatch` | a request: ledger, request, ledger, manifest |
| `BackendEnds`, `Collect`, `JobFailed`, `PollFails`, `DeleteJob`, `RecordCleanup`, `WritePairs` | jobs and their cleanup |
| `ScoreArm`, `ScoreMock`, `CloseScoring`, `Summarize`, `Finalize` | `score_real_pairs.py`, `score_pairs.py`, `summarize.py`, `finalize_vertex_pilot.py` |
| `Reports`, `Missing`, `Proceeds`, `Stops`, `Recommendation` | what `summarize.py` reports, and `decide_pilot` |

A report has, for each of the three metrics, the mean difference between the arms and
its interval: any three figures of `Deltas` with the interval in order. How a bootstrap gets them from
the scores is left out, so every report is possible for every run. The two
command-line steps after generation refuse what is not their lifecycle; a decision
is recorded once, since the same scores and seed give it again.

The lifecycle `generating` stands for all those that only say which step is next. The operator
gives one command after the other. Behaviours the model has and a reader should know: a
failure while the manifest of another mode is loaded marks that manifest failed
(`evals/prompt_enhancement/run_vertex_pilot.py:419`), although the generator will "not modify a
downstream-owned manifest"; a failure before the manifest exists leaves a directory that is refused
from then on; resuming with `--keep-artifacts` records a job that was deleted as
retained; a mock run that loses an answer sends its request again, and the
job of the lost answer is never cleaned up.

## 3. Runs

All runs check deadlock off: when every request has ended and the bounds are
used up the system rests, which is not an error.

| Run | Instance | Shows |
|---|---|---|
| `credit_holds` (`MCCreditHolds.cfg`) | 2 reservations, 2 terminal keys, 1 command, 1 meter, times 0..2, cycle of 2 | types; no overdraft (`GrantBalance`); what lapsed stays empty (`LapsedGrantsAreEmpty`); reserved is what open holds took (`HoldsBackReserved`); a reservation ends once (`TerminalIsFinal`); holds respect plan and lapse (`HoldsRespectPlan`); nothing is taken back (`SpendingIsMonotone`); the account implements the pool (`ImplementsPromise`) |
| `accounts` (`MCAccounts.cfg`) | *logins:* 2 users, 2 flows, 2 request ids, 2 tasks, limit of 1 session, times 0..3; *credit:* 1 reservation, 2 commands, 2 meters, times 0..3 | sessions are limited (`SessionLimit`), final (`SessionsAreFinal`) and end with a suspension (`SuspendedHasNoSession`) and with the emergency revocation (`ContainmentHolds`); commands have authority when they act (`AuthorityIsCurrent`) and a master remains (`ActiveMasterRemains`); dates stay within the row's checks (`AccountsTypeOK`); the credit account never reaches rows its own checks refuse (`AccountNeverWedged`); ledger keys are unique (`LedgerKeysUnique`) |
| `jobs_pipeline` | parent and child, 2 workers, one of each disturbance | `TypeOK`, `AtMostOneProviderCall`, `ChargeMatchesDelivery` with partial charges, `ChildFollowsParent`, `CancelledWorkNeverRan` |
| `jobs_one_message` | pipeline and an animation of its image, 2 workers, every disturbance that does not duplicate a message | `HoldEndsWithWork`, `TerminalStatesAreFinal` |
| `jobs_crashes` | two videos, 1 worker, crashes and refusals | `NothingForgotten` |
| `jobs_liveness` | image and pipeline, 2 workers, failures and refusals, fair | `EveryJobEnds` |
| `jobs_duplicate` | one video, 2 workers, the dispatcher dies once | violated: see findings |
| `jobs_link_race` | pipeline and an animation, 1 worker, no fault, fair | violated: see findings |
| `jobs_suspend_race` | one video, 1 worker, one suspension, fair | violated: see findings |
| `user_requests` (`MCRequests.cfg`) | *prompts:* a request, the same again, the same id with another prompt, the same id of another user, a second request of the first user for the one slot; one crash, one refusal, one lost confirmation; usage within the reservation. *library:* 3 jobs, 2 connections. *runner:* 2 jobs, 2 processes with 1 slot | `ChargedIffStored`, `ModelAskedOnce`, `ResultIsOwn`, `HoldHasACall`; `WorkKeepsItsReferences`, `DeletionInLockOrder`; `SubmittedOnce`; `RequestsTypeOK` |
| `services` (`MCServices.cfg`) | *provider:* 3 slots that run job after job, 1 admission per window of 2, 2 attempts, polls after 2 and then 3 with a deadline of 2, answers that take time, fair; *enhancer:* every order of answers; *schema:* 2 operators, 1 process, targets 0, 2 and 7; *pilot:* 2 cases, a stop at exactly the plan, differences of scores below, at and above zero with one below the margin | `AdmissionsPerWindow`, `EveryCallEnds`; `UsageWithinPlan`; `MigrationsKeepRows`; `PilotIsAccountable`; `ServicesTypeOK` |
| `prompt_oversized` | one call, no fault, usage may be over the reservation | violated: see findings |

**Bounds and why they are enough.** *Credit:* times 0..2 with a cycle of 2
(0..3 in `accounts`) contain an instant before, at and (in `accounts`)
after the boundary of a cycle; since each operation picks any `now` up to the clock, late callers
occur on both sides of it. A bonus that expires at 1 lapses inside the cycle and
a bonus without expiry survives it, so a hold can span a lapsing grant and a
lasting one. Two reservations share a grant and the plan's concurrency limit
(1 for free, 2 above) is reached. Allowances of 2, 3 and 4 credits against up
to 2 units force splits over grants; `MaxAmount` = 9 is small enough for
`WithinCapacity` to refuse. `MaxUnits` and `MaxTime` bound inputs, not state.
*Jobs:* every disturbance may happen as often as `Budget` says (a bound); one
of each in any order is what the hazards need, and two crashes or refusals are
given where attempts are counted (`MaxDispatchAttempts` = 2). Two workers are
the concurrency of the deployment.

*Prompts:* the five calls contain every relation two calls can have
(same key, same key and other content, same id and other user, same user and
other id), and one of each disturbance may fall anywhere; what more calls add is
covered by the proofs. `Budget` is again the only bound.

*Accounts:* two tasks are a pair of logins, a pair of commands, or one of each; with a limit of
one session two logins already reach it; an inactivity of 2, a lifetime of 3 and an update of `last_seen_at`
after 1 let a session end at either deadline within 0..3. `MaxLag` = 1 lets a task act
on a clock that is behind.

*Library:* three jobs are a parent, what refers to it, and one in between (a retry of
an animation of an image); two connections are an admission and a deletion, or two of a
kind. A circle of locks with three transactions would need a third connection.

*Runner:* with two processes of one slot each, a job waits, is swept while it is alive, and is written
over. *Provider:* of three callers for a capacity of
one - that of Veo - two can sleep for the same slot, wake together, and lose it to one another again
and again, since each asks as often as it likes. The deadline falls before, at or after an answer,
and a second interval is longer than the first. *Schema:*
the targets include the empty schema, one between the first unprotected and the first protected
revision, and the head; rows of one protected table on each side are followed. *Pilot:* two cases have
both orders of the arms; a budget of exactly the plan makes one repeated request one too
many, and `MaxRepeats` bounds what a mock run may repeat. The score differences -2, 0 and 1 against a margin
of 1 make reports for each recommendation.

**Symmetry** is by permutation of operation keys (only compared for equality)
and of workers, and in `accounts` of tasks, flows and request ids, in runs without
liveness only.

**Fairness** (`jobs_liveness` and the two liveness findings) is weak fairness of
the dispatcher, of each worker, and of the end of an open suspension. The dispatcher is
an endless loop with a sleep (`run_dispatcher_loop`); a worker process takes the next message
when idle, and each step of a handler ends; a suspension is one request with a
statement timeout. That a call to the provider ends is an assumption about the environment: the client sets no
timeout (`services/vertex/client.py:55`) and Celery no `time_limit`; a poll has a
deadline, but it is not looked at while `operations.get` is under way. Nothing
else is fair: users need not ask, and no fault needs to happen or stop, other
than by its budget. The liveness runs have no crashes, since a crash between
two commits can leave a claimed job or a blocked child behind until an operator acts. For those
crashes the runs show that what is left is consistent (nothing generated twice, no charge without delivery, the
child not started, credits held exactly for what is left), not that it ends.

`services` assumes weak fairness of what each started job does (`JobStep`): an event loop runs every
task that is ready, and each call returns or raises, by the same assumption. Jobs need not come
(`Start` is not fair). `ProviderTick` is strongly fair, which says that time diverges: tasks cannot
keep the loop busy for ever without any sleep ending. Which of several sleepers is served is not fair, in
the code or in the model, so a caller can starve while others keep coming: `EveryCallEnds` says
that it starves in no other way, and no document of the repository promises more.

**Mutants.** Each property of a passing run is paired with a change of the code
that breaks it (a dropped guard, a missing reset, a boundary off by one). The
mutated operators stand in front of the definition they replace, marked
`Mutant`.

## 4. Findings

Four runs find behaviours that contradict what the repository says of itself.

1. `jobs_duplicate`: a polling job is run by every message that arrives
   (`services/jobs/tasks.py:93`), and a handler writes back the copy it read
   long ago (`services/jobs/handlers.py:424`). A dispatcher that dies after
   publishing and before its commit publishes again; the second worker
   completes the job, the first writes `DOWNLOADING` over `COMPLETED`, cannot
   store its asset, cannot release a settled reservation and leaves the row as
   it is. The user is charged correctly, but the job never ends.
   (`docs/initiatives/g7-generation-credit-integration-spec.md:123`,
   `docs/runbooks/local-mock.md:475`)
2. `jobs_link_race`: between the commit of a pipeline parent's image and the
   link of its child the user may animate that image. The link then violates the unique
   index on active sources, is swallowed (`services/jobs/pipeline_link.py:54`),
   and the child stays blocked with the reservation held.
   (`docs/initiatives/g7-generation-credit-integration-spec.md:107`)
3. `jobs_suspend_race`: a suspension locks all pending jobs, published ones
   included. A message that arrives while it is open finds its row skipped by
   `SKIP LOCKED` (`services/jobs/tasks.py:126`) and is acknowledged as missing:
   the job is neither run nor cancelled.
   (`docs/portfolio/issue-144-suspension-work-cancellation.md:16`)
4. `prompt_oversized`: a settlement refused because more was used than reserved
   is followed by a release with the same usage (`prompt_credit.py:272`), which
   `_terminal` refuses as well; `_release_hold` logs it and the hold stays, with
   one of the plan's concurrent slots. The enhancer can measure such a usage:
   without usage metadata it counts bytes of the response, the reservation
   counts tokens. (`docs/initiatives/g6-gemini-credit-integration-spec.md:27`)

## 5. Proofs

Every invariant and every action property that a passing run checks is also proved, for every
value of the constants; what is left to TLC alone is liveness. The theorems assume what the
modules' named assumptions say of the constants, and three groups of them one thing more: where
a property holds only as long as some disturbance stays away, the theorem says which one
(`Budget["dispatcherCrash"] = 0`, `"over" \notin Usages`), and the runs that expect a
violation show that it is needed.

### The credit account

`CreditLedgerProofs` and `CreditBooksProofs` prove, for every set of meters, plans' prices and
limits, keys, cycle length and bound, with no assumption but those `CreditLedger` names
(`NoneAssumption`, `PolicyAssumption`, `BoundAssumption`):

| Theorem | Statement |
|---|---|
| `TypeCorrect` | `Spec => []TypeOK` |
| `NoOverdraft` | `Spec => []GrantBalance` |
| `LapsedStayEmpty` | `Spec => []LapsedGrantsAreEmpty` |
| `NothingTakenBack` | `Spec => SpendingIsMonotone` |
| `EndedForGood` | `Spec => TerminalIsFinal` |
| `HoldsBack` | `Spec => []HoldsBackReserved` |
| `NeverWedged` | `Spec => []AccountNeverWedged` |
| `KeysUnique` | `Spec => []LedgerKeysUnique` |
| `PlanRespected` | `Spec => HoldsRespectPlan` |
| `KeepsThePromise` | `Spec => ImplementsPromise` |

**Rows by themselves.** The inductive invariant is `IInv == TypeOK /\ Sound(grants,
account.updatedAt)`. `Sound(gs, at)` says that `gs` is a sequence of grant rows, no
row is overdrawn, and every row due at `at` has nothing available. The second
and third parts need each other: a row that is not overdrawn has a
non-negative availability, so lapsing empties it exactly, and a hold, which
takes at most what is available, takes nothing from a row that is due.
`account.updatedAt` is in the invariant because time is not monotone for the
account: an operation may carry an older instant than the last one, and the
guard `now >= account.updatedAt` of `_ensure` and of `_terminal` is what makes
"due for the account" imply "due for the operation", so that what a late
settlement gives back to a lapsed grant lapses too.

The proof goes in three layers. *What `_ensure` leaves behind*: `LapsedSound`, `BaseGrantSound`
and `EnsuredSound` show that the ensured rows are sound at `now` and keep the
order and the counters of the old ones; `CurrentBaseAlive` shows that the base
grant an upgrade enlarges ends after `now`, which is where `AccountCoherent` is
needed. *One lemma per operation*: `EnsureStep`, `ChangePlanStep`,
`GrantBonusStep`, `ReserveStep`, `TerminalStep`, `IdleStep`, each proving both
`IInv'` and `Monotone`. *The theorems*: `InitIInv`, `NextIInv`, `Invariant` and
temporal logic.

**Rows, ledger and holds.** The second invariant is `Whole`, and its parts are what the
code compares before it trusts an account:

* `AccountSound`: the account passes `_coherent` - its cycle is the one of its dates, and the
  cycle has exactly one base grant, of the plan in force (`Coherent`, `BasesBehind`);
* `LedgerSound`: for each grant and each of its columns, the events of the ledger add up to what the
  row says (`Booked`), and every key of an event is one its operation alone can have written (`KeySound`);
* `HoldsSound`: what a grant has reserved is the sum over the holds in force of what they allocate on it.

`AccountNeverWedged` is a conjunction of checks and not inductive: what keeps it is that each
operation posts what it writes. `Posting` says so once for all: if the new rows differ from
the old ones by what the posted events say, and the events are new, then books that
were right are right. The lemmas `EnsureBooks`, `UpgradeBooks`, `GrantBonusBooks`, `ReserveBooks` and
`TerminalBooks` show this of the operations, and `KeysKept` that what they post is new: a lapse
is named by its grant and instant, which `_ensure` passes once.

**The promise.** `PoolOfGrants` adds the rows up: granted is available, reserved, consumed and
expired. Each operation then is a step of `CreditPromise` or none
(`LifecycleRefreshes`, `ReserveHoldsPool`, `TerminalFinishes`), the abstract variables being the
totals of the columns and the states of the reservations.

**Sums.** The library has no theorem about sums, and a theorem with an operator for
its induction hypothesis cannot be used. `SumTheorems` goes around it: `SubsetInduction` states
induction on the subsets of a finite set for a *set* of them instead of a predicate, and is
proved from a least counterexample. From it follow that the fold `SumFunctionOnSet` is the only solution of
its equation (`FoldUnique`, `FoldExists`) and that the order of the elements does not matter (`SumRemove`);
the rest are the rules one expects, for a changed value, an added element and two disjoint sets.

### Generation jobs

`GenerationJobsProofs` proves, for any jobs, any pipelines, any number of workers, and
disturbances of every kind as often as they may happen, from `JobAssumption` and `LimitAssumption`:

| Theorem | Statement |
|---|---|
| `TypesHold` | `Spec => []TypeOK` |
| `OneProviderCall` | `Spec => []AtMostOneProviderCall` |
| `CancelledNeverRan` | `Spec => []CancelledWorkNeverRan` |
| `ChildWaits` | `Spec => []ChildFollowsParent` |
| `ChargesAreRight` | `Spec => []ChargeMatchesDelivery` |
| `NothingIsForgotten` | if `Budget["brokerLoss"] = Budget["suspend"] = 0`: `Spec => []NothingForgotten` |
| `HoldsEndWithWork` | if `Budget["dispatcherCrash"] = Budget["repair"] = 0`: `Spec => []HoldEndsWithWork` |
| `EndsAreFinal` | if `Budget["dispatcherCrash"] = Budget["repair"] = 0`: `Spec => TerminalStatesAreFinal` |

The first five exclude nothing. The others exclude what the code does not survive: a broker without
persistence loses messages, a suspension makes workers discard what it has locked, and a
second message for a job lets two workers write its row (findings 1 and 3). Everything else - crashes
of workers, refused publications, failures of the provider - may happen without limit.

**The argument.** A handler writes its row without looking at it again, so the invariant says what
it may rely on. From the claim to the submission one worker has the job (`Alone`; an image is never
anybody else's) and the row is as its handler left it (`Fits`); after the submission any
number of resumed runs may write the row of a video, and it is then in one of the states in which none of
them asks the provider again. `RowsFit` is what the state of a row says of calls and outputs.
`ChildrenWait`: until its image is linked, nothing but a cancellation or a failure happens to a
child. `LockedRest`: what a suspension has read under its locks stays so until it commits.
`ReleasedIsOver`: the parent of a reservation that was given back will not deliver; without it,
the delivery of an image could follow the release of its price. Charging then needs two lemmas: `EndCharge`
(an end without the last output is as what is there demands, because a reservation that ended
otherwise refuses) and `DeliverStep`.

Steps are treated in kinds: those that move a worker only (`MoveStep`), that write the row of the
worker's own job (`WriteStep`), that change pending rows nobody works on (`RestStep`, `RowsStep`),
and that touch neither (`QuietStep`). `NextIInv` sends each action to one of them.

**Nothing is forgotten.** `Silent` says that a job that waits for its parent has no event, `Announced` that a
pending job which does not wait has an event still to be published, one that failed for good, or a message,
and that what the dispatcher has published but not marked has a message. The second half is the point: the
dispatcher's commit may drop the event only because of it.

**Holds end with work.** `SoleInv` adds to the first invariant that a job has one message, one worker
or one unsent event and never two of them (`OneMessageAtMost`), that a handler which may still write finds
the row live (`Busy`), and how parent and child stand to each other (`Families`). A delivery
may then end the reservation without looking for others at work on it, and no
handler comes back to a row that has ended. That second conclusion is `EndsAreFinal`, and both are
proved of each step together (`SoleNext`).

### Prompt enhancements

`PromptCreditProofs` proves, for any calls, requests, users and budgets, from
`CallAssumption` alone:

| Theorem | Statement |
|---|---|
| `TypeCorrect` | `Spec => []TypeOK` |
| `ChargeMeansResult` | `Spec => []ChargedIffStored` |
| `AskedAtMostOnce` | `Spec => []ModelAskedOnce` |
| `OwnResults` | `Spec => []ResultIsOwn` |
| `HoldsAreServed` | if `"over" \notin Usages`: `Spec => []HoldHasACall` |

**The argument.** None of the three properties is inductive. `OneServer` says
that two calls past the reservation never serve the same key, and `AskedOnce`
that a call past it has a reservation and that a call about to ask the model is
the first to do so. From these, a settlement meets no other call of its key, and
a row and a settled hold appear together; `MoveStep` covers every step that only
moves a call, and `ReserveStep`, `ModelStep`, `SettleStep` and `ReleaseStep` the four
that write a row.

`HoldHasACall` needs that no usage exceeds the reservation (the run `prompt_oversized` shows why, and
`PlanSuffices` below when it is so). Its invariant is `HoldInv`: a call that was cut short is over, so
that nothing can take the answer from a hold which only such a call accounts for.

### Accounts

`AccountsProofs` proves, for any users, commands and tasks, any finite set of flows, any
deadlines and any limit of sessions, from `AccountAssumption` alone:

| Theorem | Statement |
|---|---|
| `AccountsTypeCorrect` | `AccountsSpec => []AccountsTypeOK` |
| `SessionsStayLimited` | `AccountsSpec => []SessionLimit` |
| `SuspensionEndsSessions` | `AccountsSpec => []SuspendedHasNoSession` |
| `ContainmentLasts` | `AccountsSpec => []ContainmentHolds` |
| `EndedSessionsStay` | `AccountsSpec => SessionsAreFinal` |
| `CommandsAreAuthorized` | `AccountsSpec => AuthorityIsCurrent` |
| `SomeMasterRemains` | `AccountsSpec => ActiveMasterRemains` |

**The argument.** What a transaction reads under a row lock is acted on in a later step.
The inductive invariant says that nothing happens to it in between: `LocksApart` (two
transactions hold no row in common), `LoginsCurrent` (a login about to commit sees an
active user and exactly that user's live sessions) and `CommandsCurrent` (a command about
to commit has an active master as its actor, another user as the target of a suspension,
and an unused request id). `FlowsOwned` says that a flow belongs to one task from its callback
on and to no session before; it is what makes a new session new. `LoginsDisabled` says that
containment lasts while logins are disabled and that no login is then under way.

`LoginHolds` is the heart of it: while a login holds a user's row, no command, logout,
authentication or other login touches that user's status or sessions, and the emergency
revocation, which locks sessions and not users, waits for those the login has read.
`SessionStep` gives the three things that can happen to a session, `StatusStep` the one thing that
changes a status. The theorems follow: a suspension ends what is live, and a login that
was under way has a user who is not suspended; a suspension has an actor who is active, whose
row it holds and who is not its target, so a master remains; a login keeps fewer than the limit
of the sessions it read, which are all there are, and adds one.

### The library

`RequestsProofs` proves, for any number of jobs and connections, from `LibraryAssumption`
(identifiers are numbers, and the empty reference is none of them):

| Theorem | Statement |
|---|---|
| `DeletionSparesWork` | `LibrarySpec => WorkKeepsItsReferences` |
| `NoDeadlockWithDeletion` | `LibrarySpec => []DeletionInLockOrder` |
| `RequestsWellTyped` | `RequestsOfUsers => []RequestsTypeOK` |

**The argument.** A deletion checks first and writes several statements later, so the
invariant says what each transaction knows and which of its locks keep it true. `Deletable`: from the check
on, no job that works refers to the job. `AdmissionLocks`: an admission has its source asset for itself, and
when it inserts it shares every row it refers to. `DeletionLocks`: a deletion has the job's
row, and the asset's if there is one. `Exclusive`: no two transactions have locks
that exclude each other. `AdmitKeeps` is where these meet: a new job refers only to rows its transaction
has shared, and the job of a deletion is none of them. The link shares no row of the deleted job either, but a
blocked child is work already, and the check has seen it. `RequestMoves` and `JobsMove` treat
the steps that write no row and those that do.

For the order of locks, `Awaits` is stated without paths: r awaits s if s is in every set of transactions
that contains whom r waits for and is closed under waiting. To prove that somebody is *not*
awaited, one such set is enough (`Unreached`). A transaction without locks is awaited by nobody; a
deletion that has its job waits for deletions at most (`FlushWaits`); and one that has only its asset
is not waited for by any that has locks (`RowIsNotAwaited`), since the one admission that
could ask for this asset has it already.

### The manual runner

`RequestsProofs` also proves `NothingSubmittedTwice`, `RunnerSpec => []SubmittedOnce`, for any jobs,
processes and slots. A job may be in the hands of several
processes at once (one that read it, and one that resumed its polling), so the
invariant distinguishes them: before the submission one process at most works on a job
(`OneBeforeSubmission`), a pending job is nobody's (`PendingIsUntouched`), only what was submitted
is polled (`PollingWasSubmitted`), and after the submission nobody is on the way to it,
nor would be by reading the row (`NoneAfterSubmission`). It is why a sweep may fail a job under a
live process and must not hand it out again. `RunnerSized` counts the tasks of a process, which
needs `RunnerAssumption`'s finite set of jobs.

### Enhancements

`ServicesProofs` proves `PlanSuffices`, `EnhancerSpec => []UsageWithinPlan`, for prompts and
outputs of any length, from `EnhancerAssumption`: three groups of responses at most, and a
language section no longer than the two repair sections together, as `_build_prompt` has them.
`Before` and `After` say for each kind of prompt which ones can have gone before it, `Lengths`
that the three prompts of the repairs and the two of the retry bound them all.

### The paired evaluation

`ServicesProofs` proves, for any number of cases, any costs, stop, margin and differences of scores,
from `PilotAssumption`:

| Theorem | Statement |
|---|---|
| `RunsAreAccountable` | `PilotSpec => []PilotIsAccountable` |
| `RulesExclude` | no report satisfies both `Proceeds` and `Stops` |

**The argument.** A crash may come between any two artifacts, so the invariant orders
them: `LedgerKnows` (in a real run, what was sent is in the ledger, and what succeeded was sent exactly
once), `Asking` (the one step a generator may ask for is planned, reserved and unsent), `AtWork`
(a generator at work has an open manifest of its own mode, which is what keeps a mock run from
sending under a real manifest), `Progress` (scoring and summary find all steps complete), `DecisionRests`
(a decision keeps its ground when the run is closed after it). `OneNext` says that a generator
resumes at one step only. `WithinBudget` is about what the ledger has committed; `CostGrows`, from
the theorems on finite sets, carries it to what was sent.

### The rate limiter and the migrations

`ServicesProofs` proves further:

| Theorem | Statement |
|---|---|
| `WindowHolds` | `ProviderSpec => []AdmissionsPerWindow` |
| `ProtectedRowsStay` | `SchemaSpec => MigrationsKeepRows` |
| `ServicesWellTyped` | `Services => []ServicesTypeOK` |

**The limiter**, for any capacity, window, callers and retries (`ProviderAssumption`). `admitted` counts
admissions by age, for the property; `window` is the limiter's own deque. `LimiterInv` ties them
together: the deque is in order, no longer than the capacity, and has as many
entries of each age below the window as there were admissions. The proof counts the positions of an age:
pruning removes none that still counts (`PrunedStillCounts`), an admission adds one
at age 0 to a deque that has room, and time shifts all of them by one (`ShiftedPositions`). How many
counts there are is then how many positions there are (`CountedByAge`), at most the length of the deque.
That nobody sleeps while there is room needs one part more, `SleepsForSlot`: a sleeper wakes just when
the oldest admission of a full deque leaves the window, and until then the deque stays full.

**The migrations**, for any operators, clients and targets among the revisions (`SchemaAssumption`).
`SchemaInv` follows a command through its one transaction: `OnItsWay` says where it is between the revision it
read and its target, `EmptyAndLocked` that what was found empty is locked and still empty, for the step
under way and for every revision the downgrade has gone back over, `InsertsStand` that an open
insert is into no locked table, `OneWriter` that of several commands at most one has written.
A commit then takes rows away from no table that a revision below it protects.

### What is not proved

Liveness: `EveryJobEnds` and `EveryCallEnds` are checked by TLC only; what follows from fairness
needs ENABLED, which the installed prover does not treat.

The theorems are about each module's own specification, and the runs `user_requests` and `services`
check the same properties of several modules side by side; type correctness is proved of these
compositions as a whole, and the subjects share no state. That `GenerationJobs`, `PromptCredit` and
`CreditLedger` agree at the reservation - what one takes for the state of a hold, the other
has behind it - is an argument of section 2 and not a theorem.

## 6. Not modelled

* Replays of a command with the same key and different content: the code
  raises, nothing changes.
* `Enhancing`, a job state no code path enters.
* Owner checks and serving files by ranges (`ownership.py`, `api/files.py`): `Library` has one
  owner.
* Cookies, CSRF, identity tokens; the credentials of the provider's client
  (`services/vertex/client.py`), which are read and refreshed by a library.
* The wall-clock value of retry delays and rate limits; the content of prompts,
  assets and error messages; logging and metrics.
* Read-only projections (`master_read.py`, `personal_usage.py`, ops), settings and request
  schemas, the frontend, the offline scorers, the bootstrap of a report's intervals, QA drivers and proof
  scripts, and infrastructure code: they keep no state that the properties are about.

## 7. What could follow

* An abstract specification of a paid request - asked, charged once or not at all, delivered
  or not - that `PromptCredit` and a job of `GenerationJobs` both implement, with the refinements proved.
* `GenerationJobs` and `CreditLedger` joined at the reservation, in place of the argument of section 2.
* Jobs stuck in QUEUED or GENERATING after a crash are repaired by an operator; the repair scripts
  beside a live worker are modelled, a proof that repair suffices is not.
* Two deletions and three connections in one run, with larger machines; the proof covers them.
