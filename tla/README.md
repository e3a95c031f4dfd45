# VelocityClaw: TLA+ models, model checking and proofs

VelocityClaw is a self-hosted coding agent: tasks are queued, an agent plans each task as a list of
steps, executes the steps with tools under a security policy, records everything in SQLite, stops
for human approvals, and can resume a failed run.  This directory holds TLA+ models of the parts of
it that have state, the TLC configurations that check them, and proofs checked by TLAPS.  Source
paths below are relative to `src/velocity_claw/`.

## 1. Inventory

| Component | State | Operations | What makes it hard | What must hold |
|---|---|---|---|---|
| Run queue, external mode (`core/queue.py`, `api/app.py`) | table `queue_jobs`, `queue_control.accepting_work` | enqueue, claim, heartbeat, finish, release, recover, cancel, requeue, pause, resume | several processes on one table; leases that lapse under a live worker; the API's threads and coroutines | claims are exclusive, a result belongs to its claim, attempts are bounded, a cancellation sticks |
| External worker (`core/external_worker.py`) | `_active`, asyncio tasks | poll, execute, heartbeat, reap, stop | crash, stop, database errors inside tasks | no claim is left without a task, capacity is kept |
| Run queue, embedded mode (`core/queue.py`, `core/queue_tracking.py`) | `jobs`, `_job_tasks`, `_active_slots`, `_active_jobs`, table `queue_jobs` | submit, schedule, run, cancel, two requeues, pause, resume, drain, shutdown, restart recovery | a cancellation is delivered later than it is requested; done callbacks run in another loop turn; handlers run in threads | a waiting job is picked up, a cancelled one stays cancelled, one task per job, bookkeeping is emptied |
| Agent runs and step guard (`core/agent.py`, `core/step_guard.py`) | the run's rows | plan, execute a step with retries, pause, finish | the process is lost in the middle; retries of steps that may have had effects | a completed run has every step done |
| Approvals (`api/approval_v2.py`, `api/approval_attempts_v2.py`, `core/approval_continuation.py`, legacy `api/server.py`) | tables `steps`, `approval_history`, `runs.status` | request, approve, reject, continue | approve is a coroutine, reject a thread; the legacy endpoints check nothing; a decision is several transactions | a step is decided once per request, a gated step runs only when approved, a rejected run is over |
| Failed-run resume (`core/failed_run_resume.py`) | the same rows, an in-process lock per run | preview, resume, pause, continue | the lock guards rows shared by processes; a crash leaves the run marked | completed steps are skipped, attempts are numbered |
| Memory store (`memory/store.py`, `memory/run_profile_schema.py`, `memory/step_attempts_v2.py`) | tables `runs`, `steps`, `artifacts`, `fix_attempts`, `approval_history` | create and update runs, save and update steps, load, retention clean-up | every call is several transactions; clean-up deletes runs whatever their status | nothing refers to a deleted run; the newest runs stay; what is loaded fits together |
| Project context (`memory/context_v2_runtime.py`) | table `project_knowledge` | remember, forget, ingest, recall, mark as used, related runs | two planners and an operator on the same rows; the run being planned is already listed | counts are kept |
| Model router (`models/router.py`) | per provider `cooldown_until` and counters | choose, call with retries, fall back | overlapping calls around an await; everyone in cooldown | a failed route has tried what it could; a provider comes back |
| Step guard, executor (`core/step_guard.py`, `executor/executor.py`) | one step's result | decide, attempt, retry | a timeout does not say whether the tool had its effect | effects happen once |
| Security (`security/*.py`) | none | classify, allow, require approval, explain | precedence of profile, request and runtime switches, derived in several places | what is explained is what is enforced |
| Auto-fix (`core/auto_fix.py`, `tools/test_runner.py`) | attempts made so far | patch, test, stop, store | several exits of one loop; a patch stays applied | the attempts tell what is in the file, none is tested twice, every loop ends |
| Patch engine, file tools (`tools/patch.py`, `tools/fs.py`) | the files | preview, apply, write, append, replace | ambiguous anchors; a file is empty while it is written; others write between read and write | an apply does what it computed |
| Planner and prompts (`planner/planner.py`) | none | ask for a plan, parse it | - | appears as any plan, or none |
| Backups (`backup.py`) | backup directory | copy, publish, prune | two databases | not modelled |
| Other tools (`tools/code_nav.py`, `tools/git.py`, `tools/docker.py`) | external | read, call programs | external effects | not modelled |
| API shell, dashboards, diagnostics, Telegram bot, CLI, settings, logging | none | views, formatting, configuration | - | not modelled |

The API enqueues a job and, in embedded mode, schedules an asyncio task that calls
`agent.run_task`; in external mode a worker process claims the row and calls its own agent.  The
agent asks the planner (through the model router) for steps and runs each through the step guard and
the executor, which calls the tools under the security policy.  Every attempt is a record of the
memory store.  A step that needs an approval leaves the run `awaiting_approval`; the approval
endpoints continue it.  A failed run is resumed by an endpoint of its own.  These three share
nothing but the run's rows.

## 2. Plan

The components were taken in the order of what depends on them, and each module was model-checked
before anything was proved of it.

1. `JobLifecycle` (what the queue promises about one job), `ExternalQueue` (the shared table and the
   worker processes), then `EmbeddedQueue` (the same queue inside the API process), both against
   `JobLifecycle`.
2. `RunLifecycle` (what the agent promises about one run) and `RunRecovery`: the agent, approvals,
   continuation and failed-run resume over one run's rows.
3. `ToolPolicy`, `ModelRouter` and `StepExecution`, which composes the two: one step, its decision,
   its attempts, and the router it may share with others.
4. `MemoryStore`: all runs of a store, their clients, retention, knowledge.
5. `Workspace` and `AutoFix`, which composes the files with the loop that patches and tests them.
6. Proofs: type correctness and the safety properties of 1, 2, 3, 4 and 5.

All six are done.  What would come next: a proof of `SkipsCompleted` with `Racing` (TLC
finds no counterexample to it on small instances); writes that fail in `RunRecovery`; `Backup`.

| Composition | How |
|---|---|
| `ExternalQueue`, `EmbeddedQueue` -> `JobLifecycle` | `INSTANCE ... WITH` the status and attempts of a job; property `Lifecycle` |
| `RunRecovery` -> `RunLifecycle` | `INSTANCE ... WITH` the steps that have succeeded, the stage of the run and the approvals on record; property `Lifecycle` |
| `StepExecution` -> `ModelRouter`, `ToolPolicy` | EXTENDS; an analysis step is at the same time a caller of the router |
| `AutoFix` -> `Workspace` | EXTENDS; a loop's patch is an edit of the file |
| `MemoryStore` beside `RunRecovery` | the first has many runs and counts their records, the second has one run and tells its records apart |

## 3. Modules

Definitions whose name says what goes wrong, each under a comment "Slip", are wrong versions of the
definition that follows: putting one in the place of the other must break the property that guards
against that mistake.

### JobLifecycle

The lifecycle of one job: `docs/QUEUE.md` ("Normal transitions") completed with what recovery,
shutdown and the attempt limit add.  Variables `status` and `attempts`.  A job never leaves
`completed`; an attempt is counted when it starts, never beyond `MaxAttempts`; only an operator's
retry resets the count.  `FailsAtOnce` tells the two queues apart: a job whose executor disappeared
in its last attempt fails right then (recovery of an expired lease in the external queue), or waits
again and fails once it is next looked at (the embedded queue).

### ExternalQueue

| Variable | Code |
|---|---|
| `row` | table `queue_jobs`: status, attempts, `created_at` (a rank), `worker_slot`, lease, `terminal_reason`, result (the claim it came from) |
| `accepting` | `queue_control.accepting_work` |
| `forcing` | the job of a `queue_requeue_v2(force=true)` call that is between `requeue` and `_prepare_forced_retry` |
| `loop` | per worker process: not started, waiting between polls, inside a poll, stopping, gone |
| `tracked` | `ExternalQueueWorker._active`; an entry is the claim number of its task |
| `execs` | tasks inside `_execute_claim`, identified by (job, worker, claim) |
| `beating` | those whose heartbeat task is alive |
| `raised` | tasks that ended with a database error |
| `claims` | history: number of claims of each job |

Every `RunQueue` method used in external mode is one `BEGIN IMMEDIATE` transaction and so one
action.  A worker's poll (`_reap_completed`, `_claim_available`) has no await, so none of that
worker's tasks run inside it, but other processes commit between two of its claims: `BeginPoll`,
`Claim`, `EndPoll` are separate and `MayRun` keeps the worker's tasks out.  API handlers that are
coroutines exclude each other (`LoopFree`); plain `def` handlers run in threads and do not.
A lease is `live` or `lapsed`; `LeaseLapses` may take any lease that no heartbeat renews in time,
which is always possible when `Stalls` is TRUE (a synchronous tool blocks the loop) and otherwise
only when the heartbeat task is gone.  A row may be `InheritedRow`: left by a process in embedded
mode.  Not represented: timestamps, history, the `jobs` cache of each process (no external-mode
decision reads it; the read-only endpoints do).

### EmbeddedQueue

| Variable | Code |
|---|---|
| `mem` | `RunQueue.jobs`, with the fields that decisions read |
| `stored` | table `queue_jobs` |
| `unwritten` | rows that the loop's current callback has still to write; the loop is blocked until they land |
| `accepting` | `_accepting_work` |
| `handle` | `_job_tasks` |
| `tasks` | the asyncio tasks of jobs: not started, in the runner, ended with the done callback still due |
| `slot` | `_active_slots` and `_active_jobs`, which are set and cleared together |
| `calls` | the handlers in flight in threads (cancel, legacy requeue) |
| `stranded` | history: jobs whose attempt began and whose row could not be written |
| `process` | up, stopping (shutdown is waiting), stopped, crashed |

The loop runs one callback at a time, so a coroutine handler, a step of a task between two awaits
and a done callback are one action each, except for their database writes, during which threads go
on: `LoopWriteLands`.  The fields a thread sets change together, because CPython switches threads
only at calls and backward jumps and none is between them.  A row is evaluated before the
database lock is obtained (`_persist_job`), so two rows of one job may land in either order.
`CancelPosts` is `call_soon_threadsafe(task.cancel)`; the `CancelledError` is delivered when the
task next runs.  Switches: `LegacyRetries` (the legacy requeue endpoint), `HastyRetries` (a retry
while the last task of the job has not gone), `DatabaseErrors` (writes that raise in a task or a
thread).  An attempt whose first write raises leaves its slot taken and its job running until the
process ends: such jobs are `stranded` and excepted from `SlotsBacked`.

What the code does and no property states, because nothing in the repository promises otherwise:

- a job submitted between the end of a task and its done callback is started before an older one
  that waits, since the capacity is free and `schedule` is called for the new job only;
- a handler in a thread and a shutdown can leave `running` in the table for a job cancelled in
  memory; the next start requeues it;
- after a restart a job cancelled while it ran keeps its old `worker_slot` in the table;
- a write that fails inside a done callback leaves the queued jobs waiting until the next operator
  call or task end;
- a runner that swallows its cancellation may complete the job after a retry; only with
  `HastyRetries`.

In external mode, likewise: a worker whose execution outlives its claim holds fewer claims than it
runs tasks; two processes may together run more tasks than `QUEUE_MAX_CONCURRENCY`.

### RunLifecycle

One run as its operator is told about it: the plan, the steps that are `done`, the `status` (one stage
"working" for `running`, `resuming_after_approval` and `resuming_failed_run`), and how often each step
was approved and executed.  A step succeeds only after it has been executed and as the next of the
plan; a gated step is executed at most once per approval; the run waits only at a gated step, and
goes on from there only with an approval that has not been used; it is completed exactly when the
plan is done; nothing leads out of `completed` and `rejected`.  Nothing is said of records, attempts,
actors or transactions.  A decision may be on record before the run leaves `waiting` and in any
status of work, since a loss may come between the decision and the run's status.  An execution
begins with the transaction before it, so it is a second part of a step and not a step of its own.

### RunRecovery

| Variable | Code |
|---|---|
| `plan` | artifact `run_plan`, each step as what the profile of the run says of it: `open`, `profile` (approval mode), `explicit` (`args.require_approval`), `denied` |
| `records` | table `steps`: status, `attempt_no`, `phase`, and whether the error came from the policy |
| `history` | table `approval_history` |
| `status` | `runs.status` |
| `actor` | the agent and the operator calls in flight |
| `executed` | history: how often each step was handed to the executor |
| `interrupted` | history: an actor was lost in its work |

An actor is `run_task`, an approval with its continuation (`core/approval_continuation.py` for the
guarded endpoint, `agent.resume_after_approval` for the legacy one, the resumer for a step paused by
a resumption), a rejection, or a resumption.  `Driver` is the common shape of the four loops over the
plan: they differ in how they number attempts (`ContinueNumbers`, `ResumeNumbers`, one upwards for
the agent), in whether the approved step's record is updated or added to (`Source`), and in the
check before a step: `Refused` is the question whether the tool is allowed, `Refusal` what a loop
writes when it stops there.  `Goes` is what a loop does when it arrives at a step: end, pause,
refuse, or hand the step to the executor.  The guarded continuation also checks the step's arguments
itself (`_validate_step_policy` calls the validation of paths, commands and URLs) and stores what it
refuses as `policy_denied`, as it stores a tool that is not allowed; `Errors` keeps the two apart
("arguments", "policy").  `Result` is the executor's answer with all attempts of the
step, which the code stores together when the last is over.

Each write is a transaction; what an actor writes between two awaits is a batch, decided at the
first write (no batch depends on rows read half-way), and `todo` is its rest.  `WriteLands` commits
one.  Coroutines of the API keep the loop from the first to the last of their writes, and a decision
goes on into its continuation without an await (`Busy`).  With `Racing`, rejections (threads of the
API) and the agent (the Telegram bot's or a worker's process) come in between single writes of
others; without, they do not.  `Lost(Calls)` is the end of the API process and `Lost({Agent})` that
of the agent's process or a cancellation of its task, which `run_task` does not catch; a cancelled
job is exactly that.  Nothing repairs a run after a loss.

Assumed: plan steps have distinct ids (the prompt asks for that, nothing enforces it); the stored
profile of the run and the runtime switches do not change (a change would be another verdict at the
continuation).  In the other loops a failed path, command or URL validation is a failed result, and
whether arguments pass is open each time.  Left out: artifacts,
notes, failures of the store, the deletion of runs.

Consequences of a loss, or of an overlap, that no property excludes: a run stays `running`,
`resuming_after_approval` or `resuming_failed_run` for ever; an approved continuation of a resumed
step that meets the lock raises after `resuming_after_approval` was written; a rejection in the
instant before `awaiting_approval` is written leaves the run awaiting with nothing pending
(with `Racing`).

### ToolPolicy

No state.  `Allowed` and `Gated` are the table of `security/profile_policy_v2.py`, `ProfilePolicy`
and `Policy` its evaluation with the runtime switches (`SwitchedOff`), `Verdict` the decision of
`StepExecutionGuard.execute` up to the first attempt, `Access` and `Requirement` the two
explanations given to operators.  Whether the arguments of a step pass the security checks
(path, command, URL: string matching in `security/policy.py`) is an input, `sound`.

`docs/EXECUTION_PROFILES.md` has `patch.apply` as "deny" in the safe profile, while the code asks for
an approval (`security/profile_policy_v2.py:31`); the model follows the code.

### ModelRouter

| Variable | Code |
|---|---|
| `route` | per caller: where `route()` is, the provider it calls, tries, the attempts recorded as skipped or failed |
| `cooling` | per provider `cooldown_until`, as the ticks that are left |

`route()` has awaits only inside `_post_json`, so `Advance` (skip what cools down, call the next
candidate or fail) is one step.  A call that answers late ends a cooldown that began after it was
sent; failures of overlapping calls restart it.  Broken JSON or JSON of an unexpected shape raises
out of `route()` with nothing recorded (`Escape`).  Left out: payloads, the observability record,
`close()`; `choose_provider` and `models/providers.py` have no callers.

### StepExecution

| Variable | Code |
|---|---|
| `settings` | switches, dry run and profile, chosen once when the process starts |
| `step` | per run: the step under way, the guard's decision, attempts, the last result; history: `effects` |

A step is submitted with any of its tool, approval, explicit request, dry run and validity
(`Execute`), has attempts (`RunTool`, or `Analyse` and `Deliver` through the router), sleeps between
them (`Again`) and returns.  `Outcomes` says which tools mark a failure as transient, `Effects` that
a tool that fails may have acted.  When an analysis step is retried after its route failed, the
second route usually finds every provider in cooldown.

### MemoryStore

| Variable | Code |
|---|---|
| `row` | table `runs`, with the number of its rows in `steps` and whether there is a `run_plan` artifact; `closed` is history |
| `knowledge` | `project_knowledge.use_count` |
| `client` | a flow of calls in one process and what it has read |
| `now`, `inserted` | the clock in days, the last rowid |
| `under` | history: the profile a run was created under |
| `overtaken` | history: a run was created between the two SELECTs of a clean-up that takes it for an old one |

Every statement batch under one connection is an action, so loading a run takes four
(`LoadRow`, `LoadSteps`, `LoadArtifacts`, `LoadProfile`), creating one takes two and a
clean-up three.  `Restart` ends a client anywhere.  The foreign keys of `steps` and `artifacts` make a
write to a deleted run raise (`References`), and the handler of the exception in the agent raises in
turn; an UPDATE of `runs` finds nothing.  `Old` compares as the code does: the timestamp of SQLite
and the ISO cutoff are compared as strings, so the whole day of the cutoff counts as old.  A clean-up
takes any number of days and of runs to keep, as the command line passes them on; a negative LIMIT is
none.  `Approve` and `Reject` ask nothing of the run but that it exists, as the legacy `approve_step`
and `reject_step` do: a run may change its status while it is planned or executed.

`Statuses` has three values, for what the store's clients do depends on no more: "failed" (may be
resumed), "active" (`running` and the two `resuming_` statuses) and "settled" (`completed`,
`rejected`, `awaiting_approval`, `approved_waiting_manual_resume`).

What the code does and no property excludes:

- retention ignores the status: a run that awaits an approval or is being executed is deleted;
- a run deleted between the query of its artifacts and that of its profile is continued under the
  process's own setting (its first write then fails): hence "unless deleted" in `ProfileStable`;
- a bad item of a context payload leaves those before it remembered;
- `cleanup` on the command line accepts 0 days and fewer (`config/settings.py:112` refuses them): then
  a run created between its two SELECTs may be deleted while older ones stay.  `NewestKept` says
  nothing after that has become possible (`overtaken`).

Left out: preferences, notes and facts (single statements nothing else reads back), the text and
scores of the context, `fix_attempts` (see `AutoFix`), and what a planner is told of other runs, which
is only read.  Of that, the source differs from `docs/PROJECT_MEMORY.md:23` ("The current active run is
removed before context reaches the Planner"): it is removed from the related runs
(`core/agent.py:68-72`), but when nothing is related the recent run tasks still contain it, and a legacy
rejection in the meantime makes it related.  No run shows this.

### Workspace

`file` is the content a reader sees, a sequence of blocks; `edit` is per client the edit under way.
`Edited` is what an edit makes of a content, or nothing when it is refused.  A patch reads, computes
and hands its text to `FileSystemTool.write`, which reads the file once more (`Check`: it refuses a
size over the limit and returns if nothing would change), opens the file (emptying it, `Open`) and
writes (`Write`, over what another client has written since).  The file tools make their check with
their first read.  Nothing locks the file: torn reads, lost updates and mixtures of two texts are
behaviours of the model.  An insert of nothing is accepted and changes nothing.  A binary file is
refused like one over the limit, and not a case of its own.  Replacing a block and replacing a function differ only in how the target is found.

### AutoFix

| Variable | Code |
|---|---|
| `loop` | per loop: `max_attempts`, the plan, the attempts, the run's status and its `fix_attempts`; history: `start`, `tested`, `disturbed` |
| `dry` | setting `DRY_RUN` |

One action per call of `run_auto_fix`: `Patch`, the edit's `CheckFile`, `OpenFile` and `WriteFile`,
`CheckPatch`, `RunTests`, `StoreAttempt`, `Close`.  `Slice` is Python's slice: a negative `max_attempts` runs all
but the last.  The status of the tests and the failures found in their output are independent
(`TestResults`), and a failure that was seen before is looked for first: a run whose tests pass and
print it again ends `failed` (`core/auto_fix.py:59-64`).  `Passed` in `AttemptsAreInTheFile` says
exactly that.  An exception of the patch engine or of the test runner leaves the run `running` with
no attempt stored although patches are in the file (`raised`), where the repository's
`AUTO_FIX_LOOP_SPEC.md` says each attempt should be stored.  A repeated diff ends the loop with the
patch in the file and not tested.  The clients that are not loops are tools of other runs.
What they write at the same time is excepted from the part of `AttemptsAreInTheFile` about the file
(`disturbed`): the code promises nothing there, an update may be lost.

## 4. Runs

Every property of a passing run has a mutant of the code's definition that breaks it.

| Run | Instance | States | What it shows |
|---|---|---|---|
| `external_fence` | 2 jobs, 2 workers, one task each | 402 thousand | `TypeOK`, `ResultOfLatestClaim`, `ResultsFromHolder`, `CancelSticks`; every job follows `JobLifecycle` |
| `external_fair` | fair, 1 job, a worker with one task and one with two | 12 thousand | `ClaimBacked`; a queued job is claimed, cancelled or failed; a dead worker loses its claim |
| `embedded_tasks` | 1 job, 2 threads, every switch on | 217 thousand | `TypeOK`, `OneTaskPerJob`, `SlotsBacked`, `CancelSticks` |
| `embedded_fair` | fair, 2 jobs for one slot, no hasty retries | 98 thousand | `WithinConcurrency`, `ShutdownStops`, `CancelledNeverCompletes`, `JobLifecycle`, and that a queued job is picked up |
| `recovery_guarded` | fair, 2 calls, 2 steps, every verdict | 79 thousand | `TypeOK`, `AwaitingHasPending`, `SkipsCompleted`, `RejectionEnds`, `Settles`; the run follows `RunLifecycle` |
| `recovery_any` | 2 calls, 2 gated steps, the legacy endpoints too | 974 thousand | `ExecutionsApproved` |
| `steps` | one run and one planner, 4 tools, 2 settings | 82 thousand | `TypeOK`, `EffectsOnce`, `ExplainedAsEnforced`, `FailedMeansExhausted`, `ProviderComesBack` |
| `store` | 2 runs, an agent and an operator of different profiles | 2.2 million | `TypeOK`, `NoOrphans`, `ViewCoversStatus`, `ProfileStable`, `NewestKept`, `UsesNeverLost` |
| `workspace` | a loop and a tool on one file, 3 plans | 329 thousand | `TypeOK`, `AttemptsDiffer`, `AttemptsAreInTheFile`, `LoopEnds` |
| `embedded_lost_retry` | violation | 461 | a retry is undone by the cancellation before it |
| `recovery_approved` | violation | 953 | an approved step is refused by the profile that asked for the approval |
| `recovery_decided_once` | violation, `Racing` | 2 thousand | an approval and a rejection both go through |

Known from the models of the external queue, without a run of its own: a cancel and a requeue let a
second worker execute a job while the first still runs it (`docs/QUEUE.md:21-23` says claims prevent
that), and with two tasks per worker the result of the cancelled execution may complete the job,
because `finish_claim` compares no attempt (`docs/QUEUE.md:25`).  `ResultOfLatestClaim` therefore is
stated, and proved, for one task per worker.

Bounds, external queue.  `MaxClaims` only limits the operator: a job already claimed that often is
not offered for requeueing.  `MaxAttempts = 2` has the first attempt, the last one and the exhausted
state; two jobs are enough for capacity one, two workers for every contention (a third
process only repeats what the second does to the first); a worker that dies is not reborn (a
restarted process has a new worker id).  In `external_fair` one worker has room for
one task, so that a task that ended occupies it until the next poll, and one for two, so that it can
claim the job again while an execution of an earlier claim goes on.  Both runs have `Stalls = TRUE`,
so any lease may lapse.

Bounds, embedded queue.  One job and two threads have every overlap of a cancel, a legacy requeue
and a retry of the same job; jobs meet only in the capacity and the order, for which
`embedded_fair` has two and a capacity of one, so that one waits for the other's done callback.  That
slots stay distinct when there are several is left to the proof of `WithinConcurrency`.  At most two tasks of a job exist: `copy`.

Bounds, recovery.  `MaxLog` stops new calls once the two tables have that many rows; calls in
flight go on.  In `recovery_guarded` it leaves room for a pause, a failure, a resumption, a pause of
the resumption and its approval.  Two steps are the step continued from and the one after it.
`recovery_any` needs only gated steps, one attempt each; what its bounds leave out (`Racing` with the
legacy endpoints, any number of calls) the proof of `ExecutionsApproved` covers.

Bounds, steps.  One configured remote provider and ollama are enough for a preferred and a fallback
candidate; one retry of each kind, a cooldown of two ticks so that calls overlap its start and its
end.  The tools are one of each class the code tells apart: routed, retried after a transient
failure, not retried, gated and switched off.

Bounds, store.  Two runs, one of which may be deleted while the other stays or is created; one
record of a step per run beside those of a failure; two days, and clean-ups of 0 days that keep one
run, which see the boundary day whether they begin before midnight (then like one of a day after it)
or after it (then they may be overtaken); one entry of knowledge and a payload with a bad item behind
a good one.  What other clean-ups do the proof of `NewestKept` covers.

Bounds, workspace.  Plans of three patches repeat a diff at a distance of one and of two and undo
each other; one plan inserts nothing before and after an append; `max_attempts` is negative, zero
and the length of the plan.  `MaxFileSize`, the setting, is two blocks: the file may grow beyond it by
a mixture of two writes only, and is refused then.  One signature is enough for a failure that is seen again.

Deadlock checking is off in the runs of the queues and of `RunRecovery`: when all workers are gone and all jobs terminal, when the process has
exited, or when a run is lost or over and the bound forbids more calls, nothing can happen, and
that is a legal end.

Fairness.  External: `run_forever` polls as long as it lives (weak fairness of `StartWorker`,
`BeginPoll` and of `Claim \/ EndPoll`); asyncio runs every ready task between two polls and an
agent's run ends (its steps have timeouts), but a poll disables the tasks again and again, hence
strong fairness of an execution's end; a lease that nobody renews lapses.  Embedded: the loop runs
whatever is ready, a runner ends, writes and handlers under way end.  Recovery: the same, for
continuations, writes and results.  Steps: only time passes (`WF_vars(Time)`).  Auto-fix: its calls are
synchronous and the tests have a timeout (`WF_vars(Progress(c))`).  The store has none: no property of
it needs any.  Nothing is assumed of the operator, of stops, of crashes or of
database errors, nor of heartbeats: a heartbeat may always be late.

## 5. Proofs

`ExternalQueueProofs` proves `TypeCorrect`, `ClaimMarkersCorrect`, `OutcomeConsistentCorrect`,
`ForcedRetryPendingCorrect` and `LifecycleImplemented`, for any set of jobs and workers and any
limits.  None of the invariants is inductive alone: a released row is only coherent if it was
coherent when claimed (`ClaimMarkers` needs `TypeOK`), `OutcomeConsistent` needs `attempts <=
MaxAttempts`, and `ForcedRetryPending` needs that only a job with an unspent attempt is ever
claimed.  The inductive invariant is their conjunction with `AbsentUntouched` (an absent job has the
blank row).  Every action is shown to change each row through a handful of row transitions
(`RowNext`), so the invariants are proved once per row transition and not once per action; the
refinement theorem maps each row transition to an action of `JobLifecycle` or a stutter.

`ExternalQueueFenceProofs` adds `ResultsFromHolderCorrect` and, with one task per worker,
`ResultOfLatestClaimCorrect`.  The latter needs an invariant about the executions: each one is
tracked by its worker (`TaskTracked`), a worker tracks at most one (`OneTracked`), and the claim a
row names is the latest (so an older execution of the same worker cannot pass `finish_claim`'s
guard, although that guard compares no attempt).  `CancelSticksCorrect` follows from `ClaimMarkers`:
a cancelled row names no worker and no lease, and every guard of a worker's write wants one.
`ClaimBackedCorrect` (a live worker's claim has an execution or is being handed out) is inductive
relative to the invariants of `ExternalQueueProofs`.

### EmbeddedQueueProofs

Everything the runs of the embedded queue check except liveness, for any number of jobs, threads,
attempts and slots.  The argument has five layers:

1. Submitting, retrying, resuming, a done callback and the start all end in a pass of the scheduler.
   `Scheduling` says once what a pass does (`Passed`): it starts jobs that have no task and no slot,
   and fails some that have no attempt left.  `HandlerSteps`, `DoneSteps` and `RestartSteps` reduce
   the actions to it.  `TypeCorrect`.
2. `TasksInv`: one task per job, tracked by its handle (`OneTask`), and the slots are those of the
   tasks in their runner and of stranded jobs (`Backed`).  `OneTaskPerJobCorrect` and
   `SlotsBackedCorrect`, with every switch on.
3. `RowNext` lists what any step does to one row; `CancelSticksCorrect` is read off it.  `KnownInv`
   adds that the copies of a row (the table, what is still to be written) are of the same job.
4. With `~HastyRetries`, `PatientInv`: what a task shows is in step with its job's status, and no
   cancellation is on its way for a job that waits.  Hence `RetrySticksCorrect`,
   `CancelledNeverCompletesCorrect` and the refinement `LifecycleImplemented`.
5. With `~DatabaseErrors`: `OrderInv` (creation ranks are a numbering of the known jobs, also in the
   table, where at most the newest is missing) bounds what one pass starts by the capacity, and
   `SlotsInv` numbers the slots: `WithinConcurrencyCorrect`.  `Matching` (a task matches its job or has
   been, or is about to be, told to stop), `RunningHasSlot` and `Stopping` give
   `ShutdownStopsCorrect`, whatever retries are made.

### RunRecoveryProofs

`ExecutionsApprovedCorrect`: a gated step is executed at most once per approval of it, for any number
of calls, with `Racing` and the unguarded endpoints on or off, losses included.  `ExecutionsApproved`
alone says nothing of the approvals that have been given and not used yet, so the invariant counts
them: `executed[s]` plus the number of actors that hold a `Credit` for `s` is at most `Approvals(s)`.
An actor gets its credit with the approval it writes and loses it when it hands the step to the
executor; `Orderly` says what an actor at each `pc` may hold and still has to write.  The step lemma
has one case per action, and the counting facts are lemmas about finite sets of their own.

`TypeCorrect` holds with every switch too.  Its invariant `TypeInv` adds to `TypeOK` the types of what
an actor still has to write, that a driver stays within its plan and numbers every step of it, and
that what a resumption records, or is about to, is a step of the plan.

`CompletedMeansDoneCorrect`, `AwaitingHasPendingCorrect`, `RejectionEndsCorrect` and
`SkipsCompletedCorrect` assume `~Unguarded` and `~Racing`, the switches of the run `recovery_guarded`.
They rest on `RunInv`: one actor is at work at most (`Alone`); while one is, the plan is done before
the step it is at and untouched after it (`Reached`), and the writes it has left make the tables say
so of the next step, or end the run (`Doing`); when none is, the run's status and what the tables
tell agree (`AtRest`).  A loss in the middle leaves `AtRest` but for the status, which is why
`AwaitingHasPending` speaks of runs that were not interrupted.  `Told` abbreviates the latest status
of each step: every write is shown to change it in one place (`Effect`), so that the cases of
`Doing` are about `Told` and not about the order of the records.

`CompletedMeansDone` (a completed run has every step of its plan done) is a consequence of
`Lifecycle`, which the run checks in its place.

### RunLifecycleProofs

`LifecycleImplemented`: `RunRecovery` implements `RunLifecycle`, with `~Unguarded` and `~Racing`, for
any number of calls and steps.  Neither switch can be spared (TLC finds a counterexample for each): an
unguarded approval decides a step that is not the next one, and with a thread's write in between a
rejection overtakes the pause it answers, which then leaves the run waiting.  The argument:

1. What a write says when it lands was decided earlier, by its actor, from the plan and the
   verdicts of that moment.  `GateInv` carries this forward: whatever an actor has still to write
   is `Honest` (it makes a decision only of a gated step, a success only of a step that has been
   executed), and what the tables tell of decisions is `Judged` (about gated steps only).
2. Each landing write is a move of `RunLifecycle` or leaves `plan`, `Finished`, `Stage` and `Grants` as
   they are (`WriteMoves`).  `RunInv` supplies that the step written about is the next one.
3. An execution begins only in `Goes`, at the step the actor has come to (`StepBegins`,
   `ExecutesOnly`): the profile leaves it open, or the actor holds a `Credit`, and then `ApprovalInv`
   of `RunRecoveryProofs` says that fewer executions than approvals are on record.
4. `LifecycleInitial` and one step lemma per action give the refinement.

`DecidedOnceCorrect`: under the same switches, no request of an approval is answered twice, unless a loss came
before (it may swallow the row of a request).  The run `recovery_decided_once` shows that it fails with
`Racing`; so, through the guarded endpoints, writes that come in between are the only cause.  `AskInv`: between two decisions of a step `history` has a request of it (`Once`), an
actor that has a decision to write found the step asked for and unanswered (`Settling`), and a step
that is pending has its request in `history` or among what its actor still writes (`Awaited`).

### StepExecutionProofs

`TypeCorrect`, `EffectsAtMostOnce`, `FailedRoutesExhausted` and `ExplanationsEnforced`, for any
callers, tools, settings, provider order, keys and limits.  Effects: a step that is ready again has
had none, because only tools outside `Affects` are retried.  Routes: everything before the position
being called is in `failed` or `skipped` if it was a candidate.  Explanations: the decision taken at
`Execute` is that of the settings, which never change, so the statement is one about `ToolPolicy`.

### MemoryStoreProofs

`TypeCorrect`, `NoOrphansCorrect`, `ViewCoversStatusCorrect`, `ProfileStableCorrect` and
`UsesNeverLostCorrect` rest on one inductive invariant: `NoOrphans`, `RowsCoherent` (what a row may
hold) and `Knows` (what a client at each `pc` has read of its run and how that relates to the row as
it is by now).  Each action is first shown to have one of four effects on a row (created, changed,
deleted, kept), and each effect to preserve what every other client knows.

`NewestKeptCorrect` needs what a clean-up has reserved: at `keeping`, `selecting` and `deleting` every
run it dooms, or will doom, has `keep` newer ones.  `Survivors` is the combinatorial step: deleting
a finite set of runs each of which has `k` newer ones leaves each of them `k` newer ones, by induction
from the newest.  A run that is added while a clean-up is `selecting` is not old for it, or `overtaken`
notes it (`OvertakingNoted`); the days and the numbers to keep are any integers.

### AutoFixProofs

`TypeCorrect` and `AttemptsDifferCorrect`, for any plans, edits, files, sizes and other clients.  The
invariant `Sane` adds to the properties that a loop that patches or tests has an attempt left and
that the diff under test is not among those tried.

`AttemptsAreInTheFileCorrect` needs to know of the file what the loop's place says (`FileInv`): between
two attempts an undisturbed file is what the attempts so far left (`Left`), while a patch is applied
its text is on the way or there, and the result is that of the last tests (`Judged`).  A loop's
client edits the file only while it patches, so no other edit of its own can be under way
(`edit[c].pc = "none"`).

### What is only model-checked

Liveness (`QueuedIsServed`, `DeadWorkerLosesClaim`, `Settles`, `ProviderComesBack`, `LoopEnds`): out of
the prover's reach.  Every other property of a passing run is the subject of a theorem.  The three
properties of the violation runs do not hold in general; two are proved where their cause is
absent: `RetrySticks` with `~HastyRetries`, `DecidedOnce` with `~Unguarded` and `~Racing`.  `ClaimMarkers`, `OutcomeConsistent`,
`ForcedRetryPending` and `CompletedMeansDone` are only proved.

The proofs assume what the modules' named ASSUMEs say (among them `MarkersAssumption`: the markers
for "no call" and "nothing to write" are not such values) and the switches a theorem names.

## 6. Not modelled

- Backups: each database is copied by SQLite's own backup call, the archive is renamed into place;
  nothing in the code relates the two copies to each other.
- The validation of paths, commands and URLs, the parsing of plans and of test output, prompts, code
  navigation: functions of text without state.  Where they decide something, their verdict is an
  input of the model.
- Git, Docker: external programs.
- Dashboards, diagnostics, metrics, the operations console, the API shell: views of the state above.
- Telegram bot, CLI, settings, logging, start-up: front ends and configuration.  What they call is
  modelled; a run of the bot is the agent in another process (`Racing`).
- Failures of the store inside `RunRecovery`: the run would stay in the status last written, as after
  a loss, which is modelled.
- The hazards of `PROJECT.json` without a property: the code does what they say, and nothing in the
  repository promises otherwise.
