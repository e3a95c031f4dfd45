---------------------------- MODULE EmbeddedQueue ----------------------------
(***************************************************************************)
(* The run queue in embedded mode: the API process keeps the jobs in       *)
(* memory, runs them as asyncio tasks and writes rows through to SQLite.   *)
(*                                                                         *)
(* The event loop runs one callback at a time: a coroutine handler, a step *)
(* of a job's task, a done callback, a task.cancel posted by a thread.     *)
(* Handlers declared "def" (cancel, the legacy requeue, pause) run in      *)
(* threads: the fields they set change together (the interpreter switches  *)
(* threads at calls only), but the row they write is evaluated before the  *)
(* database lock is obtained, so it may be stale when it lands.  The same  *)
(* holds for the loop's writes, which block the loop until they land.      *)
(***************************************************************************)
EXTENDS Integers, FiniteSets

CONSTANTS
    Jobs,
    Threads,          \* handlers that can be in flight at a time
    MaxAttempts,      \* QUEUE_MAX_ATTEMPTS
    MaxConcurrency,   \* QUEUE_MAX_CONCURRENCY
    Idle,             \* a thread with no call
    NoRow,            \* nothing to write
    LegacyRetries,    \* is POST /queue/{id}/requeue used?
    HastyRetries,     \* may a job be retried before its last task has gone?
    DatabaseErrors    \* may a write of a task or of a thread fail?

ASSUME JobsAssumption == IsFiniteSet(Jobs)
ASSUME ThreadsAssumption == IsFiniteSet(Threads)
ASSUME LimitsAssumption == /\ MaxAttempts \in Nat \ {0}
                           /\ MaxConcurrency \in Nat \ {0}
ASSUME SwitchesAssumption == {LegacyRetries, HastyRetries, DatabaseErrors} \subseteq BOOLEAN

VARIABLES
    mem,          \* RunQueue.jobs
    stored,       \* table queue_jobs
    unwritten,    \* rows the loop's current callback has still to write
    accepting,    \* _accepting_work
    handle,       \* _job_tasks: the copy number of the job's task, or 0
    tasks,        \* the job tasks of the loop
    slot,         \* _active_slots, and with it _active_jobs: 0 is no entry
    stranded,     \* history: jobs whose attempt began and could not be written
    calls,        \* per thread: the handler in flight
    process

vars == <<mem, stored, unwritten, accepting, handle, tasks, slot, stranded, calls, process>>

Statuses == {"absent", "queued", "running", "completed", "failed", "cancelled"}
Reasons == {"none", "runner_completed", "runner_exception", "max_attempts_exhausted",
            "cancelled_by_operator", "worker_task_cancelled",
            "worker_task_cancelled_before_start"}

Row == [status : Statuses, attempts : 0..MaxAttempts, created : Nat,
        slot : Nat, reason : Reasons]

(* A task is identified by its job and a copy number.  cancel: "posted" is *)
(* a task.cancel a thread handed to the loop, "requested" one that has     *)
(* run.  cancelled is task.cancelled().  revoked (history): the operator   *)
(* cancelled the job while the task was in its runner.                     *)
TaskRecord == [job : Jobs, copy : {1, 2}, phase : {"ready", "running", "done"},
               cancel : {"no", "posted", "requested"}, cancelled : BOOLEAN,
               revoked : BOOLEAN]

Call == [op : {"cancel", "requeue"}, job : Jobs, step : {"write", "stop"}, row : Row]

ASSUME MarkersAssumption == Idle \notin Call /\ NoRow \notin Row

TypeOK ==
    /\ mem \in [Jobs -> Row] /\ stored \in [Jobs -> Row]
    /\ unwritten \in [Jobs -> Row \cup {NoRow}]
    /\ accepting \in BOOLEAN
    /\ handle \in [Jobs -> 0..2]
    /\ tasks \subseteq TaskRecord
    /\ slot \in [Jobs -> Nat] /\ stranded \subseteq Jobs
    /\ calls \in [Threads -> Call \cup {Idle}]
    /\ process \in {"up", "stopping", "stopped", "crashed"}
-----------------------------------------------------------------------------
(* Rows.                                                                   *)

NewRow(rank) == [status |-> "queued", attempts |-> 0, created |-> rank,
                 slot |-> 0, reason |-> "none"]

AbsentRow == [NewRow(0) EXCEPT !.status = "absent"]

Terminal(r) == r.status \in {"completed", "failed", "cancelled"}

Ended(r, status, reason) == [r EXCEPT !.status = status, !.reason = reason]

(* Slip: the attempt that was refused is counted.                          *)
ExhaustedCounted(r) ==
    [Ended(r, "failed", "max_attempts_exhausted") EXCEPT !.attempts = @ + 1]

Exhausted(r) == Ended(r, "failed", "max_attempts_exhausted")

(* A running job keeps its slot: its task will give it back.               *)
CancelledRow(r) ==
    [Ended(r, "cancelled", "cancelled_by_operator")
        EXCEPT !.slot = IF r.status = "running" THEN @ ELSE 0]

(* Slip: the runner's outcome wins over a cancellation.                    *)
OutcomeWins(r, status, reason) == [Ended(r, status, reason) EXCEPT !.slot = 0]

(* The end of a task whose job the operator has not cancelled.             *)
Outcome(r, status, reason) ==
    [IF r.status = "cancelled" THEN r ELSE Ended(r, status, reason) EXCEPT !.slot = 0]

RequeuedRow(r) ==
    [r EXCEPT !.status = "queued", !.reason = "none", !.slot = 0,
              !.attempts = IF @ >= MaxAttempts THEN 0 ELSE @]

(* Slip: the attempts of interrupted jobs are reset.                       *)
RecoveredRowAfresh(r) ==
    IF r.status = "running"
    THEN [r EXCEPT !.status = "queued", !.reason = "none", !.slot = 0, !.attempts = 0]
    ELSE r

RecoveredRow(r) ==
    IF r.status = "running"
    THEN [r EXCEPT !.status = "queued", !.reason = "none", !.slot = 0]
    ELSE r
-----------------------------------------------------------------------------
(* Scheduling, as a function of the jobs m, the handles h and the tasks ts *)
(* at the point of the callback where it happens.                          *)

Tracked(h, ts) == {t \in ts : h[t.job] = t.copy /\ t.phase # "done"}

(* Slip: only tasks in their runner are counted.                           *)
CapacityBesideRunners(h, ts) == MaxConcurrency - Cardinality({t \in ts : t.phase = "running"})

Capacity(h, ts) == MaxConcurrency - Cardinality(Tracked(h, ts))

(* Slip: the task handles are not looked at.                               *)
WaitingUntracked(S, m, h) == {j \in S : m[j].status = "queued" /\ slot[j] = 0}

(* Queued and known neither as scheduled nor as active.                    *)
Waiting(S, m, h) == {j \in S : m[j].status = "queued" /\ h[j] = 0 /\ slot[j] = 0}

(* The candidates that are looked at before the capacity is used, oldest   *)
(* first; one without attempts left uses none.                             *)
Reached(S, m, capacity) ==
    {j \in S : Cardinality({k \in S : m[k].attempts < MaxAttempts
                                      /\ m[k].created < m[j].created}) < capacity}

FreeCopy(j, ts) == IF \E t \in ts : t.job = j /\ t.copy = 1 THEN 2 ELSE 1

NewTask(j, ts) == [job |-> j, copy |-> FreeCopy(j, ts), phase |-> "ready",
                   cancel |-> "no", cancelled |-> FALSE, revoked |-> FALSE]

(* schedule (S is one job) and schedule_pending (S is all of them).        *)
Scheduled(S, m, h, ts) ==
    LET reached == Reached(Waiting(S, m, h), m, Capacity(h, ts))
        started == {j \in reached : m[j].attempts < MaxAttempts}
    IN [mem     |-> [j \in Jobs |-> IF j \in reached \ started THEN Exhausted(m[j]) ELSE m[j]],
        handle  |-> [j \in Jobs |-> IF j \in started THEN FreeCopy(j, ts) ELSE h[j]],
        tasks   |-> ts \cup {NewTask(j, ts) : j \in started},
        touched |-> reached]

(* One callback of the loop: it leaves memory as given and has the rows of *)
(* the touched jobs to write before the next callback runs.                *)
LoopFree == process \in {"up", "stopping"} /\ \A j \in Jobs : unwritten[j] = NoRow

LoopWrites(m, touched) ==
    unwritten' = [j \in Jobs |-> IF j \in touched THEN m[j] ELSE NoRow]

(* The callback goes on to schedule S if work is accepted.                 *)
ThenSchedule(S, m, h, ts, touched, accepted) ==
    LET s == IF accepted THEN Scheduled(S, m, h, ts)
             ELSE [mem |-> m, handle |-> h, tasks |-> ts, touched |-> {}]
    IN /\ mem' = s.mem /\ handle' = s.handle /\ tasks' = s.tasks
       /\ LoopWrites(s.mem, touched \cup s.touched)

With(j, r) == [mem EXCEPT ![j] = r]

Replaced(t, u) == (tasks \ {t}) \cup {u}
-----------------------------------------------------------------------------
Init ==
    /\ mem = [j \in Jobs |-> AbsentRow] /\ stored = mem
    /\ unwritten = [j \in Jobs |-> NoRow]
    /\ accepting = TRUE
    /\ handle = [j \in Jobs |-> 0] /\ tasks = {} /\ slot = [j \in Jobs |-> 0]
    /\ stranded = {}
    /\ calls = [c \in Threads |-> Idle]
    /\ process = "up"

LoopWriteLands(j) ==
    /\ unwritten[j] # NoRow
    /\ stored' = [stored EXCEPT ![j] = unwritten[j]]
    /\ unwritten' = [unwritten EXCEPT ![j] = NoRow]
    /\ UNCHANGED <<mem, accepting, handle, tasks, slot, stranded, calls, process>>
-----------------------------------------------------------------------------
(* Coroutine handlers.                                                     *)

(* enqueue, then an attempt to schedule the new job itself.                *)
Submit(j) ==
    /\ process = "up" /\ LoopFree /\ mem[j].status = "absent"
    /\ LET rank == Cardinality({k \in Jobs : mem[k].status # "absent"}) + 1
       IN ThenSchedule({j}, With(j, NewRow(rank)), handle, tasks, {j}, accepting)
    /\ UNCHANGED <<stored, accepting, slot, stranded, calls, process>>

(* No task of an earlier attempt and no cancel call can reach the job.     *)
Settled(j) == /\ handle[j] = 0
              /\ \A c \in Threads : calls[c] # Idle => calls[c].job # j

(* queue_requeue_v2.  force also resets the attempts of a job that waits   *)
(* with none left; any job that is queued in the end is scheduled.         *)
Requeue(j, force) ==
    /\ process = "up" /\ LoopFree
    /\ HastyRetries \/ Settled(j)
    /\ LET r == mem[j]
           spent == r.attempts >= MaxAttempts
       IN \/ /\ r.status \in {"failed", "cancelled"} /\ (force \/ ~spent)
             /\ ThenSchedule({j}, With(j, RequeuedRow(r)), handle, tasks, {j}, accepting)
          \/ /\ r.status \in {"failed", "cancelled"} /\ spent /\ ~force
             /\ ThenSchedule({}, With(j, Exhausted(r)), handle, tasks, {j}, FALSE)
          \/ /\ r.status = "queued"
             /\ IF force /\ spent
                THEN ThenSchedule({j}, With(j, [r EXCEPT !.attempts = 0]),
                                  handle, tasks, {j}, accepting)
                ELSE ThenSchedule({j}, mem, handle, tasks, {}, accepting)
    /\ UNCHANGED <<stored, accepting, slot, stranded, calls, process>>

(* POST /queue/v2/resume and, when work is accepted already, /recover.     *)
Resume ==
    /\ process = "up" /\ LoopFree
    /\ accepting' = TRUE
    /\ ThenSchedule(Jobs, mem, handle, tasks, {}, TRUE)
    /\ UNCHANGED <<stored, slot, stranded, calls, process>>

(* POST /queue/v2/pause, and drain, which then only waits.                 *)
Pause ==
    /\ process = "up" /\ accepting' = FALSE
    /\ UNCHANGED <<mem, stored, unwritten, handle, tasks, slot, stranded, calls, process>>
-----------------------------------------------------------------------------
(* Handlers that run in threads.                                           *)

Begins(c, op, j, r) ==
    /\ process = "up" /\ calls[c] = Idle
    /\ mem' = With(j, r)
    /\ calls' = [calls EXCEPT ![c] = [op |-> op, job |-> j, step |-> "write", row |-> r]]

CancelBegins(c, j) ==
    /\ mem[j].status # "absent" /\ ~Terminal(mem[j])
    /\ Begins(c, "cancel", j, CancelledRow(mem[j]))
    /\ tasks' = {[t EXCEPT !.revoked = @ \/ (t.job = j /\ t.phase = "running")] : t \in tasks}
    /\ UNCHANGED <<stored, unwritten, accepting, handle, slot, stranded, process>>

(* The legacy requeue schedules nothing.                                   *)
LegacyRequeueBegins(c, j) ==
    /\ LegacyRetries /\ (HastyRetries \/ Settled(j))
    /\ mem[j].status \in {"failed", "cancelled"}
    /\ Begins(c, "requeue", j, IF mem[j].attempts >= MaxAttempts
                               THEN Exhausted(mem[j]) ELSE RequeuedRow(mem[j]))
    /\ UNCHANGED <<stored, unwritten, accepting, handle, tasks, slot, stranded, process>>

(* The row lands: the one evaluated when the fields were set, or the one   *)
(* memory has by now.                                                      *)
CallWriteLands(c) ==
    /\ calls[c] # Idle /\ calls[c].step = "write"
    /\ \/ /\ \E r \in {calls[c].row, mem[calls[c].job]} :
                stored' = [stored EXCEPT ![calls[c].job] = r]
          /\ calls' = [calls EXCEPT ![c] = IF @.op = "cancel" THEN [@ EXCEPT !.step = "stop"]
                                           ELSE Idle]
       \/ /\ DatabaseErrors         \* the handler ends here
          /\ calls' = [calls EXCEPT ![c] = Idle]
          /\ UNCHANGED stored
    /\ UNCHANGED <<mem, unwritten, accepting, handle, tasks, slot, stranded, process>>

(* _cancel_task on whatever task the job has by now.                       *)
CancelPosts(c) ==
    /\ calls[c] # Idle /\ calls[c].step = "stop"
    /\ tasks' = {IF t \in Tracked(handle, tasks) /\ t.job = calls[c].job /\ t.cancel = "no"
                 THEN [t EXCEPT !.cancel = "posted"] ELSE t : t \in tasks}
    /\ calls' = [calls EXCEPT ![c] = Idle]
    /\ UNCHANGED <<mem, stored, unwritten, accepting, handle, slot, stranded, process>>
-----------------------------------------------------------------------------
(* Job tasks.                                                              *)

(* The posted task.cancel runs; on a finished task it does nothing.        *)
CancelRequested(t) ==
    /\ LoopFree /\ t \in tasks /\ t.cancel = "posted"
    /\ tasks' = Replaced(t, [t EXCEPT !.cancel = IF t.phase = "done" THEN "no" ELSE "requested"])
    /\ UNCHANGED <<mem, stored, unwritten, accepting, handle, slot, stranded, calls, process>>

Executing == {t \in tasks : t.phase = "running"}

UsedSlots == {slot[j] : j \in Jobs} \ {0}

LowestSlot ==
    IF \E n \in 1..MaxConcurrency : n \notin UsedSlots
    THEN CHOOSE n \in 1..MaxConcurrency :
            n \notin UsedSlots /\ \A k \in 1..(n - 1) : k \in UsedSlots
    ELSE Cardinality(UsedSlots) + 1

(* The task's first step: a cancelled task never enters run_job.           *)
NeverStarts(t) ==
    /\ LoopFree /\ t \in tasks /\ t.phase = "ready" /\ t.cancel = "requested"
    /\ tasks' = Replaced(t, [t EXCEPT !.phase = "done", !.cancelled = TRUE])
    /\ UNCHANGED <<mem, stored, unwritten, accepting, handle, slot, stranded, calls, process>>

StartRefused(t) ==
    /\ LoopFree /\ t \in tasks /\ t.phase = "ready" /\ t.cancel # "requested"
    /\ LET r == mem[t.job]
       IN \/ /\ r.status # "queued"
             /\ UNCHANGED <<mem, unwritten>>
          \/ /\ r.status = "queued" /\ r.attempts >= MaxAttempts
             /\ mem' = With(t.job, Exhausted(r))
             /\ LoopWrites(mem', {t.job}) \/ (DatabaseErrors /\ UNCHANGED unwritten)
    /\ tasks' = Replaced(t, [t EXCEPT !.phase = "done"])
    /\ UNCHANGED <<stored, accepting, handle, slot, stranded, calls, process>>

AttemptStarts(t) ==
    /\ LoopFree /\ t \in tasks /\ t.phase = "ready" /\ t.cancel # "requested"
    /\ mem[t.job].status = "queued" /\ mem[t.job].attempts < MaxAttempts
    /\ Cardinality(Executing) < MaxConcurrency
    /\ mem' = [mem EXCEPT ![t.job].status = "running", ![t.job].attempts = @ + 1,
                          ![t.job].slot = LowestSlot]
    /\ slot' = [slot EXCEPT ![t.job] = LowestSlot]
    /\ \/ /\ tasks' = Replaced(t, [t EXCEPT !.phase = "running"])
          /\ LoopWrites(mem', {t.job})
          /\ UNCHANGED stranded
       \/ /\ DatabaseErrors          \* raised before the inner try block
          /\ tasks' = Replaced(t, [t EXCEPT !.phase = "done"])
          /\ stranded' = stranded \cup {t.job}
          /\ UNCHANGED unwritten
    /\ UNCHANGED <<stored, accepting, handle, calls, process>>

(* Slip: the slot of a cancelled job is not given back.                    *)
SlotFreedUnlessCancelled(t) ==
    IF mem[t.job].status = "cancelled" THEN slot ELSE [slot EXCEPT ![t.job] = 0]

SlotFreed(t) == [slot EXCEPT ![t.job] = 0]

(* How an attempt ends in memory, and what run_job's finally does.         *)
AttemptEnds(t, status, reason) ==
    /\ LoopFree /\ t \in tasks /\ t.phase = "running"
    /\ mem' = With(t.job, Outcome(mem[t.job], status, reason))
    /\ slot' = SlotFreed(t)
    /\ tasks' = Replaced(t, [t EXCEPT !.phase = "done"])
    /\ \/ LoopWrites(mem', {t.job})
       \/ DatabaseErrors /\ UNCHANGED unwritten
    /\ UNCHANGED <<stored, accepting, handle, stranded, calls, process>>

(* A runner that was asked to stop may still return or raise.              *)
RunnerReturns(t) == AttemptEnds(t, "completed", "runner_completed")
RunnerFails(t) == AttemptEnds(t, "failed", "runner_exception")
RunnerStops(t) == /\ t.cancel = "requested"
                  /\ AttemptEnds(t, "cancelled", "worker_task_cancelled")

(* _on_task_done: the handle goes, a job whose task never started is       *)
(* cancelled, and the freed capacity is used.                              *)
TaskDone(t) ==
    /\ LoopFree /\ t \in tasks /\ t.phase = "done"
    /\ LET j == t.job
           m == IF t.cancelled /\ mem[j].status = "queued"
                THEN With(j, Ended(mem[j], "cancelled", "worker_task_cancelled_before_start"))
                ELSE mem
           h == [handle EXCEPT ![j] = 0]
       IN \/ ThenSchedule(Jobs, m, h, tasks \ {t}, {j}, accepting)
          \/ /\ DatabaseErrors       \* raised before schedule_pending
             /\ mem' = m /\ handle' = h /\ tasks' = tasks \ {t}
             /\ UNCHANGED unwritten
    /\ UNCHANGED <<stored, accepting, slot, stranded, calls, process>>
-----------------------------------------------------------------------------
(* The process.                                                            *)

(* Slip: running work is not cancelled.                                    *)
CancelledAtShutdownNone == {}

CancelledAtShutdown == {j \in Jobs : handle[j] # 0 /\ ~Terminal(mem[j])}

(* The server stops once its requests are answered: every tracked job is   *)
(* cancelled from the loop.                                                *)
Shutdown ==
    /\ process = "up" /\ LoopFree /\ \A c \in Threads : calls[c] = Idle
    /\ process' = "stopping" /\ accepting' = FALSE
    /\ LET hit == CancelledAtShutdown
       IN /\ mem' = [j \in Jobs |-> IF j \in hit THEN CancelledRow(mem[j]) ELSE mem[j]]
          /\ LoopWrites(mem', hit)
          /\ tasks' = {IF t.job \in hit /\ t \in Tracked(handle, tasks)
                       THEN [t EXCEPT !.cancel = "requested", !.revoked = t.phase = "running"]
                       ELSE t : t \in tasks}
    /\ UNCHANGED <<stored, handle, slot, stranded, calls>>

(* What was only in memory is gone; the next process loads the table.      *)
Gone(how) ==
    /\ process' = how /\ mem' = stored /\ accepting' = TRUE
    /\ unwritten' = [j \in Jobs |-> NoRow]
    /\ handle' = [j \in Jobs |-> 0] /\ tasks' = {} /\ slot' = [j \in Jobs |-> 0]
    /\ stranded' = {}
    /\ calls' = [c \in Threads |-> Idle]
    /\ UNCHANGED stored

(* The tasks ended, or QUEUE_SHUTDOWN_TIMEOUT_SECONDS passed.              *)
Exits == process = "stopping" /\ LoopFree /\ Gone("stopped")

Crashes == process \in {"up", "stopping"} /\ Gone("crashed")

(* Rows are loaded, interrupted jobs recovered and work resumed.           *)
Restarts ==
    /\ process \in {"stopped", "crashed"}
    /\ process' = "up"
    /\ LET m == [j \in Jobs |-> RecoveredRow(mem[j])]
       IN ThenSchedule(Jobs, m, handle, tasks, {j \in Jobs : m[j] # stored[j]}, TRUE)
    /\ UNCHANGED <<stored, accepting, slot, stranded, calls>>
-----------------------------------------------------------------------------
Coroutine == \/ \E j \in Jobs : Submit(j) \/ \E force \in BOOLEAN : Requeue(j, force)
             \/ Resume \/ Shutdown

Thread(c) == \/ \E j \in Jobs : CancelBegins(c, j) \/ LegacyRequeueBegins(c, j)
             \/ CallWriteLands(c) \/ CancelPosts(c)

TaskStep(t) == \/ CancelRequested(t) \/ NeverStarts(t) \/ StartRefused(t)
               \/ AttemptStarts(t) \/ RunnerReturns(t) \/ RunnerFails(t)
               \/ RunnerStops(t) \/ TaskDone(t)

Next == \/ Coroutine \/ Pause
        \/ \E c \in Threads : Thread(c)
        \/ \E t \in tasks : TaskStep(t)
        \/ \E j \in Jobs : LoopWriteLands(j)
        \/ Exits \/ Crashes \/ Restarts

Spec == Init /\ [][Next]_vars
-----------------------------------------------------------------------------
(* What must hold.                                                         *)

(* The checks of tracked, scheduled and active ids keep two tasks from     *)
(* running the same job, through early retries, cancellations on their way *)
(* and done callbacks that have not run yet; and every task the loop has   *)
(* is the one _job_tasks names.                                            *)
OneTaskPerJob ==
    /\ \A s, t \in tasks : s.job = t.job => s = t
    /\ \A t \in tasks : handle[t.job] = t.copy

(* Tasks never outnumber the limit, so the semaphore never makes a task    *)
(* wait and a slot number never exceeds the limit.                         *)
WithinConcurrency ==
    /\ Cardinality({t \in tasks : t.phase # "done"}) <= MaxConcurrency
    /\ \A j \in Jobs : slot[j] <= MaxConcurrency
    /\ \A j, k \in Jobs : slot[j] = slot[k] /\ slot[j] # 0 => j = k

(* The slot table names exactly the jobs whose task is in its runner: a    *)
(* cancelled or retried job's task gives its slot back, whatever became of *)
(* the job meanwhile, or the queue would run out of slots.  A job whose    *)
(* attempt could not be written keeps its slot until the next start.       *)
SlotsBacked ==
    \A j \in Jobs : slot[j] # 0 <=> j \in stranded \/ \E t \in Executing : t.job = j

(* Once the shutdown has begun no job says it is running and every task    *)
(* that is left has been asked to stop: callbacks that were already on     *)
(* their way start nothing new, although shutdown only looks at the jobs   *)
(* that are tracked and not terminal at that moment.                       *)
ShutdownStops ==
    process = "stopping" =>
        /\ \A j \in Jobs : mem[j].status # "running"
        /\ \A t \in tasks : t.phase # "done" => t.cancel # "no"

(* The process does not end in this step.                                  *)
Lives == {process, process'} \subseteq {"up", "stopping"}

(* A cancelled runner cannot complete its job: no task that was in its     *)
(* runner when the operator cancelled the job stores its result.           *)
CancelledNeverCompletes ==
    [][\A j \in Jobs :
          Lives /\ mem[j].status # "completed" /\ mem'[j].status = "completed"
            => \E t \in Executing : t.job = j /\ ~t.revoked]_vars

(* Once a job is cancelled, nothing its tasks, their callbacks or the      *)
(* shutdown do changes its status: it moves only by a retry.               *)
CancelSticks ==
    [][\A j \in Jobs :
          /\ Lives /\ mem[j].status = "cancelled" /\ mem'[j].status # "cancelled"
          => /\ UNCHANGED slot
             /\ {t \in tasks : t.job = j} \subseteq tasks'
             /\ \/ mem'[j].status = "queued"
                \/ mem'[j].status = "failed" /\ mem[j].attempts = MaxAttempts]_vars

(* A retried job that is queued again waits until it is picked up: only    *)
(* the operator cancels it.                                                *)
RetrySticks ==
    [][\A j \in Jobs :
          Lives /\ mem[j].status = "queued" /\ mem'[j].status = "cancelled"
            => mem'[j].reason = "cancelled_by_operator"]_vars

(* Every job follows the lifecycle the queue promises, restarts included;  *)
(* only the end of a process may put a job back to what was last stored.   *)
Life(j) == INSTANCE JobLifecycle WITH status <- mem[j].status,
                                      attempts <- mem[j].attempts,
                                      FailsAtOnce <- FALSE

Lifecycle ==
    /\ \A j \in Jobs : Life(j)!Init
    /\ [][\A j \in Jobs : process' \in {"up", "stopping"}
                            => [Life(j)!Next]_(Life(j)!vars)]_vars
-----------------------------------------------------------------------------
(* Liveness.  The loop runs every callback that is ready (it is kept from  *)
(* doing so while it writes, hence strong fairness), runners end, writes   *)
(* land and threads go on.  Nothing is assumed of the operator, and a      *)
(* process that is gone need not come back.                                *)

Runs(t) == \/ CancelRequested(t) \/ NeverStarts(t) \/ StartRefused(t)
           \/ AttemptStarts(t) \/ TaskDone(t)
Ends(t) == RunnerReturns(t) \/ RunnerFails(t) \/ RunnerStops(t)

Fairness ==
    /\ \A j \in Jobs : /\ WF_vars(LoopWriteLands(j))
                       /\ SF_vars(\E t \in tasks : t.job = j /\ Runs(t))
                       /\ SF_vars(\E t \in tasks : t.job = j /\ Ends(t))
    /\ \A c \in Threads : WF_vars(CallWriteLands(c) \/ CancelPosts(c))

FairSpec == Spec /\ Fairness

(* A queued job is picked up, or leaves the queue otherwise, unless work   *)
(* is paused or the process goes.                                          *)
QueuedIsServed ==
    \A j \in Jobs : mem[j].status = "queued" ~>
        (mem[j].status # "queued" \/ ~accepting \/ process # "up")
=============================================================================
