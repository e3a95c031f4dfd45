---------------------------- MODULE ExternalQueue ----------------------------
(***************************************************************************)
(* The run queue in external mode: one SQLite table of jobs shared by the  *)
(* API process and any number of worker processes.                         *)
(*                                                                         *)
(* Every RunQueue method used in this mode is one BEGIN IMMEDIATE          *)
(* transaction, hence one step here.  A worker process is an asyncio loop: *)
(* between two polls the tasks executing claimed jobs run; a poll reaps    *)
(* finished tasks and claims jobs until its capacity is used or nothing is *)
(* claimable, with no await in between, while OTHER processes still commit *)
(* transactions between two of its claims.                                 *)
(*                                                                         *)
(* Time is abstract: a lease is "live" until LeaseLapses makes it          *)
(* "lapsed", which may happen whenever no heartbeat commits soon enough (a *)
(* synchronous tool blocks the loop, the heartbeat task died, the process  *)
(* is gone).  The agent's work is abstract: an execution ends with a       *)
(* result or an error.                                                     *)
(***************************************************************************)
EXTENDS Naturals, FiniteSets

CONSTANTS
    Jobs,             \* job ids
    Workers,          \* worker ids; a restarted worker process has a new id
    MaxAttempts,      \* QUEUE_MAX_ATTEMPTS
    MaxConcurrency,   \* QUEUE_MAX_CONCURRENCY of each worker
    MaxClaims,        \* bound: a job claimed this often is not requeued again
    NoWorker,         \* worker_slot is NULL
    EmbeddedSlot,     \* a "slot-n" left by a process in embedded mode
    NoJob,
    Stalls            \* may a worker stall long enough to miss its heartbeats?

ASSUME JobsAssumption == IsFiniteSet(Jobs) /\ NoJob \notin Jobs
ASSUME WorkersAssumption == /\ NoWorker \notin Workers
                            /\ EmbeddedSlot \notin Workers
                            /\ NoWorker # EmbeddedSlot
ASSUME LimitsAssumption == /\ MaxAttempts \in Nat \ {0}
                           /\ MaxConcurrency \in [Workers -> Nat \ {0}]
                           /\ MaxClaims \in Nat
ASSUME StallsAssumption == Stalls \in BOOLEAN

VARIABLES
    row,          \* table queue_jobs
    accepting,    \* queue_control.accepting_work
    forcing,      \* job whose forced retry the API is about to persist
    loop,         \* per worker: what its event loop is doing
    tracked,      \* per worker: _active, the claim number of each job's task
    execs,        \* tasks inside _execute_claim
    beating,      \* executions whose heartbeat task is alive
    raised,       \* tasks that ended with an exception (a database error)
    claims        \* history: how often each job has been claimed

workerVars == <<loop, tracked, execs, beating, raised>>
vars == <<row, accepting, forcing, workerVars, claims>>

Statuses == {"absent", "queued", "running", "completed", "failed", "cancelled"}
Reasons == {"none", "runner_completed", "runner_exception",
            "cancelled_by_operator", "max_attempts_exhausted"}
Loops == {"unborn", "idle", "polling", "stopping", "dead"}

(* An execution is identified by the claim that started it.                *)
Execution == [job : Jobs, worker : Workers, claim : Nat \ {0}]

(* result is the claim number of the execution whose result is stored.     *)
Row == [status : Statuses, attempts : 0..MaxAttempts, created : Nat,
        slot : Workers \cup {NoWorker, EmbeddedSlot},
        lease : {"none", "live", "lapsed"}, reason : Reasons, result : Nat]

TypeOK ==
    /\ row \in [Jobs -> Row]
    /\ accepting \in BOOLEAN
    /\ forcing \in Jobs \cup {NoJob}
    /\ loop \in [Workers -> Loops]
    /\ tracked \in [Workers -> [Jobs -> Nat]]      \* 0: no entry
    /\ execs \subseteq Execution
    /\ beating \subseteq execs
    /\ raised \subseteq Execution
    /\ claims \in [Jobs -> Nat]
-----------------------------------------------------------------------------
(* Rows.                                                                   *)

Unclaimed(r) == [r EXCEPT !.slot = NoWorker, !.lease = "none"]

NewRow(rank) == [status |-> "queued", attempts |-> 0, created |-> rank,
                 slot |-> NoWorker, lease |-> "none", reason |-> "none",
                 result |-> 0]

Exhausted(r) == [r EXCEPT !.status = "failed", !.reason = "max_attempts_exhausted"]

(* Slip: the attempt limit is not looked at.                               *)
GivenBackAlways(r) == [Unclaimed(r) EXCEPT !.status = "queued", !.reason = "none"]

(* release_claim and the recovery of an expired claim end the same way.    *)
GivenBack(r) ==
    IF r.attempts >= MaxAttempts
    THEN Exhausted(Unclaimed(r))
    ELSE [Unclaimed(r) EXCEPT !.status = "queued", !.reason = "none"]

(* Slip: only claims without any lease count as abandoned.                 *)
ExpiredUnleased(r) == r.status = "running" /\ r.lease = "none"

Expired(r) == r.status = "running" /\ r.lease # "live"

RecoverExpired(rows) ==
    [j \in Jobs |-> IF Expired(rows[j]) THEN GivenBack(rows[j]) ELSE rows[j]]

(* Slip: queued jobs without an attempt left are not swept.                *)
FailExhaustedQueuedNever(rows) == rows

FailExhaustedQueued(rows) ==
    [j \in Jobs |-> IF rows[j].status = "queued" /\ rows[j].attempts >= MaxAttempts
                    THEN Exhausted(rows[j]) ELSE rows[j]]

Claimable(rows) ==
    {j \in Jobs : rows[j].status = "queued" /\ rows[j].attempts < MaxAttempts}

OldestOf(rows, S) == {j \in S : \A k \in S : rows[j].created <= rows[k].created}

ClaimedBy(r, w) ==
    [r EXCEPT !.status = "running", !.attempts = @ + 1, !.slot = w,
              !.lease = "live", !.reason = "none"]

(* Slips: the worker is not compared; only completed jobs are protected.   *)
HoldsUnfenced(t) == row[t.job].status = "running"
HoldsUnlessDone(t) == row[t.job].status \notin {"absent", "completed"}

(* The guard shared by heartbeat_claim, finish_claim and release_claim: it *)
(* compares the worker, never the attempt.                                 *)
Holds(t) == row[t.job].status = "running" /\ row[t.job].slot = t.worker

Terminal(r) == r.status \in {"completed", "failed", "cancelled"}

CancelledRow(r) ==
    [Unclaimed(r) EXCEPT !.status = "cancelled", !.reason = "cancelled_by_operator"]

RequeuedRow(r) ==
    [Unclaimed(r) EXCEPT !.status = "queued", !.reason = "none", !.result = 0,
                         !.attempts = IF @ >= MaxAttempts THEN 0 ELSE @]
-----------------------------------------------------------------------------
(* A database may hold jobs a process in embedded mode left behind: queued *)
(* with any number of attempts spent, or running in a slot with no lease.  *)

InheritedRow(rank) ==
    {[NewRow(rank) EXCEPT !.attempts = a] : a \in 0..MaxAttempts} \cup
    {[NewRow(rank) EXCEPT !.attempts = a, !.status = "running", !.slot = EmbeddedSlot]
        : a \in 1..MaxAttempts}

AbsentRow == [NewRow(0) EXCEPT !.status = "absent"]

Init ==
    /\ row \in [Jobs -> {AbsentRow} \cup InheritedRow(1)]
    /\ Cardinality({j \in Jobs : row[j].status # "absent"}) <= 1
    /\ accepting \in BOOLEAN
    /\ forcing = NoJob
    /\ loop = [w \in Workers |-> "unborn"]
    /\ tracked = [w \in Workers |-> [j \in Jobs |-> 0]]
    /\ execs = {} /\ beating = {} /\ raised = {}
    /\ claims = [j \in Jobs |-> 0]
-----------------------------------------------------------------------------
(* The API process.  Its coroutines do not run while a forced retry is     *)
(* half-way; its plain handlers run in threads and do.                     *)

LoopFree == forcing = NoJob

Enqueue(j) ==
    /\ LoopFree
    /\ row[j].status = "absent"
    /\ row' = [row EXCEPT ![j] =
                 NewRow(Cardinality({k \in Jobs : row[k].status # "absent"}) + 1)]
    /\ UNCHANGED <<accepting, forcing, workerVars, claims>>

Pause == /\ accepting /\ accepting' = FALSE
         /\ UNCHANGED <<row, forcing, workerVars, claims>>

Resume == /\ LoopFree
          /\ ~accepting /\ accepting' = TRUE
          /\ UNCHANGED <<row, forcing, workerVars, claims>>

Recover == /\ LoopFree
           /\ \E j \in Jobs : Expired(row[j])
           /\ row' = RecoverExpired(row)
           /\ UNCHANGED <<accepting, forcing, workerVars, claims>>

Cancel(j) ==
    /\ row[j].status # "absent" /\ ~Terminal(row[j])
    /\ row' = [row EXCEPT ![j] = CancelledRow(@)]
    /\ UNCHANGED <<accepting, forcing, workerVars, claims>>

(* requeue without force, from either endpoint.                            *)
Requeue(j) ==
    /\ row[j].status \in {"failed", "cancelled"}
    /\ claims[j] < MaxClaims
    /\ row' = [row EXCEPT ![j] = IF @.attempts >= MaxAttempts
                                 THEN Exhausted(@) ELSE RequeuedRow(@)]
    /\ UNCHANGED <<accepting, forcing, workerVars, claims>>

(* requeue with force=true.  A job that is already queued is returned as   *)
(* it is; if its attempts are spent, the endpoint then persists a reset.   *)
RequeueForced(j) ==
    /\ LoopFree
    /\ claims[j] < MaxClaims
    /\ \/ /\ row[j].status \in {"failed", "cancelled"}
          /\ row' = [row EXCEPT ![j] = RequeuedRow(@)]
          /\ UNCHANGED forcing
       \/ /\ row[j].status = "queued" /\ row[j].attempts >= MaxAttempts
          /\ forcing' = j
          /\ UNCHANGED row
    /\ UNCHANGED <<accepting, workerVars, claims>>

(* _prepare_forced_retry writes the whole row it read before, whatever     *)
(* happened to the job since.                                              *)
PersistForcedRetry ==
    /\ forcing # NoJob
    /\ row' = [row EXCEPT ![forcing] = NewRow(@.created)]
    /\ forcing' = NoJob
    /\ UNCHANGED <<accepting, workerVars, claims>>

(* The API process dies or is redeployed; the rest of its state is rows.   *)
ApiRestarts == /\ forcing # NoJob /\ forcing' = NoJob
               /\ UNCHANGED <<row, accepting, workerVars, claims>>
-----------------------------------------------------------------------------
(* A worker process.                                                       *)

TracksOf(w) == {j \in Jobs : tracked[w][j] # 0}
Task(w, j) == [job |-> j, worker |-> w, claim |-> tracked[w][j]]
ExecsOf(w) == {t \in execs : t.worker = w}

(* A task the worker no longer tracks: a later claim of the same job took  *)
(* its entry in _active.                                                   *)
Orphan(t) == tracked[t.worker][t.job] # t.claim

(* A coroutine of the worker may run: its loop is not inside a poll.  Once *)
(* the loop is stopping, every tracked task has been cancelled.            *)
MayRun(t) == \/ loop[t.worker] = "idle"
             \/ loop[t.worker] = "stopping" /\ Orphan(t)

StartWorker(w) ==
    /\ loop[w] = "unborn"
    /\ loop' = [loop EXCEPT ![w] = "idle"]
    /\ UNCHANGED <<row, accepting, forcing, tracked, execs, beating, raised, claims>>

(* Slip: a task's exception is dropped.                                    *)
ReapRaisesNever(w) == FALSE

(* _reap_completed: finished tasks leave _active.                          *)
Reaped(w) == [j \in Jobs |-> IF Task(w, j) \in execs THEN tracked[w][j] ELSE 0]

(* A finished task's exception is re-raised by task.result().              *)
ReapRaises(w) == \E j \in TracksOf(w) : Task(w, j) \in raised \ execs

(* A poll begins by reaping; an exception found there ends run_forever.    *)
BeginPoll(w) ==
    /\ loop[w] = "idle"
    /\ tracked' = [tracked EXCEPT ![w] = Reaped(w)]
    /\ loop' = [loop EXCEPT ![w] = IF ReapRaises(w) THEN "stopping" ELSE "polling"]
    /\ UNCHANGED <<row, accepting, forcing, execs, beating, raised, claims>>

(* Slip: one task too many.                                                *)
HasCapacityOffByOne(w) == Cardinality(TracksOf(w)) <= MaxConcurrency[w]

HasCapacity(w) == Cardinality(TracksOf(w)) < MaxConcurrency[w]

(* The table once claim_next has recovered lapsed claims and failed the    *)
(* queued jobs that have no attempt left.                                  *)
Swept == FailExhaustedQueued(RecoverExpired(row))

Claim(w) ==
    /\ loop[w] = "polling" /\ HasCapacity(w) /\ accepting
    /\ \E j \in OldestOf(Swept, Claimable(Swept)) :
         LET t == [job |-> j, worker |-> w, claim |-> claims[j] + 1]
         IN /\ row' = [Swept EXCEPT ![j] = ClaimedBy(@, w)]
            /\ claims' = [claims EXCEPT ![j] = @ + 1]
            /\ tracked' = [tracked EXCEPT ![w][j] = t.claim]
            /\ execs' = execs \cup {t}
            /\ beating' = beating \cup {t}
    /\ UNCHANGED <<accepting, forcing, loop, raised>>

(* claim_next finds nothing (its sweep is committed all the same), the     *)
(* queue is paused (no sweep), or the capacity is used.                    *)
EndPoll(w) ==
    /\ loop[w] = "polling"
    /\ \/ /\ HasCapacity(w) /\ accepting
          /\ Claimable(Swept) = {}
          /\ row' = Swept
       \/ /\ ~HasCapacity(w) \/ ~accepting
          /\ UNCHANGED row
    /\ loop' = [loop EXCEPT ![w] = "idle"]
    /\ UNCHANGED <<accepting, forcing, tracked, execs, beating, raised, claims>>

(* A live heartbeat renews its lease three times per lease time; the lease *)
(* lapses all the same if the worker stalls, which synchronous tools do to *)
(* its event loop.                                                         *)
LeaseLapses(j) ==
    /\ row[j].lease = "live"
    /\ Stalls \/ ~\E t \in beating : t.job = j /\ t.worker = row[j].slot
    /\ row' = [row EXCEPT ![j].lease = "lapsed"]
    /\ UNCHANGED <<accepting, forcing, workerVars, claims>>

(* A heartbeat renews a claim its worker still holds, lapsed or not; one   *)
(* that finds the claim lost ends, and the execution goes on without it.   *)
Heartbeat(t) ==
    /\ t \in beating /\ MayRun(t)
    /\ \/ /\ Holds(t)
          /\ row[t.job].lease = "lapsed"
          /\ row' = [row EXCEPT ![t.job].lease = "live"]
          /\ UNCHANGED beating
       \/ /\ ~Holds(t)
          /\ beating' = beating \ {t}
          /\ UNCHANGED row
    /\ UNCHANGED <<accepting, forcing, loop, tracked, execs, raised, claims>>

(* A database error inside heartbeat_claim ends the heartbeat task; the    *)
(* exception surfaces when _execute_claim awaits it, after its own work.   *)
HeartbeatRaises(t) ==
    /\ t \in beating /\ MayRun(t)
    /\ beating' = beating \ {t}
    /\ raised' = raised \cup {t}
    /\ UNCHANGED <<row, accepting, forcing, loop, tracked, execs, claims>>

(* Slip: the heartbeat of a finished task is not cancelled.                *)
EndedBeating(t) == execs' = execs \ {t} /\ UNCHANGED beating

Ended(t) == execs' = execs \ {t} /\ beating' = beating \ {t}

RunnerReturns(t) ==
    /\ t \in execs /\ MayRun(t)
    /\ row' = IF Holds(t)
              THEN [row EXCEPT ![t.job] =
                      [Unclaimed(@) EXCEPT !.status = "completed", !.result = t.claim,
                                           !.reason = "runner_completed"]]
              ELSE row
    /\ Ended(t)
    /\ UNCHANGED <<accepting, forcing, loop, tracked, raised, claims>>

(* The runner raised, or writing its result did and the error was written. *)
RunnerFails(t) ==
    /\ t \in execs /\ MayRun(t)
    /\ row' = IF Holds(t)
              THEN [row EXCEPT ![t.job] =
                      [Unclaimed(@) EXCEPT !.status = "failed", !.result = 0,
                                           !.reason = "runner_exception"]]
              ELSE row
    /\ Ended(t)
    /\ UNCHANGED <<accepting, forcing, loop, tracked, raised, claims>>

(* Neither the result nor the error could be written: the task raises.     *)
OutcomeLost(t) ==
    /\ t \in execs /\ MayRun(t)
    /\ raised' = raised \cup {t}
    /\ Ended(t)
    /\ UNCHANGED <<row, accepting, forcing, loop, tracked, claims>>

(* The operator stops the worker: its tracked tasks are cancelled.         *)
StopWorker(w) ==
    /\ loop[w] = "idle"
    /\ loop' = [loop EXCEPT ![w] = "stopping"]
    /\ UNCHANGED <<row, accepting, forcing, tracked, execs, beating, raised, claims>>

(* A cancelled task releases its claim; a database error leaves it as is.  *)
ReleaseClaim(t) ==
    /\ t \in execs /\ loop[t.worker] = "stopping"
    /\ \/ row' = IF Holds(t) THEN [row EXCEPT ![t.job] = GivenBack(@)] ELSE row
       \/ UNCHANGED row
    /\ Ended(t)
    /\ UNCHANGED <<accepting, forcing, loop, tracked, raised, claims>>

WorkerStopped(w) ==
    /\ loop[w] = "stopping" /\ ExecsOf(w) = {}
    /\ loop' = [loop EXCEPT ![w] = "dead"]
    /\ tracked' = [tracked EXCEPT ![w] = [j \in Jobs |-> 0]]
    /\ raised' = {t \in raised : t.worker # w}
    /\ UNCHANGED <<row, accepting, forcing, execs, beating, claims>>

(* The process dies between two of its transactions.                       *)
WorkerCrashes(w) ==
    /\ loop[w] \in {"idle", "polling", "stopping"}
    /\ loop' = [loop EXCEPT ![w] = "dead"]
    /\ tracked' = [tracked EXCEPT ![w] = [j \in Jobs |-> 0]]
    /\ execs' = execs \ ExecsOf(w)
    /\ beating' = beating \ ExecsOf(w)
    /\ raised' = {t \in raised : t.worker # w}
    /\ UNCHANGED <<row, accepting, forcing, claims>>
-----------------------------------------------------------------------------
Api == \/ \E j \in Jobs : Enqueue(j) \/ Cancel(j) \/ Requeue(j) \/ RequeueForced(j)
       \/ Pause \/ Resume \/ Recover \/ PersistForcedRetry \/ ApiRestarts

WorkerProcess(w) == \/ StartWorker(w) \/ BeginPoll(w) \/ Claim(w) \/ EndPoll(w)
                    \/ StopWorker(w) \/ WorkerStopped(w) \/ WorkerCrashes(w)

TaskStep(t) == \/ Heartbeat(t) \/ HeartbeatRaises(t) \/ RunnerReturns(t)
            \/ RunnerFails(t) \/ OutcomeLost(t) \/ ReleaseClaim(t)

Next == \/ Api
        \/ \E w \in Workers : WorkerProcess(w)
        \/ \E t \in execs : TaskStep(t)
        \/ \E j \in Jobs : LeaseLapses(j)

Spec == Init /\ [][Next]_vars
-----------------------------------------------------------------------------
(* What must hold.                                                         *)

(* A row says "running" exactly when it names who runs it, and it carries  *)
(* a lease exactly when that is an external worker: cancel, finish,        *)
(* release, recovery and requeue each clear what the claim set, in every   *)
(* interleaving, so no job waits with a dead owner's slot.                 *)
Marked(r) == /\ r.status = "running" <=> r.slot # NoWorker
             /\ r.slot \in Workers <=> r.lease # "none"

ClaimMarkers == \A j \in Jobs : Marked(row[j])

(* A job claimed by a worker that neither stopped nor died is in that      *)
(* worker's hands: the task of the current claim still executes, or it     *)
(* ended in a database error and the worker is about to be brought down.   *)
(* Otherwise its row would say "running" for as long as the worker lives.  *)
ClaimBacked ==
    \A j \in Jobs, w \in Workers :
        row[j].slot = w =>
          \/ loop[w] \in {"stopping", "dead"}
          \/ /\ tracked[w][j] = claims[j]
             /\ Task(w, j) \in execs \cup raised

(* The terminal reason the API reports agrees with the status, a result is *)
(* stored exactly in completed jobs, and a job that failed for its         *)
(* attempts has really spent them.                                         *)
Explained(r) ==
    /\ r.reason = "runner_completed" <=> r.status = "completed"
    /\ r.reason = "cancelled_by_operator" <=> r.status = "cancelled"
    /\ r.reason \in {"runner_exception", "max_attempts_exhausted"} <=> r.status = "failed"
    /\ r.reason = "max_attempts_exhausted" => r.attempts = MaxAttempts
    /\ r.result # 0 <=> r.status = "completed"

OutcomeConsistent == \A j \in Jobs : Explained(row[j])

(* With one task per worker, the stored result is that of the latest       *)
(* claim, although finish_claim compares no attempt: a worker cannot       *)
(* claim a job again while it still executes an earlier claim of it.       *)
ResultOfLatestClaim ==
    \A j \in Jobs : row[j].status = "completed" => row[j].result = claims[j]

(* A result is only stored for the worker that holds the claim at that     *)
(* moment, from one of its own tasks, which ends there; a worker that lost *)
(* the job to another one changes nothing.                                 *)
ResultsFromHolder ==
    [][\A j \in Jobs :
          row'[j].result # row[j].result /\ row'[j].result # 0
            => \E t \in execs \ execs' : /\ t.job = j /\ t.worker = row[j].slot
                                         /\ t.claim = row'[j].result]_vars

(* Once the operator has cancelled a job, nothing a worker does changes    *)
(* it: its status moves only when no task, loop or claim does.             *)
CancelSticks ==
    [][\A j \in Jobs :
          row[j].status = "cancelled" /\ row'[j] # row[j]
            => /\ row'[j].status \in {"queued", "failed"}
               /\ UNCHANGED <<workerVars, claims>>]_vars

(* A forced retry that is half-way concerns a job that may still be        *)
(* retried, so the row it overwrites is never that of a running job.       *)
ForcedRetryPending ==
    forcing # NoJob => /\ row[forcing].status \in {"queued", "failed", "cancelled"}
                       /\ row[forcing].attempts = MaxAttempts

(* Each job goes through the lifecycle the queue promises.                 *)
Life(j) == INSTANCE JobLifecycle WITH status <- row[j].status,
                                      attempts <- row[j].attempts,
                                      FailsAtOnce <- TRUE

Lifecycle ==
    /\ \A j \in Jobs : Life(j)!Init
    /\ [][\A j \in Jobs : [Life(j)!Next]_(Life(j)!vars)]_vars
-----------------------------------------------------------------------------
(* Liveness.  A live event loop keeps polling and runs its tasks, the      *)
(* agent's runs end, a lease nobody renews lapses.  Nothing is assumed of  *)
(* the operator, of stops, crashes and database errors.                    *)

Fairness ==
    /\ \A w \in Workers : /\ WF_vars(StartWorker(w)) /\ WF_vars(BeginPoll(w))
                          /\ WF_vars(Claim(w) \/ EndPoll(w))
                          /\ WF_vars(WorkerStopped(w))
    /\ \A t \in [job : Jobs, worker : Workers, claim : 1..(MaxClaims + MaxAttempts)] :
          /\ SF_vars(RunnerReturns(t) \/ RunnerFails(t) \/ OutcomeLost(t))
          /\ WF_vars(ReleaseClaim(t))
    /\ \A j \in Jobs : WF_vars(LeaseLapses(j))

FairSpec == Spec /\ Fairness

SomeWorkerUp == \E w \in Workers : loop[w] \in {"idle", "polling"}

(* A queued job does not wait for ever: it is claimed, cancelled or failed *)
(* unless the operator pauses the queue or every worker is gone.           *)
QueuedIsServed ==
    \A j \in Jobs : row[j].status = "queued" ~>
        (row[j].status # "queued" \/ ~accepting \/ ~SomeWorkerUp)

(* The job of a worker that died is taken away from it.                    *)
DeadWorkerLosesClaim ==
    \A j \in Jobs, w \in Workers :
        row[j].slot = w /\ loop[w] = "dead" ~>
            (row[j].slot # w \/ ~accepting \/ ~SomeWorkerUp)
=============================================================================
