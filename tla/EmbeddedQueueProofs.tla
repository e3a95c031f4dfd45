------------------------- MODULE EmbeddedQueueProofs -------------------------
(***************************************************************************)
(* Theorems about the embedded queue, for any number of jobs, threads,     *)
(* attempts and slots: what its scheduling guarantees through retries at   *)
(* any moment and failing writes, and what more holds when retries are     *)
(* patient or writes do not fail.                                          *)
(***************************************************************************)
EXTENDS EmbeddedQueue, FiniteSetTheorems, WellFoundedInduction, TLAPS

USE JobsAssumption, LimitsAssumption
-----------------------------------------------------------------------------
LEMMA RowFields ==
  ASSUME NEW r \in Row
  PROVE  /\ r.attempts \in 0..MaxAttempts /\ r.created \in Nat /\ r.slot \in Nat
         /\ r.status \in Statuses
BY DEF Row

LEMMA Values ==
  /\ Statuses = {"absent", "queued", "running", "completed", "failed", "cancelled"}
  /\ Reasons = {"none", "runner_completed", "runner_exception", "max_attempts_exhausted",
                "cancelled_by_operator", "worker_task_cancelled",
                "worker_task_cancelled_before_start"}
  /\ 0 \in 0..MaxAttempts
BY DEF Statuses, Reasons

(* What the operators on rows return.                                      *)
LEMMA EndedRow ==
  ASSUME NEW r \in Row, NEW v \in Statuses, NEW w \in Reasons
  PROVE  LET e == Ended(r, v, w)
         IN /\ e \in Row /\ e.status = v /\ e.reason = w
            /\ e.attempts = r.attempts /\ e.created = r.created /\ e.slot = r.slot
BY DEF Ended, Row

LEMMA ExhaustedRow ==
  ASSUME NEW r \in Row
  PROVE  LET e == Exhausted(r)
         IN /\ e \in Row /\ e.status = "failed"
            /\ e.attempts = r.attempts /\ e.created = r.created
BY EndedRow, Values DEF Exhausted

LEMMA CancelledRowIs ==
  ASSUME NEW r \in Row
  PROVE  LET e == CancelledRow(r)
         IN /\ e \in Row /\ e.status = "cancelled" /\ e.reason = "cancelled_by_operator"
            /\ e.attempts = r.attempts /\ e.created = r.created
<1> DEFINE e == Ended(r, "cancelled", "cancelled_by_operator")
<1>1. /\ e \in Row /\ e.status = "cancelled" /\ e.reason = "cancelled_by_operator"
      /\ e.attempts = r.attempts /\ e.created = r.created
  BY EndedRow, Values
<1>2. CancelledRow(r) = [e EXCEPT !.slot = IF r.status = "running" THEN e.slot ELSE 0]
  BY DEF CancelledRow
<1> HIDE DEF e
<1> QED BY <1>1, <1>2 DEF Row

LEMMA OutcomeRow ==
  ASSUME NEW r \in Row, NEW v \in Statuses, NEW w \in Reasons
  PROVE  LET e == Outcome(r, v, w)
         IN /\ e \in Row /\ e.status = IF r.status = "cancelled" THEN "cancelled" ELSE v
            /\ e.attempts = r.attempts /\ e.created = r.created
<1> DEFINE e == IF r.status = "cancelled" THEN r ELSE Ended(r, v, w)
<1>1. /\ e \in Row /\ e.status = IF r.status = "cancelled" THEN "cancelled" ELSE v
      /\ e.attempts = r.attempts /\ e.created = r.created
  BY EndedRow
<1>2. Outcome(r, v, w) = [e EXCEPT !.slot = 0]
  BY DEF Outcome
<1> HIDE DEF e
<1> QED BY <1>1, <1>2 DEF Row

LEMMA RequeuedRowIs ==
  ASSUME NEW r \in Row
  PROVE  LET e == RequeuedRow(r)
         IN /\ e \in Row /\ e.status = "queued" /\ e.created = r.created
            /\ e.attempts = IF r.attempts >= MaxAttempts THEN 0 ELSE r.attempts
<1> DEFINE p == [r EXCEPT !.status = "queued", !.reason = "none", !.slot = 0]
<1>1. /\ p \in Row /\ p.status = "queued" /\ p.created = r.created
      /\ p.attempts = r.attempts
  BY Values DEF Row
<1>2. RequeuedRow(r) = [p EXCEPT !.attempts = IF p.attempts >= MaxAttempts
                                              THEN 0 ELSE p.attempts]
  BY <1>1 DEF RequeuedRow
<1> HIDE DEF p
<1>3. (IF p.attempts >= MaxAttempts THEN 0 ELSE p.attempts) \in 0..MaxAttempts
  BY <1>1, RowFields
<1>4. ASSUME NEW a \in 0..MaxAttempts
      PROVE  LET q == [p EXCEPT !.attempts = a]
             IN q \in Row /\ q.status = p.status /\ q.created = p.created /\ q.attempts = a
  BY <1>1 DEF Row
<1> QED BY <1>1, <1>2, <1>3, <1>4

LEMMA RecoveredRowIs ==
  ASSUME NEW r \in Row
  PROVE  LET e == RecoveredRow(r)
         IN /\ e \in Row /\ e.attempts = r.attempts /\ e.created = r.created
            /\ r.status = "running" => e.status = "queued"
            /\ r.status # "running" => e = r
BY Values DEF RecoveredRow, Row

LEMMA NewRowIs ==
  ASSUME NEW rank \in Nat
  PROVE  LET e == NewRow(rank)
         IN e \in Row /\ e.status = "queued" /\ e.attempts = 0 /\ e.created = rank
BY Values DEF NewRow, Row

LEMMA AbsentRowIs ==
  AbsentRow \in Row /\ AbsentRow.status = "absent" /\ AbsentRow.attempts = 0
BY NewRowIs, Values DEF AbsentRow, NewRow, Row
-----------------------------------------------------------------------------
(* What the scheduler may be called with.                                  *)
Schedulable(S, m, h, ts) ==
    S \in SUBSET Jobs /\ m \in [Jobs -> Row] /\ h \in [Jobs -> 0..2] /\ ts \subseteq TaskRecord

(* One pass of the scheduler, whatever its candidates: it starts a task    *)
(* for some waiting jobs and fails others that have no attempt left; then  *)
(* the jobs are as in m2, the handles as in h2 and the tasks as in ts2.    *)
Passed(S, m, h, ts, started, spent, m2, h2, ts2) ==
    /\ started \subseteq {j \in Waiting(S, m, h) : m[j].attempts < MaxAttempts}
    /\ spent \subseteq {j \in Waiting(S, m, h) : m[j].attempts >= MaxAttempts}
    /\ m2 = [j \in Jobs |-> IF j \in spent THEN Exhausted(m[j]) ELSE m[j]]
    /\ h2 = [j \in Jobs |-> IF j \in started THEN FreeCopy(j, ts) ELSE h[j]]
    /\ ts2 = ts \cup {NewTask(j, ts) : j \in started}
    (* it starts all that the capacity allows, or none *)
    /\ \/ started = {}
       \/ started = {j \in Reached(Waiting(S, m, h), m, Capacity(h, ts)) :
                         m[j].attempts < MaxAttempts}

LEMMA Scheduling ==
  ASSUME NEW S, NEW m, NEW h, NEW ts, Schedulable(S, m, h, ts)
  PROVE  \E started, spent \in SUBSET Jobs :
            LET s == Scheduled(S, m, h, ts)
            IN /\ Passed(S, m, h, ts, started, spent, s.mem, s.handle, s.tasks)
               /\ s.touched = started \cup spent
<1> DEFINE s == Scheduled(S, m, h, ts)
           reached == Reached(Waiting(S, m, h), m, Capacity(h, ts))
           started == {j \in reached : m[j].attempts < MaxAttempts}
           spent == reached \ started
<1>1. /\ reached \subseteq Waiting(S, m, h) /\ Waiting(S, m, h) \subseteq Jobs
      /\ started \in SUBSET Jobs /\ spent \in SUBSET Jobs
  BY DEF Reached, Waiting, Schedulable
<1>2. /\ s.mem = [j \in Jobs |-> IF j \in spent THEN Exhausted(m[j]) ELSE m[j]]
      /\ s.handle = [j \in Jobs |-> IF j \in started THEN FreeCopy(j, ts) ELSE h[j]]
      /\ s.tasks = ts \cup {NewTask(j, ts) : j \in started}
      /\ s.touched = reached
  BY DEF Scheduled
<1>3. reached = started \cup spent
  OBVIOUS
<1>4. \A j \in spent : m[j].attempts >= MaxAttempts
  BY <1>1 DEF Row, Schedulable
<1>5. /\ started \subseteq {j \in Waiting(S, m, h) : m[j].attempts < MaxAttempts}
      /\ spent \subseteq {j \in Waiting(S, m, h) : m[j].attempts >= MaxAttempts}
  BY <1>1, <1>4
<1>6. started = {j \in Reached(Waiting(S, m, h), m, Capacity(h, ts)) :
                     m[j].attempts < MaxAttempts}
  OBVIOUS
<1> HIDE DEF reached, started, spent, s
<1>7. Passed(S, m, h, ts, started, spent, s.mem, s.handle, s.tasks)
  BY <1>2, <1>5, <1>6 DEF Passed
<1> QED BY <1>1, <1>2, <1>3, <1>7 DEF s

LEMMA NothingPassed ==
  ASSUME NEW S, NEW m, NEW h, NEW ts, Schedulable(S, m, h, ts)
  PROVE  Passed(S, m, h, ts, {}, {}, m, h, ts)
<1>1. /\ m = [j \in Jobs |-> IF j \in {} THEN Exhausted(m[j]) ELSE m[j]]
      /\ h = [j \in Jobs |-> IF j \in {} THEN FreeCopy(j, ts) ELSE h[j]]
      /\ ts = ts \cup {NewTask(j, ts) : j \in {}}
  BY DEF Schedulable
<1> QED BY <1>1 DEF Passed

(* ThenSchedule, between what a callback has come to and what it leaves.   *)
Leaves(S, m, h, ts, touched, accepted, m2, h2, ts2, u2) ==
    LET s == IF accepted THEN Scheduled(S, m, h, ts)
             ELSE [mem |-> m, handle |-> h, tasks |-> ts, touched |-> {}]
    IN /\ m2 = s.mem /\ h2 = s.handle /\ ts2 = s.tasks
       /\ u2 = [j \in Jobs |-> IF j \in touched \cup s.touched THEN s.mem[j] ELSE NoRow]

Writes(m2, touched, u2) == u2 = [j \in Jobs |-> IF j \in touched THEN m2[j] ELSE NoRow]

Refused(accepted, started, spent) == ~accepted => started = {} /\ spent = {}

(* Whether work is accepted or not, a callback that goes on to schedule is *)
(* such a pass.                                                            *)
LEMMA Schedules ==
  ASSUME NEW S, NEW m, NEW h, NEW ts, NEW touched, NEW accepted,
         NEW m2, NEW h2, NEW ts2, NEW u2,
         Schedulable(S, m, h, ts),
         Leaves(S, m, h, ts, touched, accepted, m2, h2, ts2, u2)
  PROVE  \E started, spent \in SUBSET Jobs :
            /\ Passed(S, m, h, ts, started, spent, m2, h2, ts2)
            /\ Writes(m2, touched \cup started \cup spent, u2)
            /\ Refused(accepted, started, spent)
<1>1. CASE accepted
  <2> DEFINE s == Scheduled(S, m, h, ts)
  <2>1. /\ m2 = s.mem /\ h2 = s.handle /\ ts2 = s.tasks
        /\ u2 = [j \in Jobs |-> IF j \in touched \cup s.touched THEN s.mem[j] ELSE NoRow]
    BY <1>1 DEF Leaves
  <2>2. PICK started \in SUBSET Jobs, spent \in SUBSET Jobs :
           /\ Passed(S, m, h, ts, started, spent, s.mem, s.handle, s.tasks)
           /\ s.touched = started \cup spent
    BY Scheduling
  <2> HIDE DEF s
  <2>3. Passed(S, m, h, ts, started, spent, m2, h2, ts2)
    BY <2>1, <2>2
  <2>4. Writes(m2, touched \cup started \cup spent, u2)
    BY <2>1, <2>2 DEF Writes
  <2> QED BY <1>1, <2>3, <2>4 DEF Refused
<1>2. CASE ~accepted
  <2>1. m2 = m /\ h2 = h /\ ts2 = ts /\ Writes(m, touched, u2)
    BY <1>2 DEF Leaves, Writes
  <2>2. Passed(S, m, h, ts, {}, {}, m2, h2, ts2)
    BY <2>1, NothingPassed
  <2>3. Writes(m2, touched \cup {} \cup {}, u2)
    BY <2>1 DEF Writes
  <2>4. {} \in SUBSET Jobs
    OBVIOUS
  <2> QED BY <2>2, <2>3, <2>4 DEF Refused
<1> QED BY <1>1, <1>2

(* What an operator's request makes of the row of its job.                 *)
ByHandler(j, q) ==
    LET r == mem[j]
    IN \/ /\ r.status = "absent"
          /\ q = NewRow(Cardinality({k \in Jobs : mem[k].status # "absent"}) + 1)
       \/ /\ HastyRetries \/ Settled(j)
          /\ \/ /\ r.status \in {"failed", "cancelled"}
                /\ q = RequeuedRow(r)
             \/ /\ r.status \in {"failed", "cancelled"} /\ r.attempts >= MaxAttempts
                /\ q = Exhausted(r)
             \/ /\ r.status = "queued" /\ r.attempts >= MaxAttempts
                /\ q = [r EXCEPT !.attempts = 0]

(* So m is memory once the handler has changed what it has to change.      *)
HandledTo(m, touched) ==
    \/ m = mem /\ touched = {}
    \/ \E j \in Jobs, q \in Row : /\ m = With(j, q) /\ touched = {j}
                               /\ q.status # "absent" /\ ByHandler(j, q)

(* The coroutine handlers other than the shutdown, and what they leave:    *)
(* one row at most is changed and written, then jobs are scheduled.        *)
Handled(S, m, touched, started, spent, m2, h2, ts2, u2) ==
    /\ m \in [Jobs -> Row] /\ HandledTo(m, touched)
    /\ Schedulable(S, m, handle, tasks)
    /\ Passed(S, m, handle, tasks, started, spent, m2, h2, ts2)
    /\ Writes(m2, touched \cup started \cup spent, u2)

Handler == \/ \E j \in Jobs : Submit(j) \/ \E force \in BOOLEAN : Requeue(j, force)
           \/ Resume

LEMMA HandlerSteps ==
  ASSUME TypeOK, Handler
  PROVE  /\ process = "up" /\ LoopFree /\ accepting' \in BOOLEAN
         /\ UNCHANGED <<stored, slot, stranded, calls, process>>
         /\ \E m, S, touched : \E started, spent \in SUBSET Jobs :
               Handled(S, m, touched, started, spent, mem', handle', tasks', unwritten')
<1> DEFINE Goal == \E m, S, touched : \E started, spent \in SUBSET Jobs :
               Handled(S, m, touched, started, spent, mem', handle', tasks', unwritten')
<1>0. /\ mem \in [Jobs -> Row] /\ handle \in [Jobs -> 0..2] /\ tasks \subseteq TaskRecord
      /\ accepting \in BOOLEAN
  BY DEF TypeOK
<1>1. ASSUME NEW S \in SUBSET Jobs, NEW m \in [Jobs -> Row], NEW touched, NEW accepted,
             Leaves(S, m, handle, tasks, touched, accepted, mem', handle', tasks', unwritten'),
             HandledTo(m, touched)
      PROVE  Goal
  <2>1. Schedulable(S, m, handle, tasks)
    BY <1>0 DEF Schedulable
  <2>2. PICK started \in SUBSET Jobs, spent \in SUBSET Jobs :
           /\ Passed(S, m, handle, tasks, started, spent, mem', handle', tasks')
           /\ Writes(mem', touched \cup started \cup spent, unwritten')
    BY <1>1, <2>1, Schedules
  <2>3. Handled(S, m, touched, started, spent, mem', handle', tasks', unwritten')
    BY <1>1, <2>1, <2>2 DEF Handled
  <2> QED BY <2>3
<1>2. ASSUME NEW j \in Jobs, Submit(j) PROVE Goal
  <2> DEFINE n == Cardinality({k \in Jobs : mem[k].status # "absent"}) + 1
  <2>1. n \in Nat
    BY FS_Subset, FS_CardinalityType
  <2>2. ByHandler(j, NewRow(n))
    BY <1>2 DEF Submit, ByHandler
  <2>3. Leaves({j}, With(j, NewRow(n)), handle, tasks, {j}, accepting,
               mem', handle', tasks', unwritten')
    BY <1>2 DEF Submit, ThenSchedule, LoopWrites, Leaves
  <2> HIDE DEF n
  <2>4. NewRow(n) \in Row /\ NewRow(n).status # "absent"
    BY <2>1, NewRowIs
  <2>5. With(j, NewRow(n)) \in [Jobs -> Row] /\ HandledTo(With(j, NewRow(n)), {j})
    BY <1>0, <2>2, <2>4 DEF With, HandledTo
  <2> HIDE DEF Goal
  <2> QED BY <1>1, <2>3, <2>5
<1>3. ASSUME NEW j \in Jobs, NEW force \in BOOLEAN, Requeue(j, force) PROVE Goal
  <2> DEFINE r == mem[j]
  <2>1. r \in Row /\ (HastyRetries \/ Settled(j))
    BY <1>0, <1>3 DEF Requeue
  <2>2. \/ /\ r.status \in {"failed", "cancelled"}
           /\ ThenSchedule({j}, With(j, RequeuedRow(r)), handle, tasks, {j}, accepting)
        \/ /\ r.status \in {"failed", "cancelled"} /\ r.attempts >= MaxAttempts
           /\ ThenSchedule({}, With(j, Exhausted(r)), handle, tasks, {j}, FALSE)
        \/ /\ r.status = "queued" /\ r.attempts >= MaxAttempts
           /\ ThenSchedule({j}, With(j, [r EXCEPT !.attempts = 0]), handle, tasks, {j}, accepting)
        \/ ThenSchedule({j}, mem, handle, tasks, {}, accepting)
    BY <1>3 DEF Requeue
  <2>3. ASSUME NEW q \in Row, q.status # "absent", ByHandler(j, q), NEW S \in SUBSET Jobs,
               NEW accepted,
               Leaves(S, With(j, q), handle, tasks, {j}, accepted,
                      mem', handle', tasks', unwritten')
        PROVE  Goal
    <3>1. With(j, q) \in [Jobs -> Row] /\ HandledTo(With(j, q), {j})
      BY <1>0, <2>3 DEF With, HandledTo
    <3> HIDE DEF Goal
    <3> QED BY <1>1, <2>3, <3>1
  <2>4. CASE /\ r.status \in {"failed", "cancelled"}
             /\ ThenSchedule({j}, With(j, RequeuedRow(r)), handle, tasks, {j}, accepting)
    <3>1. RequeuedRow(r) \in Row /\ RequeuedRow(r).status # "absent"
      BY <2>1, RequeuedRowIs
    <3>2. ByHandler(j, RequeuedRow(r))
      BY <2>1, <2>4 DEF ByHandler
    <3>3. Leaves({j}, With(j, RequeuedRow(r)), handle, tasks, {j}, accepting,
                 mem', handle', tasks', unwritten')
      BY <2>4 DEF ThenSchedule, LoopWrites, Leaves
    <3> HIDE DEF Goal, r
    <3> QED BY <2>3, <3>1, <3>2, <3>3
  <2>5. CASE /\ r.status \in {"failed", "cancelled"} /\ r.attempts >= MaxAttempts
             /\ ThenSchedule({}, With(j, Exhausted(r)), handle, tasks, {j}, FALSE)
    <3>1. Exhausted(r) \in Row /\ Exhausted(r).status # "absent"
      BY <2>1, ExhaustedRow
    <3>2. ByHandler(j, Exhausted(r))
      BY <2>1, <2>5 DEF ByHandler
    <3>3. Leaves({}, With(j, Exhausted(r)), handle, tasks, {j}, FALSE,
                 mem', handle', tasks', unwritten')
      BY <2>5 DEF ThenSchedule, LoopWrites, Leaves
    <3> HIDE DEF Goal, r
    <3> QED BY <2>3, <3>1, <3>2, <3>3
  <2>6. CASE /\ r.status = "queued" /\ r.attempts >= MaxAttempts
             /\ ThenSchedule({j}, With(j, [r EXCEPT !.attempts = 0]), handle, tasks, {j}, accepting)
    <3> DEFINE q == [r EXCEPT !.attempts = 0]
    <3>1. q \in Row /\ q.status # "absent"
      BY <2>1, <2>6, Values DEF Row
    <3>2. ByHandler(j, q)
      BY <2>1, <2>6 DEF ByHandler
    <3>3. Leaves({j}, With(j, q), handle, tasks, {j}, accepting,
                 mem', handle', tasks', unwritten')
      BY <2>6 DEF ThenSchedule, LoopWrites, Leaves
    <3> HIDE DEF Goal, q
    <3> QED BY <2>3, <3>1, <3>2, <3>3
  <2>7. CASE ThenSchedule({j}, mem, handle, tasks, {}, accepting)
    <3>1. Leaves({j}, mem, handle, tasks, {}, accepting, mem', handle', tasks', unwritten')
      BY <2>7 DEF ThenSchedule, LoopWrites, Leaves
    <3>2. HandledTo(mem, {})
      BY DEF HandledTo
    <3> HIDE DEF Goal
    <3> QED BY <1>0, <1>1, <3>1, <3>2
  <2> QED BY <2>2, <2>4, <2>5, <2>6, <2>7
<1>4. ASSUME Resume PROVE Goal
  <2>1. Leaves(Jobs, mem, handle, tasks, {}, TRUE, mem', handle', tasks', unwritten')
    BY <1>4 DEF Resume, ThenSchedule, LoopWrites, Leaves
  <2>2. HandledTo(mem, {})
    BY DEF HandledTo
  <2> HIDE DEF Goal
  <2> QED BY <1>0, <1>1, <2>1, <2>2
<1>5. /\ process = "up" /\ LoopFree /\ accepting' \in BOOLEAN
      /\ UNCHANGED <<stored, slot, stranded, calls, process>>
  BY <1>0 DEF Handler, Submit, Requeue, Resume
<1> QED BY <1>2, <1>3, <1>4, <1>5 DEF Handler

(* The jobs once a finished task's callback has looked at its own.         *)
DoneMem(t) == IF t.cancelled /\ mem[t.job].status = "queued"
              THEN With(t.job, Ended(mem[t.job], "cancelled", "worker_task_cancelled_before_start"))
              ELSE mem

(* The done callback and the start are such passes too.                    *)
LEMMA DoneSteps ==
  ASSUME TypeOK, NEW t \in tasks, TaskDone(t)
  PROVE  LET h == [handle EXCEPT ![t.job] = 0]
         IN /\ t.phase = "done" /\ LoopFree
            /\ UNCHANGED <<stored, accepting, slot, stranded, calls, process>>
            /\ Schedulable(Jobs, DoneMem(t), h, tasks \ {t})
            /\ \E started, spent \in SUBSET Jobs :
                  /\ Passed(Jobs, DoneMem(t), h, tasks \ {t}, started, spent, mem', handle', tasks')
                  /\ \/ Writes(mem', {t.job} \cup started \cup spent, unwritten')
                     \/ UNCHANGED unwritten
                  /\ Refused(accepting, started, spent)
<1> DEFINE h == [handle EXCEPT ![t.job] = 0]
<1>1. /\ mem \in [Jobs -> Row] /\ handle \in [Jobs -> 0..2] /\ tasks \subseteq TaskRecord
      /\ t.job \in Jobs
  BY DEF TypeOK, TaskRecord
<1>2. DoneMem(t) \in [Jobs -> Row]
  <2>1. Ended(mem[t.job], "cancelled", "worker_task_cancelled_before_start") \in Row
    BY <1>1, EndedRow, Values
  <2> QED BY <1>1, <2>1 DEF DoneMem, With
<1>3. Schedulable(Jobs, DoneMem(t), h, tasks \ {t})
  BY <1>1, <1>2 DEF Schedulable
<1>4. \/ Leaves(Jobs, DoneMem(t), h, tasks \ {t}, {t.job}, accepting,
                mem', handle', tasks', unwritten')
      \/ /\ mem' = DoneMem(t) /\ handle' = h /\ tasks' = tasks \ {t}
         /\ UNCHANGED unwritten
  <2>1. \/ ThenSchedule(Jobs, DoneMem(t), h, tasks \ {t}, {t.job}, accepting)
        \/ /\ mem' = DoneMem(t) /\ handle' = h /\ tasks' = tasks \ {t}
           /\ UNCHANGED unwritten
    BY DEF TaskDone, DoneMem
  <2> QED BY <2>1 DEF ThenSchedule, LoopWrites, Leaves
<1>5. /\ t.phase = "done" /\ LoopFree
      /\ UNCHANGED <<stored, accepting, slot, stranded, calls, process>>
  BY DEF TaskDone
<1> HIDE DEF h
<1>6. CASE Leaves(Jobs, DoneMem(t), h, tasks \ {t}, {t.job}, accepting,
                  mem', handle', tasks', unwritten')
  <2>1. PICK started \in SUBSET Jobs, spent \in SUBSET Jobs :
           /\ Passed(Jobs, DoneMem(t), h, tasks \ {t}, started, spent, mem', handle', tasks')
           /\ Writes(mem', {t.job} \cup started \cup spent, unwritten')
           /\ Refused(accepting, started, spent)
    BY <1>3, <1>6, Schedules
  <2> QED BY <1>3, <1>5, <2>1 DEF h
<1>7. CASE /\ mem' = DoneMem(t) /\ handle' = h /\ tasks' = tasks \ {t}
           /\ UNCHANGED unwritten
  <2>1. Passed(Jobs, DoneMem(t), h, tasks \ {t}, {}, {}, mem', handle', tasks')
    BY <1>3, <1>7, NothingPassed
  <2>2. {} \in SUBSET Jobs /\ Refused(accepting, {}, {})
    BY DEF Refused
  <2> QED BY <1>3, <1>5, <1>7, <2>1, <2>2 DEF h
<1> QED BY <1>4, <1>6, <1>7

Recovered == [j \in Jobs |-> RecoveredRow(mem[j])]

LEMMA RestartSteps ==
  ASSUME TypeOK, Restarts
  PROVE  /\ process \in {"stopped", "crashed"} /\ process' = "up"
         /\ UNCHANGED <<stored, accepting, slot, stranded, calls>>
         /\ Schedulable(Jobs, Recovered, handle, tasks)
         /\ \E started, spent \in SUBSET Jobs :
               /\ Passed(Jobs, Recovered, handle, tasks, started, spent, mem', handle', tasks')
               /\ Writes(mem', {j \in Jobs : Recovered[j] # stored[j]} \cup started \cup spent,
                         unwritten')
<1>1. /\ mem \in [Jobs -> Row] /\ handle \in [Jobs -> 0..2] /\ tasks \subseteq TaskRecord
  BY DEF TypeOK
<1>2. Schedulable(Jobs, Recovered, handle, tasks)
  BY <1>1, RecoveredRowIs DEF Schedulable, Recovered
<1>3. Leaves(Jobs, Recovered, handle, tasks, {j \in Jobs : Recovered[j] # stored[j]}, TRUE,
             mem', handle', tasks', unwritten')
  <2>1. ThenSchedule(Jobs, Recovered, handle, tasks, {j \in Jobs : Recovered[j] # stored[j]}, TRUE)
    BY DEF Restarts, Recovered
  <2> QED BY <2>1 DEF ThenSchedule, LoopWrites, Leaves
<1>4. PICK started \in SUBSET Jobs, spent \in SUBSET Jobs :
         /\ Passed(Jobs, Recovered, handle, tasks, started, spent, mem', handle', tasks')
         /\ Writes(mem', {j \in Jobs : Recovered[j] # stored[j]} \cup started \cup spent,
                   unwritten')
  BY <1>2, <1>3, Schedules
<1> QED BY <1>2, <1>4 DEF Restarts
-----------------------------------------------------------------------------
(* Types.                                                                  *)

LEMMA PassedType ==
  ASSUME NEW S, NEW m, NEW h, NEW ts, NEW started, NEW spent, NEW m2, NEW h2, NEW ts2,
         Schedulable(S, m, h, ts),
         Passed(S, m, h, ts, started, spent, m2, h2, ts2)
  PROVE  m2 \in [Jobs -> Row] /\ h2 \in [Jobs -> 0..2] /\ ts2 \subseteq TaskRecord
<1>1. started \subseteq Jobs
  BY DEF Passed, Waiting, Schedulable
<1>2. \A j \in Jobs : FreeCopy(j, ts) \in {1, 2} /\ NewTask(j, ts) \in TaskRecord
  BY DEF FreeCopy, NewTask, TaskRecord
<1>3. m2 \in [Jobs -> Row]
  BY ExhaustedRow DEF Passed, Schedulable
<1>4. h2 \in [Jobs -> 0..2]
  BY <1>2 DEF Passed, Schedulable
<1> QED BY <1>1, <1>2, <1>3, <1>4 DEF Passed, Schedulable

LEMMA WritesType ==
  ASSUME NEW m2 \in [Jobs -> Row], NEW touched, NEW u2, Writes(m2, touched, u2)
  PROVE  u2 \in [Jobs -> Row \cup {NoRow}]
BY DEF Writes

LEMMA TaskUpdate ==
  ASSUME NEW t \in TaskRecord
  PROVE  /\ t.job \in Jobs /\ t.copy \in {1, 2}
         /\ \A p \in {"ready", "running", "done"} : [t EXCEPT !.phase = p] \in TaskRecord
         /\ [t EXCEPT !.phase = "done", !.cancelled = TRUE] \in TaskRecord
         /\ \A c \in {"no", "posted", "requested"} : [t EXCEPT !.cancel = c] \in TaskRecord
BY DEF TaskRecord

LEMMA SlotNumbers ==
  ASSUME TypeOK
  PROVE  /\ UsedSlots \in SUBSET Nat /\ IsFiniteSet(UsedSlots)
         /\ Cardinality(UsedSlots) \in Nat
<1> DEFINE f == [j \in Jobs |-> slot[j]]
           T == {slot[j] : j \in Jobs}
<1>1. f \in Surjection(Jobs, T)
  BY DEF Surjection
<1>2. IsFiniteSet(T)
  BY <1>1, FS_Surjection
<1>3. UsedSlots \in SUBSET T /\ UsedSlots \in SUBSET Nat
  BY DEF UsedSlots, TypeOK
<1> QED BY <1>2, <1>3, FS_Subset, FS_CardinalityType

(* A set of numbers has a least one.                                       *)
LEMMA LeastNatural ==
  ASSUME NEW T \in SUBSET Nat, T # {}
  PROVE  \E x \in T : \A y \in T : x <= y
<1>1. PICK x \in T : \A y \in T : ~ (<<y, x>> \in OpToRel(<, Nat))
  BY NatLessThanWellFounded, WFMin
<1>2. ASSUME NEW y \in T PROVE x <= y
  <2>1. ~ (y < x)
    BY <1>1 DEF OpToRel
  <2> QED BY <2>1
<1> QED BY <1>2

LEMMA LowestSlotIs ==
  ASSUME TypeOK
  PROVE  /\ LowestSlot \in Nat \ {0}
         /\ (\E n \in 1..MaxConcurrency : n \notin UsedSlots) =>
               LowestSlot \in 1..MaxConcurrency /\ LowestSlot \notin UsedSlots
<1>1. CASE \E n \in 1..MaxConcurrency : n \notin UsedSlots
  <2> DEFINE T == {n \in 1..MaxConcurrency : n \notin UsedSlots}
  <2>1. T \in SUBSET Nat /\ T # {}
    BY <1>1
  <2>2. PICK x \in T : \A y \in T : x <= y
    <3> HIDE DEF T
    <3> QED BY <2>1, LeastNatural
  <2>3. x \in 1..MaxConcurrency /\ x \notin UsedSlots
    OBVIOUS
  <2>4. \A k \in 1..(x - 1) : k \in UsedSlots
    BY <2>2, <2>3
  <2>5. LowestSlot \in 1..MaxConcurrency /\ LowestSlot \notin UsedSlots
    BY <1>1, <2>3, <2>4 DEF LowestSlot
  <2> QED BY <2>5
<1>2. CASE ~ \E n \in 1..MaxConcurrency : n \notin UsedSlots
  <2>1. LowestSlot = Cardinality(UsedSlots) + 1
    BY <1>2 DEF LowestSlot
  <2> QED BY <1>2, <2>1, SlotNumbers
<1> QED BY <1>1, <1>2

LEMMA InitTypeOK == Init => TypeOK
BY AbsentRowIs DEF Init, TypeOK

LEMMA StepTypeOK == TypeOK /\ [Next]_vars => TypeOK'
<1> SUFFICES ASSUME TypeOK, [Next]_vars PROVE TypeOK'
  OBVIOUS
<1>0. /\ mem \in [Jobs -> Row] /\ stored \in [Jobs -> Row]
      /\ unwritten \in [Jobs -> Row \cup {NoRow}] /\ accepting \in BOOLEAN
      /\ handle \in [Jobs -> 0..2] /\ tasks \subseteq TaskRecord
      /\ slot \in [Jobs -> Nat] /\ stranded \subseteq Jobs
      /\ calls \in [Threads -> Call \cup {Idle}]
      /\ process \in {"up", "stopping", "stopped", "crashed"}
  BY DEF TypeOK
<1>1. ASSUME Handler PROVE TypeOK'
  <2>1. /\ process = "up" /\ accepting' \in BOOLEAN
        /\ UNCHANGED <<stored, slot, stranded, calls, process>>
    BY <1>1, HandlerSteps
  <2>2. PICK m, S, touched : \E started, spent \in SUBSET Jobs :
           Handled(S, m, touched, started, spent, mem', handle', tasks', unwritten')
    BY <1>1, HandlerSteps
  <2>3. PICK started \in SUBSET Jobs, spent \in SUBSET Jobs :
           Handled(S, m, touched, started, spent, mem', handle', tasks', unwritten')
    BY <2>2
  <2>4. mem' \in [Jobs -> Row] /\ handle' \in [Jobs -> 0..2] /\ tasks' \subseteq TaskRecord
    BY <2>3, PassedType DEF Handled
  <2>5. unwritten' \in [Jobs -> Row \cup {NoRow}]
    BY <2>3, <2>4, WritesType DEF Handled
  <2> QED BY <1>0, <2>1, <2>4, <2>5 DEF TypeOK
<1>2. ASSUME NEW t \in tasks, TaskDone(t) PROVE TypeOK'
  <2>1. UNCHANGED <<stored, accepting, slot, stranded, calls, process>>
    BY <1>2, DoneSteps
  <2> DEFINE h == [handle EXCEPT ![t.job] = 0]
  <2>2. /\ Schedulable(Jobs, DoneMem(t), h, tasks \ {t})
        /\ \E started, spent \in SUBSET Jobs :
              /\ Passed(Jobs, DoneMem(t), h, tasks \ {t}, started, spent, mem', handle', tasks')
              /\ \/ Writes(mem', {t.job} \cup started \cup spent, unwritten')
                 \/ UNCHANGED unwritten
    BY <1>2, DoneSteps
  <2> HIDE DEF h
  <2>3. PICK started \in SUBSET Jobs, spent \in SUBSET Jobs :
           /\ Passed(Jobs, DoneMem(t), h, tasks \ {t}, started, spent, mem', handle', tasks')
           /\ \/ Writes(mem', {t.job} \cup started \cup spent, unwritten')
              \/ UNCHANGED unwritten
    BY <2>2
  <2>4. mem' \in [Jobs -> Row] /\ handle' \in [Jobs -> 0..2] /\ tasks' \subseteq TaskRecord
    BY <2>2, <2>3, PassedType
  <2>5. unwritten' \in [Jobs -> Row \cup {NoRow}]
    BY <1>0, <2>3, <2>4, WritesType
  <2> QED BY <1>0, <2>1, <2>4, <2>5 DEF TypeOK
<1>3. ASSUME Restarts PROVE TypeOK'
  <2>1. /\ process' = "up" /\ UNCHANGED <<stored, accepting, slot, stranded, calls>>
        /\ Schedulable(Jobs, Recovered, handle, tasks)
    BY <1>3, RestartSteps
  <2>2. PICK started \in SUBSET Jobs, spent \in SUBSET Jobs :
           /\ Passed(Jobs, Recovered, handle, tasks, started, spent, mem', handle', tasks')
           /\ Writes(mem', {j \in Jobs : Recovered[j] # stored[j]} \cup started \cup spent,
                     unwritten')
    BY <1>3, RestartSteps
  <2>3. mem' \in [Jobs -> Row] /\ handle' \in [Jobs -> 0..2] /\ tasks' \subseteq TaskRecord
    BY <2>1, <2>2, PassedType
  <2>4. unwritten' \in [Jobs -> Row \cup {NoRow}]
    BY <2>2, <2>3, WritesType
  <2> QED BY <1>0, <2>1, <2>3, <2>4 DEF TypeOK
<1>4. ASSUME NEW j \in Jobs, LoopWriteLands(j) PROVE TypeOK'
  BY <1>0, <1>4 DEF LoopWriteLands, TypeOK
<1>5. ASSUME Pause PROVE TypeOK'
  BY <1>0, <1>5 DEF Pause, TypeOK
<1>6. ASSUME NEW c \in Threads, NEW j \in Jobs, CancelBegins(c, j) \/ LegacyRequeueBegins(c, j)
      PROVE  TypeOK'
  <2>1. PICK r \in Row, op \in {"cancel", "requeue"} : Begins(c, op, j, r)
    <3>1. /\ CancelledRow(mem[j]) \in Row /\ Exhausted(mem[j]) \in Row
          /\ RequeuedRow(mem[j]) \in Row
      BY <1>0, CancelledRowIs, ExhaustedRow, RequeuedRowIs
    <3> QED BY <1>6, <3>1 DEF CancelBegins, LegacyRequeueBegins
  <2>2. mem' \in [Jobs -> Row] /\ process' = process
    BY <1>0, <1>6, <2>1 DEF Begins, With, CancelBegins, LegacyRequeueBegins
  <2>3. calls' \in [Threads -> Call \cup {Idle}]
    BY <1>0, <2>1 DEF Begins, Call
  <2>4. tasks' \subseteq TaskRecord
    <3>1. \A t \in tasks : [t EXCEPT !.revoked = t.revoked \/ (t.job = j /\ t.phase = "running")]
                              \in TaskRecord
      BY <1>0 DEF TaskRecord
    <3> QED BY <1>0, <1>6, <3>1 DEF CancelBegins, LegacyRequeueBegins
  <2> QED BY <1>0, <1>6, <2>2, <2>3, <2>4 DEF CancelBegins, LegacyRequeueBegins, TypeOK
<1>7. ASSUME NEW c \in Threads, CallWriteLands(c) PROVE TypeOK'
  <2>1. calls[c] \in Call /\ calls[c].job \in Jobs /\ calls[c].row \in Row
    BY <1>0, <1>7 DEF CallWriteLands, Call
  <2>2. stored' \in [Jobs -> Row]
    BY <1>0, <1>7, <2>1 DEF CallWriteLands
  <2>3. calls' \in [Threads -> Call \cup {Idle}]
    <3>1. [calls[c] EXCEPT !.step = "stop"] \in Call
      BY <2>1 DEF Call
    <3> QED BY <1>0, <1>7, <3>1 DEF CallWriteLands
  <2> QED BY <1>0, <1>7, <2>2, <2>3 DEF CallWriteLands, TypeOK
<1>8. ASSUME NEW c \in Threads, CancelPosts(c) PROVE TypeOK'
  <2>1. tasks' \subseteq TaskRecord
    BY <1>0, <1>8, TaskUpdate DEF CancelPosts
  <2> QED BY <1>0, <1>8, <2>1 DEF CancelPosts, TypeOK
<1>9. ASSUME NEW t \in tasks, CancelRequested(t) \/ NeverStarts(t) PROVE TypeOK'
  <2>1. tasks' \subseteq TaskRecord
    <3>1. t \in TaskRecord
      BY <1>0
    <3>2. CASE CancelRequested(t)
      <4>1. \E c \in {"no", "requested"} : tasks' = Replaced(t, [t EXCEPT !.cancel = c])
        BY <3>2 DEF CancelRequested
      <4> QED BY <1>0, <3>1, <4>1, TaskUpdate DEF Replaced
    <3>3. CASE NeverStarts(t)
      BY <1>0, <3>1, <3>3, TaskUpdate DEF NeverStarts, Replaced
    <3> QED BY <1>9, <3>2, <3>3
  <2> QED BY <1>0, <1>9, <2>1 DEF CancelRequested, NeverStarts, TypeOK
<1>10. ASSUME NEW t \in tasks, StartRefused(t) PROVE TypeOK'
  <2>1. tasks' \subseteq TaskRecord /\ t.job \in Jobs
    BY <1>0, <1>10, TaskUpdate DEF StartRefused, Replaced
  <2>2. mem' \in [Jobs -> Row]
    BY <1>0, <1>10, <2>1, ExhaustedRow DEF StartRefused, With
  <2>3. unwritten' \in [Jobs -> Row \cup {NoRow}]
    BY <1>0, <1>10, <2>2 DEF StartRefused, LoopWrites
  <2> QED BY <1>0, <1>10, <2>1, <2>2, <2>3 DEF StartRefused, TypeOK
<1>11. ASSUME NEW t \in tasks, AttemptStarts(t) PROVE TypeOK'
  <2>1. tasks' \subseteq TaskRecord /\ t.job \in Jobs
    BY <1>0, <1>11, TaskUpdate DEF AttemptStarts, Replaced
  <2>2. LowestSlot \in Nat
    BY LowestSlotIs
  <2>3. mem' \in [Jobs -> Row]
    <3> DEFINE r == mem[t.job]
               q == [r EXCEPT !.status = "running", !.attempts = r.attempts + 1,
                              !.slot = LowestSlot]
    <3>1. r \in Row /\ r.attempts < MaxAttempts
      BY <1>0, <1>11, <2>1 DEF AttemptStarts
    <3>2. r.attempts + 1 \in 0..MaxAttempts
      BY <3>1, RowFields
    <3>3. q \in Row
      BY <2>2, <3>1, <3>2, Values DEF Row
    <3>4. mem' = [mem EXCEPT ![t.job] = q]
      BY <1>0, <1>11, <2>1 DEF AttemptStarts
    <3> HIDE DEF q
    <3> QED BY <1>0, <2>1, <3>3, <3>4
  <2>4. slot' \in [Jobs -> Nat] /\ stranded' \subseteq Jobs
    BY <1>0, <1>11, <2>1, <2>2 DEF AttemptStarts
  <2>5. unwritten' \in [Jobs -> Row \cup {NoRow}]
    BY <1>0, <1>11, <2>3 DEF AttemptStarts, LoopWrites
  <2> QED BY <1>0, <1>11, <2>1, <2>3, <2>4, <2>5 DEF AttemptStarts, TypeOK
<1>12. ASSUME NEW t \in tasks, RunnerReturns(t) \/ RunnerFails(t) \/ RunnerStops(t) PROVE TypeOK'
  <2>1. PICK status \in Statuses, reason \in Reasons : AttemptEnds(t, status, reason)
    BY <1>12, Values DEF RunnerReturns, RunnerFails, RunnerStops
  <2>2. tasks' \subseteq TaskRecord /\ t.job \in Jobs
    BY <1>0, <2>1, TaskUpdate DEF AttemptEnds, Replaced
  <2>3. mem' \in [Jobs -> Row]
    BY <1>0, <2>1, <2>2, OutcomeRow DEF AttemptEnds, With
  <2>4. slot' \in [Jobs -> Nat]
    BY <1>0, <2>1, <2>2 DEF AttemptEnds, SlotFreed
  <2>5. unwritten' \in [Jobs -> Row \cup {NoRow}]
    BY <1>0, <2>1, <2>3 DEF AttemptEnds, LoopWrites
  <2> QED BY <1>0, <2>1, <2>2, <2>3, <2>4, <2>5 DEF AttemptEnds, TypeOK
<1>13. ASSUME Shutdown PROVE TypeOK'
  <2>1. mem' \in [Jobs -> Row]
    BY <1>0, <1>13, CancelledRowIs DEF Shutdown
  <2>2. unwritten' \in [Jobs -> Row \cup {NoRow}]
    BY <1>13, <2>1 DEF Shutdown, LoopWrites
  <2>3. tasks' \subseteq TaskRecord
    <3>1. ASSUME NEW t \in tasks
          PROVE  [t EXCEPT !.cancel = "requested", !.revoked = t.phase = "running"] \in TaskRecord
      <4> DEFINE b == t.phase = "running"
      <4>1. b \in BOOLEAN
        OBVIOUS
      <4> HIDE DEF b
      <4>2. [t EXCEPT !.cancel = "requested", !.revoked = b] \in TaskRecord
        BY <1>0, <3>1, <4>1 DEF TaskRecord
      <4> QED BY <4>2 DEF b
    <3> QED BY <1>0, <1>13, <3>1 DEF Shutdown
  <2> QED BY <1>0, <1>13, <2>1, <2>2, <2>3 DEF Shutdown, TypeOK
<1>14. ASSUME Exits \/ Crashes PROVE TypeOK'
  <2>1. PICK how \in {"stopped", "crashed"} : Gone(how)
    BY <1>14 DEF Exits, Crashes
  <2>2. /\ process' = how /\ mem' = stored /\ accepting' = TRUE /\ stored' = stored
        /\ tasks' = {} /\ stranded' = {}
    BY <2>1 DEF Gone
  <2>3. /\ unwritten' \in [Jobs -> Row \cup {NoRow}] /\ handle' \in [Jobs -> 0..2]
        /\ slot' \in [Jobs -> Nat] /\ calls' \in [Threads -> Call \cup {Idle}]
    BY <2>1 DEF Gone
  <2> QED BY <1>0, <2>2, <2>3 DEF TypeOK
<1>15. CASE UNCHANGED vars
  BY <1>0, <1>15 DEF vars, TypeOK
<1> QED
  BY <1>1, <1>2, <1>3, <1>4, <1>5, <1>6, <1>7, <1>8, <1>9, <1>10, <1>11, <1>12, <1>13,
     <1>14, <1>15
  DEF Next, Coroutine, Handler, Thread, TaskStep

(* The jobs, the table, the tasks and the calls in flight keep their types *)
(* through every interleaving: no count of attempts ever exceeds the limit.*)
THEOREM TypeCorrect == Spec => []TypeOK
BY InitTypeOK, StepTypeOK, PTL DEF Spec
-----------------------------------------------------------------------------
(* Tasks and slots.                                                        *)

OneTask(h, ts) ==
    /\ \A s, t \in ts : s.job = t.job => s = t
    /\ \A t \in ts : h[t.job] = t.copy

(* The slots held in s are those of the tasks in their runner and of the   *)
(* jobs in x, whose attempt could not be written; no task of these goes on.*)
Backed(s, x, ts) ==
    /\ \A j \in Jobs : s[j] # 0 <=> j \in x \/ \E t \in ts : t.phase = "running" /\ t.job = j
    /\ \A t \in ts : t.job \in x => t.phase = "done"

(* The inductive invariant behind one task per job and backed slots.       *)
TasksInv == TypeOK /\ OneTask(handle, tasks) /\ Backed(slot, stranded, tasks)

(* A pass of the scheduler starts jobs that have no task and no slot.      *)
LEMMA PassedTasks ==
  ASSUME NEW S, NEW m, NEW h, NEW ts, NEW started, NEW spent, NEW m2, NEW h2, NEW ts2,
         Schedulable(S, m, h, ts),
         Passed(S, m, h, ts, started, spent, m2, h2, ts2),
         OneTask(h, ts), Backed(slot, stranded, ts)
  PROVE  OneTask(h2, ts2) /\ Backed(slot, stranded, ts2)
<1>1. /\ started \subseteq Jobs /\ \A j \in started : h[j] = 0 /\ slot[j] = 0
  BY DEF Passed, Waiting, Schedulable
<1>2. \A t \in ts : t.job \in Jobs /\ t.copy \in {1, 2} /\ t.job \notin started
  BY <1>1 DEF OneTask, Schedulable, TaskRecord
<1>3. ASSUME NEW j \in Jobs
      PROVE  LET n == NewTask(j, ts)
             IN n.job = j /\ n.copy = FreeCopy(j, ts) /\ n.phase = "ready"
  BY DEF NewTask
<1>4. /\ ts2 = ts \cup {NewTask(j, ts) : j \in started}
      /\ \A j \in Jobs : h2[j] = IF j \in started THEN FreeCopy(j, ts) ELSE h[j]
  BY DEF Passed
<1>5. \A t \in ts2 : t \in ts \/ \E j \in started : t = NewTask(j, ts)
  BY <1>4
<1>6. OneTask(h2, ts2)
  <2>1. ASSUME NEW s \in ts2, NEW t \in ts2, s.job = t.job PROVE s = t
    BY <1>1, <1>2, <1>3, <1>5, <2>1 DEF OneTask
  <2>2. ASSUME NEW t \in ts2 PROVE h2[t.job] = t.copy
    BY <1>1, <1>2, <1>3, <1>4, <1>5 DEF OneTask
  <2> QED BY <2>1, <2>2 DEF OneTask
<1>7. Backed(slot, stranded, ts2)
  <2>1. \A t \in ts2 : t.phase = "running" => t \in ts
    BY <1>1, <1>3, <1>5
  <2>2. ts \subseteq ts2
    BY <1>4
  <2>3. \A j \in started : j \notin stranded
    BY <1>1 DEF Backed
  <2>4. ASSUME NEW t \in ts2, t.job \in stranded PROVE t.phase = "done"
    BY <1>1, <1>3, <1>5, <2>3, <2>4 DEF Backed
  <2>5. ASSUME NEW j \in Jobs
        PROVE  slot[j] # 0 <=> j \in stranded \/ \E t \in ts2 : t.phase = "running" /\ t.job = j
    BY <2>1, <2>2 DEF Backed
  <2> QED BY <2>4, <2>5 DEF Backed
<1> QED BY <1>6, <1>7

(* Tasks that are only told something stay the tasks they were.            *)
Told(ts, ts2) ==
    \E f \in [ts -> TaskRecord] :
       /\ ts2 = {f[t] : t \in ts}
       /\ \A t \in ts : f[t].job = t.job /\ f[t].copy = t.copy /\ f[t].phase = t.phase

LEMMA ToldTasks ==
  ASSUME NEW h, NEW s, NEW x, NEW ts, NEW ts2, Told(ts, ts2), OneTask(h, ts), Backed(s, x, ts)
  PROVE  OneTask(h, ts2) /\ Backed(s, x, ts2)
<1>1. PICK f \in [ts -> TaskRecord] :
         /\ ts2 = {f[t] : t \in ts}
         /\ \A t \in ts : f[t].job = t.job /\ f[t].copy = t.copy /\ f[t].phase = t.phase
  BY DEF Told
<1>2. OneTask(h, ts2)
  BY <1>1 DEF OneTask
<1>3. Backed(s, x, ts2)
  <2>1. ASSUME NEW j \in Jobs
        PROVE  (\E t \in ts : t.phase = "running" /\ t.job = j)
                  <=> \E t \in ts2 : t.phase = "running" /\ t.job = j
    BY <1>1
  <2>2. \A t \in ts2 : t.job \in x => t.phase = "done"
    BY <1>1 DEF Backed
  <2> QED BY <2>1, <2>2 DEF Backed
<1> QED BY <1>2, <1>3

(* One task becomes another of the same job.                               *)
LEMMA ReplacedTask ==
  ASSUME NEW h, NEW ts, NEW t \in ts, NEW u, OneTask(h, ts), u.job = t.job, u.copy = t.copy
  PROVE  OneTask(h, (ts \ {t}) \cup {u})
BY DEF OneTask

(* Its slot stays what it is unless it enters or leaves its runner.        *)
LEMMA ReplacedBacked ==
  ASSUME NEW s, NEW x, NEW ts, NEW t \in ts, NEW u, Backed(s, x, ts), u.job = t.job,
         t.phase # "running", u.phase = "done"
  PROVE  Backed(s, x, (ts \ {t}) \cup {u})
BY DEF Backed

(* Which steps only tell tasks something.                                  *)
LEMMA TellingSteps ==
  ASSUME TypeOK, \/ \E c \in Threads, j \in Jobs : CancelBegins(c, j)
                 \/ \E c \in Threads : CancelPosts(c)
                 \/ \E t \in tasks : CancelRequested(t)
                 \/ Shutdown
  PROVE  Told(tasks, tasks') /\ UNCHANGED <<handle, slot, stranded, stored>>
<1>1. tasks \subseteq TaskRecord
  BY DEF TypeOK
<1>2. ASSUME NEW f, f = [t \in tasks |-> f[t]], tasks' = {f[t] : t \in tasks},
             \A t \in tasks : \/ f[t] = t
                              \/ \E c \in {"no", "posted", "requested"} : f[t] = [t EXCEPT !.cancel = c]
                              \/ \E b \in BOOLEAN : f[t] = [t EXCEPT !.revoked = b]
                              \/ \E b \in BOOLEAN :
                                    f[t] = [t EXCEPT !.cancel = "requested", !.revoked = b]
      PROVE  Told(tasks, tasks')
  <2>1. ASSUME NEW t \in tasks
        PROVE  f[t] \in TaskRecord /\ f[t].job = t.job /\ f[t].copy = t.copy /\ f[t].phase = t.phase
    <3> DEFINE Same(u) == /\ u \in TaskRecord
                          /\ u.job = t.job /\ u.copy = t.copy /\ u.phase = t.phase
    <3>1. t \in TaskRecord /\ Same(t)
      BY <1>1
    <3>2. \A c \in {"no", "posted", "requested"} : Same([t EXCEPT !.cancel = c])
      BY <3>1 DEF TaskRecord
    <3>3. \A b \in BOOLEAN : Same([t EXCEPT !.revoked = b])
      BY <3>1 DEF TaskRecord
    <3>4. \A b \in BOOLEAN : Same([t EXCEPT !.cancel = "requested", !.revoked = b])
      BY <3>1 DEF TaskRecord
    <3>5. Same(f[t])
      <4> HIDE DEF Same
      <4> QED BY <1>2, <3>1, <3>2, <3>3, <3>4
    <3> QED BY <3>5
  <2> QED BY <1>2, <2>1 DEF Told
<1>3. ASSUME NEW c \in Threads, NEW j \in Jobs, CancelBegins(c, j) PROVE Told(tasks, tasks')
  <2> DEFINE f == [t \in tasks |-> [t EXCEPT !.revoked = t.revoked \/ (t.job = j /\ t.phase = "running")]]
  <2>1. tasks' = {f[t] : t \in tasks}
    BY <1>3 DEF CancelBegins
  <2>2. ASSUME NEW t \in tasks PROVE \E b \in BOOLEAN : f[t] = [t EXCEPT !.revoked = b]
    <3>1. (t.revoked \/ (t.job = j /\ t.phase = "running")) \in BOOLEAN
      BY <1>1 DEF TaskRecord
    <3> QED BY <3>1
  <2>3. f = [t \in tasks |-> f[t]]
    OBVIOUS
  <2> HIDE DEF f
  <2> QED BY <1>2, <2>1, <2>2, <2>3
<1>4. ASSUME NEW c \in Threads, CancelPosts(c) PROVE Told(tasks, tasks')
  <2> DEFINE f == [t \in tasks |-> IF t \in Tracked(handle, tasks) /\ t.job = calls[c].job /\ t.cancel = "no"
                                   THEN [t EXCEPT !.cancel = "posted"] ELSE t]
  <2>1. tasks' = {f[t] : t \in tasks}
    BY <1>4 DEF CancelPosts
  <2>2. ASSUME NEW t \in tasks PROVE f[t] = t \/ f[t] = [t EXCEPT !.cancel = "posted"]
    OBVIOUS
  <2>3. f = [t \in tasks |-> f[t]]
    OBVIOUS
  <2> HIDE DEF f
  <2> QED BY <1>2, <2>1, <2>2, <2>3
<1>5. ASSUME NEW u \in tasks, CancelRequested(u) PROVE Told(tasks, tasks')
  <2>1. PICK c \in {"no", "requested"} : tasks' = Replaced(u, [u EXCEPT !.cancel = c])
    BY <1>5 DEF CancelRequested
  <2> DEFINE f == [t \in tasks |-> IF t = u THEN [t EXCEPT !.cancel = c] ELSE t]
  <2>2. tasks' = {f[t] : t \in tasks}
    BY <2>1 DEF Replaced
  <2>3. ASSUME NEW t \in tasks
        PROVE  \/ f[t] = t
               \/ \E d \in {"no", "posted", "requested"} : f[t] = [t EXCEPT !.cancel = d]
    OBVIOUS
  <2>4. f = [t \in tasks |-> f[t]]
    OBVIOUS
  <2> HIDE DEF f
  <2> QED BY <1>2, <2>1, <2>2, <2>3, <2>4
<1>6. ASSUME Shutdown PROVE Told(tasks, tasks')
  <2> DEFINE f == [t \in tasks |-> IF t.job \in CancelledAtShutdown /\ t \in Tracked(handle, tasks)
                                   THEN [t EXCEPT !.cancel = "requested", !.revoked = t.phase = "running"]
                                   ELSE t]
  <2>1. tasks' = {f[t] : t \in tasks}
    BY <1>6 DEF Shutdown
  <2>2. ASSUME NEW t \in tasks
        PROVE  f[t] = t \/ \E b \in BOOLEAN : f[t] = [t EXCEPT !.cancel = "requested", !.revoked = b]
    <3>1. (t.phase = "running") \in BOOLEAN
      OBVIOUS
    <3> QED BY <3>1
  <2>3. f = [t \in tasks |-> f[t]]
    OBVIOUS
  <2> HIDE DEF f
  <2> QED BY <1>2, <2>1, <2>2, <2>3
<1>7. UNCHANGED <<handle, slot, stranded, stored>>
  BY DEF CancelBegins, CancelPosts, CancelRequested, Shutdown
<1> QED BY <1>3, <1>4, <1>5, <1>6, <1>7

(* Every step keeps one task per job and every slot backed.                *)
LEMMA StepTasksInv == TasksInv /\ [Next]_vars => TasksInv'
<1> SUFFICES ASSUME TasksInv, [Next]_vars PROVE TasksInv'
  OBVIOUS
<1>0. TypeOK /\ TypeOK' /\ OneTask(handle, tasks) /\ Backed(slot, stranded, tasks)
  BY StepTypeOK DEF TasksInv
<1> DEFINE Goal == OneTask(handle', tasks') /\ Backed(slot', stranded', tasks')
<1>a. tasks \subseteq TaskRecord /\ \A t \in tasks : t.job \in Jobs
  BY <1>0 DEF TypeOK, TaskRecord
<1>b. ASSUME NEW S, NEW m, NEW h, NEW ts, NEW started, NEW spent,
             Schedulable(S, m, h, ts), OneTask(h, ts), Backed(slot, stranded, ts),
             Passed(S, m, h, ts, started, spent, mem', handle', tasks'),
             UNCHANGED <<slot, stranded>>
      PROVE  Goal
  BY <1>b, PassedTasks
<1>1. ASSUME Handler PROVE Goal
  <2>1. UNCHANGED <<slot, stranded>>
    BY <1>0, <1>1, HandlerSteps
  <2>2. PICK m, S, touched : \E started, spent \in SUBSET Jobs :
           Handled(S, m, touched, started, spent, mem', handle', tasks', unwritten')
    BY <1>0, <1>1, HandlerSteps
  <2>3. PICK started \in SUBSET Jobs, spent \in SUBSET Jobs :
           Handled(S, m, touched, started, spent, mem', handle', tasks', unwritten')
    BY <2>2
  <2> QED BY <1>0, <1>b, <2>1, <2>3 DEF Handled
<1>2. ASSUME NEW t \in tasks, TaskDone(t) PROVE Goal
  <2> DEFINE h == [handle EXCEPT ![t.job] = 0]
  <2>1. /\ t.phase = "done" /\ UNCHANGED <<slot, stranded>>
        /\ Schedulable(Jobs, DoneMem(t), h, tasks \ {t})
        /\ \E started, spent \in SUBSET Jobs :
              Passed(Jobs, DoneMem(t), h, tasks \ {t}, started, spent, mem', handle', tasks')
    BY <1>0, <1>2, DoneSteps
  <2>2. OneTask(h, tasks \ {t})
    BY <1>0, <1>a DEF OneTask, TypeOK
  <2>3. Backed(slot, stranded, tasks \ {t})
    BY <1>0, <2>1 DEF Backed
  <2> HIDE DEF h
  <2> QED BY <1>b, <2>1, <2>2, <2>3
<1>3. ASSUME Restarts PROVE Goal
  <2>1. /\ UNCHANGED <<slot, stranded>> /\ Schedulable(Jobs, Recovered, handle, tasks)
        /\ \E started, spent \in SUBSET Jobs :
              Passed(Jobs, Recovered, handle, tasks, started, spent, mem', handle', tasks')
    BY <1>0, <1>3, RestartSteps
  <2> QED BY <1>0, <1>b, <2>1
<1>4. ASSUME \/ \E c \in Threads, j \in Jobs : CancelBegins(c, j)
             \/ \E c \in Threads : CancelPosts(c)
             \/ \E t \in tasks : CancelRequested(t)
             \/ Shutdown
      PROVE  Goal
  BY <1>0, <1>4, TellingSteps, ToldTasks
<1>5. ASSUME \/ \E j \in Jobs : LoopWriteLands(j)
             \/ Pause
             \/ \E c \in Threads : CallWriteLands(c) \/ \E j \in Jobs : LegacyRequeueBegins(c, j)
             \/ UNCHANGED vars
      PROVE  Goal
  BY <1>0, <1>5 DEF LoopWriteLands, Pause, CallWriteLands, LegacyRequeueBegins, vars
<1>6. ASSUME NEW t \in tasks, NeverStarts(t) \/ StartRefused(t) PROVE Goal
  <2>1. PICK u : /\ tasks' = Replaced(t, u) /\ u.job = t.job /\ u.copy = t.copy
                 /\ u.phase = "done" /\ t.phase = "ready"
    BY <1>6, <1>a DEF NeverStarts, StartRefused, TaskRecord
  <2>2. UNCHANGED <<handle, slot, stranded>>
    BY <1>6 DEF NeverStarts, StartRefused
  <2> QED BY <1>0, <2>1, <2>2, ReplacedTask, ReplacedBacked DEF Replaced
<1>7. ASSUME NEW t \in tasks, AttemptStarts(t) PROVE Goal
  <2>1. PICK p \in {"running", "done"} :
           /\ tasks' = Replaced(t, [t EXCEPT !.phase = p])
           /\ p = "running" => UNCHANGED stranded
           /\ p = "done" => stranded' = stranded \cup {t.job}
    BY <1>7 DEF AttemptStarts
  <2> DEFINE u == [t EXCEPT !.phase = p]
  <2>2. u.job = t.job /\ u.copy = t.copy /\ u.phase = p
    BY <1>a DEF TaskRecord
  <2>3. /\ t.phase = "ready" /\ handle' = handle
        /\ slot' = [slot EXCEPT ![t.job] = LowestSlot] /\ LowestSlot # 0
    BY <1>0, <1>7, LowestSlotIs DEF AttemptStarts
  <2> HIDE DEF u
  <2>4. tasks' = (tasks \ {t}) \cup {u} /\ slot \in [Jobs -> Nat]
    BY <1>0, <2>1 DEF Replaced, u, TypeOK
  <2>5. OneTask(handle', tasks')
    BY <1>0, <2>2, <2>3, <2>4, ReplacedTask
  <2>6. \A s \in tasks' : s = u \/ (s \in tasks /\ s # t)
    BY <2>4
  <2>7. t.job \notin stranded
    BY <1>0, <2>3 DEF Backed
  <2>8. ASSUME NEW j \in Jobs
        PROVE  slot'[j] # 0 <=> j \in stranded' \/ \E s \in tasks' : s.phase = "running" /\ s.job = j
    <3>1. CASE j = t.job
      BY <1>a, <2>1, <2>2, <2>3, <2>4, <3>1
    <3>2. CASE j # t.job
      <4>1. slot'[j] = slot[j] /\ (j \in stranded' <=> j \in stranded)
        BY <1>a, <2>1, <2>3, <2>4, <3>2
      <4>2. (\E s \in tasks' : s.phase = "running" /\ s.job = j)
               <=> \E s \in tasks : s.phase = "running" /\ s.job = j
        BY <2>2, <2>3, <2>4, <2>6, <3>2
      <4> QED BY <1>0, <4>1, <4>2 DEF Backed
    <3> QED BY <3>1, <3>2
  <2>9. ASSUME NEW s \in tasks', s.job \in stranded' PROVE s.phase = "done"
    <3>1. CASE s = u
      BY <2>1, <2>2, <2>7, <2>9, <3>1
    <3>2. CASE s \in tasks /\ s # t
      <4>1. s.job # t.job
        BY <1>0, <3>2 DEF OneTask
      <4> QED BY <1>0, <2>1, <2>9, <3>2, <4>1 DEF Backed
    <3> QED BY <2>6, <3>1, <3>2
  <2> QED BY <2>5, <2>8, <2>9 DEF Backed
<1>8. ASSUME NEW t \in tasks, RunnerReturns(t) \/ RunnerFails(t) \/ RunnerStops(t) PROVE Goal
  <2>1. PICK status, reason : AttemptEnds(t, status, reason)
    BY <1>8 DEF RunnerReturns, RunnerFails, RunnerStops
  <2> DEFINE u == [t EXCEPT !.phase = "done"]
  <2>2. u.job = t.job /\ u.copy = t.copy /\ u.phase = "done"
    BY <1>a DEF TaskRecord
  <2>3. /\ t.phase = "running" /\ handle' = handle /\ stranded' = stranded
        /\ slot' = [slot EXCEPT ![t.job] = 0] /\ tasks' = (tasks \ {t}) \cup {u}
    BY <2>1 DEF AttemptEnds, SlotFreed, Replaced
  <2> HIDE DEF u
  <2>4. OneTask(handle', tasks') /\ slot \in [Jobs -> Nat]
    BY <1>0, <2>2, <2>3, ReplacedTask DEF TypeOK
  <2>5. \A s \in tasks' : s = u \/ (s \in tasks /\ s.job # t.job)
    BY <1>0, <2>3 DEF OneTask
  <2>6. t.job \notin stranded
    BY <1>0, <2>3 DEF Backed
  <2>7. ASSUME NEW j \in Jobs
        PROVE  slot'[j] # 0 <=> j \in stranded' \/ \E s \in tasks' : s.phase = "running" /\ s.job = j
    <3>1. CASE j = t.job
      BY <1>a, <2>2, <2>3, <2>4, <2>5, <2>6, <3>1
    <3>2. CASE j # t.job
      <4>1. (\E s \in tasks' : s.phase = "running" /\ s.job = j)
               <=> \E s \in tasks : s.phase = "running" /\ s.job = j
        BY <2>2, <2>3, <2>5, <3>2
      <4> QED BY <1>0, <2>3, <2>4, <3>2, <4>1 DEF Backed
    <3> QED BY <3>1, <3>2
  <2>8. \A s \in tasks' : s.job \in stranded' => s.phase = "done"
    BY <1>0, <2>2, <2>3, <2>5 DEF Backed
  <2> QED BY <2>4, <2>7, <2>8 DEF Backed
<1>9. ASSUME Exits \/ Crashes PROVE Goal
  <2>1. /\ tasks' = {} /\ stranded' = {} /\ slot' = [j \in Jobs |-> 0]
    BY <1>9 DEF Exits, Crashes, Gone
  <2> QED BY <2>1 DEF OneTask, Backed
<1>10. Goal
  BY <1>1, <1>2, <1>3, <1>4, <1>5, <1>6, <1>7, <1>8, <1>9
  DEF Next, Coroutine, Handler, Thread, TaskStep
<1> QED BY <1>0, <1>10 DEF TasksInv

LEMMA InitTasksInv == Init => TasksInv
BY InitTypeOK DEF Init, TasksInv, OneTask, Backed

(* Through retries at any moment, cancellations on their way and callbacks *)
(* that have not run, a job never has two tasks, and the task it has is    *)
(* the one _job_tasks names.                                               *)
THEOREM OneTaskPerJobCorrect == Spec => []OneTaskPerJob
<1>1. TasksInv => OneTaskPerJob
  BY DEF TasksInv, OneTask, OneTaskPerJob
<1> QED BY InitTasksInv, StepTasksInv, <1>1, PTL DEF Spec

(* A slot is held exactly by the jobs whose task is in its runner, and by  *)
(* those whose attempt could not be written: no slot leaks otherwise.      *)
THEOREM SlotsBackedCorrect == Spec => []SlotsBacked
<1>1. TasksInv => SlotsBacked
  BY DEF TasksInv, Backed, SlotsBacked, Executing
<1> QED BY InitTasksInv, StepTasksInv, <1>1, PTL DEF Spec
-----------------------------------------------------------------------------
(* What any step of a process that lives on, or starts, does to the row of *)
(* one job.                                                                *)

Spent(r) == r.attempts >= MaxAttempts

Retried(j) ==
    /\ HastyRetries \/ Settled(j)
    /\ tasks \subseteq tasks' /\ UNCHANGED slot /\ process = "up"
    /\ \/ mem[j].status \in {"failed", "cancelled"} /\ mem'[j] = RequeuedRow(mem[j])
       \/ /\ mem[j].status \in {"failed", "cancelled"} /\ Spent(mem[j])
          /\ mem'[j] = Exhausted(mem[j])
       \/ /\ mem[j].status = "queued" /\ Spent(mem[j])
          /\ mem'[j] = [mem[j] EXCEPT !.attempts = 0]

Revoked(j) ==
    /\ ~Terminal(mem[j]) /\ mem'[j] = CancelledRow(mem[j])
    /\ mem[j].status = "absent" => handle[j] # 0

Started(j) ==
    /\ mem[j].status = "queued" /\ ~Spent(mem[j])
    /\ mem'[j].status = "running" /\ mem'[j].attempts = mem[j].attempts + 1
    /\ mem'[j].created = mem[j].created

Finished(j) ==
    \E t \in Executing : t.job = j /\
       \/ mem'[j] = Outcome(mem[j], "completed", "runner_completed")
       \/ mem'[j] = Outcome(mem[j], "failed", "runner_exception")
       \/ /\ t.cancel = "requested"
          /\ mem'[j] = Outcome(mem[j], "cancelled", "worker_task_cancelled")

NeverRan(j) ==
    \E t \in tasks : /\ t.job = j /\ t.cancelled /\ mem[j].status = "queued"
                     /\ mem'[j] = Ended(mem[j], "cancelled", "worker_task_cancelled_before_start")

AtStart(j) ==
    /\ process \in {"stopped", "crashed"}
    /\ LET r == RecoveredRow(mem[j])
       IN mem'[j] = r \/ (r.status = "queued" /\ Spent(r) /\ mem'[j] = Exhausted(r))

RowNext(j) ==
    \/ mem'[j] = mem[j]
    \/ mem[j].status = "absent" /\ \E rank \in Nat : mem'[j] = NewRow(rank)
    \/ mem[j].status = "queued" /\ Spent(mem[j]) /\ mem'[j] = Exhausted(mem[j])
    \/ Revoked(j)
    \/ Retried(j) \/ Started(j) \/ Finished(j) \/ NeverRan(j) \/ AtStart(j)

LEMMA PassedRow ==
  ASSUME NEW S, NEW m, NEW h, NEW ts, NEW started, NEW spent, NEW m2, NEW h2, NEW ts2,
         Passed(S, m, h, ts, started, spent, m2, h2, ts2), NEW j \in Jobs
  PROVE  /\ \/ m2[j] = m[j]
            \/ m[j].status = "queued" /\ Spent(m[j]) /\ m2[j] = Exhausted(m[j])
         /\ ts \subseteq ts2
BY DEF Passed, Waiting, Spent

LEMMA HandlerRow ==
  ASSUME TypeOK, Handler, NEW j \in Jobs
  PROVE  RowNext(j)
<1>0. mem \in [Jobs -> Row]
  BY DEF TypeOK
<1>1. process = "up" /\ UNCHANGED slot
  BY HandlerSteps
<1>2. PICK m, S, touched : \E started, spent \in SUBSET Jobs :
         Handled(S, m, touched, started, spent, mem', handle', tasks', unwritten')
  BY HandlerSteps
<1>3. PICK started \in SUBSET Jobs, spent \in SUBSET Jobs :
         Handled(S, m, touched, started, spent, mem', handle', tasks', unwritten')
  BY <1>2
<1>4. /\ \/ mem'[j] = m[j]
         \/ m[j].status = "queued" /\ Spent(m[j]) /\ mem'[j] = Exhausted(m[j])
      /\ tasks \subseteq tasks'
  BY <1>3, PassedRow DEF Handled
<1>5. CASE m[j] = mem[j]
  BY <1>4, <1>5 DEF RowNext
<1>6. CASE m[j] # mem[j]
  <2>1. PICK k \in Jobs, q \in Row : m = With(k, q) /\ ByHandler(k, q)
    BY <1>3, <1>6 DEF Handled, HandledTo
  <2>2. k = j /\ m[j] = q
    BY <1>0, <1>6, <2>1 DEF With
  <2> DEFINE n == Cardinality({i \in Jobs : mem[i].status # "absent"}) + 1
             r == mem[j]
  <2>3. n \in Nat /\ r \in Row
    BY <1>0, FS_Subset, FS_CardinalityType
  <2>4. \/ r.status = "absent" /\ q = NewRow(n)
        \/ /\ HastyRetries \/ Settled(j)
           /\ \/ r.status \in {"failed", "cancelled"} /\ q = RequeuedRow(r)
              \/ r.status \in {"failed", "cancelled"} /\ Spent(r) /\ q = Exhausted(r)
              \/ r.status = "queued" /\ Spent(r) /\ q = [r EXCEPT !.attempts = 0]
    BY <2>1, <2>2 DEF ByHandler, Spent
  <2> HIDE DEF n
  <2>5. CASE r.status = "absent" /\ q = NewRow(n)
    <3>1. q.attempts = 0
      BY <2>3, <2>5, NewRowIs
    <3>2. mem'[j] = q
      BY <1>4, <2>2, <3>1 DEF Spent
    <3> QED BY <2>3, <2>5, <3>2 DEF RowNext
  <2>6. CASE (HastyRetries \/ Settled(j)) /\ r.status \in {"failed", "cancelled"} /\ q = RequeuedRow(r)
    <3>1. ~ (q.attempts >= MaxAttempts)
      <4>1. q.attempts = IF r.attempts >= MaxAttempts THEN 0 ELSE r.attempts
        BY <2>3, <2>6, RequeuedRowIs
      <4> QED BY <2>3, <4>1, RowFields
    <3>2. mem'[j] = q
      BY <1>4, <2>2, <3>1 DEF Spent
    <3> QED BY <1>1, <1>4, <2>6, <3>2 DEF RowNext, Retried
  <2>7. CASE /\ HastyRetries \/ Settled(j)
             /\ r.status \in {"failed", "cancelled"} /\ Spent(r) /\ q = Exhausted(r)
    <3>1. q.status = "failed"
      BY <2>3, <2>7, ExhaustedRow
    <3>2. mem'[j] = q
      BY <1>4, <2>2, <3>1
    <3> QED BY <1>1, <1>4, <2>7, <3>2 DEF RowNext, Retried
  <2>8. CASE /\ HastyRetries \/ Settled(j)
             /\ r.status = "queued" /\ Spent(r) /\ q = [r EXCEPT !.attempts = 0]
    <3>1. q.attempts = 0
      BY <2>3, <2>8 DEF Row
    <3>2. mem'[j] = q
      BY <1>4, <2>2, <3>1 DEF Spent
    <3> QED BY <1>1, <1>4, <2>8, <3>2 DEF RowNext, Retried
  <2> QED BY <2>4, <2>5, <2>6, <2>7, <2>8
<1> QED BY <1>5, <1>6

LEMMA DoneRow ==
  ASSUME TypeOK, NEW t \in tasks, TaskDone(t), NEW j \in Jobs
  PROVE  RowNext(j)
<1>0. mem \in [Jobs -> Row] /\ t.job \in Jobs
  BY DEF TypeOK, TaskRecord
<1>1. \/ mem'[j] = DoneMem(t)[j]
      \/ /\ DoneMem(t)[j].status = "queued" /\ Spent(DoneMem(t)[j])
         /\ mem'[j] = Exhausted(DoneMem(t)[j])
  <2> DEFINE h == [handle EXCEPT ![t.job] = 0]
  <2>1. \E started, spent \in SUBSET Jobs :
           Passed(Jobs, DoneMem(t), h, tasks \ {t}, started, spent, mem', handle', tasks')
    BY DoneSteps
  <2> HIDE DEF h
  <2> QED BY <2>1, PassedRow
<1>2. CASE DoneMem(t)[j] = mem[j]
  BY <1>1, <1>2 DEF RowNext
<1>3. CASE DoneMem(t)[j] # mem[j]
  <2> DEFINE e == Ended(mem[j], "cancelled", "worker_task_cancelled_before_start")
  <2>1. t.job = j /\ t.cancelled /\ mem[j].status = "queued" /\ DoneMem(t)[j] = e
    BY <1>0, <1>3 DEF DoneMem, With
  <2>2. e.status = "cancelled"
    BY <1>0, EndedRow, Values
  <2> HIDE DEF e
  <2>3. mem'[j] = e
    BY <1>1, <2>1, <2>2
  <2> QED BY <2>1, <2>3 DEF RowNext, NeverRan, e
<1> QED BY <1>2, <1>3

LEMMA RestartRow ==
  ASSUME TypeOK, Restarts, NEW j \in Jobs
  PROVE  RowNext(j)
<1>1. /\ process \in {"stopped", "crashed"}
      /\ \E started, spent \in SUBSET Jobs :
            Passed(Jobs, Recovered, handle, tasks, started, spent, mem', handle', tasks')
  BY RestartSteps
<1>2. \/ mem'[j] = Recovered[j]
      \/ /\ Recovered[j].status = "queued" /\ Spent(Recovered[j])
         /\ mem'[j] = Exhausted(Recovered[j])
  BY <1>1, PassedRow
<1>3. Recovered[j] = RecoveredRow(mem[j])
  BY DEF Recovered
<1> QED BY <1>1, <1>2, <1>3 DEF RowNext, AtStart

LEMMA RowSteps ==
  ASSUME TypeOK, [Next]_vars, process' \in {"up", "stopping"}, NEW j \in Jobs
  PROVE  RowNext(j)
<1>0. mem \in [Jobs -> Row] /\ tasks \subseteq TaskRecord /\ \A t \in tasks : t.job \in Jobs
  BY DEF TypeOK, TaskRecord
<1>1. ASSUME \/ \E i \in Jobs : LoopWriteLands(i)
             \/ Pause
             \/ \E c \in Threads : CallWriteLands(c) \/ CancelPosts(c)
             \/ \E t \in tasks : CancelRequested(t) \/ NeverStarts(t)
             \/ UNCHANGED vars
      PROVE  mem'[j] = mem[j]
  BY <1>1 DEF LoopWriteLands, Pause, CallWriteLands, CancelPosts, CancelRequested, NeverStarts, vars
<1>2. ASSUME NEW c \in Threads, NEW i \in Jobs, CancelBegins(c, i) PROVE RowNext(j)
  <2>1. mem' = With(i, CancelledRow(mem[i]))
    BY <1>2 DEF CancelBegins, Begins
  <2> QED BY <1>0, <1>2, <2>1 DEF CancelBegins, With, RowNext, Revoked
<1>3. ASSUME NEW c \in Threads, NEW i \in Jobs, LegacyRequeueBegins(c, i) PROVE RowNext(j)
  <2>1. /\ mem' = With(i, IF mem[i].attempts >= MaxAttempts THEN Exhausted(mem[i]) ELSE RequeuedRow(mem[i]))
        /\ mem[i].status \in {"failed", "cancelled"} /\ (HastyRetries \/ Settled(i))
        /\ UNCHANGED <<slot, tasks>> /\ process = "up"
    BY <1>3 DEF LegacyRequeueBegins, Begins
  <2>2. CASE j # i
    BY <1>0, <2>1, <2>2 DEF With, RowNext
  <2>3. CASE j = i
    <3>1. mem'[j] = IF Spent(mem[j]) THEN Exhausted(mem[j]) ELSE RequeuedRow(mem[j])
      BY <1>0, <2>1, <2>3 DEF With, Spent
    <3> QED BY <2>1, <2>3, <3>1 DEF RowNext, Retried
  <2> QED BY <2>2, <2>3
<1>4. ASSUME NEW t \in tasks, StartRefused(t) PROVE RowNext(j)
  BY <1>0, <1>4 DEF StartRefused, With, RowNext, Spent
<1>5. ASSUME NEW t \in tasks, AttemptStarts(t) PROVE RowNext(j)
  <2> DEFINE r == mem[t.job]
             q == [r EXCEPT !.status = "running", !.attempts = r.attempts + 1, !.slot = LowestSlot]
  <2>1. r \in Row /\ r.status = "queued" /\ ~ (r.attempts >= MaxAttempts)
    BY <1>0, <1>5, RowFields DEF AttemptStarts
  <2>2. q.status = "running" /\ q.attempts = r.attempts + 1 /\ q.created = r.created
    BY <2>1 DEF Row
  <2>3. mem' = [mem EXCEPT ![t.job] = q]
    BY <1>0, <1>5 DEF AttemptStarts
  <2> HIDE DEF q
  <2> QED BY <1>0, <2>1, <2>2, <2>3 DEF RowNext, Started, Spent
<1>6. ASSUME NEW t \in tasks, RunnerReturns(t) \/ RunnerFails(t) \/ RunnerStops(t) PROVE RowNext(j)
  <2>1. t \in Executing /\ t.job \in Jobs
    BY <1>0, <1>6 DEF RunnerReturns, RunnerFails, RunnerStops, AttemptEnds, Executing
  <2>2. CASE j # t.job
    BY <1>0, <1>6, <2>1, <2>2
    DEF RunnerReturns, RunnerFails, RunnerStops, AttemptEnds, With, RowNext
  <2>3. CASE j = t.job
    BY <1>0, <1>6, <2>1, <2>3
    DEF RunnerReturns, RunnerFails, RunnerStops, AttemptEnds, With, RowNext, Finished
  <2> QED BY <2>2, <2>3
<1>7. ASSUME Shutdown PROVE RowNext(j)
  BY <1>0, <1>7 DEF Shutdown, CancelledAtShutdown, RowNext, Revoked
<1>8. ~ (Exits \/ Crashes)
  BY DEF Exits, Crashes, Gone
<1> QED
  BY <1>1, <1>2, <1>3, <1>4, <1>5, <1>6, <1>7, <1>8, HandlerRow, DoneRow, RestartRow
  DEF Next, Coroutine, Handler, Thread, TaskStep, RowNext

(* Once a job is cancelled, neither its tasks nor their callbacks nor the  *)
(* shutdown change its status: only a retry does, which leaves slots and   *)
(* tasks alone and makes the job wait, or fail when no attempt is left.    *)
THEOREM CancelSticksCorrect == Spec => CancelSticks
<1> DEFINE Sticks(j) ==
             /\ Lives /\ mem[j].status = "cancelled" /\ mem'[j].status # "cancelled"
             => /\ UNCHANGED slot
                /\ {t \in tasks : t.job = j} \subseteq tasks'
                /\ \/ mem'[j].status = "queued"
                   \/ mem'[j].status = "failed" /\ mem[j].attempts = MaxAttempts
<1>1. ASSUME TypeOK, [Next]_vars, NEW j \in Jobs PROVE Sticks(j)
  <2> SUFFICES ASSUME Lives, mem[j].status = "cancelled", mem'[j].status # "cancelled"
               PROVE  /\ UNCHANGED slot
                      /\ {t \in tasks : t.job = j} \subseteq tasks'
                      /\ \/ mem'[j].status = "queued"
                         \/ mem'[j].status = "failed" /\ mem[j].attempts = MaxAttempts
    OBVIOUS
  <2>1. mem[j] \in Row /\ mem[j].attempts \in 0..MaxAttempts
    BY <1>1, RowFields DEF TypeOK
  <2>2. RowNext(j) /\ process \notin {"stopped", "crashed"}
    BY <1>1, RowSteps DEF Lives
  <2>3. ~Finished(j)
    BY <2>1, OutcomeRow, Values DEF Finished
  <2>4. Retried(j)
    BY <2>1, <2>2, <2>3, CancelledRowIs
    DEF RowNext, Revoked, Started, NeverRan, AtStart, Terminal
  <2>5. /\ UNCHANGED slot /\ tasks \subseteq tasks'
        /\ \/ mem'[j] = RequeuedRow(mem[j])
           \/ Spent(mem[j]) /\ mem'[j] = Exhausted(mem[j])
    BY <2>4 DEF Retried
  <2>6. RequeuedRow(mem[j]).status = "queued" /\ Exhausted(mem[j]).status = "failed"
    BY <2>1, RequeuedRowIs, ExhaustedRow
  <2>7. Spent(mem[j]) => mem[j].attempts = MaxAttempts
    BY <2>1 DEF Spent
  <2> QED BY <2>5, <2>6, <2>7
<1>2. TypeOK /\ [Next]_vars => [\A j \in Jobs : Sticks(j)]_vars
  <2> HIDE DEF Sticks
  <2> QED BY <1>1
<1> QED BY <1>2, TypeCorrect, PTL DEF Spec, CancelSticks
-----------------------------------------------------------------------------
(* Jobs that were never submitted leave no trace, and every copy of a row, *)
(* stored, to be written or in a call, is a row of the same job.           *)

Known(m) == {j \in Jobs : m[j].status # "absent"}

SameJob(j, r) == r.status # "absent" /\ mem[j].status # "absent" /\ r.created = mem[j].created

Untouched ==
    \A j \in Jobs : /\ mem[j].status = "absent" => mem[j].attempts = 0 /\ handle[j] = 0
                    /\ stored[j].status = "absent" => stored[j].attempts = 0

Copies ==
    /\ \A j \in Jobs : stored[j].status # "absent" => SameJob(j, stored[j])
    /\ \A j \in Jobs : unwritten[j] # NoRow => SameJob(j, unwritten[j])
    /\ \A c \in Threads : calls[c] # Idle => SameJob(calls[c].job, calls[c].row)

(* Between processes there is nothing but the table.                       *)
Down ==
    process \in {"stopped", "crashed"} =>
        /\ mem = stored /\ tasks = {} /\ handle = [j \in Jobs |-> 0]
        /\ unwritten = [j \in Jobs |-> NoRow] /\ calls = [c \in Threads |-> Idle]

KnownInv == TasksInv /\ Untouched /\ Copies /\ Down

(* A job that was submitted keeps its place in the order.                  *)
LEMMA RowKeeps ==
  ASSUME TypeOK, NEW j \in Jobs, RowNext(j), mem[j].status # "absent"
  PROVE  mem'[j].status # "absent" /\ mem'[j].created = mem[j].created
<1>1. mem[j] \in Row
  BY DEF TypeOK
<1> DEFINE Kept == mem'[j].status # "absent" /\ mem'[j].created = mem[j].created
<1>2. ASSUME mem'[j] = Exhausted(mem[j]) PROVE Kept
  BY <1>1, <1>2, ExhaustedRow
<1>3. ASSUME Revoked(j) PROVE Kept
  BY <1>1, <1>3, CancelledRowIs DEF Revoked
<1>4. ASSUME Retried(j) PROVE Kept
  <2>1. CASE mem'[j] = RequeuedRow(mem[j])
    BY <1>1, <2>1, RequeuedRowIs
  <2>2. CASE mem[j].status = "queued" /\ mem'[j] = [mem[j] EXCEPT !.attempts = 0]
    BY <1>1, <2>2 DEF Row
  <2> QED BY <1>2, <1>4, <2>1, <2>2 DEF Retried
<1>5. ASSUME Finished(j) PROVE Kept
  <2>1. PICK v \in {"completed", "failed", "cancelled"}, w \in Reasons :
           mem'[j] = Outcome(mem[j], v, w)
    BY <1>5, Values DEF Finished
  <2> QED BY <1>1, <2>1, OutcomeRow, Values
<1>6. ASSUME NeverRan(j) PROVE Kept
  BY <1>1, <1>6, EndedRow, Values DEF NeverRan
<1>7. ASSUME AtStart(j) PROVE Kept
  <2> DEFINE r == RecoveredRow(mem[j])
  <2>1. r \in Row /\ r.status # "absent" /\ r.created = mem[j].created
    BY <1>1, RecoveredRowIs
  <2> HIDE DEF r
  <2>2. mem'[j] = r \/ mem'[j] = Exhausted(r)
    BY <1>7 DEF AtStart, r
  <2> QED BY <2>1, <2>2, ExhaustedRow
<1> QED BY <1>2, <1>3, <1>4, <1>5, <1>6, <1>7 DEF RowNext, Started

(* A job appears by being submitted only.                                  *)
LEMMA RowAppears ==
  ASSUME TasksInv, Untouched, NEW j \in Jobs, RowNext(j), mem[j].status = "absent"
  PROVE  mem'[j] = mem[j] \/ \E rank \in Nat : mem'[j] = NewRow(rank)
<1>1. mem[j] \in Row /\ handle[j] = 0 /\ \A t \in tasks : t.job # j
  BY DEF TasksInv, TypeOK, OneTask, Untouched, TaskRecord
<1>2. ~Revoked(j) /\ ~Finished(j) /\ ~Started(j) /\ ~Retried(j) /\ ~NeverRan(j)
  BY <1>1 DEF Revoked, Finished, Executing, Started, Retried, NeverRan
<1>3. AtStart(j) => mem'[j] = mem[j]
  BY <1>1, RecoveredRowIs DEF AtStart
<1> QED BY <1>2, <1>3 DEF RowNext

(* A pass of the scheduler only touches jobs that wait.                    *)
LEMMA PassedKnown ==
  ASSUME NEW S, NEW m, NEW h, NEW ts, NEW started, NEW spent, NEW m2, NEW h2, NEW ts2,
         Schedulable(S, m, h, ts), Passed(S, m, h, ts, started, spent, m2, h2, ts2),
         NEW j \in Jobs
  PROVE  /\ j \in started \cup spent => m[j].status = "queued"
         /\ m2[j].status = "absent" <=> m[j].status = "absent"
         /\ h2[j] # 0 => h[j] # 0 \/ m[j].status = "queued"
<1>1. m[j] \in Row /\ Exhausted(m[j]).status = "failed"
  BY ExhaustedRow DEF Schedulable
<1> QED BY <1>1 DEF Passed, Waiting

(* Every step leaves the jobs that are to be written, and the jobs that    *)
(* have a task, known.                                                     *)
LEMMA TouchedKnown ==
  ASSUME KnownInv, [Next]_vars, process' \in {"up", "stopping"}, NEW j \in Jobs,
         mem[j].status # "absent" => mem'[j].status # "absent"
  PROVE  /\ handle'[j] # 0 => mem'[j].status # "absent"
         /\ \/ unwritten'[j] \in {NoRow, unwritten[j]}
            \/ unwritten'[j] = mem'[j] /\ mem'[j].status # "absent"
<1>0. /\ TypeOK /\ mem \in [Jobs -> Row] /\ tasks \subseteq TaskRecord /\ handle \in [Jobs -> 0..2]
      /\ \A t \in tasks : t.job \in Jobs /\ mem[t.job].status # "absent"
      /\ \A i \in Jobs : handle[i] # 0 => mem[i].status # "absent"
  BY DEF KnownInv, TasksInv, TypeOK, OneTask, Untouched, TaskRecord
<1> DEFINE Goal == /\ handle'[j] # 0 => mem'[j].status # "absent"
                   /\ \/ unwritten'[j] \in {NoRow, unwritten[j]}
                      \/ unwritten'[j] = mem'[j] /\ mem'[j].status # "absent"
<1>1. ASSUME Handler PROVE Goal
  <2>1. PICK m, S, touched : \E started, spent \in SUBSET Jobs :
           Handled(S, m, touched, started, spent, mem', handle', tasks', unwritten')
    BY <1>0, <1>1, HandlerSteps
  <2>2. PICK started \in SUBSET Jobs, spent \in SUBSET Jobs :
           Handled(S, m, touched, started, spent, mem', handle', tasks', unwritten')
    BY <2>1
  <2>3. /\ j \in started \cup spent => m[j].status = "queued"
        /\ mem'[j].status = "absent" <=> m[j].status = "absent"
        /\ handle'[j] # 0 => handle[j] # 0 \/ m[j].status = "queued"
    BY <2>2, PassedKnown DEF Handled
  <2>4. j \in touched => m[j].status # "absent"
    BY <1>0, <2>2 DEF Handled, HandledTo, With
  <2>5. unwritten'[j] = IF j \in touched \cup started \cup spent THEN mem'[j] ELSE NoRow
    BY <2>2 DEF Handled, Writes
  <2> QED BY <1>0, <2>3, <2>4, <2>5
<1>2. ASSUME NEW t \in tasks, TaskDone(t) PROVE Goal
  <2> DEFINE h == [handle EXCEPT ![t.job] = 0]
  <2>1. /\ Schedulable(Jobs, DoneMem(t), h, tasks \ {t})
        /\ \E started, spent \in SUBSET Jobs :
              /\ Passed(Jobs, DoneMem(t), h, tasks \ {t}, started, spent, mem', handle', tasks')
              /\ \/ Writes(mem', {t.job} \cup started \cup spent, unwritten')
                 \/ UNCHANGED unwritten
    BY <1>0, <1>2, DoneSteps
  <2>2. h[j] # 0 => handle[j] # 0
    BY <1>0
  <2> HIDE DEF h
  <2>3. PICK started \in SUBSET Jobs, spent \in SUBSET Jobs :
           /\ Passed(Jobs, DoneMem(t), h, tasks \ {t}, started, spent, mem', handle', tasks')
           /\ \/ Writes(mem', {t.job} \cup started \cup spent, unwritten')
              \/ UNCHANGED unwritten
    BY <2>1
  <2>4. /\ j \in started \cup spent => DoneMem(t)[j].status = "queued"
        /\ mem'[j].status = "absent" <=> DoneMem(t)[j].status = "absent"
        /\ handle'[j] # 0 => h[j] # 0 \/ DoneMem(t)[j].status = "queued"
    BY <2>1, <2>3, PassedKnown
  <2>5. \/ unwritten'[j] = IF j \in {t.job} \cup started \cup spent THEN mem'[j] ELSE NoRow
        \/ unwritten'[j] = unwritten[j]
    BY <2>3 DEF Writes
  <2> QED BY <1>0, <2>2, <2>4, <2>5
<1>3. ASSUME Restarts PROVE Goal
  <2>1. /\ process \in {"stopped", "crashed"}
        /\ Schedulable(Jobs, Recovered, handle, tasks)
        /\ \E started, spent \in SUBSET Jobs :
              /\ Passed(Jobs, Recovered, handle, tasks, started, spent, mem', handle', tasks')
              /\ Writes(mem', {i \in Jobs : Recovered[i] # stored[i]} \cup started \cup spent,
                        unwritten')
    BY <1>0, <1>3, RestartSteps
  <2>2. PICK started \in SUBSET Jobs, spent \in SUBSET Jobs :
           /\ Passed(Jobs, Recovered, handle, tasks, started, spent, mem', handle', tasks')
           /\ Writes(mem', {i \in Jobs : Recovered[i] # stored[i]} \cup started \cup spent,
                     unwritten')
    BY <2>1
  <2>3. /\ j \in started \cup spent => Recovered[j].status = "queued"
        /\ mem'[j].status = "absent" <=> Recovered[j].status = "absent"
        /\ handle'[j] # 0 => handle[j] # 0 \/ Recovered[j].status = "queued"
    BY <2>1, <2>2, PassedKnown
  <2>4. Recovered[j] # stored[j] => Recovered[j].status # "absent"
    <3>1. mem = stored
      BY <2>1 DEF KnownInv, Down
    <3> QED BY <1>0, <3>1, RecoveredRowIs DEF Recovered
  <2>5. unwritten'[j] = IF j \in {i \in Jobs : Recovered[i] # stored[i]} \cup started \cup spent
                        THEN mem'[j] ELSE NoRow
    BY <2>2 DEF Writes
  <2> QED BY <1>0, <2>3, <2>4, <2>5
<1>4. ASSUME \/ Pause
             \/ \E c \in Threads : \/ CallWriteLands(c) \/ CancelPosts(c)
                                   \/ \E i \in Jobs : CancelBegins(c, i) \/ LegacyRequeueBegins(c, i)
             \/ \E t \in tasks : CancelRequested(t) \/ NeverStarts(t)
             \/ UNCHANGED vars
      PROVE  Goal
  <2>1. UNCHANGED <<handle, unwritten>>
    BY <1>4 DEF Pause, CallWriteLands, CancelPosts, CancelBegins, LegacyRequeueBegins,
       CancelRequested, NeverStarts, vars
  <2> QED BY <1>0, <2>1
<1>5. ASSUME NEW i \in Jobs, LoopWriteLands(i) PROVE Goal
  BY <1>0, <1>5 DEF LoopWriteLands, TypeOK
<1>6. ASSUME NEW t \in tasks,
             \/ StartRefused(t) \/ AttemptStarts(t)
             \/ RunnerReturns(t) \/ RunnerFails(t) \/ RunnerStops(t)
      PROVE  Goal
  <2>1. handle' = handle /\ (LoopWrites(mem', {t.job}) \/ UNCHANGED unwritten)
    BY <1>6 DEF StartRefused, AttemptStarts, RunnerReturns, RunnerFails, RunnerStops, AttemptEnds
  <2> QED BY <1>0, <2>1 DEF LoopWrites
<1>7. ASSUME Shutdown PROVE Goal
  <2>1. handle' = handle /\ LoopWrites(mem', CancelledAtShutdown)
    BY <1>7 DEF Shutdown
  <2> QED BY <1>0, <2>1 DEF LoopWrites, CancelledAtShutdown
<1>8. ~ (Exits \/ Crashes)
  BY DEF Exits, Crashes, Gone
<1> QED
  BY <1>1, <1>2, <1>3, <1>4, <1>5, <1>6, <1>7, <1>8
  DEF Next, Coroutine, Handler, Thread, TaskStep

(* Which steps write to the table, and what.                               *)
LEMMA StoredSteps ==
  ASSUME TypeOK, [Next]_vars, NEW j \in Jobs
  PROVE  \/ stored'[j] = stored[j]
         \/ /\ UNCHANGED mem
            /\ \/ stored'[j] = mem[j] /\ \E c \in Threads : calls[c] # Idle /\ calls[c].job = j
               \/ \E c \in Threads : calls[c] # Idle /\ calls[c].job = j /\ stored'[j] = calls[c].row
               \/ unwritten[j] # NoRow /\ stored'[j] = unwritten[j]
<1>0. stored \in [Jobs -> Row] /\ (Handler => UNCHANGED stored)
  BY HandlerSteps DEF TypeOK
<1>1. ASSUME NEW i \in Jobs, LoopWriteLands(i)
      PROVE  /\ UNCHANGED mem
             /\ stored'[j] = stored[j] \/ (unwritten[j] # NoRow /\ stored'[j] = unwritten[j])
  BY <1>0, <1>1 DEF LoopWriteLands
<1>2. ASSUME NEW c \in Threads, CallWriteLands(c)
      PROVE  /\ UNCHANGED mem
             /\ \/ stored'[j] = stored[j]
                \/ calls[c] # Idle /\ calls[c].job = j /\ stored'[j] \in {mem[j], calls[c].row}
  BY <1>0, <1>2 DEF CallWriteLands
<1>3. ASSUME \/ Pause
             \/ \E c \in Threads : \/ CancelPosts(c)
                                   \/ \E i \in Jobs : CancelBegins(c, i) \/ LegacyRequeueBegins(c, i)
             \/ \E t \in tasks : TaskStep(t)
             \/ Shutdown \/ Exits \/ Crashes \/ Restarts
             \/ UNCHANGED vars
      PROVE  UNCHANGED stored
  BY <1>3 DEF Pause, CancelPosts, CancelBegins, LegacyRequeueBegins, TaskStep, CancelRequested,
     NeverStarts, StartRefused, AttemptStarts, RunnerReturns, RunnerFails, RunnerStops,
     AttemptEnds, TaskDone, Shutdown, Exits, Crashes, Gone, Restarts, vars
<1> QED BY <1>0, <1>1, <1>2, <1>3 DEF Next, Coroutine, Handler, Thread

(* Which steps change what threads are doing.                              *)
LEMMA CallSteps ==
  ASSUME TypeOK, [Next]_vars, process' \in {"up", "stopping"}, NEW c \in Threads, calls'[c] # Idle
  PROVE  \/ calls'[c] = calls[c]
         \/ calls[c] # Idle /\ calls'[c] = [calls[c] EXCEPT !.step = "stop"] /\ calls[c] \in Call
         \/ \E j \in Jobs :
               \/ /\ CancelBegins(c, j)
                  /\ calls'[c] = [op |-> "cancel", job |-> j, step |-> "write",
                                  row |-> CancelledRow(mem[j])]
               \/ /\ LegacyRequeueBegins(c, j) /\ calls'[c] \in Call
                  /\ calls'[c].op = "requeue" /\ calls'[c].job = j /\ calls'[c].row = mem'[j]
<1>0. calls \in [Threads -> Call \cup {Idle}] /\ mem \in [Jobs -> Row]
  BY DEF TypeOK
<1>1. ASSUME NEW d \in Threads, CallWriteLands(d) \/ CancelPosts(d)
      PROVE  \/ calls'[c] = calls[c]
             \/ calls[c] # Idle /\ calls'[c] = [calls[c] EXCEPT !.step = "stop"] /\ calls[c] \in Call
  BY <1>0, <1>1 DEF CallWriteLands, CancelPosts
<1>2. ASSUME NEW d \in Threads, NEW j \in Jobs, CancelBegins(d, j), c # d
      PROVE  calls'[c] = calls[c]
  BY <1>0, <1>2 DEF CancelBegins, Begins
<1>3. ASSUME NEW j \in Jobs, CancelBegins(c, j)
      PROVE  calls'[c] = [op |-> "cancel", job |-> j, step |-> "write", row |-> CancelledRow(mem[j])]
  BY <1>0, <1>3 DEF CancelBegins, Begins
<1>4. ASSUME NEW d \in Threads, NEW j \in Jobs, LegacyRequeueBegins(d, j), c # d
      PROVE  calls'[c] = calls[c]
  BY <1>0, <1>4 DEF LegacyRequeueBegins, Begins
<1>5. ASSUME NEW j \in Jobs, LegacyRequeueBegins(c, j)
      PROVE  /\ calls'[c] \in Call
             /\ calls'[c].op = "requeue" /\ calls'[c].job = j /\ calls'[c].row = mem'[j]
  <2> DEFINE r == IF mem[j].attempts >= MaxAttempts THEN Exhausted(mem[j]) ELSE RequeuedRow(mem[j])
  <2>1. /\ calls' = [calls EXCEPT ![c] = [op |-> "requeue", job |-> j, step |-> "write", row |-> r]]
        /\ mem' = [mem EXCEPT ![j] = r]
    BY <1>5 DEF LegacyRequeueBegins, Begins, With
  <2>2. r \in Row
    BY <1>0, ExhaustedRow, RequeuedRowIs
  <2> HIDE DEF r
  <2> QED BY <1>0, <2>1, <2>2 DEF Call
<1>6. ASSUME \/ Pause \/ Handler \/ Shutdown \/ Restarts
             \/ \E i \in Jobs : LoopWriteLands(i)
             \/ \E t \in tasks : TaskStep(t)
             \/ UNCHANGED vars
      PROVE  UNCHANGED calls
  BY <1>6, HandlerSteps DEF Pause, Shutdown, Restarts, LoopWriteLands, TaskStep, CancelRequested,
     NeverStarts, StartRefused, AttemptStarts, RunnerReturns, RunnerFails, RunnerStops,
     AttemptEnds, TaskDone, vars
<1>7. ~ (Exits \/ Crashes)
  BY DEF Exits, Crashes, Gone
<1>8. CASE \E d \in Threads : Thread(d)
  <2>1. PICK d \in Threads : Thread(d)
    BY <1>8
  <2>2. CASE \E j \in Jobs : CancelBegins(d, j) \/ LegacyRequeueBegins(d, j)
    BY <1>2, <1>3, <1>4, <1>5, <2>2
  <2>3. CASE CallWriteLands(d) \/ CancelPosts(d)
    BY <1>1, <2>3
  <2> QED BY <2>1, <2>2, <2>3 DEF Thread
<1> QED BY <1>6, <1>7, <1>8 DEF Next, Coroutine, Handler

LEMMA StepKnownInv == KnownInv /\ [Next]_vars => KnownInv'
<1> SUFFICES ASSUME KnownInv, [Next]_vars PROVE KnownInv'
  OBVIOUS
<1>0. /\ TypeOK /\ TypeOK' /\ TasksInv /\ TasksInv' /\ Untouched /\ Copies /\ Down
      /\ mem \in [Jobs -> Row] /\ stored \in [Jobs -> Row]
  BY StepTasksInv DEF KnownInv, TasksInv, TypeOK
<1>1. CASE process' \in {"up", "stopping"}
  <2>1. ASSUME NEW j \in Jobs, mem[j].status # "absent"
        PROVE  mem'[j].status # "absent" /\ mem'[j].created = mem[j].created
    BY <1>0, <1>1, <2>1, RowSteps, RowKeeps
  <2>2. ASSUME NEW j \in Jobs, mem[j].status = "absent"
        PROVE  mem'[j].status = "absent" => mem'[j].attempts = 0
    <3>1. mem'[j] = mem[j] \/ \E rank \in Nat : mem'[j] = NewRow(rank)
      BY <1>0, <1>1, <2>2, RowSteps, RowAppears
    <3> QED BY <1>0, <2>2, <3>1, NewRowIs DEF Untouched
  <2>3. ASSUME NEW j \in Jobs
        PROVE  /\ handle'[j] # 0 => mem'[j].status # "absent"
               /\ \/ unwritten'[j] \in {NoRow, unwritten[j]}
                  \/ unwritten'[j] = mem'[j] /\ mem'[j].status # "absent"
    <3>1. mem[j].status # "absent" => mem'[j].status # "absent"
      BY <2>1
    <3> QED BY <1>1, <3>1, TouchedKnown
  <2>4. ASSUME NEW j \in Jobs, NEW r, SameJob(j, r)
        PROVE  r.status # "absent" /\ mem'[j].status # "absent" /\ r.created = mem'[j].created
    BY <2>1, <2>4 DEF SameJob
  <2>5. ASSUME NEW j \in Jobs, stored'[j].status # "absent"
        PROVE  /\ mem'[j].status # "absent" /\ stored'[j].created = mem'[j].created
    <3>1. CASE stored'[j] = stored[j]
      BY <2>4, <2>5, <3>1, <1>0 DEF Copies
    <3>2. CASE stored'[j] = mem[j]
      BY <2>1, <2>5, <3>2
    <3>3. CASE \E c \in Threads : calls[c] # Idle /\ calls[c].job = j /\ stored'[j] = calls[c].row
      BY <1>0, <2>4, <3>3 DEF Copies
    <3>4. CASE unwritten[j] # NoRow /\ stored'[j] = unwritten[j]
      BY <1>0, <2>4, <3>4 DEF Copies
    <3> QED BY <1>0, <3>1, <3>2, <3>3, <3>4, StoredSteps
  <2>6. ASSUME NEW j \in Jobs, stored'[j].status = "absent" PROVE stored'[j].attempts = 0
    <3>1. CASE stored'[j] = stored[j]
      BY <1>0, <2>6, <3>1 DEF Untouched
    <3>2. CASE stored'[j] = mem[j]
      BY <1>0, <2>6, <3>2 DEF Untouched
    <3>3. CASE \E c \in Threads : calls[c] # Idle /\ calls[c].job = j /\ stored'[j] = calls[c].row
      BY <1>0, <2>6, <3>3 DEF Copies, SameJob
    <3>4. CASE unwritten[j] # NoRow /\ stored'[j] = unwritten[j]
      BY <1>0, <2>6, <3>4 DEF Copies, SameJob
    <3> QED BY <1>0, <3>1, <3>2, <3>3, <3>4, StoredSteps
  <2>7. ASSUME NEW j \in Jobs, unwritten'[j] # NoRow PROVE SameJob(j, unwritten[j])' 
    BY <1>0, <2>3, <2>4, <2>7 DEF Copies, SameJob
  <2>8. ASSUME NEW c \in Threads, calls'[c] # Idle PROVE SameJob(calls[c].job, calls[c].row)'
    <3> DEFINE j == calls'[c].job
               r == calls'[c].row
    <3>1. CASE calls[c] # Idle /\ (calls'[c] = calls[c] \/ (calls'[c] = [calls[c] EXCEPT !.step = "stop"]
                                                      /\ calls[c] \in Call))
      <4>1. j = calls[c].job /\ r = calls[c].row /\ j \in Jobs
        BY <1>0, <3>1 DEF Call, TypeOK
      <4> QED BY <1>0, <2>4, <3>1, <4>1 DEF Copies, SameJob
    <3>2. ASSUME NEW i \in Jobs, CancelBegins(c, i),
                 calls'[c] = [op |-> "cancel", job |-> i, step |-> "write",
                              row |-> CancelledRow(mem[i])]
          PROVE  SameJob(calls[c].job, calls[c].row)'
      <4>1. j = i /\ r = CancelledRow(mem[i]) /\ mem[i].status # "absent"
        BY <3>2 DEF CancelBegins
      <4> QED BY <1>0, <2>1, <4>1, CancelledRowIs DEF SameJob
    <3>3. ASSUME NEW i \in Jobs, LegacyRequeueBegins(c, i), calls'[c].job = i, calls'[c].row = mem'[i]
          PROVE  SameJob(calls[c].job, calls[c].row)'
      <4>1. mem[i].status # "absent"
        BY <3>3 DEF LegacyRequeueBegins
      <4> QED BY <2>1, <3>3, <4>1 DEF SameJob
    <3> QED BY <1>0, <1>1, <2>8, <3>1, <3>2, <3>3, CallSteps
  <2>9. Untouched'
    BY <2>1, <2>2, <2>3, <2>6 DEF Untouched
  <2>10. Copies'
    BY <2>5, <2>7, <2>8 DEF Copies, SameJob
  <2>11. Down'
    BY <1>1 DEF Down
  <2> QED BY <1>0, <2>9, <2>10, <2>11 DEF KnownInv
<1>2. CASE process' \notin {"up", "stopping"}
  <2>1. CASE UNCHANGED <<mem, stored, unwritten, handle, tasks, calls, process>>
    BY <1>0, <2>1 DEF KnownInv, Untouched, Copies, Down, SameJob
  <2>2. CASE \E how \in {"stopped", "crashed"} : Gone(how)
    <3>1. /\ mem' = stored /\ stored' = stored /\ tasks' = {}
          /\ unwritten' = [j \in Jobs |-> NoRow] /\ handle' = [j \in Jobs |-> 0]
          /\ calls' = [c \in Threads |-> Idle]
      BY <2>2 DEF Gone
    <3>2. Untouched' /\ Copies' /\ Down'
      BY <1>0, <3>1 DEF Untouched, Copies, Down, SameJob
    <3> QED BY <1>0, <3>2 DEF KnownInv
  <2>3. CASE process \in {"stopped", "crashed"} /\ process' = process
    <3>1. /\ tasks = {} /\ \A j \in Jobs : unwritten[j] = NoRow
          /\ \A c \in Threads : calls[c] = Idle
      BY <1>0, <2>3 DEF Down
    <3>2. ~Handler /\ ~Shutdown /\ ~Pause /\ ~Restarts /\ ~Exits /\ ~Crashes
      BY <1>0, <2>3, HandlerSteps DEF Shutdown, Pause, Restarts, Exits, Crashes
    <3>3. \A c \in Threads : ~Thread(c)
      BY <2>3, <3>1 DEF Thread, CancelBegins, LegacyRequeueBegins, Begins, CallWriteLands, CancelPosts
    <3>4. \A j \in Jobs : ~LoopWriteLands(j)
      BY <3>1 DEF LoopWriteLands
    <3>5. UNCHANGED vars
      BY <3>1, <3>2, <3>3, <3>4 DEF Next, Coroutine, Handler
    <3> QED BY <2>1, <3>5 DEF vars
  <2>4. process' \in {"stopped", "crashed"} => process' = process \/ \E how \in {"stopped", "crashed"} : Gone(how)
    <3>1. ASSUME \/ Pause \/ Handler \/ \E c \in Threads : Thread(c)
                 \/ \E j \in Jobs : LoopWriteLands(j)
                 \/ \E t \in tasks : TaskStep(t)
                 \/ UNCHANGED vars
          PROVE  process' = process
      BY <1>0, <3>1, HandlerSteps
      DEF Pause, Thread, CancelBegins, LegacyRequeueBegins, CallWriteLands, CancelPosts,
          LoopWriteLands, TaskStep, CancelRequested, NeverStarts, StartRefused, AttemptStarts,
          RunnerReturns, RunnerFails, RunnerStops, AttemptEnds, TaskDone, vars
    <3>2. Exits \/ Crashes => \E how \in {"stopped", "crashed"} : Gone(how)
      BY DEF Exits, Crashes
    <3>3. Shutdown \/ Restarts => process' \in {"stopping", "up"}
      BY DEF Shutdown, Restarts
    <3> QED BY <3>1, <3>2, <3>3 DEF Next, Coroutine, Handler
  <2> QED BY <1>0, <1>2, <2>2, <2>3, <2>4 DEF TypeOK
<1> QED BY <1>1, <1>2

LEMMA InitKnownInv == Init => KnownInv
BY InitTasksInv, AbsentRowIs DEF Init, KnownInv, Untouched, Copies, Down
-----------------------------------------------------------------------------
(* Patient retries: a job is only retried once nothing of its last attempt *)
(* is left.                                                                *)

Cancelling(j) ==
    \E c \in Threads : calls[c] # Idle /\ calls[c].op = "cancel" /\ calls[c].job = j

(* What a task t of a job with status s shows of its job.                  *)
InStep(t, s) ==
    /\ t.phase = "ready" => s \in {"queued", "cancelled"} /\ ~t.revoked
    /\ t.phase = "running" => s \in {"running", "cancelled"}
    /\ t.phase = "running" /\ t.revoked => s = "cancelled"
    /\ t.cancel # "no" \/ t.cancelled => s # "queued"

(* A task that has been told to stop, or whose job is being cancelled,     *)
(* belongs to a job that does not wait for an attempt.                     *)
Patient(m, ts) ==
    /\ \A t \in ts : InStep(t, m[t.job].status)
    /\ \A j \in Jobs : Cancelling(j) => m[j].status # "queued"

(* Only a cancellation goes on to stop the job's task.                     *)
StopsCancel ==
    \A c \in Threads : calls[c] # Idle /\ calls[c].step = "stop" => calls[c].op = "cancel"

PatientInv == KnownInv /\ StopsCancel /\ Patient(mem, tasks)

LEMMA StepStopsCancel ==
  ASSUME TypeOK, StopsCancel, [Next]_vars
  PROVE  StopsCancel'
<1>0. calls \in [Threads -> Call \cup {Idle}]
  BY DEF TypeOK
<1>1. ASSUME NEW c \in Threads, CallWriteLands(c) PROVE StopsCancel'
  <2>1. calls[c] # Idle /\ calls[c] \in Call /\ \A d \in Threads \ {c} : calls'[d] = calls[d]
    BY <1>0, <1>1 DEF CallWriteLands
  <2>2. \/ calls'[c] = Idle
        \/ calls[c].op = "cancel" /\ calls'[c] = [calls[c] EXCEPT !.step = "stop"]
    BY <1>0, <1>1 DEF CallWriteLands
  <2>3. calls'[c] # Idle => calls'[c].op = "cancel"
    BY <2>1, <2>2 DEF Call
  <2> QED BY <2>1, <2>3 DEF StopsCancel
<1>2. ASSUME NEW c \in Threads, CancelPosts(c) PROVE StopsCancel'
  BY <1>0, <1>2 DEF CancelPosts, StopsCancel
<1>3. ASSUME NEW c \in Threads, NEW j \in Jobs, CancelBegins(c, j) \/ LegacyRequeueBegins(c, j)
      PROVE  StopsCancel'
  <2>1. \E op \in {"cancel", "requeue"} : \E r :
            calls' = [calls EXCEPT ![c] = [op |-> op, job |-> j, step |-> "write", row |-> r]]
    BY <1>3 DEF CancelBegins, LegacyRequeueBegins, Begins
  <2>2. (\A d \in Threads \ {c} : calls'[d] = calls[d]) /\ calls'[c].step = "write"
    BY <1>0, <2>1
  <2> QED BY <2>2 DEF StopsCancel
<1>4. ASSUME \/ Pause \/ Handler \/ Shutdown \/ Restarts
             \/ \E i \in Jobs : LoopWriteLands(i)
             \/ \E t \in tasks : TaskStep(t)
             \/ UNCHANGED vars
      PROVE  StopsCancel'
  <2>1. UNCHANGED calls
    BY <1>4, HandlerSteps DEF Pause, Shutdown, Restarts, LoopWriteLands, TaskStep, CancelRequested,
       NeverStarts, StartRefused, AttemptStarts, RunnerReturns, RunnerFails, RunnerStops,
       AttemptEnds, TaskDone, vars
  <2> QED BY <2>1 DEF StopsCancel
<1>5. ASSUME Exits \/ Crashes PROVE StopsCancel'
  BY <1>5 DEF Exits, Crashes, Gone, StopsCancel
<1> QED BY <1>1, <1>2, <1>3, <1>4, <1>5 DEF Next, Coroutine, Handler, Thread

LEMMA PassedPatient ==
  ASSUME NEW S, NEW m, NEW h, NEW ts, NEW started, NEW spent, NEW m2, NEW h2, NEW ts2,
         Schedulable(S, m, h, ts), Passed(S, m, h, ts, started, spent, m2, h2, ts2),
         OneTask(h, ts), Patient(m, ts)
  PROVE  Patient(m2, ts2)
<1>1. /\ \A j \in started \cup spent : m[j].status = "queued" /\ h[j] = 0 /\ j \in Jobs
      /\ \A j \in started : m2[j] = m[j]
      /\ \A j \in Jobs : m2[j] = m[j] \/ (j \in spent /\ m2[j].status = "failed")
  <2>1. \A j \in Jobs : m[j] \in Row /\ Exhausted(m[j]).status = "failed"
    BY ExhaustedRow DEF Schedulable
  <2> QED BY <2>1 DEF Passed, Waiting, Schedulable, Row
<1>2. ASSUME NEW t \in ts PROVE InStep(t, m2[t.job].status)
  <2>1. t.job \in Jobs /\ t.job \notin spent
    BY <1>1 DEF OneTask, Schedulable, TaskRecord
  <2>2. m2[t.job] = m[t.job]
    BY <1>1, <2>1
  <2> QED BY <2>2 DEF Patient
<1>3. ASSUME NEW j \in started PROVE InStep(NewTask(j, ts), m2[j].status) /\ NewTask(j, ts).job = j
  BY <1>1 DEF InStep, NewTask
<1>4. ASSUME NEW t \in ts2 PROVE InStep(t, m2[t.job].status)
  <2>1. ts2 = ts \cup {NewTask(j, ts) : j \in started}
    BY DEF Passed
  <2>2. CASE t \in ts
    BY <1>2, <2>2
  <2>3. ASSUME NEW j \in started, t = NewTask(j, ts) PROVE InStep(t, m2[t.job].status)
    BY <1>3, <2>3
  <2> QED BY <2>1, <2>2, <2>3
<1>5. ASSUME NEW j \in Jobs, Cancelling(j) PROVE m2[j].status # "queued"
  BY <1>1, <1>5 DEF Patient
<1> QED BY <1>4, <1>5 DEF Patient

LEMMA StepPatientInv ==
  ASSUME ~HastyRetries, PatientInv, [Next]_vars
  PROVE  PatientInv'
<1>0. /\ KnownInv /\ KnownInv' /\ TasksInv /\ TypeOK /\ OneTask(handle, tasks) /\ Patient(mem, tasks)
      /\ mem \in [Jobs -> Row] /\ calls \in [Threads -> Call \cup {Idle}]
      /\ handle \in [Jobs -> 0..2]
      /\ tasks \subseteq TaskRecord /\ \A t \in tasks : t.job \in Jobs /\ handle[t.job] # 0
  BY StepKnownInv DEF PatientInv, KnownInv, TasksInv, TypeOK, OneTask, TaskRecord
<1>a. \A s, t \in tasks : s.job = t.job => s = t
  BY <1>0 DEF OneTask
<1>b. \A c \in Threads : calls[c] # Idle => calls[c].job \in Jobs /\ mem[calls[c].job].status # "absent"
  BY <1>0 DEF KnownInv, Copies, SameJob, Call
<1>c. \A j \in Jobs : mem[j].status = "absent" => handle[j] = 0
  BY <1>0 DEF KnownInv, Untouched
<1> DEFINE Goal == /\ \A t \in tasks' : InStep(t, mem'[t.job].status)
                   /\ \A j \in Jobs : Cancelling(j)' => mem'[j].status # "queued"
<1>d. ASSUME UNCHANGED calls, Patient(mem', tasks') PROVE Goal
  BY <1>d DEF Patient, Cancelling
<1>1. ASSUME Handler PROVE Goal
  <2>1. UNCHANGED calls
    BY <1>0, <1>1, HandlerSteps
  <2>2. PICK m, S, touched : \E started, spent \in SUBSET Jobs :
           Handled(S, m, touched, started, spent, mem', handle', tasks', unwritten')
    BY <1>0, <1>1, HandlerSteps
  <2>3. PICK started \in SUBSET Jobs, spent \in SUBSET Jobs :
           Handled(S, m, touched, started, spent, mem', handle', tasks', unwritten')
    BY <2>2
  <2>4. ASSUME NEW j \in Jobs, m[j] # mem[j] PROVE handle[j] = 0 /\ ~Cancelling(j)
    <3>1. PICK k \in Jobs, q \in Row : m = With(k, q) /\ ByHandler(k, q)
      BY <2>3, <2>4 DEF Handled, HandledTo
    <3>2. k = j
      BY <1>0, <2>4, <3>1 DEF With
    <3>3. mem[j].status = "absent" \/ Settled(j)
      BY <3>1, <3>2 DEF ByHandler
    <3> QED BY <1>b, <1>c, <3>3 DEF Settled, Cancelling
  <2>5. Patient(m, tasks)
    BY <1>0, <2>4 DEF Patient
  <2>6. Patient(mem', tasks')
    BY <1>0, <2>3, <2>5, PassedPatient DEF Handled
  <2> QED BY <1>d, <2>1, <2>6
<1>2. ASSUME NEW t \in tasks, TaskDone(t) PROVE Goal
  <2> DEFINE h == [handle EXCEPT ![t.job] = 0]
  <2>1. /\ UNCHANGED calls
        /\ Schedulable(Jobs, DoneMem(t), h, tasks \ {t})
        /\ \E started, spent \in SUBSET Jobs :
              Passed(Jobs, DoneMem(t), h, tasks \ {t}, started, spent, mem', handle', tasks')
    BY <1>0, <1>2, DoneSteps
  <2>2. OneTask(h, tasks \ {t})
    BY <1>0 DEF OneTask
  <2>3. DoneMem(t) = mem
    BY <1>0 DEF DoneMem, Patient, InStep
  <2>4. Patient(DoneMem(t), tasks \ {t})
    BY <1>0, <2>3 DEF Patient
  <2> HIDE DEF h
  <2>5. Patient(mem', tasks')
    BY <2>1, <2>2, <2>4, PassedPatient
  <2> QED BY <1>d, <2>1, <2>5
<1>3. ASSUME Restarts PROVE Goal
  <2>1. /\ process \in {"stopped", "crashed"} /\ UNCHANGED calls
        /\ Schedulable(Jobs, Recovered, handle, tasks)
        /\ \E started, spent \in SUBSET Jobs :
              Passed(Jobs, Recovered, handle, tasks, started, spent, mem', handle', tasks')
    BY <1>0, <1>3, RestartSteps
  <2>2. tasks = {} /\ \A c \in Threads : calls[c] = Idle
    BY <1>0, <2>1 DEF KnownInv, Down
  <2>3. Patient(Recovered, tasks)
    BY <2>2 DEF Patient, Cancelling
  <2>4. Patient(mem', tasks')
    BY <1>0, <2>1, <2>3, PassedPatient
  <2> QED BY <1>d, <2>1, <2>4
<1>4. ASSUME \/ Pause \/ \E j \in Jobs : LoopWriteLands(j)
             \/ UNCHANGED vars
      PROVE  Goal
  <2>1. UNCHANGED <<mem, tasks, calls>>
    BY <1>4 DEF Pause, LoopWriteLands, vars
  <2> QED BY <1>0, <1>d, <2>1
<1>5. ASSUME NEW c \in Threads, CallWriteLands(c) PROVE Goal
  <2>1. UNCHANGED <<mem, tasks>> /\ calls[c] # Idle /\ calls[c] \in Call
    BY <1>0, <1>5 DEF CallWriteLands
  <2>2. ASSUME NEW j \in Jobs, Cancelling(j)' PROVE Cancelling(j)
    <3>1. PICK d \in Threads : calls'[d] # Idle /\ calls'[d].op = "cancel" /\ calls'[d].job = j
      BY <2>2 DEF Cancelling
    <3>2. calls[d] # Idle /\ calls[d].op = "cancel" /\ calls[d].job = j
      BY <1>0, <1>5, <2>1, <3>1 DEF CallWriteLands, Call
    <3> QED BY <3>2 DEF Cancelling
  <2> QED BY <1>0, <2>1, <2>2 DEF Patient
<1>6. ASSUME NEW c \in Threads, CancelPosts(c) PROVE Goal
  <2>1. /\ UNCHANGED mem /\ calls[c] # Idle /\ calls[c] \in Call
        /\ calls' = [calls EXCEPT ![c] = Idle]
    BY <1>0, <1>6 DEF CancelPosts
  <2>2. ASSUME NEW j \in Jobs, Cancelling(j)' PROVE mem'[j].status # "queued"
    BY <1>0, <2>1, <2>2 DEF Cancelling, Patient
  <2>3. ASSUME NEW u \in tasks' PROVE InStep(u, mem'[u.job].status)
    <3>1. PICK t \in tasks : u = IF t \in Tracked(handle, tasks) /\ t.job = calls[c].job /\ t.cancel = "no"
                                 THEN [t EXCEPT !.cancel = "posted"] ELSE t
      BY <1>6 DEF CancelPosts
    <3>2. InStep(t, mem[t.job].status)
      BY <1>0 DEF Patient
    <3>3. CASE u = t
      BY <2>1, <3>2, <3>3
    <3>4. CASE u = [t EXCEPT !.cancel = "posted"] /\ t.job = calls[c].job
      <4>1. /\ u.job = t.job /\ u.phase = t.phase /\ u.revoked = t.revoked
            /\ u.cancelled = t.cancelled
        BY <1>0, <3>4 DEF TaskRecord
      <4>2. mem[t.job].status # "queued"
        <5>1. t.job \in Jobs
          BY <1>0
        <5>2. calls[c].op = "cancel"
          BY <1>6, <2>1 DEF CancelPosts, PatientInv, StopsCancel
        <5> QED BY <1>0, <2>1, <3>4, <5>1, <5>2 DEF Patient, Cancelling
      <4> QED BY <2>1, <3>2, <4>1, <4>2 DEF InStep
    <3> QED BY <3>1, <3>3, <3>4
  <2> QED BY <2>2, <2>3
<1>7. ASSUME NEW c \in Threads, NEW j \in Jobs, CancelBegins(c, j) PROVE Goal
  <2>1. /\ mem' = With(j, CancelledRow(mem[j]))
        /\ calls' = [calls EXCEPT ![c] = [op |-> "cancel", job |-> j, step |-> "write",
                                          row |-> CancelledRow(mem[j])]]
    BY <1>7 DEF CancelBegins, Begins
  <2>2. mem'[j].status = "cancelled" /\ \A i \in Jobs \ {j} : mem'[i] = mem[i]
    BY <1>0, <2>1, CancelledRowIs DEF With
  <2>3. ASSUME NEW i \in Jobs, Cancelling(i)' PROVE mem'[i].status # "queued"
    <3>1. CASE i = j
      BY <2>2, <3>1
    <3>2. CASE i # j
      <4>1. PICK d \in Threads : calls'[d] # Idle /\ calls'[d].op = "cancel" /\ calls'[d].job = i
        BY <2>3 DEF Cancelling
      <4>2. calls'[d] = calls[d]
        BY <1>0, <2>1, <3>2, <4>1
      <4> QED BY <1>0, <2>2, <3>2, <4>1, <4>2 DEF Cancelling, Patient
    <3> QED BY <3>1, <3>2
  <2>4. ASSUME NEW u \in tasks' PROVE InStep(u, mem'[u.job].status)
    <3>1. PICK t \in tasks : u = [t EXCEPT !.revoked = t.revoked \/ (t.job = j /\ t.phase = "running")]
      BY <1>7 DEF CancelBegins
    <3>2. InStep(t, mem[t.job].status) /\ t \in TaskRecord
      BY <1>0 DEF Patient
    <3>3. /\ u.job = t.job /\ u.phase = t.phase /\ u.cancel = t.cancel /\ u.cancelled = t.cancelled
          /\ u.revoked <=> t.revoked \/ (t.job = j /\ t.phase = "running")
      BY <3>1, <3>2 DEF TaskRecord
    <3>4. CASE t.job = j
      BY <2>2, <3>2, <3>3, <3>4 DEF InStep
    <3>5. CASE t.job # j
      BY <1>0, <2>2, <3>2, <3>3, <3>5 DEF InStep
    <3> QED BY <3>4, <3>5
  <2> QED BY <2>3, <2>4
<1>8. ASSUME NEW c \in Threads, NEW j \in Jobs, LegacyRequeueBegins(c, j) PROVE Goal
  <2>1. /\ Settled(j) /\ UNCHANGED tasks
        /\ \A i \in Jobs \ {j} : mem'[i] = mem[i]
        /\ \A d \in Threads \ {c} : calls'[d] = calls[d]
        /\ calls'[c].op = "requeue"
    BY <1>0, <1>8 DEF LegacyRequeueBegins, Begins, With
  <2>2. ASSUME NEW i \in Jobs, Cancelling(i)' PROVE i # j /\ Cancelling(i)
    BY <2>1, <2>2 DEF Cancelling, Settled
  <2>3. \A t \in tasks : t.job # j
    BY <1>0, <2>1 DEF Settled
  <2> QED BY <1>0, <2>1, <2>2, <2>3 DEF Patient
<1>9. ASSUME NEW t \in tasks, CancelRequested(t) \/ NeverStarts(t) PROVE Goal
  <2>1. UNCHANGED <<mem, calls>>
    BY <1>9 DEF CancelRequested, NeverStarts
  <2>2. InStep(t, mem[t.job].status) /\ t \in TaskRecord
    BY <1>0 DEF Patient
  <2>3. PICK u : tasks' = Replaced(t, u) /\ u.job = t.job /\ InStep(u, mem[t.job].status)
    <3>1. CASE CancelRequested(t)
      <4>1. PICK d \in {"no", "requested"} : tasks' = Replaced(t, [t EXCEPT !.cancel = d])
        BY <3>1 DEF CancelRequested
      <4> DEFINE u == [t EXCEPT !.cancel = d]
      <4>2. /\ u.job = t.job /\ u.phase = t.phase /\ u.revoked = t.revoked
            /\ u.cancelled = t.cancelled /\ u.cancel = d
        BY <2>2 DEF TaskRecord
      <4>3. t.cancel = "posted"
        BY <3>1 DEF CancelRequested
      <4> HIDE DEF u
      <4>4. InStep(u, mem[t.job].status)
        BY <2>2, <4>2, <4>3 DEF InStep
      <4> QED BY <4>1, <4>2, <4>4 DEF u
    <3>2. CASE NeverStarts(t)
      <4> DEFINE u == [t EXCEPT !.phase = "done", !.cancelled = TRUE]
      <4>1. u.job = t.job /\ u.phase = "done" /\ u.cancel = t.cancel /\ t.cancel = "requested"
        BY <2>2, <3>2 DEF TaskRecord, NeverStarts
      <4>2. tasks' = Replaced(t, u)
        BY <3>2 DEF NeverStarts
      <4> HIDE DEF u
      <4> QED BY <2>2, <4>1, <4>2 DEF InStep
    <3> QED BY <1>9, <3>1, <3>2
  <2>4. Patient(mem', tasks')
    BY <1>0, <2>1, <2>3 DEF Patient, Replaced
  <2> QED BY <1>d, <2>1, <2>4
<1>10. ASSUME NEW t \in tasks,
              \/ StartRefused(t) \/ AttemptStarts(t)
              \/ RunnerReturns(t) \/ RunnerFails(t) \/ RunnerStops(t)
       PROVE  Goal
  <2>1. InStep(t, mem[t.job].status) /\ t \in TaskRecord /\ t.job \in Jobs /\ mem[t.job] \in Row
    BY <1>0 DEF Patient
  <2>2. /\ UNCHANGED calls /\ \A j \in Jobs \ {t.job} : mem'[j] = mem[j]
        /\ \E p \in {"running", "done"} : tasks' = Replaced(t, [t EXCEPT !.phase = p])
    BY <1>0, <1>10 DEF StartRefused, AttemptStarts, RunnerReturns, RunnerFails, RunnerStops,
       AttemptEnds, With
  <2>3. PICK p \in {"running", "done"} : tasks' = Replaced(t, [t EXCEPT !.phase = p])
    BY <2>2
  <2> DEFINE u == [t EXCEPT !.phase = p]
  <2>4. /\ u.job = t.job /\ u.phase = p /\ u.revoked = t.revoked
        /\ u.cancelled = t.cancelled /\ u.cancel = t.cancel
    BY <2>1 DEF TaskRecord
  <2> HIDE DEF u
  <2>5. InStep(u, mem'[t.job].status) /\ (mem'[t.job].status = "queued" => mem[t.job].status = "queued")
    <3>1. CASE StartRefused(t)
      <4>1. tasks' = Replaced(t, [t EXCEPT !.phase = "done"])
        BY <3>1 DEF StartRefused
      <4>2. mem'[t.job] = mem[t.job] \/ mem'[t.job] = Exhausted(mem[t.job])
        BY <1>0, <2>1, <3>1 DEF StartRefused, With
      <4>3. p = "done"
        <5>1. [t EXCEPT !.phase = "done"] \in tasks'
          BY <4>1 DEF Replaced
        <5>2. [t EXCEPT !.phase = "done"] = u \/ [t EXCEPT !.phase = "done"] \in tasks \ {t}
          BY <2>3, <5>1 DEF Replaced, u
        <5>3. [t EXCEPT !.phase = "done"].job = t.job /\ [t EXCEPT !.phase = "done"].phase = "done"
          BY <2>1 DEF TaskRecord
        <5> QED BY <1>a, <2>4, <5>2, <5>3
      <4> QED BY <2>1, <2>4, <4>2, <4>3, ExhaustedRow DEF InStep
    <3>2. CASE AttemptStarts(t)
      <4>1. /\ t.phase = "ready" /\ mem[t.job].status = "queued"
            /\ mem'[t.job].status = "running"
        BY <1>0, <2>1, <3>2 DEF AttemptStarts, Row
      <4> QED BY <2>1, <2>4, <4>1 DEF InStep
    <3>3. CASE RunnerReturns(t) \/ RunnerFails(t) \/ RunnerStops(t)
      <4>1. PICK v \in {"completed", "failed", "cancelled"}, w \in Reasons : AttemptEnds(t, v, w)
        BY <3>3, Values DEF RunnerReturns, RunnerFails, RunnerStops
      <4>2. mem'[t.job] = Outcome(mem[t.job], v, w) /\ tasks' = Replaced(t, [t EXCEPT !.phase = "done"])
        BY <1>0, <2>1, <4>1 DEF AttemptEnds, With
      <4>3. mem'[t.job].status # "queued"
        BY <2>1, <4>2, OutcomeRow, Values
      <4>4. p = "done"
        <5>1. [t EXCEPT !.phase = "done"] \in tasks'
          BY <4>2 DEF Replaced
        <5>2. [t EXCEPT !.phase = "done"] = u \/ [t EXCEPT !.phase = "done"] \in tasks \ {t}
          BY <2>3, <5>1 DEF Replaced, u
        <5>3. [t EXCEPT !.phase = "done"].job = t.job /\ [t EXCEPT !.phase = "done"].phase = "done"
          BY <2>1 DEF TaskRecord
        <5> QED BY <1>a, <2>4, <5>2, <5>3
      <4> QED BY <2>4, <4>3, <4>4 DEF InStep
    <3> QED BY <1>10, <3>1, <3>2, <3>3
  <2>6. \A s \in tasks' : s = u \/ (s \in tasks /\ s.job # t.job)
    BY <1>a, <2>3 DEF Replaced, u
  <2>7. ASSUME NEW s \in tasks' PROVE InStep(s, mem'[s.job].status)
    <3>1. CASE s = u
      BY <2>4, <2>5, <3>1
    <3>2. CASE s \in tasks /\ s.job # t.job
      BY <1>0, <2>2, <3>2 DEF Patient
    <3> QED BY <2>6, <3>1, <3>2
  <2>8. ASSUME NEW j \in Jobs, Cancelling(j) PROVE mem'[j].status # "queued"
    BY <1>0, <2>2, <2>5, <2>8 DEF Patient
  <2> QED BY <1>d, <2>2, <2>7, <2>8 DEF Patient
<1>11. ASSUME Shutdown PROVE Goal
  <2>1. UNCHANGED calls /\ \A c \in Threads : calls[c] = Idle
    BY <1>11 DEF Shutdown
  <2>2. ASSUME NEW j \in Jobs
        PROVE  IF j \in CancelledAtShutdown THEN mem'[j].status = "cancelled" ELSE mem'[j] = mem[j]
    BY <1>0, <1>11, CancelledRowIs DEF Shutdown
  <2>3. ASSUME NEW u \in tasks' PROVE InStep(u, mem'[u.job].status)
    <3>1. PICK t \in tasks : u = IF t.job \in CancelledAtShutdown /\ t \in Tracked(handle, tasks)
                                 THEN [t EXCEPT !.cancel = "requested", !.revoked = t.phase = "running"]
                                 ELSE t
      BY <1>11 DEF Shutdown
    <3>2. InStep(t, mem[t.job].status) /\ t \in TaskRecord /\ t.job \in Jobs
      BY <1>0 DEF Patient
    <3>3. CASE t.job \in CancelledAtShutdown
      <4>1. mem'[t.job].status = "cancelled"
        BY <2>2, <3>2, <3>3
      <4>2. CASE u = t
        BY <3>2, <4>1, <4>2 DEF InStep
      <4>3. CASE u = [t EXCEPT !.cancel = "requested", !.revoked = t.phase = "running"]
        <5>1. u.job = t.job /\ u.phase = t.phase /\ (u.revoked <=> t.phase = "running")
          BY <3>2, <4>3 DEF TaskRecord
        <5> QED BY <4>1, <5>1 DEF InStep
      <4> QED BY <3>1, <4>2, <4>3
    <3>4. CASE t.job \notin CancelledAtShutdown
      BY <2>2, <3>1, <3>2, <3>4
    <3> QED BY <3>3, <3>4
  <2>4. \A j \in Jobs : ~Cancelling(j)'
    BY <2>1 DEF Cancelling
  <2> QED BY <2>3, <2>4
<1>12. ASSUME Exits \/ Crashes PROVE Goal
  <2>1. tasks' = {} /\ calls' = [c \in Threads |-> Idle]
    BY <1>12 DEF Exits, Crashes, Gone
  <2> QED BY <2>1 DEF Cancelling
<1>13. Goal
  BY <1>1, <1>2, <1>3, <1>4, <1>5, <1>6, <1>7, <1>8, <1>9, <1>10, <1>11, <1>12
  DEF Next, Coroutine, Handler, Thread, TaskStep
<1>14. StopsCancel'
  BY <1>0, StepStopsCancel DEF PatientInv
<1> QED BY <1>0, <1>13, <1>14 DEF PatientInv, Patient

LEMMA InitPatientInv == Init => PatientInv
BY InitKnownInv DEF Init, PatientInv, Patient, Cancelling, StopsCancel
-----------------------------------------------------------------------------
LEMMA PatientAlways ==
  ASSUME ~HastyRetries
  PROVE  Spec => []PatientInv
<1>1. PatientInv /\ [Next]_vars => PatientInv'
  BY StepPatientInv
<1> QED BY <1>1, InitPatientInv, PTL DEF Spec

(* With patient retries, a job that waits again is cancelled by nobody but *)
(* the operator: no task of the attempt before it is left to do so.        *)
THEOREM RetrySticksCorrect ==
  ASSUME ~HastyRetries
  PROVE  Spec => RetrySticks
<1> DEFINE Sticks(j) ==
             Lives /\ mem[j].status = "queued" /\ mem'[j].status = "cancelled"
               => mem'[j].reason = "cancelled_by_operator"
<1>1. ASSUME PatientInv, [Next]_vars, NEW j \in Jobs PROVE Sticks(j)
  <2> SUFFICES ASSUME Lives, mem[j].status = "queued", mem'[j].status = "cancelled"
               PROVE  mem'[j].reason = "cancelled_by_operator"
    OBVIOUS
  <2>1. TypeOK /\ mem[j] \in Row
    BY <1>1 DEF PatientInv, KnownInv, TasksInv, TypeOK
  <2>2. RowNext(j) /\ process \notin {"stopped", "crashed"}
    BY <1>1, <2>1, RowSteps DEF Lives
  <2>3. ~Finished(j) /\ ~NeverRan(j)
    BY <1>1 DEF PatientInv, Patient, InStep, Finished, NeverRan, Executing
  <2>4. /\ \A n \in Nat : NewRow(n).status # "cancelled"
        /\ Exhausted(mem[j]).status # "cancelled"
        /\ [mem[j] EXCEPT !.attempts = 0].status # "cancelled"
    BY <2>1, ExhaustedRow DEF NewRow, Row
  <2>5. Revoked(j)
    BY <2>2, <2>3, <2>4 DEF RowNext, Retried, Started, AtStart
  <2> QED BY <2>1, <2>5, CancelledRowIs DEF Revoked
<1>2. PatientInv /\ [Next]_vars => [\A j \in Jobs : Sticks(j)]_vars
  <2> HIDE DEF Sticks
  <2> QED BY <1>1
<1> QED BY <1>2, PatientAlways, PTL DEF Spec, RetrySticks

(* With patient retries, a runner whose job the operator cancelled while   *)
(* it ran cannot complete the job any more.                                *)
THEOREM CancelledNeverCompletesCorrect ==
  ASSUME ~HastyRetries
  PROVE  Spec => CancelledNeverCompletes
<1> DEFINE Never(j) ==
             Lives /\ mem[j].status # "completed" /\ mem'[j].status = "completed"
               => \E t \in Executing : t.job = j /\ ~t.revoked
<1>1. ASSUME PatientInv, [Next]_vars, NEW j \in Jobs PROVE Never(j)
  <2> SUFFICES ASSUME Lives, mem[j].status # "completed", mem'[j].status = "completed"
               PROVE  \E t \in Executing : t.job = j /\ ~t.revoked
    OBVIOUS
  <2>1. TypeOK /\ mem[j] \in Row
    BY <1>1 DEF PatientInv, KnownInv, TasksInv, TypeOK
  <2>2. RowNext(j) /\ process \notin {"stopped", "crashed"}
    BY <1>1, <2>1, RowSteps DEF Lives
  <2>3. /\ \A n \in Nat : NewRow(n).status # "completed"
        /\ [mem[j] EXCEPT !.attempts = 0].status # "completed"
    BY <2>1 DEF NewRow, Row
  <2>4. /\ Exhausted(mem[j]).status # "completed"
        /\ RequeuedRow(mem[j]).status # "completed"
        /\ CancelledRow(mem[j]).status # "completed"
        /\ Ended(mem[j], "cancelled", "worker_task_cancelled_before_start").status # "completed"
    BY <2>1, ExhaustedRow, RequeuedRowIs, CancelledRowIs, EndedRow, Values
  <2>8. Finished(j)
    BY <2>2, <2>3, <2>4 DEF RowNext, Revoked, Retried, Started, NeverRan, AtStart
  <2>5. PICK t \in Executing : t.job = j
    BY <2>8 DEF Finished
  <2>6. mem[j].status # "cancelled"
    BY <2>1, <2>8, OutcomeRow, Values DEF Finished
  <2>7. ~t.revoked
    BY <1>1, <2>5, <2>6 DEF PatientInv, Patient, InStep, Executing
  <2> QED BY <2>5, <2>7
<1>2. PatientInv /\ [Next]_vars => [\A j \in Jobs : Never(j)]_vars
  <2> HIDE DEF Never
  <2> QED BY <1>1
<1> QED BY <1>2, PatientAlways, PTL DEF Spec, CancelledNeverCompletes
-----------------------------------------------------------------------------
(* The queue implements the lifecycle of each of its jobs.                 *)

(* JobLifecycle's next-state relation, between two rows.                   *)
LifeNext(r, q) ==
    \/ q.status = r.status /\ q.attempts = r.attempts
    \/ r.status = "absent" /\ q.status = "queued" /\ q.attempts = r.attempts
    \/ /\ r.status \in {"queued", "running"} /\ r.attempts < MaxAttempts
       /\ q.status = "running" /\ q.attempts = r.attempts + 1
    \/ /\ r.status = "running" /\ q.status \in {"completed", "failed"}
       /\ q.attempts = r.attempts
    \/ r.status = "running" /\ q.status = "queued" /\ q.attempts = r.attempts
    \/ /\ r.status \in {"queued", "running", "cancelled"} /\ r.attempts = MaxAttempts
       /\ q.status = "failed" /\ q.attempts = r.attempts
    \/ /\ r.status \in {"queued", "running"}
       /\ q.status = "cancelled" /\ q.attempts = r.attempts
    \/ /\ r.status \in {"failed", "cancelled"} /\ r.attempts < MaxAttempts
       /\ q.status = "queued" /\ q.attempts = r.attempts
    \/ /\ r.status \in {"queued", "failed", "cancelled"} /\ r.attempts = MaxAttempts
       /\ q.status = "queued" /\ q.attempts = 0

LEMMA LifeStep ==
  ASSUME PatientInv, NEW j \in Jobs, RowNext(j)
  PROVE  LifeNext(mem[j], mem'[j])
<1> DEFINE r == mem[j]
           q == mem'[j]
<1>1. r \in Row /\ r.attempts \in 0..MaxAttempts
  BY RowFields DEF PatientInv, KnownInv, TasksInv, TypeOK
<1>2. r.attempts < MaxAttempts \/ r.attempts = MaxAttempts
  BY <1>1
<1>3. Spent(r) => r.attempts = MaxAttempts
  BY <1>1 DEF Spent
<1>4. ~Spent(r) => r.attempts < MaxAttempts
  BY <1>1 DEF Spent
<1>5. r.status = "absent" => r.attempts = 0 /\ handle[j] = 0
  BY DEF PatientInv, KnownInv, Untouched
<1>6. CASE q = r
  BY <1>6 DEF LifeNext
<1>7. ASSUME r.status = "absent", NEW rank \in Nat, q = NewRow(rank) PROVE LifeNext(r, q)
  BY <1>5, <1>7, NewRowIs DEF LifeNext
<1>8. CASE r.status \in {"queued", "failed", "cancelled"} /\ Spent(r) /\ q = Exhausted(r)
  BY <1>1, <1>3, <1>8, ExhaustedRow DEF LifeNext
<1>9. CASE Revoked(j)
  BY <1>1, <1>5, <1>9, CancelledRowIs DEF LifeNext, Revoked, Terminal, Row, Statuses
<1>10. CASE r.status \in {"failed", "cancelled"} /\ q = RequeuedRow(r)
  <2>1. q.status = "queued" /\ q.attempts = IF Spent(r) THEN 0 ELSE r.attempts
    BY <1>1, <1>10, RequeuedRowIs DEF Spent
  <2> QED BY <1>3, <1>4, <1>10, <2>1 DEF LifeNext
<1>11. CASE r.status = "queued" /\ Spent(r) /\ q = [r EXCEPT !.attempts = 0]
  <2>1. q.status = "queued" /\ q.attempts = 0
    BY <1>1, <1>11 DEF Row
  <2> QED BY <1>3, <1>11, <2>1 DEF LifeNext
<1>12. CASE Started(j)
  BY <1>4, <1>12 DEF LifeNext, Started
<1>13. CASE Finished(j)
  <2>1. PICK t \in Executing : t.job = j
    BY <1>13 DEF Finished
  <2>2. r.status \in {"running", "cancelled"}
    BY <2>1 DEF PatientInv, Patient, InStep, Executing
  <2>3. PICK v \in {"completed", "failed", "cancelled"}, w \in Reasons : q = Outcome(r, v, w)
    BY <1>13, Values DEF Finished
  <2>4. q.status = (IF r.status = "cancelled" THEN "cancelled" ELSE v) /\ q.attempts = r.attempts
    BY <1>1, <2>3, OutcomeRow, Values
  <2> QED BY <2>2, <2>4 DEF LifeNext
<1>14. ~NeverRan(j)
  BY DEF PatientInv, Patient, InStep, NeverRan
<1>15. CASE AtStart(j)
  <2> DEFINE e == RecoveredRow(r)
  <2>1. /\ e \in Row /\ e.attempts = r.attempts
        /\ r.status = "running" => e.status = "queued"
        /\ r.status # "running" => e = r
    BY <1>1, RecoveredRowIs
  <2>2. q = e \/ (e.status = "queued" /\ Spent(e) /\ q = Exhausted(e))
    BY <1>15 DEF AtStart
  <2> HIDE DEF e
  <2>3. CASE q = e
    BY <2>1, <2>3 DEF LifeNext
  <2>4. CASE e.status = "queued" /\ Spent(e) /\ q = Exhausted(e)
    <3>1. q.status = "failed" /\ q.attempts = r.attempts /\ Spent(r)
      BY <2>1, <2>4, ExhaustedRow DEF Spent
    <3>2. r.status \in {"queued", "running"}
      BY <2>1, <2>4
    <3> QED BY <1>3, <3>1, <3>2 DEF LifeNext
  <2> QED BY <2>2, <2>3, <2>4
<1> QED
  BY <1>6, <1>7, <1>8, <1>9, <1>10, <1>11, <1>12, <1>13, <1>14, <1>15 DEF RowNext, Retried

LEMMA LifeInit == Init => \A j \in Jobs : Life(j)!Init
<1> SUFFICES ASSUME Init, NEW j \in Jobs PROVE Life(j)!Init
  OBVIOUS
<1>1. mem[j].status = "absent" /\ mem[j].attempts = 0
  BY AbsentRowIs DEF Init
<1> QED BY <1>1, LimitsAssumption DEF Life!Init, Life!TypeOK, Life!Statuses

(* With patient retries every job goes through the lifecycle of            *)
(* JobLifecycle, restarts included: the refinement.                        *)
THEOREM LifecycleImplemented ==
  ASSUME ~HastyRetries
  PROVE  Spec => Lifecycle
<1> DEFINE Follows(j) == process' \in {"up", "stopping"} => [Life(j)!Next]_(Life(j)!vars)
<1>1. ASSUME PatientInv, [Next]_vars, NEW j \in Jobs PROVE Follows(j)
  <2> SUFFICES ASSUME process' \in {"up", "stopping"} PROVE [Life(j)!Next]_(Life(j)!vars)
    OBVIOUS
  <2>1. RowNext(j)
    BY <1>1, RowSteps DEF PatientInv, KnownInv, TasksInv
  <2>2. LifeNext(mem[j], mem'[j])
    BY <1>1, <2>1, LifeStep
  <2> QED
    BY <2>2 DEF LifeNext, Life!Next, Life!vars, Life!Enqueue, Life!StartAttempt,
       Life!EndAttempt, Life!GiveBack, Life!Exhaust, Life!Cancel, Life!Retry
<1>2. PatientInv /\ [Next]_vars => [\A j \in Jobs : Follows(j)]_vars
  <2> HIDE DEF Follows
  <2> QED BY <1>1
<1> QED BY <1>2, LifeInit, PatientAlways, PTL DEF Spec, Lifecycle
-----------------------------------------------------------------------------
(* The order of the jobs, and with it the limit on tasks.                  *)

(* Jobs are numbered in the order they were submitted in.                  *)
Ranked(m) ==
    /\ \A j \in Known(m) : m[j].created \in 1..Cardinality(Known(m))
    /\ \A j, k \in Known(m) : m[j].created = m[k].created => j = k

(* The jobs that have a task that has not ended.                           *)
LiveJobs(ts) == {j \in Jobs : \E t \in ts : t.job = j /\ t.phase # "done"}

Limited(ts) == Cardinality(LiveJobs(ts)) <= MaxConcurrency

LEMMA SomeJobs ==
  ASSUME NEW S \in SUBSET Jobs, NEW T \in SUBSET S
  PROVE  /\ IsFiniteSet(S) /\ IsFiniteSet(T)
         /\ Cardinality(S) \in Nat /\ Cardinality(T) \in Nat
         /\ Cardinality(T) <= Cardinality(S)
<1>1. IsFiniteSet(S)
  BY JobsAssumption, FS_Subset
<1> QED BY <1>1, FS_Subset, FS_CardinalityType

(* Of a non-empty set of jobs one was submitted last.                      *)
LEMMA LastSubmitted ==
  ASSUME NEW m \in [Jobs -> Row], NEW A \in SUBSET Jobs, A # {}, NEW n \in Nat,
         \A j \in A : m[j].created <= n
  PROVE  \E j \in A : \A k \in A : m[k].created <= m[j].created
<1> DEFINE T == {i \in Nat : \A j \in A : m[j].created <= i}
<1>0. \A j \in A : m[j].created \in Nat
  BY DEF Row
<1>1. T \in SUBSET Nat /\ n \in T
  OBVIOUS
<1>2. PICK x \in T : \A y \in T : x <= y
  <2> HIDE DEF T
  <2> QED BY <1>1, LeastNatural
<1>3. x \in Nat /\ \A j \in A : m[j].created <= x
  OBVIOUS
<1>4. SUFFICES ASSUME \A j \in A : m[j].created # x PROVE FALSE
  BY <1>3
<1>5. \A j \in A : m[j].created <= x - 1
  BY <1>0, <1>3, <1>4
<1>6. x - 1 \in Nat
  BY <1>0, <1>3, <1>5
<1>7. x - 1 \in T
  BY <1>5, <1>6
<1> QED BY <1>2, <1>3, <1>7

(* The jobs that are looked at before the capacity is used are no more.    *)
LEMMA WithinCapacity ==
  ASSUME NEW m \in [Jobs -> Row], NEW W \in SUBSET Jobs, NEW n \in Nat, NEW capacity \in Nat,
         \A j \in W : m[j].created <= n,
         \A j, k \in W : m[j].created = m[k].created => j = k
  PROVE  Cardinality({j \in Reached(W, m, capacity) : m[j].attempts < MaxAttempts}) <= capacity
<1> DEFINE A == {j \in Reached(W, m, capacity) : m[j].attempts < MaxAttempts}
           Older(j) == {k \in W : m[k].attempts < MaxAttempts /\ m[k].created < m[j].created}
<1>1. A \in SUBSET W /\ \A j \in A : Cardinality(Older(j)) < capacity /\ m[j].attempts < MaxAttempts
  BY DEF Reached
<1>2. CASE A = {}
  BY <1>2, FS_EmptySet
<1>3. CASE A # {}
  <2>1. PICK j \in A : \A k \in A : m[k].created <= m[j].created
    <3> HIDE DEF A
    <3>1. A \in SUBSET Jobs /\ \A k \in A : m[k].created <= n
      BY <1>1
    <3> QED BY <1>3, <3>1, LastSubmitted
  <2>2. A \ {j} \subseteq Older(j)
    <3>1. ASSUME NEW k \in A, k # j PROVE k \in Older(j)
      <4>1. k \in W /\ j \in W /\ m[k].attempts < MaxAttempts
        BY <1>1, <3>1
      <4>2. m[k].created \in Nat /\ m[j].created \in Nat
        BY <4>1 DEF Row
      <4>3. m[k].created < m[j].created
        BY <2>1, <3>1, <4>1, <4>2
      <4> QED BY <4>1, <4>3
    <3> QED BY <3>1
  <2>3. Cardinality(Older(j)) < capacity
    BY <1>1
  <2> HIDE DEF A
  <2>4. Older(j) \in SUBSET Jobs
    OBVIOUS
  <2> HIDE DEF Older
  <2>5. Cardinality(A \ {j}) <= Cardinality(Older(j)) /\ Cardinality(Older(j)) \in Nat
    BY <2>2, <2>4, SomeJobs
  <2>6. IsFiniteSet(A) /\ Cardinality(A) \in Nat
    BY <1>1, SomeJobs
  <2>7. Cardinality(A \ {j}) = Cardinality(A) - 1
    BY <2>6, FS_RemoveElement
  <2> QED BY <2>3, <2>5, <2>6, <2>7 DEF A
<1> QED BY <1>2, <1>3

(* Tasks that have not ended are as many as their jobs.                    *)
LEMMA LiveTasks ==
  ASSUME NEW h, NEW ts, OneTask(h, ts), ts \subseteq TaskRecord
  PROVE  Cardinality({t \in ts : t.phase # "done"}) = Cardinality(LiveJobs(ts))
<1> DEFINE L == {t \in ts : t.phase # "done"}
           f == [t \in L |-> t.job]
<1>1. \A t \in L : t.job \in Jobs
  BY DEF TaskRecord
<1>2. \A s, t \in L : f[s] = f[t] => s = t
  BY DEF OneTask
<1>3. f \in Injection(L, Jobs)
  BY <1>1, <1>2 DEF Injection, IsInjective
<1>4. IsFiniteSet(L)
  <2> HIDE DEF L, f
  <2> QED BY <1>3, JobsAssumption, FS_Injection
<1>5. f \in Surjection(L, LiveJobs(ts)) /\ f \in Injection(L, LiveJobs(ts))
  <2>1. \A t \in L : f[t] \in LiveJobs(ts)
    BY <1>1 DEF LiveJobs
  <2>2. \A j \in LiveJobs(ts) : \E t \in L : f[t] = j
    BY DEF LiveJobs
  <2>3. f \in [L -> LiveJobs(ts)]
    BY <2>1
  <2> HIDE DEF f, L
  <2> QED BY <1>2, <2>2, <2>3 DEF Surjection, Injection, IsInjective
<1> HIDE DEF f, L
<1>6. Cardinality(LiveJobs(ts)) = Cardinality(L)
  BY <1>4, <1>5, FS_Surjection
<1> QED BY <1>6 DEF L

(* So a pass of the scheduler stays within the limit.                      *)
LEMMA PassedLimited ==
  ASSUME NEW S, NEW m, NEW h, NEW ts, NEW started, NEW spent, NEW m2, NEW h2, NEW ts2,
         Schedulable(S, m, h, ts), Passed(S, m, h, ts, started, spent, m2, h2, ts2),
         OneTask(h, ts), Ranked(m), Limited(ts)
  PROVE  Limited(ts2)
<1>1. started \in SUBSET Jobs /\ ts2 = ts \cup {NewTask(j, ts) : j \in started}
  BY DEF Passed, Waiting, Schedulable
<1>2. LiveJobs(ts2) \subseteq LiveJobs(ts) \cup started
  BY <1>1 DEF LiveJobs, NewTask
<1>3. LiveJobs(ts) \in SUBSET Jobs /\ LiveJobs(ts2) \in SUBSET Jobs
  BY DEF LiveJobs
<1>4. CASE started = {}
  <2>1. LiveJobs(ts2) \in SUBSET LiveJobs(ts)
    BY <1>2, <1>4
  <2> QED BY <1>3, <2>1, SomeJobs, LimitsAssumption DEF Limited
<1>5. CASE started # {}
  <2> DEFINE W == Waiting(S, m, h)
  <2>1. started = {j \in Reached(W, m, Capacity(h, ts)) : m[j].attempts < MaxAttempts}
    BY <1>5 DEF Passed
  <2>2. /\ W \in SUBSET Jobs /\ W \subseteq Known(m) /\ m \in [Jobs -> Row]
        /\ Known(m) \in SUBSET Jobs
    BY DEF Waiting, Schedulable, Known
  <2>3. Cardinality(Known(m)) \in Nat
    BY <2>2, SomeJobs
  <2>4. /\ \A j \in W : m[j].created <= Cardinality(Known(m))
        /\ \A j, k \in W : m[j].created = m[k].created => j = k
    BY <2>2, <2>3 DEF Ranked
  <2>5. Capacity(h, ts) = MaxConcurrency - Cardinality(LiveJobs(ts))
    <3>1. Tracked(h, ts) = {t \in ts : t.phase # "done"}
      BY DEF Tracked, OneTask
    <3>2. ts \subseteq TaskRecord
      BY DEF Schedulable
    <3> QED BY <3>1, <3>2, LiveTasks DEF Capacity
  <2>6. Cardinality(LiveJobs(ts)) \in Nat /\ Capacity(h, ts) \in Nat
    BY <1>3, <2>5, SomeJobs, LimitsAssumption DEF Limited
  <2> HIDE DEF W
  <2>7. Cardinality(started) <= Capacity(h, ts)
    BY <2>1, <2>2, <2>3, <2>4, <2>6, WithinCapacity
  <2>8. /\ IsFiniteSet(LiveJobs(ts)) /\ IsFiniteSet(started)
        /\ Cardinality(started) \in Nat
        /\ Cardinality(LiveJobs(ts) \cap started) \in Nat
        /\ Cardinality(LiveJobs(ts2)) \in Nat
        /\ Cardinality(LiveJobs(ts2)) <= Cardinality(LiveJobs(ts) \cup started)
        /\ Cardinality(LiveJobs(ts) \cup started) \in Nat
    <3>1. /\ LiveJobs(ts) \cup started \in SUBSET Jobs
          /\ LiveJobs(ts2) \in SUBSET (LiveJobs(ts) \cup started)
          /\ LiveJobs(ts) \cap started \in SUBSET Jobs
      BY <1>1, <1>2, <1>3
    <3> QED BY <1>1, <1>3, <3>1, SomeJobs
  <2>9. Cardinality(LiveJobs(ts) \cup started)
           = Cardinality(LiveJobs(ts)) + Cardinality(started) - Cardinality(LiveJobs(ts) \cap started)
    BY <2>8, FS_Union
  <2> QED BY <2>5, <2>6, <2>7, <2>8, <2>9, LimitsAssumption DEF Limited
<1> QED BY <1>4, <1>5
-----------------------------------------------------------------------------
LEMMA KnownJobs ==
  ASSUME NEW m
  PROVE  Known(m) \in SUBSET Jobs /\ IsFiniteSet(Known(m)) /\ Cardinality(Known(m)) \in Nat
<1>1. Known(m) \in SUBSET Jobs
  BY DEF Known
<1> QED BY <1>1, SomeJobs

(* The numbers stay when no job is added, and go on when one is.           *)
LEMMA RankedSame ==
  ASSUME NEW m, NEW m2, Ranked(m), Known(m2) = Known(m),
         \A j \in Known(m) : m2[j].created = m[j].created
  PROVE  Ranked(m2)
BY DEF Ranked

LEMMA RankedAdded ==
  ASSUME NEW m, NEW m2, Ranked(m), NEW j \in Jobs, j \notin Known(m),
         Known(m2) = Known(m) \cup {j}, \A k \in Known(m) : m2[k].created = m[k].created,
         m2[j].created = Cardinality(Known(m)) + 1
  PROVE  Ranked(m2) /\ m2[j].created = Cardinality(Known(m2))
<1>1. /\ Cardinality(Known(m)) \in Nat
      /\ Cardinality(Known(m2)) = Cardinality(Known(m)) + 1
  BY KnownJobs, FS_AddElement
<1>2. \A k \in Known(m) : m2[k].created \in 1..Cardinality(Known(m))
  BY DEF Ranked
<1>3. \A k \in Known(m) : m2[k].created # m2[j].created /\ m2[k].created \in 1..Cardinality(Known(m2))
  BY <1>1, <1>2
<1>4. m2[j].created \in 1..Cardinality(Known(m2))
  BY <1>1
<1> QED BY <1>1, <1>3, <1>4 DEF Ranked

(* A pass of the scheduler leaves the order alone.                         *)
LEMMA PassedOrder ==
  ASSUME NEW S, NEW m, NEW h, NEW ts, NEW started, NEW spent, NEW m2, NEW h2, NEW ts2,
         Schedulable(S, m, h, ts), Passed(S, m, h, ts, started, spent, m2, h2, ts2)
  PROVE  Known(m2) = Known(m) /\ \A j \in Jobs : m2[j].created = m[j].created
<1>1. ASSUME NEW j \in Jobs
      PROVE  (m2[j].status = "absent" <=> m[j].status = "absent") /\ m2[j].created = m[j].created
  <2>1. m[j] \in Row /\ Exhausted(m[j]).created = m[j].created
    BY ExhaustedRow DEF Schedulable
  <2>2. m2[j].created = m[j].created
    BY <2>1 DEF Passed
  <2> QED BY <2>2, PassedKnown
<1> QED BY <1>1 DEF Known

(* What a request makes of the order: a new job comes last and is written. *)
Added(m, m2, u2) ==
    \E j \in Jobs : /\ j \notin Known(m) /\ Known(m2) = Known(m) \cup {j}
                    /\ m2[j].created = Cardinality(Known(m)) + 1
                    /\ u2[j] # NoRow

LEMMA HandledOrder ==
  ASSUME TypeOK, Ranked(mem), NEW m, NEW S, NEW touched, NEW started, NEW spent,
         Handled(S, m, touched, started, spent, mem', handle', tasks', unwritten')
  PROVE  /\ Ranked(m) /\ Ranked(mem')
         /\ Known(mem') = Known(mem) \/ Added(mem, mem', unwritten')
         /\ \A j \in Known(mem) : mem'[j].created = mem[j].created
<1>0. mem \in [Jobs -> Row] /\ m \in [Jobs -> Row] /\ mem' \in [Jobs -> Row]
  <2>1. m \in [Jobs -> Row] /\ Schedulable(S, m, handle, tasks)
    BY DEF Handled
  <2>2. mem' = [j \in Jobs |-> IF j \in spent THEN Exhausted(m[j]) ELSE m[j]]
    BY DEF Handled, Passed
  <2> QED BY <2>1, <2>2, ExhaustedRow DEF TypeOK
<1>1. /\ Known(mem') = Known(m) /\ \A j \in Jobs : mem'[j].created = m[j].created
  BY PassedOrder DEF Handled
<1>2. \/ m = mem
      \/ \E j \in Jobs, q \in Row : /\ m = With(j, q) /\ touched = {j}
                                    /\ q.status # "absent" /\ ByHandler(j, q)
  BY DEF Handled, HandledTo
<1>3. ASSUME Known(m) = Known(mem), \A j \in Known(mem) : m[j].created = mem[j].created
      PROVE  Ranked(m) /\ Ranked(mem')
  <2>1. Known(m) \subseteq Jobs
    BY KnownJobs
  <2> QED BY <1>1, <1>3, <2>1, RankedSame
<1>4. CASE m = mem
  BY <1>1, <1>3, <1>4, KnownJobs
<1>5. ASSUME NEW j \in Jobs, NEW q \in Row, m = With(j, q), touched = {j},
             q.status # "absent", ByHandler(j, q)
      PROVE  /\ Ranked(m) /\ Ranked(mem')
             /\ Known(mem') = Known(mem) \/ Added(mem, mem', unwritten')
             /\ \A i \in Known(mem) : mem'[i].created = mem[i].created
  <2>1. \A i \in Jobs : m[i] = IF i = j THEN q ELSE mem[i]
    BY <1>0, <1>5 DEF With
  <2>2. CASE mem[j].status = "absent"
    <3>1. q = NewRow(Cardinality(Known(mem)) + 1)
      BY <1>5, <2>2 DEF ByHandler, Known
    <3>2. q.created = Cardinality(Known(mem)) + 1
      BY <3>1 DEF NewRow
    <3>3. j \notin Known(mem) /\ Known(m) = Known(mem) \cup {j}
      BY <1>5, <2>1, <2>2 DEF Known
    <3>4. \A i \in Known(mem) : m[i].created = mem[i].created
      BY <2>1, <3>3, KnownJobs
    <3>5. m[j].created = Cardinality(Known(mem)) + 1
      BY <2>1, <3>2
    <3>6. Ranked(m)
      BY <3>3, <3>4, <3>5, RankedAdded
    <3>7. Ranked(mem')
      BY <1>1, <3>6, RankedSame, KnownJobs
    <3>8. unwritten'[j] # NoRow
      <4>1. unwritten' = [i \in Jobs |-> IF i \in touched \cup started \cup spent THEN mem'[i] ELSE NoRow]
        BY DEF Handled, Writes
      <4> QED BY <1>0, <1>5, <4>1, MarkersAssumption
    <3>9. Added(mem, mem', unwritten')
      BY <1>1, <3>3, <3>5, <3>8 DEF Added
    <3>10. \A i \in Known(mem) : mem'[i].created = mem[i].created
      BY <1>1, <3>4, KnownJobs
    <3> QED BY <3>6, <3>7, <3>9, <3>10
  <2>3. CASE mem[j].status # "absent"
    <3>1. q.created = mem[j].created
      <4>1. \/ q = RequeuedRow(mem[j]) \/ q = Exhausted(mem[j])
            \/ q = [mem[j] EXCEPT !.attempts = 0]
        BY <1>5, <2>3 DEF ByHandler
      <4>2. [mem[j] EXCEPT !.attempts = 0].created = mem[j].created /\ mem[j] \in Row
        BY <1>0 DEF Row
      <4>3. RequeuedRow(mem[j]).created = mem[j].created
        BY <4>2, RequeuedRowIs
      <4>4. Exhausted(mem[j]).created = mem[j].created
        BY <4>2, ExhaustedRow
      <4> QED BY <4>1, <4>2, <4>3, <4>4
    <3>2. Known(m) = Known(mem)
      BY <1>5, <2>1, <2>3 DEF Known
    <3>3. \A i \in Known(mem) : m[i].created = mem[i].created
      BY <2>1, <3>1, KnownJobs
    <3> QED BY <1>1, <1>3, <3>2, <3>3, KnownJobs
  <2> QED BY <2>2, <2>3
<1> QED BY <1>2, <1>4, <1>5

(* No other step adds a job.                                               *)
LEMMA OnlySubmitted ==
  ASSUME KnownInv, [Next]_vars, process' \in {"up", "stopping"}, ~Handler,
         NEW j \in Jobs, mem[j].status = "absent"
  PROVE  mem'[j].status = "absent"
<1>0. /\ TypeOK /\ mem \in [Jobs -> Row] /\ tasks \subseteq TaskRecord /\ handle \in [Jobs -> 0..2]
      /\ \A t \in tasks : t.job \in Jobs /\ mem[t.job].status # "absent"
      /\ handle[j] = 0
  BY DEF KnownInv, TasksInv, TypeOK, OneTask, Untouched, TaskRecord
<1>1. ASSUME NEW t \in tasks, TaskDone(t) PROVE mem'[j].status = "absent"
  <2> DEFINE h == [handle EXCEPT ![t.job] = 0]
  <2>1. /\ Schedulable(Jobs, DoneMem(t), h, tasks \ {t})
        /\ \E started, spent \in SUBSET Jobs :
              Passed(Jobs, DoneMem(t), h, tasks \ {t}, started, spent, mem', handle', tasks')
    BY <1>0, <1>1, DoneSteps
  <2> HIDE DEF h
  <2>2. mem'[j].status = "absent" <=> DoneMem(t)[j].status = "absent"
    BY <2>1, PassedKnown
  <2>3. DoneMem(t)[j] = mem[j]
    BY <1>0 DEF DoneMem, With
  <2> QED BY <2>2, <2>3
<1>2. ASSUME Restarts PROVE mem'[j].status = "absent"
  <2>1. /\ Schedulable(Jobs, Recovered, handle, tasks)
        /\ \E started, spent \in SUBSET Jobs :
              Passed(Jobs, Recovered, handle, tasks, started, spent, mem', handle', tasks')
    BY <1>0, <1>2, RestartSteps
  <2>2. mem'[j].status = "absent" <=> Recovered[j].status = "absent"
    BY <2>1, PassedKnown
  <2>3. Recovered[j] = mem[j]
    BY <1>0, RecoveredRowIs DEF Recovered
  <2> QED BY <2>2, <2>3
<1>3. ASSUME \/ Pause \/ \E i \in Jobs : LoopWriteLands(i)
             \/ \E c \in Threads : \/ CallWriteLands(c) \/ CancelPosts(c)
                                   \/ \E i \in Jobs : CancelBegins(c, i) \/ LegacyRequeueBegins(c, i)
             \/ \E t \in tasks : \/ CancelRequested(t) \/ NeverStarts(t)
                                 \/ StartRefused(t) \/ AttemptStarts(t)
                                 \/ RunnerReturns(t) \/ RunnerFails(t) \/ RunnerStops(t)
             \/ UNCHANGED vars
      PROVE  mem'[j] = mem[j]
  BY <1>0, <1>3 DEF Pause, LoopWriteLands, CallWriteLands, CancelPosts, CancelBegins,
     LegacyRequeueBegins, Begins, CancelRequested, NeverStarts, StartRefused, AttemptStarts,
     RunnerReturns, RunnerFails, RunnerStops, AttemptEnds, With, vars
<1>4. ASSUME Shutdown PROVE mem'[j] = mem[j]
  BY <1>0, <1>4 DEF Shutdown, CancelledAtShutdown
<1>5. ~ (Exits \/ Crashes)
  BY DEF Exits, Crashes, Gone
<1> QED BY <1>1, <1>2, <1>3, <1>4, <1>5 DEF Next, Coroutine, Handler, Thread, TaskStep

(* What the loop still has to write is written before it does more.        *)
LEMMA UnwrittenSteps ==
  ASSUME KnownInv, [Next]_vars, process' \in {"up", "stopping"}, NEW j \in Jobs,
         unwritten[j] # NoRow
  PROVE  unwritten'[j] = unwritten[j] \/ stored'[j] = unwritten[j]
<1>0. TypeOK /\ unwritten \in [Jobs -> Row \cup {NoRow}] /\ stored \in [Jobs -> Row]
  BY DEF KnownInv, TasksInv, TypeOK
<1>1. ~LoopFree /\ ~Restarts
  <2>1. ~(process \in {"stopped", "crashed"})
    BY DEF KnownInv, Down
  <2> QED BY <2>1 DEF LoopFree, Restarts
<1>2. ~Handler /\ ~Shutdown /\ ~Exits /\ ~Crashes
  BY <1>0, <1>1, HandlerSteps DEF Shutdown, Exits, Crashes, Gone
<1>3. \A t \in tasks : ~TaskStep(t)
  BY <1>1 DEF TaskStep, CancelRequested, NeverStarts, StartRefused, AttemptStarts,
     RunnerReturns, RunnerFails, RunnerStops, AttemptEnds, TaskDone
<1>4. ASSUME \/ Pause \/ \E c \in Threads : Thread(c)
             \/ UNCHANGED vars
      PROVE  unwritten' = unwritten
  BY <1>4 DEF Pause, Thread, CancelBegins, LegacyRequeueBegins, CallWriteLands, CancelPosts, vars
<1>5. ASSUME NEW i \in Jobs, LoopWriteLands(i)
      PROVE  unwritten'[j] = unwritten[j] \/ stored'[j] = unwritten[j]
  BY <1>0, <1>5 DEF LoopWriteLands
<1> QED BY <1>1, <1>2, <1>3, <1>4, <1>5 DEF Next, Coroutine, Handler
-----------------------------------------------------------------------------
(* Only the newest job can be missing from the table, and it is about to   *)
(* be written.                                                             *)
Newest ==
    \A j \in Known(mem) \ Known(stored) :
        unwritten[j] # NoRow /\ mem[j].created = Cardinality(Known(mem))

OrderInv == KnownInv /\ Ranked(mem) /\ Newest /\ Limited(tasks)

(* What a process that ends leaves: the rows of the table, still in order. *)
LEMMA RankedStored ==
  ASSUME KnownInv, Ranked(mem), Newest
  PROVE  Ranked(stored)
<1> DEFINE n == Cardinality(Known(mem))
<1>1. /\ Known(stored) \subseteq Known(mem)
      /\ \A j \in Known(stored) : stored[j].created = mem[j].created
  BY DEF KnownInv, Copies, SameJob, Known
<1>2. n \in Nat /\ IsFiniteSet(Known(mem))
  BY KnownJobs
<1>3. CASE Known(stored) = Known(mem)
  BY <1>1, <1>3, RankedSame
<1>4. ASSUME NEW j \in Known(mem) \ Known(stored) PROVE Ranked(stored)
  <2>1. mem[j].created = n
    BY <1>4 DEF Newest
  <2>2. \A k \in Known(mem) \ Known(stored) : k = j
    BY <1>4, <2>1 DEF Newest, Ranked
  <2>3. Known(stored) = Known(mem) \ {j}
    BY <1>1, <1>4, <2>2
  <2>4. Cardinality(Known(stored)) = n - 1
    BY <1>2, <1>4, <2>3, FS_RemoveElement
  <2>5. ASSUME NEW k \in Known(stored) PROVE stored[k].created \in 1..Cardinality(Known(stored))
    <3>1. k \in Known(mem) /\ k # j /\ stored[k].created = mem[k].created
      BY <1>1, <2>3
    <3>2. mem[k].created \in 1..n /\ mem[k].created # n
      BY <1>4, <2>1, <3>1 DEF Ranked
    <3> QED BY <1>2, <2>4, <3>1, <3>2
  <2>6. \A i, k \in Known(stored) : stored[i].created = stored[k].created => i = k
    BY <1>1 DEF Ranked
  <2> QED BY <2>5, <2>6 DEF Ranked
<1> QED BY <1>1, <1>3, <1>4

(* The end of a process, and the time until the next one.                  *)
LEMMA EndSteps ==
  ASSUME KnownInv, [Next]_vars, process' \notin {"up", "stopping"}
  PROVE  \/ UNCHANGED vars
         \/ \E how \in {"stopped", "crashed"} : Gone(how)
<1>0. TypeOK /\ TypeOK'
  BY StepTypeOK DEF KnownInv, TasksInv
<1>1. ASSUME \/ Pause \/ Handler \/ \E c \in Threads : Thread(c)
             \/ \E j \in Jobs : LoopWriteLands(j)
             \/ \E t \in tasks : TaskStep(t)
      PROVE  process' = process
  BY <1>0, <1>1, HandlerSteps
  DEF Pause, Thread, CancelBegins, LegacyRequeueBegins, CallWriteLands, CancelPosts,
      LoopWriteLands, TaskStep, CancelRequested, NeverStarts, StartRefused, AttemptStarts,
      RunnerReturns, RunnerFails, RunnerStops, AttemptEnds, TaskDone
<1>2. ASSUME process' = process
      PROVE  /\ ~Handler /\ ~Pause /\ \A c \in Threads : ~Thread(c)
             /\ \A j \in Jobs : ~LoopWriteLands(j)
             /\ tasks = {}
  <2>1. /\ process \in {"stopped", "crashed"} /\ tasks = {} /\ \A j \in Jobs : unwritten[j] = NoRow
        /\ \A c \in Threads : calls[c] = Idle
    BY <1>0, <1>2 DEF KnownInv, Down, TypeOK
  <2>2. ~Handler /\ ~Pause
    BY <1>0, <2>1, HandlerSteps DEF Pause
  <2>3. \A c \in Threads : ~Thread(c)
    BY <2>1 DEF Thread, CancelBegins, LegacyRequeueBegins, Begins, CallWriteLands, CancelPosts
  <2> QED BY <2>1, <2>2, <2>3 DEF LoopWriteLands
<1>3. Exits \/ Crashes => \E how \in {"stopped", "crashed"} : Gone(how)
  BY DEF Exits, Crashes
<1>4. ~Shutdown /\ ~Restarts
  BY DEF Shutdown, Restarts
<1> QED BY <1>1, <1>2, <1>3, <1>4 DEF Next, Coroutine, Handler

LEMMA StepOrder ==
  ASSUME KnownInv, Ranked(mem), Newest, [Next]_vars
  PROVE  Ranked(mem') /\ Newest'
<1>0. KnownInv' /\ TypeOK
  BY StepKnownInv DEF KnownInv, TasksInv
<1>1. CASE process' \notin {"up", "stopping"}
  <2>1. CASE UNCHANGED vars
    BY <2>1 DEF vars, Newest, Known
  <2>2. CASE \E how \in {"stopped", "crashed"} : Gone(how)
    <3>1. mem' = stored /\ stored' = stored
      BY <2>2 DEF Gone
    <3> QED BY <3>1, RankedStored DEF Newest
  <2> QED BY <1>1, <2>1, <2>2, EndSteps
<1>2. CASE process' \in {"up", "stopping"}
  <2>1. \A j \in Known(mem) : j \in Known(mem') /\ mem'[j].created = mem[j].created
    BY <1>0, <1>2, RowSteps, RowKeeps DEF Known
  <2>2. /\ Ranked(mem')
        /\ Known(mem') = Known(mem) \/ Added(mem, mem', unwritten')
    <3>1. CASE Handler
      <4>1. PICK m, S, touched : \E started, spent \in SUBSET Jobs :
               Handled(S, m, touched, started, spent, mem', handle', tasks', unwritten')
        BY <1>0, <3>1, HandlerSteps
      <4> QED BY <1>0, <4>1, HandledOrder
    <3>2. CASE ~Handler
      <4>1. Known(mem') = Known(mem)
        BY <1>2, <2>1, <3>2, OnlySubmitted DEF Known
      <4> QED BY <2>1, <4>1, RankedSame
    <3> QED BY <3>1, <3>2
  <2>3. Added(mem, mem', unwritten') => LoopFree
    <3>1. Handler \/ Known(mem') = Known(mem)
      BY <1>2, <2>1, OnlySubmitted DEF Known
    <3>2. Added(mem, mem', unwritten') => Known(mem') # Known(mem)
      BY DEF Added
    <3> QED BY <1>0, <3>1, <3>2, HandlerSteps
  <2>4. Known(stored) \subseteq Known(stored')
    <3>1. ASSUME NEW j \in Known(stored) PROVE stored'[j].status # "absent"
      <4>1. j \in Jobs /\ stored[j].status # "absent" /\ mem[j].status # "absent"
        BY DEF Known, KnownInv, Copies, SameJob
      <4>2. /\ \A c \in Threads : calls[c] # Idle => calls[c].row.status # "absent"
            /\ unwritten[j] # NoRow => unwritten[j].status # "absent"
        BY <4>1 DEF KnownInv, Copies, SameJob
      <4> QED BY <1>0, <4>1, <4>2, StoredSteps
    <3> QED BY <3>1 DEF Known
  <2>5. ASSUME NEW j \in Known(mem') \ Known(stored')
        PROVE  unwritten'[j] # NoRow /\ mem'[j].created = Cardinality(Known(mem'))
    <3>1. j \in Jobs /\ j \notin Known(stored)
      BY <2>4, <2>5 DEF Known
    <3>2. CASE j \in Known(mem)
      <4>1. unwritten[j] # NoRow /\ mem[j].created = Cardinality(Known(mem))
        BY <3>1, <3>2 DEF Newest
      <4>2. ~LoopFree
        BY <3>1, <4>1 DEF LoopFree
      <4>3. mem'[j].created = Cardinality(Known(mem'))
        BY <2>1, <2>2, <2>3, <3>2, <4>1, <4>2
      <4>4. unwritten[j].status # "absent"
        BY <3>1, <4>1 DEF KnownInv, Copies, SameJob
      <4>5. stored'[j] # unwritten[j]
        BY <2>5, <3>1, <4>4 DEF Known
      <4> QED BY <1>2, <3>1, <4>1, <4>3, <4>5, UnwrittenSteps
    <3>3. CASE j \notin Known(mem)
      <4>1. PICK i \in Jobs : /\ i \notin Known(mem) /\ Known(mem') = Known(mem) \cup {i}
                              /\ mem'[i].created = Cardinality(Known(mem)) + 1
                              /\ unwritten'[i] # NoRow
        BY <2>2, <2>5, <3>3 DEF Added
      <4>2. i = j
        BY <2>5, <3>3, <4>1
      <4>3. Cardinality(Known(mem')) = Cardinality(Known(mem)) + 1
        BY <4>1, KnownJobs, FS_AddElement
      <4> QED BY <4>1, <4>2, <4>3
    <3> QED BY <3>2, <3>3
  <2> QED BY <2>2, <2>5 DEF Newest
<1> QED BY <1>1, <1>2
-----------------------------------------------------------------------------
LEMMA FewerLive ==
  ASSUME NEW ts, NEW ts2, LiveJobs(ts2) \subseteq LiveJobs(ts), Limited(ts)
  PROVE  Limited(ts2)
<1>1. LiveJobs(ts) \in SUBSET Jobs /\ LiveJobs(ts2) \in SUBSET LiveJobs(ts)
  BY DEF LiveJobs
<1> QED BY <1>1, SomeJobs, LimitsAssumption DEF Limited

LEMMA StepLimited ==
  ASSUME OrderInv, [Next]_vars
  PROVE  Limited(tasks')
<1>0. /\ TypeOK /\ OneTask(handle, tasks) /\ Ranked(mem) /\ Limited(tasks)
      /\ mem \in [Jobs -> Row] /\ tasks \subseteq TaskRecord /\ handle \in [Jobs -> 0..2]
      /\ \A t \in tasks : t.job \in Jobs
  BY DEF OrderInv, KnownInv, TasksInv, TypeOK, TaskRecord
<1>1. ASSUME Handler PROVE Limited(tasks')
  <2>1. PICK m, S, touched : \E started, spent \in SUBSET Jobs :
           Handled(S, m, touched, started, spent, mem', handle', tasks', unwritten')
    BY <1>0, <1>1, HandlerSteps
  <2>2. PICK started \in SUBSET Jobs, spent \in SUBSET Jobs :
           Handled(S, m, touched, started, spent, mem', handle', tasks', unwritten')
    BY <2>1
  <2>3. Ranked(m)
    BY <1>0, <2>2, HandledOrder
  <2> QED BY <1>0, <2>2, <2>3, PassedLimited DEF Handled
<1>2. ASSUME NEW t \in tasks, TaskDone(t) PROVE Limited(tasks')
  <2> DEFINE h == [handle EXCEPT ![t.job] = 0]
  <2>1. /\ Schedulable(Jobs, DoneMem(t), h, tasks \ {t})
        /\ \E started, spent \in SUBSET Jobs :
              Passed(Jobs, DoneMem(t), h, tasks \ {t}, started, spent, mem', handle', tasks')
    BY <1>0, <1>2, DoneSteps
  <2>2. OneTask(h, tasks \ {t})
    BY <1>0 DEF OneTask
  <2>3. Limited(tasks \ {t})
    BY <1>0, FewerLive DEF LiveJobs
  <2>4. Ranked(DoneMem(t))
    <3> DEFINE e == Ended(mem[t.job], "cancelled", "worker_task_cancelled_before_start")
    <3>1. e.status = "cancelled" /\ e.created = mem[t.job].created
      BY <1>0, EndedRow, Values
    <3>2. DoneMem(t) = mem \/ (mem[t.job].status = "queued" /\ DoneMem(t) = [mem EXCEPT ![t.job] = e])
      BY DEF DoneMem, With
    <3> HIDE DEF e
    <3>3. Known(DoneMem(t)) = Known(mem) /\ \A j \in Jobs : DoneMem(t)[j].created = mem[j].created
      BY <1>0, <3>1, <3>2 DEF Known
    <3> QED BY <1>0, <3>3, RankedSame, KnownJobs
  <2> HIDE DEF h
  <2> QED BY <2>1, <2>2, <2>3, <2>4, PassedLimited
<1>3. ASSUME Restarts PROVE Limited(tasks')
  <2>1. /\ Schedulable(Jobs, Recovered, handle, tasks)
        /\ \E started, spent \in SUBSET Jobs :
              Passed(Jobs, Recovered, handle, tasks, started, spent, mem', handle', tasks')
    BY <1>0, <1>3, RestartSteps
  <2>2. ASSUME NEW j \in Jobs
        PROVE  (Recovered[j].status = "absent" <=> mem[j].status = "absent")
               /\ Recovered[j].created = mem[j].created
    BY <1>0, RecoveredRowIs DEF Recovered
  <2>3. Ranked(Recovered)
    <3>1. Known(Recovered) = Known(mem)
      BY <2>2 DEF Known
    <3> QED BY <1>0, <2>2, <3>1, RankedSame, KnownJobs
  <2> QED BY <1>0, <2>1, <2>3, PassedLimited
<1>4. ASSUME \/ \E c \in Threads, j \in Jobs : CancelBegins(c, j)
             \/ \E c \in Threads : CancelPosts(c)
             \/ \E t \in tasks : CancelRequested(t)
             \/ Shutdown
      PROVE  Limited(tasks')
  <2>1. PICK f \in [tasks -> TaskRecord] :
           /\ tasks' = {f[t] : t \in tasks}
           /\ \A t \in tasks : f[t].job = t.job /\ f[t].copy = t.copy /\ f[t].phase = t.phase
    BY <1>0, <1>4, TellingSteps DEF Told
  <2>2. LiveJobs(tasks') \subseteq LiveJobs(tasks)
    BY <2>1 DEF LiveJobs
  <2> QED BY <1>0, <2>2, FewerLive
<1>5. ASSUME \/ \E j \in Jobs : LoopWriteLands(j)
             \/ Pause
             \/ \E c \in Threads : CallWriteLands(c) \/ \E j \in Jobs : LegacyRequeueBegins(c, j)
             \/ UNCHANGED vars
      PROVE  Limited(tasks')
  BY <1>0, <1>5 DEF LoopWriteLands, Pause, CallWriteLands, LegacyRequeueBegins, vars
<1>6. ASSUME NEW t \in tasks,
             \/ NeverStarts(t) \/ StartRefused(t) \/ AttemptStarts(t)
             \/ RunnerReturns(t) \/ RunnerFails(t) \/ RunnerStops(t)
      PROVE  Limited(tasks')
  <2>1. PICK u : /\ tasks' = Replaced(t, u) /\ u.job = t.job
                 /\ u.phase = "done" \/ t.phase # "done"
    BY <1>0, <1>6 DEF NeverStarts, StartRefused, AttemptStarts, RunnerReturns, RunnerFails,
       RunnerStops, AttemptEnds, TaskRecord
  <2>2. LiveJobs(tasks') \subseteq LiveJobs(tasks)
    BY <2>1 DEF LiveJobs, Replaced
  <2> QED BY <1>0, <2>2, FewerLive
<1>7. ASSUME Exits \/ Crashes PROVE Limited(tasks')
  <2>1. tasks' = {}
    BY <1>7 DEF Exits, Crashes, Gone
  <2>2. LiveJobs(tasks') \subseteq LiveJobs(tasks)
    BY <2>1 DEF LiveJobs
  <2> QED BY <1>0, <2>2, FewerLive
<1> QED
  BY <1>1, <1>2, <1>3, <1>4, <1>5, <1>6, <1>7 DEF Next, Coroutine, Handler, Thread, TaskStep

LEMMA StepOrderInv == OrderInv /\ [Next]_vars => OrderInv'
<1> SUFFICES ASSUME OrderInv, [Next]_vars PROVE OrderInv'
  OBVIOUS
<1>1. KnownInv' /\ Ranked(mem') /\ Newest'
  BY StepKnownInv, StepOrder DEF OrderInv
<1>2. Limited(tasks')
  BY StepLimited
<1> QED BY <1>1, <1>2 DEF OrderInv, Ranked, Limited, Known, LiveJobs

LEMMA InitOrderInv == Init => OrderInv
<1> SUFFICES ASSUME Init PROVE OrderInv
  OBVIOUS
<1>1. \A j \in Jobs : mem[j].status = "absent"
  BY AbsentRowIs DEF Init
<1>2. Known(mem) = {} /\ LiveJobs(tasks) = {}
  BY <1>1 DEF Init, Known, LiveJobs
<1>3. Limited(tasks)
  BY <1>2, FS_EmptySet, LimitsAssumption DEF Limited
<1> QED BY <1>2, <1>3, InitKnownInv DEF OrderInv, Ranked, Newest

(* With fewer tasks in their runner than the limit a slot number is free.  *)
LEMMA FreeSlot ==
  ASSUME TasksInv, stranded = {}, Cardinality(Executing) < MaxConcurrency
  PROVE  \E n \in 1..MaxConcurrency : n \notin UsedSlots
<1> DEFINE H == {j \in Jobs : slot[j] # 0}
           f == [j \in H |-> slot[j]]
           g == [t \in Executing |-> t.job]
<1>0. /\ \A t \in Executing : t.job \in Jobs
      /\ \A s, t \in Executing : s.job = t.job => s = t
      /\ \A j \in Jobs : slot[j] # 0 <=> \E t \in Executing : t.job = j
      /\ slot \in [Jobs -> Nat]
  BY DEF TasksInv, TypeOK, TaskRecord, OneTask, Backed, Executing
<1>1. g \in Injection(Executing, Jobs)
  BY <1>0 DEF Injection, IsInjective
<1>2. g \in Surjection(Executing, H)
  <2>1. g \in [Executing -> H] /\ \A j \in H : \E t \in Executing : g[t] = j
    BY <1>0
  <2> HIDE DEF g, H
  <2> QED BY <2>1 DEF Surjection
<1>3. f \in Surjection(H, UsedSlots)
  <2>1. f \in [H -> UsedSlots]
    BY <1>0 DEF UsedSlots
  <2>2. \A n \in UsedSlots : \E j \in H : f[j] = n
    BY <1>0 DEF UsedSlots
  <2> HIDE DEF f, H
  <2> QED BY <2>1, <2>2 DEF Surjection
<1> HIDE DEF f, g, H
<1>4. IsFiniteSet(Executing)
  BY <1>1, JobsAssumption, FS_Injection
<1>5. IsFiniteSet(H) /\ Cardinality(H) <= Cardinality(Executing)
  BY <1>2, <1>4, FS_Surjection
<1>6. IsFiniteSet(UsedSlots) /\ Cardinality(UsedSlots) <= Cardinality(H)
  BY <1>3, <1>5, FS_Surjection
<1>7. /\ Cardinality(Executing) \in Nat /\ Cardinality(H) \in Nat /\ Cardinality(UsedSlots) \in Nat
  BY <1>4, <1>5, <1>6, FS_CardinalityType
<1>8. Cardinality(1..MaxConcurrency) = MaxConcurrency
  BY LimitsAssumption, FS_Interval
<1>9. ASSUME 1..MaxConcurrency \in SUBSET UsedSlots PROVE FALSE
  <2>1. Cardinality(1..MaxConcurrency) <= Cardinality(UsedSlots)
    BY <1>6, <1>9, FS_Subset
  <2> QED BY <1>5, <1>6, <1>7, <1>8, <2>1, LimitsAssumption
<1> QED BY <1>9

(* Without failing writes slots are numbered up to the limit, each once.   *)
SlotsInv == /\ stranded = {}
            /\ \A j \in Jobs : slot[j] <= MaxConcurrency
            /\ \A j, k \in Jobs : slot[j] = slot[k] /\ slot[j] # 0 => j = k

LEMMA StepSlotsInv ==
  ASSUME ~DatabaseErrors, TasksInv, SlotsInv, [Next]_vars
  PROVE  SlotsInv'
<1>0. TypeOK /\ slot \in [Jobs -> Nat] /\ \A t \in tasks : t.job \in Jobs
  BY DEF TasksInv, TypeOK, TaskRecord
<1>1. ASSUME NEW t \in tasks, AttemptStarts(t) PROVE SlotsInv'
  <2>1. /\ stranded' = stranded /\ slot' = [slot EXCEPT ![t.job] = LowestSlot]
        /\ Cardinality(Executing) < MaxConcurrency
    BY <1>1 DEF AttemptStarts
  <2>2. LowestSlot \in 1..MaxConcurrency /\ LowestSlot \notin UsedSlots
    BY <1>0, <2>1, FreeSlot, LowestSlotIs DEF SlotsInv
  <2>3. \A j \in Jobs : slot[j] # LowestSlot
    BY <2>2 DEF UsedSlots
  <2> QED BY <1>0, <2>1, <2>2, <2>3, LimitsAssumption DEF SlotsInv
<1>2. ASSUME NEW t \in tasks, RunnerReturns(t) \/ RunnerFails(t) \/ RunnerStops(t) PROVE SlotsInv'
  <2>1. slot' = [slot EXCEPT ![t.job] = 0] /\ stranded' = stranded
    BY <1>2 DEF RunnerReturns, RunnerFails, RunnerStops, AttemptEnds, SlotFreed
  <2> QED BY <1>0, <2>1, LimitsAssumption DEF SlotsInv
<1>3. ASSUME Exits \/ Crashes PROVE SlotsInv'
  <2>1. slot' = [j \in Jobs |-> 0] /\ stranded' = {}
    BY <1>3 DEF Exits, Crashes, Gone
  <2> QED BY <2>1, LimitsAssumption DEF SlotsInv
<1>4. ASSUME \/ Handler \/ Pause \/ Shutdown \/ Restarts
             \/ \E j \in Jobs : LoopWriteLands(j)
             \/ \E c \in Threads : Thread(c)
             \/ \E t \in tasks : CancelRequested(t) \/ NeverStarts(t) \/ StartRefused(t) \/ TaskDone(t)
             \/ UNCHANGED vars
      PROVE  SlotsInv'
  <2>1. UNCHANGED <<slot, stranded>>
    BY <1>0, <1>4, HandlerSteps DEF Pause, Shutdown, Restarts, LoopWriteLands, Thread, CancelBegins,
       LegacyRequeueBegins, CallWriteLands, CancelPosts, CancelRequested, NeverStarts,
       StartRefused, TaskDone, vars
  <2> QED BY <2>1 DEF SlotsInv
<1> QED BY <1>1, <1>2, <1>3, <1>4 DEF Next, Coroutine, Handler, TaskStep

(* Without failing writes the tasks stay within the limit, so the          *)
(* semaphore never makes one wait, and so do the slot numbers, each held   *)
(* by one job only.                                                        *)
THEOREM WithinConcurrencyCorrect ==
  ASSUME ~DatabaseErrors
  PROVE  Spec => []WithinConcurrency
<1>1. Init => OrderInv /\ SlotsInv
  <2>1. Init => SlotsInv
    BY LimitsAssumption DEF Init, SlotsInv
  <2> QED BY <2>1, InitOrderInv
<1>2. OrderInv /\ SlotsInv /\ [Next]_vars => (OrderInv /\ SlotsInv)'
  BY StepOrderInv, StepSlotsInv DEF OrderInv, KnownInv
<1>3. OrderInv /\ SlotsInv => WithinConcurrency
  <2> SUFFICES ASSUME OrderInv, SlotsInv PROVE WithinConcurrency
    OBVIOUS
  <2>1. OneTask(handle, tasks) /\ tasks \subseteq TaskRecord /\ Limited(tasks)
    BY DEF OrderInv, KnownInv, TasksInv, TypeOK
  <2>2. Cardinality({t \in tasks : t.phase # "done"}) = Cardinality(LiveJobs(tasks))
    BY <2>1, LiveTasks
  <2> QED BY <2>1, <2>2 DEF WithinConcurrency, SlotsInv, Limited
<1> QED BY <1>1, <1>2, <1>3, PTL DEF Spec
-----------------------------------------------------------------------------
(* The shutdown.                                                           *)

ToldToStop(t) == t.cancel # "no" \/ Cancelling(t.job)

(* A task matches its job or has been, or is about to be, told to stop.    *)
Matches(t, s) ==
    /\ t.phase = "ready" => s = "queued" \/ ToldToStop(t)
    /\ t.phase = "running" => s = "running" \/ ToldToStop(t)

Matching(m, ts) == \A t \in ts : Matches(t, m[t.job].status)

RunningHasSlot ==
    process \in {"up", "stopping"} =>
        \A j \in Jobs : mem[j].status = "running" => slot[j] # 0

Stopping ==
    process = "stopping" =>
        /\ ~accepting /\ \A c \in Threads : calls[c] = Idle
        /\ \A j \in Jobs : mem[j].status # "running"
        /\ \A t \in tasks : t.phase # "done" => Terminal(mem[t.job]) /\ t.cancel # "no"

LEMMA PassedMatching ==
  ASSUME NEW S, NEW m, NEW h, NEW ts, NEW started, NEW spent, NEW m2, NEW h2, NEW ts2,
         Schedulable(S, m, h, ts), Passed(S, m, h, ts, started, spent, m2, h2, ts2),
         OneTask(h, ts), Matching(m, ts)
  PROVE  Matching(m2, ts2)
<1>1. /\ \A j \in started \cup spent : m[j].status = "queued" /\ h[j] = 0 /\ j \in Jobs
      /\ \A j \in started : m2[j] = m[j]
      /\ \A j \in Jobs : m2[j] = m[j] \/ j \in spent
  <2>1. \A j \in started \cup spent : m[j].status = "queued" /\ h[j] = 0 /\ j \in Jobs
    BY DEF Passed, Waiting, Schedulable
  <2>2. \A j \in started : j \notin spent
    <3>1. \A j \in started : m[j].attempts \in 0..MaxAttempts
      BY <2>1, RowFields DEF Schedulable
    <3> QED BY <3>1, LimitsAssumption DEF Passed
  <2>3. \A j \in Jobs : j \notin spent => m2[j] = m[j]
    BY DEF Passed
  <2> QED BY <2>1, <2>2, <2>3
<1>2. ASSUME NEW t \in ts PROVE Matches(t, m2[t.job].status)
  <2>1. t.job \in Jobs /\ t.job \notin spent
    BY <1>1 DEF OneTask, Schedulable, TaskRecord
  <2> QED BY <1>1, <2>1 DEF Matching
<1>3. ASSUME NEW j \in started PROVE Matches(NewTask(j, ts), m2[j].status) /\ NewTask(j, ts).job = j
  BY <1>1 DEF Matches, NewTask
<1>4. ts2 = ts \cup {NewTask(j, ts) : j \in started}
  BY DEF Passed
<1>5. ASSUME NEW t \in ts2 PROVE Matches(t, m2[t.job].status)
  <2>1. CASE t \in ts
    BY <1>2, <2>1
  <2>2. ASSUME NEW j \in started, t = NewTask(j, ts) PROVE Matches(t, m2[t.job].status)
    BY <1>3, <2>2
  <2> QED BY <1>4, <2>1, <2>2
<1> QED BY <1>5 DEF Matching

LEMMA StepMatching ==
  ASSUME ~DatabaseErrors, KnownInv, StopsCancel, Matching(mem, tasks), [Next]_vars
  PROVE  Matching(mem, tasks)'
<1>0. /\ TypeOK /\ OneTask(handle, tasks)
      /\ mem \in [Jobs -> Row] /\ calls \in [Threads -> Call \cup {Idle}]
      /\ handle \in [Jobs -> 0..2]
      /\ tasks \subseteq TaskRecord /\ \A t \in tasks : t.job \in Jobs /\ handle[t.job] # 0
      /\ \A j \in Jobs : mem[j].status = "absent" => handle[j] = 0
  BY DEF KnownInv, TasksInv, TypeOK, OneTask, TaskRecord, Untouched
<1>a. \A s, t \in tasks : s.job = t.job => s = t
  BY <1>0 DEF OneTask
<1>b. ASSUME UNCHANGED calls, Matching(mem', tasks') PROVE Matching(mem, tasks)'
  BY <1>b DEF Matching, Matches, ToldToStop, Cancelling
<1>1. ASSUME Handler PROVE Matching(mem, tasks)'
  <2>1. UNCHANGED calls
    BY <1>0, <1>1, HandlerSteps
  <2>2. PICK m, S, touched : \E started, spent \in SUBSET Jobs :
           Handled(S, m, touched, started, spent, mem', handle', tasks', unwritten')
    BY <1>0, <1>1, HandlerSteps
  <2>3. PICK started \in SUBSET Jobs, spent \in SUBSET Jobs :
           Handled(S, m, touched, started, spent, mem', handle', tasks', unwritten')
    BY <2>2
  <2>4. ASSUME NEW t \in tasks PROVE Matches(t, m[t.job].status)
    <3>1. t.job \in Jobs /\ handle[t.job] # 0 /\ Matches(t, mem[t.job].status)
      BY <1>0 DEF Matching
    <3>2. CASE m[t.job] = mem[t.job]
      BY <3>1, <3>2
    <3>3. CASE m[t.job] # mem[t.job]
      <4>1. PICK k \in Jobs, q \in Row : m = With(k, q) /\ ByHandler(k, q)
        BY <2>3, <3>3, <3>1 DEF Handled, HandledTo
      <4>2. k = t.job /\ m[t.job] = q
        BY <1>0, <3>1, <3>3, <4>1 DEF With
      <4>3. mem[k].status # "absent" /\ mem[k] \in Row
        BY <1>0, <3>1, <4>2
      <4>4. \/ mem[k].status \in {"failed", "cancelled"}
            \/ mem[k].status = "queued" /\ q = [mem[k] EXCEPT !.attempts = 0]
        BY <4>1, <4>3 DEF ByHandler
      <4>5. [mem[k] EXCEPT !.attempts = 0].status = mem[k].status
        BY <4>3 DEF Row
      <4> QED BY <3>1, <4>2, <4>4, <4>5 DEF Matches
    <3> QED BY <3>2, <3>3
  <2>5. Matching(m, tasks)
    BY <2>4 DEF Matching
  <2>6. Matching(mem', tasks')
    BY <1>0, <2>3, <2>5, PassedMatching DEF Handled
  <2> QED BY <1>b, <2>1, <2>6
<1>2. ASSUME NEW t \in tasks, TaskDone(t) PROVE Matching(mem, tasks)'
  <2> DEFINE h == [handle EXCEPT ![t.job] = 0]
  <2>1. /\ UNCHANGED calls
        /\ Schedulable(Jobs, DoneMem(t), h, tasks \ {t})
        /\ \E started, spent \in SUBSET Jobs :
              Passed(Jobs, DoneMem(t), h, tasks \ {t}, started, spent, mem', handle', tasks')
    BY <1>0, <1>2, DoneSteps
  <2>2. OneTask(h, tasks \ {t})
    BY <1>0 DEF OneTask
  <2>3. \A s \in tasks \ {t} : DoneMem(t)[s.job] = mem[s.job]
    BY <1>0, <1>a DEF DoneMem, With
  <2>4. Matching(DoneMem(t), tasks \ {t})
    BY <2>3 DEF Matching
  <2> HIDE DEF h
  <2>5. Matching(mem', tasks')
    BY <2>1, <2>2, <2>4, PassedMatching
  <2> QED BY <1>b, <2>1, <2>5
<1>3. ASSUME Restarts PROVE Matching(mem, tasks)'
  <2>1. /\ process \in {"stopped", "crashed"} /\ UNCHANGED calls
        /\ Schedulable(Jobs, Recovered, handle, tasks)
        /\ \E started, spent \in SUBSET Jobs :
              Passed(Jobs, Recovered, handle, tasks, started, spent, mem', handle', tasks')
    BY <1>0, <1>3, RestartSteps
  <2>2. tasks = {}
    BY <2>1 DEF KnownInv, Down
  <2>3. Matching(Recovered, tasks)
    BY <2>2 DEF Matching
  <2>4. Matching(mem', tasks')
    BY <1>0, <2>1, <2>3, PassedMatching
  <2> QED BY <1>b, <2>1, <2>4
<1>4. ASSUME \/ Pause \/ \E j \in Jobs : LoopWriteLands(j)
             \/ UNCHANGED vars
      PROVE  Matching(mem, tasks)'
  <2>1. UNCHANGED <<mem, tasks, calls>>
    BY <1>4 DEF Pause, LoopWriteLands, vars
  <2> QED BY <1>b, <2>1
<1>5. ASSUME NEW c \in Threads, CallWriteLands(c) PROVE Matching(mem, tasks)'
  <2>1. /\ UNCHANGED <<mem, tasks>> /\ calls[c] # Idle /\ calls[c] \in Call
        /\ calls' = [calls EXCEPT ![c] = IF calls[c].op = "cancel"
                                         THEN [calls[c] EXCEPT !.step = "stop"] ELSE Idle]
    BY <1>0, <1>5 DEF CallWriteLands
  <2>2. ASSUME NEW j \in Jobs, Cancelling(j) PROVE Cancelling(j)'
    <3>1. PICK d \in Threads : calls[d] # Idle /\ calls[d].op = "cancel" /\ calls[d].job = j
      BY <2>2 DEF Cancelling
    <3>2. CASE d # c
      <4>1. calls'[d] = calls[d]
        BY <1>0, <2>1, <3>2
      <4> QED BY <3>1, <4>1 DEF Cancelling
    <3>3. CASE d = c
      <4>1. calls'[c] = [calls[c] EXCEPT !.step = "stop"]
        BY <1>0, <2>1, <3>1, <3>3
      <4>2. calls'[c] \in Call /\ calls'[c].op = "cancel" /\ calls'[c].job = j
        BY <2>1, <3>1, <3>3, <4>1 DEF Call
      <4> QED BY <4>2, MarkersAssumption DEF Cancelling
    <3> QED BY <3>2, <3>3
  <2> QED BY <1>0, <2>1, <2>2 DEF Matching, Matches, ToldToStop
<1>6. ASSUME NEW c \in Threads, CancelPosts(c) PROVE Matching(mem, tasks)'
  <2>1. /\ UNCHANGED mem /\ calls[c] # Idle /\ calls[c] \in Call /\ calls[c].op = "cancel"
        /\ calls' = [calls EXCEPT ![c] = Idle]
    BY <1>0, <1>6 DEF CancelPosts, StopsCancel
  <2>2. ASSUME NEW j \in Jobs, Cancelling(j), j # calls[c].job PROVE Cancelling(j)'
    <3>1. PICK d \in Threads : calls[d] # Idle /\ calls[d].op = "cancel" /\ calls[d].job = j
      BY <2>2 DEF Cancelling
    <3>2. calls'[d] = calls[d]
      BY <1>0, <2>1, <2>2, <3>1
    <3> QED BY <3>1, <3>2 DEF Cancelling
  <2>3. ASSUME NEW u \in tasks' PROVE Matches(u, mem[u.job].status)'
    <3>1. PICK t \in tasks : u = IF t \in Tracked(handle, tasks) /\ t.job = calls[c].job /\ t.cancel = "no"
                                 THEN [t EXCEPT !.cancel = "posted"] ELSE t
      BY <1>6 DEF CancelPosts
    <3>2. Matches(t, mem[t.job].status) /\ t \in TaskRecord /\ t.job \in Jobs
      BY <1>0 DEF Matching
    <3>3. CASE u = [t EXCEPT !.cancel = "posted"]
      <4>1. u.job = t.job /\ u.phase = t.phase /\ u.cancel = "posted"
        BY <3>2, <3>3 DEF TaskRecord
      <4> QED BY <4>1 DEF Matches, ToldToStop
    <3>4. CASE u = t /\ (t.job # calls[c].job \/ t.cancel # "no" \/ t.phase = "done")
      BY <2>1, <2>2, <3>2, <3>4 DEF Matches, ToldToStop
    <3>5. t.phase # "done" => t \in Tracked(handle, tasks)
      BY <1>0 DEF Tracked, OneTask
    <3> QED BY <3>1, <3>3, <3>4, <3>5
  <2> QED BY <2>3 DEF Matching
<1>7. ASSUME NEW c \in Threads, NEW j \in Jobs, CancelBegins(c, j) PROVE Matching(mem, tasks)'
  <2>1. /\ mem' = With(j, CancelledRow(mem[j])) /\ calls[c] = Idle
        /\ calls' = [calls EXCEPT ![c] = [op |-> "cancel", job |-> j, step |-> "write",
                                          row |-> CancelledRow(mem[j])]]
    BY <1>7 DEF CancelBegins, Begins
  <2>2. ASSUME NEW i \in Jobs, i = j \/ Cancelling(i) PROVE Cancelling(i)'
    <3>1. CASE i = j
      <4>1. calls'[c] \in Call /\ calls'[c].op = "cancel" /\ calls'[c].job = i
        BY <1>0, <2>1, <3>1, CancelledRowIs DEF Call
      <4> QED BY <4>1, MarkersAssumption DEF Cancelling
    <3>2. CASE Cancelling(i)
      <4>1. PICK d \in Threads : calls[d] # Idle /\ calls[d].op = "cancel" /\ calls[d].job = i
        BY <3>2 DEF Cancelling
      <4>2. calls'[d] = calls[d]
        BY <1>0, <2>1, <4>1
      <4> QED BY <4>1, <4>2 DEF Cancelling
    <3> QED BY <2>2, <3>1, <3>2
  <2>3. ASSUME NEW u \in tasks' PROVE Matches(u, mem[u.job].status)'
    <3>1. PICK t \in tasks : u = [t EXCEPT !.revoked = t.revoked \/ (t.job = j /\ t.phase = "running")]
      BY <1>7 DEF CancelBegins
    <3>2. Matches(t, mem[t.job].status) /\ t \in TaskRecord /\ t.job \in Jobs
      BY <1>0 DEF Matching
    <3>3. u.job = t.job /\ u.phase = t.phase /\ u.cancel = t.cancel
      BY <3>1, <3>2 DEF TaskRecord
    <3>4. t.job # j => mem'[t.job] = mem[t.job]
      BY <1>0, <2>1, <3>2 DEF With
    <3> QED BY <2>2, <3>2, <3>3, <3>4 DEF Matches, ToldToStop
  <2> QED BY <2>3 DEF Matching
<1>8. ASSUME NEW c \in Threads, NEW j \in Jobs, LegacyRequeueBegins(c, j) PROVE Matching(mem, tasks)'
  <2>1. /\ UNCHANGED tasks /\ calls[c] = Idle
        /\ mem[j].status \in {"failed", "cancelled"}
        /\ \A i \in Jobs \ {j} : mem'[i] = mem[i]
        /\ \A d \in Threads \ {c} : calls'[d] = calls[d]
    BY <1>0, <1>8 DEF LegacyRequeueBegins, Begins, With
  <2>2. ASSUME NEW i \in Jobs, Cancelling(i) PROVE Cancelling(i)'
    <3>1. PICK d \in Threads : calls[d] # Idle /\ calls[d].op = "cancel" /\ calls[d].job = i
      BY <2>2 DEF Cancelling
    <3>2. calls'[d] = calls[d]
      BY <2>1, <3>1
    <3> QED BY <3>1, <3>2 DEF Cancelling
  <2> QED BY <1>0, <2>1, <2>2 DEF Matching, Matches, ToldToStop
<1>9. ASSUME NEW t \in tasks,
             \/ CancelRequested(t) \/ NeverStarts(t) \/ StartRefused(t) \/ AttemptStarts(t)
             \/ RunnerReturns(t) \/ RunnerFails(t) \/ RunnerStops(t)
      PROVE  Matching(mem, tasks)'
  <2>1. Matches(t, mem[t.job].status) /\ t \in TaskRecord /\ t.job \in Jobs
    BY <1>0 DEF Matching
  <2>2. UNCHANGED calls /\ \A j \in Jobs \ {t.job} : mem'[j] = mem[j]
    BY <1>0, <1>9 DEF CancelRequested, NeverStarts, StartRefused, AttemptStarts, RunnerReturns,
       RunnerFails, RunnerStops, AttemptEnds, With
  <2>3. PICK u : /\ tasks' = Replaced(t, u) /\ u.job = t.job
                 /\ Matches(u, mem'[t.job].status)
    <3>1. CASE CancelRequested(t)
      <4> DEFINE d == IF t.phase = "done" THEN "no" ELSE "requested"
                 u == [t EXCEPT !.cancel = d]
      <4>1. mem' = mem /\ tasks' = Replaced(t, u)
        BY <3>1 DEF CancelRequested
      <4>2. u.job = t.job /\ u.phase = t.phase /\ u.cancel = d
        BY <2>1 DEF TaskRecord
      <4>3. Matches(u, mem'[t.job].status)
        BY <4>2 DEF Matches, ToldToStop
      <4> QED BY <4>1, <4>2, <4>3
    <3>2. CASE AttemptStarts(t)
      <4>1. /\ tasks' = Replaced(t, [t EXCEPT !.phase = "running"])
            /\ mem'[t.job].status = "running"
        BY <1>0, <2>1, <3>2 DEF AttemptStarts, Row
      <4>2. [t EXCEPT !.phase = "running"].job = t.job /\ [t EXCEPT !.phase = "running"].phase = "running"
        BY <2>1 DEF TaskRecord
      <4> QED BY <4>1, <4>2 DEF Matches
    <3>3. CASE \/ NeverStarts(t) \/ StartRefused(t)
               \/ RunnerReturns(t) \/ RunnerFails(t) \/ RunnerStops(t)
      <4>1. CASE NeverStarts(t)
        <5>1. tasks' = Replaced(t, [t EXCEPT !.phase = "done", !.cancelled = TRUE])
          BY <4>1 DEF NeverStarts
        <5>2. LET u == [t EXCEPT !.phase = "done", !.cancelled = TRUE]
              IN u.job = t.job /\ u.phase = "done"
          BY <2>1 DEF TaskRecord
        <5> QED BY <5>1, <5>2 DEF Matches
      <4>2. CASE StartRefused(t) \/ RunnerReturns(t) \/ RunnerFails(t) \/ RunnerStops(t)
        <5>1. tasks' = Replaced(t, [t EXCEPT !.phase = "done"])
          BY <4>2 DEF StartRefused, RunnerReturns, RunnerFails, RunnerStops, AttemptEnds
        <5>2. LET u == [t EXCEPT !.phase = "done"] IN u.job = t.job /\ u.phase = "done"
          BY <2>1 DEF TaskRecord
        <5> QED BY <5>1, <5>2 DEF Matches
      <4> QED BY <3>3, <4>1, <4>2
    <3> QED BY <1>9, <3>1, <3>2, <3>3
  <2>4. ASSUME NEW s \in tasks' PROVE Matches(s, mem'[s.job].status)
    <3>1. s = u \/ (s \in tasks /\ s.job # t.job)
      BY <1>a, <2>3 DEF Replaced
    <3> QED BY <1>0, <2>2, <2>3, <3>1 DEF Matching
  <2> QED BY <1>b, <2>2, <2>4 DEF Matching
<1>10. ASSUME Shutdown PROVE Matching(mem, tasks)'
  <2>1. UNCHANGED calls /\ \A c \in Threads : calls[c] = Idle
    BY <1>10 DEF Shutdown
  <2>2. ASSUME NEW u \in tasks' PROVE Matches(u, mem'[u.job].status)
    <3>1. PICK t \in tasks : u = IF t.job \in CancelledAtShutdown /\ t \in Tracked(handle, tasks)
                                 THEN [t EXCEPT !.cancel = "requested", !.revoked = t.phase = "running"]
                                 ELSE t
      BY <1>10 DEF Shutdown
    <3>2. Matches(t, mem[t.job].status) /\ t \in TaskRecord /\ t.job \in Jobs
      BY <1>0 DEF Matching
    <3>3. CASE t.job \in CancelledAtShutdown /\ t \in Tracked(handle, tasks)
      <4>1. u = [t EXCEPT !.cancel = "requested", !.revoked = t.phase = "running"]
        BY <3>1, <3>3
      <4>2. u.cancel = "requested"
        BY <3>2, <4>1 DEF TaskRecord
      <4> QED BY <4>2 DEF Matches, ToldToStop
    <3>4. CASE t.job \notin CancelledAtShutdown
      <4>1. mem'[t.job] = mem[t.job]
        BY <1>10, <3>2, <3>4 DEF Shutdown
      <4> QED BY <3>1, <3>2, <3>4, <4>1
    <3>5. CASE t \notin Tracked(handle, tasks)
      <4>1. u = t /\ t.phase = "done"
        BY <1>0, <3>1, <3>5 DEF Tracked, OneTask
      <4> QED BY <4>1 DEF Matches
    <3> QED BY <3>3, <3>4, <3>5
  <2> QED BY <1>b, <2>1, <2>2 DEF Matching
<1>11. ASSUME Exits \/ Crashes PROVE Matching(mem, tasks)'
  <2>1. tasks' = {}
    BY <1>11 DEF Exits, Crashes, Gone
  <2> QED BY <2>1 DEF Matching
<1> QED
  BY <1>1, <1>2, <1>3, <1>4, <1>5, <1>6, <1>7, <1>8, <1>9, <1>10, <1>11
  DEF Next, Coroutine, Handler, Thread, TaskStep
-----------------------------------------------------------------------------
(* A job says it is running because its attempt starts in this step, or    *)
(* because it has been running and its slot stays what it is.              *)
LEMMA StaysRunning ==
  ASSUME TypeOK, [Next]_vars, process' \in {"up", "stopping"},
         NEW j \in Jobs, mem'[j].status = "running"
  PROVE  \/ \E t \in tasks : AttemptStarts(t) /\ t.job = j
         \/ /\ process \in {"up", "stopping"} /\ mem[j].status = "running"
            /\ slot'[j] = slot[j]
<1> DEFINE Goal == \/ \E t \in tasks : AttemptStarts(t) /\ t.job = j
                   \/ /\ process \in {"up", "stopping"} /\ mem[j].status = "running"
                      /\ slot'[j] = slot[j]
<1>0. /\ mem \in [Jobs -> Row] /\ mem[j] \in Row /\ slot \in [Jobs -> Nat]
      /\ tasks \subseteq TaskRecord /\ \A t \in tasks : t.job \in Jobs
  BY DEF TypeOK, TaskRecord
<1>1. ASSUME Handler PROVE Goal
  <2>1. process = "up" /\ UNCHANGED slot
    BY <1>1, HandlerSteps
  <2>2. PICK m, S, touched : \E started, spent \in SUBSET Jobs :
           Handled(S, m, touched, started, spent, mem', handle', tasks', unwritten')
    BY <1>1, HandlerSteps
  <2>3. PICK started \in SUBSET Jobs, spent \in SUBSET Jobs :
           Handled(S, m, touched, started, spent, mem', handle', tasks', unwritten')
    BY <2>2
  <2>4. m[j] \in Row /\ (mem'[j] = m[j] \/ mem'[j] = Exhausted(m[j]))
    BY <2>3, PassedRow DEF Handled
  <2>5. mem'[j] = m[j]
    BY <2>4, ExhaustedRow
  <2>6. CASE m[j] # mem[j]
    <3>1. PICK k \in Jobs, q \in Row : m = With(k, q) /\ ByHandler(k, q)
      BY <2>3, <2>6 DEF Handled, HandledTo
    <3>2. k = j /\ m[j] = q
      BY <1>0, <2>6, <3>1 DEF With
    <3> DEFINE n == Cardinality({i \in Jobs : mem[i].status # "absent"}) + 1
    <3>3. n \in Nat
      BY <1>0, JobsAssumption, FS_Subset, FS_CardinalityType
    <3>4. \/ q = NewRow(n) \/ q = RequeuedRow(mem[j]) \/ q = Exhausted(mem[j])
          \/ mem[j].status = "queued" /\ q = [mem[j] EXCEPT !.attempts = 0]
      BY <3>1, <3>2 DEF ByHandler
    <3> HIDE DEF n
    <3>5. [mem[j] EXCEPT !.attempts = 0].status = mem[j].status
      BY <1>0 DEF Row
    <3>6. q.status # "running"
      BY <1>0, <3>3, <3>4, <3>5, NewRowIs, RequeuedRowIs, ExhaustedRow
    <3> QED BY <2>5, <3>2, <3>6
  <2> QED BY <2>1, <2>5, <2>6
<1>2. ASSUME NEW t \in tasks, TaskDone(t) PROVE Goal
  <2> DEFINE h == [handle EXCEPT ![t.job] = 0]
  <2>1. /\ UNCHANGED <<slot, process>> /\ LoopFree
        /\ \E started, spent \in SUBSET Jobs :
              Passed(Jobs, DoneMem(t), h, tasks \ {t}, started, spent, mem', handle', tasks')
        /\ Schedulable(Jobs, DoneMem(t), h, tasks \ {t})
    BY <1>2, DoneSteps
  <2> HIDE DEF h
  <2>2. DoneMem(t)[j] \in Row /\ (mem'[j] = DoneMem(t)[j] \/ mem'[j] = Exhausted(DoneMem(t)[j]))
    BY <2>1, PassedRow DEF Schedulable
  <2>3. mem'[j] = DoneMem(t)[j]
    BY <2>2, ExhaustedRow
  <2>4. DoneMem(t)[j] = mem[j]
        \/ DoneMem(t)[j] = Ended(mem[j], "cancelled", "worker_task_cancelled_before_start")
    BY <1>0 DEF DoneMem, With
  <2>5. DoneMem(t)[j] = mem[j]
    BY <1>0, <2>3, <2>4, EndedRow, Values
  <2> QED BY <2>1, <2>3, <2>5 DEF LoopFree
<1>3. ~Restarts
  <2> SUFFICES ASSUME Restarts PROVE FALSE
    OBVIOUS
  <2>1. /\ Schedulable(Jobs, Recovered, handle, tasks)
        /\ \E started, spent \in SUBSET Jobs :
              Passed(Jobs, Recovered, handle, tasks, started, spent, mem', handle', tasks')
    BY RestartSteps
  <2>2. Recovered[j] \in Row /\ (mem'[j] = Recovered[j] \/ mem'[j] = Exhausted(Recovered[j]))
    BY <2>1, PassedRow DEF Schedulable
  <2>3. Recovered[j].status # "running"
    BY <1>0, RecoveredRowIs DEF Recovered
  <2> QED BY <2>2, <2>3, ExhaustedRow
<1>4. ASSUME NEW t \in tasks, AttemptStarts(t) PROVE Goal
  <2>1. CASE t.job # j
    BY <1>0, <1>4, <2>1 DEF AttemptStarts, LoopFree
  <2> QED BY <1>4, <2>1
<1>5. ASSUME NEW t \in tasks, NEW v \in {"completed", "failed", "cancelled"}, NEW w \in Reasons,
             AttemptEnds(t, v, w)
      PROVE  Goal
  <2>1. /\ mem' = [mem EXCEPT ![t.job] = Outcome(mem[t.job], v, w)]
        /\ slot' = [slot EXCEPT ![t.job] = 0] /\ LoopFree
    BY <1>5 DEF AttemptEnds, With, SlotFreed
  <2>2. t.job # j
    BY <1>0, <2>1, OutcomeRow, Values
  <2> QED BY <1>0, <2>1, <2>2 DEF LoopFree
<1>6. ASSUME NEW t \in tasks, RunnerReturns(t) \/ RunnerFails(t) \/ RunnerStops(t) PROVE Goal
  BY <1>5, <1>6, Values DEF RunnerReturns, RunnerFails, RunnerStops
<1>7. ASSUME \/ Pause \/ \E i \in Jobs : LoopWriteLands(i)
             \/ \E c \in Threads : CallWriteLands(c) \/ CancelPosts(c)
             \/ \E t \in tasks : CancelRequested(t) \/ NeverStarts(t)
             \/ UNCHANGED vars
      PROVE  Goal
  BY <1>7 DEF Pause, LoopWriteLands, CallWriteLands, CancelPosts, CancelRequested, NeverStarts, vars
<1>8. ASSUME NEW c \in Threads, NEW i \in Jobs, CancelBegins(c, i) \/ LegacyRequeueBegins(c, i)
      PROVE  Goal
  <2>1. /\ UNCHANGED slot /\ process = "up"
        /\ \/ mem' = With(i, CancelledRow(mem[i]))
           \/ mem' = With(i, Exhausted(mem[i])) \/ mem' = With(i, RequeuedRow(mem[i]))
    BY <1>8 DEF CancelBegins, LegacyRequeueBegins, Begins
  <2>2. i # j
    BY <1>0, <2>1, CancelledRowIs, ExhaustedRow, RequeuedRowIs DEF With
  <2> QED BY <1>0, <2>1, <2>2 DEF With
<1>9. ASSUME NEW t \in tasks, StartRefused(t) PROVE Goal
  <2>1. /\ UNCHANGED slot /\ LoopFree
        /\ mem' = mem \/ mem' = With(t.job, Exhausted(mem[t.job]))
    BY <1>9 DEF StartRefused
  <2>2. mem'[j] = mem[j]
    BY <1>0, <2>1, ExhaustedRow DEF With
  <2> QED BY <2>1, <2>2 DEF LoopFree
<1>10. ASSUME Shutdown PROVE Goal
  <2>1. /\ UNCHANGED slot /\ process = "up"
        /\ mem'[j] = mem[j] \/ mem'[j] = CancelledRow(mem[j])
    BY <1>10 DEF Shutdown
  <2> QED BY <1>0, <2>1, CancelledRowIs
<1>11. ~ (Exits \/ Crashes)
  BY DEF Exits, Crashes, Gone
<1> QED
  BY <1>1, <1>2, <1>3, <1>4, <1>6, <1>7, <1>8, <1>9, <1>10, <1>11
  DEF Next, Coroutine, Handler, Thread, TaskStep

LEMMA StepRunningHasSlot ==
  ASSUME TypeOK, RunningHasSlot, [Next]_vars
  PROVE  RunningHasSlot'
<1> SUFFICES ASSUME process' \in {"up", "stopping"}, NEW j \in Jobs, mem'[j].status = "running"
             PROVE  slot'[j] # 0
  BY DEF RunningHasSlot
<1>1. CASE \E t \in tasks : AttemptStarts(t) /\ t.job = j
  BY <1>1, LowestSlotIs DEF AttemptStarts, TypeOK
<1> QED BY <1>1, StaysRunning DEF RunningHasSlot

(* The step that begins the shutdown: a running job holds a slot, so its   *)
(* task is tracked and both are cancelled; a task whose job is terminal    *)
(* already has been told to stop, since no cancellation is on its way.     *)
LEMMA ShutdownBegins ==
  ASSUME KnownInv, SlotsInv, Matching(mem, tasks), RunningHasSlot, Shutdown
  PROVE  Stopping'
<1>0. /\ mem \in [Jobs -> Row] /\ OneTask(handle, tasks) /\ Backed(slot, stranded, tasks)
      /\ stranded = {} /\ process = "up" /\ \A c \in Threads : calls[c] = Idle
      /\ tasks \subseteq TaskRecord /\ handle \in [Jobs -> 0..2]
      /\ \A t \in tasks : t.job \in Jobs /\ t.copy \in {1, 2}
  BY DEF KnownInv, TasksInv, TypeOK, SlotsInv, TaskRecord, Shutdown
<1>1. ~accepting' /\ \A c \in Threads : calls'[c] = Idle
  BY DEF Shutdown
<1>2. ASSUME NEW j \in Jobs
      PROVE  /\ j \in CancelledAtShutdown => mem'[j].status = "cancelled"
             /\ j \notin CancelledAtShutdown => mem'[j] = mem[j]
  <2>1. mem'[j] = IF j \in CancelledAtShutdown THEN CancelledRow(mem[j]) ELSE mem[j]
    BY DEF Shutdown
  <2> QED BY <1>0, <2>1, CancelledRowIs
<1>3. ASSUME NEW j \in Jobs PROVE mem'[j].status # "running"
  <2>1. CASE mem[j].status = "running"
    <3>1. PICK t \in tasks : t.job = j
      BY <1>0, <2>1 DEF RunningHasSlot, Backed
    <3>2. handle[j] # 0
      BY <1>0, <3>1 DEF OneTask
    <3> QED BY <1>2, <2>1, <3>2 DEF CancelledAtShutdown, Terminal
  <2> QED BY <1>2, <2>1
<1>4. ASSUME NEW u \in tasks', u.phase # "done"
      PROVE  Terminal(mem'[u.job]) /\ u.cancel # "no"
  <2>1. PICK t \in tasks : u = IF t.job \in CancelledAtShutdown /\ t \in Tracked(handle, tasks)
                               THEN [t EXCEPT !.cancel = "requested", !.revoked = t.phase = "running"]
                               ELSE t
    BY DEF Shutdown
  <2>2. u.job = t.job /\ u.phase = t.phase /\ (u = t \/ u.cancel = "requested")
    BY <1>0, <2>1 DEF TaskRecord
  <2>3. t \in Tracked(handle, tasks) /\ handle[t.job] # 0 /\ t.job \in Jobs
    BY <1>0, <1>4, <2>2 DEF Tracked, OneTask
  <2>4. CASE t.job \in CancelledAtShutdown
    <3>1. u = [t EXCEPT !.cancel = "requested", !.revoked = t.phase = "running"]
      BY <2>1, <2>3, <2>4
    <3>2. u.cancel = "requested"
      BY <1>0, <3>1 DEF TaskRecord
    <3> QED BY <1>2, <2>2, <2>3, <2>4, <3>2 DEF Terminal
  <2>5. CASE t.job \notin CancelledAtShutdown
    <3>1. u = t /\ mem'[t.job] = mem[t.job] /\ Terminal(mem[t.job])
      BY <1>2, <2>1, <2>3, <2>5 DEF CancelledAtShutdown
    <3>2. t.phase \in {"ready", "running"} /\ mem[t.job].status \notin {"queued", "running"}
      BY <1>0, <1>4, <2>2, <3>1 DEF TaskRecord, Terminal
    <3>3. ToldToStop(t)
      BY <3>2 DEF Matching, Matches
    <3> QED BY <1>0, <3>1, <3>3 DEF ToldToStop, Cancelling
  <2> QED BY <2>4, <2>5
<1> QED BY <1>1, <1>3, <1>4 DEF Stopping

(* From then on callbacks only end tasks.                                  *)
LEMMA StepStopping ==
  ASSUME ~DatabaseErrors, KnownInv, SlotsInv, Matching(mem, tasks), RunningHasSlot, Stopping,
         [Next]_vars
  PROVE  Stopping'
<1> SUFFICES ASSUME process' = "stopping" PROVE Stopping'
  BY DEF Stopping
<1>0. /\ TypeOK /\ mem \in [Jobs -> Row] /\ OneTask(handle, tasks)
      /\ tasks \subseteq TaskRecord /\ \A t \in tasks : t.job \in Jobs
  BY DEF KnownInv, TasksInv, TypeOK, TaskRecord
<1>1. ~Restarts /\ ~(Exits \/ Crashes)
  BY DEF Restarts, Exits, Crashes, Gone
<1>2. CASE Shutdown
  BY <1>2, ShutdownBegins
<1>3. CASE ~Shutdown
  <2>1. ASSUME \/ Handler \/ Pause \/ \E c \in Threads : Thread(c)
               \/ \E j \in Jobs : LoopWriteLands(j)
               \/ \E t \in tasks : TaskStep(t)
        PROVE  process' = process
    BY <1>0, <2>1, HandlerSteps
    DEF Pause, Thread, CancelBegins, LegacyRequeueBegins, CallWriteLands, CancelPosts,
        LoopWriteLands, TaskStep, CancelRequested, NeverStarts, StartRefused, AttemptStarts,
        RunnerReturns, RunnerFails, RunnerStops, AttemptEnds, TaskDone
  <2>2. process = "stopping"
    BY <1>1, <1>3, <2>1 DEF Next, Coroutine, Handler, vars
  <2>3. /\ ~accepting /\ \A c \in Threads : calls[c] = Idle
        /\ \A j \in Jobs : mem[j].status # "running"
        /\ \A t \in tasks : t.phase # "done" => Terminal(mem[t.job]) /\ t.cancel # "no"
    BY <2>2 DEF Stopping
  <2>4. ~Handler /\ ~Pause /\ \A c \in Threads : ~Thread(c)
    BY <1>0, <2>2, <2>3, HandlerSteps
    DEF Pause, Thread, CancelBegins, LegacyRequeueBegins, Begins, CallWriteLands, CancelPosts
  <2>5. \A t \in tasks : ~AttemptStarts(t)
    <3>1. \A t \in tasks : AttemptStarts(t) => t.phase # "done" /\ ~Terminal(mem[t.job])
      BY DEF AttemptStarts, Terminal
    <3> QED BY <2>3, <3>1
  <2>6. \A j \in Jobs : mem'[j].status # "running"
    BY <1>0, <2>3, <2>5, StaysRunning
  <2>7. CASE UNCHANGED vars \/ \E j \in Jobs : LoopWriteLands(j)
    <3>1. UNCHANGED <<accepting, calls, mem, tasks>>
      BY <2>7 DEF vars, LoopWriteLands
    <3> QED BY <2>3, <3>1 DEF Stopping
  <2>8. ASSUME NEW t \in tasks, TaskStep(t) PROVE Stopping'
    <3>1. UNCHANGED <<accepting, calls>>
      BY <2>8 DEF TaskStep, CancelRequested, NeverStarts, StartRefused, AttemptStarts,
         RunnerReturns, RunnerFails, RunnerStops, AttemptEnds, TaskDone
    <3>2. ASSUME NEW u \in tasks', u.phase # "done"
          PROVE  Terminal(mem'[u.job]) /\ u.cancel # "no"
      <4>1. CASE CancelRequested(t)
        <5> DEFINE d == IF t.phase = "done" THEN "no" ELSE "requested"
                   v == [t EXCEPT !.cancel = d]
        <5>1. mem' = mem /\ tasks' = Replaced(t, v)
          BY <4>1 DEF CancelRequested
        <5>2. v.job = t.job /\ v.phase = t.phase /\ v.cancel = d
          BY <1>0 DEF TaskRecord
        <5>3. CASE u = v
          BY <2>3, <3>2, <5>1, <5>2, <5>3
        <5>4. CASE u \in tasks
          BY <2>3, <3>2, <5>1, <5>4
        <5> QED BY <5>1, <5>3, <5>4 DEF Replaced
      <4>2. CASE NeverStarts(t) \/ StartRefused(t)
                 \/ RunnerReturns(t) \/ RunnerFails(t) \/ RunnerStops(t)
        <5>1. PICK v : tasks' = Replaced(t, v) /\ v.phase = "done"
          <6>1. CASE NeverStarts(t)
            <7>1. tasks' = Replaced(t, [t EXCEPT !.phase = "done", !.cancelled = TRUE])
              BY <6>1 DEF NeverStarts
            <7>2. [t EXCEPT !.phase = "done", !.cancelled = TRUE].phase = "done"
              BY <1>0 DEF TaskRecord
            <7> QED BY <7>1, <7>2
          <6>2. CASE StartRefused(t) \/ RunnerReturns(t) \/ RunnerFails(t) \/ RunnerStops(t)
            <7>1. tasks' = Replaced(t, [t EXCEPT !.phase = "done"])
              BY <6>2 DEF StartRefused, RunnerReturns, RunnerFails, RunnerStops, AttemptEnds
            <7>2. [t EXCEPT !.phase = "done"].phase = "done"
              BY <1>0 DEF TaskRecord
            <7> QED BY <7>1, <7>2
          <6> QED BY <4>2, <6>1, <6>2
        <5>2. u \in tasks /\ u # t
          BY <3>2, <5>1 DEF Replaced
        <5>3. u.job # t.job
          BY <1>0, <5>2 DEF OneTask
        <5>4. mem'[u.job] = mem[u.job]
          BY <1>0, <4>2, <5>2, <5>3 DEF NeverStarts, StartRefused, RunnerReturns, RunnerFails,
             RunnerStops, AttemptEnds, With
        <5> QED BY <2>3, <3>2, <5>2, <5>4
      <4>3. CASE TaskDone(t)
        <5> DEFINE h == [handle EXCEPT ![t.job] = 0]
        <5>1. PICK started, spent \in SUBSET Jobs :
                 /\ Passed(Jobs, DoneMem(t), h, tasks \ {t}, started, spent, mem', handle', tasks')
                 /\ Refused(accepting, started, spent)
          BY <1>0, <4>3, DoneSteps
        <5> HIDE DEF h
        <5>2. started = {} /\ spent = {}
          BY <2>3, <5>1 DEF Refused
        <5>3. tasks' = tasks \ {t} /\ \A j \in Jobs : mem'[j] = DoneMem(t)[j]
          BY <5>1, <5>2 DEF Passed
        <5>4. u \in tasks /\ u.job # t.job
          BY <1>0, <3>2, <5>3 DEF OneTask
        <5>5. mem'[u.job] = mem[u.job]
          BY <1>0, <5>3, <5>4 DEF DoneMem, With
        <5> QED BY <2>3, <3>2, <5>4, <5>5
      <4> QED BY <2>5, <2>8, <4>1, <4>2, <4>3 DEF TaskStep
    <3> QED BY <2>3, <2>6, <3>1, <3>2 DEF Stopping
  <2> QED BY <1>1, <1>3, <2>4, <2>7, <2>8 DEF Next, Coroutine, Handler
<1> QED BY <1>2, <1>3

(* Without failing writes, once the shutdown has begun no job says it is   *)
(* running and every task that is left has been asked to stop: what was on *)
(* its way when the shutdown looked at the jobs starts nothing new.        *)
THEOREM ShutdownStopsCorrect ==
  ASSUME ~DatabaseErrors
  PROVE  Spec => []ShutdownStops
<1> DEFINE I == /\ KnownInv /\ SlotsInv /\ StopsCancel /\ Matching(mem, tasks)
                /\ RunningHasSlot /\ Stopping
<1>1. Init => I
  <2> SUFFICES ASSUME Init PROVE I
    OBVIOUS
  <2>1. KnownInv
    BY InitKnownInv
  <2>2. SlotsInv /\ StopsCancel /\ Matching(mem, tasks) /\ Stopping
    BY LimitsAssumption DEF Init, SlotsInv, StopsCancel, Matching, Stopping
  <2>3. RunningHasSlot
    BY AbsentRowIs DEF Init, RunningHasSlot
  <2> QED BY <2>1, <2>2, <2>3
<1>2. I /\ [Next]_vars => I'
  <2> SUFFICES ASSUME I, [Next]_vars PROVE I'
    OBVIOUS
  <2>1. KnownInv' /\ SlotsInv' /\ StopsCancel'
    BY StepKnownInv, StepSlotsInv, StepStopsCancel DEF KnownInv, TasksInv
  <2>2. Matching(mem, tasks)'
    BY StepMatching
  <2>3. RunningHasSlot' /\ Stopping'
    BY StepRunningHasSlot, StepStopping DEF KnownInv, TasksInv
  <2> QED BY <2>1, <2>2, <2>3
<1>3. I => ShutdownStops
  BY DEF Stopping, ShutdownStops
<1> QED BY <1>1, <1>2, <1>3, PTL DEF Spec
=============================================================================
