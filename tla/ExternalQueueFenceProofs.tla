---------------------- MODULE ExternalQueueFenceProofs ----------------------
(***************************************************************************)
(* Whose result ends up in a row.  finish_claim compares the worker and    *)
(* never the attempt; these theorems say how far that goes: a result is    *)
(* always that of a task of the worker holding the claim, and with one     *)
(* task per worker it is that of the latest claim.                         *)
(***************************************************************************)
EXTENDS ExternalQueueProofs

USE JobsAssumption, WorkersAssumption, LimitsAssumption

(* No row operator invents a result.                                       *)
LEMMA ResultsKept ==
  ASSUME NEW r \in Row
  PROVE  /\ GivenBack(r).result = r.result
         /\ Exhausted(r).result = r.result
         /\ CancelledRow(r).result = r.result
         /\ RequeuedRow(r).result = 0
         /\ \A w \in Workers : ClaimedBy(r, w).result = r.result
         /\ \A n \in Nat : NewRow(n).result = 0
         /\ \A l \in {"live", "lapsed"} : [r EXCEPT !.lease = l].result = r.result
<1>1. /\ Exhausted(r).result = r.result
      /\ CancelledRow(r).result = r.result
      /\ \A w \in Workers : ClaimedBy(r, w).result = r.result
  BY DEF Exhausted, CancelledRow, ClaimedBy, Unclaimed, Row
<1>2. GivenBack(r).result = r.result
  BY DEF GivenBack, Exhausted, Unclaimed, Row
<1>3. RequeuedRow(r).result = 0
  BY DEF RequeuedRow, Unclaimed, Row
<1>4. \A n \in Nat : NewRow(n).result = 0
  BY DEF NewRow
<1>5. \A l \in {"live", "lapsed"} : [r EXCEPT !.lease = l].result = r.result
  BY DEF Row
<1> QED BY <1>1, <1>2, <1>3, <1>4, <1>5

(* Nor does the sweep of claim_next.                                       *)
LEMMA SweptResults ==
  ASSUME row \in [Jobs -> Row], NEW j \in Jobs
  PROVE  Swept[j].result = row[j].result
<1>1. row[j] \in Row
  OBVIOUS
<1> QED BY <1>1, SweptRows, ResultsKept

(* Only a runner's return stores a result.                                 *)
LEMMA OnlyReturnsStore ==
  ASSUME TypeOK, [Next]_vars, ~\E t \in execs : RunnerReturns(t), NEW k \in Jobs
  PROVE  row'[k].result \in {row[k].result, 0}
<1> DEFINE Kept == row'[k].result \in {row[k].result, 0}
<1>0. row \in [Jobs -> Row] /\ row[k] \in Row /\ execs \subseteq Execution
  BY DEF TypeOK
<1>1. ASSUME UNCHANGED row PROVE Kept
  BY <1>1
<1>2. ASSUME NEW j \in Jobs, Enqueue(j) PROVE Kept
  <2> DEFINE n == Cardinality({i \in Jobs : row[i].status # "absent"}) + 1
  <2>1. n \in Nat
    BY FS_Subset, FS_CardinalityType
  <2>2. row' = [row EXCEPT ![j] = NewRow(n)]
    BY <1>2 DEF Enqueue
  <2> HIDE DEF n
  <2> QED BY <1>0, <2>1, <2>2, ResultsKept
<1>3. ASSUME Recover PROVE Kept
  BY <1>0, <1>3, ResultsKept DEF Recover, RecoverExpired
<1>4. ASSUME NEW j \in Jobs, Cancel(j) PROVE Kept
  BY <1>0, <1>4, ResultsKept DEF Cancel
<1>5. ASSUME NEW j \in Jobs, Requeue(j) PROVE Kept
  BY <1>0, <1>5, ResultsKept DEF Requeue
<1>6. ASSUME NEW j \in Jobs, RequeueForced(j) PROVE Kept
  BY <1>0, <1>6, ResultsKept DEF RequeueForced
<1>7. ASSUME PersistForcedRetry PROVE Kept
  BY <1>0, <1>7 DEF PersistForcedRetry, NewRow
<1>8. ASSUME NEW w \in Workers, Claim(w) PROVE Kept
  <2> PICK j \in OldestOf(Swept, Claimable(Swept)) :
          row' = [Swept EXCEPT ![j] = ClaimedBy(Swept[j], w)]
    BY <1>8 DEF Claim
  <2>1. Swept \in [Jobs -> Row] /\ j \in Jobs
    BY <1>0, SweptType DEF OldestOf, Claimable
  <2>2. row'[k].result = Swept[k].result
    BY <2>1, ResultsKept
  <2> QED BY <1>0, <2>2, SweptResults
<1>9. ASSUME NEW w \in Workers, EndPoll(w) PROVE Kept
  BY <1>0, <1>9, SweptResults DEF EndPoll
<1>10. ASSUME NEW t \in execs, Heartbeat(t) PROVE Kept
  <2>1. UNCHANGED row \/ row' = [row EXCEPT ![t.job].lease = "live"]
    BY <1>10 DEF Heartbeat
  <2>2. [row[k] EXCEPT !.lease = "live"].result = row[k].result
    BY <1>0, ResultsKept
  <2> QED BY <1>0, <2>1, <2>2 DEF Execution
<1>11. ASSUME NEW t \in execs, RunnerFails(t) PROVE Kept
  <2>1. UNCHANGED row \/ row' = [row EXCEPT ![t.job] = Failed(row[t.job])]
    BY <1>11 DEF RunnerFails, Failed
  <2>2. Failed(row[k]).result = 0
    BY <1>0 DEF Failed, Unclaimed, Row
  <2> QED BY <1>0, <2>1, <2>2 DEF Execution
<1>12. ASSUME NEW t \in execs, ReleaseClaim(t) PROVE Kept
  BY <1>0, <1>12, ResultsKept DEF ReleaseClaim, Execution
<1>13. ASSUME NEW j \in Jobs, LeaseLapses(j) PROVE Kept
  <2>1. row' = [row EXCEPT ![j].lease = "lapsed"]
    BY <1>13 DEF LeaseLapses
  <2> QED BY <1>0, <2>1, ResultsKept
<1> QED
  BY <1>1, <1>2, <1>3, <1>4, <1>5, <1>6, <1>7, <1>8, <1>9, <1>10, <1>11,
     <1>12, <1>13
  DEF Next, Api, WorkerProcess, TaskStep, vars, Pause, Resume, ApiRestarts,
      StartWorker, BeginPoll, StopWorker, WorkerStopped, WorkerCrashes,
      HeartbeatRaises, OutcomeLost

(* A step that stores a result is the end of a task of the worker that     *)
(* holds the claim.                                                        *)
LEMMA StoredByHolder ==
  ASSUME TypeOK, [Next]_vars, NEW j \in Jobs,
         row'[j].result # row[j].result, row'[j].result # 0
  PROVE  \E t \in execs \ execs' : /\ t.job = j /\ t.worker = row[j].slot
                                   /\ t.claim = row'[j].result
<1>0. row \in [Jobs -> Row] /\ execs \subseteq Execution
  BY DEF TypeOK
<1> PICK t \in execs : RunnerReturns(t)
  BY OnlyReturnsStore
<1>1. /\ Holds(t) /\ row' = [row EXCEPT ![t.job] = Completed(row[t.job], t.claim)]
      /\ t \notin execs'
  BY DEF RunnerReturns, Completed, Ended
<1>2. t.job = j
  BY <1>0, <1>1
<1>3. Completed(row[j], t.claim).result = t.claim
  BY <1>0 DEF Completed, Unclaimed, Row, Execution
<1> QED BY <1>0, <1>1, <1>2, <1>3 DEF Holds

(* A result is only stored for the worker that holds the claim at that     *)
(* moment, from one of its own tasks: a worker that lost the job to        *)
(* another one changes nothing, however late it returns.                   *)
THEOREM ResultsFromHolderCorrect == Spec => ResultsFromHolder
<1>1. TypeOK /\ [Next]_vars =>
        [\A j \in Jobs :
          row'[j].result # row[j].result /\ row'[j].result # 0
            => \E t \in execs \ execs' : /\ t.job = j /\ t.worker = row[j].slot
                                         /\ t.claim = row'[j].result]_vars
  BY StoredByHolder
<1> QED BY <1>1, TypeCorrect, PTL DEF Spec, ResultsFromHolder
-----------------------------------------------------------------------------
(* With one task per worker there are no orphans: a task is known under    *)
(* its own claim, and a worker knows one task.                             *)
TaskTracked == \A t \in execs : tracked[t.worker][t.job] = t.claim
OneTracked == \A w \in Workers : \A j, k \in TracksOf(w) : j = k

(* So a task that finds its worker in the row belongs to the latest claim. *)
HolderIsLatest == \A t \in execs : row[t.job].slot = t.worker => t.claim = claims[t.job]

FenceInv == TaskTracked /\ OneTracked /\ HolderIsLatest /\ ResultOfLatestClaim

OneTaskEach == \A w \in Workers : MaxConcurrency[w] = 1

(* A worker with room for one task claims only when it tracks none.        *)
LEMMA EmptyHands ==
  ASSUME OneTaskEach, NEW w \in Workers, HasCapacity(w), TypeOK, TaskTracked
  PROVE  TracksOf(w) = {} /\ ExecsOf(w) = {}
<1>1. IsFiniteSet(TracksOf(w))
  BY FS_Subset DEF TracksOf
<1>2. Cardinality(TracksOf(w)) = 0
  BY <1>1, FS_CardinalityType DEF HasCapacity, OneTaskEach
<1>3. TracksOf(w) = {}
  BY <1>1, <1>2, FS_EmptySet
<1>4. ASSUME NEW t \in ExecsOf(w) PROVE FALSE
  <2>1. t \in execs /\ t.worker = w /\ t.job \in Jobs /\ t.claim # 0
    BY DEF ExecsOf, TypeOK, Execution
  <2>2. t.job \in TracksOf(w)
    BY <2>1 DEF TaskTracked, TracksOf
  <2> QED BY <1>3, <2>2
<1> QED BY <1>3, <1>4

(* Quiet steps never put a worker into a row.                              *)
LEMMA QuietSlot ==
  ASSUME NEW r \in Row, NEW q, RowQuiet(r, q)
  PROVE  q.slot \in {r.slot, NoWorker}
<1>1. /\ CancelledRow(r).slot = NoWorker /\ RequeuedRow(r).slot = NoWorker
      /\ Failed(r).slot = NoWorker /\ Exhausted(r).slot = r.slot
  BY DEF CancelledRow, RequeuedRow, Failed, Exhausted, Unclaimed, Row
<1>2. GivenBack(r).slot = NoWorker
  BY DEF GivenBack, Exhausted, Unclaimed, Row
<1>3. \A n \in Nat : NewRow(n).slot = NoWorker
  BY DEF NewRow
<1>4. \A n \in Nat \ {0} : Completed(r, n).slot = NoWorker
  BY DEF Completed, Unclaimed, Row
<1>5. \A l \in {"live", "lapsed"} : [r EXCEPT !.lease = l].slot = r.slot
  BY DEF Row
<1> QED BY <1>1, <1>2, <1>3, <1>4, <1>5 DEF RowQuiet

(* Every step but a claim and a poll only forgets tasks.                   *)
LEMMA TasksOnlyEnd ==
  ASSUME TypeOK, [Next]_vars,
         ~\E w \in Workers : Claim(w) \/ BeginPoll(w) \/ WorkerStopped(w) \/ WorkerCrashes(w)
  PROVE  tracked' = tracked /\ execs' \subseteq execs /\ claims' = claims
<1> DEFINE Only == tracked' = tracked /\ execs' \subseteq execs /\ claims' = claims
<1>1. ASSUME NEW j \in Jobs,
             Enqueue(j) \/ Cancel(j) \/ Requeue(j) \/ RequeueForced(j) \/ LeaseLapses(j)
      PROVE  Only
  BY <1>1 DEF Enqueue, Cancel, Requeue, RequeueForced, LeaseLapses, workerVars
<1>2. ASSUME Pause \/ Resume \/ Recover \/ PersistForcedRetry \/ ApiRestarts PROVE Only
  BY <1>2 DEF Pause, Resume, Recover, PersistForcedRetry, ApiRestarts, workerVars
<1>3. ASSUME NEW w \in Workers, StartWorker(w) \/ EndPoll(w) \/ StopWorker(w) PROVE Only
  BY <1>3 DEF StartWorker, EndPoll, StopWorker
<1>4. ASSUME NEW t \in execs, TaskStep(t) PROVE Only
  BY <1>4 DEF TaskStep, Heartbeat, HeartbeatRaises, RunnerReturns, RunnerFails,
     OutcomeLost, ReleaseClaim, Ended
<1>5. ASSUME UNCHANGED vars PROVE Only
  BY <1>5 DEF vars, workerVars
<1> QED BY <1>1, <1>2, <1>3, <1>4, <1>5 DEF Next, Api, WorkerProcess

(* The fence holds initially.                                              *)
LEMMA InitFence == Init => FenceInv
<1> SUFFICES ASSUME Init PROVE FenceInv
  OBVIOUS
<1>1. ASSUME NEW j \in Jobs PROVE row[j].status # "completed"
  <2>1. Explained(row[j]) /\ row[j] \in {AbsentRow} \cup InheritedRow(1)
    BY InitInv DEF Inv, OutcomeConsistent, Init
  <2>2. \A r \in {AbsentRow} \cup InheritedRow(1) : r.result = 0
    BY DEF AbsentRow, InheritedRow, NewRow
  <2> QED BY <2>1, <2>2 DEF Explained
<1> QED BY <1>1 DEF Init, FenceInv, TaskTracked, OneTracked, HolderIsLatest,
                    ResultOfLatestClaim, TracksOf

(* A poll that claims: the worker's hands were empty.                      *)
LEMMA ClaimFence ==
  ASSUME OneTaskEach, Inv, FenceInv, NEW w \in Workers, Claim(w)
  PROVE  TaskTracked' /\ OneTracked' /\ HolderIsLatest'
<1>0. /\ row \in [Jobs -> Row] /\ execs \subseteq Execution
      /\ tracked \in [Workers -> [Jobs -> Nat]] /\ claims \in [Jobs -> Nat]
  BY DEF Inv, TypeOK
<1>1. TracksOf(w) = {} /\ ExecsOf(w) = {}
  BY EmptyHands DEF Claim, Inv, FenceInv
<1> PICK j \in OldestOf(Swept, Claimable(Swept)) :
        /\ row' = [Swept EXCEPT ![j] = ClaimedBy(Swept[j], w)]
        /\ claims' = [claims EXCEPT ![j] = claims[j] + 1]
        /\ tracked' = [tracked EXCEPT ![w][j] = claims[j] + 1]
        /\ execs' = execs \cup {[job |-> j, worker |-> w, claim |-> claims[j] + 1]}
  BY DEF Claim
<1>2. j \in Jobs /\ Swept \in [Jobs -> Row]
  BY <1>0, SweptType DEF OldestOf, Claimable
<1> DEFINE new == [job |-> j, worker |-> w, claim |-> claims[j] + 1]
<1>3. \A t \in execs : t.worker # w /\ t.worker \in Workers /\ t.job \in Jobs
  BY <1>0, <1>1 DEF ExecsOf, Execution
<1>4. TaskTracked'
  BY <1>0, <1>2, <1>3 DEF TaskTracked, FenceInv
<1>5. OneTracked'
  <2>1. TracksOf(w)' = {j}
    BY <1>0, <1>1, <1>2 DEF TracksOf
  <2>2. \A v \in Workers : v # w => TracksOf(v)' = TracksOf(v)
    BY <1>0 DEF TracksOf
  <2> QED BY <2>1, <2>2 DEF OneTracked, FenceInv
<1>6. HolderIsLatest'
  <2>1. ASSUME NEW t \in execs, row'[t.job].slot = t.worker
        PROVE  t.claim = claims'[t.job]
    <3>1. t.job # j
      <4>1. ClaimedBy(Swept[j], w).slot = w
        BY <1>2 DEF ClaimedBy, Row
      <4> QED BY <1>2, <1>3, <2>1, <4>1
    <3>2. row'[t.job] = Swept[t.job]
      BY <1>2, <1>3, <3>1
    <3>3. RowQuiet(row[t.job], Swept[t.job]) /\ row[t.job] \in Row
      BY <1>0, <1>3, SweptRowNext
    <3>4. row[t.job].slot = t.worker
      BY <1>3, <2>1, <3>2, <3>3, QuietSlot
    <3> QED BY <1>0, <1>3, <3>1, <3>4 DEF HolderIsLatest, FenceInv
  <2>2. new.claim = claims'[new.job]
    BY <1>0, <1>2
  <2> QED BY <2>1, <2>2 DEF HolderIsLatest
<1> QED BY <1>4, <1>5, <1>6

(* A step that forgets tasks, reaps them or ends a worker.                 *)
LEMMA OtherFence ==
  ASSUME Inv, FenceInv, [Next]_vars, ~\E w \in Workers : Claim(w)
  PROVE  TaskTracked' /\ OneTracked' /\ HolderIsLatest' /\ claims' = claims
<1>0. /\ row \in [Jobs -> Row] /\ execs \subseteq Execution
      /\ tracked \in [Workers -> [Jobs -> Nat]]
  BY DEF Inv, TypeOK
<1> DEFINE Good == /\ execs' \subseteq execs /\ claims' = claims
                   /\ \A t \in execs' : tracked'[t.worker][t.job] = tracked[t.worker][t.job]
                   /\ \A w \in Workers : TracksOf(w)' \subseteq TracksOf(w)
<1>1. ASSUME NEW w \in Workers, BeginPoll(w) PROVE Good
  <2>1. /\ tracked' = [tracked EXCEPT ![w] = Reaped(w)]
        /\ execs' = execs /\ claims' = claims
    BY <1>1 DEF BeginPoll
  <2>2. ASSUME NEW t \in execs, t.worker = w PROVE Reaped(w)[t.job] = tracked[w][t.job]
    <3>1. Task(w, t.job) = t
      BY <1>0, <2>2 DEF Task, TaskTracked, FenceInv, Execution
    <3> QED BY <1>0, <2>2, <3>1 DEF Reaped, Execution
  <2>3. \A v \in Workers : TracksOf(v)' \subseteq TracksOf(v)
    BY <1>0, <2>1 DEF TracksOf, Reaped
  <2>4. \A t \in execs' : tracked'[t.worker][t.job] = tracked[t.worker][t.job]
    BY <1>0, <2>1, <2>2 DEF Execution
  <2> QED BY <2>1, <2>3, <2>4
<1>2. ASSUME NEW w \in Workers, WorkerStopped(w) \/ WorkerCrashes(w) PROVE Good
  <2>1. /\ tracked' = [tracked EXCEPT ![w] = [j \in Jobs |-> 0]]
        /\ claims' = claims /\ execs' = execs \ ExecsOf(w)
    BY <1>2 DEF WorkerStopped, WorkerCrashes
  <2>2. \A t \in execs' : t.worker # w
    BY <2>1 DEF ExecsOf
  <2>3. \A v \in Workers : TracksOf(v)' \subseteq TracksOf(v)
    BY <1>0, <2>1 DEF TracksOf
  <2> QED BY <1>0, <2>1, <2>2, <2>3 DEF Execution
<1>3. ASSUME ~\E w \in Workers : BeginPoll(w) \/ WorkerStopped(w) \/ WorkerCrashes(w)
      PROVE  Good
  BY <1>3, TasksOnlyEnd DEF Inv, TracksOf
<1>4. Good
  BY <1>1, <1>2, <1>3
<1>5. ASSUME NEW t \in execs', row'[t.job].slot = t.worker
      PROVE  row[t.job].slot = t.worker
  <2>1. t \in execs /\ t.job \in Jobs /\ t.worker # NoWorker
    BY <1>0, <1>4 DEF Execution
  <2>2. RowQuiet(row[t.job], row'[t.job])
    BY <2>1, StepRowQuiet DEF Inv
  <2> QED BY <1>0, <1>5, <2>1, <2>2, QuietSlot
<1>6. TaskTracked'
  BY <1>4 DEF TaskTracked, FenceInv
<1>7. OneTracked'
  BY <1>4 DEF OneTracked, FenceInv
<1>8. HolderIsLatest'
  BY <1>4, <1>5 DEF HolderIsLatest, FenceInv
<1> QED BY <1>4, <1>6, <1>7, <1>8

(* A completed row is never claimed.                                       *)
LEMMA CompletedUnclaimed ==
  ASSUME Inv, [Next]_vars, NEW j \in Jobs, row'[j].status = "completed"
  PROVE  claims'[j] = claims[j]
<1>1. ASSUME NEW w \in Workers, Claim(w) PROVE claims'[j] = claims[j]
  <2> PICK k \in OldestOf(Swept, Claimable(Swept)) :
          /\ row' = [Swept EXCEPT ![k] = ClaimedBy(Swept[k], w)]
          /\ claims' = [claims EXCEPT ![k] = claims[k] + 1]
    BY <1>1 DEF Claim
  <2>1. k \in Jobs /\ Swept \in [Jobs -> Row] /\ claims \in [Jobs -> Nat]
    BY SweptType DEF OldestOf, Claimable, Inv, TypeOK
  <2>2. ClaimedBy(Swept[k], w).status = "running"
    BY <2>1 DEF ClaimedBy, Row
  <2> QED BY <2>1, <2>2
<1>2. ASSUME NEW w \in Workers,
             BeginPoll(w) \/ WorkerStopped(w) \/ WorkerCrashes(w)
      PROVE  claims' = claims
  BY <1>2 DEF BeginPoll, WorkerStopped, WorkerCrashes
<1> QED BY <1>1, <1>2, TasksOnlyEnd DEF Inv

(* Every step keeps the fence.                                             *)
LEMMA StepFence == OneTaskEach /\ Inv /\ Inv' /\ FenceInv /\ [Next]_vars => FenceInv'
<1> SUFFICES ASSUME OneTaskEach, Inv, Inv', FenceInv, [Next]_vars PROVE FenceInv'
  OBVIOUS
<1>1. TaskTracked' /\ OneTracked' /\ HolderIsLatest'
  BY ClaimFence, OtherFence
<1>2. ASSUME NEW j \in Jobs, row'[j].status = "completed"
      PROVE  row'[j].result = claims'[j]
  <2>1. claims'[j] = claims[j]
    BY <1>2, CompletedUnclaimed
  <2>2. row'[j].result # 0 /\ (row[j].result # 0 <=> row[j].status = "completed")
    BY <1>2 DEF Inv, OutcomeConsistent, Explained
  <2>3. CASE row'[j].result = row[j].result
    BY <2>1, <2>2, <2>3 DEF FenceInv, ResultOfLatestClaim
  <2>4. CASE row'[j].result # row[j].result
    <3>1. PICK t \in execs \ execs' : /\ t.job = j /\ t.worker = row[j].slot
                                      /\ t.claim = row'[j].result
      BY <2>2, <2>4, StoredByHolder DEF Inv
    <3> QED BY <2>1, <3>1 DEF FenceInv, HolderIsLatest
  <2> QED BY <2>3, <2>4
<1> QED BY <1>1, <1>2 DEF FenceInv, ResultOfLatestClaim

(* With one task per worker, the result stored in a completed job is that  *)
(* of its latest claim, whatever was cancelled, retried, lost or recovered *)
(* in between, although finish_claim compares no attempt.                  *)
THEOREM ResultOfLatestClaimCorrect ==
  ASSUME OneTaskEach
  PROVE  Spec => []ResultOfLatestClaim
<1>1. Inv /\ Inv' /\ FenceInv /\ [Next]_vars => FenceInv'
  BY StepFence
<1>2. FenceInv => ResultOfLatestClaim
  BY DEF FenceInv
<1> QED BY <1>1, <1>2, InitFence, Invariant, PTL DEF Spec
-----------------------------------------------------------------------------
(* A cancelled job.                                                        *)

(* A sweep and a claim pass a cancelled row by.                            *)
LEMMA SweepPasses ==
  ASSUME row \in [Jobs -> Row], NEW j \in Jobs, row[j].status = "cancelled"
  PROVE  Swept[j] = row[j] /\ j \notin Claimable(Swept)
BY SweptRows DEF Expired, Claimable

(* No worker changes a cancelled row: its guards ask for "running", and    *)
(* the row has no lease to renew or to lose.                               *)
LEMMA WorkersPass ==
  ASSUME Inv, NEW j \in Jobs, row[j].status = "cancelled",
         \/ \E w \in Workers : WorkerProcess(w)
         \/ \E t \in execs : TaskStep(t)
         \/ \E k \in Jobs : LeaseLapses(k)
  PROVE  row'[j] = row[j]
<1>0. row \in [Jobs -> Row] /\ execs \subseteq Execution
  BY DEF Inv, TypeOK
<1>1. row[j].lease = "none"
  BY <1>0 DEF Inv, ClaimMarkers, Marked, Row
<1>2. ASSUME NEW w \in Workers, Claim(w) PROVE row'[j] = row[j]
  <2> PICK k \in OldestOf(Swept, Claimable(Swept)) :
          row' = [Swept EXCEPT ![k] = ClaimedBy(Swept[k], w)]
    BY <1>2 DEF Claim
  <2>1. k \in Claimable(Swept) /\ Swept \in [Jobs -> Row]
    BY <1>0, SweptType DEF OldestOf
  <2> QED BY <1>0, <2>1, SweepPasses
<1>3. ASSUME NEW w \in Workers, WorkerProcess(w), ~Claim(w) PROVE row'[j] = row[j]
  BY <1>0, <1>3, SweepPasses
  DEF WorkerProcess, StartWorker, BeginPoll, EndPoll, StopWorker, WorkerStopped, WorkerCrashes
<1>4. ASSUME NEW t \in execs, RunnerReturns(t) \/ RunnerFails(t) \/ ReleaseClaim(t)
      PROVE  row'[j] = row[j]
  BY <1>0, <1>4 DEF RunnerReturns, RunnerFails, ReleaseClaim, Holds, Execution
<1>5. ASSUME NEW t \in execs, Heartbeat(t) \/ HeartbeatRaises(t) \/ OutcomeLost(t)
      PROVE  row'[j] = row[j]
  BY <1>0, <1>5 DEF Heartbeat, HeartbeatRaises, OutcomeLost, Holds, Execution
<1>6. ASSUME NEW k \in Jobs, LeaseLapses(k) PROVE row'[j] = row[j]
  BY <1>0, <1>1, <1>6 DEF LeaseLapses
<1> QED BY <1>2, <1>3, <1>4, <1>5, <1>6 DEF TaskStep

(* What remains is the operator: a requeue, which leaves the row queued,   *)
(* or failed when its attempts are spent.                                  *)
LEMMA CancelledStep ==
  ASSUME Inv, [Next]_vars, NEW j \in Jobs, row[j].status = "cancelled", row'[j] # row[j]
  PROVE  row'[j].status \in {"queued", "failed"} /\ UNCHANGED <<workerVars, claims>>
<1>0. row \in [Jobs -> Row] /\ row[j] \in Row
  BY DEF Inv, TypeOK
<1>1. row[j].lease = "none"
  BY <1>0 DEF Inv, ClaimMarkers, Marked, Row
<1>2. Api
  BY WorkersPass DEF Next, vars
<1>3. UNCHANGED <<workerVars, claims>>
  BY <1>2 DEF Api, Enqueue, Cancel, Requeue, RequeueForced, Pause, Resume, Recover,
              PersistForcedRetry, ApiRestarts
<1>4. RowQuiet(row[j], row'[j])
  <2>1. ~\E w \in Workers : Claim(w)
    BY WorkersPass DEF WorkerProcess
  <2> QED BY <2>1, StepRowQuiet DEF Inv
<1>5. /\ \A n \in Nat : NewRow(n).status = "queued"
      /\ Exhausted(row[j]).status = "failed"
      /\ RequeuedRow(row[j]).status = "queued"
  BY <1>0 DEF NewRow, Exhausted, RequeuedRow, Unclaimed, Row
<1> QED BY <1>1, <1>3, <1>4, <1>5 DEF RowQuiet

(* Once a job is cancelled, no execution, heartbeat, release, recovery or  *)
(* lapse of a lease undoes it; only the operator's retry does.             *)
THEOREM CancelSticksCorrect == Spec => CancelSticks
<1>1. Inv /\ [Next]_vars =>
        [\A j \in Jobs :
          row[j].status = "cancelled" /\ row'[j] # row[j]
            => /\ row'[j].status \in {"queued", "failed"}
               /\ UNCHANGED <<workerVars, claims>>]_vars
  BY CancelledStep
<1> QED BY <1>1, Invariant, PTL DEF Spec, CancelSticks
-----------------------------------------------------------------------------
(* A claim is backed by its task.                                          *)

(* What keeps one claim backed: nobody else gets the row, the entry in     *)
(* _active stays, and so does the task or its exception.                   *)
LEMMA StaysBacked ==
  ASSUME ClaimBacked,
         \A j \in Jobs, w \in Workers :
            row'[j].slot = w =>
              \/ loop'[w] \in {"stopping", "dead"}
              \/ /\ row[j].slot = w /\ loop[w] \notin {"stopping", "dead"}
                 /\ claims'[j] = claims[j]
                 /\ Task(w, j) \in execs \cup raised =>
                      tracked'[w][j] = tracked[w][j] /\ Task(w, j) \in execs' \cup raised'
  PROVE  ClaimBacked'
<1> SUFFICES ASSUME NEW j \in Jobs, NEW w \in Workers, row'[j].slot = w,
                    loop'[w] \notin {"stopping", "dead"}
             PROVE  tracked'[w][j] = claims'[j] /\ Task(w, j)' \in execs' \cup raised'
  BY DEF ClaimBacked
<1>1. row[j].slot = w /\ loop[w] \notin {"stopping", "dead"} /\ claims'[j] = claims[j]
  OBVIOUS
<1>2. tracked[w][j] = claims[j] /\ Task(w, j) \in execs \cup raised
  BY <1>1 DEF ClaimBacked
<1>3. tracked'[w][j] = tracked[w][j] /\ Task(w, j) \in execs' \cup raised'
  BY <1>2
<1>4. Task(w, j)' = Task(w, j)
  BY <1>3 DEF Task
<1> QED BY <1>1, <1>2, <1>3, <1>4

(* The claim itself starts the task that backs it.                         *)
LEMMA ClaimBacks ==
  ASSUME Inv, ClaimBacked, NEW w \in Workers, Claim(w)
  PROVE  ClaimBacked'
<1>0. /\ row \in [Jobs -> Row] /\ tracked \in [Workers -> [Jobs -> Nat]]
      /\ claims \in [Jobs -> Nat]
  BY DEF Inv, TypeOK
<1> PICK k \in OldestOf(Swept, Claimable(Swept)) :
        /\ row' = [Swept EXCEPT ![k] = ClaimedBy(Swept[k], w)]
        /\ claims' = [claims EXCEPT ![k] = claims[k] + 1]
        /\ tracked' = [tracked EXCEPT ![w][k] = claims[k] + 1]
        /\ execs' = execs \cup {[job |-> k, worker |-> w, claim |-> claims[k] + 1]}
        /\ UNCHANGED <<loop, raised>>
  BY DEF Claim
<1>1. k \in Jobs /\ Swept \in [Jobs -> Row]
  BY <1>0, SweptType DEF OldestOf, Claimable
<1>2. ClaimedBy(Swept[k], w).slot = w
  BY <1>1 DEF ClaimedBy, Row
<1>3. ASSUME NEW j \in Jobs, NEW v \in Workers, row'[j].slot = v,
             loop'[v] \notin {"stopping", "dead"}
      PROVE  tracked'[v][j] = claims'[j] /\ Task(v, j)' \in execs' \cup raised'
  <2>1. CASE j = k
    <3>1. v = w
      BY <1>1, <1>2, <1>3, <2>1
    <3>2. tracked'[v][j] = claims[k] + 1 /\ claims'[j] = claims[k] + 1
      BY <1>0, <1>1, <2>1, <3>1
    <3> QED BY <2>1, <3>1, <3>2 DEF Task
  <2>2. CASE j # k
    <3>1. row'[j] = Swept[j] /\ claims'[j] = claims[j] /\ tracked'[v][j] = tracked[v][j]
      BY <1>0, <1>1, <2>2
    <3>2. row[j].slot = v
      <4>1. RowQuiet(row[j], Swept[j]) /\ row[j] \in Row
        BY <1>0, SweptRowNext
      <4> QED BY <1>3, <3>1, <4>1, QuietSlot
    <3>3. tracked[v][j] = claims[j] /\ Task(v, j) \in execs \cup raised
      BY <1>3, <3>2 DEF ClaimBacked
    <3>4. Task(v, j)' = Task(v, j) /\ raised' = raised /\ execs \subseteq execs'
      BY <3>1 DEF Task
    <3> QED BY <3>1, <3>3, <3>4
  <2> QED BY <2>1, <2>2
<1> QED BY <1>3 DEF ClaimBacked

(* Steps that end a task: if the row names the worker, it is the task of   *)
(* this claim that ends, and then the row no longer does, or its exception *)
(* is kept.                                                                *)
LEMMA EndsBacked ==
  ASSUME Inv, ClaimBacked, NEW t \in execs,
         RunnerReturns(t) \/ RunnerFails(t) \/ OutcomeLost(t) \/ ReleaseClaim(t),
         NEW j \in Jobs, NEW w \in Workers, row'[j].slot = w, row[j].slot = w,
         loop'[w] \notin {"stopping", "dead"}
  PROVE  Task(w, j) \in execs \cup raised => Task(w, j) \in execs' \cup raised'
<1>0. row \in [Jobs -> Row] /\ row[j] \in Row /\ execs \subseteq Execution
  BY DEF Inv, TypeOK
<1>1. execs' = execs \ {t} /\ raised \subseteq raised' /\ loop' = loop
  BY DEF RunnerReturns, RunnerFails, OutcomeLost, ReleaseClaim, Ended
<1>2. CASE Task(w, j) # t
  BY <1>1, <1>2
<1>3. CASE Task(w, j) = t
  <2>1. t.job = j /\ t.worker = w
    BY <1>3 DEF Task
  <2>2. Holds(t)
    BY <2>1, <1>0 DEF Holds, Inv, ClaimMarkers, Marked
  <2>3. CASE RunnerReturns(t)
    <3>1. row'[j] = Completed(row[j], t.claim)
      BY <1>0, <2>1, <2>2, <2>3 DEF RunnerReturns, Completed
    <3>2. row'[j].slot = NoWorker
      BY <1>0, <3>1 DEF Completed, Unclaimed, Row
    <3> QED BY <3>2
  <2>4. CASE RunnerFails(t)
    <3>1. row'[j] = Failed(row[j])
      BY <1>0, <2>1, <2>2, <2>4 DEF RunnerFails, Failed
    <3>2. row'[j].slot = NoWorker
      BY <1>0, <3>1 DEF Failed, Unclaimed, Row
    <3> QED BY <3>2
  <2>5. CASE OutcomeLost(t)
    BY <1>3, <2>5 DEF OutcomeLost
  <2>6. CASE ReleaseClaim(t)
    BY <1>1, <2>1, <2>6 DEF ReleaseClaim
  <2> QED BY <2>3, <2>4, <2>5, <2>6
<1> QED BY <1>2, <1>3

(* Every other step keeps every claim backed.                              *)
LEMMA StepBacked == Inv /\ ClaimBacked /\ [Next]_vars => ClaimBacked'
<1> SUFFICES ASSUME Inv, ClaimBacked, [Next]_vars, ~\E w \in Workers : Claim(w)
             PROVE  ClaimBacked'
  BY ClaimBacks
<1>0. /\ row \in [Jobs -> Row] /\ execs \subseteq Execution /\ raised \subseteq Execution
      /\ tracked \in [Workers -> [Jobs -> Nat]] /\ loop \in [Workers -> Loops]
  BY DEF Inv, TypeOK
<1> SUFFICES ASSUME NEW j \in Jobs, NEW w \in Workers, row'[j].slot = w,
                    loop'[w] \notin {"stopping", "dead"}
             PROVE  /\ row[j].slot = w /\ loop[w] \notin {"stopping", "dead"}
                    /\ claims'[j] = claims[j]
                    /\ Task(w, j) \in execs \cup raised =>
                         tracked'[w][j] = tracked[w][j] /\ Task(w, j) \in execs' \cup raised'
  BY StaysBacked
<1>1. row[j].slot = w
  <2>1. RowQuiet(row[j], row'[j]) /\ row[j] \in Row
    BY <1>0, StepRowQuiet DEF Inv
  <2> QED BY <2>1, QuietSlot, WorkersAssumption
<1> DEFINE Good == /\ loop[w] \notin {"stopping", "dead"}
                   /\ claims'[j] = claims[j]
                   /\ Task(w, j) \in execs \cup raised =>
                        tracked'[w][j] = tracked[w][j] /\ Task(w, j) \in execs' \cup raised'
<1>2. ASSUME NEW v \in Workers, BeginPoll(v) PROVE Good
  <2>1. /\ tracked' = [tracked EXCEPT ![v] = Reaped(v)]
        /\ loop' = [loop EXCEPT ![v] = IF ReapRaises(v) THEN "stopping" ELSE "polling"]
        /\ UNCHANGED <<execs, raised, claims>> /\ loop[v] = "idle"
    BY <1>2 DEF BeginPoll
  <2>2. CASE v # w
    BY <1>0, <2>1, <2>2
  <2>3. CASE v = w
    <3>1. ~ReapRaises(w)
      BY <1>0, <2>1, <2>3
    <3>2. ASSUME Task(w, j) \in execs \cup raised PROVE Task(w, j) \in execs
      <4>1. Task(w, j) \in Execution
        BY <1>0, <3>2
      <4>2. tracked[w][j] # 0
        BY <4>1 DEF Task, Execution
      <4> QED BY <3>1, <3>2, <4>2 DEF ReapRaises, TracksOf
    <3>3. Task(w, j) \in execs => tracked'[w][j] = tracked[w][j]
      BY <1>0, <2>1, <2>3 DEF Reaped
    <3> QED BY <2>1, <2>3, <3>2, <3>3
  <2> QED BY <2>2, <2>3
<1>3. ASSUME NEW v \in Workers, WorkerStopped(v) \/ WorkerCrashes(v) PROVE Good
  <2>1. /\ loop' = [loop EXCEPT ![v] = "dead"]
        /\ tracked' = [tracked EXCEPT ![v] = [k \in Jobs |-> 0]]
        /\ execs' = execs \ ExecsOf(v)
        /\ raised' = {t \in raised : t.worker # v} /\ claims' = claims
    BY <1>3 DEF WorkerStopped, WorkerCrashes
  <2>2. v # w
    BY <1>0, <2>1
  <2>3. Task(w, j).worker = w
    BY DEF Task
  <2> QED BY <1>0, <2>1, <2>2, <2>3 DEF ExecsOf
<1>4. ASSUME NEW v \in Workers, StartWorker(v) \/ EndPoll(v) \/ StopWorker(v) PROVE Good
  BY <1>0, <1>4 DEF StartWorker, EndPoll, StopWorker
<1>5. ASSUME NEW t \in execs,
             RunnerReturns(t) \/ RunnerFails(t) \/ OutcomeLost(t) \/ ReleaseClaim(t)
      PROVE  Good
  <2>1. UNCHANGED <<loop, tracked, claims>>
    BY <1>5 DEF RunnerReturns, RunnerFails, OutcomeLost, ReleaseClaim
  <2> QED BY <1>1, <1>5, <2>1, EndsBacked
<1>6. ASSUME NEW t \in execs, Heartbeat(t) \/ HeartbeatRaises(t) PROVE Good
  BY <1>6 DEF Heartbeat, HeartbeatRaises
<1>7. ASSUME NEW k \in Jobs,
             Enqueue(k) \/ Cancel(k) \/ Requeue(k) \/ RequeueForced(k) \/ LeaseLapses(k)
      PROVE  Good
  BY <1>7 DEF Enqueue, Cancel, Requeue, RequeueForced, LeaseLapses, workerVars
<1>8. ASSUME Pause \/ Resume \/ Recover \/ PersistForcedRetry \/ ApiRestarts PROVE Good
  BY <1>8 DEF Pause, Resume, Recover, PersistForcedRetry, ApiRestarts, workerVars
<1>9. ASSUME UNCHANGED vars PROVE Good
  BY <1>9 DEF vars, workerVars
<1> QED
  BY <1>1, <1>2, <1>3, <1>4, <1>5, <1>6, <1>7, <1>8, <1>9
  DEF Next, Api, WorkerProcess, TaskStep

(* As long as a worker is up, each job its claims name is executed by a    *)
(* task it tracks, or that task's exception is about to bring it down.     *)
THEOREM ClaimBackedCorrect == Spec => []ClaimBacked
<1>1. Init => ClaimBacked
  <2> SUFFICES ASSUME Init, NEW j \in Jobs PROVE row[j].slot \notin Workers
    BY DEF ClaimBacked
  <2>1. row[j].lease = "none"
    <3>1. row[j] \in {AbsentRow} \cup InheritedRow(1)
      BY DEF Init
    <3> QED BY <3>1 DEF AbsentRow, InheritedRow, NewRow
  <2> QED BY <2>1, InitInv DEF Inv, ClaimMarkers, Marked
<1> QED BY <1>1, StepBacked, Invariant, PTL DEF Spec
=============================================================================
