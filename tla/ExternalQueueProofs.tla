------------------------- MODULE ExternalQueueProofs -------------------------
(***************************************************************************)
(* Theorems about the external queue, for any number of jobs, workers,     *)
(* attempts and tasks per worker.                                          *)
(***************************************************************************)
EXTENDS ExternalQueue, FiniteSetTheorems, TLAPS

USE JobsAssumption, WorkersAssumption, LimitsAssumption
-----------------------------------------------------------------------------
(* A row stays a row when one field takes a value of its type.             *)
LEMMA RowUpdate ==
  ASSUME NEW r \in Row
  PROVE  /\ \A v \in Statuses : [r EXCEPT !.status = v] \in Row
         /\ \A v \in 0..MaxAttempts : [r EXCEPT !.attempts = v] \in Row
         /\ \A v \in Workers \cup {NoWorker, EmbeddedSlot} : [r EXCEPT !.slot = v] \in Row
         /\ \A v \in {"none", "live", "lapsed"} : [r EXCEPT !.lease = v] \in Row
         /\ \A v \in Reasons : [r EXCEPT !.reason = v] \in Row
         /\ \A v \in Nat : [r EXCEPT !.result = v] \in Row
<1>1. \A v \in Statuses : [r EXCEPT !.status = v] \in Row
  BY DEF Row
<1>2. \A v \in 0..MaxAttempts : [r EXCEPT !.attempts = v] \in Row
  BY DEF Row
<1>3. \A v \in Workers \cup {NoWorker, EmbeddedSlot} : [r EXCEPT !.slot = v] \in Row
  BY DEF Row
<1>4. \A v \in {"none", "live", "lapsed"} : [r EXCEPT !.lease = v] \in Row
  BY DEF Row
<1>5. \A v \in Reasons : [r EXCEPT !.reason = v] \in Row
  BY DEF Row
<1>6. \A v \in Nat : [r EXCEPT !.result = v] \in Row
  BY DEF Row
<1> QED BY <1>1, <1>2, <1>3, <1>4, <1>5, <1>6

(* The values the queue writes belong to their types.                      *)
LEMMA Values ==
  /\ Statuses = {"absent", "queued", "running", "completed", "failed", "cancelled"}
  /\ {"none", "runner_completed", "runner_exception", "cancelled_by_operator",
      "max_attempts_exhausted"} \subseteq Reasons
  /\ 0 \in 0..MaxAttempts
BY DEF Statuses, Reasons

(* Rows stay rows under every operator that updates one.                   *)
LEMMA RowOperators ==
  ASSUME NEW r \in Row
  PROVE  /\ Unclaimed(r) \in Row
         /\ Exhausted(r) \in Row
         /\ GivenBack(r) \in Row
         /\ CancelledRow(r) \in Row
         /\ RequeuedRow(r) \in Row
<1> DEFINE Update(q, s, v) == [q EXCEPT !.status = s, !.reason = v]
<1>1. Unclaimed(r) \in Row
  BY RowUpdate DEF Unclaimed
<1>2. ASSUME NEW q \in Row, NEW s \in Statuses, NEW v \in Reasons
      PROVE  Update(q, s, v) \in Row
  BY RowUpdate
<1>3. \A q \in Row : Exhausted(q) \in Row
  BY <1>2, Values DEF Exhausted
<1>4. GivenBack(r) \in Row
  BY <1>1, <1>2, <1>3, Values DEF GivenBack
<1>5. CancelledRow(r) \in Row
  BY <1>1, <1>2, Values DEF CancelledRow
<1>6. RequeuedRow(r) \in Row
  <2> DEFINE q == Update(Unclaimed(r), "queued", "none")
             p == [q EXCEPT !.result = 0]
  <2>1. q \in Row
    BY <1>1, <1>2, Values
  <2>2. p \in Row
    BY <2>1, RowUpdate
  <2>3. r.attempts \in 0..MaxAttempts
    BY DEF Row
  <2>4. [p EXCEPT !.attempts = IF r.attempts >= MaxAttempts THEN 0 ELSE r.attempts] \in Row
    <3> HIDE DEF p
    <3> QED BY <2>2, <2>3, Values, RowUpdate
  <2>5. Unclaimed(r).attempts = r.attempts
    BY DEF Unclaimed, Row
  <2> QED BY <2>4, <2>5 DEF RequeuedRow
<1> QED BY <1>1, <1>3, <1>4, <1>5, <1>6

(* A new row has any rank.                                                 *)
LEMMA NewRowType == \A rank \in Nat : NewRow(rank) \in Row
BY DEF NewRow, Row, Statuses, Reasons

(* Recovering lapsed claims keeps the table a table.                       *)
LEMMA RecoverType ==
  ASSUME row \in [Jobs -> Row]
  PROVE  RecoverExpired(row) \in [Jobs -> Row]
BY RowOperators DEF RecoverExpired

(* So does the whole sweep of claim_next.                                  *)
LEMMA SweptType ==
  ASSUME row \in [Jobs -> Row]
  PROVE  Swept \in [Jobs -> Row]
<1>1. RecoverExpired(row) \in [Jobs -> Row]
  BY RecoverType
<1> DEFINE R == RecoverExpired(row)
<1>2. R \in [Jobs -> Row] => FailExhaustedQueued(R) \in [Jobs -> Row]
  <2> HIDE DEF R
  <2> QED BY RowOperators DEF FailExhaustedQueued
<1> QED BY <1>1, <1>2 DEF Swept

(* A claimable row has an attempt left, so the claimed row is a row.       *)
LEMMA ClaimedType ==
  ASSUME NEW rows \in [Jobs -> Row], NEW j \in Claimable(rows), NEW w \in Workers
  PROVE  ClaimedBy(rows[j], w) \in Row
<1> DEFINE a == rows[j].attempts + 1
           p == [rows[j] EXCEPT !.status = "running", !.attempts = a]
           q == [p EXCEPT !.slot = w, !.lease = "live", !.reason = "none"]
<1>1. rows[j] \in Row /\ a \in 0..MaxAttempts
  BY DEF Claimable, Row
<1>2. p \in Row
  <2> HIDE DEF a
  <2> QED BY <1>1, RowUpdate, Values
<1>3. q \in Row
  <2> HIDE DEF p
  <2> QED BY <1>2, RowUpdate, Values
<1>4. [rows[j] EXCEPT !.status = "running"].attempts = rows[j].attempts
  BY <1>1 DEF Row
<1> QED BY <1>3, <1>4 DEF ClaimedBy
-----------------------------------------------------------------------------
(* TypeOK holds in the initial states.                                     *)
LEMMA InitTypeOK == Init => TypeOK
<1> SUFFICES ASSUME Init PROVE TypeOK
  OBVIOUS
<1>1. AbsentRow \in Row
  BY DEF AbsentRow, NewRow, Row, Statuses, Reasons
<1>2. InheritedRow(1) \subseteq Row
  <2> DEFINE n == NewRow(1)
             waiting(a) == [n EXCEPT !.attempts = a]
             running(a) == [n EXCEPT !.attempts = a, !.status = "running",
                                     !.slot = EmbeddedSlot]
  <2>1. n \in Row
    BY NewRowType
  <2>2. ASSUME NEW a \in 0..MaxAttempts
        PROVE  waiting(a) \in Row /\ running(a) \in Row
    <3> HIDE DEF n
    <3> QED BY <2>1, RowUpdate, Values
  <2>3. InheritedRow(1) = {waiting(a) : a \in 0..MaxAttempts}
                            \cup {running(a) : a \in 1..MaxAttempts}
    BY DEF InheritedRow
  <2>4. 1..MaxAttempts \subseteq 0..MaxAttempts
    OBVIOUS
  <2> HIDE DEF waiting, running
  <2> QED BY <2>2, <2>3, <2>4
<1>3. row \in [Jobs -> Row]
  BY <1>1, <1>2 DEF Init
<1> QED BY <1>3 DEF Init, TypeOK, Loops

(* Every step of the API process, every claim, and everything a task does  *)
(* keeps the types.                                                        *)
LEMMA StepTypeOK == TypeOK /\ [Next]_vars => TypeOK'
<1> SUFFICES ASSUME TypeOK, [Next]_vars PROVE TypeOK'
  OBVIOUS
<1> USE DEF TypeOK
<1>1. ASSUME NEW j \in Jobs, Enqueue(j) PROVE TypeOK'
  <2> DEFINE P == {k \in Jobs : row[k].status # "absent"}
  <2>1. Cardinality(P) \in Nat
    BY FS_Subset, FS_CardinalityType
  <2>2. NewRow(Cardinality(P) + 1) \in Row
    BY <2>1, NewRowType
  <2>3. row' \in [Jobs -> Row]
    BY <1>1, <2>2 DEF Enqueue
  <2> QED BY <1>1, <2>3 DEF Enqueue, workerVars
<1>2. ASSUME Pause \/ Resume \/ ApiRestarts PROVE TypeOK'
  BY <1>2 DEF Pause, Resume, ApiRestarts, workerVars
<1>3. ASSUME Recover PROVE TypeOK'
  BY <1>3, RecoverType DEF Recover, workerVars
<1>4. ASSUME NEW j \in Jobs, Cancel(j) PROVE TypeOK'
  BY <1>4, RowOperators DEF Cancel, workerVars
<1>5. ASSUME NEW j \in Jobs, Requeue(j) PROVE TypeOK'
  BY <1>5, RowOperators DEF Requeue, workerVars
<1>6. ASSUME NEW j \in Jobs, RequeueForced(j) PROVE TypeOK'
  BY <1>6, RowOperators DEF RequeueForced, workerVars
<1>7. ASSUME PersistForcedRetry PROVE TypeOK'
  <2>1. NewRow(row[forcing].created) \in Row
    BY <1>7, NewRowType DEF PersistForcedRetry, Row
  <2> QED BY <1>7, <2>1 DEF PersistForcedRetry, workerVars
<1>8. ASSUME NEW w \in Workers, StartWorker(w) \/ StopWorker(w) PROVE TypeOK'
  BY <1>8 DEF StartWorker, StopWorker, Loops
<1>9. ASSUME NEW w \in Workers, BeginPoll(w) PROVE TypeOK'
  <2>1. Reaped(w) \in [Jobs -> Nat]
    BY DEF Reaped
  <2> QED BY <1>9, <2>1 DEF BeginPoll, Loops
<1>10. ASSUME NEW w \in Workers, Claim(w) PROVE TypeOK'
  <2> PICK j \in OldestOf(Swept, Claimable(Swept)) :
          /\ row' = [Swept EXCEPT ![j] = ClaimedBy(@, w)]
          /\ claims' = [claims EXCEPT ![j] = @ + 1]
          /\ tracked' = [tracked EXCEPT ![w][j] = claims[j] + 1]
          /\ execs' = execs \cup {[job |-> j, worker |-> w, claim |-> claims[j] + 1]}
          /\ beating' = beating \cup {[job |-> j, worker |-> w, claim |-> claims[j] + 1]}
    BY <1>10 DEF Claim
  <2>1. j \in Claimable(Swept) /\ j \in Jobs
    BY DEF OldestOf, Claimable
  <2>2. Swept \in [Jobs -> Row]
    BY SweptType
  <2>3. ClaimedBy(Swept[j], w) \in Row
    <3> HIDE DEF TypeOK
    <3> QED BY <2>1, <2>2, ClaimedType
  <2>4. row' \in [Jobs -> Row]
    BY <2>1, <2>2, <2>3
  <2>5. [job |-> j, worker |-> w, claim |-> claims[j] + 1] \in Execution
    BY <2>1 DEF Execution
  <2>6. tracked' \in [Workers -> [Jobs -> Nat]] /\ claims' \in [Jobs -> Nat]
    BY <2>1
  <2> QED BY <1>10, <2>1, <2>4, <2>5, <2>6 DEF Claim
<1>11. ASSUME NEW w \in Workers, EndPoll(w) PROVE TypeOK'
  BY <1>11, SweptType DEF EndPoll, Loops
<1>12. ASSUME NEW w \in Workers, WorkerStopped(w) \/ WorkerCrashes(w) PROVE TypeOK'
  <2>1. row' = row /\ accepting' = accepting /\ forcing' = forcing /\ claims' = claims
    BY <1>12 DEF WorkerStopped, WorkerCrashes
  <2>2. loop' = [loop EXCEPT ![w] = "dead"] /\ "dead" \in Loops
    BY <1>12 DEF WorkerStopped, WorkerCrashes, Loops
  <2>3. tracked' = [tracked EXCEPT ![w] = [j \in Jobs |-> 0]]
    BY <1>12 DEF WorkerStopped, WorkerCrashes
  <2>4. /\ execs' \subseteq execs /\ raised' \subseteq raised
        /\ beating' \subseteq execs'
    BY <1>12 DEF WorkerStopped, WorkerCrashes
  <2> QED BY <2>1, <2>2, <2>3, <2>4
<1>13. ASSUME NEW t \in execs, Heartbeat(t) PROVE TypeOK'
  <2>1. t.job \in Jobs
    BY DEF Execution
  <2>2. row' \in [Jobs -> Row]
    <3> DEFINE live == [row[t.job] EXCEPT !.lease = "live"]
    <3>1. live \in Row
      BY <2>1, RowUpdate
    <3>2. row' \in {row, [row EXCEPT ![t.job] = live]}
      BY <1>13 DEF Heartbeat
    <3> HIDE DEF live
    <3> QED BY <2>1, <3>1, <3>2
  <2> QED BY <1>13, <2>2 DEF Heartbeat
<1>14. ASSUME NEW t \in execs, HeartbeatRaises(t) \/ OutcomeLost(t) PROVE TypeOK'
  BY <1>14 DEF HeartbeatRaises, OutcomeLost, Ended
<1>15. ASSUME NEW t \in execs, RunnerReturns(t) \/ RunnerFails(t) PROVE TypeOK'
  <2>1. t.job \in Jobs /\ t.claim \in Nat
    BY DEF Execution
  <2> DEFINE u == Unclaimed(row[t.job])
             done == [u EXCEPT !.status = "completed", !.result = t.claim,
                               !.reason = "runner_completed"]
             failed == [u EXCEPT !.status = "failed", !.result = 0,
                                 !.reason = "runner_exception"]
  <2>2. u \in Row
    BY <2>1, RowOperators
  <2>3. done \in Row /\ failed \in Row
    <3> HIDE DEF u
    <3> QED BY <2>1, <2>2, RowUpdate, Values
  <2>4. row' \in {row, [row EXCEPT ![t.job] = done], [row EXCEPT ![t.job] = failed]}
    BY <1>15 DEF RunnerReturns, RunnerFails
  <2>5. row' \in [Jobs -> Row]
    <3> HIDE DEF done, failed
    <3> QED BY <2>1, <2>3, <2>4
  <2> QED BY <1>15, <2>5 DEF RunnerReturns, RunnerFails, Ended
<1>16. ASSUME NEW t \in execs, ReleaseClaim(t) PROVE TypeOK'
  <2>1. t.job \in Jobs
    BY DEF Execution
  <2>2. row' \in [Jobs -> Row]
    BY <1>16, <2>1, RowOperators DEF ReleaseClaim
  <2> QED BY <1>16, <2>2 DEF ReleaseClaim, Ended
<1>17. ASSUME NEW j \in Jobs, LeaseLapses(j) PROVE TypeOK'
  <2> DEFINE lapsed == [row[j] EXCEPT !.lease = "lapsed"]
  <2>1. lapsed \in Row
    BY RowUpdate
  <2>2. row' = [row EXCEPT ![j] = lapsed]
    BY <1>17 DEF LeaseLapses
  <2>3. row' \in [Jobs -> Row]
    BY <2>1, <2>2
  <2> QED BY <1>17, <2>3 DEF LeaseLapses, workerVars
<1>18. ASSUME UNCHANGED vars PROVE TypeOK'
  BY <1>18 DEF vars, workerVars
<1> QED
  BY <1>1, <1>2, <1>3, <1>4, <1>5, <1>6, <1>7, <1>8, <1>9, <1>10, <1>11,
     <1>12, <1>13, <1>14, <1>15, <1>16, <1>17, <1>18
  DEF Next, Api, WorkerProcess, TaskStep

(* The state of the queue and of its workers keeps its types.              *)
THEOREM TypeCorrect == Spec => []TypeOK
BY InitTypeOK, StepTypeOK, PTL DEF Spec
-----------------------------------------------------------------------------
(* What any step may do to one row: r before, q after.  Every theorem      *)
(* about single rows below follows from this relation.  RowQuiet is what   *)
(* every action but Claim may do.                                          *)
Completed(r, n) == [Unclaimed(r) EXCEPT !.status = "completed", !.result = n,
                                        !.reason = "runner_completed"]
Failed(r) == [Unclaimed(r) EXCEPT !.status = "failed", !.result = 0,
                                  !.reason = "runner_exception"]
RowQuiet(r, q) ==
    \/ q = r
    \/ /\ r.status = "absent" \/ (r.status \in {"queued", "failed", "cancelled"}
                                   /\ r.attempts = MaxAttempts /\ forcing' = NoJob)
       /\ r.status = "absent" => r.attempts = 0
       /\ \E n \in Nat : q = NewRow(n)
    \/ r.status \in {"queued", "running"} /\ q = CancelledRow(r)
    \/ /\ r.status \in {"queued", "failed", "cancelled"}
       /\ r.attempts >= MaxAttempts
       /\ q = Exhausted(r)
    \/ /\ r.status \in {"failed", "cancelled"}
       /\ r.attempts < MaxAttempts \/ forcing = NoJob
       /\ q = RequeuedRow(r)
    \/ r.status = "running" /\ q = GivenBack(r)
    \/ r.status = "running" /\ q = Failed(r)
    \/ r.status = "running" /\ \E n \in Nat \ {0} : q = Completed(r, n)
    \/ r.lease # "none" /\ \E l \in {"live", "lapsed"} : q = [r EXCEPT !.lease = l]

RowNext(r, q) ==
    \/ RowQuiet(r, q)
    \/ /\ r.status = "queued" /\ r.attempts < MaxAttempts
       /\ \E w \in Workers : q = ClaimedBy(r, w)
    \/ /\ r.status = "running" /\ r.attempts < MaxAttempts
       /\ \E w \in Workers : q = ClaimedBy(GivenBack(r), w)

(* Rows that were never enqueued have spent nothing.                       *)
AbsentUntouched == \A j \in Jobs : row[j].status = "absent" => row[j].attempts = 0

(* The inductive invariant: row facts need each other, and the half-way    *)
(* forced retry needs to know what it may overwrite.                       *)
Inv == /\ TypeOK
       /\ ClaimMarkers
       /\ OutcomeConsistent
       /\ ForcedRetryPending
       /\ AbsentUntouched

(* The sweep of claim_next gives back expired claims and fails the queued  *)
(* jobs that had no attempt left; what it gives back is never failed twice.*)
LEMMA SweptRows ==
  ASSUME row \in [Jobs -> Row], NEW j \in Jobs
  PROVE  Swept[j] = IF Expired(row[j]) THEN GivenBack(row[j])
                    ELSE IF row[j].status = "queued" /\ row[j].attempts >= MaxAttempts
                    THEN Exhausted(row[j]) ELSE row[j]
<1> DEFINE R == RecoverExpired(row)
<1>1. row[j] \in Row
  OBVIOUS
<1>2. R[j] = IF Expired(row[j]) THEN GivenBack(row[j]) ELSE row[j]
  BY DEF RecoverExpired
<1>3. Swept[j] = IF R[j].status = "queued" /\ R[j].attempts >= MaxAttempts
                 THEN Exhausted(R[j]) ELSE R[j]
  BY DEF Swept, FailExhaustedQueued
<1>4. ~(GivenBack(row[j]).status = "queued" /\ GivenBack(row[j]).attempts >= MaxAttempts)
  BY <1>1 DEF GivenBack, Exhausted, Unclaimed, Row
<1> HIDE DEF R
<1> QED BY <1>2, <1>3, <1>4

(* A sweep is a step of every row.                                         *)
LEMMA SweptRowNext ==
  ASSUME row \in [Jobs -> Row], NEW j \in Jobs
  PROVE  RowQuiet(row[j], Swept[j])
BY SweptRows DEF RowQuiet, Expired

(* What is claimable after the sweep either was queued or has just been    *)
(* given back, with an attempt left in both cases.                         *)
LEMMA ClaimRowNext ==
  ASSUME row \in [Jobs -> Row], NEW j \in Claimable(Swept), NEW w \in Workers
  PROVE  RowNext(row[j], ClaimedBy(Swept[j], w))
<1>1. j \in Jobs /\ Swept[j].status = "queued" /\ Swept[j].attempts < MaxAttempts
  BY DEF Claimable
<1>2. row[j] \in Row
  BY <1>1
<1>3. CASE Expired(row[j])
  <2>1. Swept[j] = GivenBack(row[j]) /\ row[j].status = "running"
    BY <1>1, <1>3, SweptRows DEF Expired
  <2>2. GivenBack(row[j]).attempts = row[j].attempts
    BY <1>2 DEF GivenBack, Exhausted, Unclaimed, Row
  <2> QED BY <1>1, <2>1, <2>2 DEF RowNext, RowQuiet
<1>4. CASE ~Expired(row[j])
  <2>1. ~(row[j].status = "queued" /\ row[j].attempts >= MaxAttempts)
    BY <1>1, <1>2, <1>4, SweptRows DEF Exhausted, Row
  <2>2. Swept[j] = row[j]
    BY <1>1, <1>4, <2>1, SweptRows
  <2> QED BY <1>1, <2>2 DEF RowNext, RowQuiet
<1> QED BY <1>3, <1>4
(* Every step but a claim, of whichever process, is quiet for each row.    *)
LEMMA StepRowQuiet ==
  ASSUME TypeOK, ForcedRetryPending, AbsentUntouched, [Next]_vars, NEW k \in Jobs,
         ~\E w \in Workers : Claim(w)
  PROVE  RowQuiet(row[k], row'[k])
<1>0. row \in [Jobs -> Row] /\ row[k] \in Row /\ execs \subseteq Execution
  BY DEF TypeOK
<1>1. ASSUME UNCHANGED row PROVE RowQuiet(row[k], row'[k])
  BY <1>1 DEF RowQuiet
<1>2. ASSUME NEW j \in Jobs, Enqueue(j) PROVE RowQuiet(row[k], row'[k])
  <2> DEFINE n == Cardinality({i \in Jobs : row[i].status # "absent"}) + 1
  <2>1. n \in Nat
    BY FS_Subset, FS_CardinalityType
  <2>2. row' = [row EXCEPT ![j] = NewRow(n)] /\ row[j].status = "absent"
    BY <1>2 DEF Enqueue
  <2> HIDE DEF n
  <2> QED BY <1>0, <2>1, <2>2 DEF RowQuiet, AbsentUntouched
<1>3. ASSUME Recover PROVE RowQuiet(row[k], row'[k])
  <2>1. row'[k] = IF Expired(row[k]) THEN GivenBack(row[k]) ELSE row[k]
    BY <1>3 DEF Recover, RecoverExpired
  <2> QED BY <2>1 DEF RowQuiet, Expired
<1>4. ASSUME NEW j \in Jobs, Cancel(j) PROVE RowQuiet(row[k], row'[k])
  <2>1. row[j].status \in {"queued", "running"}
    BY <1>0, <1>4 DEF Cancel, Terminal, TypeOK, Row, Statuses
  <2>2. row' = [row EXCEPT ![j] = CancelledRow(row[j])]
    BY <1>4 DEF Cancel
  <2> QED BY <1>0, <2>1, <2>2 DEF RowQuiet
<1>5. ASSUME NEW j \in Jobs, Requeue(j) PROVE RowQuiet(row[k], row'[k])
  <2>1. row[j].attempts \in Nat
    BY <1>0 DEF Row
  <2>2. /\ row[j].status \in {"failed", "cancelled"}
        /\ row' = [row EXCEPT ![j] = IF row[j].attempts >= MaxAttempts
                                     THEN Exhausted(row[j]) ELSE RequeuedRow(row[j])]
    BY <1>5 DEF Requeue
  <2> QED BY <1>0, <2>1, <2>2 DEF RowQuiet
<1>6. ASSUME NEW j \in Jobs, RequeueForced(j) PROVE RowQuiet(row[k], row'[k])
  <2>1. \/ /\ row[j].status \in {"failed", "cancelled"} /\ forcing = NoJob
           /\ row' = [row EXCEPT ![j] = RequeuedRow(row[j])]
        \/ UNCHANGED row
    BY <1>6 DEF RequeueForced, LoopFree
  <2> QED BY <1>0, <2>1 DEF RowQuiet
<1>7. ASSUME PersistForcedRetry PROVE RowQuiet(row[k], row'[k])
  <2>1. /\ forcing # NoJob /\ forcing \in Jobs /\ forcing' = NoJob
        /\ row' = [row EXCEPT ![forcing] = NewRow(row[forcing].created)]
    BY <1>7 DEF PersistForcedRetry, TypeOK
  <2>2. row[forcing].created \in Nat
    BY <1>0, <2>1 DEF Row
  <2>3. /\ row[forcing].status \in {"queued", "failed", "cancelled"}
        /\ row[forcing].attempts = MaxAttempts
    BY <2>1 DEF ForcedRetryPending
  <2> QED BY <1>0, <2>1, <2>2, <2>3 DEF RowQuiet
<1>9. ASSUME NEW w \in Workers, EndPoll(w) PROVE RowQuiet(row[k], row'[k])
  BY <1>0, <1>1, <1>9, SweptRowNext DEF EndPoll
<1>10. ASSUME NEW t \in execs, Heartbeat(t) PROVE RowQuiet(row[k], row'[k])
  <2>1. t.job \in Jobs
    BY <1>0 DEF Execution
  <2>2. \/ UNCHANGED row
        \/ row[t.job].lease # "none" /\ row' = [row EXCEPT ![t.job].lease = "live"]
    BY <1>10 DEF Heartbeat
  <2> QED BY <1>0, <2>1, <2>2 DEF RowQuiet
<1>11. ASSUME NEW t \in execs, RunnerReturns(t) PROVE RowQuiet(row[k], row'[k])
  <2>1. t.job \in Jobs /\ t.claim \in Nat \ {0}
    BY <1>0 DEF Execution
  <2>2. \/ UNCHANGED row
        \/ /\ row[t.job].status = "running"
           /\ row' = [row EXCEPT ![t.job] = Completed(row[t.job], t.claim)]
    BY <1>11 DEF RunnerReturns, Completed, Holds
  <2> QED BY <1>0, <2>1, <2>2 DEF RowQuiet
<1>12. ASSUME NEW t \in execs, RunnerFails(t) PROVE RowQuiet(row[k], row'[k])
  <2>1. t.job \in Jobs
    BY <1>0 DEF Execution
  <2>2. \/ UNCHANGED row
        \/ /\ row[t.job].status = "running"
           /\ row' = [row EXCEPT ![t.job] = Failed(row[t.job])]
    BY <1>12 DEF RunnerFails, Failed, Holds
  <2> QED BY <1>0, <2>1, <2>2 DEF RowQuiet
<1>13. ASSUME NEW t \in execs, ReleaseClaim(t) PROVE RowQuiet(row[k], row'[k])
  <2>1. t.job \in Jobs
    BY <1>0 DEF Execution
  <2>2. \/ UNCHANGED row
        \/ /\ row[t.job].status = "running"
           /\ row' = [row EXCEPT ![t.job] = GivenBack(row[t.job])]
    BY <1>13 DEF ReleaseClaim, Holds
  <2> QED BY <1>0, <2>1, <2>2 DEF RowQuiet
<1>14. ASSUME NEW j \in Jobs, LeaseLapses(j) PROVE RowQuiet(row[k], row'[k])
  <2>1. /\ row[j].lease # "none"
        /\ row' = [row EXCEPT ![j].lease = "lapsed"]
    BY <1>14 DEF LeaseLapses
  <2> QED BY <1>0, <2>1 DEF RowQuiet
<1> QED
  BY <1>1, <1>2, <1>3, <1>4, <1>5, <1>6, <1>7, <1>9, <1>10, <1>11,
     <1>12, <1>13, <1>14
  DEF Next, Api, WorkerProcess, TaskStep, vars, Pause, Resume, ApiRestarts,
      StartWorker, BeginPoll, StopWorker, WorkerStopped, WorkerCrashes,
      HeartbeatRaises, OutcomeLost
(* Every step of the system is a RowNext step of each row.                 *)
LEMMA StepRowNext ==
  ASSUME TypeOK, ForcedRetryPending, AbsentUntouched, [Next]_vars, NEW k \in Jobs
  PROVE  RowNext(row[k], row'[k])
<1>1. ASSUME NEW w \in Workers, Claim(w) PROVE RowNext(row[k], row'[k])
  <2>0. row \in [Jobs -> Row]
    BY DEF TypeOK
  <2> PICK j \in OldestOf(Swept, Claimable(Swept)) :
          row' = [Swept EXCEPT ![j] = ClaimedBy(Swept[j], w)]
    BY <1>1 DEF Claim
  <2>1. j \in Claimable(Swept) /\ Swept \in [Jobs -> Row] /\ j \in Jobs
    BY <2>0, SweptType DEF OldestOf, Claimable
  <2>2. CASE k = j
    BY <2>0, <2>1, <2>2, ClaimRowNext
  <2>3. CASE k # j
    BY <2>0, <2>1, <2>3, SweptRowNext DEF RowNext
  <2> QED BY <2>2, <2>3
<1> QED BY <1>1, StepRowQuiet DEF RowNext
-----------------------------------------------------------------------------
(* A step of a row keeps its claim markers consistent.                     *)
LEMMA MarkedStep ==
  ASSUME NEW r \in Row, NEW q, RowNext(r, q), Marked(r)
  PROVE  Marked(q)
<1> DEFINE free(p) == p.status # "running" /\ p.slot = NoWorker /\ p.lease = "none"
<1>1. ASSUME NEW p, free(p) PROVE Marked(p)
  BY <1>1 DEF Marked
<1>2. ASSUME NEW p \in Row, NEW w \in Workers PROVE Marked(ClaimedBy(p, w))
  BY DEF Marked, ClaimedBy, Row
<1>3. ASSUME NEW n \in Nat, q = NewRow(n) PROVE Marked(q)
  BY <1>1, <1>3 DEF NewRow
<1>4. ASSUME q = CancelledRow(r) PROVE Marked(q)
  BY <1>1, <1>4 DEF CancelledRow, Unclaimed, Row
<1>5. ASSUME r.status \in {"queued", "failed", "cancelled"}, q = Exhausted(r) PROVE Marked(q)
  BY <1>1, <1>5 DEF Exhausted, Marked, Row
<1>6. ASSUME q = RequeuedRow(r) PROVE Marked(q)
  BY <1>1, <1>6 DEF RequeuedRow, Unclaimed, Row
<1>7. ASSUME q = GivenBack(r) PROVE Marked(q)
  BY <1>1, <1>7 DEF GivenBack, Exhausted, Unclaimed, Row
<1>8. ASSUME q = Failed(r) PROVE Marked(q)
  BY <1>1, <1>8 DEF Failed, Unclaimed, Row
<1>9. ASSUME NEW n \in Nat, q = Completed(r, n) PROVE Marked(q)
  BY <1>1, <1>9 DEF Completed, Unclaimed, Row
<1>10. ASSUME r.lease # "none", NEW l \in {"live", "lapsed"}, q = [r EXCEPT !.lease = l]
       PROVE  Marked(q)
  BY <1>10 DEF Marked, Row
<1> QED
  BY <1>2, <1>3, <1>4, <1>5, <1>6, <1>7, <1>8, <1>9, <1>10, RowOperators DEF RowNext, RowQuiet
(* A step of a row keeps its terminal reason and its result in agreement   *)
(* with its status.                                                        *)
LEMMA ExplainedStep ==
  ASSUME NEW r \in Row, NEW q, RowNext(r, q), Explained(r)
  PROVE  Explained(q)
<1>1. ASSUME NEW n \in Nat, q = NewRow(n) PROVE Explained(q)
  BY <1>1 DEF NewRow, Explained
<1>2. ASSUME r.status \in {"queued", "running"}, q = CancelledRow(r) PROVE Explained(q)
  BY <1>2 DEF CancelledRow, Unclaimed, Explained, Row
<1>3. ASSUME r.status \in {"queued", "failed", "cancelled"}, r.attempts >= MaxAttempts,
             q = Exhausted(r)
      PROVE  Explained(q)
  BY <1>3 DEF Exhausted, Explained, Row
<1>4. ASSUME q = RequeuedRow(r) PROVE Explained(q)
  BY <1>4 DEF RequeuedRow, Unclaimed, Explained, Row
<1>5. ASSUME r.status = "running" PROVE Explained(GivenBack(r))
  BY <1>5 DEF GivenBack, Exhausted, Unclaimed, Explained, Row
<1>6. ASSUME NEW p \in Row, NEW w \in Workers, p.result = 0 PROVE Explained(ClaimedBy(p, w))
  BY <1>6 DEF Explained, ClaimedBy, Row
<1>7. ASSUME r.status = "running", r.attempts < MaxAttempts PROVE GivenBack(r).result = 0
  BY <1>7 DEF GivenBack, Unclaimed, Explained, Row
<1>8. ASSUME q = Failed(r) PROVE Explained(q)
  BY <1>8 DEF Failed, Unclaimed, Explained, Row
<1>9. ASSUME NEW n \in Nat \ {0}, q = Completed(r, n) PROVE Explained(q)
  BY <1>9 DEF Completed, Unclaimed, Explained, Row
<1>10. ASSUME NEW l \in {"live", "lapsed"}, q = [r EXCEPT !.lease = l] PROVE Explained(q)
  BY <1>10 DEF Explained, Row
<1>11. r.status = "queued" => r.result = 0
  BY DEF Explained
<1> QED
  BY <1>1, <1>2, <1>3, <1>4, <1>5, <1>6, <1>7, <1>8, <1>9, <1>10, <1>11, RowOperators
  DEF RowNext, RowQuiet

(* A spent job that waits, failed or was cancelled stays that way while a  *)
(* forced retry is half-way: no other handler can reset its attempts.      *)
LEMMA SpentStep ==
  ASSUME NEW r \in Row, NEW q, RowNext(r, q), forcing # NoJob, forcing' # NoJob,
         r.status \in {"queued", "failed", "cancelled"}, r.attempts = MaxAttempts,
         Marked(r)
  PROVE  q.status \in {"queued", "failed", "cancelled"} /\ q.attempts = MaxAttempts
<1>1. r.lease = "none"
  BY DEF Marked
<1>2. q = r \/ q = CancelledRow(r) \/ q = Exhausted(r)
  BY <1>1 DEF RowNext, RowQuiet, Row
<1> QED BY <1>2 DEF CancelledRow, Exhausted, Unclaimed, Row

(* No step makes a row absent, nor spends the attempts of an absent one.   *)
LEMMA AbsentStep ==
  ASSUME NEW r \in Row, NEW q, RowNext(r, q), r.status = "absent" => r.attempts = 0, Marked(r)
  PROVE  q.status = "absent" => q.attempts = 0
<1>1. /\ CancelledRow(r).status = "cancelled"
      /\ Exhausted(r).status = "failed"
      /\ RequeuedRow(r).status = "queued"
      /\ Failed(r).status = "failed"
      /\ GivenBack(r).status # "absent"
  BY DEF CancelledRow, Exhausted, RequeuedRow, Failed, GivenBack, Unclaimed, Row
<1>2. /\ \A n \in Nat : NewRow(n).status = "queued"
      /\ \A n \in Nat \ {0} : Completed(r, n).status = "completed"
      /\ \A p \in Row, w \in Workers : ClaimedBy(p, w).status = "running"
  BY DEF NewRow, Completed, ClaimedBy, Unclaimed, Row
<1>3. ASSUME r.lease # "none", NEW l \in {"live", "lapsed"}, q = [r EXCEPT !.lease = l]
      PROVE  q.status # "absent"
  BY <1>3 DEF Marked, Row
<1> QED BY <1>1, <1>2, <1>3, RowOperators DEF RowNext, RowQuiet

(* The invariant holds initially, in inherited rows too.                   *)
LEMMA InitInv == Init => Inv
<1> SUFFICES ASSUME Init, NEW j \in Jobs
             PROVE  /\ Marked(row[j]) /\ Explained(row[j])
                    /\ row[j].status = "absent" => row[j].attempts = 0
  BY InitTypeOK DEF Init, Inv, ClaimMarkers, OutcomeConsistent, ForcedRetryPending,
     AbsentUntouched
<1>1. row[j] \in {AbsentRow} \cup InheritedRow(1)
  BY DEF Init
<1>2. CASE row[j] = AbsentRow
  BY <1>2 DEF AbsentRow, NewRow, Marked, Explained
<1>3. ASSUME NEW a \in 0..MaxAttempts, row[j] = [NewRow(1) EXCEPT !.attempts = a]
      PROVE  /\ Marked(row[j]) /\ Explained(row[j])
             /\ row[j].status # "absent"
  BY <1>3 DEF NewRow, Marked, Explained
<1>4. ASSUME NEW a \in 0..MaxAttempts,
             row[j] = [NewRow(1) EXCEPT !.attempts = a, !.status = "running",
                                        !.slot = EmbeddedSlot]
      PROVE  /\ Marked(row[j]) /\ Explained(row[j])
             /\ row[j].status # "absent"
  BY <1>4 DEF NewRow, Marked, Explained
<1>5. CASE row[j] \in InheritedRow(1)
  <2> DEFINE n == NewRow(1)
  <2>1. \/ \E a \in 0..MaxAttempts : row[j] = [n EXCEPT !.attempts = a]
        \/ \E a \in 1..MaxAttempts :
              row[j] = [n EXCEPT !.attempts = a, !.status = "running",
                                 !.slot = EmbeddedSlot]
    <3> HIDE DEF n
    <3> QED BY <1>5 DEF InheritedRow, n
  <2>2. 1..MaxAttempts \subseteq 0..MaxAttempts
    OBVIOUS
  <2> QED BY <1>3, <1>4, <2>1, <2>2
<1> QED BY <1>1, <1>2, <1>5

(* A pending forced retry begins with a spent job and its handler ends it. *)
LEMMA ForcingStep ==
  ASSUME TypeOK, [Next]_vars, forcing' # NoJob, forcing' # forcing
  PROVE  /\ row' = row /\ row[forcing'].status = "queued"
         /\ row[forcing'].attempts = MaxAttempts /\ forcing' \in Jobs
<1>1. ASSUME NEW j \in Jobs, RequeueForced(j)
      PROVE  /\ row' = row /\ row[forcing'].status = "queued"
             /\ row[forcing'].attempts = MaxAttempts /\ forcing' \in Jobs
  <2>1. row[j].attempts \in 0..MaxAttempts
    BY DEF TypeOK, Row
  <2>2. /\ row' = row /\ forcing' = j /\ row[j].status = "queued"
        /\ row[j].attempts >= MaxAttempts
    BY <1>1 DEF RequeueForced
  <2> QED BY <2>1, <2>2
<1>2. ASSUME NEW j \in Jobs, Enqueue(j) \/ Cancel(j) \/ Requeue(j) \/ LeaseLapses(j)
      PROVE  forcing' = forcing
  BY <1>2 DEF Enqueue, Cancel, Requeue, LeaseLapses
<1>3. ASSUME Pause \/ Resume \/ Recover \/ PersistForcedRetry \/ ApiRestarts
      PROVE  forcing' \in {forcing, NoJob}
  BY <1>3 DEF Pause, Resume, Recover, PersistForcedRetry, ApiRestarts
<1>4. ASSUME NEW w \in Workers, WorkerProcess(w) PROVE forcing' = forcing
  BY <1>4 DEF WorkerProcess, StartWorker, BeginPoll, Claim, EndPoll, StopWorker,
     WorkerStopped, WorkerCrashes
<1>5. ASSUME NEW t \in execs, TaskStep(t) PROVE forcing' = forcing
  BY <1>5 DEF TaskStep, Heartbeat, HeartbeatRaises, RunnerReturns, RunnerFails,
     OutcomeLost, ReleaseClaim
<1> QED BY <1>1, <1>2, <1>3, <1>4, <1>5 DEF Next, Api, vars

(* Every step keeps the invariant.                                         *)
LEMMA StepInv == Inv /\ [Next]_vars => Inv'
<1> SUFFICES ASSUME Inv, [Next]_vars PROVE Inv'
  OBVIOUS
<1>1. TypeOK' /\ row \in [Jobs -> Row] /\ row' \in [Jobs -> Row]
  BY StepTypeOK DEF Inv, TypeOK
<1>2. ASSUME NEW j \in Jobs PROVE RowNext(row[j], row'[j]) /\ row[j] \in Row
  BY <1>1, StepRowNext DEF Inv
<1>3. ClaimMarkers'
  BY <1>2, MarkedStep DEF Inv, ClaimMarkers
<1>4. OutcomeConsistent'
  BY <1>2, ExplainedStep DEF Inv, OutcomeConsistent
<1>5. ForcedRetryPending'
  <2>1. CASE forcing' = forcing /\ forcing # NoJob
    <3>1. forcing \in Jobs
      BY <2>1 DEF Inv, TypeOK
    <3>2. /\ row'[forcing].status \in {"queued", "failed", "cancelled"}
          /\ row'[forcing].attempts = MaxAttempts
      BY <1>2, <2>1, <3>1, SpentStep DEF Inv, ForcedRetryPending, ClaimMarkers
    <3> QED BY <2>1, <3>2 DEF ForcedRetryPending
  <2>2. CASE forcing' # forcing /\ forcing' # NoJob
    BY <2>2, ForcingStep DEF Inv, ForcedRetryPending
  <2> QED BY <2>1, <2>2 DEF ForcedRetryPending
<1>6. AbsentUntouched'
  BY <1>2, AbsentStep DEF Inv, AbsentUntouched, ClaimMarkers
<1> QED BY <1>1, <1>3, <1>4, <1>5, <1>6 DEF Inv

(* The inductive invariant holds throughout.                               *)
THEOREM Invariant == Spec => []Inv
BY InitInv, StepInv, PTL DEF Spec

(* A row names its executor exactly while it is running, and carries a     *)
(* lease exactly while that is an external worker, whatever cancels,       *)
(* crashes, stops and lapses.                                              *)
THEOREM ClaimMarkersCorrect == Spec => []ClaimMarkers
<1>1. Inv => ClaimMarkers
  BY DEF Inv
<1> QED BY <1>1, Invariant, PTL

(* The terminal reason and the stored result always explain the status.    *)
THEOREM OutcomeConsistentCorrect == Spec => []OutcomeConsistent
<1>1. Inv => OutcomeConsistent
  BY DEF Inv
<1> QED BY <1>1, Invariant, PTL

(* The row that a half-way forced retry overwrites is never a running one. *)
THEOREM ForcedRetryPendingCorrect == Spec => []ForcedRetryPending
<1>1. Inv => ForcedRetryPending
  BY DEF Inv
<1> QED BY <1>1, Invariant, PTL
-----------------------------------------------------------------------------
(* The queue implements the lifecycle of each of its jobs.                 *)

(* JobLifecycle's next-state relation, between two rows.                   *)
LifeNext(r, q) ==
    \/ q.status = r.status /\ q.attempts = r.attempts
    \/ r.status = "absent" /\ q.status = "queued" /\ q.attempts = r.attempts
    \/ /\ r.status \in {"queued", "running"} /\ r.attempts < MaxAttempts
       /\ q.status = "running" /\ q.attempts = r.attempts + 1
    \/ /\ r.status = "running" /\ q.status \in {"completed", "failed"}
       /\ q.attempts = r.attempts
    \/ /\ r.status = "running" /\ r.attempts < MaxAttempts
       /\ q.status = "queued" /\ q.attempts = r.attempts
    \/ /\ r.status \in {"queued", "running", "cancelled"} /\ r.attempts = MaxAttempts
       /\ q.status = "failed" /\ q.attempts = r.attempts
    \/ /\ r.status \in {"queued", "running"}
       /\ q.status = "cancelled" /\ q.attempts = r.attempts
    \/ /\ r.status \in {"failed", "cancelled"} /\ r.attempts < MaxAttempts
       /\ q.status = "queued" /\ q.attempts = r.attempts
    \/ /\ r.status \in {"queued", "failed", "cancelled"} /\ r.attempts = MaxAttempts
       /\ q.status = "queued" /\ q.attempts = 0

(* Whatever a step does to a row, the lifecycle allows.                    *)
LEMMA LifeStep ==
  ASSUME NEW r \in Row, NEW q, RowNext(r, q)
  PROVE  LifeNext(r, q)
<1>1. r.attempts \in 0..MaxAttempts
  BY DEF Row
<1>2. /\ \A n \in Nat : NewRow(n).status = "queued" /\ NewRow(n).attempts = 0
      /\ CancelledRow(r).status = "cancelled" /\ CancelledRow(r).attempts = r.attempts
      /\ Exhausted(r).status = "failed" /\ Exhausted(r).attempts = r.attempts
      /\ Failed(r).status = "failed" /\ Failed(r).attempts = r.attempts
  BY DEF NewRow, CancelledRow, Exhausted, Failed, Unclaimed, Row
<1>3. /\ RequeuedRow(r).status = "queued"
      /\ RequeuedRow(r).attempts = IF r.attempts >= MaxAttempts THEN 0 ELSE r.attempts
  BY DEF RequeuedRow, Unclaimed, Row
<1>4. /\ GivenBack(r).status = IF r.attempts >= MaxAttempts THEN "failed" ELSE "queued"
      /\ GivenBack(r).attempts = r.attempts
  BY DEF GivenBack, Exhausted, Unclaimed, Row
<1>5. \A p \in Row, w \in Workers : /\ ClaimedBy(p, w).status = "running"
                                    /\ ClaimedBy(p, w).attempts = p.attempts + 1
  BY DEF ClaimedBy, Row
<1>6. \A n \in Nat \ {0} : /\ Completed(r, n).status = "completed"
                           /\ Completed(r, n).attempts = r.attempts
  BY DEF Completed, Unclaimed, Row
<1>7. \A l \in {"live", "lapsed"} : /\ [r EXCEPT !.lease = l].status = r.status
                                    /\ [r EXCEPT !.lease = l].attempts = r.attempts
  BY DEF Row
<1>8. GivenBack(r) \in Row
  BY RowOperators
<1>9. ASSUME r.status = "absent" => r.attempts = 0,
             r.status = "absent" \/ (r.status \in {"queued", "failed", "cancelled"}
                                       /\ r.attempts = MaxAttempts),
             NEW n \in Nat, q = NewRow(n)
      PROVE  LifeNext(r, q)
  <2>1. q.status = "queued" /\ q.attempts = 0
    BY <1>2, <1>9
  <2> QED BY <1>1, <1>9, <2>1 DEF LifeNext
<1>10. ASSUME r.status \in {"queued", "running"}, q = CancelledRow(r) PROVE LifeNext(r, q)
  BY <1>2, <1>10 DEF LifeNext
<1>11. ASSUME r.status \in {"queued", "failed", "cancelled"}, r.attempts >= MaxAttempts,
              q = Exhausted(r)
       PROVE  LifeNext(r, q)
  <2>1. r.attempts = MaxAttempts
    BY <1>1, <1>11
  <2> QED BY <1>2, <1>11, <2>1 DEF LifeNext
<1>12. ASSUME r.status \in {"failed", "cancelled"}, q = RequeuedRow(r) PROVE LifeNext(r, q)
  <2>1. CASE r.attempts < MaxAttempts
    <3>1. ~(r.attempts >= MaxAttempts)
      BY <1>1, <2>1
    <3>2. q.status = "queued" /\ q.attempts = r.attempts
      BY <1>3, <1>12, <3>1
    <3> QED BY <1>12, <2>1, <3>2 DEF LifeNext
  <2>2. CASE r.attempts = MaxAttempts
    <3>1. q.status = "queued" /\ q.attempts = 0
      BY <1>3, <1>12, <2>2
    <3> QED BY <1>12, <2>2, <3>1 DEF LifeNext
  <2> QED BY <1>1, <2>1, <2>2
<1>13. ASSUME r.status = "running", q = GivenBack(r) PROVE LifeNext(r, q)
  <2>1. r.attempts < MaxAttempts \/ r.attempts = MaxAttempts
    BY <1>1
  <2> QED BY <1>4, <1>13, <2>1 DEF LifeNext
<1>14. ASSUME r.status = "queued", r.attempts < MaxAttempts,
              NEW w \in Workers, q = ClaimedBy(r, w)
       PROVE  LifeNext(r, q)
  BY <1>5, <1>14 DEF LifeNext
<1>15. ASSUME r.status = "running", r.attempts < MaxAttempts,
              NEW w \in Workers, q = ClaimedBy(GivenBack(r), w)
       PROVE  LifeNext(r, q)
  BY <1>4, <1>5, <1>8, <1>15 DEF LifeNext
<1>16. ASSUME r.status = "running", q = Failed(r) PROVE LifeNext(r, q)
  BY <1>2, <1>16 DEF LifeNext
<1>17. ASSUME r.status = "running", NEW n \in Nat \ {0}, q = Completed(r, n)
       PROVE  LifeNext(r, q)
  BY <1>6, <1>17 DEF LifeNext
<1>18. ASSUME NEW l \in {"live", "lapsed"}, q = [r EXCEPT !.lease = l] PROVE LifeNext(r, q)
  BY <1>7, <1>18 DEF LifeNext
<1>19. q = r => LifeNext(r, q)
  BY DEF LifeNext
<1> QED
  BY <1>9, <1>10, <1>11, <1>12, <1>13, <1>14, <1>15, <1>16, <1>17, <1>18, <1>19
  DEF RowNext, RowQuiet

(* The lifecycle's initial states.                                         *)
LEMMA LifeInit == Init => \A j \in Jobs : Life(j)!Init
<1> SUFFICES ASSUME Init, NEW j \in Jobs PROVE Life(j)!Init
  OBVIOUS
<1>1. row[j] \in Row /\ Marked(row[j]) /\ (row[j].status = "absent" => row[j].attempts = 0)
  BY InitInv DEF Inv, TypeOK, ClaimMarkers, AbsentUntouched
<1>2. row[j].status \in {"absent", "queued"} \/ (row[j].status = "running" /\ row[j].attempts > 0)
  <2>1. AbsentRow.status = "absent"
    BY DEF AbsentRow, NewRow
  <2>2. ASSUME NEW a \in 0..MaxAttempts, row[j] = [NewRow(1) EXCEPT !.attempts = a]
        PROVE  row[j].status = "queued"
    BY <2>2 DEF NewRow
  <2>3. ASSUME NEW a \in 1..MaxAttempts,
               row[j] = [NewRow(1) EXCEPT !.attempts = a, !.status = "running",
                                          !.slot = EmbeddedSlot]
        PROVE  row[j].status = "running" /\ row[j].attempts > 0
    BY <2>3 DEF NewRow
  <2>4. row[j] = AbsentRow \/ row[j] \in InheritedRow(1)
    BY DEF Init
  <2>5. CASE row[j] \in InheritedRow(1)
    <3> DEFINE n == NewRow(1)
    <3>1. \/ \E a \in 0..MaxAttempts : row[j] = [n EXCEPT !.attempts = a]
          \/ \E a \in 1..MaxAttempts :
                row[j] = [n EXCEPT !.attempts = a, !.status = "running",
                                   !.slot = EmbeddedSlot]
      <4> HIDE DEF n
      <4> QED BY <2>5 DEF InheritedRow, n
    <3> QED BY <2>2, <2>3, <3>1
  <2> QED BY <2>1, <2>4, <2>5
<1>3. row[j].status \in Statuses /\ row[j].attempts \in 0..MaxAttempts
  BY <1>1 DEF Row
<1> QED BY <1>1, <1>2, <1>3 DEF Life!Init, Life!TypeOK, Life!Statuses, Statuses

(* Every job goes through the lifecycle of JobLifecycle: the refinement.   *)
THEOREM LifecycleImplemented == Spec => Lifecycle
<1>1. ASSUME Inv, [Next]_vars, NEW j \in Jobs
      PROVE  [Life(j)!Next]_(Life(j)!vars)
  <2>1. row[j] \in Row /\ RowNext(row[j], row'[j])
    BY <1>1, StepRowNext DEF Inv, TypeOK
  <2>2. LifeNext(row[j], row'[j])
    BY <2>1, LifeStep
  <2> QED
    BY <2>2 DEF LifeNext, Life!Next, Life!vars, Life!Enqueue, Life!StartAttempt,
       Life!EndAttempt, Life!GiveBack, Life!Exhaust, Life!Cancel, Life!Retry
<1>2. Inv /\ [Next]_vars => \A j \in Jobs : [Life(j)!Next]_(Life(j)!vars)
  BY <1>1
<1> QED BY <1>2, LifeInit, Invariant, PTL DEF Spec, Lifecycle
=============================================================================
