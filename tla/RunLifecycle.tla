---------------------------- MODULE RunLifecycle ----------------------------
(***************************************************************************)
(* What the agent promises about ONE run, whoever executes, pauses,        *)
(* approves and resumes it: its plan is done in order, each step after it  *)
(* has been executed; a step that needs an approval is executed at most    *)
(* once for each approval; the run waits only for such a step; it is       *)
(* completed when the whole plan is done; completed and rejected runs are  *)
(* left alone.  RunRecovery is shown to implement it.                      *)
(***************************************************************************)
EXTENDS Naturals, Sequences

CONSTANTS Free,         \* what the policy says of a step that may be executed,
          Gated,        \* of one that may be once it has been approved,
          Denied        \* and of one that may not

VARIABLES plan,         \* what the policy says of each step; empty until planned
          done,         \* the steps that have succeeded
          status,       \* runs.status; "working" whichever of its actors is at work
          approvals,    \* how often each step has been approved ...
          executed      \* ... and handed to the executor

vars == <<plan, done, status, approvals, executed>>

Init == /\ plan = <<>> /\ done = {} /\ status = "working"
        /\ \A s \in DOMAIN approvals : approvals[s] = 0
        /\ \A s \in DOMAIN executed : executed[s] = 0

(* All before s is done, and s is not.                                     *)
IsNext(s) == s \in 1..Len(plan) /\ done = 1..(s - 1)

PlanOnce == /\ plan = <<>> /\ status = "working"
            /\ plan' \in Seq(Free \cup Gated \cup Denied)
            /\ UNCHANGED <<done, status, approvals>>

Succeed(s) == /\ status = "working" /\ IsNext(s) /\ executed[s] > 0
              /\ done' = 1..s
              /\ UNCHANGED <<plan, status, approvals>>

Complete == /\ status = "working" /\ plan # <<>> /\ done = 1..Len(plan)
            /\ status' = "completed"
            /\ UNCHANGED <<plan, done, approvals>>

Fail == /\ status = "working"
        /\ status' = "failed"
        /\ UNCHANGED <<plan, done, approvals>>

Wait(s) == /\ status = "working" /\ IsNext(s) /\ plan[s] \in Gated
           /\ status' = "waiting"
           /\ UNCHANGED <<plan, done, approvals>>

(* The decision is on record before the run goes on.                       *)
Approve(s) == /\ status \in {"working", "waiting"} /\ IsNext(s) /\ plan[s] \in Gated
              /\ approvals' = [approvals EXCEPT ![s] = @ + 1]
              /\ UNCHANGED <<plan, done, status>>

Proceed(s) == /\ status = "waiting" /\ IsNext(s) /\ executed[s] < approvals[s]
              /\ status' = "working"
              /\ UNCHANGED <<plan, done, approvals>>

Reject(s) == /\ status \in {"working", "waiting"} /\ IsNext(s) /\ plan[s] \in Gated
             /\ status' = "rejected"
             /\ UNCHANGED <<plan, done, approvals>>

Resume(s) == /\ status = "failed" /\ IsNext(s)
             /\ status' = "working"
             /\ UNCHANGED <<plan, done, approvals>>

Moves == \/ PlanOnce \/ Complete \/ Fail
         \/ \E s \in 1..Len(plan) : \/ Succeed(s) \/ Wait(s) \/ Approve(s)
                                    \/ Proceed(s) \/ Reject(s) \/ Resume(s)

(* Step s begins.                                                          *)
Execute(s) == /\ status' = "working" /\ IsNext(s)'
              /\ \/ plan'[s] \in Free
                 \/ plan'[s] \in Gated /\ executed[s] < approvals[s]
              /\ executed' = [executed EXCEPT ![s] = @ + 1]

(* It may begin in the very transaction that ends what came before.        *)
Next == /\ Moves \/ UNCHANGED <<plan, done, status, approvals>>
        /\ UNCHANGED executed \/ \E s \in 1..Len(plan') : Execute(s)

Spec == Init /\ [][Next]_vars
=============================================================================
