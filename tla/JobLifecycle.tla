---------------------------- MODULE JobLifecycle ----------------------------
(***************************************************************************)
(* What the run queue promises about ONE job, whatever executes it: the    *)
(* lifecycle of docs/QUEUE.md ("Normal transitions") completed with the    *)
(* transitions that recovery, shutdown and the attempt limit add.  A job   *)
(* never leaves "completed", an attempt is only ever counted when it       *)
(* starts, no attempt starts beyond the limit, and only an operator's      *)
(* retry resets the count.  The queue modules are shown to implement it.   *)
(***************************************************************************)
EXTENDS Naturals

CONSTANTS MaxAttempts,        \* RunQueue.max_attempts
          FailsAtOnce         \* does a job whose executor disappeared in its
                              \* last attempt fail right then, or once it is
                              \* looked at again?

VARIABLES status,             \* QueueJob.status, or "absent" before enqueue
          attempts            \* QueueJob.attempts

vars == <<status, attempts>>

Statuses == {"absent", "queued", "running", "completed", "failed", "cancelled"}

TypeOK == /\ status \in Statuses
          /\ attempts \in 0..MaxAttempts

(* A process may open a database another process has already filled.       *)
Init == /\ TypeOK
        /\ status \in {"absent", "queued"} \/ (status = "running" /\ attempts > 0)
        /\ status = "absent" => attempts = 0

Enqueue == /\ status = "absent"
           /\ status' = "queued"
           /\ UNCHANGED attempts

(* An attempt starts.  From "running" it replaces an attempt that lost its *)
(* lease: the row is recovered and claimed in one transaction.             *)
StartAttempt == /\ status \in {"queued", "running"}
                /\ attempts < MaxAttempts
                /\ status' = "running"
                /\ attempts' = attempts + 1

(* The attempt that is running ends with a result or with an error.        *)
EndAttempt == /\ status = "running"
              /\ status' \in {"completed", "failed"}
              /\ UNCHANGED attempts

(* The executor disappeared: the job waits again, its attempt spent.       *)
GiveBack == /\ status = "running"
            /\ attempts < MaxAttempts \/ ~FailsAtOnce
            /\ status' = "queued"
            /\ UNCHANGED attempts

(* No attempt is left: the job fails, or a cancelled job's plain retry is  *)
(* refused and recorded as a failure.                                      *)
Exhaust == /\ status \in {"queued", "running", "cancelled"}
           /\ attempts = MaxAttempts
           /\ status' = "failed"
           /\ UNCHANGED attempts

Cancel == /\ status \in {"queued", "running"}
          /\ status' = "cancelled"
          /\ UNCHANGED attempts

(* An operator's retry keeps a count below the limit and resets a spent    *)
(* one; a forced retry of a job that waits with a spent count only resets. *)
Retry == \/ /\ status \in {"failed", "cancelled"}
            /\ attempts < MaxAttempts
            /\ status' = "queued"
            /\ UNCHANGED attempts
         \/ /\ status \in {"queued", "failed", "cancelled"}
            /\ attempts = MaxAttempts
            /\ status' = "queued"
            /\ attempts' = 0

Next == \/ Enqueue \/ StartAttempt \/ EndAttempt \/ GiveBack
        \/ Exhaust \/ Cancel \/ Retry

Spec == Init /\ [][Next]_vars
=============================================================================
