------------------------------- MODULE AutoFix -------------------------------
(***************************************************************************)
(* The auto-fix loop and its run: patches of a given plan are applied and  *)
(* tested one after the other, and what the loop returns is stored when it *)
(* has ended.  Meanwhile tools edit the same workspace.                    *)
(***************************************************************************)
EXTENDS Workspace

CONSTANTS
    Loops,        \* the clients that run the loop; the others call tools
    Plans,        \* patch plans of POST /auto-fix
    MaxAttempts,  \* the values of max_attempts, unchecked integers
    Signatures,   \* what failed tests are told apart by
    DryRuns       \* values of the setting DRY_RUN

ASSUME LoopsAssumption == Loops \subseteq Clients
ASSUME PlansAssumption == Plans \subseteq Seq(Patches) /\ MaxAttempts \subseteq Int
ASSUME DryRunsAssumption == DryRuns \subseteq BOOLEAN
ASSUME SignaturesAssumption == "none" \notin Signatures

VARIABLES
    dry,          \* the setting
    loop          \* each loop and its run

vars == <<file, edit, dry, loop>>

(* max is max_attempts, plan holds the patches the loop may apply and      *)
(* attempts those it has tried; diff and after are what the patch at hand  *)
(* reports and makes of the file; status is that of the run, stored counts *)
(* its fix_attempts.  History: start and tested are the file when the loop *)
(* began and when the tests last ran, disturbed says that another client   *)
(* wrote in between, and an attempt keeps its after.                       *)
NoLoop == [pc |-> "idle", max |-> 0, plan |-> <<>>, attempts |-> <<>>,
           diff |-> <<>>, after |-> <<>>, result |-> "none", status |-> "none", stored |-> 0,
           start |-> <<>>, tested |-> <<>>, disturbed |-> FALSE]

(* patch_plan[:max_attempts].                                              *)
Slice(plan, max) ==
    IF max >= Len(plan) THEN plan
    ELSE SubSeq(plan, 1, IF max >= 0 THEN max ELSE Len(plan) + max)

Init ==
    /\ FileInit
    /\ dry \in DryRuns
    /\ loop = [c \in Loops |-> NoLoop]

(* A write of client c disturbs the loops of the others; what they began   *)
(* with and tested then says nothing any more.                             *)
Disturbed(l) == [l EXCEPT !.disturbed = TRUE, !.start = <<>>, !.tested = <<>>]

Disturbs(c) ==
    loop' = [d \in Loops |-> IF d # c /\ loop[d].pc # "idle" THEN Disturbed(loop[d]) ELSE loop[d]]

(* Agent.run_auto_fix: the run is created and the loop begins.             *)
Begin(c) ==
    /\ loop[c].pc = "idle"
    /\ \E plan \in Plans, max \in MaxAttempts :
        loop' = [loop EXCEPT ![c] =
            [NoLoop EXCEPT !.pc = "next", !.max = max, !.plan = Slice(plan, max),
                           !.status = "running", !.start = file]]
    /\ UNCHANGED <<file, edit, dry>>

Current(l) == l.plan[Len(l.attempts) + 1]

(* The patch is computed, or refused: the exception leaves the loop and    *)
(* run_auto_fix, and neither stores anything.                              *)
Patch(c) ==
    /\ loop[c].pc = "next" /\ Len(loop[c].attempts) < Len(loop[c].plan)
    /\ LET p == Current(loop[c])
       IN IF Edited(p, file) = {}
          THEN /\ loop' = [loop EXCEPT ![c].pc = "raised"]
               /\ UNCHANGED edit
          ELSE \E after \in Edited(p, file) :
               /\ edit' = [edit EXCEPT ![c] = Planned(p, after, dry)]
               /\ loop' = [loop EXCEPT ![c].pc = "patching", ![c].diff = Diff(file, after),
                                    ![c].after = after]
    /\ UNCHANGED <<file, dry>>

Diffs(l) == {l.attempts[i].diff : i \in DOMAIN l.attempts}

Failures(l) == {l.attempts[i].signature : i \in DOMAIN l.attempts} \ {"none"}

(* The attempt that loop l has made, by its patch and the result of its    *)
(* tests.                                                                  *)
Attempt(l, tests, signature, status) ==
    [diff |-> l.diff, after |-> l.after, tests |-> tests, signature |-> signature,
     status |-> status]

(* Slip: a diff that has been tried is no attempt.                         *)
CheckPatchAgain(c) ==
    /\ loop[c].pc = "patching" /\ edit[c].pc = "none"
    /\ loop' = [loop EXCEPT ![c].pc = IF loop[c].diff \in Diffs(loop[c]) THEN "next" ELSE "testing"]
    /\ UNCHANGED <<file, edit, dry>>

(* Slip: only the diff of the attempt before is remembered.                *)
CheckPatchLast(c) ==
    /\ loop[c].pc = "patching" /\ edit[c].pc = "none"
    /\ LET l == loop[c]
       IN IF l.attempts # <<>> /\ Last(l.attempts).diff = l.diff
          THEN loop' = [loop EXCEPT ![c] =
                   [l EXCEPT !.pc = "storing", !.result = "failed", !.diff = <<>>, !.after = <<>>,
                             !.attempts = Append(@, Attempt(l, "none", "none", "stopped"))]]
          ELSE loop' = [loop EXCEPT ![c].pc = "testing"]
    /\ UNCHANGED <<file, edit, dry>>

(* The patch is in the file.  One whose diff has been tried is not tested, *)
(* and stays.                                                              *)
CheckPatch(c) ==
    /\ loop[c].pc = "patching" /\ edit[c].pc = "none"
    /\ LET l == loop[c]
       IN IF l.diff \in Diffs(l)
          THEN loop' = [loop EXCEPT ![c] =
                   [l EXCEPT !.pc = "storing", !.result = "failed", !.diff = <<>>, !.after = <<>>,
                             !.attempts = Append(@, Attempt(l, "none", "none", "stopped"))]]
          ELSE loop' = [loop EXCEPT ![c].pc = "testing"]
    /\ UNCHANGED <<file, edit, dry>>

(* What the test runner may return: the status of the process, and the     *)
(* signature of the failures found in its output, whatever the status.  It *)
(* may refuse the target or the runner.                                    *)
TestResults ==
    IF dry THEN {<<"simulated", "none">>}
    ELSE {"passed", "failed"} \X (Signatures \cup {"none"})

Again(l, signature) == signature \in Failures(l)

EndsWell(l, t) == t[1] = "passed" /\ ~Again(l, t[2])

(* A failure that has been seen ends the loop, even if the tests passed.   *)
RunTests(c) ==
    /\ loop[c].pc = "testing"
    /\ \/ loop' = [loop EXCEPT ![c].pc = "raised"]
       \/ \E t \in TestResults :
            LET l == loop[c]
                status == IF Again(l, t[2]) THEN "stopped" ELSE t[1]
            IN loop' = [loop EXCEPT ![c] =
                [l EXCEPT !.pc = IF Again(l, t[2]) \/ EndsWell(l, t) THEN "storing" ELSE "next",
                          !.result = IF EndsWell(l, t) THEN "completed" ELSE "failed",
                          !.diff = <<>>, !.after = <<>>,
                          !.attempts = Append(@, Attempt(l, t[1], t[2], status)),
                          !.tested = IF l.disturbed THEN <<>> ELSE file]]
    /\ UNCHANGED <<file, edit, dry>>

(* max_attempts_reached or no_attempts_executed.                           *)
Exhausted(c) ==
    /\ loop[c].pc = "next" /\ Len(loop[c].attempts) = Len(loop[c].plan)
    /\ loop' = [loop EXCEPT ![c].pc = "storing", ![c].result = "failed"]
    /\ UNCHANGED <<file, edit, dry>>

(* Slip: without an end.                                                   *)
StoreAttemptAgain(c) ==
    /\ loop[c].pc = "storing"
    /\ loop' = [loop EXCEPT ![c].stored = @ + 1]
    /\ UNCHANGED <<file, edit, dry>>

(* The attempts are stored one after the other, then the run's status.     *)
StoreAttempt(c) ==
    /\ loop[c].pc = "storing" /\ loop[c].stored < Len(loop[c].attempts)
    /\ loop' = [loop EXCEPT ![c].stored = @ + 1]
    /\ UNCHANGED <<file, edit, dry>>

Close(c) ==
    /\ loop[c].pc = "storing" /\ loop[c].stored = Len(loop[c].attempts)
    /\ loop' = [loop EXCEPT ![c].pc = "closed", ![c].status = loop[c].result]
    /\ UNCHANGED <<file, edit, dry>>

(* The answer has been sent, or the exception, and the run is left to the  *)
(* store.                                                                  *)
Return(c) ==
    /\ loop[c].pc \in {"closed", "raised"}
    /\ loop' = [loop EXCEPT ![c] = NoLoop]
    /\ UNCHANGED <<file, edit, dry>>

(* A tool of a run: fs.write, fs.append, fs.replace or patch.apply.        *)
CallTool(c) ==
    /\ edit[c].pc = "none"
    /\ \E e \in Edits : \E after \in Edited(e, file) :
        edit' = [edit EXCEPT ![c] = Planned(e, after, dry)]
    /\ UNCHANGED <<file, dry, loop>>

(* What is refused now raises as well.                                     *)
CheckFile(c) ==
    /\ Check(c)
    /\ loop' = IF c \in Loops /\ Refused(c) THEN [loop EXCEPT ![c].pc = "raised"] ELSE loop
    /\ UNCHANGED dry

OpenFile(c) == Open(c) /\ Disturbs(c) /\ UNCHANGED dry

WriteFile(c) == Write(c) /\ Disturbs(c) /\ UNCHANGED dry

(* The process dies: what it had opened stays empty, its run is running.   *)
Die(c) ==
    /\ edit' = [edit EXCEPT ![c] = NoEdit]
    /\ loop' = IF c \in Loops THEN [loop EXCEPT ![c] = NoLoop] ELSE loop
    /\ UNCHANGED <<file, dry>>

Next ==
    \/ \E c \in Loops :
        \/ Begin(c) \/ Patch(c) \/ CheckPatch(c) \/ RunTests(c) \/ Exhausted(c)
        \/ StoreAttempt(c) \/ Close(c) \/ Return(c)
    \/ \E c \in Clients \ Loops : CallTool(c)
    \/ \E c \in Clients : CheckFile(c) \/ OpenFile(c) \/ WriteFile(c) \/ Die(c)

Progress(c) ==
    \/ Patch(c) \/ CheckPatch(c) \/ RunTests(c) \/ Exhausted(c) \/ StoreAttempt(c)
    \/ Close(c) \/ Return(c) \/ CheckFile(c) \/ OpenFile(c) \/ WriteFile(c)

(* A loop that has begun goes on: its calls are synchronous, and the tests *)
(* end by themselves or by their timeout.                                  *)
Spec == Init /\ [][Next]_vars /\ \A c \in Loops : WF_vars(Progress(c))
-----------------------------------------------------------------------------
Contents == Seq(Blocks)

AttemptType == [diff : Seq(Contents), after : Contents,
                tests : {"none", "passed", "failed", "simulated"},
                signature : Signatures \cup {"none"},
                status : {"passed", "failed", "simulated", "stopped"}]

(* Types; what is stored has been attempted, what is attempted was planned.*)
TypeOK ==
    /\ file \in Contents /\ dry \in BOOLEAN
    /\ edit \in [Clients -> [pc : {"none", "computed", "checked", "opened"}, after : Contents]]
    /\ loop \in [Loops -> [pc : {"idle", "next", "patching", "testing", "storing", "closed", "raised"},
                           max : Int, plan : Seq(Patches), attempts : Seq(AttemptType),
                           diff : Seq(Contents), after : Contents, result : {"none", "completed", "failed"},
                           status : {"none", "running", "completed", "failed"}, stored : Nat,
                           start : Contents, tested : Contents, disturbed : BOOLEAN]]
    /\ \A c \in Loops :
        /\ loop[c].stored <= Len(loop[c].attempts)
        /\ Len(loop[c].attempts) <= Len(loop[c].plan)

(* No more attempts than asked for; no diff is tested twice and no failure *)
(* leads to another attempt twice.                                         *)
AttemptsDiffer ==
    \A c \in Loops :
        LET l == loop[c]
            Tried(i) == l.attempts[i].status # "stopped"
        IN /\ l.max >= 0 => Len(l.attempts) <= l.max
           /\ \A i, j \in DOMAIN l.attempts : i # j /\ Tried(i) /\ Tried(j) =>
                /\ l.attempts[i].diff # l.attempts[j].diff
                /\ \/ l.attempts[i].signature # l.attempts[j].signature
                   \/ l.attempts[i].signature = "none"

(* What the attempts of l left in the file before attempt i.               *)
Before(l, i) == IF i = 1 \/ dry THEN l.start ELSE l.attempts[i - 1].after

(* Attempt i is the i-th patch of the plan, applied to what was left to it.*)
Follows(l, i, diff, after) ==
    after \in Edited(l.plan[i], Before(l, i)) /\ diff = Diff(Before(l, i), after)

(* The tests of attempt i passed, and no attempt before has failed, or     *)
(* passed, with the failures that were found in their output.              *)
Passed(l, i) ==
    /\ l.attempts[i].tests = "passed"
    /\ \A k \in 1..(i - 1) : \/ l.attempts[k].signature # l.attempts[i].signature
                           \/ l.attempts[k].signature = "none"

(* A run is completed when, and only when, the last tests passed without   *)
(* printing a failure that was seen before.  If nobody else wrote, the     *)
(* diffs a closed run has stored are the patches of its plan, one applied  *)
(* to the outcome of the other, those that repeat or change nothing        *)
(* included, and lead to its file, which the tests of a completed run have *)
(* seen; in a dry run all are about the file as it was and still is.       *)
AttemptsAreInTheFile ==
    \A c \in Loops : loop[c].pc = "closed" =>
        LET l == loop[c]
            n == Len(l.attempts)
        IN /\ l.status = "completed" <=> n > 0 /\ Passed(l, n)
           /\ ~l.disturbed =>
                /\ \A i \in 1..n : Follows(l, i, l.attempts[i].diff, l.attempts[i].after)
                /\ file = Before(l, n + 1)
                /\ l.status = "completed" => file = l.tested

(* Every loop ends, whatever is done to its file.                          *)
LoopEnds == \A c \in Loops : loop[c].pc # "idle" ~> loop[c].pc = "idle"
=============================================================================
