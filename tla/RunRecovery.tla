----------------------------- MODULE RunRecovery -----------------------------
(***************************************************************************)
(* One run and everything that may continue it: the agent that plans and   *)
(* executes it, the approval endpoints with their continuation, and the    *)
(* resumption of a failed run.  They share nothing but the run's rows in   *)
(* the memory store, and each of them writes several rows, one transaction *)
(* each, between two points where the event loop may switch.               *)
(*                                                                         *)
(* An actor decides on a whole batch of writes from what it has read (no   *)
(* batch depends on rows read half-way through it); todo holds those that  *)
(* have not landed yet.                                                    *)
(***************************************************************************)
EXTENDS Integers, Sequences, FiniteSetsExt

CONSTANTS
    Calls,        \* operator calls that may be in flight at a time
    Agent,        \* the run_task that created the run
    Gates,        \* bound: what the policy may say of the steps of a plan
    MaxSteps,     \* bound: length of a plan
    MaxTries,     \* STEP_MAX_RETRIES + 1
    MaxLog,       \* bound: no further call once the tables are that long
    Unguarded,    \* are POST /approvals/{run}/{step}/approve and /reject used?
    Racing        \* do threads and processes interleave with single writes?

ASSUME CallsAssumption == IsFiniteSet(Calls) /\ Agent \notin Calls
(* Allowed; approval by profile; allowed, with args.require_approval;      *)
(* denied by the profile or by a runtime switch.                           *)
ASSUME GatesAssumption == Gates \subseteq {"open", "profile", "explicit", "denied"}
ASSUME BoundsAssumption == {MaxSteps, MaxTries, MaxLog} \subseteq Nat \ {0}
ASSUME SwitchesAssumption == {Unguarded, Racing} \subseteq BOOLEAN

VARIABLES
    plan,         \* artifact run_plan: what the policy says of each step
    records,      \* table steps, in order of insertion
    history,      \* table approval_history
    status,       \* runs.status
    actor,        \* what the agent and the calls are doing
    executed,     \* history: how often each step was handed to the executor
    interrupted   \* history: an actor was lost in the middle of its work

vars == <<plan, records, history, status, actor, executed, interrupted>>

StepIds == 0..MaxSteps      \* 0 is the failed planning step

Actors == Calls \cup {Agent}

(* "policy" is a refusal by the profile and "arguments" one of the step's  *)
(* path, command or URL; the code stores both as policy_denied.            *)
Errors == {"none", "tool", "policy", "arguments"}

Record == [step : StepIds,
           status : {"pending_approval", "approved", "rejected", "success", "failed"},
           attempt : Nat \ {0},
           phase : {"initial", "approval_continuation", "failed_resume"},
           error : Errors]

RunStatuses == {"running", "awaiting_approval", "resuming_after_approval",
                "resuming_failed_run", "approved_waiting_manual_resume",
                "completed", "failed", "rejected"}

Decision == [step : StepIds, decision : {"requested", "approved", "rejected"}]

(* Writes.  An update goes to the latest record of its step, if any.       *)
Write == [insert : Record]
    \cup [update : StepIds, status : {"approved", "rejected", "success", "failed"},
          error : Errors]
    \cup [decide : Decision]
    \cup [run : RunStatuses]

Kinds == {"none", "agent", "continue", "legacy", "resume",
          "approve", "approve_step", "reject"}

(* start and index are positions in the plan; granted says that the step   *)
(* at start has been approved; numbers are the attempt numbers the actor   *)
(* computed when it loaded the run.                                        *)
TypeOK ==
    /\ plan \in Seq(Gates) /\ Len(plan) <= MaxSteps
    /\ records \in Seq(Record) /\ history \in Seq(Decision)
    /\ status \in RunStatuses
    /\ \A a \in Actors :
        /\ actor[a].kind \in Kinds
        /\ actor[a].pc \in {"idle", "planning", "deciding", "executing", "ending"}
        /\ {actor[a].start, actor[a].index} \subseteq 0..(MaxSteps + 1)
        /\ actor[a].granted \in BOOLEAN
        /\ actor[a].numbers \in Seq(Nat \ {0})
        /\ actor[a].todo \in Seq(Write)
    /\ executed \in [1..MaxSteps -> Nat]
    /\ interrupted \in BOOLEAN
-----------------------------------------------------------------------------
(* Reading the run.                                                        *)

RecordsOf(s) == {i \in DOMAIN records : records[i].step = s}

Latest(s) == records[Max(RecordsOf(s))]

Effective(s) == IF RecordsOf(s) = {} THEN "none" ELSE Latest(s).status

HasPhase(s, phase) == RecordsOf(s) # {} /\ Latest(s).phase = phase

(* Slip: the number of the latest attempt is used again.                   *)
SameAttempt(s) == Max({0} \cup {records[i].attempt : i \in RecordsOf(s)})

NextAttempt(s) == 1 + Max({0} \cup {records[i].attempt : i \in RecordsOf(s)})

(* The approved step goes on with the attempt it was paused at.            *)
ContinueNumbers(s) == [k \in 1..Len(plan) |-> IF k = s /\ RecordsOf(s) # {}
                                              THEN Latest(s).attempt ELSE NextAttempt(k)]

ResumeNumbers(s, granted) ==
    [k \in 1..Len(plan) |->
        IF /\ granted /\ k = s /\ HasPhase(s, "failed_resume")
           /\ Latest(s).status \in {"pending_approval", "approved"}
        THEN Latest(s).attempt ELSE NextAttempt(k)]

(* Slip: the last failed attempt counts, whatever came after it.           *)
FailedStepsEver == {k \in 1..Len(plan) : \E i \in RecordsOf(k) : records[i].status = "failed"}

FailedSteps == {k \in 1..Len(plan) : Effective(k) = "failed"}
-----------------------------------------------------------------------------
(* Actors.                                                                 *)

Idle == [kind |-> "none", pc |-> "idle", start |-> 0, index |-> 0,
         granted |-> FALSE, numbers |-> <<>>, todo |-> <<>>]

Driver(kind, s, granted, numbers) ==
    [Idle EXCEPT !.kind = kind, !.start = s, !.granted = granted, !.numbers = numbers]

(* Between two writes of a batch, or between the writes of a decision and  *)
(* the continuation, which follows without an await.                       *)
Busy(a) == actor[a].todo # <<>> \/ actor[a].pc = "deciding"

Quiet == \A a \in Actors : ~Busy(a)

(* Coroutine handlers share the API's loop; rejections run in threads and  *)
(* the agent possibly in another process.                                  *)
MayRun(a) == /\ actor[a].todo = <<>>
             /\ \A b \in Actors \ {a} :
                  Busy(b) => /\ Racing
                             /\ Agent \in {a, b} \/ actor[b].kind = "reject"

LockHeld == \E c \in Calls : actor[c].kind = "resume"
-----------------------------------------------------------------------------
(* What an actor writes for step i, and where it goes from there.          *)

Attempt(d, i, n, st, error) ==
    [step |-> i, status |-> st,
     attempt |-> IF d.kind \in {"agent", "legacy"} THEN n ELSE d.numbers[i] + n - 1,
     phase |-> CASE d.kind = "continue" -> "approval_continuation"
                 [] d.kind = "resume" -> "failed_resume"
                 [] OTHER -> "initial",
     error |-> error]

(* A pause, and a refusal found by the continuation's own check, are saved *)
(* with the table's defaults.                                              *)
Unnumbered(i, st, error) ==
    [step |-> i, status |-> st, attempt |-> 1, phase |-> "initial", error |-> error]

(* Slip: every step of a continuation is updated in place.                 *)
SourceAlways(d, i) == d.kind = "continue"

Source(d, i) == d.kind = "continue" /\ i = d.start

(* Slip: the run is not marked as waiting.                                 *)
PauseUnmarked(d, i) ==
    << [insert |-> IF d.kind = "resume" THEN Attempt(d, i, 1, "pending_approval", "none")
                   ELSE Unnumbered(i, "pending_approval", "none")],
       [decide |-> [step |-> i, decision |-> "requested"]] >>

Pause(d, i) ==
    << [insert |-> IF d.kind = "resume" THEN Attempt(d, i, 1, "pending_approval", "none")
                   ELSE Unnumbered(i, "pending_approval", "none")],
       [decide |-> [step |-> i, decision |-> "requested"]],
       [run |-> "awaiting_approval"] >>

(* Slip: the refusal is stored and the run left as it is.                  *)
RefusalUnmarked(d, i, error) ==
    << IF Source(d, i) THEN [update |-> i, status |-> "failed", error |-> error]
       ELSE [insert |-> Unnumbered(i, "failed", error)] >>

Refusal(d, i, error) ==
    << IF Source(d, i) THEN [update |-> i, status |-> "failed", error |-> error]
       ELSE [insert |-> IF d.kind = "continue" THEN Unnumbered(i, "failed", error)
                        ELSE Attempt(d, i, 1, "failed", error)],
       [run |-> "failed"] >>

(* Attempt n of tries, of which only the last may have succeeded.          *)
Stored(d, i, tries, st) ==
    [n \in 1..tries |->
        LET r == Attempt(d, i, n, IF n < tries THEN "failed" ELSE st,
                         IF n < tries \/ st = "failed" THEN "tool" ELSE "none")
        IN IF Source(d, i) /\ n = 1
           THEN [update |-> i, status |-> r.status, error |-> r.error]
           ELSE [insert |-> r]]

(* Slip: an approval stands for the rest of the plan.                      *)
ApprovedFromHere(d, i) == d.granted /\ i >= d.start

Approved(d, i) == d.granted /\ i = d.start

Pauses(d, i, gate) == gate \in {"profile", "explicit"} /\ ~Approved(d, i)

(* The continuation first asks whether the tool is allowed, not counting   *)
(* the approval.                                                           *)
Refused(d, gate) == gate = "denied" \/ (d.kind = "continue" /\ gate = "profile")

(* Driver d, having written w, arrives at position i of plan p.  It hands  *)
(* the step to the executor once w has landed; the continuation looks at   *)
(* the step's arguments itself before that, where the other drivers have a *)
(* tool that fails.                                                        *)
Goes(a, d, i, p, w) ==
    LET ends(v) == /\ actor' = [actor EXCEPT ![a] = [d EXCEPT !.pc = "ending", !.index = i,
                                                              !.todo = w \o v]]
                   /\ UNCHANGED executed
        due == i <= Len(p) /\ ~Pauses(d, i, p[i])
    IN \/ i > Len(p) /\ ends(<< [run |-> IF p = <<>> THEN "failed" ELSE "completed"] >>)
       \/ i <= Len(p) /\ Pauses(d, i, p[i]) /\ ends(Pause(d, i))
       \/ due /\ Refused(d, p[i]) /\ ends(Refusal(d, i, "policy"))
       \/ /\ due /\ ~Refused(d, p[i])
          /\ \/ d.kind = "continue" /\ ends(Refusal(d, i, "arguments"))
             \/ /\ actor' = [actor EXCEPT ![a] = [d EXCEPT !.pc = "executing", !.index = i,
                                                          !.todo = w]]
                /\ executed' = IF w = <<>> THEN [executed EXCEPT ![i] = @ + 1] ELSE executed

Ends(a, w) == /\ actor' = [actor EXCEPT ![a].pc = "ending", ![a].todo = w]
              /\ UNCHANGED executed

(* The step's attempts are stored; the plan goes on if the last succeeded. *)
Result(a, tries, st) ==
    LET d == actor[a]
        w == Stored(d, d.index, tries, st)
    IN /\ d.pc = "executing" /\ MayRun(a)
       /\ tries > 1 => plan[d.index] # "profile"     \* never a retry-safe tool
       /\ IF st = "success" THEN Goes(a, d, d.index + 1, plan, w)
          ELSE Ends(a, w \o << [run |-> "failed"] >>)
       /\ UNCHANGED <<plan, records, history, status, interrupted>>

WriteLands(a) ==
    /\ actor[a].todo # <<>>
    /\ LET w == Head(actor[a].todo)
           rest == Tail(actor[a].todo)
       IN /\ actor' = [actor EXCEPT ![a] = IF rest = <<>> /\ @.pc = "ending" THEN Idle
                                           ELSE [@ EXCEPT !.todo = rest]]
          /\ \/ /\ "insert" \in DOMAIN w
                /\ records' = Append(records, w.insert)
                /\ UNCHANGED <<history, status>>
             \/ /\ "update" \in DOMAIN w
                /\ records' = IF RecordsOf(w.update) = {} THEN records
                              ELSE [records EXCEPT ![Max(RecordsOf(w.update))].status = w.status,
                                                   ![Max(RecordsOf(w.update))].error = w.error]
                /\ UNCHANGED <<history, status>>
             \/ /\ "decide" \in DOMAIN w
                /\ history' = Append(history, w.decide)
                /\ UNCHANGED <<records, status>>
             \/ /\ "run" \in DOMAIN w
                /\ status' = w.run
                /\ UNCHANGED <<records, history>>
          /\ executed' = IF rest = <<>> /\ actor[a].pc = "executing"
                         THEN [executed EXCEPT ![actor[a].index] = @ + 1] ELSE executed
    /\ UNCHANGED <<plan, interrupted>>
-----------------------------------------------------------------------------
(* The agent.                                                              *)

Init ==
    /\ plan = <<>> /\ records = <<>> /\ history = <<>> /\ status = "running"
    /\ actor = [a \in Actors |-> IF a = Agent THEN [Idle EXCEPT !.kind = "agent", !.pc = "planning"]
                                 ELSE Idle]
    /\ executed = [s \in 1..MaxSteps |-> 0]
    /\ interrupted = FALSE

PlanFails ==
    /\ actor[Agent].pc = "planning" /\ MayRun(Agent)
    /\ Ends(Agent, << [insert |-> Unnumbered(0, "failed", "tool")], [run |-> "failed"] >>)
    /\ UNCHANGED <<plan, records, history, status, interrupted>>

Plan ==
    /\ actor[Agent].pc = "planning" /\ MayRun(Agent)
    /\ \E n \in 0..MaxSteps : plan' \in [1..n -> Gates]
    /\ Goes(Agent, [actor[Agent] EXCEPT !.start = 1], 1, plan', <<>>)
    /\ UNCHANGED <<records, history, status, interrupted>>
-----------------------------------------------------------------------------
(* Decisions.                                                              *)

(* Slip: any step that has not been decided in this very state.            *)
DecidableIfRecorded(s) == RecordsOf(s) # {} /\ Effective(s) # "rejected"

(* evaluate_approval_decision *)
Decidable(s) == Effective(s) = "pending_approval"

Decides(c, kind, s, decision, more) ==
    /\ actor[c].pc = "idle"
    /\ MayRun(c) \/ (Racing /\ decision = "rejected")
    /\ Len(records) + Len(history) < MaxLog
    /\ actor' = [actor EXCEPT ![c] =
        [Driver(kind, s, FALSE, <<>>)
            EXCEPT !.pc = IF decision = "approved" THEN "deciding" ELSE "ending",
                   !.todo = << [update |-> s, status |-> decision, error |-> "none"],
                               [decide |-> [step |-> s, decision |-> decision]],
                               [run |-> more] >>]]
    /\ UNCHANGED <<plan, records, history, status, executed, interrupted>>

(* approve_with_guard: a step paused by a resumption goes the agent's way. *)
Approve(c, s) ==
    /\ Decidable(s)
    /\ Decides(c, IF HasPhase(s, "failed_resume") THEN "approve_step" ELSE "approve",
               s, "approved", "resuming_after_approval")

Reject(c, s) == Decidable(s) /\ Decides(c, "reject", s, "rejected", "rejected")

(* The endpoints without a guard take any step of any run.                 *)
ApproveUnguarded(c, s) ==
    Unguarded /\ Decides(c, "approve_step", s, "approved", "resuming_after_approval")

RejectUnguarded(c, s) == Unguarded /\ Decides(c, "reject", s, "rejected", "rejected")

(* The run is loaded again and continued from the approved step.           *)
ContinuePlan(c, s) ==
    \/ /\ s \notin 1..Len(plan)          \* no plan, or no such step in it
       /\ Ends(c, << [run |-> "approved_waiting_manual_resume"] >>)
    \/ /\ s \in 1..Len(plan)
       /\ Goes(c, IF actor[c].kind = "approve"
                  THEN Driver("continue", s, TRUE, ContinueNumbers(s))
                  ELSE Driver("legacy", s, TRUE, <<>>), s, plan, <<>>)

(* The resumer raises if a resumption is under way or the step is not      *)
(* approved any more; the run stays as it is.                              *)
ContinueResumption(c, s) ==
    IF LockHeld \/ Effective(s) # "approved"
    THEN actor' = [actor EXCEPT ![c] = Idle] /\ UNCHANGED executed
    ELSE Goes(c, Driver("resume", s, TRUE, ResumeNumbers(s, TRUE)), s, plan,
              << [run |-> "resuming_failed_run"] >>)

Continue(c) ==
    LET s == actor[c].start
        resumption == actor[c].kind = "approve_step" /\ HasPhase(s, "failed_resume")
    IN /\ actor[c].pc = "deciding" /\ MayRun(c)
       /\ \/ ~resumption /\ ContinuePlan(c, s)
          \/ resumption /\ ContinueResumption(c, s)
       /\ UNCHANGED <<plan, records, history, status, interrupted>>

Resumable == status = "failed"

(* A failed run is resumed from its first failed step.                     *)
Resume(c) ==
    /\ actor[c].pc = "idle" /\ MayRun(c)
    /\ Len(records) + Len(history) < MaxLog
    /\ ~LockHeld /\ Resumable /\ FailedSteps # {}
    /\ LET s == Min(FailedSteps)
       IN Goes(c, Driver("resume", s, FALSE, ResumeNumbers(s, FALSE)), s, plan,
               << [run |-> "resuming_failed_run"] >>)
    /\ UNCHANGED <<plan, records, history, status, interrupted>>
-----------------------------------------------------------------------------
(* The API process dies, or the agent's: its process dies or its task is   *)
(* cancelled, which run_task does not catch.  Nothing repairs the run.     *)
Lost(A) ==
    /\ \E a \in A : actor[a].pc # "idle"
    /\ actor' = [a \in Actors |-> IF a \in A THEN Idle ELSE actor[a]]
    /\ interrupted' = TRUE
    /\ UNCHANGED <<plan, records, history, status, executed>>

Operator(c) == \/ \E s \in StepIds : \/ Approve(c, s) \/ Reject(c, s)
                                     \/ ApproveUnguarded(c, s) \/ RejectUnguarded(c, s)
               \/ Resume(c)

Results(a) == \E tries \in 1..MaxTries, st \in {"success", "failed"} : Result(a, tries, st)

Next == \/ PlanFails \/ Plan
        \/ \E c \in Calls : Operator(c) \/ Continue(c)
        \/ \E a \in Actors : Results(a) \/ WriteLands(a)
        \/ Lost(Calls) \/ Lost({Agent})

Spec == Init /\ [][Next]_vars
-----------------------------------------------------------------------------
(* What must hold.                                                         *)

(* Steps that can run only with an approval.                               *)
Gated == {s \in 1..Len(plan) : plan[s] \in {"profile", "explicit"}}

Approvals(s) ==
    Cardinality({i \in DOMAIN history : history[i] = [step |-> s, decision |-> "approved"]})

(* "One approval does not approve the rest of the plan": a gated step is   *)
(* handed to the executor at most once for each approval of that step,     *)
(* through whatever endpoints, resumptions and interleavings.              *)
ExecutionsApproved == \A s \in Gated : executed[s] <= Approvals(s)

(* After a step has been decided it can be decided again only if it has    *)
(* been requested again (a crash may lose the row of the request).         *)
DecidedOnce ==
    interrupted \/
    \A i, k \in DOMAIN history :
        /\ i < k /\ history[i].step = history[k].step
        /\ "requested" \notin {history[i].decision, history[k].decision}
        => \E j \in i..k : history[j] = [step |-> history[i].step, decision |-> "requested"]

(* After an approval the step passes the profile: a step fails by policy   *)
(* only if the profile denies it.                                          *)
ApprovalSuffices ==
    \A i \in DOMAIN records :
        records[i].error = "policy" => plan[records[i].step] = "denied"

(* A completed run has every step of its plan done, by the latest attempt  *)
(* of each, through any sequence of pauses, failures and resumptions.      *)
CompletedMeansDone == status = "completed" => \A s \in 1..Len(plan) : Effective(s) = "success"

(* A run that waits has a step to decide, and a step to decide has a run   *)
(* that waits, unless the process was lost half-way.                       *)
AwaitingHasPending ==
    Quiet /\ ~interrupted =>
        (status = "awaiting_approval" <=> \E s \in StepIds : Effective(s) = "pending_approval")

(* Resumptions and continuations skip completed work: a step whose latest  *)
(* attempt succeeded is not executed again.                                *)
SkipsCompleted ==
    [][\A s \in 1..Len(plan) : executed'[s] > executed[s] => Effective(s) # "success"]_vars

(* A rejection ends the run: nothing more is executed, recorded or decided.*)
RejectionEnds ==
    [][status = "rejected" => UNCHANGED <<status, records, history, executed>>]_vars

(* The run as its operators see it: the steps that its tables tell to be   *)
(* done, its status, whichever of the actors works on it, and how often    *)
(* each step has been approved.                                            *)
Finished == {s \in 1..Len(plan) : Effective(s) = "success"}

Stage == CASE status \in {"running", "resuming_after_approval", "resuming_failed_run"} -> "working"
           [] status = "awaiting_approval" -> "waiting"
           [] OTHER -> status

Grants == [s \in 1..MaxSteps |-> Approvals(s)]

Promise == INSTANCE RunLifecycle WITH
    Free <- {"open"}, Gated <- {"profile", "explicit"}, Denied <- {"denied"},
    done <- Finished, status <- Stage, approvals <- Grants

(* Through any sequence of pauses, failures, decisions and resumptions the *)
(* run does its plan in order, with an approval wherever one is needed.    *)
Lifecycle == Promise!Spec
-----------------------------------------------------------------------------
(* The loop runs what is ready and executions end (tools have timeouts);   *)
(* other work comes in between again and again.                            *)
Fairness ==
    /\ WF_vars(PlanFails \/ Plan)
    /\ \A c \in Calls : WF_vars(Continue(c))
    /\ \A a \in Actors : WF_vars(WriteLands(a)) /\ SF_vars(Results(a))

FairSpec == Spec /\ Fairness

(* A run under way ends, or waits for the operator, unless it is lost.     *)
Settles ==
    status \in {"running", "resuming_after_approval", "resuming_failed_run"} ~>
        (interrupted \/ status \in {"awaiting_approval", "completed", "failed", "rejected"})
=============================================================================
