---------------------------- MODULE StepExecution ----------------------------
(***************************************************************************)
(* The steps that the tasks of one process execute under the step guard:   *)
(* policy, security checks, the attempts at the tool and their retries.    *)
(* An analysis step calls the model router, which it shares with the other *)
(* steps and with the planners.                                            *)
(***************************************************************************)
EXTENDS ModelRouter, ToolPolicy

CONSTANTS
    Runs,         \* the callers that execute steps; the others plan
    Tools,        \* tools that occur in steps
    Environments, \* settings under which the process may be started
    StepRetries   \* STEP_MAX_RETRIES

ASSUME StepAssumption ==
    /\ Runs \subseteq Callers
    /\ Tools \subseteq AllTools
    /\ Environments \subseteq Settings
    /\ StepRetries \in Nat

VARIABLES
    settings,     \* the process's settings and the profile of the runs
    step          \* the step each run executes

vars == <<route, cooling, settings, step>>

Step == [pc       : {"idle", "ready", "routing", "backoff", "ended"},
         tool     : AllTools,
         approved : BOOLEAN,
         explicit : BOOLEAN,                          \* args.require_approval
         dry      : BOOLEAN,                          \* args.dry_run
         sound    : BOOLEAN,                          \* the arguments are valid
         state    : GuardStates \cup {"none"},
         attempts : Nat,                              \* calls of execute_step
         result   : {"none", "success", "failed", "transient"},
         effects  : Nat]                              \* history: see Affects

TypeOK ==
    /\ RouterTypeOK
    /\ settings \in Environments
    /\ step \in [Runs -> Step]
    /\ \A r \in Runs : step[r].attempts <= StepRetries + 1
-----------------------------------------------------------------------------
(* Slip: a failure marked as transient is reason enough to retry.          *)
AnyTool == AllTools

RetrySafeTools == ReadTools \cup {"test.run", "http.get"}

(* Tools that change something outside the process.                        *)
Affects == WriteTools \cup {"patch.apply", "shell.run", "git.run", "http.post"}

(* In a dry run these are checked and described, not carried out.          *)
Simulated == Affects \cup {"test.run"}

DryRun(s) == settings.dry \/ s.dry

(* What an attempt at the tool itself may end with.  Timeouts of shell.run *)
(* and of HTTP calls, and HTTP 429 and 5xx, are marked as transient; all   *)
(* other exceptions, and test runs that do not pass, are not.              *)
Outcomes(s) ==
    IF s.tool = "unknown" THEN {"failed"}
    ELSE {"success", "failed"} \cup
         (IF s.tool \in {"shell.run", "http.get", "http.post"} /\ ~(DryRun(s) /\ s.tool \in Simulated)
          THEN {"transient"} ELSE {})

(* A tool that fails may have had its effect already.                      *)
Effects(s, result) ==
    IF s.tool \notin Affects \/ DryRun(s) THEN {0}
    ELSE IF result = "success" THEN {1} ELSE {0, 1}

(* Slip: one attempt too many.                                             *)
RetriesOneMore(s, result) ==
    result = "transient" /\ s.tool \in RetrySafeTools /\ s.attempts <= StepRetries + 1

Retries(s, result) ==
    result = "transient" /\ s.tool \in RetrySafeTools /\ s.attempts <= StepRetries

(* The attempt has ended: the guard sleeps before the next one or returns. *)
Attempted(s, result, effects) ==
    [s EXCEPT !.pc = IF Retries(s, result) THEN "backoff" ELSE "ended",
              !.result = result, !.effects = @ + effects]

NoStep == [pc |-> "idle", tool |-> "analysis", approved |-> FALSE, explicit |-> FALSE,
           dry |-> FALSE, sound |-> TRUE, state |-> "none", attempts |-> 0,
           result |-> "none", effects |-> 0]

Init ==
    /\ RouterInit
    /\ settings \in Environments
    /\ step = [r \in Runs |-> NoStep]

(* The step as the guard leaves it before the first attempt: what the      *)
(* profile denies fails, what it gates pauses, what the security checks    *)
(* refuse fails.                                                           *)
Guarded(tool, explicit, approved, dry, sound) ==
    LET state == Verdict(settings, tool, approved, explicit, sound)
    IN [pc       |-> IF state = "executed" THEN "ready" ELSE "ended",
        tool     |-> tool,
        approved |-> approved,
        explicit |-> explicit,
        dry      |-> dry,
        sound    |-> sound,
        state    |-> state,
        attempts |-> IF state = "executed" THEN 1 ELSE 0,
        result   |-> IF state \in {"blocked", "security_failed"} THEN "failed" ELSE "none",
        effects  |-> 0]

(* What the security manager says of the path, command or URL of a step.   *)
Soundness(tool) == {TRUE, (tool \notin Validated)}

(* StepExecutionGuard.execute.  Only a step that pauses is executed as     *)
(* approved later; arguments that a tool does not look at have one value.  *)
Execute(r) ==
    /\ step[r].pc = "idle"
    /\ \E tool \in Tools, explicit \in BOOLEAN :
       \E approved \in {FALSE, Requirement(settings, tool, explicit).required},
          dry \in {FALSE, (tool \in Simulated)}, sound \in Soundness(tool) :
        step' = [step EXCEPT ![r] = Guarded(tool, explicit, approved, dry, sound)]
    /\ UNCHANGED <<routerVars, settings>>

(* The run takes the result; the route's record is no longer looked at.    *)
Return(r) ==
    /\ step[r].pc = "ended"
    /\ step' = [step EXCEPT ![r] = NoStep]
    /\ route' = [route EXCEPT ![r] = Fresh("other")]
    /\ UNCHANGED <<cooling, settings>>

(* Executor.execute_step for the tools that do not call a model.           *)
RunTool(r) ==
    /\ step[r].pc = "ready"
    /\ step[r].tool # "analysis"
    /\ \E result \in Outcomes(step[r]) : \E effects \in Effects(step[r], result) :
        step' = [step EXCEPT ![r] = Attempted(@, result, effects)]
    /\ UNCHANGED <<routerVars, settings>>

(* The caller of a route goes on in the same step of the event loop: text  *)
(* is a success, All providers failed is transient, anything else is not.  *)
Deliver(c) ==
    IF c \in Runs /\ ~Calling(route'[c])
    THEN step' = [step EXCEPT ![c] = Attempted(@,
            CASE route'[c].pc = "selected" -> "success"
              [] route'[c].pc = "failed"   -> "transient"
              [] OTHER                     -> "failed", 0)]
    ELSE UNCHANGED step

Analyse(r) ==
    /\ step[r].pc = "ready"
    /\ step[r].tool = "analysis"
    /\ Begin(r, "analysis")
    /\ IF Calling(route'[r])
       THEN step' = [step EXCEPT ![r].pc = "routing"]
       ELSE step' = [step EXCEPT ![r] = Attempted(@, "transient", 0)]
    /\ UNCHANGED settings

Plan(c) ==
    /\ c \notin Runs
    /\ Begin(c, "planning")
    /\ UNCHANGED <<settings, step>>

Reply(c) == Respond(c) /\ Deliver(c) /\ UNCHANGED settings

Wake(c) == Resend(c) /\ UNCHANGED <<settings, step>>

(* The back-off of the guard is over.                                      *)
Again(r) ==
    /\ step[r].pc = "backoff"
    /\ step' = [step EXCEPT ![r].pc = "ready", ![r].attempts = @ + 1]
    /\ UNCHANGED <<routerVars, settings>>

(* The task is cancelled while it waits: no record of the step remains.    *)
Cancel(c) ==
    /\ IF Calling(route[c]) THEN Abandon(c)
       ELSE c \in Runs /\ step[c].pc = "backoff" /\ UNCHANGED routerVars
    /\ IF c \in Runs THEN step' = [step EXCEPT ![c] = NoStep] ELSE UNCHANGED step
    /\ UNCHANGED settings

Time == Tick /\ UNCHANGED <<settings, step>>

Next ==
    \/ \E r \in Runs : Execute(r) \/ RunTool(r) \/ Analyse(r) \/ Again(r) \/ Return(r)
    \/ \E c \in Callers : Plan(c) \/ Reply(c) \/ Wake(c) \/ Cancel(c)
    \/ Time

(* Time passes.  Nobody has to submit a step or a plan, and no provider    *)
(* has to answer.                                                          *)
Spec == Init /\ [][Next]_vars /\ WF_vars(Time)
-----------------------------------------------------------------------------
(* A step has its effect at most once however often it is attempted, and   *)
(* none in a dry run or when the guard did not let it through.             *)
EffectsOnce ==
    \A r \in Runs :
        /\ step[r].effects <= 1
        /\ settings.dry \/ step[r].dry \/ step[r].state # "executed" => step[r].effects = 0

(* The explanations that operators are given agree with what the guard     *)
(* does: a requirement names a trigger and is recorded for exactly the     *)
(* steps that pause, and a block for exactly those no approval lets pass.  *)
ExplainedAsEnforced ==
    \A r \in Runs : step[r].state # "none" =>
        LET s == step[r]
            said == Requirement(settings, s.tool, s.explicit)
            tool == Access(settings, s.tool)
        IN /\ said.blocked <=> s.state = "blocked"
           /\ (said.required /\ ~s.approved) <=> s.state = "approval_required"
           /\ said.required <=> said.triggers # {}
           /\ (said.action = "continue") <=> ~said.required /\ ~said.blocked
           /\ tool.hint = "approval_cannot_override_profile_deny" <=> s.state = "blocked"
           /\ tool.now => s.state \in {"executed", "security_failed"} \/ s.explicit
=============================================================================
