----------------------------- MODULE ToolPolicy -----------------------------
(***************************************************************************)
(* What an execution profile and the runtime switches say of a step, the   *)
(* decision the step guard takes from it, and the two explanations of that *)
(* decision that operators are shown: the access explained for a tool and  *)
(* the requirement recorded for an approval.                               *)
(***************************************************************************)

Profiles == {"safe", "dev", "owner"}

ReadTools == {"analysis", "fs.read", "code.find_symbol", "code.read_symbol",
              "code.read_lines", "code.list_imports", "code.find_references",
              "code.find_routes", "git.inspect", "patch.preview"}

WriteTools == {"fs.write", "fs.append", "fs.replace"}

(* A step may also name a tool that no profile knows.                      *)
AllTools == ReadTools \cup WriteTools
    \cup {"test.run", "patch.apply", "shell.run", "git.run", "http.get", "http.post", "unknown"}

Allowed == [safe  |-> ReadTools \cup {"test.run"},
            dev   |-> ReadTools \cup WriteTools \cup {"test.run", "patch.apply"},
            owner |-> AllTools \ {"unknown"}]

Gated == [safe |-> {"patch.apply"}, dev |-> {"shell.run"}, owner |-> {}]

Mode(profile, tool) == IF tool \in Allowed[profile] THEN "allow"
                       ELSE IF tool \in Gated[profile] THEN "approval" ELSE "deny"

(* Settings of the process: SHELL_ENABLED, GIT_ENABLED, DRY_RUN and the    *)
(* profile of the run.                                                     *)
Settings == [shell : BOOLEAN, git : BOOLEAN, dry : BOOLEAN, profile : Profiles]

SwitchedOff(env, tool) == \/ tool = "shell.run" /\ ~env.shell
                          \/ tool \in {"git.run", "git.inspect"} /\ ~env.git

(* evaluate_tool_policy: the profile's decision.                           *)
ProfilePolicy(profile, tool, approved, explicit) ==
    LET mode == Mode(profile, tool)
        gate == mode # "deny" /\ (mode = "approval" \/ explicit)
    IN [mode     |-> mode,
        granted  |-> mode # "deny",
        blocked  |-> mode = "deny",
        required |-> gate /\ ~approved,
        now      |-> mode # "deny" /\ (gate => approved)]

(* evaluate_tool: a switch may turn the profile's decision into a block.   *)
Policy(env, tool, approved, explicit) ==
    LET policy == ProfilePolicy(env.profile, tool, approved, explicit)
        off    == ~policy.blocked /\ SwitchedOff(env, tool)
    IN [mode     |-> policy.mode,
        granted  |-> policy.granted,
        blocked  |-> policy.blocked \/ off,
        required |-> policy.required /\ ~off,
        now      |-> policy.now /\ ~off]

(* The tools whose arguments the guard itself validates; the others check  *)
(* theirs when they run.                                                   *)
Validated == {"shell.run", "fs.read", "http.get", "http.post", "git.run"} \cup WriteTools

GuardStates == {"blocked", "approval_required", "security_failed", "executed"}

(* StepExecutionGuard.execute up to the first attempt; sound says that the *)
(* arguments of the step pass the security checks.                         *)
Verdict(env, tool, approved, explicit, sound) ==
    LET policy == Policy(env, tool, approved, explicit)
    IN IF policy.blocked THEN "blocked"
       ELSE IF policy.required THEN "approval_required"
       ELSE IF tool \in Validated /\ ~sound THEN "security_failed"
       ELSE "executed"
-----------------------------------------------------------------------------
(* What the operator is told.                                              *)

Hint(policy) == IF policy.blocked THEN "approval_cannot_override_profile_deny"
                ELSE IF policy.required THEN "approval_required" ELSE "approval_not_required"

(* GET /profiles/explain/{tool}: about the tool, not about one step.       *)
Access(env, tool) ==
    LET policy == Policy(env, tool, FALSE, FALSE)
    IN [allowed |-> policy.granted,
        now     |-> policy.now,
        hint    |-> Hint(policy)]

(* Slip: the triggers are collected without looking at the block.          *)
RequirementByTriggers(env, tool, explicit) ==
    LET policy == Policy(env, tool, FALSE, explicit)
    IN [required |-> policy.mode = "approval" \/ explicit,
        blocked  |-> policy.blocked,
        triggers |-> {"profile" : x \in IF policy.mode = "approval" THEN {1} ELSE {}}
                     \cup {"explicit" : x \in IF explicit THEN {1} ELSE {}},
        action   |-> IF policy.mode = "approval" \/ explicit THEN "review"
                     ELSE IF policy.blocked THEN "replan" ELSE "continue"]

(* POST /approvals/explain and the record of a pause.                      *)
Requirement(env, tool, explicit) ==
    LET policy == Policy(env, tool, FALSE, explicit)
    IN [required |-> policy.required /\ ~policy.blocked,
        blocked  |-> policy.blocked,
        triggers |-> {t \in {"profile", "explicit"} :
                        /\ ~policy.blocked
                        /\ IF t = "profile" THEN policy.mode = "approval" ELSE explicit},
        action   |-> IF policy.blocked THEN "replan"
                     ELSE IF policy.required THEN "review" ELSE "continue"]
=============================================================================
