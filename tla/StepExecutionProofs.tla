------------------------- MODULE StepExecutionProofs -------------------------
(***************************************************************************)
(* Theorems about steps and routes, for any tasks, settings, keys, numbers *)
(* of retries and cooldowns.                                               *)
(***************************************************************************)
EXTENDS StepExecution, WellFoundedInduction, TLAPS

-----------------------------------------------------------------------------
(* The numbers among the constants, and the runs among the callers.        *)
LEMMA Bounds ==
  MaxRetries \in Nat /\ Cooldown \in Nat /\ StepRetries \in Nat /\ Runs \subseteq Callers
BY RouterAssumption, StepAssumption

USE Bounds

(* A set of positions has a least one.                                     *)
LEMMA LeastPosition ==
  ASSUME NEW T \in SUBSET Nat, T # {}
  PROVE  LET next == CHOOSE i \in T : \A j \in T : i <= j
         IN next \in T /\ \A j \in T : next <= j
<1>1. \E x \in T : \A y \in T : ~ (<<y, x>> \in OpToRel(<, Nat))
  BY NatLessThanWellFounded, WFMin
<1>2. \E x \in T : \A y \in T : x <= y
  <2>1. PICK x \in T : \A y \in T : ~ (<<y, x>> \in OpToRel(<, Nat))
    BY <1>1
  <2>2. ASSUME NEW y \in T PROVE x <= y
    <3>1. ~ (y < x)
      BY <2>1 DEF OpToRel
    <3> QED BY <3>1
  <2> QED BY <2>2
<1> QED BY <1>2

(* What is considered is a sequence of providers: the preferred ones, then *)
(* the configured order.                                                   *)
LEMMA ConsideredIsSeq ==
  ASSUME NEW task \in TaskTypes
  PROVE  /\ Preferred(task) \in Seq(Providers)
         /\ Considered(task) \in Seq(Providers)
         /\ Len(Considered(task)) = Len(Preferred(task)) + Len(Order)
         /\ \A i \in 1..Len(Preferred(task)) : Considered(task)[i] = Preferred(task)[i]
         /\ \A i \in 1..Len(Order) : Considered(task)[Len(Preferred(task)) + i] = Order[i]
<1>1. Preferred(task) \in Seq(Providers)
  <2>1. /\ <<"openai", "openrouter", "ollama">> \in Seq(Providers)
        /\ <<"openai", "anthropic", "gemini">> \in Seq(Providers)
        /\ <<"openrouter", "ollama", "openai">> \in Seq(Providers)
    BY DEF Providers
  <2>2. CASE task \in {"code", "planning"}
    BY <2>1, <2>2 DEF Preferred
  <2>3. CASE task \in {"analysis", "reasoning"}
    BY <2>1, <2>3 DEF Preferred
  <2>4. CASE task \in {"fast", "summarize"}
    BY <2>1, <2>4 DEF Preferred
  <2>5. CASE task = "other"
    BY <2>5, RouterAssumption DEF Preferred
  <2> QED BY <2>2, <2>3, <2>4, <2>5 DEF TaskTypes
<1> QED BY <1>1, RouterAssumption DEF Considered

(* Advance keeps the task and what has failed, passes only over providers  *)
(* it records as skipped, and either fails at the end or stops at one.     *)
LEMMA AdvanceWalks ==
  ASSUME NEW r \in Route, NEW n \in Nat \ {0}, NEW cool \in [Providers -> 0..Cooldown]
  PROVE  LET s == Advance(r, n, cool)
         IN /\ s \in Route
            /\ s.task = r.task /\ s.failed = r.failed
            /\ r.skipped \subseteq s.skipped
            /\ s.pc \in {"failed", "calling"}
            /\ s.pc = "calling" => s.pos \in n..Len(Considered(r.task))
            /\ \A i \in n..Len(Considered(r.task)) :
                 /\ Candidate(r.task, i)
                 /\ s.pc = "calling" => i < s.pos
                 => Considered(r.task)[i] \in s.skipped
<1> DEFINE at(i) == Considered(r.task)[i]
           positions == {i \in n..Len(Considered(r.task)) : Candidate(r.task, i)}
           rested == {i \in positions : Rested(at(i), cool)}
           next == CHOOSE i \in rested : \A j \in rested : i <= j
           all == {at(i) : i \in positions}
           before == {at(i) : i \in {j \in positions : j < next}}
<1>1. r.task \in TaskTypes
  BY DEF Route
<1>2. Len(Considered(r.task)) \in Nat /\ \A i \in 1..Len(Considered(r.task)) : at(i) \in Providers
  BY <1>1, ConsideredIsSeq
<1>3. positions \subseteq 1..Len(Considered(r.task)) /\ rested \subseteq positions
  BY <1>2
<1>4. all \subseteq Providers /\ before \subseteq all
  BY <1>2, <1>3
<1> HIDE DEF at, positions, rested, next, all, before
<1>5. CASE rested = {}
  <2>1. Advance(r, n, cool) = [r EXCEPT !.pc = "failed", !.skipped = @ \cup all]
    BY <1>5 DEF Advance, all, positions, rested, at
  <2>2. [r EXCEPT !.pc = "failed", !.skipped = @ \cup all] \in Route
    BY <1>4 DEF Route
  <2>3. \A i \in n..Len(Considered(r.task)) : Candidate(r.task, i) => Considered(r.task)[i] \in all
    BY DEF all, positions, at
  <2> QED BY <2>1, <2>2, <2>3 DEF Route
<1>6. CASE rested # {}
  <2>1. Advance(r, n, cool) = [r EXCEPT !.pc = "calling", !.pos = next, !.tries = 1,
                                        !.skipped = @ \cup before]
    BY <1>6 DEF Advance, before, positions, rested, next, at
  <2>2. next \in rested
    <3>1. rested \in SUBSET Nat
      BY <1>2, <1>3
    <3> QED BY <3>1, <1>6, LeastPosition DEF next
  <2>3. next \in n..Len(Considered(r.task)) /\ next \in Nat \ {0}
    BY <2>2, <1>2, <1>3 DEF positions
  <2>4. [r EXCEPT !.pc = "calling", !.pos = next, !.tries = 1, !.skipped = @ \cup before] \in Route
    <3>1. /\ r.skipped \cup before \in SUBSET Providers
          /\ 1 \in 0..(MaxRetries + 1)
          /\ "calling" \in {"idle", "calling", "waiting", "selected", "failed", "escaped"}
      BY <1>4 DEF Route
    <3> QED BY <3>1, <2>3 DEF Route
  <2>5. \A i \in n..Len(Considered(r.task)) :
          Candidate(r.task, i) /\ i < next => Considered(r.task)[i] \in before
    BY DEF before, positions, at
  <2> QED BY <2>1, <2>3, <2>4, <2>5 DEF Route
<1> QED BY <1>5, <1>6

(* A route whose record says that it passed over the positions before n.   *)
Walked(r, n) ==
  \A i \in 1..Len(Considered(r.task)) :
    Candidate(r.task, i) /\ i < n => Considered(r.task)[i] \in r.failed \cup r.skipped

(* While a route calls a provider, it has passed over everything before    *)
(* it; a route that has failed has passed over everything.                 *)
Exhausts(r) ==
  /\ Calling(r) => r.pos \in 1..Len(Considered(r.task)) /\ Walked(r, r.pos)
  /\ r.pc = "failed" => Walked(r, Len(Considered(r.task)) + 1)

RouterInv == RouterTypeOK /\ \A c \in Callers : Exhausts(route[c])

LEMMA AdvanceExhausts ==
  ASSUME NEW r \in Route, NEW n \in Nat \ {0}, NEW cool \in [Providers -> 0..Cooldown],
         Walked(r, n)
  PROVE  Exhausts(Advance(r, n, cool))
<1> DEFINE s == Advance(r, n, cool)
<1>1. r.task \in TaskTypes /\ Len(Considered(r.task)) \in Nat
  BY ConsideredIsSeq DEF Route
<1>2. /\ s \in Route
      /\ s.task = r.task /\ s.failed = r.failed
      /\ r.skipped \subseteq s.skipped
      /\ s.pc \in {"failed", "calling"}
      /\ s.pc = "calling" => s.pos \in n..Len(Considered(r.task))
      /\ \A i \in n..Len(Considered(r.task)) :
           /\ Candidate(r.task, i)
           /\ s.pc = "calling" => i < s.pos
           => Considered(r.task)[i] \in s.skipped
  BY AdvanceWalks
<1> HIDE DEF s
<1>3. \A i \in 1..Len(Considered(r.task)) :
        /\ Candidate(r.task, i)
        /\ s.pc = "calling" => i < s.pos
        => Considered(r.task)[i] \in s.failed \cup s.skipped
  BY <1>1, <1>2 DEF Walked
<1>4. ASSUME s.pc = "calling" PROVE Exhausts(s)
  BY <1>1, <1>2, <1>3, <1>4 DEF Exhausts, Walked, Calling
<1>5. ASSUME s.pc = "failed" PROVE Exhausts(s)
  BY <1>1, <1>2, <1>3, <1>5 DEF Exhausts, Walked, Calling
<1>6. Exhausts(s)
  BY <1>2, <1>4, <1>5
<1> QED BY <1>6 DEF s

LEMMA FreshRoute ==
  ASSUME NEW task \in TaskTypes
  PROVE  Fresh(task) \in Route /\ Walked(Fresh(task), 1) /\ Exhausts(Fresh(task))
<1>1. Fresh(task) \in Route
  BY DEF Fresh, Route
<1>2. Walked(Fresh(task), 1)
  BY ConsideredIsSeq DEF Walked, Fresh
<1> QED BY <1>1, <1>2 DEF Exhausts, Calling, Fresh

LEMMA EscapedRoute ==
  ASSUME NEW task \in TaskTypes
  PROVE  /\ [Fresh(task) EXCEPT !.pc = "escaped"] \in Route
         /\ Exhausts([Fresh(task) EXCEPT !.pc = "escaped"])
<1>1. [Fresh(task) EXCEPT !.pc = "escaped"] \in Route
  BY DEF Fresh, Route
<1> QED BY <1>1 DEF Exhausts, Calling, Fresh

(* A cooldown takes a value of its range.                                  *)
LEMMA CoolingSet ==
  ASSUME NEW cool \in [Providers -> 0..Cooldown], NEW p, NEW v \in 0..Cooldown
  PROVE  [cool EXCEPT ![p] = v] \in [Providers -> 0..Cooldown]
OBVIOUS

(* Replacing one route by one that is still in order keeps the invariant.  *)
LEMMA RouteReplaced ==
  ASSUME RouterInv, NEW c \in Callers, NEW r \in Route, Exhausts(r),
         route' = [route EXCEPT ![c] = r], cooling' \in [Providers -> 0..Cooldown]
  PROVE  RouterInv'
<1>1. RouterTypeOK'
  BY DEF RouterInv, RouterTypeOK
<1>2. ASSUME NEW d \in Callers PROVE Exhausts(route'[d])
  BY DEF RouterInv, RouterTypeOK
<1> QED BY <1>1, <1>2 DEF RouterInv

LEMMA RouterStep ==
  ASSUME RouterInv, NEW c \in Callers
  PROVE  /\ \A task \in TaskTypes : Begin(c, task) => RouterInv'
         /\ Respond(c) => RouterInv'
         /\ Resend(c) => RouterInv'
         /\ Abandon(c) => RouterInv'
<1>1. /\ route[c] \in Route /\ Exhausts(route[c]) /\ route[c].task \in TaskTypes
      /\ route \in [Callers -> Route] /\ cooling \in [Providers -> 0..Cooldown]
  BY DEF RouterInv, RouterTypeOK, Route
<1>2. ASSUME NEW task \in TaskTypes, Begin(c, task) PROVE RouterInv'
  <2>1. Fresh(task) \in Route /\ Walked(Fresh(task), 1) /\ 1 \in Nat \ {0}
    BY FreshRoute
  <2>2. Advance(Fresh(task), 1, cooling) \in Route /\ Exhausts(Advance(Fresh(task), 1, cooling))
    <3> HIDE DEF Advance, Exhausts
    <3>1. Advance(Fresh(task), 1, cooling) \in Route
      BY <1>1, <2>1, AdvanceWalks
    <3>2. Exhausts(Advance(Fresh(task), 1, cooling))
      BY <1>1, <2>1, AdvanceExhausts
    <3> QED BY <3>1, <3>2
  <2> QED BY <1>1, <1>2, <2>2, RouteReplaced DEF Begin
<1>3. ASSUME route[c].pc = "calling" PROVE Current(c) \in Providers /\ route[c].pos \in Nat \ {0}
  BY <1>1, <1>3, ConsideredIsSeq DEF Exhausts, Calling, Current
<1>4. ASSUME Answer(c) PROVE RouterInv'
  <2>1. [route[c] EXCEPT !.pc = "selected"] \in Route
        /\ Exhausts([route[c] EXCEPT !.pc = "selected"])
    BY <1>1 DEF Route, Exhausts, Calling
  <2>2. route' = [route EXCEPT ![c] = [route[c] EXCEPT !.pc = "selected"]]
    BY <1>4 DEF Answer
  <2>3. cooling' \in [Providers -> 0..Cooldown]
    <3>1. 0 \in 0..Cooldown
      OBVIOUS
    <3> QED BY <1>1, <1>4, <3>1, CoolingSet DEF Answer
  <2> QED BY <2>1, <2>2, <2>3, RouteReplaced
<1>5. ASSUME Transient(c) PROVE RouterInv'
  <2>1. [route[c] EXCEPT !.pc = "waiting"] \in Route
        /\ Exhausts([route[c] EXCEPT !.pc = "waiting"])
    BY <1>1, <1>5 DEF Transient, Route, Exhausts, Calling, Walked
  <2>2. route' = [route EXCEPT ![c] = [route[c] EXCEPT !.pc = "waiting"]]
    BY <1>5 DEF Transient
  <2> QED BY <1>1, <1>5, <2>1, <2>2, RouteReplaced DEF Transient
<1>6. ASSUME Fail(c) PROVE RouterInv'
  <2> DEFINE q == [route[c] EXCEPT !.failed = @ \cup {Current(c)}]
  <2>1. route[c].pc = "calling" /\ route[c].pos \in Nat \ {0} /\ Current(c) \in Providers
    BY <1>3, <1>6 DEF Fail
  <2>2. q \in Route /\ q.task = route[c].task /\ q.pos = route[c].pos
        /\ q.failed = route[c].failed \cup {Current(c)} /\ q.skipped = route[c].skipped
    BY <1>1, <2>1 DEF Route
  <2>3. Walked(route[c], route[c].pos)
    BY <1>1, <2>1 DEF Exhausts, Calling
  <2> HIDE DEF q
  <2>4. Walked(q, route[c].pos + 1)
    <3>1. Len(Considered(q.task)) \in Nat
      BY <1>1, <2>2, ConsideredIsSeq
    <3>2. ASSUME NEW i \in 1..Len(Considered(q.task)), Candidate(q.task, i), i < route[c].pos + 1
          PROVE  Considered(q.task)[i] \in q.failed \cup q.skipped
      <4>1. CASE i < route[c].pos
        BY <2>2, <2>3, <3>2, <4>1 DEF Walked
      <4>2. CASE i = route[c].pos
        BY <2>2, <4>2 DEF Current
      <4> QED BY <2>1, <3>1, <3>2, <4>1, <4>2
    <3> QED BY <3>2 DEF Walked
  <2>5. cooling' \in [Providers -> 0..Cooldown]
    <3>1. Cooldown \in 0..Cooldown /\ cooling' = [cooling EXCEPT ![Current(c)] = Cooldown]
      BY <1>6 DEF Fail
    <3> QED BY <1>1, <3>1, CoolingSet
  <2>6. route' = [route EXCEPT ![c] = Advance(q, q.pos + 1, cooling')]
    BY <1>1, <1>6, <2>2 DEF Fail, q
  <2>7. Advance(q, q.pos + 1, cooling') \in Route /\ Exhausts(Advance(q, q.pos + 1, cooling'))
    BY <2>1, <2>2, <2>4, <2>5, AdvanceWalks, AdvanceExhausts
  <2> QED BY <2>5, <2>6, <2>7, RouteReplaced
<1>7. ASSUME Escape(c) \/ Abandon(c) PROVE RouterInv'
  <2>1. route' = [route EXCEPT ![c] = [Fresh(route[c].task) EXCEPT !.pc = "escaped"]]
        /\ cooling' = cooling
    BY <1>7 DEF Escape, Abandon
  <2> QED BY <1>1, <2>1, EscapedRoute, RouteReplaced
<1>8. ASSUME Resend(c) PROVE RouterInv'
  <2> DEFINE q == [route[c] EXCEPT !.pc = "calling", !.tries = @ + 1]
  <2>1. q \in Route /\ Exhausts(q)
    BY <1>1, <1>8 DEF Resend, Route, Exhausts, Calling, Walked
  <2>2. route' = [route EXCEPT ![c] = q] /\ cooling' = cooling
    BY <1>8 DEF Resend
  <2> HIDE DEF q
  <2> QED BY <1>1, <2>1, <2>2, RouteReplaced
<1> QED BY <1>2, <1>4, <1>5, <1>6, <1>7, <1>8 DEF Respond

(* The settings never change; the steps of the guard leave the router to   *)
(* its own actions.                                                        *)
LEMMA RouterNext ==
  ASSUME RouterInv, [Next]_vars
  PROVE  RouterInv'
<1>1. CASE UNCHANGED routerVars
  BY <1>1 DEF RouterInv, RouterTypeOK, routerVars
<1>2. ASSUME NEW c \in Callers, NEW task \in TaskTypes, Begin(c, task) PROVE RouterInv'
  BY <1>2, RouterStep
<1>3. ASSUME NEW c \in Callers, Respond(c) \/ Resend(c) \/ Abandon(c) PROVE RouterInv'
  BY <1>3, RouterStep
<1>4. ASSUME NEW r \in Runs, Return(r) PROVE RouterInv'
  <2>1. "other" \in TaskTypes
    BY DEF TaskTypes
  <2> QED BY <1>4, <2>1, FreshRoute, RouteReplaced DEF Return, RouterInv, RouterTypeOK
<1>5. ASSUME Time PROVE RouterInv'
  <2>1. cooling' \in [Providers -> 0..Cooldown]
    BY <1>5 DEF Time, Tick, RouterInv, RouterTypeOK
  <2> QED BY <1>5, <2>1 DEF Time, Tick, RouterInv, RouterTypeOK
<1>6. ASSUME NEW r \in Runs, Execute(r) \/ RunTool(r) \/ Analyse(r) \/ Again(r) \/ Return(r)
      PROVE  RouterInv'
  <2>1. CASE Analyse(r)
    <3>1. r \in Callers /\ "analysis" \in TaskTypes
      BY DEF TaskTypes
    <3> QED BY <2>1, <3>1, <1>2 DEF Analyse
  <2> QED BY <1>6, <2>1, <1>1, <1>4 DEF Execute, RunTool, Again, routerVars
<1>7. ASSUME NEW c \in Callers, Plan(c) \/ Reply(c) \/ Wake(c) \/ Cancel(c)
      PROVE  RouterInv'
  <2>1. CASE Plan(c)
    <3>1. "planning" \in TaskTypes
      BY DEF TaskTypes
    <3> QED BY <2>1, <3>1, <1>2 DEF Plan
  <2>2. CASE Cancel(c)
    BY <2>2, <1>1, <1>3 DEF Cancel
  <2> QED BY <1>7, <2>1, <2>2, <1>3 DEF Reply, Wake
<1>8. CASE UNCHANGED vars
  BY <1>8, <1>1 DEF vars, routerVars
<1> QED BY <1>5, <1>6, <1>7, <1>8 DEF Next

(* What is known of a step: it is attempted only when the guard lets it    *)
(* through, it goes back to sleep only with retries left, and once it has  *)
(* had its effect it is over.                                              *)
StepInv(s) ==
  /\ s \in Step /\ s.attempts <= StepRetries + 1
  /\ s.pc = "backoff" => s.attempts <= StepRetries
  /\ s.pc \in {"ready", "routing", "backoff"} => s.state = "executed"
  /\ s.effects > 0 => /\ s.effects = 1 /\ s.pc = "ended"
                      /\ s.tool \in Affects /\ s.state = "executed"
                      /\ ~settings.dry /\ ~s.dry
  /\ s.state # "none" => s.state = Verdict(settings, s.tool, s.approved, s.explicit, s.sound)

IInv ==
  /\ RouterInv
  /\ settings \in Environments
  /\ step \in [Runs -> Step]
  /\ \A r \in Runs : StepInv(step[r])

(* The tools that affect anything are never retried.                       *)
LEMMA SafeToRetry == RetrySafeTools \cap Affects = {}
BY DEF RetrySafeTools, Affects, ReadTools, WriteTools

LEMMA AttemptedStep ==
  ASSUME NEW s, StepInv(s), s.effects = 0 \/ s.pc = "ended", NEW effects \in Nat, effects <= 1,
         NEW result \in {"success", "failed", "transient"},
         effects > 0 => /\ s.effects = 0 /\ s.tool \in Affects /\ s.state = "executed"
                        /\ ~settings.dry /\ ~s.dry,
         s.state = "executed"
  PROVE  StepInv(Attempted(s, result, effects))
<1> DEFINE q == Attempted(s, result, effects)
           pc == IF Retries(s, result) THEN "backoff" ELSE "ended"
<1>1. q = [s EXCEPT !.pc = pc, !.result = result, !.effects = @ + effects]
  BY DEF Attempted
<1>2. s \in Step /\ pc \in {"backoff", "ended"} /\ s.effects + effects \in Nat
  BY DEF StepInv, Step
<1> HIDE DEF q, pc
<1>3. /\ q \in Step /\ q.pc = pc /\ q.effects = s.effects + effects
      /\ q.attempts = s.attempts /\ q.state = s.state /\ q.tool = s.tool /\ q.dry = s.dry
      /\ q.approved = s.approved /\ q.explicit = s.explicit /\ q.sound = s.sound
  BY <1>1, <1>2 DEF Step
<1>4. pc = "backoff" => s.attempts <= StepRetries /\ s.tool \notin Affects
  BY SafeToRetry DEF pc, Retries
<1>5. s.effects \in Nat
  BY <1>2 DEF Step
<1>6. q.effects > 0 => /\ q.effects = 1 /\ q.pc = "ended"
                       /\ q.tool \in Affects /\ q.state = "executed"
                       /\ ~settings.dry /\ ~q.dry
  BY <1>2, <1>3, <1>4, <1>5 DEF StepInv
<1>7. StepInv(q)
  BY <1>2, <1>3, <1>4, <1>5, <1>6 DEF StepInv
<1> QED BY <1>7 DEF q

(* Replacing one step by one that is in order keeps the invariant.         *)
LEMMA StepReplaced ==
  ASSUME IInv, RouterInv', settings' = settings, NEW r \in Runs, NEW s,
         StepInv(s), step' = [step EXCEPT ![r] = s]
  PROVE  IInv'
<1>1. s \in Step
  BY DEF StepInv
<1>2. step' \in [Runs -> Step]
  BY <1>1 DEF IInv
<1>3. ASSUME NEW q \in Runs PROVE StepInv(step[q])'
  <2>1. CASE q = r
    <3>1. step'[q] = s
      BY <2>1 DEF IInv
    <3> QED BY <3>1 DEF StepInv
  <2>2. CASE q # r
    <3>1. step'[q] = step[q] /\ StepInv(step[q])
      BY <2>2 DEF IInv
    <3> QED BY <3>1 DEF StepInv
  <2> QED BY <2>1, <2>2
<1> QED BY <1>2, <1>3 DEF IInv

LEMMA IdleStep == StepInv(NoStep)
BY DEF StepInv, NoStep, Step, AllTools, ReadTools

(* What the guard makes of a new step.                                     *)
LEMMA GuardedStep ==
  ASSUME NEW tool \in AllTools, NEW explicit \in BOOLEAN, NEW approved \in BOOLEAN,
         NEW dry \in BOOLEAN, NEW sound \in BOOLEAN
  PROVE  StepInv(Guarded(tool, explicit, approved, dry, sound))
<1> DEFINE s == Guarded(tool, explicit, approved, dry, sound)
           state == Verdict(settings, tool, approved, explicit, sound)
<1>1. state \in GuardStates
  BY DEF Verdict, GuardStates
<1>2. /\ s.pc = IF state = "executed" THEN "ready" ELSE "ended"
      /\ s.attempts = IF state = "executed" THEN 1 ELSE 0
      /\ s.effects = 0 /\ s.state = state
      /\ state = Verdict(settings, s.tool, s.approved, s.explicit, s.sound)
  BY DEF Guarded
<1>3. s \in Step
  BY <1>1 DEF Guarded, Step
<1> HIDE DEF s, state
<1>4. StepInv(s)
  BY <1>2, <1>3 DEF StepInv
<1> QED BY <1>4 DEF s

LEMMA ExecuteStep ==
  ASSUME IInv, NEW r \in Runs, Execute(r), RouterInv'
  PROVE  IInv'
<1>1. PICK tool \in Tools, explicit \in BOOLEAN :
        \E approved \in {FALSE, Requirement(settings, tool, explicit).required},
           dry \in {FALSE, (tool \in Simulated)}, sound \in Soundness(tool) :
          step' = [step EXCEPT ![r] = Guarded(tool, explicit, approved, dry, sound)]
  BY DEF Execute
<1>2. Requirement(settings, tool, explicit).required \in BOOLEAN
  <2> DEFINE policy == Policy(settings, tool, FALSE, explicit)
  <2>1. Requirement(settings, tool, explicit).required = (policy.required /\ ~policy.blocked)
    BY DEF Requirement
  <2> HIDE DEF policy
  <2> QED BY <2>1
<1>3. PICK approved \in {FALSE, Requirement(settings, tool, explicit).required},
           dry \in {FALSE, (tool \in Simulated)}, sound \in Soundness(tool) :
        step' = [step EXCEPT ![r] = Guarded(tool, explicit, approved, dry, sound)]
  BY <1>1
<1>4. tool \in AllTools
  BY StepAssumption
<1>5. StepInv(Guarded(tool, explicit, approved, dry, sound))
  <2>1. approved \in BOOLEAN
    BY <1>2
  <2>2. dry \in BOOLEAN
    <3>1. (tool \in Simulated) \in BOOLEAN
      OBVIOUS
    <3> QED BY <3>1, Zenon
  <2>3. sound \in BOOLEAN
    <3>1. (tool \notin Validated) \in BOOLEAN
      OBVIOUS
    <3>2. sound \in {TRUE, (tool \notin Validated)}
      BY DEF Soundness
    <3> QED BY <3>1, <3>2, Zenon
  <2> QED BY <1>4, <2>1, <2>2, <2>3, GuardedStep
<1>6. settings' = settings
  BY DEF Execute
<1> QED BY <1>3, <1>5, <1>6, StepReplaced

(* The end of an attempt at a tool.                                        *)
LEMMA AttemptEnds ==
  ASSUME IInv, RouterInv', settings' = settings, NEW r \in Runs,
         step[r].state = "executed",
         NEW result \in {"success", "failed", "transient"}, NEW effects \in {0, 1},
         effects > 0 => /\ step[r].effects = 0 /\ step[r].tool \in Affects
                        /\ ~settings.dry /\ ~step[r].dry,
         step' = [step EXCEPT ![r] = Attempted(step[r], result, effects)]
  PROVE  IInv'
<1>1. StepInv(step[r])
  BY DEF IInv
<1>2. step[r].effects = 0 \/ step[r].pc = "ended"
  BY <1>1 DEF StepInv, Step
<1>3. StepInv(Attempted(step[r], result, effects))
  BY <1>1, <1>2, AttemptedStep
<1> QED BY <1>3, StepReplaced

(* The end of the route of an analysis step.                               *)
LEMMA AnalysisEnds ==
  ASSUME IInv, RouterInv', settings' = settings, NEW r \in Runs,
         step[r].state = "executed", NEW result \in {"success", "failed", "transient"},
         step' = [step EXCEPT ![r] = Attempted(step[r], result, 0)]
  PROVE  IInv'
<1>1. StepInv(step[r])
  BY DEF IInv
<1>2. step[r].effects = 0 \/ step[r].pc = "ended"
  BY <1>1 DEF StepInv, Step
<1>3. StepInv(Attempted(step[r], result, 0))
  <2>1. 0 \in Nat /\ 0 <= 1 /\ ~ (0 > 0)
    OBVIOUS
  <2> QED BY <1>1, <1>2, <2>1, AttemptedStep
<1> QED BY <1>3, StepReplaced

LEMMA RunToolStep ==
  ASSUME IInv, NEW r \in Runs, RunTool(r), RouterInv'
  PROVE  IInv'
<1>1. PICK result \in Outcomes(step[r]) : \E effects \in Effects(step[r], result) :
        step' = [step EXCEPT ![r] = Attempted(step[r], result, effects)]
  BY DEF RunTool
<1>2. PICK effects \in Effects(step[r], result) :
        step' = [step EXCEPT ![r] = Attempted(step[r], result, effects)]
  BY <1>1
<1>3. result \in {"success", "failed", "transient"}
  BY DEF Outcomes
<1>4. effects \in {0, 1} /\ (effects > 0 => step[r].tool \in Affects /\ ~settings.dry /\ ~step[r].dry)
  BY DEF Effects, DryRun
<1>5. step[r].pc = "ready" /\ settings' = settings
  BY DEF RunTool
<1>6. step[r].state = "executed" /\ step[r].effects = 0
  BY <1>5 DEF IInv, StepInv, Step
<1> QED BY <1>2, <1>3, <1>4, <1>5, <1>6, AttemptEnds

(* A run is inside the router only while its step waits for it.            *)
Coupled == \A r \in Runs : Calling(route[r]) => step[r].pc = "routing"

LEMMA ReplyStep ==
  ASSUME IInv, Coupled, NEW c \in Callers, Reply(c), RouterInv'
  PROVE  IInv'
<1>1. settings' = settings /\ Deliver(c) /\ route[c].pc = "calling"
  BY DEF Reply, Respond, Answer, Transient, Fail, Escape
<1>2. CASE c \in Runs /\ ~Calling(route'[c])
  <2> DEFINE result == CASE route'[c].pc = "selected" -> "success"
                         [] route'[c].pc = "failed"   -> "transient"
                         [] OTHER                     -> "failed"
  <2>1. step' = [step EXCEPT ![c] = Attempted(step[c], result, 0)]
    BY <1>1, <1>2 DEF Deliver
  <2>2. result \in {"success", "failed", "transient"}
    OBVIOUS
  <2>3. step[c].state = "executed"
    BY <1>1, <1>2 DEF Coupled, Calling, IInv, StepInv
  <2> HIDE DEF result
  <2> QED BY <1>1, <1>2, <2>1, <2>2, <2>3, AnalysisEnds
<1>3. CASE ~(c \in Runs /\ ~Calling(route'[c]))
  BY <1>1, <1>3 DEF Deliver, IInv, StepInv
<1> QED BY <1>2, <1>3

LEMMA AnalyseStep ==
  ASSUME IInv, NEW r \in Runs, Analyse(r), RouterInv'
  PROVE  IInv'
<1>1. step[r].pc = "ready" /\ settings' = settings /\ StepInv(step[r])
  BY DEF Analyse, IInv
<1>2. step[r].state = "executed" /\ step[r].effects = 0 /\ step[r] \in Step
  BY <1>1 DEF StepInv, Step
<1>3. CASE Calling(route'[r])
  <2> DEFINE s == [step[r] EXCEPT !.pc = "routing"]
  <2>1. step' = [step EXCEPT ![r] = s]
    BY <1>3 DEF Analyse
  <2>2. s \in Step
    BY <1>2 DEF Step
  <2>3. StepInv(s)
    BY <1>1, <1>2, <2>2 DEF StepInv, Step
  <2> HIDE DEF s
  <2> QED BY <1>1, <2>1, <2>3, StepReplaced
<1>4. CASE ~Calling(route'[r])
  <2>1. step' = [step EXCEPT ![r] = Attempted(step[r], "transient", 0)]
    BY <1>4 DEF Analyse
  <2>2. "transient" \in {"success", "failed", "transient"}
    OBVIOUS
  <2> QED BY <1>1, <1>2, <2>1, <2>2, AnalysisEnds
<1> QED BY <1>3, <1>4

LEMMA AgainStep ==
  ASSUME IInv, NEW r \in Runs, Again(r), RouterInv'
  PROVE  IInv'
<1> DEFINE s == [step[r] EXCEPT !.pc = "ready", !.attempts = @ + 1]
<1>1. step[r].pc = "backoff" /\ settings' = settings /\ StepInv(step[r])
  BY DEF Again, IInv
<1>2. step' = [step EXCEPT ![r] = s]
  BY DEF Again
<1>3. step[r] \in Step /\ step[r].attempts \in Nat /\ step[r].attempts + 1 \in Nat
  BY <1>1 DEF StepInv, Step
<1>4. s \in Step
  BY <1>3 DEF Step
<1>5. /\ s.pc = "ready" /\ s.attempts = step[r].attempts + 1 /\ s.state = step[r].state
      /\ s.effects = step[r].effects /\ s.tool = step[r].tool /\ s.sound = step[r].sound
      /\ s.approved = step[r].approved /\ s.explicit = step[r].explicit
  BY <1>3 DEF Step
<1>6. step[r].state = "executed" /\ step[r].effects \in Nat /\ ~ (step[r].effects > 0)
  BY <1>1, <1>3 DEF StepInv, Step
<1>7. StepInv(s)
  BY <1>1, <1>3, <1>4, <1>5, <1>6 DEF StepInv
<1> HIDE DEF s
<1> QED BY <1>1, <1>2, <1>7, StepReplaced

LEMMA InvNext ==
  ASSUME IInv, Coupled, [Next]_vars
  PROVE  IInv'
<1>1. RouterInv'
  BY RouterNext DEF IInv
<1>2. CASE UNCHANGED <<settings, step>>
  BY <1>1, <1>2 DEF IInv, StepInv
<1>3. ASSUME NEW r \in Runs, Return(r) PROVE IInv'
  <2>1. settings' = settings /\ step' = [step EXCEPT ![r] = NoStep]
    BY <1>3 DEF Return
  <2> QED BY <1>1, <2>1, IdleStep, StepReplaced
<1>4. ASSUME NEW r \in Runs, Execute(r) \/ RunTool(r) \/ Analyse(r) \/ Again(r) \/ Return(r)
      PROVE  IInv'
  BY <1>1, <1>3, <1>4, ExecuteStep, RunToolStep, AnalyseStep, AgainStep
<1>5. ASSUME NEW c \in Callers, Cancel(c) PROVE IInv'
  <2>1. CASE c \in Runs
    <3>1. settings' = settings /\ step' = [step EXCEPT ![c] = NoStep]
      BY <1>5, <2>1 DEF Cancel
    <3> QED BY <1>1, <2>1, <3>1, IdleStep, StepReplaced
  <2>2. CASE c \notin Runs
    BY <1>2, <1>5, <2>2 DEF Cancel
  <2> QED BY <2>1, <2>2
<1>6. ASSUME NEW c \in Callers, Plan(c) \/ Reply(c) \/ Wake(c) \/ Cancel(c)
      PROVE  IInv'
  <2>1. CASE Plan(c)
    BY <1>2, <2>1 DEF Plan
  <2>2. CASE Wake(c)
    BY <1>2, <2>2 DEF Wake
  <2> QED BY <1>1, <1>5, <1>6, <2>1, <2>2, ReplyStep
<1>7. CASE Time
  BY <1>2, <1>7 DEF Time
<1>8. CASE UNCHANGED vars
  BY <1>2, <1>8 DEF vars
<1> QED BY <1>4, <1>6, <1>7, <1>8 DEF Next

LEMMA CoupledNext ==
  ASSUME IInv, Coupled, [Next]_vars
  PROVE  Coupled'
<1>1. route \in [Callers -> Route] /\ step \in [Runs -> Step]
  BY DEF IInv, RouterInv, RouterTypeOK
<1>2. CASE UNCHANGED <<route, step>>
  BY <1>2 DEF Coupled
<1>3. ASSUME NEW r \in Runs, ~Calling(route[r]), route' = route,
             \A q \in Runs : q # r => step'[q] = step[q]
      PROVE  Coupled'
  BY <1>3 DEF Coupled
<1>4. ASSUME NEW c \in Callers,
             \A d \in Callers : d # c => route'[d] = route[d],
             \A q \in Runs : q # c => step'[q] = step[q],
             c \in Runs /\ Calling(route'[c]) => step'[c].pc = "routing"
      PROVE  Coupled'
  <2>1. ASSUME NEW q \in Runs, Calling(route'[q]) PROVE step'[q].pc = "routing"
    <3>1. CASE q = c
      BY <1>4, <2>1, <3>1
    <3>2. CASE q # c
      BY <1>4, <2>1, <3>2 DEF Coupled
    <3> QED BY <3>1, <3>2
  <2> QED BY <2>1 DEF Coupled
<1>5. ASSUME NEW r \in Runs, step[r].pc # "routing" PROVE ~Calling(route[r])
  BY <1>5 DEF Coupled
<1>6. ASSUME NEW r \in Runs, Execute(r) \/ RunTool(r) \/ Again(r) PROVE Coupled'
  <2>1. step[r].pc # "routing" /\ route' = route
    BY <1>6 DEF Execute, RunTool, Again, routerVars
  <2>2. \A q \in Runs : q # r => step'[q] = step[q]
    <3>1. CASE Execute(r)
      BY <1>1, <3>1 DEF Execute
    <3>2. CASE RunTool(r)
      BY <1>1, <3>2 DEF RunTool
    <3>3. CASE Again(r)
      BY <1>1, <3>3 DEF Again
    <3> QED BY <1>6, <3>1, <3>2, <3>3
  <2> QED BY <1>3, <1>5, <2>1, <2>2
<1>7. ASSUME NEW r \in Runs, Analyse(r) PROVE Coupled'
  <2>1. \A d \in Callers : d # r => route'[d] = route[d]
    BY <1>1, <1>7 DEF Analyse, Begin
  <2>2. \A q \in Runs : q # r => step'[q] = step[q]
    BY <1>1, <1>7 DEF Analyse
  <2>3. Calling(route'[r]) => step'[r].pc = "routing"
    BY <1>1, <1>7 DEF Analyse, Step
  <2> QED BY <1>4, <2>1, <2>2, <2>3
<1>8. ASSUME NEW r \in Runs, Return(r) PROVE Coupled'
  <2>1. \A d \in Callers : d # r => route'[d] = route[d]
    BY <1>1, <1>8 DEF Return
  <2>2. \A q \in Runs : q # r => step'[q] = step[q]
    BY <1>1, <1>8 DEF Return
  <2>3. ~Calling(route'[r])
    BY <1>1, <1>8 DEF Return, Fresh, Calling
  <2> QED BY <1>4, <2>1, <2>2, <2>3
<1>9. ASSUME NEW c \in Callers, Plan(c) PROVE Coupled'
  <2>1. \A d \in Callers : d # c => route'[d] = route[d]
    BY <1>1, <1>9 DEF Plan, Begin
  <2>2. c \notin Runs /\ step' = step
    BY <1>9 DEF Plan
  <2> QED BY <1>4, <2>1, <2>2
<1>10. ASSUME NEW c \in Callers, Reply(c) PROVE Coupled'
  <2>1. \A d \in Callers : d # c => route'[d] = route[d]
    BY <1>1, <1>10 DEF Reply, Respond, Answer, Transient, Fail, Escape
  <2>2. \A q \in Runs : q # c => step'[q] = step[q]
    BY <1>1, <1>10 DEF Reply, Deliver
  <2>3. Calling(route[c])
    BY <1>10 DEF Reply, Respond, Answer, Transient, Fail, Escape, Calling
  <2>4. c \in Runs /\ Calling(route'[c]) => step'[c].pc = "routing"
    BY <1>10, <2>3 DEF Reply, Deliver, Coupled
  <2> QED BY <1>4, <2>1, <2>2, <2>4
<1>11. ASSUME NEW c \in Callers, Wake(c) PROVE Coupled'
  <2>1. \A d \in Callers : d # c => route'[d] = route[d]
    BY <1>1, <1>11 DEF Wake, Resend
  <2>2. Calling(route[c]) /\ step' = step
    BY <1>11 DEF Wake, Resend, Calling
  <2> QED BY <1>4, <2>1, <2>2 DEF Coupled
<1>12. ASSUME NEW c \in Callers, Cancel(c) PROVE Coupled'
  <2>1. \A d \in Callers : d # c => route'[d] = route[d]
    BY <1>1, <1>12 DEF Cancel, Abandon, routerVars
  <2>2. \A q \in Runs : q # c => step'[q] = step[q]
    BY <1>1, <1>12 DEF Cancel
  <2>3. ~Calling(route'[c])
    <3>1. CASE Calling(route[c])
      BY <1>1, <1>12, <3>1 DEF Cancel, Abandon, Fresh, Calling
    <3>2. CASE ~Calling(route[c])
      BY <1>12, <3>2 DEF Cancel, routerVars
    <3> QED BY <3>1, <3>2
  <2> QED BY <1>4, <2>1, <2>2, <2>3
<1>13. CASE Time
  BY <1>2, <1>13 DEF Time, Tick
<1>14. CASE UNCHANGED vars
  BY <1>2, <1>14 DEF vars
<1> QED BY <1>6, <1>7, <1>8, <1>9, <1>10, <1>11, <1>12, <1>13, <1>14 DEF Next
-----------------------------------------------------------------------------
LEMMA Initially == Init => IInv /\ Coupled
<1> SUFFICES ASSUME Init PROVE IInv /\ Coupled
  OBVIOUS
<1>1. "other" \in TaskTypes
  BY DEF TaskTypes
<1>2. Fresh("other") \in Route /\ Exhausts(Fresh("other"))
  BY <1>1, FreshRoute
<1>3. route = [c \in Callers |-> Fresh("other")] /\ cooling = [p \in Providers |-> 0]
  BY DEF Init, RouterInit
<1>4. RouterInv
  BY <1>2, <1>3 DEF RouterInv, RouterTypeOK
<1>5. step \in [Runs -> Step] /\ \A r \in Runs : StepInv(step[r])
  <2>1. StepInv(NoStep) /\ NoStep \in Step
    BY IdleStep DEF StepInv
  <2> QED BY <2>1 DEF Init
<1>6. Coupled
  BY <1>3 DEF Coupled, Calling, Fresh
<1> QED BY <1>4, <1>5, <1>6 DEF Init, IInv

LEMMA Invariance == Spec => [](IInv /\ Coupled)
<1>1. IInv /\ Coupled /\ [Next]_vars => (IInv /\ Coupled)'
  BY InvNext, CoupledNext
<1> QED BY <1>1, Initially, PTL DEF Spec

(* Routes, cooldowns and steps keep their types; no step is attempted more *)
(* often than the first time and its retries.                              *)
THEOREM TypeCorrect == Spec => []TypeOK
<1>1. IInv => TypeOK
  BY DEF IInv, RouterInv, StepInv, TypeOK
<1> QED BY <1>1, Invariance, PTL

(* A step has its effect at most once, whatever the tool's failures, the   *)
(* number of retries and the settings, and none unless it was let through. *)
THEOREM EffectsAtMostOnce == Spec => []EffectsOnce
<1>1. IInv => EffectsOnce
  BY DEF IInv, StepInv, Step, EffectsOnce
<1> QED BY <1>1, Invariance, PTL

(* Whichever routes overlap, one that fails has been refused by every      *)
(* configured provider or found it cooling down.                           *)
THEOREM FailedRoutesExhausted == Spec => []FailedMeansExhausted
<1>1. ASSUME RouterInv PROVE FailedMeansExhausted
  <2> SUFFICES ASSUME NEW c \in Callers, route[c].pc = "failed",
                      NEW p \in (Keys \cap Range(Order)) \cup
                                ({"ollama"} \cap Range(Preferred(route[c].task)))
               PROVE  p \in route[c].failed \cup route[c].skipped
    BY DEF FailedMeansExhausted
  <2> DEFINE task == route[c].task
  <2>1. task \in TaskTypes /\ Walked(route[c], Len(Considered(task)) + 1)
    BY <1>1 DEF RouterInv, RouterTypeOK, Route, Exhausts
  <2>2. Available(p) /\ Len(Considered(task)) \in Nat
    BY <2>1, ConsideredIsSeq DEF Available
  <2>3. ASSUME NEW i \in 1..Len(Considered(task)), Considered(task)[i] = p, Candidate(task, i)
        PROVE  p \in route[c].failed \cup route[c].skipped
    BY <2>1, <2>2, <2>3 DEF Walked
  <2>4. CASE p \in Range(Preferred(task))
    <3>1. PICK i \in 1..Len(Preferred(task)) : Preferred(task)[i] = p
      BY <2>1, <2>4, ConsideredIsSeq DEF Range
    <3>2. i \in 1..Len(Considered(task)) /\ Considered(task)[i] = p /\ ~ (i > Len(Preferred(task)))
      BY <2>1, <3>1, ConsideredIsSeq, RouterAssumption
    <3>3. Candidate(task, i)
      BY <2>2, <3>2 DEF Candidate
    <3> QED BY <2>3, <3>2, <3>3
  <2>5. CASE p \notin Range(Preferred(task))
    <3>1. p \in Range(Order) /\ p # "ollama"
      BY <2>5, RouterAssumption
    <3>2. PICK j \in 1..Len(Order) : Order[j] = p
      BY <3>1, RouterAssumption DEF Range
    <3> DEFINE i == Len(Preferred(task)) + j
    <3>3. i \in 1..Len(Considered(task)) /\ Considered(task)[i] = p
      BY <2>1, <3>2, ConsideredIsSeq, RouterAssumption
    <3> HIDE DEF i
    <3>4. Candidate(task, i)
      BY <2>2, <2>5, <3>1, <3>3 DEF Candidate
    <3> QED BY <2>3, <3>3, <3>4
  <2> QED BY <2>4, <2>5
<1>2. IInv => FailedMeansExhausted
  BY <1>1 DEF IInv
<1> QED BY <1>2, Invariance, PTL

(* Under every setting and for every tool, the verdict of the guard and    *)
(* the two explanations agree.                                             *)
LEMMA ExplanationsAgree ==
  ASSUME NEW env \in Settings, NEW tool, NEW explicit \in BOOLEAN, NEW approved \in BOOLEAN,
         NEW sound \in BOOLEAN
  PROVE  LET verdict == Verdict(env, tool, approved, explicit, sound)
             said == Requirement(env, tool, explicit)
             access == Access(env, tool)
         IN /\ said.blocked <=> verdict = "blocked"
            /\ (said.required /\ ~approved) <=> verdict = "approval_required"
            /\ said.required <=> said.triggers # {}
            /\ (said.action = "continue") <=> ~said.required /\ ~said.blocked
            /\ access.hint = "approval_cannot_override_profile_deny" <=> verdict = "blocked"
            /\ access.now => verdict \in {"executed", "security_failed"} \/ explicit
<1> DEFINE mode == Mode(env.profile, tool)
           off == mode # "deny" /\ SwitchedOff(env, tool)
           blocked == mode = "deny" \/ off
           Gate(e) == mode # "deny" /\ (mode = "approval" \/ e)
           Needs(a, e) == Gate(e) /\ ~a /\ ~off
           access == Access(env, tool)
           said == Requirement(env, tool, explicit)
<1>1. ASSUME NEW a \in BOOLEAN, NEW e \in BOOLEAN
      PROVE  /\ Policy(env, tool, a, e).mode = mode
             /\ Policy(env, tool, a, e).blocked = blocked
             /\ Policy(env, tool, a, e).required = Needs(a, e)
             /\ Policy(env, tool, a, e).now = (mode # "deny" /\ (Gate(e) => a) /\ ~off)
  BY DEF Policy, ProfilePolicy
<1>2. Verdict(env, tool, approved, explicit, sound) =
        IF blocked THEN "blocked" ELSE IF Needs(approved, explicit) THEN "approval_required"
        ELSE IF tool \in Validated /\ ~sound THEN "security_failed" ELSE "executed"
  BY <1>1 DEF Verdict
<1>3. /\ said.required = (Needs(FALSE, explicit) /\ ~blocked)
      /\ said.blocked = blocked
      /\ said.action = IF blocked THEN "replan"
                       ELSE IF Needs(FALSE, explicit) THEN "review" ELSE "continue"
      /\ said.triggers = {t \in {"profile", "explicit"} :
                            ~blocked /\ IF t = "profile" THEN mode = "approval" ELSE explicit}
  BY <1>1 DEF Requirement
<1>4. /\ access.hint = IF blocked THEN "approval_cannot_override_profile_deny"
                       ELSE IF Needs(FALSE, FALSE) THEN "approval_required"
                       ELSE "approval_not_required"
      /\ access.now = (mode # "deny" /\ ~Gate(FALSE) /\ ~off)
  BY <1>1 DEF Access, Hint
<1> HIDE DEF access, said
<1>5. said.required <=> said.triggers # {}
  <2>1. said.triggers # {} <=> ~blocked /\ (mode = "approval" \/ explicit)
    BY <1>3
  <2> HIDE DEF mode, off
  <2> QED BY <1>3, <2>1
<1>6. (said.action = "continue") <=> ~said.required /\ ~said.blocked
  BY <1>3
<1>7. access.hint = "approval_cannot_override_profile_deny" <=> blocked
  BY <1>4
<1> HIDE DEF mode, off
<1> DEFINE verdict == Verdict(env, tool, approved, explicit, sound)
<1>8. /\ verdict = "blocked" <=> blocked
      /\ verdict = "approval_required" <=> ~blocked /\ Needs(approved, explicit)
  BY <1>2
<1>9. /\ said.blocked <=> verdict = "blocked"
      /\ (said.required /\ ~approved) <=> verdict = "approval_required"
  BY <1>3, <1>8
<1>10. access.now => verdict \in {"executed", "security_failed"} \/ explicit
  BY <1>2, <1>4
<1> HIDE DEF verdict
<1>11. access.hint = "approval_cannot_override_profile_deny" <=> verdict = "blocked"
  BY <1>7, <1>8
<1> QED BY <1>5, <1>6, <1>9, <1>10, <1>11 DEF access, said, verdict

(* What operators are told of a step is what the guard did with it.        *)
THEOREM ExplanationsEnforced == Spec => []ExplainedAsEnforced
<1>1. ASSUME IInv, NEW r \in Runs, step[r].state # "none"
      PROVE  LET s == step[r]
                 said == Requirement(settings, s.tool, s.explicit)
                 tool == Access(settings, s.tool)
             IN /\ said.blocked <=> s.state = "blocked"
                /\ (said.required /\ ~s.approved) <=> s.state = "approval_required"
                /\ said.required <=> said.triggers # {}
                /\ (said.action = "continue") <=> ~said.required /\ ~said.blocked
                /\ tool.hint = "approval_cannot_override_profile_deny" <=> s.state = "blocked"
                /\ tool.now => s.state \in {"executed", "security_failed"} \/ s.explicit
  <2>1. settings \in Settings /\ step[r] \in Step
    BY <1>1, StepAssumption DEF IInv
  <2>2. step[r].state = Verdict(settings, step[r].tool, step[r].approved,
                                step[r].explicit, step[r].sound)
    BY <1>1 DEF IInv, StepInv
  <2>3. step[r].explicit \in BOOLEAN /\ step[r].approved \in BOOLEAN /\ step[r].sound \in BOOLEAN
    BY <2>1 DEF Step
  <2> QED BY <2>1, <2>2, <2>3, ExplanationsAgree
<1>2. IInv => ExplainedAsEnforced
  BY <1>1 DEF ExplainedAsEnforced
<1> QED BY <1>2, Invariance, PTL
=============================================================================
