-------------------------- MODULE RunLifecycleProofs --------------------------
(***************************************************************************)
(* RunRecovery implements RunLifecycle, for any number of calls and steps, *)
(* through the guarded endpoints and without writes of threads and         *)
(* processes in between; there each request is decided at most once; and   *)
(* what fails by policy is what the policy refuses.                        *)
(*                                                                         *)
(* RunRecoveryProofs has the order of the plan (RunInv) and the counting   *)
(* of approvals (ApprovalInv).  What a pause or a success that lands       *)
(* promises has been true since the actor decided to write it (GateInv);   *)
(* so has the request that a decision takes (AskInv).                      *)
(***************************************************************************)
EXTENDS RunRecoveryProofs

Decidables == {"pending_approval", "approved", "rejected"}

(* Write w gives step f status st, if it finds a record to update.         *)
Says(w, f, st) ==
  \/ "insert" \in DOMAIN w /\ w.insert.step = f /\ w.insert.status = st
  \/ "update" \in DOMAIN w /\ w.update = f /\ w.status = st

(* Only a gated step of p is decided, only one that x counts succeeds.     *)
Earned(st, f, p, x) ==
  f \in 1..Len(p) => /\ st \in Decidables => p[f] \in Gating
                     /\ st = "success" => x[f] > 0

(* Whoever has still to write w, at pc, may do so.                         *)
Honest(w, pc, p, x) ==
  /\ \A f \in StepIds, st \in Seen : Says(w, f, st) => Earned(st, f, p, x)
  /\ "decide" \in DOMAIN w /\ w.decide.decision = "approved" => pc = "deciding"

Sound(d, p, x) ==
  /\ d.pc = "executing" => p[d.index] # "denied" /\ (d.todo = <<>> => x[d.index] > 0)
  /\ \A k \in DOMAIN d.todo : Honest(d.todo[k], d.pc, p, x)

Judged(e, p) == \A f \in 1..Len(p) : e[f] \in Decidables => p[f] \in Gating

GateInv ==
  /\ Judged(Told, plan)
  /\ \A a \in Actors : Sound(actor[a], plan, executed)
-----------------------------------------------------------------------------
(* Counts only grow.                                                       *)
Grown(x, y) == \A f \in 1..MaxSteps : x[f] > 0 => y[f] > 0

LEMMA CountsGrow ==
  ASSUME NEW x \in [1..MaxSteps -> Nat], NEW i,
         NEW y, y = x \/ y = [x EXCEPT ![i] = x[i] + 1]
  PROVE  Grown(x, y) /\ (i \in 1..MaxSteps /\ y # x => y[i] > 0)
<1>1. CASE y = x
  BY <1>1 DEF Grown
<1>2. CASE y # x
  <2>1. y = [x EXCEPT ![i] = x[i] + 1]
    BY <1>2
  <2>2. \A f \in 1..MaxSteps : x[f] \in Nat /\ y[f] = IF f = i THEN x[f] + 1 ELSE x[f]
    BY <2>1
  <2> QED BY <2>2 DEF Grown
<1> QED BY <1>1, <1>2

LEMMA StaysHonest ==
  ASSUME NEW w, NEW pc, NEW p, Len(p) \in Nat, Len(p) <= MaxSteps, NEW x, NEW y, Grown(x, y),
         Honest(w, pc, p, x)
  PROVE  Honest(w, pc, p, y)
<1>1. \A f \in 1..Len(p) : f \in 1..MaxSteps
  BY BoundsAssumption
<1> QED BY <1>1 DEF Honest, Earned, Grown

(* A change of the run's status says nothing of a step.                    *)
LEMMA RunHonest ==
  ASSUME NEW r \in RunStatuses, NEW pc, NEW p, NEW x
  PROVE  Honest([run |-> r], pc, p, x)
BY WriteForms DEF Honest, Says

LEMMA FailureHonest ==
  ASSUME NEW i, NEW st \in {"success", "failed"}, NEW source, NEW w, Marks(w, i, st, source),
         NEW pc, NEW p, NEW x, st = "success" => x[i] > 0
  PROVE  Honest(w, pc, p, x)
<1>1. CASE \E r \in Record : w = [insert |-> r] /\ r.step = i /\ r.status = st
  BY <1>1 DEF Honest, Says, Earned, Decidables
<1>2. CASE \E e \in Errors : w = [update |-> i, status |-> st, error |-> e]
  BY <1>2 DEF Honest, Says, Earned, Decidables
<1> QED BY <1>1, <1>2 DEF Marks

(* A batch that begins with w.                                             *)
LEMMA JoinHonest ==
  ASSUME NEW v \in Seq(Write), NEW w \in Seq(Write), NEW pc, NEW p, NEW x,
         \A k \in DOMAIN v : Honest(v[k], pc, p, x), \A k \in DOMAIN w : Honest(w[k], pc, p, x)
  PROVE  \A k \in DOMAIN (v \o w) : Honest((v \o w)[k], pc, p, x)
<1>1. /\ v \o w \in Seq(Write) /\ Len(v \o w) = Len(v) + Len(w) /\ Len(v) \in Nat /\ Len(w) \in Nat
      /\ DOMAIN v = 1..Len(v) /\ DOMAIN w = 1..Len(w) /\ DOMAIN (v \o w) = 1..Len(v \o w)
  OBVIOUS
<1>2. ASSUME NEW k \in DOMAIN (v \o w) PROVE Honest((v \o w)[k], pc, p, x)
  <2>1. CASE k <= Len(v)
    <3>1. (v \o w)[k] = v[k] /\ k \in DOMAIN v
      BY <1>1, <2>1
    <3> QED BY <3>1
  <2>2. CASE k > Len(v)
    <3>1. (v \o w)[k] = w[k - Len(v)] /\ k - Len(v) \in DOMAIN w
      BY <1>1, <2>2
    <3> QED BY <3>1
  <2> QED BY <1>1, <2>1, <2>2
<1> QED BY <1>2
-----------------------------------------------------------------------------
(* An actor with nothing to do, and one that moves while others rest.      *)
LEMMA IdleSound == \A p, x : Sound(Idle, p, x)
BY IdleTyped DEF Sound

LEMMA SoundMoves ==
  ASSUME TypeInv, RunInv, NEW a \in Actors, \A b \in Actors \ {a} : actor[b].pc = "idle",
         NEW m, actor' = [actor EXCEPT ![a] = m], Sound(m, plan', executed'), Judged(Told', plan')
  PROVE  GateInv'
<1>1. actor'[a] = m /\ \A b \in Actors \ {a} : actor'[b] = Idle
  BY Parts DEF RunInv
<1>2. \A b \in Actors : Sound(actor'[b], plan', executed')
  BY <1>1, IdleSound
<1> QED BY <1>2 DEF GateInv

(* Driver d arrives at step i of p.                                        *)
LEMMA GoesSound ==
  ASSUME TypeInv, NEW a \in Actors, NEW d \in Doer, NEW p \in Seq(Gates), Drives(d, p),
         Len(p) <= MaxSteps, NEW i \in 1..(Len(p) + 1), NEW w \in Seq(Write), Goes(a, d, i, p, w),
         \A k \in DOMAIN w, pc \in {"executing", "ending"} : Honest(w[k], pc, p, executed)
  PROVE  \E m : actor' = [actor EXCEPT ![a] = m] /\ Sound(m, p, executed')
<1>0. /\ Len(p) \in Nat /\ executed \in [1..MaxSteps -> Nat] /\ MaxSteps \in Nat \ {0}
      /\ i <= Len(p) <=> ~(i > Len(p))
  BY Parts
<1>1. executed' = executed \/ executed' = [executed EXCEPT ![i] = executed[i] + 1]
  BY DEF Goes
<1>2. Grown(executed, executed')
  BY <1>0, <1>1, CountsGrow
<1>3. \A k \in DOMAIN w, pc \in {"executing", "ending"} : Honest(w[k], pc, p, executed')
  BY <1>0, <1>2, StaysHonest
<1>4. ASSUME NEW v \in Seq(Write),
             actor' = [actor EXCEPT ![a] = [d EXCEPT !.pc = "ending", !.index = i, !.todo = w \o v]],
             \A k \in DOMAIN v : Honest(v[k], "ending", p, executed')
      PROVE  \E m : actor' = [actor EXCEPT ![a] = m] /\ Sound(m, p, executed')
  <2> DEFINE m == [d EXCEPT !.pc = "ending", !.index = i, !.todo = w \o v]
  <2>1. m.pc = "ending" /\ m.todo = w \o v /\ actor' = [actor EXCEPT ![a] = m]
    BY <1>4 DEF Doer
  <2> HIDE DEF m
  <2>2. \A k \in DOMAIN (w \o v) : Honest((w \o v)[k], "ending", p, executed')
    BY <1>3, <1>4, JoinHonest
  <2>3. Sound(m, p, executed')
    BY <2>1, <2>2 DEF Sound
  <2> QED BY <2>1, <2>3
<1>5. CASE i > Len(p)
  <2> DEFINE r == IF p = <<>> THEN "failed" ELSE "completed"
  <2>1. r \in RunStatuses
    BY DEF RunStatuses
  <2>2. actor' = [actor EXCEPT ![a] = [d EXCEPT !.pc = "ending", !.index = i,
                                                !.todo = w \o << [run |-> r] >>]]
    BY <1>0, <1>5 DEF Goes
  <2> HIDE DEF r
  <2>3. << [run |-> r] >> \in Seq(Write) /\ Honest([run |-> r], "ending", p, executed')
    BY <2>1, RunWritten, RunHonest
  <2>4. \A k \in DOMAIN << [run |-> r] >> : Honest(<< [run |-> r] >>[k], "ending", p, executed')
    BY <2>3
  <2> QED BY <1>4, <2>2, <2>3, <2>4
<1>6. CASE i <= Len(p) /\ Pauses(d, i, p[i])
  <2> DEFINE v == Pause(d, i)
  <2>1. actor' = [actor EXCEPT ![a] = [d EXCEPT !.pc = "ending", !.index = i, !.todo = w \o v]]
    BY <1>0, <1>6 DEF Goes
  <2>2. i \in 1..Len(p) /\ p[i] \in Gating
    BY <1>0, <1>6 DEF Pauses, Gating
  <2> HIDE DEF v
  <2>3. PICK r \in Record, x \in Decision :
          /\ v = << [insert |-> r], [decide |-> x], [run |-> "awaiting_approval"] >>
          /\ r.step = i /\ r.status = "pending_approval" /\ v \in Seq(Write)
          /\ x.decision = "requested"
    BY <2>2, PauseMade DEF v
  <2>4. Honest([insert |-> r], "ending", p, executed')
    BY <2>2, <2>3 DEF Honest, Says, Earned
  <2>5. Honest([decide |-> x], "ending", p, executed')
    BY <2>3 DEF Honest, Says
  <2>6. Honest([run |-> "awaiting_approval"], "ending", p, executed')
    BY RunHonest DEF RunStatuses
  <2>7. ASSUME NEW k \in DOMAIN v PROVE Honest(v[k], "ending", p, executed')
    <3>1. k = 1 \/ k = 2 \/ k = 3
      BY <2>3
    <3> QED BY <2>3, <2>4, <2>5, <2>6, <3>1
  <2> QED BY <1>4, <2>1, <2>3, <2>7
<1>7. ASSUME NEW error \in {"policy", "arguments"}, i <= Len(p),
             actor' = [actor EXCEPT ![a] = [d EXCEPT !.pc = "ending", !.index = i,
                                                     !.todo = w \o Refusal(d, i, error)]]
      PROVE  \E m : actor' = [actor EXCEPT ![a] = m] /\ Sound(m, p, executed')
  <2> DEFINE v == Refusal(d, i, error)
  <2>1. actor' = [actor EXCEPT ![a] = [d EXCEPT !.pc = "ending", !.index = i, !.todo = w \o v]]
    BY <1>7
  <2> HIDE DEF v
  <2>2. PICK y \in Write : /\ v = << y, [run |-> "failed"] >> /\ v \in Seq(Write)
                           /\ Marks(y, i, "failed", Source(d, i))
    BY <1>0, <1>7, RefusalMade DEF v
  <2>3. Honest(y, "ending", p, executed')
    BY <2>2, FailureHonest
  <2>4. Honest([run |-> "failed"], "ending", p, executed')
    BY RunHonest DEF RunStatuses
  <2>5. ASSUME NEW k \in DOMAIN v PROVE Honest(v[k], "ending", p, executed')
    <3>1. k = 1 \/ k = 2
      BY <2>2
    <3> QED BY <2>2, <2>3, <2>4, <3>1
  <2> QED BY <1>4, <2>1, <2>2, <2>5
<1>8. ASSUME i <= Len(p), ~Refused(d, p[i]),
             actor' = [actor EXCEPT ![a] = [d EXCEPT !.pc = "executing", !.index = i, !.todo = w]],
             executed' = IF w = <<>> THEN [executed EXCEPT ![i] = executed[i] + 1] ELSE executed
      PROVE  \E m : actor' = [actor EXCEPT ![a] = m] /\ Sound(m, p, executed')
  <2> DEFINE m == [d EXCEPT !.pc = "executing", !.index = i, !.todo = w]
  <2>1. actor' = [actor EXCEPT ![a] = m] /\ (w = <<>> => executed' = [executed EXCEPT ![i] = executed[i] + 1])
    BY <1>8
  <2>2. m.pc = "executing" /\ m.index = i /\ m.todo = w
    BY DEF Doer
  <2> HIDE DEF m
  <2>3. p[i] # "denied"
    BY <1>8 DEF Refused
  <2>4. w = <<>> => executed'[i] > 0
    BY <1>0, <1>8, <2>1
  <2>5. Sound(m, p, executed')
    BY <1>3, <2>2, <2>3, <2>4 DEF Sound
  <2> QED BY <2>1, <2>5
<1> QED BY <1>5, <1>6, <1>7, <1>8 DEF Goes
-----------------------------------------------------------------------------
(* The actions.                                                            *)

(* Most steps write no record.                                             *)
LEMMA SameJudged ==
  ASSUME GateInv, UNCHANGED <<plan, records>>
  PROVE  Judged(Told', plan')
BY SameTold DEF GateInv

LEMMA EndsSound ==
  ASSUME TypeInv, RunInv, GateInv, NEW a \in Actors, actor[a].pc # "idle",
         NEW v \in Seq(Write), Ends(a, v), UNCHANGED <<plan, records>>,
         \A k \in DOMAIN v : Honest(v[k], "ending", plan, executed)
  PROVE  GateInv'
<1> DEFINE m == [actor[a] EXCEPT !.pc = "ending", !.todo = v]
<1>1. actor' = [actor EXCEPT ![a] = m] /\ executed' = executed
  BY Parts DEF Ends
<1>2. m.pc = "ending" /\ m.todo = v
  BY Parts DEF Doer
<1> HIDE DEF m
<1>3. Sound(m, plan', executed')
  BY <1>1, <1>2 DEF Sound
<1> QED BY <1>1, <1>3, OthersRest, SameJudged, SoundMoves

LEMMA PlanFailsSound ==
  ASSUME TypeInv, RunInv, GateInv, PlanFails
  PROVE  GateInv'
<1> DEFINE r == Unnumbered(0, "failed", "tool")
           v == << [insert |-> r], [run |-> "failed"] >>
<1>1. /\ Agent \in Actors /\ actor[Agent].pc = "planning" /\ Ends(Agent, v)
      /\ UNCHANGED <<plan, records>>
  BY DEF PlanFails, Actors
<1>2. r \in Record /\ r.step = 0 /\ r.status = "failed"
  BY UnnumberedMade, BoundsAssumption DEF StepIds, Errors
<1> HIDE DEF r
<1>3. Honest([insert |-> r], "ending", plan, executed)
  BY <1>2 DEF Honest, Says, Earned, Decidables
<1>4. Honest([run |-> "failed"], "ending", plan, executed)
  BY RunHonest DEF RunStatuses
<1>5. v \in Seq(Write)
  <2>1. [insert |-> r] \in Write /\ [run |-> "failed"] \in Write
    BY <1>2, WriteForms DEF RunStatuses
  <2> QED BY <2>1
<1>6. ASSUME NEW k \in DOMAIN v PROVE Honest(v[k], "ending", plan, executed)
  <2>1. k = 1 \/ k = 2
    OBVIOUS
  <2> QED BY <1>3, <1>4, <2>1
<1> HIDE DEF v
<1> QED BY <1>1, <1>5, <1>6, EndsSound

LEMMA PlanSound ==
  ASSUME TypeInv, RunInv, GateInv, Plan
  PROVE  GateInv'
<1> DEFINE d == [actor[Agent] EXCEPT !.start = 1]
<1>1. PICK n \in 0..MaxSteps : plan' \in [1..n -> Gates]
  BY DEF Plan
<1>2. plan' \in Seq(Gates) /\ Len(plan') <= MaxSteps /\ Len(plan') \in Nat
  BY <1>1, BoundsAssumption
<1>3. /\ Agent \in Actors /\ Goes(Agent, d, 1, plan', <<>>) /\ actor[Agent].todo = <<>>
      /\ UNCHANGED <<records, history, status, interrupted>>
      /\ actor[Agent] \in Doer /\ actor[Agent].kind = "agent" /\ actor[Agent].pc = "planning"
  BY Parts DEF Plan, Fits, Actors, MayRun
<1>4. d \in Doer /\ d.kind = "agent"
  <2>1. 1 \in Places
    BY BoundsAssumption DEF Places
  <2> QED BY <1>3, <2>1 DEF Doer
<1>5. \A s \in StepIds : Told[s] = "none"
  BY <1>3, Paused DEF Planning
<1>6. Judged(Told', plan')
  <2>1. 1..Len(plan') \subseteq StepIds /\ Told' = Told
    BY <1>2, <1>3, SameTold, BoundsAssumption DEF StepIds
  <2> QED BY <1>5, <2>1 DEF Judged, Decidables
<1> HIDE DEF d
<1>7. Drives(d, plan') /\ <<>> \in Seq(Write) /\ 1 \in 1..(Len(plan') + 1)
  BY <1>2, <1>4 DEF Drives, Driving
<1>8. PICK p, w : p = plan' /\ w = <<>>
  OBVIOUS
<1>9. \A k \in DOMAIN w, pc \in {"executing", "ending"} : Honest(w[k], pc, p, executed)
  BY <1>8
<1>10. /\ Goes(Agent, d, 1, p, w) /\ p \in Seq(Gates) /\ Len(p) <= MaxSteps /\ Drives(d, p)
       /\ w \in Seq(Write) /\ 1 \in 1..(Len(p) + 1)
  BY <1>2, <1>3, <1>7, <1>8
<1>11. Agent \in Actors /\ d \in Doer
  BY <1>3, <1>4
<1>12. \E m : actor' = [actor EXCEPT ![Agent] = m] /\ Sound(m, p, executed')
  BY ONLY TypeInv, <1>9, <1>10, <1>11, GoesSound, SMTT(60)
<1>13. PICK m : actor' = [actor EXCEPT ![Agent] = m] /\ Sound(m, p, executed')
  BY ONLY <1>12
<1> QED BY <1>3, <1>6, <1>8, <1>13, OthersRest, SoundMoves

(* A call that may decide, or resume, finds everybody at rest.             *)
LEMMA CallsAlone ==
  ASSUME TypeInv, RunInv, ~Racing, NEW c \in Actors, actor[c].pc = "idle", MayRun(c),
         status = "failed" \/ \E s \in StepIds : Told[s] = "pending_approval"
  PROVE  \A a \in Actors : actor[a].pc = "idle"
BY CallsWait DEF Going

LEMMA DecidesSound ==
  ASSUME TypeInv, RunInv, GateInv, ~Racing, NEW c \in Calls, NEW kind, NEW s \in StepIds,
         Decidable(s), NEW now \in {"approved", "rejected"}, NEW last \in RunStatuses,
         Decides(c, kind, s, now, last)
  PROVE  GateInv'
<1> DEFINE d == Driver(kind, s, FALSE, <<>>)
           u == [update |-> s, status |-> now, error |-> "none"]
           g == [decide |-> [step |-> s, decision |-> now]]
           w == <<u, g, [run |-> last]>>
           pc == IF now = "approved" THEN "deciding" ELSE "ending"
           m == [d EXCEPT !.pc = pc, !.todo = w]
<1>1. /\ c \in Actors /\ actor[c].pc = "idle" /\ MayRun(c) /\ actor' = [actor EXCEPT ![c] = m]
      /\ UNCHANGED <<plan, records, history, status, executed, interrupted>>
  BY DEF Decides, Actors
<1>2. Told[s] = "pending_approval"
  BY ToldIs DEF Decidable
<1>3. \A a \in Actors : actor[a].pc = "idle"
  BY <1>1, <1>2, CallsAlone
<1>4. m.pc = pc /\ m.todo = w
  BY DEF Driver, Idle
<1>5. Honest(u, pc, plan, executed)
  <2>1. s \in 1..Len(plan) => plan[s] \in Gating
    BY <1>2 DEF GateInv, Judged, Decidables
  <2> QED BY <2>1 DEF Honest, Says, Earned
<1>6. Honest(g, pc, plan, executed)
  BY DEF Honest, Says
<1>7. Honest([run |-> last], pc, plan, executed)
  BY RunHonest
<1>8. ASSUME NEW k \in DOMAIN w PROVE Honest(w[k], pc, plan, executed)
  <2>1. k = 1 \/ k = 2 \/ k = 3
    OBVIOUS
  <2> QED BY <1>5, <1>6, <1>7, <2>1
<1>9. pc # "executing"
  OBVIOUS
<1> HIDE DEF m, w, pc
<1>10. Sound(m, plan', executed')
  BY <1>1, <1>4, <1>8, <1>9 DEF Sound
<1> QED BY <1>1, <1>3, <1>10, SameJudged, SoundMoves

LEMMA ResumesSound ==
  ASSUME TypeInv, RunInv, GateInv, NEW a \in Actors, \A b \in Actors \ {a} : actor[b].pc = "idle",
         NEW d \in Doer, Drives(d, plan), NEW s \in 1..Len(plan),
         NEW w \in {<<>>, << [run |-> "resuming_failed_run"] >>},
         Goes(a, d, s, plan, w), UNCHANGED <<plan, records>>
  PROVE  GateInv'
<1>1. plan \in Seq(Gates) /\ Len(plan) <= MaxSteps /\ s \in 1..(Len(plan) + 1)
  BY Parts
<1>2. w \in Seq(Write)
  <2>1. "resuming_failed_run" \in RunStatuses
    BY DEF RunStatuses
  <2>2. << [run |-> "resuming_failed_run"] >> \in Seq(Write)
    BY <2>1, RunWritten
  <2>3. <<>> \in Seq(Write)
    OBVIOUS
  <2> QED BY <2>2, <2>3
<1>3. \A k \in DOMAIN w, pc \in {"executing", "ending"} : Honest(w[k], pc, plan, executed)
  <2>1. \A pc : Honest([run |-> "resuming_failed_run"], pc, plan, executed)
    BY RunHonest DEF RunStatuses
  <2> QED BY <2>1
<1>4. PICK m : actor' = [actor EXCEPT ![a] = m] /\ Sound(m, plan, executed')
  BY <1>1, <1>2, <1>3, GoesSound
<1> QED BY <1>4, SameJudged, SoundMoves

LEMMA ContinueSound ==
  ASSUME TypeInv, RunInv, GateInv, NEW c \in Calls, Continue(c)
  PROVE  GateInv'
<1>1. /\ c \in Actors /\ UNCHANGED <<plan, records, history, status, interrupted>>
      /\ actor[c].pc = "deciding" /\ actor[c].todo = <<>>
  BY DEF Continue, Actors, MayRun
<1>2. \A b \in Actors \ {c} : actor[b].pc = "idle"
  BY <1>1, OthersRest
<1>3. PICK s : s = actor[c].start
  OBVIOUS
<1>4. s \in 1..Len(plan) /\ s \in Places
  BY <1>1, <1>3, Paused, Parts DEF Places
<1>5. ASSUME NEW kind \in Driving, NEW numbers \in Seq(Nat \ {0}),
             kind \in {"continue", "resume"} => Len(numbers) = Len(plan),
             NEW w \in {<<>>, << [run |-> "resuming_failed_run"] >>},
             Goes(c, Driver(kind, s, TRUE, numbers), s, plan, w)
      PROVE  GateInv'
  <2> DEFINE d == Driver(kind, s, TRUE, numbers)
  <2>1. d \in Doer /\ d.kind = kind /\ d.numbers = numbers
    BY <1>4, IdleTyped DEF Driver, Doer, Kinds, Driving
  <2> HIDE DEF d
  <2>2. Drives(d, plan) /\ Goes(c, d, s, plan, w)
    BY <1>5, <2>1 DEF Drives, d
  <2> QED BY <1>1, <1>2, <1>4, <2>1, <2>2, ResumesSound
<1>6. CASE ContinuePlan(c, s)
  <2>1. \/ Goes(c, Driver("continue", s, TRUE, ContinueNumbers(s)), s, plan, <<>>)
        \/ Goes(c, Driver("legacy", s, TRUE, <<>>), s, plan, <<>>)
    BY <1>4, <1>6 DEF ContinuePlan
  <2>2. <<>> \in Seq(Nat \ {0})
    OBVIOUS
  <2>3. CASE Goes(c, Driver("continue", s, TRUE, ContinueNumbers(s)), s, plan, <<>>)
    BY <1>5, <2>3, NumbersTyped DEF Driving
  <2>4. CASE Goes(c, Driver("legacy", s, TRUE, <<>>), s, plan, <<>>)
    BY <1>5, <2>2, <2>4 DEF Driving
  <2> QED BY <2>1, <2>3, <2>4
<1>7. CASE ContinueResumption(c, s)
  <2>1. CASE actor' = [actor EXCEPT ![c] = Idle] /\ executed' = executed
    BY <1>1, <1>2, <2>1, IdleSound, SameJudged, SoundMoves
  <2>2. CASE Goes(c, Driver("resume", s, TRUE, ResumeNumbers(s, TRUE)), s, plan,
                  << [run |-> "resuming_failed_run"] >>)
    <3>1. ResumeNumbers(s, TRUE) \in Seq(Nat \ {0}) /\ Len(ResumeNumbers(s, TRUE)) = Len(plan)
      BY NumbersTyped
    <3> QED BY <1>5, <2>2, <3>1 DEF Driving
  <2> QED BY <1>7, <2>1, <2>2 DEF ContinueResumption
<1> QED BY <1>3, <1>6, <1>7 DEF Continue

LEMMA ResumeSound ==
  ASSUME TypeInv, RunInv, GateInv, ~Racing, NEW c \in Calls, Resume(c)
  PROVE  GateInv'
<1>1. PICK s : s = Min(FailedSteps)
  OBVIOUS
<1> DEFINE d == Driver("resume", s, FALSE, ResumeNumbers(s, FALSE))
<1>2. /\ c \in Actors /\ UNCHANGED <<plan, records, history, status, interrupted>>
      /\ Goes(c, d, s, plan, << [run |-> "resuming_failed_run"] >>) /\ FailedSteps # {}
      /\ status = "failed" /\ actor[c].pc = "idle" /\ MayRun(c)
  BY <1>1 DEF Resume, Actors, Resumable
<1>3. s \in 1..Len(plan) /\ s \in Places
  <2>1. FailedSteps \in SUBSET Nat
    BY Parts DEF FailedSteps
  <2>2. s \in FailedSteps
    BY <1>1, <1>2, <2>1, LeastNumber
  <2> QED BY <2>2, Parts DEF FailedSteps, Places
<1>4. \A a \in Actors : actor[a].pc = "idle"
  BY <1>2, CallsAlone
<1>5. ResumeNumbers(s, FALSE) \in Seq(Nat \ {0}) /\ Len(ResumeNumbers(s, FALSE)) = Len(plan)
  BY NumbersTyped
<1>6. d \in Doer /\ d.kind = "resume" /\ d.numbers = ResumeNumbers(s, FALSE)
  BY <1>3, <1>5, IdleTyped DEF Driver, Doer, Kinds
<1> HIDE DEF d
<1>7. Drives(d, plan)
  BY <1>5, <1>6 DEF Drives, Driving
<1> QED BY <1>2, <1>3, <1>4, <1>6, <1>7, ResumesSound

LEMMA ResultSound ==
  ASSUME TypeInv, RunInv, GateInv, NEW a \in Actors, NEW tries \in 1..MaxTries,
         NEW st \in {"success", "failed"}, Result(a, tries, st)
  PROVE  GateInv'
<1> DEFINE d == actor[a]
           w == Stored(d, d.index, tries, st)
           v == << [run |-> "failed"] >>
<1>1. /\ UNCHANGED <<plan, records, history, status, interrupted>>
      /\ IF st = "success" THEN Goes(a, d, d.index + 1, plan, w) ELSE Ends(a, w \o v)
      /\ d \in Doer /\ Drives(d, plan) /\ d.pc = "executing" /\ d.todo = <<>>
      /\ d.index \in 1..Len(plan)
  BY Parts DEF Result, Fits, MayRun
<1>2. \A b \in Actors \ {a} : actor[b].pc = "idle"
  BY <1>1, OthersRest
<1>3. plan \in Seq(Gates) /\ Len(plan) <= MaxSteps /\ Len(plan) \in Nat
  BY Parts
<1>4. executed[d.index] > 0
  BY <1>1 DEF GateInv, Sound
<1> HIDE DEF d
<1>5. /\ Len(w) = tries /\ w \in Seq(Write)
      /\ \A k \in 1..tries : Marks(w[k], d.index, IF k < tries THEN "failed" ELSE st, Source(d, d.index))
  BY <1>1, <1>3, StoredMade
<1> HIDE DEF w
<1>6. ASSUME NEW k \in DOMAIN w, NEW pc PROVE Honest(w[k], pc, plan, executed)
  <2>1. k \in 1..tries
    BY <1>5
  <2> DEFINE x == IF k < tries THEN "failed" ELSE st
  <2>2. x \in {"success", "failed"} /\ Marks(w[k], d.index, x, Source(d, d.index))
    BY <1>5, <2>1
  <2> HIDE DEF x
  <2> QED BY <1>4, <2>2, FailureHonest
<1>7. CASE st = "success"
  <2>1. d.index + 1 \in 1..(Len(plan) + 1) /\ Goes(a, d, d.index + 1, plan, w)
    BY <1>1, <1>3, <1>7
  <2>2. PICK m : actor' = [actor EXCEPT ![a] = m] /\ Sound(m, plan, executed')
    BY <1>1, <1>3, <1>5, <1>6, <2>1, GoesSound
  <2> QED BY <1>1, <1>2, <2>2, SameJudged, SoundMoves
<1>8. CASE st # "success"
  <2>1. "failed" \in RunStatuses
    BY DEF RunStatuses
  <2>2. v \in Seq(Write) /\ Honest([run |-> "failed"], "ending", plan, executed)
    BY <2>1, RunWritten, RunHonest
  <2>3. \A k \in DOMAIN v : Honest(v[k], "ending", plan, executed)
    BY <2>2
  <2> HIDE DEF v
  <2>4. \A k \in DOMAIN (w \o v) : Honest((w \o v)[k], "ending", plan, executed)
    BY <1>5, <1>6, <2>2, <2>3, JoinHonest
  <2>5. w \o v \in Seq(Write) /\ Ends(a, w \o v) /\ actor[a].pc # "idle"
    BY <1>1, <1>5, <1>8, <2>2, JoinIs DEF d
  <2> QED BY <1>1, <2>4, <2>5, EndsSound
<1> QED BY <1>7, <1>8

(* A write that lands makes true what its actor was sure of.               *)
LEMMA WriteJudged ==
  ASSUME TypeInv, RunInv, GateInv, NEW a \in Actors, WriteLands(a)
  PROVE  Judged(Told', plan')
<1> DEFINE w == actor[a].todo[1]
<1>1. /\ plan' = plan /\ actor[a].todo \in Seq(Write) /\ actor[a].todo # <<>>
      /\ Len(plan) \in Nat /\ Len(plan) <= MaxSteps
  BY Parts DEF WriteLands, Doer
<1>2. w \in Write /\ Head(actor[a].todo) = w /\ 1 \in DOMAIN actor[a].todo
  BY <1>1, TailIs
<1>3. Honest(w, actor[a].pc, plan, executed) /\ Judged(Told, plan)
  BY <1>2 DEF GateInv, Sound
<1>4. \/ /\ "insert" \in DOMAIN w /\ records' = Append(records, w.insert)
      \/ /\ "update" \in DOMAIN w
         /\ records' = IF RecordsOf(w.update) = {} THEN records
                       ELSE [records EXCEPT ![Max(RecordsOf(w.update))].status = w.status,
                                            ![Max(RecordsOf(w.update))].error = w.error]
      \/ records' = records
  BY <1>2 DEF WriteLands
<1> HIDE DEF w
<1>5. ASSUME NEW f \in StepIds, NEW st \in Seen, Says(w, f, st), Told' = [Told EXCEPT ![f] = st]
      PROVE  Judged(Told', plan)
  <2>1. Earned(st, f, plan, executed)
    BY <1>3, <1>5 DEF Honest
  <2>2. Told \in [StepIds -> Seen] /\ 1..Len(plan) \subseteq StepIds
    BY ToldIs
  <2> QED BY <1>3, <1>5, <2>1, <2>2 DEF Judged, Earned
<1>6. CASE "insert" \in DOMAIN w /\ records' = Append(records, w.insert)
  <2>1. w.insert \in Record
    BY <1>2, <1>6, WriteKinds
  <2>2. w.insert.step \in StepIds /\ w.insert.status \in Seen
    BY <2>1 DEF Record, Seen
  <2> QED BY <1>1, <1>5, <1>6, <2>1, <2>2, InsertTells DEF Says
<1>7. CASE /\ "update" \in DOMAIN w
           /\ records' = IF RecordsOf(w.update) = {} THEN records
                         ELSE [records EXCEPT ![Max(RecordsOf(w.update))].status = w.status,
                                              ![Max(RecordsOf(w.update))].error = w.error]
  <2>1. w.update \in StepIds /\ w.status \in Seen
    BY <1>2, <1>7, WriteKinds DEF Seen
  <2>2. CASE RecordsOf(w.update) = {}
    BY <1>1, <1>3, <1>7, <2>2, SameTold
  <2>3. CASE RecordsOf(w.update) # {}
    BY <1>1, <1>5, <1>7, <2>1, <2>3, UpdateTells DEF Says
  <2> QED BY <2>2, <2>3
<1>8. CASE records' = records
  BY <1>1, <1>3, <1>8, SameTold
<1> QED BY <1>1, <1>4, <1>6, <1>7, <1>8

LEMMA WriteSound ==
  ASSUME TypeInv, RunInv, GateInv, NEW a \in Actors, WriteLands(a)
  PROVE  GateInv'
<1> DEFINE d == actor[a]
           m == After(d)
<1>1. /\ actor' = [actor EXCEPT ![a] = m] /\ plan' = plan /\ d \in Doer /\ d.todo # <<>>
      /\ d.todo \in Seq(Write)
  BY WriteTells DEF Doer
<1>2. d.pc # "idle"
  BY <1>1, IdleTyped DEF RunInv
<1>3. /\ executed \in [1..MaxSteps -> Nat] /\ Len(plan) \in Nat /\ Len(plan) <= MaxSteps
      /\ d.pc = "executing" => d.index \in 1..Len(plan) /\ d.index \in 1..MaxSteps
  BY Parts DEF Fits
<1>4. executed' = IF Tail(d.todo) = <<>> /\ d.pc = "executing"
                  THEN [executed EXCEPT ![d.index] = executed[d.index] + 1] ELSE executed
  BY DEF WriteLands
<1>5. Grown(executed, executed')
  BY <1>3, <1>4, CountsGrow
<1>6. Sound(d, plan, executed)
  BY DEF GateInv
<1> HIDE DEF d
<1>7. CASE m = Idle
  BY <1>1, <1>2, <1>7, IdleSound, OthersRest, WriteJudged, SoundMoves DEF d
<1>8. CASE m # Idle
  <2>1. m.pc = d.pc /\ m.index = d.index /\ m.todo = Tail(d.todo)
    BY <1>1, <1>8, AfterIs
  <2>2. d.pc = "executing" /\ m.todo = <<>> => executed'[d.index] > 0
    <3> SUFFICES ASSUME d.pc = "executing", m.todo = <<>> PROVE executed'[d.index] > 0
      OBVIOUS
    <3>1. executed[d.index] \in Nat /\ d.index \in 1..MaxSteps
      BY <1>3
    <3>2. executed' = [executed EXCEPT ![d.index] = executed[d.index] + 1]
      BY <1>4, <2>1
    <3>3. executed'[d.index] = executed[d.index] + 1
      BY <1>3, <3>1, <3>2
    <3> QED BY <3>1, <3>3
  <2>3. ASSUME NEW k \in DOMAIN m.todo PROVE Honest(m.todo[k], m.pc, plan, executed')
    <3>1. m.todo[k] = d.todo[k + 1] /\ k + 1 \in DOMAIN d.todo
      BY <1>1, <2>1, TailIs
    <3>2. Honest(d.todo[k + 1], d.pc, plan, executed)
      BY <1>6, <3>1 DEF Sound
    <3> QED BY <1>3, <1>5, <2>1, <3>1, <3>2, StaysHonest
  <2> HIDE DEF m
  <2>4. Sound(m, plan', executed')
    BY <1>1, <1>6, <2>1, <2>2, <2>3 DEF Sound
  <2> QED BY <1>1, <1>2, <2>4, OthersRest, WriteJudged, SoundMoves DEF d
<1> QED BY <1>7, <1>8

LEMMA LostSound ==
  ASSUME TypeInv, RunInv, GateInv, NEW A, A \subseteq Actors, Lost(A)
  PROVE  GateInv'
<1>1. /\ \A b \in Actors : actor'[b] = IF b \in A THEN Idle ELSE actor[b]
      /\ UNCHANGED <<plan, records, executed>>
  BY DEF Lost
<1>2. \A b \in Actors : Sound(actor'[b], plan', executed')
  BY <1>1, IdleSound DEF GateInv
<1> QED BY <1>1, <1>2, SameJudged DEF GateInv

LEMMA GateInitial == Init => GateInv
<1> SUFFICES ASSUME Init PROVE GateInv
  OBVIOUS
<1> DEFINE m == [Idle EXCEPT !.kind = "agent", !.pc = "planning"]
<1>1. m.pc = "planning" /\ m.todo = <<>>
  BY IdleTyped DEF Doer
<1>2. actor = [a \in Actors |-> IF a = Agent THEN m ELSE Idle] /\ Len(plan) = 0
  BY DEF Init
<1> HIDE DEF m
<1>3. Sound(m, plan, executed)
  BY <1>1 DEF Sound
<1> QED BY <1>2, <1>3, IdleSound DEF GateInv, Judged

LEMMA GateInductive ==
  ASSUME ~Unguarded, ~Racing, TypeInv, RunInv, GateInv, [Next]_vars
  PROVE  GateInv'
<1>1. CASE vars' = vars
  BY <1>1, SameTold DEF vars, GateInv
<1>2. ASSUME NEW c \in Calls, NEW s \in StepIds, Approve(c, s) \/ Reject(c, s) PROVE GateInv'
  <2>1. {"resuming_after_approval", "rejected"} \subseteq RunStatuses
    BY DEF RunStatuses
  <2> QED BY <1>2, <2>1, DecidesSound DEF Approve, Reject
<1>3. ASSUME NEW c \in Calls, Operator(c) PROVE GateInv'
  BY <1>2, <1>3, ResumeSound DEF Operator, ApproveUnguarded, RejectUnguarded
<1>4. Calls \subseteq Actors /\ {Agent} \subseteq Actors
  BY DEF Actors
<1>5. CASE Next
  BY <1>3, <1>4, <1>5, PlanSound, PlanFailsSound, ContinueSound, ResultSound, WriteSound, LostSound
     DEF Next, Results
<1> QED BY <1>1, <1>5
-----------------------------------------------------------------------------
(* The run as its operators see it.                                        *)

LEMMA StageIs ==
  /\ status \in Going => Stage = "working"
  /\ status = "awaiting_approval" => Stage = "waiting"
  /\ status \notin Going \cup {"awaiting_approval"} => Stage = status
BY DEF Stage, Going

LEMMA FinishedIs ==
  ASSUME TypeInv
  PROVE  /\ Finished = {s \in 1..Len(plan) : Told[s] = "success"}
         /\ \A f \in 0..(Len(plan) + 1) :
              Reached(Told, Len(plan), f) /\ (f \in 1..Len(plan) => Told[f] # "success")
                => Finished = 1..(f - 1)
<1>1. Finished = {s \in 1..Len(plan) : Told[s] = "success"}
  BY ToldIs DEF Finished
<1>2. ASSUME NEW f \in 0..(Len(plan) + 1), Reached(Told, Len(plan), f),
             f \in 1..Len(plan) => Told[f] # "success"
      PROVE  Finished = 1..(f - 1)
  <2>1. Len(plan) \in Nat
    BY ToldIs
  <2>2. ASSUME NEW s \in 1..Len(plan) PROVE Told[s] = "success" <=> s \in 1..(f - 1)
    <3>1. CASE s < f
      BY <1>2, <2>1, <3>1 DEF Reached
    <3>2. CASE s = f
      BY <1>2, <2>1, <3>2
    <3>3. CASE s > f
      BY <1>2, <2>1, <3>3 DEF Reached
    <3> QED BY <2>1, <3>1, <3>2, <3>3
  <2>3. 1..(f - 1) \subseteq 1..Len(plan)
    BY <2>1
  <2> QED BY <1>1, <2>2, <2>3
<1> QED BY <1>1, <1>2

(* What a run does when nothing lands, or nothing that counts.             *)
Unmoved == UNCHANGED <<plan, Finished, Stage, Grants>>

LEMMA SameFinished ==
  ASSUME TypeInv, UNCHANGED <<plan, records>>
  PROVE  Finished' = Finished
BY DEF Finished, Effective, Latest, RecordsOf

LEMMA SameGrants ==
  ASSUME history' = history
  PROVE  Grants' = Grants
BY DEF Grants, Approvals

LEMMA RestsUnmoved ==
  ASSUME TypeInv, UNCHANGED <<plan, records, history, status>>
  PROVE  Unmoved
<1>1. Stage' = Stage
  BY DEF Stage
<1> QED BY <1>1, SameFinished, SameGrants DEF Unmoved

(* The moves of the promise.                                               *)
LEMMA MoveForms ==
  /\ Stage = "working" /\ plan # <<>> /\ Finished = 1..Len(plan) /\ Stage' = "completed"
     /\ UNCHANGED <<plan, Finished, Grants>> => Promise!Moves
  /\ Stage = "working" /\ Stage' = "failed" /\ UNCHANGED <<plan, Finished, Grants>> => Promise!Moves
  /\ \A s \in 1..Len(plan) : Finished = 1..(s - 1) =>
       /\ Stage = "working" /\ executed[s] > 0 /\ Finished' = 1..s
          /\ UNCHANGED <<plan, Stage, Grants>> => Promise!Moves
       /\ Stage = "working" /\ plan[s] \in Gating /\ Stage' = "waiting"
          /\ UNCHANGED <<plan, Finished, Grants>> => Promise!Moves
       /\ Stage \in {"working", "waiting"} /\ plan[s] \in Gating
          /\ Grants' = [Grants EXCEPT ![s] = Grants[s] + 1]
          /\ UNCHANGED <<plan, Finished, Stage>> => Promise!Moves
       /\ Stage = "waiting" /\ executed[s] < Grants[s] /\ Stage' = "working"
          /\ UNCHANGED <<plan, Finished, Grants>> => Promise!Moves
       /\ Stage \in {"working", "waiting"} /\ plan[s] \in Gating /\ Stage' = "rejected"
          /\ UNCHANGED <<plan, Finished, Grants>> => Promise!Moves
       /\ Stage = "failed" /\ Stage' = "working"
          /\ UNCHANGED <<plan, Finished, Grants>> => Promise!Moves
BY DEF Promise!Moves, Promise!Complete, Promise!Fail, Promise!Succeed, Promise!Wait, Promise!Approve,
       Promise!Proceed, Promise!Reject, Promise!Resume, Promise!IsNext, Gating

(* Who holds an approval has one that is not used.                         *)
LEMMA CreditCounts ==
  ASSUME ApprovalInv, NEW a \in Actors, NEW s \in 1..MaxSteps, Costs(s, plan), Credit(actor[a], s)
  PROVE  executed[s] < Grants[s]
<1>1. /\ executed[s] \in Nat /\ Covered(s) /\ Sequence(history) /\ Grants[s] = Approvals(s)
  BY DEF ApprovalInv, Data, Grants
<1>2. a \in Holders(s) /\ Holders(s) \in SUBSET Actors
  BY DEF Holders
<1>3. IsFiniteSet(Holders(s)) /\ Cardinality(Holders(s)) \in Nat
  BY <1>2, HoldersFinite
<1>4. Cardinality(Holders(s)) # 0
  BY <1>2, <1>3, FS_EmptySet
<1>5. Approvals(s) \in Nat
  BY <1>1, ApprovalsCounted
<1>6. executed[s] + Cardinality(Holders(s)) <= Approvals(s)
  BY <1>1 DEF Covered
<1> QED BY <1>1, <1>3, <1>4, <1>5, <1>6

(* What lands in the history.                                              *)
LEMMA WriteGrants ==
  ASSUME TypeInv, NEW a \in Actors, WriteLands(a)
  PROVE  LET w == actor[a].todo[1]
         IN /\ "decide" \notin DOMAIN w => Grants' = Grants
            /\ "decide" \in DOMAIN w /\ w.decide.decision # "approved" => Grants' = Grants
            /\ \A s \in 1..MaxSteps : w = [decide |-> Grant(s)] =>
                 Grants' = [Grants EXCEPT ![s] = Grants[s] + 1]
<1> DEFINE w == actor[a].todo[1]
<1>1. actor[a].todo \in Seq(Write) /\ actor[a].todo # <<>>
  BY Parts DEF WriteLands, Doer
<1>2. w \in Write /\ Head(actor[a].todo) = w
  BY <1>1, TailIs
<1>3. \/ "insert" \in DOMAIN w /\ history' = history
      \/ "update" \in DOMAIN w /\ history' = history
      \/ "decide" \in DOMAIN w /\ history' = Append(history, w.decide)
      \/ "run" \in DOMAIN w /\ history' = history
  BY <1>2 DEF WriteLands
<1>4. Sequence(history)
  BY Parts DEF Sequence
<1> HIDE DEF w
<1>5. "decide" \notin DOMAIN w => Grants' = Grants
  BY <1>3, SameGrants
<1>6. ASSUME "decide" \in DOMAIN w
      PROVE  \A s : Approvals(s)' = IF w.decide = Grant(s) THEN Approvals(s) + 1 ELSE Approvals(s)
  <2>1. history' = Append(history, w.decide)
    BY <1>2, <1>3, <1>6, KindsApart
  <2> QED BY <1>4, <2>1, ApprovalsGrow
<1>7. "decide" \in DOMAIN w /\ w.decide.decision # "approved" => Grants' = Grants
  <2> SUFFICES ASSUME "decide" \in DOMAIN w, w.decide.decision # "approved" PROVE Grants' = Grants
    OBVIOUS
  <2>1. \A s : w.decide # Grant(s)
    BY DEF Grant
  <2> QED BY <1>6, <2>1 DEF Grants
<1>8. ASSUME NEW s \in 1..MaxSteps, w = [decide |-> Grant(s)]
      PROVE  Grants' = [Grants EXCEPT ![s] = Grants[s] + 1]
  <2>1. "decide" \in DOMAIN w /\ w.decide = Grant(s)
    BY <1>8
  <2>2. \A t \in 1..MaxSteps : Approvals(t)' = IF t = s THEN Approvals(t) + 1 ELSE Approvals(t)
    <3>1. \A t : Grant(s) = Grant(t) <=> s = t
      BY DEF Grant
    <3> QED BY <1>6, <2>1, <3>1
  <2> QED BY <2>2 DEF Grants
<1> QED BY <1>5, <1>7, <1>8 DEF w

(* A write that lands moves the run as promised, if it moves it.           *)
LEMMA WriteMoves ==
  ASSUME TypeInv, RunInv, ApprovalInv, GateInv, NEW a \in Actors, WriteLands(a)
  PROVE  Promise!Moves \/ Unmoved
<1> DEFINE d == actor[a]
           v == d.todo
           w == v[1]
           e == Told
           n == Len(plan)
           Good == Promise!Moves \/ Unmoved
<1>1. /\ Effect(w, e, status, Told', status') /\ plan' = plan
      /\ d \in Doer /\ v # <<>> /\ v \in Seq(Write) /\ w \in Write /\ Len(v) \in Nat \ {0}
      /\ v = [j \in 1..Len(v) |-> v[j]]
  <2>1. /\ Effect(w, e, status, Told', status') /\ plan' = plan /\ d \in Doer /\ v # <<>>
    BY WriteTells
  <2>2. v \in Seq(Write)
    BY <2>1 DEF Doer
  <2> QED BY <2>1, <2>2, TailIs, BatchIs
<1>2. d.pc # "idle"
  BY <1>1, IdleTyped DEF RunInv
<1>3. Doing(e, n, status, d) /\ Outside(e, n)
  BY <1>2 DEF RunInv
<1>4. /\ e \in [StepIds -> Seen] /\ n \in Nat /\ n <= MaxSteps /\ 1..n \subseteq StepIds
      /\ 0 \in StepIds /\ plan \in Seq(Gates)
  BY ToldIs, Parts DEF StepIds
<1>5. /\ Finished = {s \in 1..n : e[s] = "success"}
      /\ Finished' = {s \in 1..n : Told'[s] = "success"}
      /\ \A f \in 0..(n + 1) : Reached(e, n, f) /\ (f \in 1..n => e[f] # "success")
           => Finished = 1..(f - 1)
  <2>1. Finished' = {s \in 1..n : Told'[s] = "success"}
    BY <1>1, <1>4 DEF Finished, Told
  <2> QED BY <2>1, FinishedIs
<1>6. Honest(w, d.pc, plan, executed) /\ Judged(e, plan)
  BY <1>1 DEF GateInv, Sound
<1>7. /\ "decide" \notin DOMAIN w => Grants' = Grants
      /\ "decide" \in DOMAIN w /\ w.decide.decision # "approved" => Grants' = Grants
      /\ \A s \in 1..MaxSteps : w = [decide |-> Grant(s)] =>
           Grants' = [Grants EXCEPT ![s] = Grants[s] + 1]
  BY WriteGrants
<1>8. Stage = (CASE status \in Going -> "working" [] status = "awaiting_approval" -> "waiting"
                 [] OTHER -> status)
      /\ Stage' = (CASE status' \in Going -> "working" [] status' = "awaiting_approval" -> "waiting"
                     [] OTHER -> status')
  BY DEF Stage, Going
<1>9. plan # <<>> <=> n # 0
  BY <1>4
<1>10. Orderly(a, d, plan) /\ \A s \in 1..n : s \in 1..MaxSteps
  BY <1>4, BoundsAssumption DEF ApprovalInv
<1>11. d.pc = "deciding" /\ Len(v) = 1 /\ d.start \in 1..n /\ plan[d.start] \in Gating =>
         executed[d.start] < Grants[d.start]
  <2> SUFFICES ASSUME d.pc = "deciding", Len(v) = 1, d.start \in 1..n, plan[d.start] \in Gating
               PROVE  executed[d.start] < Grants[d.start]
    OBVIOUS
  <2>1. v = <<v[1]>>
    BY <1>1
  <2>2. Credit(d, d.start)
    BY <2>1 DEF Credit
  <2>3. Costs(d.start, plan) /\ d.start \in 1..MaxSteps
    BY <1>10 DEF Costs
  <2> QED BY <2>2, <2>3, CreditCounts
<1> HIDE DEF d, v, w, e, n, Good
(* Writes of one kind.                                                     *)
<1>20. ASSUME NEW x, w = Run(x)
       PROVE  Told' = e /\ status' = x /\ Finished' = Finished /\ Grants' = Grants
  <2>1. Told' = e /\ status' = x /\ "decide" \notin DOMAIN w
    BY <1>1, <1>20 DEF Effect, Run
  <2> QED BY <1>5, <1>7, <2>1
<1>21. ASSUME NEW f \in StepIds, NEW st \in Seen \ {"none"}, Writes(w, e, f, st)
       PROVE  /\ Told' = [e EXCEPT ![f] = st] /\ status' = status /\ Grants' = Grants
              /\ Stage' = Stage /\ Says(w, f, st)
  <2>1. Told' = [e EXCEPT ![f] = st] /\ status' = status
    BY <1>1, <1>21 DEF Effect
  <2>2. "decide" \notin DOMAIN w
    BY <1>1, <1>21, KindsApart DEF Writes
  <2> QED BY <1>7, <1>8, <1>21, <2>1, <2>2 DEF Writes, Says
<1>22. ASSUME NEW f \in StepIds, NEW st \in Seen \ {"none", "success"}, Writes(w, e, f, st),
              f \in 1..n => e[f] # "success"
       PROVE  Good
  <2>1. /\ Told' = [e EXCEPT ![f] = st] /\ status' = status /\ Grants' = Grants /\ Stage' = Stage
    BY <1>21, <1>22
  <2>2. \A s \in 1..n : Told'[s] = "success" <=> e[s] = "success"
    BY <1>4, <1>22, <2>1
  <2>3. Finished' = Finished
    BY <1>5, <2>2
  <2> QED BY <1>1, <2>1, <2>3 DEF Unmoved, Good
<1>23. ASSUME "decide" \in DOMAIN w, w.decide.decision # "approved"
       PROVE  Good
  <2>1. Told' = e /\ status' = status /\ Grants' = Grants
    BY <1>1, <1>7, <1>23 DEF Effect
  <2>2. Finished' = Finished /\ Stage' = Stage
    BY <1>5, <1>8, <2>1
  <2> QED BY <1>1, <2>1, <2>2 DEF Unmoved, Good
<1>24. ASSUME status \in Going, w = Run("failed") PROVE Good
  BY <1>1, <1>8, <1>20, <1>24, MoveForms DEF Good, Going
<1>25. d.pc # "deciding" /\ "decide" \in DOMAIN w => Good
  BY <1>6, <1>23 DEF Honest
(* What is under way.                                                      *)
<1>30. CASE Planning(e, n, status, d)
  BY <1>1, <1>30 DEF Planning, v
<1>31. ASSUME NEW f \in 0..(n + 1), Reached(e, n, f), status \in Going, Arrived(e, n, d, f, v)
       PROVE  Good
  <2>0. f \in 1..n => f \in StepIds
    BY <1>4
  <2>1. CASE n > 0 /\ f = n + 1 /\ Len(v) = 1 /\ v[1] = Run("completed")
    <3>1. Finished = 1..n
      BY <1>4, <1>5, <1>31, <2>1
    <3>2. Stage = "working" /\ Stage' = "completed" /\ UNCHANGED <<plan, Finished, Grants>>
      BY <1>1, <1>8, <1>20, <1>31, <2>1 DEF w, Going
    <3> QED BY <1>4, <1>9, <2>1, <3>1, <3>2, MoveForms DEF Good, n
  <2>2. CASE v[1] = Run("failed")
    BY <1>24, <1>31, <2>2 DEF w
  <2>3. CASE f \in 1..n /\ e[f] \in Tried /\ Writes(v[1], e, f, "failed")
    BY <1>22, <2>0, <2>3 DEF w, Tried, Seen
  <2>4. CASE f \in 1..n /\ e[f] \in Tried /\ Writes(v[1], e, f, "pending_approval")
    BY <1>22, <2>0, <2>4 DEF w, Tried, Seen
  <2>5. CASE d.pc = "ending" /\ "decide" \in DOMAIN v[1]
    BY <1>25, <2>5 DEF w
  <2>6. CASE f \in 1..n /\ e[f] = "pending_approval" /\ v[1] = Run("awaiting_approval")
    <3>1. Finished = 1..(f - 1) /\ plan[f] \in Gating
      BY <1>5, <1>6, <1>31, <2>6 DEF Judged, Decidables, n
    <3>2. Stage = "working" /\ Stage' = "waiting" /\ UNCHANGED <<plan, Finished, Grants>>
      BY <1>1, <1>8, <1>20, <1>31, <2>6 DEF w, Going
    <3> QED BY <2>6, <3>1, <3>2, MoveForms DEF Good, n
  <2>7. v # <<>>
    BY <1>1
  <2> QED BY <1>31, <2>1, <2>2, <2>3, <2>4, <2>5, <2>6, <2>7 DEF Arrived
<1>32. ASSUME status \in Going, NoPlan(e, n, d, v) PROVE Good
  <2>1. CASE v[1] = Run("failed")
    BY <1>24, <1>32, <2>1 DEF w
  <2>2. CASE n = 0 /\ Writes(v[1], e, 0, "failed")
    BY <1>4, <1>22, <2>2 DEF w, Seen
  <2> QED BY <1>32, <2>1, <2>2 DEF NoPlan
<1>33. ASSUME NEW f \in 0..(n + 1), Reached(e, n, f), status \in Going,
              NEW k \in 1..Len(v), Storing(e, n, d, f, v, k)
       PROVE  Good
  <2>1. f \in 1..n /\ f \in StepIds /\ e[f] \in Tried
    BY <1>4, <1>33 DEF Storing
  <2>2. CASE Writes(w, e, f, "failed")
    BY <1>22, <2>1, <2>2 DEF Tried, Seen
  <2>3. CASE Writes(w, e, f, "success")
    <3>1. Finished = 1..(f - 1)
      BY <1>5, <1>33, <2>1 DEF Tried
    <3>2. /\ Told' = [e EXCEPT ![f] = "success"] /\ Grants' = Grants /\ Stage' = Stage
          /\ Says(w, f, "success")
      BY <1>21, <2>1, <2>3 DEF Seen
    <3>3. \A s \in 1..n : Told'[s] = "success" <=> s \in 1..f
      <4>1. \A s \in 1..n : e[s] = "success" <=> s \in 1..(f - 1)
        BY <1>5, <3>1
      <4>2. \A s \in 1..n : Told'[s] = IF s = f THEN "success" ELSE e[s]
        BY <1>4, <3>2
      <4>3. \A s \in 1..n : s \in 1..f <=> (s = f \/ s \in 1..(f - 1))
        BY <1>4, <2>1
      <4> QED BY <4>1, <4>2, <4>3
    <3>4. Finished' = 1..f
      <4>1. 1..f \subseteq 1..n
        BY <1>4, <2>1
      <4> QED BY <1>5, <3>3, <4>1
    <3>5. executed[f] > 0
      BY <1>6, <2>1, <3>2 DEF Honest, Earned, Seen, n
    <3>6. Stage = "working"
      BY <1>33, StageIs
    <3> QED BY <1>1, <2>1, <3>1, <3>2, <3>4, <3>5, <3>6, MoveForms DEF Good, n
  <2>4. Writes(w, e, f, "failed") \/ Writes(w, e, f, "success")
    <3>1. CASE k = 1
      BY <1>33, <3>1 DEF Storing, w
    <3>2. CASE k # 1
      <4>1. 1 \in 1..k /\ 1 < k
        BY <1>1, <3>2
      <4> QED BY <1>33, <4>1 DEF Storing, w
    <3> QED BY <3>1, <3>2
  <2> QED BY <2>2, <2>3, <2>4
<1>34. ASSUME NEW f \in 0..(n + 1), Reached(e, n, f), Deciding(e, n, status, d, f, v)
       PROVE  Good
  <2>1. f \in 1..n /\ f \in StepIds /\ v # <<>>
    BY <1>1, <1>4, <1>34 DEF Deciding
  <2>2. ASSUME e[f] \in Decidables
        PROVE  Finished = 1..(f - 1) /\ plan[f] \in Gating
    BY <1>5, <1>6, <1>34, <2>1, <2>2 DEF Judged, Decidables, n
  <2>3. ASSUME e[f] = "pending_approval", NEW now \in {"approved", "rejected"}, Writes(w, e, f, now)
        PROVE  Good
    BY <1>22, <2>1, <2>3 DEF Seen
  <2>4. CASE /\ d.pc = "ending" /\ status \in Going \cup {"awaiting_approval"}
             /\ Decided(e, f, v, "rejected", "rejected")
    <3>1. CASE e[f] = "pending_approval" /\ Writes(v[1], e, f, "rejected")
      BY <2>3, <3>1 DEF w
    <3>2. CASE "decide" \in DOMAIN v[1]
      BY <1>25, <2>4, <3>2 DEF w
    <3>3. CASE e[f] = "rejected" /\ v[1] = Run("rejected")
      <4>1. Finished = 1..(f - 1) /\ plan[f] \in Gating
        BY <2>2, <3>3 DEF Decidables
      <4>2. Stage \in {"working", "waiting"} /\ Stage' = "rejected"
            /\ UNCHANGED <<plan, Finished, Grants>>
        BY <1>1, <1>8, <1>20, <2>4, <3>3 DEF w, Going
      <4> QED BY <2>1, <4>1, <4>2, MoveForms DEF Good, n
    <3> QED BY <2>4, <3>1, <3>2, <3>3 DEF Decided
  <2>5. CASE /\ d.pc = "deciding" /\ d.start = f /\ status \in Going \cup {"awaiting_approval"}
             /\ Decided(e, f, v, "approved", "resuming_after_approval")
    <3>1. CASE e[f] = "pending_approval" /\ Writes(v[1], e, f, "approved")
      BY <2>3, <3>1 DEF w
    <3>2. CASE Len(v) = 2 /\ e[f] = "approved" /\ "decide" \in DOMAIN v[1]
      <4>1. Finished = 1..(f - 1) /\ plan[f] \in Gating
        BY <2>2, <3>2 DEF Decidables
      <4>2. w = [decide |-> Grant(f)]
        <5>1. PICK u, x : v \in {<<u, [decide |-> Grant(f)], x>>, <<[decide |-> Grant(f)], x>>,
                                 <<x>>, <<>>}
          <6>1. d.pc = "deciding" /\ d.start = f
            BY <2>5
          <6>2. \E u, x : d.todo \in {<<u, [decide |-> Grant(d.start)], x>>,
                                      <<[decide |-> Grant(d.start)], x>>, <<x>>, <<>>}
            BY <1>10, <6>1 DEF Orderly
          <6> QED BY <6>1, <6>2 DEF v
        <5> DEFINE g == [decide |-> Grant(f)]
        <5> HIDE DEF g
        <5>2. v \in {<<u, g, x>>, <<g, x>>, <<x>>, <<>>}
          BY <5>1 DEF g
        <5>3. v = <<g, x>>
          <6>1. Len(<<u, g, x>>) = 3 /\ Len(<<g, x>>) = 2 /\ Len(<<x>>) = 1 /\ Len(<<>>) = 0
            OBVIOUS
          <6>2. Len(v) = 2
            BY <3>2
          <6> QED BY <5>2, <6>1, <6>2
        <5> QED BY <5>3 DEF w, g
      <4>3. Grants' = [Grants EXCEPT ![f] = Grants[f] + 1]
        BY <1>7, <1>10, <2>1, <4>2
      <4>4. Told' = e /\ status' = status
        BY <1>1, <3>2 DEF Effect, w
      <4>5. Finished' = Finished /\ Stage' = Stage /\ Stage \in {"working", "waiting"}
        BY <1>5, <1>8, <2>5, <4>4 DEF Going
      <4> QED BY <1>1, <2>1, <4>1, <4>3, <4>5, MoveForms DEF Good, n
    <3>3. CASE Len(v) = 1 /\ e[f] = "approved" /\ v[1] = Run("resuming_after_approval")
      <4>1. Finished = 1..(f - 1) /\ plan[f] \in Gating
        BY <2>2, <3>3 DEF Decidables
      <4>2. Stage' = "working" /\ UNCHANGED <<plan, Finished, Grants>>
        BY <1>1, <1>8, <1>20, <3>3 DEF w, Going
      <4>3. CASE status \in Going
        <5>1. Stage' = Stage
          BY StageIs, <4>2, <4>3
        <5> QED BY <4>2, <5>1 DEF Good, Unmoved
      <4>4. CASE status = "awaiting_approval"
        <5>1. Stage = "waiting"
          BY <1>8, <4>4 DEF Going
        <5>2. executed[f] < Grants[f]
          BY <1>11, <2>1, <2>5, <3>3, <4>1
        <5> QED BY <2>1, <4>1, <4>2, <5>1, <5>2, MoveForms DEF Good, n
      <4> QED BY <2>5, <4>3, <4>4
    <3> QED BY <2>5, <3>1, <3>2, <3>3 DEF Decided
  <2> QED BY <1>34, <2>1, <2>4, <2>5 DEF Deciding
<1>35. ASSUME NEW f \in 0..(n + 1), Reached(e, n, f), Resuming(e, n, status, d, f, v)
       PROVE  Good
  <2>1. /\ f \in 1..n /\ e[f] # "success" /\ w = Run("resuming_failed_run")
        /\ status \in {"failed", "resuming_after_approval"}
    BY <1>35 DEF Resuming, w
  <2>2. Finished = 1..(f - 1)
    BY <1>5, <1>35, <2>1
  <2>3. Stage' = "working" /\ UNCHANGED <<plan, Finished, Grants>>
    BY <1>1, <1>8, <1>20, <2>1 DEF Going
  <2>4. CASE status = "failed"
    <3>1. Stage = "failed"
      BY <1>8, <2>4 DEF Going
    <3> QED BY <2>1, <2>2, <2>3, <3>1, MoveForms DEF Good, n
  <2>5. CASE status = "resuming_after_approval"
    <3>1. Stage' = Stage
      BY <1>8, <2>3, <2>5 DEF Going
    <3> QED BY <2>3, <3>1 DEF Good, Unmoved
  <2> QED BY <2>1, <2>4, <2>5
<1> QED BY <1>3, <1>30, <1>31, <1>32, <1>33, <1>34, <1>35 DEF Doing, Working, v, Good
-----------------------------------------------------------------------------
(* A step begins.                                                          *)

(* Whoever executes a step is at the next one, and may.                    *)
Executes(a) ==
  LET i == actor[a].index
  IN actor[a].pc = "executing" /\ actor[a].todo = <<>> =>
       /\ Stage = "working" /\ i \in 1..Len(plan) /\ i \in 1..MaxSteps /\ Finished = 1..(i - 1)
       /\ plan[i] = "open" \/ (plan[i] \in Gating /\ executed[i] <= Grants[i])

LEMMA ExecutesNext ==
  TypeInv /\ RunInv /\ ApprovalInv /\ GateInv => \A a \in Actors : Executes(a)
<1> SUFFICES ASSUME TypeInv, RunInv, ApprovalInv, GateInv, NEW a \in Actors,
                    actor[a].pc = "executing", actor[a].todo = <<>>
             PROVE  Executes(a)
  BY DEF Executes
<1>1. PICK i : i = actor[a].index
  OBVIOUS
<1>2. /\ status \in Going /\ i \in 1..Len(plan) /\ Told[i] \in Tried /\ Reached(Told, Len(plan), i)
  BY <1>1, Paused
<1>3. Len(plan) \in Nat /\ Len(plan) <= MaxSteps /\ plan \in Seq(Gates)
  BY Parts
<1>4. Stage = "working" /\ i \in 1..MaxSteps
  BY <1>2, <1>3, StageIs, BoundsAssumption
<1>5. Finished = 1..(i - 1)
  <2>1. i \in 0..(Len(plan) + 1) /\ Told[i] # "success"
    BY <1>2, <1>3 DEF Tried
  <2> QED BY <1>2, <2>1, FinishedIs
<1>6. plan[i] = "open" \/ plan[i] \in Gating
  <2>1. plan[i] # "denied"
    BY <1>1 DEF GateInv, Sound
  <2>2. plan[i] \in Gates
    BY <1>2, <1>3
  <2> QED BY <2>1, <2>2, GatesAssumption DEF Gating
<1>7. ASSUME plan[i] \in Gating PROVE executed[i] <= Grants[i]
  <2>1. Costs(i, plan)
    BY <1>7 DEF Costs
  <2>2. Covered(i) /\ executed[i] \in Nat /\ Sequence(history)
    BY <1>4, <2>1 DEF ApprovalInv, Data
  <2>3. Cardinality(Holders(i)) \in Nat /\ Approvals(i) \in Nat /\ Grants[i] = Approvals(i)
    BY <1>4, <2>2, HoldersFinite, ApprovalsCounted DEF Holders, Grants
  <2> QED BY <2>2, <2>3 DEF Covered
<1> QED BY <1>1, <1>2, <1>4, <1>5, <1>6, <1>7 DEF Executes

LEMMA ExecutesThen ==
  (TypeInv /\ RunInv /\ ApprovalInv /\ GateInv)' => (\A a \in Actors : Executes(a))'
BY ExecutesNext, PTL

(* i begins with actor a.                                                  *)
Begins(a, i) ==
  /\ actor'[a].pc = "executing" /\ actor'[a].todo = <<>> /\ actor'[a].index = i
  /\ executed' = [executed EXCEPT ![i] = executed[i] + 1] /\ Grants' = Grants

LEMMA GoesBegins ==
  ASSUME TypeInv, NEW a \in Actors, NEW d, DOMAIN d = Fields, NEW i \in Nat, NEW p, Len(p) \in Nat,
         NEW w, Goes(a, d, i, p, w), executed' # executed, history' = history
  PROVE  w = <<>> /\ Begins(a, i)
<1>1. /\ w = <<>> /\ executed' = [executed EXCEPT ![i] = executed[i] + 1]
      /\ actor' = [actor EXCEPT ![a] = [d EXCEPT !.pc = "executing", !.index = i, !.todo = w]]
  BY DEF Goes
<1> QED BY <1>1, Parts, SameGrants DEF Begins, Fields
LEMMA StepBegins ==
  ASSUME TypeInv, RunInv, GateInv, ~Unguarded, Next, executed' # executed
  PROVE  \E a \in Actors : \E i : Begins(a, i)
<1>0. /\ executed \in [1..MaxSteps -> Nat] /\ Calls \subseteq Actors /\ Agent \in Actors
      /\ Len(plan) \in Nat /\ MaxSteps \in Nat /\ DOMAIN actor = Actors
      /\ \A d \in Doer : DOMAIN d = Fields /\ d.index \in Nat /\ d.start \in Nat
  BY Parts DEF Actors, Doer, Fields, Places
<1>1. ASSUME NEW c \in Calls, Continue(c) PROVE \E i : Begins(c, i)
  <2>1. PICK s : s = actor[c].start
    OBVIOUS
  <2>2. /\ c \in Actors /\ s \in Nat /\ history' = history
        /\ ContinuePlan(c, s) \/ ContinueResumption(c, s)
    BY <1>0, <1>1, <2>1, Parts DEF Continue
  <2>3. ASSUME NEW kind, NEW granted \in BOOLEAN, NEW numbers, NEW w,
               Goes(c, Driver(kind, s, granted, numbers), s, plan, w)
        PROVE  \E i : Begins(c, i)
    BY <1>0, <2>2, <2>3, Drivers, GoesBegins
  <2>4. CASE ContinuePlan(c, s)
    <3>1. CASE Goes(c, Driver("continue", s, TRUE, ContinueNumbers(s)), s, plan, <<>>)
      BY <2>3, <3>1
    <3>2. CASE Goes(c, Driver("legacy", s, TRUE, <<>>), s, plan, <<>>)
      BY <2>3, <3>2
    <3> QED BY <1>0, <2>4, <3>1, <3>2 DEF ContinuePlan, Ends
  <2>5. CASE ContinueResumption(c, s)
    <3>1. CASE Goes(c, Driver("resume", s, TRUE, ResumeNumbers(s, TRUE)), s, plan,
                    << [run |-> "resuming_failed_run"] >>)
      BY <2>3, <3>1
    <3> QED BY <1>0, <2>5, <3>1 DEF ContinueResumption
  <2> QED BY <2>2, <2>4, <2>5
<1>2. ASSUME NEW c \in Calls, Operator(c) PROVE FALSE
  <2>1. CASE Resume(c)
    <3>1. PICK d, i : Goes(c, d, i, plan, << [run |-> "resuming_failed_run"] >>)
      BY <2>1 DEF Resume
    <3> QED BY <1>0, <3>1 DEF Goes
  <2> QED BY <1>0, <1>2, <2>1 DEF Operator, Approve, Reject, ApproveUnguarded, RejectUnguarded, Decides
<1>3. ASSUME NEW a \in Actors, NEW tries \in 1..MaxTries, NEW st \in {"success", "failed"},
             Result(a, tries, st)
      PROVE  FALSE
  <2> DEFINE d == actor[a]
             w == Stored(d, d.index, tries, st)
  <2>1. Goes(a, d, d.index + 1, plan, w)
    BY <1>0, <1>3 DEF Result, Ends
  <2>2. /\ d \in Doer /\ Drives(d, plan) /\ d.index \in 1..Len(plan) /\ plan \in Seq(Gates)
        /\ Len(plan) <= MaxSteps
    BY <1>3, Parts DEF Result, Fits
  <2> HIDE DEF d
  <2>3. Len(w) = tries
    BY <2>2, StoredMade
  <2> HIDE DEF w
  <2> QED BY <1>0, <2>1, <2>3 DEF Goes
<1>4. ASSUME NEW a \in Actors, WriteLands(a) PROVE \E i : Begins(a, i)
  <2> DEFINE d == actor[a]
             t == Tail(d.todo)
  <2>1. /\ t = <<>> /\ d.pc = "executing"
        /\ executed' = [executed EXCEPT ![d.index] = executed[d.index] + 1]
        /\ Head(d.todo) = d.todo[1] /\ d.todo # <<>>
        /\ actor' = [actor EXCEPT ![a] = IF t = <<>> /\ d.pc = "ending" THEN Idle
                                         ELSE [d EXCEPT !.todo = t]]
    BY <1>0, <1>4 DEF WriteLands
  <2>2. d \in Doer /\ d.todo \in Seq(Write) /\ 1 \in DOMAIN d.todo /\ DOMAIN d = Fields
    BY <1>0, <2>1, Parts, TailIs DEF Doer
  <2>3. Honest(d.todo[1], d.pc, plan, executed)
    BY <2>2 DEF GateInv, Sound
  <2>4. Grants' = Grants
    BY <1>4, <2>1, <2>3, WriteGrants DEF Honest
  <2>5. actor'[a] = [d EXCEPT !.todo = t]
    BY <1>0, <2>1
  <2> HIDE DEF d, t
  <2>6. actor'[a].pc = d.pc /\ actor'[a].todo = t /\ actor'[a].index = d.index
    BY <2>2, <2>5 DEF Fields
  <2> QED BY <2>1, <2>4, <2>6 DEF Begins
<1>5. CASE Plan
  <2> DEFINE d == [actor[Agent] EXCEPT !.start = 1]
  <2>1. Goes(Agent, d, 1, plan', <<>>) /\ history' = history
    BY <1>5 DEF Plan
  <2>2. DOMAIN d = Fields /\ Len(plan') \in Nat
    <3>1. DOMAIN d = Fields
      BY <1>0, Parts
    <3>2. PICK n \in 0..MaxSteps : plan' \in [1..n -> Gates]
      BY <1>5 DEF Plan
    <3> QED BY <1>0, <3>1, <3>2
  <2> HIDE DEF d
  <2> QED BY <1>0, <2>1, <2>2, GoesBegins
<1>6. ~PlanFails /\ ~Lost(Calls) /\ ~Lost({Agent})
  BY DEF PlanFails, Ends, Lost
<1> QED BY <1>0, <1>1, <1>2, <1>3, <1>4, <1>5, <1>6 DEF Next, Results

(* A step begins as promised.                                              *)
LEMMA ExecutesOnly ==
  ASSUME TypeInv, RunInv, GateInv, (TypeInv /\ RunInv /\ ApprovalInv /\ GateInv)', ~Unguarded, Next
  PROVE  UNCHANGED executed \/ \E s \in 1..Len(plan') : Promise!Execute(s)
<1> SUFFICES ASSUME executed' # executed
             PROVE  \E s \in 1..Len(plan') : Promise!Execute(s)
  OBVIOUS
<1>1. PICK a \in Actors : \E i : Begins(a, i)
  BY StepBegins
<1>9. PICK i : Begins(a, i)
  BY <1>1
<1>2. /\ Stage' = "working" /\ i \in 1..Len(plan') /\ i \in 1..MaxSteps /\ Finished' = 1..(i - 1)
      /\ plan'[i] = "open" \/ (plan'[i] \in Gating /\ executed'[i] <= Grants'[i])
  <2>1. (Executes(a))'
    BY ExecutesThen
  <2> QED BY <1>9, <2>1 DEF Executes, Begins
<1>3. executed' = [executed EXCEPT ![i] = executed[i] + 1] /\ Grants' = Grants
      /\ executed \in [1..MaxSteps -> Nat]
  BY <1>9, Parts DEF Begins
<1>4. plan'[i] \in Gating => executed[i] < Grants[i]
  <2>1. executed'[i] = executed[i] + 1 /\ executed[i] \in Nat
    BY <1>2, <1>3
  <2>2. Grants[i] \in Nat
    <3>1. Sequence(history) /\ Grants[i] = Approvals(i)
      BY <1>2, Parts DEF Grants, Sequence
    <3> QED BY <3>1, ApprovalsCounted
  <2>3. "open" \notin Gating
    BY DEF Gating
  <2> QED BY <1>2, <1>3, <2>1, <2>2, <2>3
<1>5. Promise!Execute(i)
  BY <1>2, <1>3, <1>4 DEF Promise!Execute, Promise!IsNext, Gating
<1> QED BY <1>2, <1>5
-----------------------------------------------------------------------------
(* The refinement.                                                         *)

LEMMA PlanMoves ==
  ASSUME TypeInv, RunInv, Plan
  PROVE  Promise!Moves
<1>1. /\ Agent \in Actors /\ actor[Agent].pc = "planning" /\ actor[Agent].todo = <<>>
      /\ UNCHANGED <<records, history, status>> /\ \E n \in 0..MaxSteps : plan' \in [1..n -> Gates]
  BY DEF Plan, MayRun, Actors
<1>2. Planning(Told, Len(plan), status, actor[Agent])
  BY <1>1, Paused
<1>3. plan = <<>> /\ status = "running"
  BY <1>2, Parts DEF Planning
<1>4. plan' \in Seq({"open"} \cup Gating \cup {"denied"}) /\ 1..Len(plan') \subseteq StepIds
  <2>1. PICK n \in 0..MaxSteps : plan' \in [1..n -> Gates]
    BY <1>1
  <2>2. n \in Nat /\ Len(plan') = n /\ 1..n \subseteq StepIds
    BY <2>1, BoundsAssumption DEF StepIds
  <2>3. plan' \in [1..n -> {"open"} \cup Gating \cup {"denied"}]
    BY <2>1, GatesAssumption DEF Gating
  <2> QED BY <2>2, <2>3
<1>5. Stage = "working" /\ Stage' = Stage /\ Grants' = Grants
  BY <1>1, <1>3, StageIs, SameGrants DEF Stage, Going
<1>6. Finished = {} /\ Finished' = {}
  <2>1. \A s \in StepIds : Effective(s) = "none"
    BY <1>2, ToldIs DEF Planning
  <2>2. \A s \in StepIds : Effective(s)' = "none"
    BY <1>1, <2>1 DEF Effective, Latest, RecordsOf
  <2>3. 1..Len(plan) \subseteq StepIds
    BY ToldIs
  <2> QED BY <1>4, <2>1, <2>2, <2>3 DEF Finished
<1> QED BY <1>3, <1>4, <1>5, <1>6 DEF Promise!Moves, Promise!PlanOnce, Gating

LEMMA MovesOnly ==
  ASSUME TypeInv, RunInv, ApprovalInv, GateInv, Next
  PROVE  Promise!Moves \/ Unmoved
<1>1. ASSUME NEW c \in Calls, Operator(c) \/ Continue(c)
      PROVE  UNCHANGED <<plan, records, history, status>>
  BY <1>1 DEF Operator, Approve, Reject, ApproveUnguarded, RejectUnguarded, Decides, Resume, Continue
<1>2. ASSUME NEW a \in Actors, Results(a) PROVE UNCHANGED <<plan, records, history, status>>
  BY <1>2 DEF Results, Result
<1>3. ASSUME PlanFails \/ Lost(Calls) \/ Lost({Agent})
      PROVE  UNCHANGED <<plan, records, history, status>>
  BY <1>3 DEF PlanFails, Lost
<1> QED BY <1>1, <1>2, <1>3, RestsUnmoved, PlanMoves, WriteMoves DEF Next

LEMMA LifecycleInitial == Init => Promise!Init
<1> SUFFICES ASSUME Init PROVE Promise!Init
  OBVIOUS
<1>1. /\ plan = <<>> /\ records = <<>> /\ history = <<>> /\ status = "running"
      /\ executed = [s \in 1..MaxSteps |-> 0]
  BY DEF Init
<1>2. Stage = "working"
  BY <1>1, StageIs DEF Going
<1>3. Finished = {}
  BY <1>1 DEF Finished
<1>4. \A s \in DOMAIN Grants : Grants[s] = 0
  <2>1. ASSUME NEW s PROVE Approvals(s) = 0
    <3>1. {i \in DOMAIN history : history[i] = [step |-> s, decision |-> "approved"]} = {}
      BY <1>1
    <3> QED BY <3>1, FS_EmptySet DEF Approvals
  <2> QED BY <2>1 DEF Grants
<1> QED BY <1>1, <1>2, <1>3, <1>4 DEF Promise!Init

(* RunRecovery implements RunLifecycle: through the guarded endpoints, with *)
(* no writes of threads and processes in between, and whatever is lost, the *)
(* run does its plan in order, each gated step with an approval of its own, *)
(* and is left alone once it is completed or rejected.                      *)
THEOREM LifecycleImplemented ==
  ASSUME ~Unguarded, ~Racing
  PROVE  Spec => Lifecycle
<1> DEFINE I == TypeInv /\ RunInv /\ ApprovalInv /\ GateInv
<1>1. Init => I
  BY TypeInitial, RunInitial, ApprovalInitial, GateInitial
<1>2. I /\ [Next]_vars => I'
  BY TypeInductive, RunInductive, ApprovalInductive, GateInductive
<1>3. I /\ I' /\ [Next]_vars => [Promise!Next]_(Promise!vars)
  <2> SUFFICES ASSUME I, I', [Next]_vars PROVE [Promise!Next]_(Promise!vars)
    OBVIOUS
  <2>1. CASE Next
    <3>1. Promise!Moves \/ UNCHANGED <<plan, Finished, Stage, Grants>>
      BY <2>1, MovesOnly DEF Unmoved
    <3>2. UNCHANGED executed \/ \E s \in 1..Len(plan') : Promise!Execute(s)
      BY <2>1, ExecutesOnly
    <3> QED BY <3>1, <3>2 DEF Promise!Next
  <2>2. CASE vars' = vars
    <3>1. Unmoved /\ executed' = executed
      BY <2>2, RestsUnmoved DEF vars
    <3> QED BY <3>1 DEF Unmoved, Promise!vars
  <2> QED BY <2>1, <2>2
<1> QED BY <1>1, <1>2, <1>3, LifecycleInitial, PTL DEF Spec, Lifecycle, Promise!Spec
-----------------------------------------------------------------------------
(* Decisions and the requests before them.                                 *)
(*                                                                         *)
(* Below, h is the table of decisions, e what the tables tell of each step *)
(* and v what an actor has still to write.                                 *)

Request(s) == [step |-> s, decision |-> "requested"]

(* Nothing has been decided of step s since it was last requested.         *)
Asked(h, s) == \E j \in DOMAIN h : /\ h[j] = Request(s)
                                   /\ \A k \in DOMAIN h : k > j => h[k].step # s

Once(h) ==
  \A i, k \in DOMAIN h :
    /\ i < k /\ h[i].step = h[k].step
    /\ "requested" \notin {h[i].decision, h[k].decision}
    => \E j \in i..k : h[j] = Request(h[i].step)

(* A decision takes a request that nobody has answered; it comes right     *)
(* after the update of its step.                                           *)
Answers(h, e, v, k) ==
  "decide" \in DOMAIN v[k] /\ v[k].decide.decision # "requested" =>
    /\ Asked(h, v[k].decide.step)
    /\ \/ k = 1 /\ e[v[k].decide.step] # "pending_approval"
       \/ k = 2 /\ "update" \in DOMAIN v[1] /\ v[1].update = v[k].decide.step

(* Whoever pauses a step requests its decision next.                       *)
Asks(v, k) ==
  \A f \in StepIds : Says(v[k], f, "pending_approval") =>
    k + 1 \in DOMAIN v /\ v[k + 1] = [decide |-> Request(f)]

Settling(h, e, v) == \A k \in DOMAIN v : Answers(h, e, v, k) /\ Asks(v, k)

Awaited(v, s) == \E k \in DOMAIN v : v[k] = [decide |-> Request(s)]

AskInv ==
  ~interrupted =>
    /\ Once(history)
    /\ \A a \in Actors : Settling(history, Told, actor[a].todo)
    /\ \A s \in StepIds : Told[s] = "pending_approval" =>
         Asked(history, s) \/ \E a \in Actors : Awaited(actor[a].todo, s)

LEMMA HistoryGrows ==
  ASSUME NEW h \in Seq(Decision), NEW x \in Decision
  PROVE  LET g == Append(h, x)
         IN /\ \A s : x = Request(s) => Asked(g, s)
            /\ \A s : x.step # s /\ Asked(h, s) => Asked(g, s)
            /\ Once(h) /\ (x.decision # "requested" => Asked(h, x.step)) => Once(g)
<1> DEFINE g == Append(h, x)
           n == Len(h)
<1>1. /\ n \in Nat /\ DOMAIN h = 1..n /\ DOMAIN g = 1..(n + 1) /\ g[n + 1] = x
      /\ \A i \in 1..n : g[i] = h[i]
  OBVIOUS
<1> HIDE DEF g, n
<1>2. ASSUME NEW s, x = Request(s) PROVE Asked(g, s)
  <2>1. n + 1 \in DOMAIN g /\ \A k \in DOMAIN g : ~(k > n + 1)
    BY <1>1
  <2> QED BY <1>1, <1>2, <2>1 DEF Asked
<1>3. ASSUME NEW s, x.step # s, Asked(h, s) PROVE Asked(g, s)
  <2>1. PICK j \in DOMAIN h : h[j] = Request(s) /\ \A k \in DOMAIN h : k > j => h[k].step # s
    BY <1>3 DEF Asked
  <2>2. j \in DOMAIN g /\ g[j] = Request(s)
    BY <1>1, <2>1
  <2>3. ASSUME NEW k \in DOMAIN g, k > j PROVE g[k].step # s
    <3>1. CASE k = n + 1
      BY <1>1, <1>3, <3>1
    <3>2. CASE k # n + 1
      <4>1. k \in 1..n
        BY <1>1, <3>2
      <4> QED BY <1>1, <2>1, <2>3, <4>1
    <3> QED BY <3>1, <3>2
  <2> QED BY <2>2, <2>3 DEF Asked
<1>4. ASSUME Once(h), x.decision # "requested" => Asked(h, x.step) PROVE Once(g)
  <2> SUFFICES ASSUME NEW i \in DOMAIN g, NEW k \in DOMAIN g, i < k, g[i].step = g[k].step,
                      g[i].decision # "requested", g[k].decision # "requested"
               PROVE  \E j \in i..k : g[j] = Request(g[i].step)
    BY DEF Once
  <2>1. i \in 1..n /\ g[i] = h[i]
    BY <1>1
  <2>2. CASE k # n + 1
    <3>1. k \in 1..n /\ g[k] = h[k]
      BY <1>1, <2>2
    <3>2. PICK j \in i..k : h[j] = Request(h[i].step)
      BY <1>1, <1>4, <2>1, <3>1 DEF Once
    <3>3. j \in 1..n
      BY <1>1, <2>1, <3>1
    <3> QED BY <1>1, <2>1, <3>2, <3>3
  <2>3. CASE k = n + 1
    <3>1. g[k] = x /\ Asked(h, x.step)
      BY <1>1, <1>4, <2>3
    <3>2. PICK j \in DOMAIN h : /\ h[j] = Request(x.step)
                                /\ \A m \in DOMAIN h : m > j => h[m].step # x.step
      BY <3>1 DEF Asked
    <3>3. ~(i > j)
      BY <1>1, <2>1, <3>1, <3>2
    <3>4. j \in i..k /\ g[j] = h[j]
      BY <1>1, <2>1, <2>3, <3>2, <3>3
    <3> QED BY <3>1, <3>2, <3>4
  <2> QED BY <2>2, <2>3
<1> QED BY <1>2, <1>3, <1>4 DEF g

(* What a write does to the decisions and to what the tables tell.         *)
Lands(w, h, e, h2, e2) ==
  \/ "decide" \in DOMAIN w /\ h2 = Append(h, w.decide) /\ e2 = e
  \/ "insert" \in DOMAIN w /\ h2 = h /\ e2 = [e EXCEPT ![w.insert.step] = w.insert.status]
  \/ /\ "update" \in DOMAIN w /\ h2 = h
     /\ e2 = [e EXCEPT ![w.update] = w.status] \/ (e2 = e /\ e[w.update] = "none")
  \/ "run" \in DOMAIN w /\ h2 = h /\ e2 = e

LEMMA WriteAlters ==
  ASSUME TypeInv, NEW a \in Actors, WriteLands(a)
  PROVE  Lands(actor[a].todo[1], history, Told, history', Told')
<1> DEFINE w == actor[a].todo[1]
<1>1. actor[a].todo \in Seq(Write) /\ actor[a].todo # <<>>
  BY Parts DEF WriteLands, Doer
<1>2. w \in Write /\ Head(actor[a].todo) = w
  BY <1>1, TailIs
<1>3. \/ /\ "insert" \in DOMAIN w /\ records' = Append(records, w.insert) /\ history' = history
      \/ /\ "update" \in DOMAIN w /\ history' = history
         /\ records' = IF RecordsOf(w.update) = {} THEN records
                       ELSE [records EXCEPT ![Max(RecordsOf(w.update))].status = w.status,
                                            ![Max(RecordsOf(w.update))].error = w.error]
      \/ "decide" \in DOMAIN w /\ history' = Append(history, w.decide) /\ records' = records
      \/ "run" \in DOMAIN w /\ UNCHANGED <<records, history>>
  BY <1>2 DEF WriteLands
<1> HIDE DEF w
<1>4. CASE "insert" \in DOMAIN w /\ records' = Append(records, w.insert) /\ history' = history
  BY <1>2, <1>4, WriteKinds, InsertTells DEF Lands, w
<1>5. CASE /\ "update" \in DOMAIN w /\ history' = history
           /\ records' = IF RecordsOf(w.update) = {} THEN records
                         ELSE [records EXCEPT ![Max(RecordsOf(w.update))].status = w.status,
                                              ![Max(RecordsOf(w.update))].error = w.error]
  <2>1. w.update \in StepIds
    BY <1>2, <1>5, WriteKinds
  <2>2. CASE RecordsOf(w.update) = {}
    BY <1>5, <2>1, <2>2, SameTold, ToldIs DEF Lands, w
  <2>3. CASE RecordsOf(w.update) # {}
    BY <1>5, <2>1, <2>3, UpdateTells DEF Lands, w
  <2> QED BY <2>2, <2>3
<1>6. CASE records' = records /\ \/ "decide" \in DOMAIN w /\ history' = Append(history, w.decide)
                                 \/ "run" \in DOMAIN w /\ history' = history
  BY <1>6, SameTold DEF Lands, w
<1> QED BY <1>3, <1>4, <1>5, <1>6
(* What is left after a write that lands still takes and makes requests.   *)
LEMMA WriteSettles ==
  ASSUME NEW h \in Seq(Decision), NEW e \in [StepIds -> Seen], NEW v \in Seq(Write), v # <<>>,
         NEW h2, NEW e2, Lands(v[1], h, e, h2, e2), Settling(h, e, v), Once(h)
  PROVE  /\ Once(h2) /\ Settling(h2, e2, Tail(v))
         /\ \A s \in StepIds : e2[s] = "pending_approval" =>
              \/ Asked(h2, s) \/ Awaited(Tail(v), s)
              \/ e[s] = "pending_approval" /\ ~Asked(h, s) /\ ~Awaited(v, s)
<1> DEFINE w == v[1]
           t == Tail(v)
<1>1. /\ w \in Write /\ 1 \in DOMAIN v /\ DOMAIN v = 1..Len(v) /\ DOMAIN t = 1..(Len(v) - 1)
      /\ Len(v) \in Nat \ {0} /\ \A k \in DOMAIN t : t[k] = v[k + 1] /\ k + 1 \in DOMAIN v
      /\ \A k \in DOMAIN v : v[k] \in Write
  BY TailIs
<1>2. Answers(h, e, v, 1) /\ Asks(v, 1)
  BY <1>1 DEF Settling
<1>3. /\ "insert" \in DOMAIN w => w.insert.step \in StepIds /\ w.insert.status \in Seen
      /\ "update" \in DOMAIN w => w.update \in StepIds /\ w.status \in Seen
                                  /\ w.status # "pending_approval"
      /\ "decide" \in DOMAIN w => w.decide \in Decision
  BY <1>1, WriteKinds DEF Record, Seen
<1>4. /\ "insert" \in DOMAIN w => /\ "update" \notin DOMAIN w /\ "decide" \notin DOMAIN w
                                  /\ "run" \notin DOMAIN w
      /\ "update" \in DOMAIN w => "decide" \notin DOMAIN w /\ "run" \notin DOMAIN w
      /\ "decide" \in DOMAIN w => "run" \notin DOMAIN w
  BY <1>1, KindsApart
<1> HIDE DEF w, t
(* The rest of the batch.                                                  *)
<1>5. ASSUME NEW k \in DOMAIN t PROVE Asks(t, k)
  <2>1. Asks(v, k + 1) /\ t[k] = v[k + 1] /\ k \in Nat
    BY <1>1 DEF Settling
  <2> SUFFICES ASSUME NEW f \in StepIds, Says(t[k], f, "pending_approval")
               PROVE  k + 1 \in DOMAIN t /\ t[k + 1] = [decide |-> Request(f)]
    BY DEF Asks
  <2>2. k + 2 \in DOMAIN v /\ v[k + 2] = [decide |-> Request(f)]
    BY <2>1 DEF Asks
  <2>3. k + 1 \in DOMAIN t
    BY <1>1, <2>1, <2>2
  <2>4. t[k + 1] = v[k + 2]
    BY <1>1, <2>1, <2>3
  <2> QED BY <2>2, <2>3, <2>4
<1>6. ASSUME NEW k \in DOMAIN t, "decide" \in DOMAIN t[k], t[k].decide.decision # "requested"
      PROVE  /\ k = 1 /\ "update" \in DOMAIN w /\ w.update = t[k].decide.step
             /\ Asked(h, t[k].decide.step) /\ t[k].decide.step \in StepIds
  <2>1. Answers(h, e, v, k + 1) /\ t[k] = v[k + 1] /\ k \in Nat \ {0} /\ v[k + 1] \in Write
    BY <1>1 DEF Settling
  <2>2. /\ Asked(h, t[k].decide.step)
        /\ k + 1 = 1 \/ (k + 1 = 2 /\ "update" \in DOMAIN w /\ w.update = t[k].decide.step)
    BY <1>6, <2>1 DEF Answers, w
  <2>3. t[k].decide \in Decision
    BY <1>6, <2>1, WriteKinds
  <2> QED BY <2>1, <2>2, <2>3 DEF Decision
<1>7. ASSUME "update" \in DOMAIN w
      PROVE  Settling(h2, e2, t)
  <2>1. /\ h2 = h
        /\ e2 = [e EXCEPT ![w.update] = w.status] \/ (e2 = e /\ e[w.update] = "none")
    BY <1>4, <1>7 DEF Lands, w
  <2>2. e2[w.update] # "pending_approval"
    BY <1>3, <1>7, <2>1
  <2>3. ASSUME NEW k \in DOMAIN t PROVE Answers(h2, e2, t, k)
    BY <1>6, <2>1, <2>2 DEF Answers
  <2> QED BY <1>5, <2>3 DEF Settling
<1>8. ASSUME "update" \notin DOMAIN w
      PROVE  Settling(h2, e2, t)
  <2>1. ASSUME NEW k \in DOMAIN t PROVE Answers(h2, e2, t, k)
    BY <1>6, <1>8 DEF Answers
  <2> QED BY <1>5, <2>1 DEF Settling
(* The decisions.                                                          *)
<1>9. CASE "decide" \in DOMAIN w
  <2>1. h2 = Append(h, w.decide) /\ e2 = e /\ w.decide \in Decision
    BY <1>3, <1>4, <1>9 DEF Lands, w
  <2>2. w.decide.decision # "requested" =>
          Asked(h, w.decide.step) /\ e[w.decide.step] # "pending_approval"
    BY <1>2, <1>9 DEF Answers, w
  <2>3. Once(h2)
    BY <2>1, <2>2, HistoryGrows
  <2>4. ASSUME NEW s \in StepIds, e[s] = "pending_approval", Asked(h, s) \/ Awaited(v, s)
        PROVE  Asked(h2, s) \/ Awaited(t, s)
    <3>1. CASE w.decide.step = s
      <4>1. w.decide = Request(s)
        BY <2>1, <2>2, <2>4, <3>1 DEF Decision, Request
      <4> QED BY <2>1, <4>1, HistoryGrows
    <3>2. CASE w.decide.step # s /\ Asked(h, s)
      BY <2>1, <3>2, HistoryGrows
    <3>3. CASE w.decide.step # s /\ Awaited(v, s)
      <4>1. PICK k \in DOMAIN v : v[k] = [decide |-> Request(s)]
        BY <3>3 DEF Awaited
      <4>2. k # 1
        BY <3>3, <4>1 DEF Request, w
      <4>3. k - 1 \in DOMAIN t /\ t[k - 1] = v[k]
        <5>1. k - 1 \in DOMAIN t /\ (k - 1) + 1 = k
          BY <1>1, <4>2
        <5> QED BY <1>1, <5>1
      <4> QED BY <4>1, <4>3 DEF Awaited
    <3> QED BY <2>4, <3>1, <3>2, <3>3
  <2>5. "update" \notin DOMAIN w
    BY <1>4, <1>9
  <2> QED BY <1>8, <2>1, <2>3, <2>4, <2>5 DEF t
<1>10. CASE "decide" \notin DOMAIN w
  <2>1. h2 = h
    BY <1>10 DEF Lands, w
  <2>2. ASSUME NEW s \in StepIds, Awaited(v, s) PROVE Awaited(t, s)
    <3>1. PICK k \in DOMAIN v : v[k] = [decide |-> Request(s)]
      BY <2>2 DEF Awaited
    <3>2. k # 1
      BY <1>10, <3>1 DEF w
    <3>3. k - 1 \in DOMAIN t /\ t[k - 1] = v[k]
      <4>1. k - 1 \in DOMAIN t /\ (k - 1) + 1 = k
        BY <1>1, <3>2
      <4> QED BY <1>1, <4>1
    <3> QED BY <3>1, <3>3 DEF Awaited
  <2>3. ASSUME NEW s \in StepIds, e2[s] = "pending_approval"
        PROVE  e[s] = "pending_approval" \/ Awaited(t, s)
    <3>1. CASE "insert" \in DOMAIN w /\ w.insert.step = s
      <4>1. w.insert.status = "pending_approval"
        <5>1. e2 = [e EXCEPT ![w.insert.step] = w.insert.status]
          BY <1>4, <3>1 DEF Lands, w
        <5> QED BY <1>3, <2>3, <3>1, <5>1
      <4>2. Says(v[1], s, "pending_approval")
        BY <3>1, <4>1 DEF Says, w
      <4>3. 2 \in DOMAIN v /\ v[2] = [decide |-> Request(s)]
        BY <1>2, <4>2 DEF Asks
      <4>4. 1 \in DOMAIN t /\ t[1] = v[2]
        <5>1. 1 \in DOMAIN t
          BY <1>1, <4>3
        <5> QED BY <1>1, <5>1
      <4> QED BY <4>3, <4>4 DEF Awaited
    <3>2. CASE ~("insert" \in DOMAIN w /\ w.insert.step = s)
      <4>1. \/ e2 = e
            \/ "insert" \in DOMAIN w /\ e2 = [e EXCEPT ![w.insert.step] = w.insert.status]
            \/ "update" \in DOMAIN w /\ e2 = [e EXCEPT ![w.update] = w.status]
        BY <1>10 DEF Lands, w
      <4> QED BY <1>3, <2>3, <3>2, <4>1
    <3> QED BY <3>1, <3>2
  <2> QED BY <1>7, <1>8, <2>1, <2>2, <2>3 DEF t
<1> QED BY <1>9, <1>10
(* Writes that pause nothing and decide nothing; batches without decisions.*)
Plain(w) == "decide" \notin DOMAIN w /\ \A f \in StepIds : ~Says(w, f, "pending_approval")

Asking(v) ==
  \A k \in DOMAIN v : /\ "decide" \in DOMAIN v[k] => v[k].decide.decision = "requested"
                      /\ Asks(v, k)

LEMMA PlainWrites ==
  /\ \A r \in RunStatuses : Plain([run |-> r])
  /\ \A w, i, source : \A st \in {"success", "failed"} : Marks(w, i, st, source) => Plain(w)
  /\ \A v : (\A k \in DOMAIN v : Plain(v[k])) => Asking(v)
<1>1. \A r \in RunStatuses : Plain([run |-> r])
  BY WriteForms DEF Plain, Says
<1>2. ASSUME NEW w, NEW i, NEW source, NEW st \in {"success", "failed"}, Marks(w, i, st, source)
      PROVE  Plain(w)
  <2>1. CASE \E r \in Record : w = [insert |-> r] /\ r.step = i /\ r.status = st
    BY <2>1 DEF Plain, Says
  <2>2. CASE \E e \in Errors : w = [update |-> i, status |-> st, error |-> e]
    BY <2>2 DEF Plain, Says
  <2> QED BY <1>2, <2>1, <2>2 DEF Marks
<1>3. ASSUME NEW v, \A k \in DOMAIN v : Plain(v[k]) PROVE Asking(v)
  BY <1>3 DEF Plain, Asking, Asks
<1> QED BY <1>1, <1>2, <1>3

LEMMA AskingSettles ==
  ASSUME NEW v, Asking(v), NEW h, NEW e
  PROVE  Settling(h, e, v)
BY DEF Asking, Settling, Answers

LEMMA JoinAsks ==
  ASSUME NEW v \in Seq(Write), NEW w \in Seq(Write), \A k \in DOMAIN v : Plain(v[k]), Asking(w)
  PROVE  Asking(v \o w)
<1> DEFINE x == v \o w
<1>1. /\ x \in Seq(Write) /\ DOMAIN x = 1..(Len(v) + Len(w)) /\ Len(v) \in Nat /\ Len(w) \in Nat
      /\ DOMAIN v = 1..Len(v) /\ DOMAIN w = 1..Len(w)
      /\ \A j \in 1..Len(v) : x[j] = v[j]
      /\ \A j \in 1..Len(w) : x[Len(v) + j] = w[j]
  BY JoinIs
<1> HIDE DEF x
<1>2. ASSUME NEW k \in DOMAIN x
      PROVE  /\ "decide" \in DOMAIN x[k] => x[k].decide.decision = "requested"
             /\ Asks(x, k)
  <2>1. CASE k <= Len(v)
    <3>1. k \in DOMAIN v /\ x[k] = v[k]
      BY <1>1, <2>1
    <3> QED BY <3>1 DEF Plain, Asks
  <2>2. CASE k > Len(v)
    <3>1. PICK j \in DOMAIN w : k = Len(v) + j
      <4>1. k - Len(v) \in DOMAIN w /\ k = Len(v) + (k - Len(v))
        BY <1>1, <2>2
      <4> QED BY <4>1
    <3>2. x[k] = w[j] /\ Asks(w, j) /\ ("decide" \in DOMAIN w[j] => w[j].decide.decision = "requested")
      BY <1>1, <3>1 DEF Asking
    <3>3. j + 1 \in DOMAIN w => k + 1 \in DOMAIN x /\ x[k + 1] = w[j + 1]
      <4>1. k + 1 = Len(v) + (j + 1)
        BY <1>1, <3>1
      <4>2. j + 1 \in DOMAIN w => k + 1 \in DOMAIN x
        BY <1>1, <3>1
      <4> QED BY <1>1, <4>1, <4>2
    <3> QED BY <3>2, <3>3 DEF Asks
  <2> QED BY <1>1, <2>1, <2>2
<1> QED BY <1>2 DEF Asking, x

LEMMA GoesAsks ==
  ASSUME TypeInv, NEW a \in Actors, NEW d \in Doer, NEW p \in Seq(Gates), Drives(d, p),
         Len(p) <= MaxSteps, NEW i \in 1..(Len(p) + 1), NEW w \in Seq(Write), Goes(a, d, i, p, w),
         \A k \in DOMAIN w : Plain(w[k])
  PROVE  \E m : actor' = [actor EXCEPT ![a] = m] /\ Asking(m.todo)
<1>0. Len(p) \in Nat /\ (i <= Len(p) <=> ~(i > Len(p)))
  OBVIOUS
<1>1. ASSUME NEW v \in Seq(Write), Asking(v),
             actor' = [actor EXCEPT ![a] = [d EXCEPT !.pc = "ending", !.index = i, !.todo = w \o v]]
      PROVE  \E m : actor' = [actor EXCEPT ![a] = m] /\ Asking(m.todo)
  <2> DEFINE m == [d EXCEPT !.pc = "ending", !.index = i, !.todo = w \o v]
  <2>1. m.todo = w \o v /\ actor' = [actor EXCEPT ![a] = m]
    BY <1>1 DEF Doer
  <2> HIDE DEF m
  <2> QED BY <1>1, <2>1, JoinAsks
<1>2. CASE i > Len(p)
  <2> DEFINE r == IF p = <<>> THEN "failed" ELSE "completed"
  <2>1. r \in RunStatuses
    BY DEF RunStatuses
  <2>2. actor' = [actor EXCEPT ![a] = [d EXCEPT !.pc = "ending", !.index = i,
                                                !.todo = w \o << [run |-> r] >>]]
    BY <1>0, <1>2 DEF Goes
  <2> HIDE DEF r
  <2>3. << [run |-> r] >> \in Seq(Write)
    BY <2>1, RunWritten
  <2>4. Plain([run |-> r])
    BY <2>1, PlainWrites
  <2>5. \A k \in DOMAIN << [run |-> r] >> : Plain(<< [run |-> r] >>[k])
    BY <2>4
  <2>6. Asking(<< [run |-> r] >>)
    BY <2>5, PlainWrites
  <2> QED BY <1>1, <2>2, <2>3, <2>6
<1>3. CASE i <= Len(p) /\ Pauses(d, i, p[i])
  <2> DEFINE v == Pause(d, i)
  <2>1. actor' = [actor EXCEPT ![a] = [d EXCEPT !.pc = "ending", !.index = i, !.todo = w \o v]]
    BY <1>0, <1>3 DEF Goes
  <2>2. i \in 1..Len(p)
    BY <1>0, <1>3
  <2> HIDE DEF v
  <2>3. PICK r \in Record, x \in Decision :
          /\ v = << [insert |-> r], [decide |-> x], [run |-> "awaiting_approval"] >>
          /\ r.step = i /\ r.status = "pending_approval" /\ v \in Seq(Write)
          /\ x = Request(i)
    BY <2>2, PauseMade DEF v, Request
  <2>4. DOMAIN v = {1, 2, 3} /\ v[1] = [insert |-> r] /\ v[2] = [decide |-> Request(i)]
        /\ v[3] = [run |-> "awaiting_approval"]
    BY <2>3
  <2>5. Plain(v[3])
    BY <2>4, PlainWrites DEF RunStatuses
  <2>6. \A f \in StepIds : Says(v[1], f, "pending_approval") => f = i
    BY <2>3, <2>4 DEF Says
  <2>7. \A f : ~Says(v[2], f, "pending_approval")
    BY <2>4 DEF Says
  <2>8. Asks(v, 1) /\ Asks(v, 2) /\ Asks(v, 3)
    BY <2>4, <2>5, <2>6, <2>7 DEF Asks, Plain
  <2>9. /\ "decide" \notin DOMAIN v[1] /\ "decide" \notin DOMAIN v[3]
        /\ v[2].decide.decision = "requested"
    BY <2>4, <2>5 DEF Plain, Request
  <2>10. Asking(v)
    BY <2>4, <2>8, <2>9 DEF Asking
  <2> QED BY <1>1, <2>1, <2>3, <2>10
<1>4. ASSUME NEW error \in {"policy", "arguments"}, i <= Len(p),
             actor' = [actor EXCEPT ![a] = [d EXCEPT !.pc = "ending", !.index = i,
                                                     !.todo = w \o Refusal(d, i, error)]]
      PROVE  \E m : actor' = [actor EXCEPT ![a] = m] /\ Asking(m.todo)
  <2> DEFINE v == Refusal(d, i, error)
  <2>1. actor' = [actor EXCEPT ![a] = [d EXCEPT !.pc = "ending", !.index = i, !.todo = w \o v]]
    BY <1>4
  <2> HIDE DEF v
  <2>2. PICK y \in Write : /\ v = << y, [run |-> "failed"] >> /\ v \in Seq(Write)
                           /\ Marks(y, i, "failed", Source(d, i))
    BY <1>0, <1>4, RefusalMade DEF v
  <2>3. Plain(y) /\ Plain([run |-> "failed"])
    BY <2>2, PlainWrites DEF RunStatuses
  <2>4. \A k \in DOMAIN v : Plain(v[k])
    BY <2>2, <2>3
  <2> QED BY <1>1, <2>1, <2>2, <2>4, PlainWrites
<1>5. ASSUME actor' = [actor EXCEPT ![a] = [d EXCEPT !.pc = "executing", !.index = i, !.todo = w]]
      PROVE  \E m : actor' = [actor EXCEPT ![a] = m] /\ Asking(m.todo)
  <2> DEFINE m == [d EXCEPT !.pc = "executing", !.index = i, !.todo = w]
  <2>1. actor' = [actor EXCEPT ![a] = m]
    BY <1>5
  <2>2. m.todo = w
    BY DEF Doer
  <2> HIDE DEF m
  <2> QED BY <2>1, <2>2, PlainWrites
<1> QED BY <1>2, <1>3, <1>4, <1>5 DEF Goes
(* An actor that has written all it had moves on while the others rest.    *)
LEMMA MovesAsk ==
  ASSUME TypeInv, RunInv, AskInv, NEW a \in Actors, \A b \in Actors \ {a} : actor[b].pc = "idle",
         actor[a].todo = <<>>, NEW m, actor' = [actor EXCEPT ![a] = m],
         UNCHANGED <<records, history, interrupted>>,
         (\A s \in StepIds : Told[s] = "pending_approval" => Asked(history, s))
           => Settling(history, Told, m.todo)
  PROVE  AskInv'
<1> SUFFICES ASSUME ~interrupted' PROVE AskInv'
  BY DEF AskInv
<1>1. /\ actor'[a] = m /\ \A b \in Actors \ {a} : actor'[b] = Idle /\ actor[b] = Idle
      /\ history' = history /\ Told' = Told
  BY Parts, SameTold DEF RunInv
<1>2. /\ Once(history)
      /\ \A s \in StepIds : Told[s] = "pending_approval" =>
           Asked(history, s) \/ \E b \in Actors : Awaited(actor[b].todo, s)
  BY DEF AskInv
<1>3. \A b \in Actors : \A s : ~Awaited(actor[b].todo, s)
  BY <1>1, IdleTyped DEF Awaited
<1>4. \A s \in StepIds : Told[s] = "pending_approval" => Asked(history, s)
  BY <1>2, <1>3
<1>5. \A b \in Actors : Settling(history, Told, actor'[b].todo)
  BY <1>1, <1>4, IdleTyped DEF Settling
<1> QED BY <1>1, <1>2, <1>4, <1>5 DEF AskInv

LEMMA EndsAsks ==
  ASSUME TypeInv, RunInv, AskInv, NEW a \in Actors, actor[a].pc # "idle", actor[a].todo = <<>>,
         NEW v, Ends(a, v), UNCHANGED <<records, history, interrupted>>, \A k \in DOMAIN v : Plain(v[k])
  PROVE  AskInv'
<1> DEFINE m == [actor[a] EXCEPT !.pc = "ending", !.todo = v]
<1>1. actor' = [actor EXCEPT ![a] = m] /\ m.todo = v
  BY Parts DEF Ends, Doer
<1> HIDE DEF m
<1>2. Settling(history, Told, m.todo)
  BY <1>1, PlainWrites, AskingSettles
<1> QED BY <1>1, <1>2, OthersRest, MovesAsk

LEMMA PlanAsks ==
  ASSUME TypeInv, RunInv, AskInv, Plan
  PROVE  AskInv'
<1> DEFINE d == [actor[Agent] EXCEPT !.start = 1]
<1>1. PICK n \in 0..MaxSteps : plan' \in [1..n -> Gates]
  BY DEF Plan
<1>2. PICK p, w : p = plan' /\ w = <<>>
  OBVIOUS
<1>3. p \in Seq(Gates) /\ Len(p) <= MaxSteps /\ 1 \in 1..(Len(p) + 1) /\ w \in Seq(Write)
  BY <1>1, <1>2, BoundsAssumption
<1>4. /\ Agent \in Actors /\ Goes(Agent, d, 1, p, w) /\ actor[Agent].todo = <<>>
      /\ UNCHANGED <<records, history, interrupted>>
      /\ actor[Agent] \in Doer /\ actor[Agent].kind = "agent" /\ actor[Agent].pc = "planning"
  BY <1>2, Parts DEF Plan, Fits, Actors, MayRun
<1>5. d \in Doer /\ d.kind = "agent"
  <2>1. 1 \in Places
    BY BoundsAssumption DEF Places
  <2> QED BY <1>4, <2>1 DEF Doer
<1> HIDE DEF d
<1>6. Drives(d, p)
  BY <1>5 DEF Drives, Driving
<1>8. \A k \in DOMAIN w : Plain(w[k])
  BY <1>2
<1>7. PICK m : actor' = [actor EXCEPT ![Agent] = m] /\ Asking(m.todo)
  BY <1>3, <1>4, <1>5, <1>6, <1>8, GoesAsks
<1> QED BY <1>4, <1>7, OthersRest, AskingSettles, MovesAsk

LEMMA PlanFailsAsks ==
  ASSUME TypeInv, RunInv, AskInv, PlanFails
  PROVE  AskInv'
<1> DEFINE r == Unnumbered(0, "failed", "tool")
           v == << [insert |-> r], [run |-> "failed"] >>
<1>1. /\ Agent \in Actors /\ actor[Agent].pc = "planning" /\ actor[Agent].todo = <<>> /\ Ends(Agent, v)
      /\ UNCHANGED <<records, history, interrupted>>
  BY DEF PlanFails, Actors, MayRun
<1>2. r.status = "failed"
  BY UnnumberedMade, BoundsAssumption DEF StepIds, Errors
<1> HIDE DEF r
<1>3. Plain([insert |-> r]) /\ Plain([run |-> "failed"])
  BY <1>2, PlainWrites DEF Plain, Says, RunStatuses
<1>4. \A k \in DOMAIN v : Plain(v[k])
  BY <1>3
<1> HIDE DEF v
<1> QED BY <1>1, <1>4, EndsAsks

LEMMA DecidesAsks ==
  ASSUME TypeInv, RunInv, AskInv, ~Racing, NEW c \in Calls, NEW kind, NEW s \in StepIds,
         Decidable(s), NEW now \in {"approved", "rejected"}, NEW last \in RunStatuses,
         Decides(c, kind, s, now, last)
  PROVE  AskInv'
<1> DEFINE d == Driver(kind, s, FALSE, <<>>)
           u == [update |-> s, status |-> now, error |-> "none"]
           g == [decide |-> [step |-> s, decision |-> now]]
           w == <<u, g, [run |-> last]>>
           m == [d EXCEPT !.pc = IF now = "approved" THEN "deciding" ELSE "ending", !.todo = w]
<1>1. /\ c \in Actors /\ actor[c].pc = "idle" /\ MayRun(c) /\ actor' = [actor EXCEPT ![c] = m]
      /\ UNCHANGED <<plan, records, history, status, executed, interrupted>>
  BY DEF Decides, Actors
<1>2. Told[s] = "pending_approval"
  BY ToldIs DEF Decidable
<1>3. (\A a \in Actors : actor[a].pc = "idle") /\ actor[c].todo = <<>>
  BY <1>1, <1>2, CallsAlone, IdleTyped DEF RunInv
<1>4. m.todo = w
  BY DEF Driver, Idle
<1>5. ASSUME Asked(history, s) PROVE Settling(history, Told, w)
  <2>1. /\ DOMAIN w = {1, 2, 3} /\ w[1] = u /\ w[2] = g /\ w[3] = [run |-> last]
    OBVIOUS
  <2>2. Plain([run |-> last]) /\ Plain(u)
    BY PlainWrites DEF Plain, Says
  <2>3. Answers(history, Told, w, 2) /\ Asks(w, 2)
    BY <1>5, <2>1 DEF Answers, Asks, Says
  <2> HIDE DEF w, u
  <2>4. \A k \in {1, 3} : Answers(history, Told, w, k) /\ Asks(w, k)
    BY <2>1, <2>2 DEF Answers, Asks, Plain
  <2> QED BY <2>1, <2>3, <2>4 DEF Settling
<1> HIDE DEF m, w
<1> QED BY <1>1, <1>2, <1>3, <1>4, <1>5, MovesAsk

LEMMA ResumesAsks ==
  ASSUME TypeInv, RunInv, AskInv, NEW a \in Actors, \A b \in Actors \ {a} : actor[b].pc = "idle",
         actor[a].todo = <<>>, NEW d \in Doer, Drives(d, plan), NEW s \in 1..Len(plan),
         NEW w \in {<<>>, << [run |-> "resuming_failed_run"] >>},
         Goes(a, d, s, plan, w), UNCHANGED <<records, history, interrupted>>
  PROVE  AskInv'
<1>1. plan \in Seq(Gates) /\ Len(plan) <= MaxSteps /\ s \in 1..(Len(plan) + 1)
  BY Parts
<1>2. w \in Seq(Write)
  <2>1. << [run |-> "resuming_failed_run"] >> \in Seq(Write)
    BY RunWritten DEF RunStatuses
  <2>2. <<>> \in Seq(Write)
    OBVIOUS
  <2> QED BY <2>1, <2>2
<1>3. \A k \in DOMAIN w : Plain(w[k])
  <2>1. Plain([run |-> "resuming_failed_run"])
    BY PlainWrites DEF RunStatuses
  <2> QED BY <2>1
<1>4. PICK m : actor' = [actor EXCEPT ![a] = m] /\ Asking(m.todo)
  BY <1>1, <1>2, <1>3, GoesAsks
<1> QED BY <1>4, AskingSettles, MovesAsk
LEMMA ContinueAsks ==
  ASSUME TypeInv, RunInv, AskInv, NEW c \in Calls, Continue(c)
  PROVE  AskInv'
<1>1. /\ c \in Actors /\ UNCHANGED <<plan, records, history, status, interrupted>>
      /\ actor[c].pc = "deciding" /\ actor[c].todo = <<>>
  BY DEF Continue, Actors, MayRun
<1>2. \A b \in Actors \ {c} : actor[b].pc = "idle"
  BY <1>1, OthersRest
<1>3. PICK s : s = actor[c].start
  OBVIOUS
<1>4. s \in 1..Len(plan) /\ s \in Places
  BY <1>1, <1>3, Paused, Parts DEF Places
<1>5. ASSUME NEW kind \in Driving, NEW numbers \in Seq(Nat \ {0}),
             kind \in {"continue", "resume"} => Len(numbers) = Len(plan),
             NEW w \in {<<>>, << [run |-> "resuming_failed_run"] >>},
             Goes(c, Driver(kind, s, TRUE, numbers), s, plan, w)
      PROVE  AskInv'
  <2> DEFINE d == Driver(kind, s, TRUE, numbers)
  <2>1. d \in Doer /\ d.kind = kind /\ d.numbers = numbers
    BY <1>4, IdleTyped DEF Driver, Doer, Kinds, Driving
  <2> HIDE DEF d
  <2>2. Drives(d, plan) /\ Goes(c, d, s, plan, w)
    BY <1>5, <2>1 DEF Drives, d
  <2> QED BY <1>1, <1>2, <1>4, <2>1, <2>2, ResumesAsks
<1>6. CASE ContinuePlan(c, s)
  <2>1. \/ Goes(c, Driver("continue", s, TRUE, ContinueNumbers(s)), s, plan, <<>>)
        \/ Goes(c, Driver("legacy", s, TRUE, <<>>), s, plan, <<>>)
    BY <1>4, <1>6 DEF ContinuePlan
  <2>2. <<>> \in Seq(Nat \ {0})
    OBVIOUS
  <2>3. CASE Goes(c, Driver("continue", s, TRUE, ContinueNumbers(s)), s, plan, <<>>)
    BY <1>5, <2>3, NumbersTyped DEF Driving
  <2>4. CASE Goes(c, Driver("legacy", s, TRUE, <<>>), s, plan, <<>>)
    BY <1>5, <2>2, <2>4 DEF Driving
  <2> QED BY <2>1, <2>3, <2>4
<1>7. CASE ContinueResumption(c, s)
  <2>1. CASE actor' = [actor EXCEPT ![c] = Idle] /\ executed' = executed
    <3>1. Settling(history, Told, Idle.todo)
      BY IdleTyped DEF Settling
    <3> QED BY <1>1, <1>2, <2>1, <3>1, MovesAsk
  <2>2. CASE Goes(c, Driver("resume", s, TRUE, ResumeNumbers(s, TRUE)), s, plan,
                  << [run |-> "resuming_failed_run"] >>)
    <3>1. ResumeNumbers(s, TRUE) \in Seq(Nat \ {0}) /\ Len(ResumeNumbers(s, TRUE)) = Len(plan)
      BY NumbersTyped
    <3> QED BY <1>5, <2>2, <3>1 DEF Driving
  <2> QED BY <1>7, <2>1, <2>2 DEF ContinueResumption
<1> QED BY <1>3, <1>6, <1>7 DEF Continue

LEMMA ResumeAsks ==
  ASSUME TypeInv, RunInv, AskInv, ~Racing, NEW c \in Calls, Resume(c)
  PROVE  AskInv'
<1>1. PICK s : s = Min(FailedSteps)
  OBVIOUS
<1> DEFINE d == Driver("resume", s, FALSE, ResumeNumbers(s, FALSE))
<1>2. /\ c \in Actors /\ UNCHANGED <<plan, records, history, status, interrupted>>
      /\ Goes(c, d, s, plan, << [run |-> "resuming_failed_run"] >>) /\ FailedSteps # {}
      /\ status = "failed" /\ actor[c].pc = "idle" /\ MayRun(c)
  BY <1>1 DEF Resume, Actors, Resumable
<1>3. s \in 1..Len(plan) /\ s \in Places
  <2>1. FailedSteps \in SUBSET Nat
    BY Parts DEF FailedSteps
  <2>2. s \in FailedSteps
    BY <1>1, <1>2, <2>1, LeastNumber
  <2> QED BY <2>2, Parts DEF FailedSteps, Places
<1>4. (\A a \in Actors : actor[a].pc = "idle") /\ actor[c].todo = <<>>
  BY <1>2, CallsAlone DEF MayRun
<1>5. ResumeNumbers(s, FALSE) \in Seq(Nat \ {0}) /\ Len(ResumeNumbers(s, FALSE)) = Len(plan)
  BY NumbersTyped
<1>6. d \in Doer /\ d.kind = "resume" /\ d.numbers = ResumeNumbers(s, FALSE)
  BY <1>3, <1>5, IdleTyped DEF Driver, Doer, Kinds
<1> HIDE DEF d
<1>7. Drives(d, plan)
  BY <1>5, <1>6 DEF Drives, Driving
<1> QED BY <1>2, <1>3, <1>4, <1>6, <1>7, ResumesAsks

LEMMA ResultAsks ==
  ASSUME TypeInv, RunInv, AskInv, NEW a \in Actors, NEW tries \in 1..MaxTries,
         NEW st \in {"success", "failed"}, Result(a, tries, st)
  PROVE  AskInv'
<1> DEFINE d == actor[a]
           w == Stored(d, d.index, tries, st)
           v == << [run |-> "failed"] >>
<1>1. /\ UNCHANGED <<plan, records, history, status, interrupted>>
      /\ IF st = "success" THEN Goes(a, d, d.index + 1, plan, w) ELSE Ends(a, w \o v)
      /\ d \in Doer /\ Drives(d, plan) /\ d.pc = "executing" /\ d.todo = <<>>
      /\ d.index \in 1..Len(plan)
  BY Parts DEF Result, Fits, MayRun
<1>2. \A b \in Actors \ {a} : actor[b].pc = "idle"
  BY <1>1, OthersRest
<1>3. plan \in Seq(Gates) /\ Len(plan) <= MaxSteps /\ Len(plan) \in Nat
  BY Parts
<1> HIDE DEF d
<1>4. /\ Len(w) = tries /\ w \in Seq(Write)
      /\ \A k \in 1..tries : Marks(w[k], d.index, IF k < tries THEN "failed" ELSE st, Source(d, d.index))
  BY <1>1, <1>3, StoredMade
<1> HIDE DEF w
<1>5. ASSUME NEW k \in DOMAIN w PROVE Plain(w[k])
  <2>1. k \in 1..tries
    BY <1>4
  <2> DEFINE x == IF k < tries THEN "failed" ELSE st
  <2>2. x \in {"success", "failed"} /\ Marks(w[k], d.index, x, Source(d, d.index))
    BY <1>4, <2>1
  <2> HIDE DEF x
  <2> QED BY <2>2, PlainWrites
<1>6. CASE st = "success"
  <2>1. d.index + 1 \in 1..(Len(plan) + 1) /\ Goes(a, d, d.index + 1, plan, w)
    BY <1>1, <1>3, <1>6
  <2>2. PICK m : actor' = [actor EXCEPT ![a] = m] /\ Asking(m.todo)
    BY <1>1, <1>3, <1>4, <1>5, <2>1, GoesAsks
  <2> QED BY <1>1, <1>2, <2>2, AskingSettles, MovesAsk DEF d
<1>7. CASE st # "success"
  <2>1. v \in Seq(Write) /\ Plain([run |-> "failed"])
    BY RunWritten, PlainWrites DEF RunStatuses
  <2>2. \A k \in DOMAIN v : Plain(v[k])
    BY <2>1
  <2> HIDE DEF v
  <2>3. Asking(v)
    BY <2>2, PlainWrites
  <2>4. Asking(w \o v)
    BY <1>4, <1>5, <2>1, <2>3, JoinAsks
  <2> DEFINE m == [actor[a] EXCEPT !.pc = "ending", !.todo = w \o v]
  <2>5. actor' = [actor EXCEPT ![a] = m] /\ m.todo = w \o v
    BY <1>1, <1>7, Parts DEF Ends, Doer
  <2> HIDE DEF m
  <2>6. Settling(history, Told, m.todo)
    BY <2>4, <2>5, AskingSettles
  <2> QED BY <1>1, <1>2, <2>5, <2>6, MovesAsk DEF d
<1> QED BY <1>6, <1>7

LEMMA WriteAsks ==
  ASSUME TypeInv, RunInv, AskInv, NEW a \in Actors, WriteLands(a)
  PROVE  AskInv'
<1> DEFINE d == actor[a]
           m == After(d)
<1>1. /\ actor' = [actor EXCEPT ![a] = m] /\ interrupted' = interrupted
      /\ d \in Doer /\ d.todo # <<>> /\ d.todo \in Seq(Write)
  BY WriteTells DEF Doer
<1>2. d.pc # "idle"
  BY <1>1, IdleTyped DEF RunInv
<1>3. \A b \in Actors \ {a} : actor'[b] = Idle /\ actor[b] = Idle
  BY <1>1, <1>2, OthersRest, Parts
<1>4. Lands(d.todo[1], history, Told, history', Told')
  BY WriteAlters
<1>5. history \in Seq(Decision) /\ Told \in [StepIds -> Seen] /\ actor'[a] = m
  BY <1>1, Parts, ToldIs
<1> HIDE DEF d
<1>6. m.todo = Tail(d.todo)
  <2>1. CASE Len(d.todo) = 1 /\ d.pc = "ending"
    <3>1. m = Idle /\ Tail(d.todo) = <<>>
      BY <1>1, <2>1, AfterIs, TailIs
    <3> QED BY <3>1, IdleTyped
  <2>2. CASE ~(Len(d.todo) = 1 /\ d.pc = "ending")
    BY <1>1, <2>2, AfterIs
  <2> QED BY <2>1, <2>2
<1> HIDE DEF m
<1> SUFFICES ASSUME ~interrupted' PROVE AskInv'
  BY DEF AskInv
<1>7. /\ Once(history) /\ Settling(history, Told, d.todo)
      /\ \A s \in StepIds : Told[s] = "pending_approval" =>
           Asked(history, s) \/ \E b \in Actors : Awaited(actor[b].todo, s)
  BY <1>1 DEF AskInv, d
<1>8. \A b \in Actors \ {a} : \A s : ~Awaited(actor[b].todo, s)
  BY <1>3, IdleTyped DEF Awaited
<1>9. \A s \in StepIds : Told[s] = "pending_approval" => Asked(history, s) \/ Awaited(d.todo, s)
  BY <1>7, <1>8 DEF d
<1>10. /\ Once(history') /\ Settling(history', Told', Tail(d.todo))
       /\ \A s \in StepIds : Told'[s] = "pending_approval" =>
            \/ Asked(history', s) \/ Awaited(Tail(d.todo), s)
            \/ Told[s] = "pending_approval" /\ ~Asked(history, s) /\ ~Awaited(d.todo, s)
  <2>1. PICK h, e, v, h2, e2 :
          h = history /\ e = Told /\ v = d.todo /\ h2 = history' /\ e2 = Told'
    OBVIOUS
  <2>2. /\ h \in Seq(Decision) /\ e \in [StepIds -> Seen] /\ v \in Seq(Write) /\ v # <<>>
        /\ Lands(v[1], h, e, h2, e2) /\ Settling(h, e, v) /\ Once(h)
    BY <1>1, <1>4, <1>5, <1>7, <2>1
  <2>3. /\ Once(h2) /\ Settling(h2, e2, Tail(v))
        /\ \A s \in StepIds : e2[s] = "pending_approval" =>
             \/ Asked(h2, s) \/ Awaited(Tail(v), s)
             \/ e[s] = "pending_approval" /\ ~Asked(h, s) /\ ~Awaited(v, s)
    BY <2>2, WriteSettles
  <2> QED BY <2>1, <2>3
<1>11. \A b \in Actors : Settling(history', Told', actor'[b].todo)
  <2>1. Settling(history', Told', Idle.todo)
    BY IdleTyped DEF Settling
  <2> QED BY <1>3, <1>5, <1>6, <1>10, <2>1
<1>12. \A s \in StepIds : Told'[s] = "pending_approval" =>
         Asked(history', s) \/ \E b \in Actors : Awaited(actor'[b].todo, s)
  BY <1>5, <1>6, <1>9, <1>10
<1> QED BY <1>10, <1>11, <1>12 DEF AskInv

LEMMA AskInitial == Init => AskInv
<1> SUFFICES ASSUME Init PROVE AskInv
  OBVIOUS
<1> DEFINE m == [Idle EXCEPT !.kind = "agent", !.pc = "planning"]
<1>1. m.todo = <<>>
  BY IdleTyped DEF Doer
<1>2. actor = [a \in Actors |-> IF a = Agent THEN m ELSE Idle] /\ history = <<>> /\ records = <<>>
  BY DEF Init
<1> HIDE DEF m
<1>3. \A a \in Actors : Settling(history, Told, actor[a].todo)
  BY <1>1, <1>2, IdleTyped DEF Settling
<1>4. Once(history)
  BY <1>2 DEF Once
<1>5. \A s \in StepIds : Told[s] # "pending_approval"
  BY <1>2 DEF Told, Effective, RecordsOf
<1> QED BY <1>3, <1>4, <1>5 DEF AskInv

LEMMA AskInductive ==
  ASSUME ~Unguarded, ~Racing, TypeInv, RunInv, AskInv, [Next]_vars
  PROVE  AskInv'
<1>1. CASE vars' = vars
  BY <1>1, SameTold DEF vars, AskInv
<1>2. ASSUME NEW c \in Calls, NEW s \in StepIds, Approve(c, s) \/ Reject(c, s) PROVE AskInv'
  <2>1. {"resuming_after_approval", "rejected"} \subseteq RunStatuses
    BY DEF RunStatuses
  <2> QED BY <1>2, <2>1, DecidesAsks DEF Approve, Reject
<1>3. ASSUME NEW c \in Calls, Operator(c) PROVE AskInv'
  BY <1>2, <1>3, ResumeAsks DEF Operator, ApproveUnguarded, RejectUnguarded
<1>4. ASSUME Lost(Calls) \/ Lost({Agent}) PROVE AskInv'
  BY <1>4 DEF Lost, AskInv
<1>5. CASE Next
  BY <1>3, <1>4, <1>5, PlanAsks, PlanFailsAsks, ContinueAsks, ResultAsks, WriteAsks DEF Next, Results
<1> QED BY <1>1, <1>5

(* Through the guarded endpoints, with no writes of threads and processes  *)
(* in between, each request is decided at most once: what two operators    *)
(* answer at the same time is recorded for one of them only.               *)
THEOREM DecidedOnceCorrect ==
  ASSUME ~Unguarded, ~Racing
  PROVE  Spec => []DecidedOnce
<1> DEFINE I == TypeInv /\ RunInv /\ AskInv
<1>1. Init => I
  BY TypeInitial, RunInitial, AskInitial
<1>2. I /\ [Next]_vars => I'
  BY TypeInductive, RunInductive, AskInductive
<1>3. I => DecidedOnce
  BY DEF AskInv, Once, Request, DecidedOnce
<1> QED BY <1>1, <1>2, <1>3, PTL DEF Spec
=============================================================================
