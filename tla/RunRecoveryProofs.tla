-------------------------- MODULE RunRecoveryProofs --------------------------
(***************************************************************************)
(* One approval, one execution: for any number of calls, any plan, any     *)
(* endpoints, and whether or not single writes of threads and processes    *)
(* interleave.                                                             *)
(*                                                                         *)
(* An approval that is in the history and has not been used is held by     *)
(* one actor at most, from the write of the approval to the execution of   *)
(* the step, or it is lost: a gated step has been executed, or is going to *)
(* be, no more often than it was approved.                                 *)
(*                                                                         *)
(* One driver at a time: with the guarded endpoints, and without writes of *)
(* threads and processes in between, whoever is at work finds the plan     *)
(* done before its step and untouched after it, and writes what keeps it   *)
(* so.                                                                     *)
(***************************************************************************)
EXTENDS RunRecovery, WellFoundedInduction, FiniteSetTheorems, TLAPS

Fields == {"kind", "pc", "start", "index", "granted", "numbers", "todo"}

Gating == {"profile", "explicit"}

Grant(s) == [step |-> s, decision |-> "approved"]

(* An actor that is as d holds an approval of step s: it is written and d  *)
(* has still to decide what it continues, or d has decided to execute s    *)
(* and the write that comes before has not landed.                         *)
Credit(d, s) ==
  \/ d.pc = "deciding" /\ d.start = s /\ (d.todo = <<>> \/ \E r : d.todo = <<r>>)
  \/ d.pc = "executing" /\ d.granted /\ d.start = s /\ d.index = s /\ d.todo # <<>>

Holders(s) == {a \in Actors : Credit(actor[a], s)}

(* What p says of an actor that is as d.                                   *)
Orderly(a, d, p) ==
  /\ DOMAIN d = Fields /\ d.granted \in BOOLEAN
  /\ d.pc = "planning" => a = Agent /\ p = <<>> /\ ~d.granted
  /\ d.pc = "deciding" =>
       /\ d.start \in Nat
       /\ \E u, r : d.todo \in {<<u, [decide |-> Grant(d.start)], r>>,
                                <<[decide |-> Grant(d.start)], r>>, <<r>>, <<>>}
  /\ d.pc = "executing" => d.start \in Nat /\ d.index \in Nat /\ d.start <= d.index
  /\ d.pc = "executing" /\ d.todo # <<>> =>
       /\ d.index <= Len(p)
       /\ d.index \in 1..Len(p) /\ p[d.index] \in Gating => d.granted /\ d.start = d.index

Sequence(s) == \E S : s \in Seq(S)

Data ==
  /\ actor = [a \in Actors |-> actor[a]]
  /\ plan \in Seq(Gates) /\ Len(plan) <= MaxSteps
  /\ executed \in [1..MaxSteps -> Nat]
  /\ Sequence(history)

(* Steps whose executions take approvals, as far as p says.                *)
Costs(s, p) == s \in 1..Len(p) => p[s] \in Gating

Covered(s) == executed[s] + Cardinality(Holders(s)) <= Approvals(s)

ApprovalInv ==
  /\ Data
  /\ \A a \in Actors : Orderly(a, actor[a], plan)
  /\ \A s \in 1..MaxSteps : Costs(s, plan) => Covered(s)
-----------------------------------------------------------------------------
LEMMA HoldersFinite ==
  ASSUME NEW T \in SUBSET Actors
  PROVE  IsFiniteSet(T) /\ Cardinality(T) \in Nat
<1>1. IsFiniteSet(Actors)
  BY CallsAssumption, FS_AddElement DEF Actors
<1> QED BY <1>1, FS_Subset, FS_CardinalityType

LEMMA ApprovalsCounted ==
  ASSUME Sequence(history), NEW s
  PROVE  Approvals(s) \in Nat
<1> DEFINE T == {i \in DOMAIN history : history[i] = Grant(s)}
<1>1. Len(history) \in Nat /\ DOMAIN history = 1..Len(history)
  BY DEF Sequence
<1>2. IsFiniteSet(1..Len(history)) /\ T \subseteq 1..Len(history)
  BY <1>1, FS_Interval
<1>3. Cardinality(T) \in Nat
  BY <1>2, FS_Subset, FS_CardinalityType
<1> QED BY <1>3 DEF Approvals, Grant

(* A decision that is written counts, if it is an approval of s.           *)
LEMMA ApprovalsGrow ==
  ASSUME Sequence(history), NEW w, history' = Append(history, w), NEW s
  PROVE  /\ Sequence(history')
         /\ Approvals(s)' = IF w = Grant(s) THEN Approvals(s) + 1 ELSE Approvals(s)
<1> DEFINE T == {i \in DOMAIN history : history[i] = Grant(s)}
           U == {i \in DOMAIN history' : history'[i] = Grant(s)}
           n == Len(history)
<1>1. PICK S : history \in Seq(S)
  BY DEF Sequence
<1>2. history \in Seq(S \cup {w}) /\ w \in S \cup {w}
  BY <1>1
<1>3. history' \in Seq(S \cup {w}) /\ Len(history') = n + 1 /\ n \in Nat
      /\ DOMAIN history = 1..n /\ DOMAIN history' = 1..(n + 1)
      /\ (\A i \in 1..n : history'[i] = history[i]) /\ history'[n + 1] = w
  BY <1>2
<1>4. U = IF w = Grant(s) THEN T \cup {n + 1} ELSE T
  BY <1>3
<1>5. IsFiniteSet(T) /\ n + 1 \notin T
  <2>1. T \subseteq 1..n /\ n + 1 \notin 1..n
    BY <1>3
  <2>2. IsFiniteSet(1..n)
    BY <1>3, FS_Interval
  <2> QED BY <2>1, <2>2, FS_Subset
<1>6. Cardinality(T \cup {n + 1}) = Cardinality(T) + 1
  BY <1>5, FS_AddElement
<1>7. Cardinality(U) = IF w = Grant(s) THEN Cardinality(T) + 1 ELSE Cardinality(T)
  BY <1>4, <1>6
<1>8. Approvals(s) = Cardinality(T) /\ Approvals(s)' = Cardinality(U)
  BY DEF Approvals, Grant
<1>9. Sequence(history')
  BY <1>3 DEF Sequence
<1> QED BY <1>7, <1>8, <1>9

(* The ways in which a step of a, or one that only takes approvals from    *)
(* actors, leaves s covered.                                               *)
LEMMA StillCovered ==
  ASSUME Sequence(history), NEW s, NEW a \in Actors,
         executed[s] \in Nat, Covered(s),
         \/ /\ executed'[s] = executed[s] /\ Holders(s)' \subseteq Holders(s)
            /\ Approvals(s)' \in {Approvals(s), Approvals(s) + 1}
         \/ /\ executed'[s] = executed[s] /\ Holders(s)' \subseteq Holders(s) \cup {a}
            /\ Approvals(s)' = Approvals(s) + 1
         \/ /\ executed'[s] = executed[s] + 1 /\ a \in Holders(s)
            /\ Holders(s)' \subseteq Holders(s) \ {a}
            /\ Approvals(s)' \in {Approvals(s), Approvals(s) + 1}
  PROVE  Covered(s)'
<1> DEFINE H == Holders(s)
           I == Holders(s)'
<1>1. /\ H \in SUBSET Actors /\ I \in SUBSET Actors
      /\ IsFiniteSet(H) /\ Cardinality(H) \in Nat /\ Cardinality(I) \in Nat
  BY HoldersFinite DEF Holders
<1>2. Approvals(s) \in Nat /\ Approvals(s)' \in Nat
  BY ApprovalsCounted
<1>3. I \subseteq H => Cardinality(I) <= Cardinality(H)
  BY <1>1, FS_Subset
<1>4. I \subseteq H \cup {a} => Cardinality(I) <= Cardinality(H) + 1
  <2>1. IsFiniteSet(H \cup {a}) /\ Cardinality(H \cup {a}) <= Cardinality(H) + 1
    <3>1. IsFiniteSet(H \cup {a})
          /\ Cardinality(H \cup {a}) = IF a \in H THEN Cardinality(H) ELSE Cardinality(H) + 1
      BY <1>1, FS_AddElement
    <3> HIDE DEF H
    <3> QED BY <1>1, <3>1
  <2>2. Cardinality(H \cup {a}) \in Nat
    BY <2>1, FS_CardinalityType
  <2>3. I \subseteq H \cup {a} => Cardinality(I) <= Cardinality(H \cup {a})
    BY <2>1, FS_Subset
  <2> QED BY <1>1, <2>1, <2>2, <2>3
<1>5. a \in H /\ I \subseteq H \ {a} => Cardinality(I) <= Cardinality(H) - 1
  <2> SUFFICES ASSUME a \in H, I \subseteq H \ {a} PROVE Cardinality(I) <= Cardinality(H) - 1
    OBVIOUS
  <2>1. IsFiniteSet(H \ {a}) /\ Cardinality(H \ {a}) = Cardinality(H) - 1
    BY <1>1, FS_RemoveElement
  <2> QED BY <2>1, FS_Subset
<1>6. Cardinality(H) <= Approvals(s) - executed[s]
  BY <1>1, <1>2 DEF Covered
<1> HIDE DEF H, I
<1>7. executed'[s] + Cardinality(I) <= Approvals(s)'
  BY <1>1, <1>2, <1>3, <1>4, <1>5, <1>6 DEF H, I
<1> QED BY <1>7 DEF Covered, I
-----------------------------------------------------------------------------
(* One actor moves, the history grows by at most a decision.               *)

(* What a step of a may do to the count of s; m is what a becomes.         *)
Fair(a, m, s) ==
  \/ /\ executed'[s] = executed[s] /\ (Credit(m, s) => Credit(actor[a], s))
     /\ Approvals(s)' \in {Approvals(s), Approvals(s) + 1}
  \/ executed'[s] = executed[s] /\ Approvals(s)' = Approvals(s) + 1
  \/ /\ executed'[s] = executed[s] + 1 /\ Credit(actor[a], s) /\ ~Credit(m, s)
     /\ Approvals(s)' \in {Approvals(s), Approvals(s) + 1}

LEMMA ActorMoves ==
  ASSUME ApprovalInv, NEW a \in Actors, NEW m, actor' = [actor EXCEPT ![a] = m],
         plan' \in Seq(Gates), Len(plan') <= MaxSteps, plan' = plan \/ (plan = <<>> /\ a = Agent),
         executed' \in [1..MaxSteps -> Nat], Sequence(history'),
         Orderly(a, m, plan'),
         \A s \in 1..MaxSteps : Costs(s, plan') => Fair(a, m, s)
  PROVE  ApprovalInv'
<1>1. /\ actor = [b \in Actors |-> actor[b]] /\ Sequence(history)
      /\ executed \in [1..MaxSteps -> Nat]
  BY DEF ApprovalInv, Data
<1>2. actor' = [b \in Actors |-> actor'[b]] /\ actor'[a] = m
      /\ \A b \in Actors \ {a} : actor'[b] = actor[b]
  BY <1>1
<1>3. Data'
  BY <1>2 DEF Data
<1>4. ASSUME NEW b \in Actors PROVE Orderly(b, actor'[b], plan')
  <2>1. CASE b = a
    BY <1>2, <2>1
  <2>2. CASE b # a
    <3>1. Orderly(b, actor[b], plan) /\ actor'[b] = actor[b]
      BY <1>2, <2>2 DEF ApprovalInv
    <3>2. CASE plan' = plan
      BY <3>1, <3>2
    <3>3. CASE plan' # plan
      <4>1. Len(plan) = 0 /\ Len(plan') \in Nat
        BY <3>3
      <4>2. actor[b].pc # "planning"
        BY <2>2, <3>1, <3>3 DEF Orderly
      <4>3. actor[b].pc = "executing" /\ actor[b].todo # <<>> =>
              /\ actor[b].index <= Len(plan')
              /\ actor[b].index \notin 1..Len(plan')
        BY <3>1, <4>1 DEF Orderly
      <4> QED BY <3>1, <4>2, <4>3 DEF Orderly
    <3> QED BY <3>2, <3>3
  <2> QED BY <2>1, <2>2
<1>5. ASSUME NEW s \in 1..MaxSteps, Costs(s, plan') PROVE Covered(s)'
  <2>1. Costs(s, plan)
    BY <1>5 DEF Costs
  <2>2. Covered(s) /\ Fair(a, m, s) /\ executed[s] \in Nat
    BY <1>1, <1>5, <2>1 DEF ApprovalInv
  <2>3. /\ Holders(s)' \subseteq Holders(s) \cup {a}
        /\ Credit(m, s) => a \in Holders(s)'
        /\ ~Credit(m, s) => Holders(s)' \subseteq Holders(s) \ {a}
        /\ Credit(actor[a], s) <=> a \in Holders(s)
    BY <1>2 DEF Holders
  <2>4. (Credit(m, s) => Credit(actor[a], s)) => Holders(s)' \subseteq Holders(s)
    BY <2>3
  <2> QED BY <1>1, <2>2, <2>3, <2>4, StillCovered DEF Fair
<1> QED BY <1>3, <1>4, <1>5 DEF ApprovalInv

(* Driver d arrives at step i: what it holds for that step, a held.        *)
LEMMA GoesOn ==
  ASSUME ApprovalInv, NEW a \in Actors, NEW d, DOMAIN d = Fields, d.granted \in BOOLEAN,
         d.start \in Nat, NEW i \in Nat, d.start <= i, NEW w, Goes(a, d, i, plan', w),
         plan' \in Seq(Gates), Len(plan') <= MaxSteps, plan' = plan \/ (plan = <<>> /\ a = Agent),
         history' = history,
         d.granted /\ d.start = i => Credit(actor[a], i)
  PROVE  ApprovalInv'
<1> DEFINE p == plan'
<1>1. /\ executed \in [1..MaxSteps -> Nat] /\ Sequence(history') /\ Len(p) \in Nat
      /\ actor = [b \in Actors |-> actor[b]]
  BY DEF ApprovalInv, Data
<1>2. \A s : Approvals(s)' = Approvals(s)
  BY DEF Approvals
<1>3. ASSUME NEW x, executed' = executed,
             actor' = [actor EXCEPT ![a] = [d EXCEPT !.pc = "ending", !.index = i, !.todo = x]]
      PROVE  ApprovalInv'
  <2> DEFINE m == [d EXCEPT !.pc = "ending", !.index = i, !.todo = x]
  <2>3. DOMAIN m = Fields /\ m.pc = "ending" /\ m.granted = d.granted
    BY DEF Fields
  <2>4. actor' = [actor EXCEPT ![a] = m]
    BY <1>3
  <2> HIDE DEF m
  <2>5. Orderly(a, m, plan') /\ \A s \in 1..MaxSteps : Fair(a, m, s)
    BY <1>2, <1>3, <2>3 DEF Orderly, Fair, Credit
  <2> QED BY <1>1, <1>3, <2>4, <2>5, ActorMoves
<1>4. ASSUME i <= Len(p), ~Pauses(d, i, p[i]),
             actor' = [actor EXCEPT ![a] = [d EXCEPT !.pc = "executing", !.index = i, !.todo = w]],
             executed' = IF w = <<>> THEN [executed EXCEPT ![i] = executed[i] + 1] ELSE executed
      PROVE  ApprovalInv'
  <2> DEFINE m == [d EXCEPT !.pc = "executing", !.index = i, !.todo = w]
  <2>1. /\ actor' = [actor EXCEPT ![a] = m] /\ i <= Len(p)
        /\ executed' = IF w = <<>> THEN [executed EXCEPT ![i] = executed[i] + 1] ELSE executed
    BY <1>4
  <2>2. p[i] \in Gating => d.granted /\ d.start = i
    BY <1>4 DEF Pauses, Gating, Approved
  <2>3. /\ DOMAIN m = Fields /\ m.pc = "executing" /\ m.granted = d.granted /\ m.start = d.start
        /\ m.index = i /\ m.todo = w
    BY DEF Fields
  <2> HIDE DEF m
  <2>4. Orderly(a, m, plan')
    BY <2>1, <2>2, <2>3 DEF Orderly
  <2>5. executed' \in [1..MaxSteps -> Nat]
    <3>1. CASE i \in 1..MaxSteps
      BY <1>1, <2>1, <3>1
    <3>2. CASE i \notin 1..MaxSteps
      <4>1. [executed EXCEPT ![i] = executed[i] + 1] = executed
        BY <1>1, <3>2
      <4> QED BY <1>1, <2>1, <4>1
    <3> QED BY <3>1, <3>2
  <2>6. ASSUME NEW s \in 1..MaxSteps, Costs(s, p) PROVE Fair(a, m, s)
    <3>1. CASE w # <<>>
      <4>1. Credit(m, s) => Credit(actor[a], s)
        BY <2>3 DEF Credit
      <4> QED BY <1>2, <2>1, <3>1, <4>1 DEF Fair
    <3>2. CASE w = <<>> /\ s # i
      <4>1. executed'[s] = executed[s] /\ ~Credit(m, s)
        BY <1>1, <2>1, <2>3, <3>2 DEF Credit
      <4> QED BY <1>2, <4>1 DEF Fair
    <3>3. CASE w = <<>> /\ s = i
      <4>1. d.granted /\ d.start = i
        BY <1>1, <2>1, <2>2, <2>6, <3>3 DEF Costs
      <4>2. executed'[s] = executed[s] + 1 /\ ~Credit(m, s) /\ Credit(actor[a], s)
        BY <1>1, <2>1, <2>3, <3>3, <4>1 DEF Credit
      <4> QED BY <1>2, <4>2 DEF Fair
    <3> QED BY <3>1, <3>2, <3>3
  <2> QED BY <1>1, <2>1, <2>4, <2>5, <2>6, ActorMoves
<1> QED BY <1>3, <1>4 DEF Goes

(* Whoever ends holds nothing any more.                                    *)
LEMMA EndsUp ==
  ASSUME ApprovalInv, NEW a \in Actors, NEW m, actor' = [actor EXCEPT ![a] = m],
         DOMAIN m = Fields, m.granted \in BOOLEAN, m.pc \in {"idle", "ending"},
         UNCHANGED <<plan, history, executed>>
  PROVE  ApprovalInv'
<1>1. \A s : Approvals(s)' = Approvals(s)
  BY DEF Approvals
<1>2. Orderly(a, m, plan') /\ \A s \in 1..MaxSteps : Fair(a, m, s)
  BY <1>1 DEF Orderly, Fair, Credit
<1> QED BY <1>2, ActorMoves DEF ApprovalInv, Data

LEMMA EndsNow ==
  ASSUME ApprovalInv, NEW a \in Actors, NEW w, Ends(a, w), UNCHANGED <<plan, history>>
  PROVE  ApprovalInv'
<1> DEFINE m == [actor[a] EXCEPT !.pc = "ending", !.todo = w]
<1>1. actor = [b \in Actors |-> actor[b]] /\ DOMAIN actor[a] = Fields /\ actor[a].granted \in BOOLEAN
  BY DEF ApprovalInv, Data, Orderly
<1>2. actor' = [actor EXCEPT ![a] = m]
  BY <1>1 DEF Ends
<1>3. DOMAIN m = Fields /\ m.pc = "ending" /\ m.granted = actor[a].granted
  BY <1>1 DEF Fields
<1> HIDE DEF m
<1> QED BY <1>1, <1>2, <1>3, EndsUp DEF Ends

LEMMA Drivers ==
  ASSUME NEW kind, NEW s, NEW granted \in BOOLEAN, NEW numbers
  PROVE  LET d == Driver(kind, s, granted, numbers)
         IN DOMAIN d = Fields /\ d.start = s /\ d.granted = granted
BY DEF Driver, Idle, Fields

LEMMA IdleFields == DOMAIN Idle = Fields /\ Idle.pc = "idle" /\ Idle.granted = FALSE
BY DEF Idle, Fields
-----------------------------------------------------------------------------
(* The actions.                                                            *)

LEMMA ActorParts ==
  ASSUME ApprovalInv, NEW a \in Actors
  PROVE  /\ Data /\ actor = [b \in Actors |-> actor[b]] /\ Orderly(a, actor[a], plan)
         /\ DOMAIN actor[a] = Fields /\ actor[a].granted \in BOOLEAN
         /\ Len(plan) \in Nat
<1>1. Data /\ Orderly(a, actor[a], plan)
  BY DEF ApprovalInv
<1>2. Len(plan) \in Nat
  BY <1>1 DEF Data
<1>3. actor = [b \in Actors |-> actor[b]]
  BY <1>1 DEF Data
<1>4. DOMAIN actor[a] = Fields /\ actor[a].granted \in BOOLEAN
  BY <1>1 DEF Orderly
<1> QED BY <1>1, <1>2, <1>3, <1>4

LEMMA PlanCovers ==
  ASSUME ApprovalInv, Plan
  PROVE  ApprovalInv'
<1> DEFINE d == [actor[Agent] EXCEPT !.start = 1]
<1>1. Agent \in Actors
  BY DEF Actors
<1>2. /\ actor[Agent].pc = "planning" /\ history' = history
      /\ Goes(Agent, d, 1, plan', <<>>)
      /\ \E n \in 0..MaxSteps : plan' \in [1..n -> Gates]
  BY DEF Plan
<1>3. plan' \in Seq(Gates) /\ Len(plan') <= MaxSteps
  <2>1. PICK n \in 0..MaxSteps : plan' \in [1..n -> Gates]
    BY <1>2
  <2> QED BY <2>1, BoundsAssumption
<1>4. plan = <<>> /\ ~actor[Agent].granted /\ DOMAIN actor[Agent] = Fields
      /\ actor[Agent].granted \in BOOLEAN
  BY <1>1, <1>2, ActorParts DEF Orderly
<1>5. DOMAIN d = Fields /\ d.granted = actor[Agent].granted /\ d.start = 1
  BY <1>4 DEF Fields
<1> HIDE DEF d
<1>6. 1 \in Nat /\ d.start \in Nat /\ d.start <= 1 /\ d.granted = FALSE /\ d.granted \in BOOLEAN
  BY <1>4, <1>5
<1>7. Goes(Agent, d, 1, plan', <<>>) /\ history' = history
  BY <1>2
<1> QED BY <1>1, <1>3, <1>4, <1>5, <1>6, <1>7, GoesOn

LEMMA DecidesCovers ==
  ASSUME ApprovalInv, NEW c \in Calls, NEW s \in StepIds, NEW kind,
         NEW decision \in {"approved", "rejected"}, NEW more, Decides(c, kind, s, decision, more)
  PROVE  ApprovalInv'
<1> DEFINE d == Driver(kind, s, FALSE, <<>>)
           u == [update |-> s, status |-> decision, error |-> "none"]
           g == [decide |-> [step |-> s, decision |-> decision]]
           r == [run |-> more]
           pc == IF decision = "approved" THEN "deciding" ELSE "ending"
           m == [d EXCEPT !.pc = pc, !.todo = <<u, g, r>>]
<1>1. c \in Actors /\ s \in Nat
  BY DEF Actors, StepIds
<1>2. actor' = [actor EXCEPT ![c] = m] /\ UNCHANGED <<plan, history, executed>>
  BY DEF Decides
<1>3. DOMAIN d = Fields /\ d.start = s /\ d.granted = FALSE
  BY Drivers
<1> HIDE DEF d
<1>4. DOMAIN m = Fields /\ m.start = s /\ m.granted = FALSE /\ m.pc = pc /\ m.todo = <<u, g, r>>
  BY <1>3 DEF Fields
<1>5. decision = "approved" => g = [decide |-> Grant(s)]
  BY DEF Grant
<1> HIDE DEF u, g, r, m
<1>6. CASE decision = "approved"
  <2>1. <<u, g, r>> # <<>> /\ \A x : <<u, g, r>> # <<x>>
    OBVIOUS
  <2>2. Orderly(c, m, plan')
    BY <1>1, <1>4, <1>5, <1>6 DEF Orderly
  <2>3. \A t : Approvals(t)' = Approvals(t)
    BY <1>2 DEF Approvals
  <2>4. \A t \in 1..MaxSteps : Fair(c, m, t)
    BY <1>2, <1>4, <1>6, <2>1, <2>3 DEF Fair, Credit
  <2> QED BY <1>1, <1>2, <2>2, <2>4, ActorMoves DEF ApprovalInv, Data
<1>7. CASE decision # "approved"
  BY <1>1, <1>2, <1>4, <1>7, EndsUp
<1> QED BY <1>6, <1>7

LEMMA ContinueCovers ==
  ASSUME ApprovalInv, NEW c \in Calls, Continue(c)
  PROVE  ApprovalInv'
<1> DEFINE s == actor[c].start
<1>1. /\ c \in Actors /\ actor[c].pc = "deciding" /\ actor[c].todo = <<>>
      /\ UNCHANGED <<plan, history>>
  BY DEF Continue, MayRun, Actors
<1>2. Credit(actor[c], s)
  BY <1>1 DEF Credit
<1>3. /\ s \in Nat /\ plan \in Seq(Gates) /\ Len(plan) <= MaxSteps
      /\ actor = [b \in Actors |-> actor[b]]
  BY <1>1, ActorParts DEF Orderly, Data
<1>4. ASSUME NEW w, Ends(c, w) PROVE ApprovalInv'
  BY <1>1, <1>4, EndsNow
<1>5. ASSUME NEW kind, NEW numbers, NEW w, Goes(c, Driver(kind, s, TRUE, numbers), s, plan, w)
      PROVE  ApprovalInv'
  <2> DEFINE d == Driver(kind, s, TRUE, numbers)
  <2>1. DOMAIN d = Fields /\ d.start = s /\ d.granted = TRUE
    BY Drivers
  <2> HIDE DEF d
  <2>2. Goes(c, d, s, plan', w) /\ plan' \in Seq(Gates) /\ Len(plan') <= MaxSteps
    BY <1>1, <1>3, <1>5 DEF d
  <2> HIDE DEF s
  <2>3. d.start <= s
    BY <1>3, <2>1
  <2> QED BY <1>1, <1>2, <1>3, <2>1, <2>2, <2>3, GoesOn
<1>6. CASE ContinuePlan(c, s)
  BY <1>4, <1>5, <1>6 DEF ContinuePlan
<1>7. CASE ContinueResumption(c, s)
  <2>1. CASE actor' = [actor EXCEPT ![c] = Idle] /\ executed' = executed
    BY <1>1, <2>1, IdleFields, EndsUp
  <2> QED BY <1>5, <1>7, <2>1 DEF ContinueResumption
<1> QED BY <1>6, <1>7 DEF Continue

LEMMA LeastNumber ==
  ASSUME NEW T \in SUBSET Nat, T # {}
  PROVE  Min(T) \in T
<1>1. PICK x \in T : \A y \in T : ~ (<<y, x>> \in OpToRel(<, Nat))
  BY NatLessThanWellFounded, WFMin
<1>2. ASSUME NEW y \in T PROVE x <= y
  <2>1. ~ (y < x)
    BY <1>1 DEF OpToRel
  <2> QED BY <2>1
<1> QED BY <1>2 DEF Min

LEMMA ResumeCovers ==
  ASSUME ApprovalInv, NEW c \in Calls, Resume(c)
  PROVE  ApprovalInv'
<1> DEFINE s == Min(FailedSteps)
           d == Driver("resume", s, FALSE, ResumeNumbers(s, FALSE))
           w == << [run |-> "resuming_failed_run"] >>
<1>1. /\ c \in Actors /\ UNCHANGED <<plan, history>> /\ Goes(c, d, s, plan, w)
      /\ FailedSteps # {}
  BY DEF Resume, Actors
<1>2. plan \in Seq(Gates) /\ Len(plan) <= MaxSteps /\ Len(plan) \in Nat
  BY DEF ApprovalInv, Data
<1>3. FailedSteps \in SUBSET Nat
  BY <1>2 DEF FailedSteps
<1>4. s \in Nat
  <2>1. Min(FailedSteps) \in FailedSteps
    BY <1>1, <1>3, LeastNumber
  <2> QED BY <1>3, <2>1
<1>5. DOMAIN d = Fields /\ d.start = s /\ d.granted = FALSE
  BY Drivers
<1> HIDE DEF s, d, w
<1>6. Goes(c, d, s, plan', w) /\ d.start <= s
  BY <1>1, <1>4, <1>5
<1> QED BY <1>1, <1>2, <1>4, <1>5, <1>6, GoesOn

LEMMA ResultCovers ==
  ASSUME ApprovalInv, NEW a \in Actors, NEW tries, NEW st, Result(a, tries, st)
  PROVE  ApprovalInv'
<1> DEFINE d == actor[a]
           w == Stored(d, d.index, tries, st)
<1>1. /\ d.pc = "executing" /\ UNCHANGED <<plan, history>>
      /\ IF st = "success" THEN Goes(a, d, d.index + 1, plan, w)
         ELSE Ends(a, w \o << [run |-> "failed"] >>)
  BY DEF Result
<1> HIDE DEF w
<1>2. /\ DOMAIN d = Fields /\ d.granted \in BOOLEAN /\ d.start \in Nat /\ d.index \in Nat
      /\ d.start <= d.index /\ plan \in Seq(Gates) /\ Len(plan) <= MaxSteps
  BY <1>1, ActorParts DEF Orderly, Data
<1> HIDE DEF d
<1>3. CASE st = "success"
  <2>1. Goes(a, d, d.index + 1, plan', w)
    BY <1>1, <1>3
  <2>2. d.index + 1 \in Nat /\ d.start <= d.index + 1 /\ d.start # d.index + 1
    BY <1>2
  <2> QED BY <1>1, <1>2, <2>1, <2>2, GoesOn
<1>4. CASE st # "success"
  BY <1>1, <1>4, EndsNow
<1> QED BY <1>3, <1>4

(* A write of a lands: its approval is written, or the execution that      *)
(* waited for it begins.                                                   *)
LEMMA WriteCovers ==
  ASSUME ApprovalInv, NEW a \in Actors, WriteLands(a)
  PROVE  ApprovalInv'
<1> DEFINE d == actor[a]
           w == Head(d.todo)
           rest == Tail(d.todo)
           m == IF rest = <<>> /\ d.pc = "ending" THEN Idle ELSE [d EXCEPT !.todo = rest]
<1>1. /\ Data /\ Orderly(a, d, plan) /\ DOMAIN d = Fields /\ d.granted \in BOOLEAN
      /\ Sequence(history) /\ executed \in [1..MaxSteps -> Nat]
      /\ actor = [b \in Actors |-> actor[b]] /\ Len(plan) \in Nat
  BY ActorParts DEF Data
<1>2. /\ d.todo # <<>> /\ actor' = [actor EXCEPT ![a] = m] /\ plan' = plan
      /\ executed' = IF rest = <<>> /\ d.pc = "executing"
                     THEN [executed EXCEPT ![d.index] = executed[d.index] + 1] ELSE executed
  BY <1>1 DEF WriteLands
<1>3. /\ history' = history \/ \E x : history' = Append(history, x)
      /\ \A s : w = [decide |-> Grant(s)] => history' = Append(history, Grant(s))
  <2>1. \/ history' = history /\ \E f \in {"insert", "update", "run"} : f \in DOMAIN w
        \/ history' = Append(history, w.decide)
    BY DEF WriteLands
  <2> HIDE DEF w
  <2>2. ASSUME NEW s, w = [decide |-> Grant(s)] PROVE history' = Append(history, Grant(s))
    <3>1. DOMAIN w = {"decide"} /\ w.decide = Grant(s)
      BY <2>2
    <3> QED BY <2>1, <3>1
  <2> QED BY <2>1, <2>2
<1>4. /\ Sequence(history')
      /\ \A s : Approvals(s)' \in {Approvals(s), Approvals(s) + 1}
      /\ \A s : w = [decide |-> Grant(s)] => Approvals(s)' = Approvals(s) + 1
  <2>1. \A s : w = [decide |-> Grant(s)] => Approvals(s)' = Approvals(s) + 1
    BY <1>1, <1>3, ApprovalsGrow
  <2>2. CASE history' = history
    <3>1. \A s : Approvals(s)' = Approvals(s)
      BY <2>2 DEF Approvals
    <3> QED BY <1>1, <2>1, <2>2, <3>1
  <2>3. CASE \E x : history' = Append(history, x)
    <3>1. Sequence(history') /\ \A s : Approvals(s)' \in {Approvals(s), Approvals(s) + 1}
      BY <1>1, <2>3, ApprovalsGrow
    <3> QED BY <2>1, <3>1
  <2> QED BY <1>3, <2>2, <2>3
<1>5. /\ DOMAIN m = Fields /\ m.granted \in BOOLEAN
      /\ m.pc \in {"deciding", "executing", "planning"} =>
           /\ m.pc = d.pc /\ m.granted = d.granted /\ m.start = d.start /\ m.index = d.index
           /\ m.todo = rest
      /\ d.pc \in {"deciding", "executing", "planning"} => m.pc = d.pc
  BY <1>1, IdleFields DEF Fields
<1>6. CASE d.pc = "deciding"
  <2> DEFINE g == [decide |-> Grant(d.start)]
  <2>1. PICK u, r : d.todo \in {<<u, g, r>>, <<g, r>>, <<r>>}
    BY <1>1, <1>2, <1>6 DEF Orderly
  <2>2. executed' = executed /\ d.start \in Nat
    BY <1>1, <1>2, <1>6 DEF Orderly
  <2> HIDE DEF g, m
  <2>3. CASE d.todo = <<u, g, r>>
    <3>1. rest = <<g, r>> /\ \A x : rest # <<x>> /\ rest # <<>>
      BY <2>3
    <3> HIDE DEF rest
    <3>2. Orderly(a, m, plan')
      BY <1>5, <1>6, <2>2, <3>1 DEF Orderly, g
    <3>3. \A s \in 1..MaxSteps : Fair(a, m, s)
      BY <1>4, <1>5, <1>6, <2>2, <3>1 DEF Fair, Credit
    <3> QED BY <1>1, <1>2, <1>4, <2>2, <3>2, <3>3, ActorMoves DEF Data
  <2>4. CASE d.todo = <<g, r>>
    <3>1. rest = <<r>> /\ w = g
      BY <2>4
    <3> HIDE DEF rest, w
    <3>2. Orderly(a, m, plan')
      BY <1>5, <1>6, <2>2, <3>1 DEF Orderly
    <3>3. ASSUME NEW s \in 1..MaxSteps PROVE Fair(a, m, s)
      <4>1. CASE s = d.start
        <5>1. Approvals(s)' = Approvals(s) + 1
          BY <1>4, <3>1, <4>1 DEF g
        <5> QED BY <2>2, <5>1 DEF Fair
      <4>2. CASE s # d.start
        BY <1>4, <1>5, <1>6, <2>2, <4>2 DEF Fair, Credit
      <4> QED BY <4>1, <4>2
    <3> QED BY <1>1, <1>2, <1>4, <2>2, <3>2, <3>3, ActorMoves DEF Data
  <2>5. CASE d.todo = <<r>>
    <3>1. rest = <<>>
      BY <2>5
    <3> HIDE DEF rest
    <3>2. Orderly(a, m, plan')
      BY <1>5, <1>6, <2>2, <3>1 DEF Orderly
    <3>3. \A s : Credit(m, s) => Credit(d, s)
      BY <1>5, <1>6, <2>5 DEF Credit
    <3>4. \A s \in 1..MaxSteps : Fair(a, m, s)
      BY <1>4, <2>2, <3>3 DEF Fair
    <3> QED BY <1>1, <1>2, <1>4, <2>2, <3>2, <3>4, ActorMoves DEF Data
  <2> QED BY <2>1, <2>3, <2>4, <2>5
<1>7. CASE d.pc = "executing"
  <2>1. /\ d.start \in Nat /\ d.index \in Nat /\ d.start <= d.index /\ d.index <= Len(plan)
        /\ d.index \in 1..Len(plan) /\ plan[d.index] \in Gating => d.granted /\ d.start = d.index
    BY <1>1, <1>2, <1>7 DEF Orderly
  <2>2. m.pc = "executing" /\ m.granted = d.granted /\ m.start = d.start /\ m.index = d.index
        /\ m.todo = rest
    BY <1>5, <1>7
  <2> HIDE DEF m, rest, w
  <2>3. Orderly(a, m, plan')
    BY <1>2, <1>5, <2>1, <2>2 DEF Orderly
  <2>4. executed' \in [1..MaxSteps -> Nat]
    <3>1. CASE d.index \in 1..MaxSteps
      BY <1>1, <1>2, <3>1
    <3>2. CASE d.index \notin 1..MaxSteps
      <4>1. [executed EXCEPT ![d.index] = executed[d.index] + 1] = executed
        BY <1>1, <3>2
      <4> QED BY <1>1, <1>2, <4>1
    <3> QED BY <3>1, <3>2
  <2>5. ASSUME NEW s \in 1..MaxSteps, Costs(s, plan) PROVE Fair(a, m, s)
    <3>1. CASE rest # <<>>
      <4>1. executed' = executed /\ (Credit(m, s) => Credit(d, s))
        BY <1>2, <1>7, <2>2, <3>1 DEF Credit
      <4> QED BY <1>4, <4>1 DEF Fair
    <3>2. CASE rest = <<>> /\ s # d.index
      <4>1. executed'[s] = executed[s] /\ ~Credit(m, s)
        BY <1>1, <1>2, <1>7, <2>2, <3>2 DEF Credit
      <4> QED BY <1>4, <4>1 DEF Fair
    <3>3. CASE rest = <<>> /\ s = d.index
      <4>1. d.granted /\ d.start = d.index
        BY <1>1, <2>1, <2>5, <3>3 DEF Costs
      <4>2. executed'[s] = executed[s] + 1
        BY <1>1, <1>2, <1>7, <3>3
      <4>3. Credit(d, s) /\ ~Credit(m, s)
        BY <1>2, <1>7, <2>2, <3>3, <4>1 DEF Credit
      <4> QED BY <1>4, <4>2, <4>3 DEF Fair
    <3> QED BY <3>1, <3>2, <3>3
  <2> QED BY <1>1, <1>2, <1>4, <2>3, <2>4, <2>5, ActorMoves DEF Data
<1>8. CASE d.pc \notin {"deciding", "executing"}
  <2>1. executed' = executed /\ m.pc \notin {"deciding", "executing"}
    BY <1>2, <1>5, <1>8
  <2> HIDE DEF m
  <2>2. Orderly(a, m, plan')
    BY <1>1, <1>2, <1>5, <2>1 DEF Orderly
  <2>3. \A s \in 1..MaxSteps : Fair(a, m, s)
    BY <1>4, <2>1 DEF Fair, Credit
  <2> QED BY <1>1, <1>2, <1>4, <2>1, <2>2, <2>3, ActorMoves DEF Data
<1> QED BY <1>6, <1>7, <1>8

LEMMA LostCovers ==
  ASSUME ApprovalInv, NEW A, Lost(A)
  PROVE  ApprovalInv'
<1>1. /\ actor' = [a \in Actors |-> IF a \in A THEN Idle ELSE actor[a]]
      /\ UNCHANGED <<plan, history, executed>>
  BY DEF Lost
<1>2. Data'
  BY <1>1 DEF ApprovalInv, Data
<1>3. \A a \in Actors : Orderly(a, actor'[a], plan')
  <2>1. \A a : Orderly(a, Idle, plan)
    BY IdleFields DEF Orderly
  <2> QED BY <1>1, <2>1 DEF ApprovalInv
<1>4. ASSUME NEW s \in 1..MaxSteps, Costs(s, plan') PROVE Covered(s)'
  <2>1. ~Credit(Idle, s)
    BY IdleFields DEF Credit
  <2>2. Holders(s)' \subseteq Holders(s)
    BY <1>1, <2>1 DEF Holders
  <2>3. Approvals(s)' = Approvals(s)
    BY <1>1 DEF Approvals
  <2>4. Covered(s) /\ executed[s] \in Nat /\ Sequence(history) /\ Agent \in Actors
    BY <1>1, <1>4 DEF ApprovalInv, Data, Actors
  <2> QED BY <1>1, <2>2, <2>3, <2>4, StillCovered
<1> QED BY <1>2, <1>3, <1>4 DEF ApprovalInv

LEMMA ApprovalInitial == Init => ApprovalInv
<1> SUFFICES ASSUME Init PROVE ApprovalInv
  OBVIOUS
<1> DEFINE m == [Idle EXCEPT !.kind = "agent", !.pc = "planning"]
<1>1. DOMAIN m = Fields /\ m.pc = "planning" /\ m.granted = FALSE
  BY DEF Idle, Fields
<1>2. /\ actor = [a \in Actors |-> IF a = Agent THEN m ELSE Idle]
      /\ plan = <<>> /\ history = <<>> /\ executed = [s \in 1..MaxSteps |-> 0]
  BY DEF Init
<1> HIDE DEF m
<1>3. Sequence(history)
  <2>1. <<>> \in Seq({})
    OBVIOUS
  <2> QED BY <1>2, <2>1 DEF Sequence
<1>4. Data
  BY <1>2, <1>3, BoundsAssumption DEF Data
<1>5. \A a \in Actors : Orderly(a, actor[a], plan)
  BY <1>1, <1>2, IdleFields DEF Orderly
<1>6. ASSUME NEW s \in 1..MaxSteps PROVE Covered(s)
  <2>1. Holders(s) = {}
    BY <1>1, <1>2, IdleFields DEF Holders, Credit
  <2>2. Approvals(s) \in Nat /\ Cardinality(Holders(s)) = 0 /\ executed[s] = 0
    BY <1>2, <1>3, <2>1, ApprovalsCounted, FS_EmptySet
  <2> QED BY <2>2 DEF Covered
<1> QED BY <1>4, <1>5, <1>6 DEF ApprovalInv

LEMMA ApprovalInductive == ApprovalInv /\ [Next]_vars => ApprovalInv'
<1> SUFFICES ASSUME ApprovalInv, [Next]_vars PROVE ApprovalInv'
  OBVIOUS
<1>1. CASE vars' = vars
  BY <1>1 DEF vars, ApprovalInv, Data, Covered, Holders, Approvals
<1>2. CASE PlanFails
  BY <1>2, EndsNow DEF PlanFails, Actors
<1>3. ASSUME NEW c \in Calls, Operator(c) PROVE ApprovalInv'
  BY <1>3, DecidesCovers, ResumeCovers
     DEF Operator, Approve, Reject, ApproveUnguarded, RejectUnguarded
<1>4. CASE Next
  BY <1>2, <1>3, <1>4, PlanCovers, ContinueCovers, ResultCovers, WriteCovers, LostCovers
     DEF Next, Results
<1> QED BY <1>1, <1>4

(* A gated step is executed no more often than it was approved, through    *)
(* whatever endpoints, resumptions, losses and interleavings.              *)
THEOREM ExecutionsApprovedCorrect == Spec => []ExecutionsApproved
<1>1. ApprovalInv => ExecutionsApproved
  <2> SUFFICES ASSUME ApprovalInv, NEW s \in Gated PROVE executed[s] <= Approvals(s)
    BY DEF ExecutionsApproved
  <2>1. s \in 1..MaxSteps /\ Costs(s, plan)
    <3>1. s \in 1..Len(plan) /\ plan[s] \in Gating
      BY DEF Gated, Gating
    <3>2. Len(plan) \in Nat /\ Len(plan) <= MaxSteps /\ MaxSteps \in Nat
      BY BoundsAssumption DEF ApprovalInv, Data
    <3> QED BY <3>1, <3>2 DEF Costs
  <2>2. Covered(s) /\ executed[s] \in Nat /\ Sequence(history)
    BY <2>1 DEF ApprovalInv, Data
  <2>3. Cardinality(Holders(s)) \in Nat /\ Approvals(s) \in Nat
    BY <2>2, HoldersFinite, ApprovalsCounted DEF Holders
  <2> QED BY <2>2, <2>3 DEF Covered
<1> QED BY <1>1, ApprovalInitial, ApprovalInductive, PTL DEF Spec
-----------------------------------------------------------------------------
(* Types.                                                                  *)

Places == 0..(MaxSteps + 1)

Doer == [kind : Kinds, pc : {"idle", "planning", "deciding", "executing", "ending"},
         start : Places, index : Places, granted : BOOLEAN,
         numbers : Seq(Nat \ {0}), todo : Seq(Write)]

(* A step that a resumption recorded is one of the plan p.                 *)
Placed(r, p) == r.phase = "failed_resume" => r.step \in 1..Len(p)

WritesPlaced(v, p) ==
  \A k \in DOMAIN v : "insert" \in DOMAIN v[k] => Placed(v[k].insert, p)

Driving == {"agent", "legacy", "continue", "resume"}

(* What a driver that is as d knows of the plan p.                         *)
Drives(d, p) ==
  /\ d.kind \in Driving
  /\ d.kind \in {"continue", "resume"} => Len(d.numbers) = Len(p)

Fits(d, p) ==
  /\ d.pc = "planning" => p = <<>> /\ d.kind = "agent"
  /\ d.pc = "executing" => d.index \in 1..Len(p) /\ Drives(d, p)
  /\ d.pc = "deciding" => d.start \in StepIds
  /\ WritesPlaced(d.todo, p)

TypeInv ==
  /\ TypeOK
  /\ actor \in [Actors -> Doer]
  /\ \A i \in DOMAIN records : Placed(records[i], plan)
  /\ \A a \in Actors : Fits(actor[a], plan) /\ (actor[a].pc = "planning" => a = Agent)

(* The kinds of writes.                                                    *)
LEMMA WriteKinds ==
  ASSUME NEW w \in Write
  PROVE  /\ "insert" \in DOMAIN w => w.insert \in Record
         /\ "update" \in DOMAIN w => /\ w.update \in StepIds
                                     /\ w.status \in {"approved", "rejected", "success", "failed"}
                                     /\ w.error \in Errors
         /\ "decide" \in DOMAIN w => w.decide \in Decision
         /\ "run" \in DOMAIN w => w.run \in RunStatuses
BY DEF Write

LEMMA WriteForms ==
  /\ \A r \in Record : [insert |-> r] \in Write /\ DOMAIN [insert |-> r] = {"insert"}
  /\ \A s \in StepIds, e \in Errors,
        st \in {"approved", "rejected", "success", "failed"} :
          LET w == [update |-> s, status |-> st, error |-> e]
          IN w \in Write /\ DOMAIN w = {"update", "status", "error"}
  /\ \A x \in Decision : [decide |-> x] \in Write /\ DOMAIN [decide |-> x] = {"decide"}
  /\ \A r \in RunStatuses : [run |-> r] \in Write /\ DOMAIN [run |-> r] = {"run"}
BY DEF Write

(* The greatest member of a bounded set of numbers.                        *)
LEMMA GreatestNumber ==
  ASSUME NEW n \in Nat, NEW T \in SUBSET 0..n, T # {}
  PROVE  Max(T) \in T /\ \A y \in T : Max(T) >= y
<1> DEFINE U == {n - y : y \in T}
<1>1. U \in SUBSET Nat /\ U # {}
  <2>1. \A y \in T : y \in 0..n
    OBVIOUS
  <2>2. \A y \in 0..n : n - y \in Nat
    OBVIOUS
  <2>3. \A y \in T : n - y \in U
    OBVIOUS
  <2> QED BY <2>1, <2>2, <2>3
<1>2. PICK u \in U : \A v \in U : ~ (<<v, u>> \in OpToRel(<, Nat))
  BY <1>1, NatLessThanWellFounded, WFMin
<1>3. \A v \in U : u <= v
  <2> SUFFICES ASSUME NEW v \in U PROVE u <= v
    OBVIOUS
  <2>1. ~ (v < u) /\ v \in Nat /\ u \in Nat
    BY <1>1, <1>2 DEF OpToRel
  <2> QED BY <2>1
<1>4. PICK x \in T : u = n - x
  OBVIOUS
<1>5. \A y \in T : x >= y
  <2> SUFFICES ASSUME NEW y \in T PROVE x >= y
    OBVIOUS
  <2>1. u <= n - y
    BY <1>3
  <2> QED BY <1>4, <2>1
<1> QED BY <1>5 DEF Max

LEMMA LatestRecord ==
  ASSUME records \in Seq(Record), NEW s, RecordsOf(s) # {}
  PROVE  /\ Max(RecordsOf(s)) \in RecordsOf(s) /\ \A i \in RecordsOf(s) : Max(RecordsOf(s)) >= i
         /\ Max(RecordsOf(s)) \in 1..Len(records)
         /\ Latest(s) \in Record /\ Latest(s).step = s
<1>1. RecordsOf(s) \in SUBSET 0..Len(records) /\ Len(records) \in Nat
  BY DEF RecordsOf
<1>2. /\ Max(RecordsOf(s)) \in RecordsOf(s) /\ \A i \in RecordsOf(s) : Max(RecordsOf(s)) >= i
  BY <1>1, GreatestNumber
<1> QED BY <1>2 DEF RecordsOf, Latest

LEMMA AttemptsBounded ==
  ASSUME records \in Seq(Record)
  PROVE  \E b \in Nat : \A i \in 1..Len(records) : records[i].attempt <= b
<1> DEFINE Unbounded == {m \in 0..Len(records) :
                          ~ \E b \in Nat : \A i \in 1..m : records[i].attempt <= b}
<1>1. Unbounded \in SUBSET Nat /\ Len(records) \in Nat
  OBVIOUS
<1>2. SUFFICES ASSUME Unbounded # {} PROVE FALSE
  <2>1. Len(records) \notin Unbounded => \E b \in Nat : \A i \in 1..Len(records) : records[i].attempt <= b
    BY <1>1
  <2> QED BY <2>1
<1>3. PICK m \in Unbounded : \A k \in Unbounded : ~ (<<k, m>> \in OpToRel(<, Nat))
  BY <1>1, <1>2, NatLessThanWellFounded, WFMin
<1>4. /\ m \in Nat /\ m <= Len(records)
      /\ ~ \E b \in Nat : \A i \in 1..m : records[i].attempt <= b
  BY <1>1
<1>a. \A i \in 1..Len(records) : records[i].attempt \in Nat
  <2>1. \A i \in 1..Len(records) : records[i] \in Record
    OBVIOUS
  <2> QED BY <2>1 DEF Record
<1>5. m # 0
  <2>1. \A i \in 1..0 : records[i].attempt <= 0
    OBVIOUS
  <2> QED BY <1>4, <2>1
<1>6. m - 1 \notin Unbounded
  <2>1. m - 1 < m /\ m - 1 \in Nat /\ m \in Nat
    BY <1>4, <1>5
  <2> HIDE DEF Unbounded
  <2> QED BY <1>3, <2>1 DEF OpToRel
<1>7. PICK b \in Nat : \A i \in 1..(m - 1) : records[i].attempt <= b
  BY <1>1, <1>4, <1>5, <1>6
<1> HIDE DEF Unbounded
<1>8. records[m].attempt \in Nat
  <2>1. m \in 1..Len(records)
    BY <1>1, <1>4, <1>5
  <2> QED BY <1>a, <2>1
<1>9. \A i \in 1..m : records[i].attempt <= b + records[m].attempt
  <2> SUFFICES ASSUME NEW i \in 1..m PROVE records[i].attempt <= b + records[m].attempt
    OBVIOUS
  <2>1. records[i].attempt \in Nat
    BY <1>1, <1>4, <1>a
  <2>2. i = m \/ i \in 1..(m - 1)
    BY <1>4
  <2> QED BY <1>7, <1>8, <2>1, <2>2
<1>10. b + records[m].attempt \in Nat
  BY <1>8
<1> QED BY <1>4, <1>9, <1>10

LEMMA AttemptsNumbered ==
  ASSUME records \in Seq(Record), NEW s
  PROVE  NextAttempt(s) \in Nat \ {0}
<1> DEFINE T == {0} \cup {records[i].attempt : i \in RecordsOf(s)}
<1>1. \A i \in RecordsOf(s) : i \in 1..Len(records) /\ records[i].attempt \in Nat \ {0}
  <2>1. \A i \in 1..Len(records) : records[i] \in Record
    OBVIOUS
  <2> QED BY <2>1 DEF Record, RecordsOf
<1>2. PICK b \in Nat : \A i \in 1..Len(records) : records[i].attempt <= b
  BY AttemptsBounded
<1>3. T \in SUBSET 0..b /\ T # {}
  <2>1. \A i \in RecordsOf(s) : records[i].attempt \in 0..b
    BY <1>1, <1>2
  <2> QED BY <2>1
<1> HIDE DEF T
<1>4. Max(T) \in Nat
  <2>1. Max(T) \in T
    BY <1>3, GreatestNumber
  <2>2. \A x \in T : x \in Nat
    BY <1>3
  <2> QED BY <2>1, <2>2
<1> QED BY <1>4 DEF NextAttempt, T
-----------------------------------------------------------------------------
(* What the batches consist of.                                            *)

LEMMA RecordsMade ==
  ASSUME NEW d \in Doer, NEW p \in Seq(Gates), Len(p) <= MaxSteps, Drives(d, p),
         NEW i \in 1..Len(p), NEW n \in Nat \ {0},
         NEW st \in {"pending_approval", "approved", "rejected", "success", "failed"},
         NEW error \in Errors
  PROVE  /\ Attempt(d, i, n, st, error) \in Record
         /\ Attempt(d, i, n, st, error).step = i /\ Attempt(d, i, n, st, error).status = st
         /\ i \in StepIds
<1> DEFINE at == IF d.kind \in {"agent", "legacy"} THEN n ELSE d.numbers[i] + n - 1
           ph == CASE d.kind = "continue" -> "approval_continuation"
                   [] d.kind = "resume" -> "failed_resume"
                   [] OTHER -> "initial"
<1>1. at \in Nat \ {0}
  <2>1. d.kind \in {"continue", "resume"} => d.numbers[i] \in Nat \ {0}
    BY DEF Drives, Doer
  <2>2. d.kind \in {"agent", "legacy", "continue", "resume"}
    BY DEF Drives, Driving
  <2> QED BY <2>1, <2>2
<1>2. ph \in {"initial", "approval_continuation", "failed_resume"}
  OBVIOUS
<1>3. i \in StepIds
  BY BoundsAssumption DEF StepIds
<1>4. Attempt(d, i, n, st, error) = [step |-> i, status |-> st, attempt |-> at, phase |-> ph,
                                     error |-> error]
  BY DEF Attempt
<1> HIDE DEF at, ph
<1> QED BY <1>1, <1>2, <1>3, <1>4 DEF Record

LEMMA UnnumberedMade ==
  ASSUME NEW i \in StepIds,
         NEW st \in {"pending_approval", "approved", "rejected", "success", "failed"},
         NEW error \in Errors
  PROVE  LET r == Unnumbered(i, st, error)
         IN r \in Record /\ r.step = i /\ r.status = st /\ r.phase = "initial"
BY DEF Unnumbered, Record

(* A write of step i that says st; only an update needs an earlier record. *)
Marks(w, i, st, source) ==
  \/ \E r \in Record : w = [insert |-> r] /\ r.step = i /\ r.status = st
  \/ \E e \in Errors :
        source /\ w = [update |-> i, status |-> st, error |-> e]

LEMMA MarksWrite ==
  ASSUME NEW p, NEW i \in StepIds, i \in 1..Len(p), NEW source,
         NEW st \in {"success", "failed"}, NEW w, Marks(w, i, st, source)
  PROVE  /\ w \in Write /\ ("insert" \in DOMAIN w => Placed(w.insert, p))
         /\ "insert" \in DOMAIN w \/ "update" \in DOMAIN w
<1>1. CASE \E r \in Record : w = [insert |-> r] /\ r.step = i /\ r.status = st
  BY <1>1, WriteForms DEF Placed
<1>2. CASE \E e \in Errors : w = [update |-> i, status |-> st, error |-> e]
  <2>1. PICK e \in Errors : w = [update |-> i, status |-> st, error |-> e]
    BY <1>2
  <2>2. st \in {"approved", "rejected", "success", "failed"}
    OBVIOUS
  <2>3. w \in Write
    BY <2>1, <2>2, WriteForms
  <2>4. DOMAIN w = {"update", "status", "error"}
    BY <2>1, <2>2
  <2> QED BY <2>3, <2>4
<1> QED BY <1>1, <1>2 DEF Marks

LEMMA PauseMade ==
  ASSUME NEW d \in Doer, NEW p \in Seq(Gates), Len(p) <= MaxSteps, Drives(d, p),
         NEW i \in 1..Len(p)
  PROVE  /\ \E r \in Record, x \in Decision :
               /\ Pause(d, i) = << [insert |-> r], [decide |-> x], [run |-> "awaiting_approval"] >>
               /\ r.step = i /\ r.status = "pending_approval"
               /\ x = [step |-> i, decision |-> "requested"]
         /\ Pause(d, i) \in Seq(Write) /\ WritesPlaced(Pause(d, i), p)
<1> DEFINE r == IF d.kind = "resume" THEN Attempt(d, i, 1, "pending_approval", "none")
                ELSE Unnumbered(i, "pending_approval", "none")
           x == [step |-> i, decision |-> "requested"]
<1>1. r \in Record /\ r.step = i /\ r.status = "pending_approval" /\ i \in StepIds
  BY RecordsMade, UnnumberedMade DEF Errors
<1>2. x \in Decision
  BY <1>1 DEF Decision
<1>3. Pause(d, i) = << [insert |-> r], [decide |-> x], [run |-> "awaiting_approval"] >>
  BY DEF Pause
<1> HIDE DEF r, x
<1>4. /\ [insert |-> r] \in Write /\ DOMAIN [insert |-> r] = {"insert"}
      /\ [decide |-> x] \in Write /\ DOMAIN [decide |-> x] = {"decide"}
      /\ [run |-> "awaiting_approval"] \in Write
      /\ DOMAIN [run |-> "awaiting_approval"] = {"run"}
  BY <1>1, <1>2, WriteForms DEF RunStatuses
<1>5. [insert |-> r].insert = r /\ Placed(r, p)
  BY <1>1 DEF Placed
<1>6. Pause(d, i) \in Seq(Write)
  BY <1>3, <1>4
<1>7. WritesPlaced(Pause(d, i), p)
  <2> SUFFICES ASSUME NEW k \in 1..3, "insert" \in DOMAIN Pause(d, i)[k]
               PROVE  Placed(Pause(d, i)[k].insert, p)
    BY <1>3 DEF WritesPlaced
  <2>1. k = 1 \/ k = 2 \/ k = 3
    OBVIOUS
  <2> QED BY <1>3, <1>4, <1>5, <2>1
<1> QED BY <1>1, <1>2, <1>3, <1>6, <1>7 DEF x

LEMMA RefusalMade ==
  ASSUME NEW d \in Doer, NEW p \in Seq(Gates), Len(p) <= MaxSteps, Drives(d, p),
         NEW i \in 1..Len(p), NEW error \in {"policy", "arguments"}
  PROVE  /\ \E w \in Write : /\ Refusal(d, i, error) = << w, [run |-> "failed"] >>
                             /\ Marks(w, i, "failed", Source(d, i))
         /\ Refusal(d, i, error) \in Seq(Write) /\ WritesPlaced(Refusal(d, i, error), p)
<1> DEFINE r == IF d.kind = "continue" THEN Unnumbered(i, "failed", error)
                ELSE Attempt(d, i, 1, "failed", error)
           w == IF Source(d, i) THEN [update |-> i, status |-> "failed", error |-> error]
                ELSE [insert |-> r]
<1>1. r \in Record /\ r.step = i /\ r.status = "failed" /\ i \in StepIds
  BY RecordsMade, UnnumberedMade DEF Errors
<1>2. Refusal(d, i, error) = << w, [run |-> "failed"] >>
  BY DEF Refusal
<1> HIDE DEF r
<1>3. Marks(w, i, "failed", Source(d, i))
  BY <1>1 DEF Marks, Errors
<1> HIDE DEF w
<1>4. w \in Write /\ ("insert" \in DOMAIN w => Placed(w.insert, p))
  BY <1>1, <1>3, MarksWrite
<1>5. [run |-> "failed"] \in Write /\ DOMAIN [run |-> "failed"] = {"run"}
  BY WriteForms DEF RunStatuses
<1>6. Refusal(d, i, error) \in Seq(Write)
  BY <1>2, <1>4, <1>5
<1>7. WritesPlaced(Refusal(d, i, error), p)
  <2> SUFFICES ASSUME NEW k \in 1..2, "insert" \in DOMAIN Refusal(d, i, error)[k]
               PROVE  Placed(Refusal(d, i, error)[k].insert, p)
    BY <1>2 DEF WritesPlaced
  <2>1. k = 1 \/ k = 2
    OBVIOUS
  <2> QED BY <1>2, <1>4, <1>5, <2>1
<1> QED BY <1>2, <1>3, <1>4, <1>6, <1>7

LEMMA StoredMade ==
  ASSUME NEW d \in Doer, NEW p \in Seq(Gates), Len(p) <= MaxSteps, Drives(d, p),
         NEW i \in 1..Len(p), NEW tries \in 1..MaxTries, NEW st \in {"success", "failed"}
  PROVE  LET v == Stored(d, i, tries, st)
         IN /\ Len(v) = tries /\ v \in Seq(Write) /\ WritesPlaced(v, p)
            /\ \A n \in 1..tries : Marks(v[n], i, IF n < tries THEN "failed" ELSE st, Source(d, i))
<1> DEFINE v == Stored(d, i, tries, st)
<1>1. ASSUME NEW n \in 1..tries
      PROVE  /\ Marks(v[n], i, IF n < tries THEN "failed" ELSE st, Source(d, i))
             /\ v[n] \in Write /\ ("insert" \in DOMAIN v[n] => Placed(v[n].insert, p))
  <2> DEFINE s == IF n < tries THEN "failed" ELSE st
             e == IF n < tries \/ st = "failed" THEN "tool" ELSE "none"
             r == Attempt(d, i, n, s, e)
  <2>1. s \in {"success", "failed"} /\ e \in Errors /\ n \in Nat \ {0}
    BY BoundsAssumption DEF Errors
  <2>2. v[n] = IF Source(d, i) /\ n = 1 THEN [update |-> i, status |-> r.status, error |-> r.error]
               ELSE [insert |-> r]
    BY DEF Stored
  <2>3. r.error = e
    BY DEF Attempt
  <2> HIDE DEF s, e
  <2>4. r \in Record /\ r.step = i /\ r.status = s /\ i \in StepIds
    BY <2>1, RecordsMade
  <2> HIDE DEF r, v
  <2>5. Marks(v[n], i, s, Source(d, i))
    BY <2>1, <2>2, <2>3, <2>4 DEF Marks
  <2>6. v[n] \in Write /\ ("insert" \in DOMAIN v[n] => Placed(v[n].insert, p))
    BY <2>1, <2>4, <2>5, MarksWrite
  <2> QED BY <2>5, <2>6 DEF s
<1>2. tries \in Nat /\ DOMAIN v = 1..tries /\ v = [n \in 1..tries |-> v[n]]
  BY BoundsAssumption DEF Stored
<1> HIDE DEF v
<1>3. v \in [1..tries -> Write]
  BY <1>1, <1>2
<1>4. v \in Seq(Write) /\ Len(v) = tries
  BY <1>2, <1>3
<1> QED BY <1>1, <1>2, <1>4 DEF WritesPlaced, v
-----------------------------------------------------------------------------
LEMMA BatchesJoin ==
  ASSUME NEW p, NEW v \in Seq(Write), NEW w \in Seq(Write), WritesPlaced(v, p), WritesPlaced(w, p)
  PROVE  v \o w \in Seq(Write) /\ WritesPlaced(v \o w, p)
<1>1. v \o w \in Seq(Write) /\ Len(v \o w) = Len(v) + Len(w) /\ Len(v) \in Nat /\ Len(w) \in Nat
  OBVIOUS
<1>2. ASSUME NEW k \in 1..Len(v \o w), "insert" \in DOMAIN (v \o w)[k]
      PROVE  Placed((v \o w)[k].insert, p)
  <2>1. CASE k <= Len(v)
    <3>1. (v \o w)[k] = v[k] /\ k \in DOMAIN v
      BY <1>1, <2>1
    <3> QED BY <1>2, <3>1 DEF WritesPlaced
  <2>2. CASE k > Len(v)
    <3>1. (v \o w)[k] = w[k - Len(v)] /\ k - Len(v) \in DOMAIN w
      BY <1>1, <2>2
    <3> QED BY <1>2, <3>1 DEF WritesPlaced
  <2> QED BY <1>1, <2>1, <2>2
<1> QED BY <1>1, <1>2 DEF WritesPlaced

LEMMA RunWritten ==
  ASSUME NEW r \in RunStatuses, NEW p
  PROVE  << [run |-> r] >> \in Seq(Write) /\ WritesPlaced(<< [run |-> r] >>, p)
<1>1. [run |-> r] \in Write /\ DOMAIN [run |-> r] = {"run"}
  BY WriteForms
<1> QED BY <1>1 DEF WritesPlaced

LEMMA ActorTyped ==
  ASSUME TypeInv, NEW a \in Actors, NEW m \in Doer, actor' = [actor EXCEPT ![a] = m],
         Fits(m, plan'), m.pc = "planning" => a = Agent,
         plan' = plan \/ (plan = <<>> /\ a = Agent), plan' \in Seq(Gates), Len(plan') <= MaxSteps,
         records' \in Seq(Record), \A i \in DOMAIN records' : Placed(records'[i], plan'),
         history' \in Seq(Decision), status' \in RunStatuses,
         executed' \in [1..MaxSteps -> Nat], interrupted' \in BOOLEAN
  PROVE  TypeInv'
<1>1. actor' \in [Actors -> Doer] /\ actor'[a] = m /\ \A b \in Actors \ {a} : actor'[b] = actor[b]
  BY DEF TypeInv
<1>2. ASSUME NEW b \in Actors PROVE Fits(actor'[b], plan') /\ (actor'[b].pc = "planning" => b = Agent)
  <2>1. CASE b = a
    BY <1>1, <2>1
  <2>2. CASE b # a
    <3>1. Fits(actor[b], plan) /\ (actor[b].pc = "planning" => b = Agent) /\ actor'[b] = actor[b]
      BY <1>1, <2>2 DEF TypeInv
    <3>2. CASE plan' = plan
      BY <3>1, <3>2
    <3>3. CASE plan = <<>> /\ a = Agent
      <4>1. actor[b].pc \notin {"planning", "executing"}
        BY <2>2, <3>1, <3>3 DEF Fits
      <4>2. WritesPlaced(actor[b].todo, plan')
        BY <3>1, <3>3 DEF Fits, WritesPlaced, Placed
      <4> QED BY <3>1, <4>1, <4>2 DEF Fits
    <3> QED BY <3>2, <3>3
  <2> QED BY <2>1, <2>2
<1>3. TypeOK'
  BY <1>1 DEF TypeOK, Doer, Places
<1> QED BY <1>1, <1>2, <1>3 DEF TypeInv

LEMMA Parts ==
  ASSUME TypeInv
  PROVE  /\ plan \in Seq(Gates) /\ Len(plan) <= MaxSteps /\ Len(plan) \in Nat /\ MaxSteps \in Nat \ {0}
         /\ records \in Seq(Record) /\ history \in Seq(Decision) /\ status \in RunStatuses
         /\ executed \in [1..MaxSteps -> Nat] /\ interrupted \in BOOLEAN
         /\ actor \in [Actors -> Doer] /\ \A i \in DOMAIN records : Placed(records[i], plan)
         /\ \A a \in Actors : actor[a] \in Doer /\ Fits(actor[a], plan)
                              /\ (actor[a].pc = "planning" => a = Agent)
BY BoundsAssumption DEF TypeInv, TypeOK

LEMMA GoesTyped ==
  ASSUME TypeInv, NEW a \in Actors, NEW d \in Doer, Drives(d, plan'),
         plan' \in Seq(Gates), Len(plan') <= MaxSteps, plan' = plan \/ (plan = <<>> /\ a = Agent),
         NEW i \in 1..(Len(plan') + 1), NEW w \in Seq(Write), WritesPlaced(w, plan'),
         Goes(a, d, i, plan', w), UNCHANGED <<records, history, status, interrupted>>
  PROVE  TypeInv'
<1> DEFINE p == plan'
<1>0. /\ Len(p) \in Nat /\ MaxSteps \in Nat \ {0} /\ i \in Places
      /\ executed \in [1..MaxSteps -> Nat] /\ actor \in [Actors -> Doer]
  BY Parts DEF Places
<1>1. \A k \in DOMAIN records' : Placed(records'[k], plan')
  BY Parts DEF Placed
<1>2. ASSUME NEW m \in Doer, actor' = [actor EXCEPT ![a] = m], Fits(m, p), m.pc # "planning",
             executed' \in [1..MaxSteps -> Nat]
      PROVE  TypeInv'
  BY <1>1, <1>2, ActorTyped, Parts
<1>3. ASSUME NEW v \in Seq(Write), WritesPlaced(v, p), executed' = executed,
             actor' = [actor EXCEPT ![a] = [d EXCEPT !.pc = "ending", !.index = i, !.todo = w \o v]]
      PROVE  TypeInv'
  <2> DEFINE m == [d EXCEPT !.pc = "ending", !.index = i, !.todo = w \o v]
  <2>1. w \o v \in Seq(Write) /\ WritesPlaced(w \o v, p)
    BY <1>3, BatchesJoin
  <2>2. m \in Doer /\ m.pc = "ending" /\ m.todo = w \o v
    BY <1>0, <2>1 DEF Doer
  <2>3. actor' = [actor EXCEPT ![a] = m]
    BY <1>3
  <2> HIDE DEF m
  <2>4. Fits(m, p)
    BY <2>1, <2>2 DEF Fits
  <2> QED BY <1>0, <1>2, <1>3, <2>2, <2>3, <2>4
<1>4. CASE i > Len(p)
  <2> DEFINE r == IF p = <<>> THEN "failed" ELSE "completed"
  <2>1. executed' = executed
    BY <1>0, <1>4 DEF Goes
  <2>2. actor' = [actor EXCEPT ![a] = [d EXCEPT !.pc = "ending", !.index = i,
                                                !.todo = w \o << [run |-> r] >>]]
    BY <1>0, <1>4 DEF Goes
  <2>3. r \in RunStatuses
    BY DEF RunStatuses
  <2> HIDE DEF r
  <2>4. << [run |-> r] >> \in Seq(Write) /\ WritesPlaced(<< [run |-> r] >>, p)
    BY <2>3, RunWritten
  <2> QED BY <1>3, <2>1, <2>2, <2>4
<1>5. CASE i <= Len(p) /\ Pauses(d, i, p[i])
  <2>0. i <= Len(p) /\ ~(i > Len(p))
    BY <1>0, <1>5
  <2>1. executed' = executed
    BY <1>0, <1>5 DEF Goes
  <2>2. actor' = [actor EXCEPT ![a] = [d EXCEPT !.pc = "ending", !.index = i,
                                                !.todo = w \o Pause(d, i)]]
    BY <1>5, <2>0 DEF Goes
  <2>3. Pause(d, i) \in Seq(Write) /\ WritesPlaced(Pause(d, i), p)
    BY <1>0, <1>5, PauseMade
  <2> QED BY <1>3, <2>1, <2>2, <2>3
<1>6. ASSUME NEW error \in {"policy", "arguments"}, i <= Len(p), executed' = executed,
             actor' = [actor EXCEPT ![a] = [d EXCEPT !.pc = "ending", !.index = i,
                                                     !.todo = w \o Refusal(d, i, error)]]
      PROVE  TypeInv'
  <2>1. Refusal(d, i, error) \in Seq(Write) /\ WritesPlaced(Refusal(d, i, error), p)
    BY <1>0, <1>6, RefusalMade
  <2> QED BY <1>3, <1>6, <2>1
<1>7. ASSUME i <= Len(p),
             actor' = [actor EXCEPT ![a] = [d EXCEPT !.pc = "executing", !.index = i, !.todo = w]],
             executed' = IF w = <<>> THEN [executed EXCEPT ![i] = executed[i] + 1] ELSE executed
      PROVE  TypeInv'
  <2> DEFINE m == [d EXCEPT !.pc = "executing", !.index = i, !.todo = w]
  <2>1. actor' = [actor EXCEPT ![a] = m]
    BY <1>7
  <2>2. executed' = IF w = <<>> THEN [executed EXCEPT ![i] = executed[i] + 1] ELSE executed
    BY <1>7
  <2>3. executed' \in [1..MaxSteps -> Nat]
    <3>1. i \in 1..MaxSteps
      BY <1>0, <1>7
    <3>2. CASE w = <<>>
      BY <1>0, <2>2, <3>1, <3>2
    <3>3. CASE w # <<>>
      BY <1>0, <2>2, <3>3
    <3> QED BY <3>2, <3>3
  <2>4. /\ m \in Doer /\ m.pc = "executing" /\ m.index = i /\ m.todo = w
        /\ m.kind = d.kind /\ m.numbers = d.numbers
    BY <1>0 DEF Doer
  <2> HIDE DEF m
  <2>5. Fits(m, p)
    BY <1>0, <1>7, <2>4 DEF Fits, Drives
  <2> QED BY <1>2, <2>1, <2>3, <2>4, <2>5
<1> QED BY <1>4, <1>5, <1>6, <1>7 DEF Goes

LEMMA EndsTyped ==
  ASSUME TypeInv, NEW a \in Actors, NEW w \in Seq(Write), WritesPlaced(w, plan), Ends(a, w),
         UNCHANGED <<plan, records, history, status, interrupted>>
  PROVE  TypeInv'
<1> DEFINE m == [actor[a] EXCEPT !.pc = "ending", !.todo = w]
<1>1. /\ m \in Doer /\ m.pc = "ending" /\ m.todo = w
  BY Parts DEF Doer
<1>2. actor' = [actor EXCEPT ![a] = m] /\ executed' = executed
  BY Parts DEF Ends
<1> HIDE DEF m
<1>3. Fits(m, plan')
  BY <1>1 DEF Fits
<1>4. \A i \in DOMAIN records' : Placed(records'[i], plan')
  BY Parts
<1> QED BY <1>1, <1>2, <1>3, <1>4, Parts, ActorTyped

LEMMA IdleTyped ==
  /\ Idle \in Doer /\ Idle.pc = "idle" /\ Idle.todo = <<>> /\ Idle.kind = "none"
  /\ \A p : Fits(Idle, p)
<1>1. <<>> \in Seq(Nat \ {0}) /\ <<>> \in Seq(Write)
  OBVIOUS
<1>2. Idle \in Doer /\ Idle.pc = "idle" /\ Idle.todo = <<>> /\ Idle.kind = "none"
  BY <1>1, BoundsAssumption DEF Idle, Doer, Kinds, Places
<1> QED BY <1>2 DEF Fits, WritesPlaced

LEMMA NumbersTyped ==
  ASSUME TypeInv, NEW s
  PROVE  /\ ContinueNumbers(s) \in Seq(Nat \ {0}) /\ Len(ContinueNumbers(s)) = Len(plan)
         /\ \A g \in BOOLEAN : ResumeNumbers(s, g) \in Seq(Nat \ {0})
                               /\ Len(ResumeNumbers(s, g)) = Len(plan)
<1>1. records \in Seq(Record) /\ Len(plan) \in Nat
  BY Parts
<1>2. \A k : NextAttempt(k) \in Nat \ {0}
  BY <1>1, AttemptsNumbered
<1>3. RecordsOf(s) # {} => Latest(s).attempt \in Nat \ {0}
  BY <1>1, LatestRecord DEF Record
<1>4. ContinueNumbers(s) \in [1..Len(plan) -> Nat \ {0}]
  BY <1>2, <1>3 DEF ContinueNumbers
<1>5. \A g \in BOOLEAN : ResumeNumbers(s, g) \in [1..Len(plan) -> Nat \ {0}]
  BY <1>2, <1>3 DEF ResumeNumbers, HasPhase
<1> QED BY <1>1, <1>4, <1>5
-----------------------------------------------------------------------------
LEMMA PlanTyped ==
  ASSUME TypeInv, Plan
  PROVE  TypeInv'
<1>1. PICK n \in 0..MaxSteps : plan' \in [1..n -> Gates]
  BY DEF Plan
<1>2. plan' \in Seq(Gates) /\ Len(plan') <= MaxSteps /\ n \in Nat /\ Len(plan') \in Nat
  BY <1>1, BoundsAssumption
<1> DEFINE d == [actor[Agent] EXCEPT !.start = 1]
<1>3. /\ Agent \in Actors /\ plan = <<>> /\ Goes(Agent, d, 1, plan', <<>>)
      /\ UNCHANGED <<records, history, status, interrupted>>
      /\ actor[Agent] \in Doer /\ actor[Agent].kind = "agent"
  BY Parts DEF Plan, Fits, Actors
<1>4. d \in Doer /\ d.kind = "agent"
  <2>1. 1 \in Places
    BY BoundsAssumption DEF Places
  <2> QED BY <1>3, <2>1 DEF Doer
<1> HIDE DEF d
<1>5. Drives(d, plan')
  BY <1>4 DEF Drives, Driving
<1>6. 1 \in 1..(Len(plan') + 1) /\ <<>> \in Seq(Write) /\ WritesPlaced(<<>>, plan')
  BY <1>2 DEF WritesPlaced
<1> QED BY <1>2, <1>3, <1>4, <1>5, <1>6, GoesTyped

LEMMA PlanFailsTyped ==
  ASSUME TypeInv, PlanFails
  PROVE  TypeInv'
<1> DEFINE r == Unnumbered(0, "failed", "tool")
           w == << [insert |-> r], [run |-> "failed"] >>
<1>1. Agent \in Actors /\ Ends(Agent, w) /\ UNCHANGED <<plan, records, history, status, interrupted>>
  BY DEF PlanFails, Actors
<1>2. r \in Record /\ r.phase = "initial"
  <2>1. 0 \in StepIds
    BY BoundsAssumption DEF StepIds
  <2> QED BY <2>1, UnnumberedMade DEF Errors
<1> HIDE DEF r
<1>3. /\ [insert |-> r] \in Write /\ [insert |-> r].insert = r
      /\ [run |-> "failed"] \in Write /\ DOMAIN [run |-> "failed"] = {"run"}
  BY <1>2, WriteForms DEF RunStatuses
<1>4. w \in Seq(Write)
  BY <1>3
<1>5. WritesPlaced(w, plan)
  <2> SUFFICES ASSUME NEW k \in 1..2, "insert" \in DOMAIN w[k] PROVE Placed(w[k].insert, plan)
    BY DEF WritesPlaced
  <2>1. k = 1 \/ k = 2
    OBVIOUS
  <2> QED BY <1>2, <1>3, <2>1 DEF Placed
<1> QED BY <1>1, <1>4, <1>5, EndsTyped

(* An update and a decision.                                               *)
LEMMA DecidesTyped ==
  ASSUME TypeInv, NEW c \in Calls, NEW kind \in Kinds, NEW s \in StepIds,
         NEW decision \in {"approved", "rejected"}, NEW more \in RunStatuses,
         Decides(c, kind, s, decision, more)
  PROVE  TypeInv'
<1> DEFINE d == Driver(kind, s, FALSE, <<>>)
           u == [update |-> s, status |-> decision, error |-> "none"]
           x == [step |-> s, decision |-> decision]
           g == [decide |-> x]
           r == [run |-> more]
           w == <<u, g, r>>
           pc == IF decision = "approved" THEN "deciding" ELSE "ending"
           m == [d EXCEPT !.pc = pc, !.todo = w]
<1>1. /\ c \in Actors /\ actor' = [actor EXCEPT ![c] = m]
      /\ UNCHANGED <<plan, records, history, status, executed, interrupted>>
  BY DEF Decides, Actors
<1>2. d \in Doer /\ d.start = s
  <2>1. s \in Places /\ <<>> \in Seq(Nat \ {0})
    BY BoundsAssumption DEF StepIds, Places
  <2> QED BY <2>1, IdleTyped DEF Driver, Doer
<1> HIDE DEF d
<1>3. /\ u \in Write /\ DOMAIN u = {"update", "status", "error"}
      /\ g \in Write /\ DOMAIN g = {"decide"} /\ r \in Write /\ DOMAIN r = {"run"}
  <2>1. x \in Decision
    BY DEF Decision
  <2>2. u \in Write /\ DOMAIN u = {"update", "status", "error"}
    BY DEF Write, Errors
  <2> HIDE DEF x
  <2> QED BY <2>1, <2>2, WriteForms
<1> HIDE DEF u, g, r
<1>4. w \in Seq(Write)
  BY <1>3
<1>5. WritesPlaced(w, plan)
  <2> SUFFICES ASSUME NEW k \in 1..3, "insert" \in DOMAIN w[k] PROVE Placed(w[k].insert, plan)
    BY DEF WritesPlaced
  <2>1. k = 1 \/ k = 2 \/ k = 3
    OBVIOUS
  <2> QED BY <1>3, <2>1
<1> HIDE DEF w
<1>6. m \in Doer /\ m.pc = pc /\ m.start = s /\ m.todo = w
  BY <1>2, <1>4 DEF Doer
<1> HIDE DEF m
<1>7. Fits(m, plan') /\ m.pc # "planning"
  BY <1>1, <1>5, <1>6 DEF Fits
<1> QED BY <1>1, <1>6, <1>7, Parts, ActorTyped

LEMMA ContinueTyped ==
  ASSUME TypeInv, NEW c \in Calls, Continue(c)
  PROVE  TypeInv'
<1> DEFINE s == actor[c].start
<1>1. /\ c \in Actors /\ s \in StepIds /\ UNCHANGED <<plan, records, history, status, interrupted>>
      /\ s \in Places
  BY Parts, BoundsAssumption DEF Continue, Actors, Fits, StepIds, Places
<1>2. ASSUME NEW kind \in Driving, NEW numbers \in Seq(Nat \ {0}), s \in 1..(Len(plan) + 1),
             kind \in {"continue", "resume"} => Len(numbers) = Len(plan),
             NEW w \in Seq(Write), WritesPlaced(w, plan),
             Goes(c, Driver(kind, s, TRUE, numbers), s, plan, w)
      PROVE  TypeInv'
  <2> DEFINE d == Driver(kind, s, TRUE, numbers)
  <2>1. d \in Doer /\ d.kind = kind /\ d.numbers = numbers
    <3>1. kind \in Kinds
      BY DEF Driving, Kinds
    <3> QED BY <1>1, <3>1, IdleTyped DEF Driver, Doer
  <2> HIDE DEF d
  <2>2. Drives(d, plan') /\ Goes(c, d, s, plan', w) /\ plan' = plan
    BY <1>1, <1>2, <2>1 DEF Drives, d
  <2> QED BY <1>1, <1>2, <2>1, <2>2, Parts, GoesTyped
<1>3. CASE ContinuePlan(c, s)
  <2>1. CASE s \notin 1..Len(plan)
    <3>1. Ends(c, << [run |-> "approved_waiting_manual_resume"] >>)
      BY <1>3, <2>1 DEF ContinuePlan
    <3>2. /\ << [run |-> "approved_waiting_manual_resume"] >> \in Seq(Write)
          /\ WritesPlaced(<< [run |-> "approved_waiting_manual_resume"] >>, plan)
      <4>1. "approved_waiting_manual_resume" \in RunStatuses
        BY DEF RunStatuses
      <4> QED BY <4>1, RunWritten
    <3> QED BY <1>1, <3>1, <3>2, EndsTyped
  <2>2. CASE s \in 1..Len(plan)
    <3>1. /\ <<>> \in Seq(Write) /\ WritesPlaced(<<>>, plan) /\ s \in 1..(Len(plan) + 1)
          /\ <<>> \in Seq(Nat \ {0})
      BY <2>2, Parts DEF WritesPlaced
    <3>2. \/ Goes(c, Driver("continue", s, TRUE, ContinueNumbers(s)), s, plan, <<>>)
          \/ Goes(c, Driver("legacy", s, TRUE, <<>>), s, plan, <<>>)
      BY <1>3, <2>2 DEF ContinuePlan
    <3>3. "continue" \in Driving /\ "legacy" \in Driving
      BY DEF Driving
    <3> HIDE DEF s
    <3>4. CASE Goes(c, Driver("continue", s, TRUE, ContinueNumbers(s)), s, plan, <<>>)
      BY <1>2, <3>1, <3>3, <3>4, NumbersTyped
    <3>5. CASE Goes(c, Driver("legacy", s, TRUE, <<>>), s, plan, <<>>)
      BY <1>2, <3>1, <3>3, <3>5
    <3> QED BY <3>2, <3>4, <3>5
  <2> QED BY <2>1, <2>2
<1>4. CASE ContinueResumption(c, s) /\ actor[c].kind = "approve_step" /\ HasPhase(s, "failed_resume")
  <2>1. CASE actor' = [actor EXCEPT ![c] = Idle] /\ executed' = executed
    <3>1. \A i \in DOMAIN records' : Placed(records'[i], plan')
      BY <1>1, Parts DEF Placed
    <3> QED BY <1>1, <2>1, <3>1, IdleTyped, Parts, ActorTyped
  <2>2. CASE Goes(c, Driver("resume", s, TRUE, ResumeNumbers(s, TRUE)), s, plan,
                  << [run |-> "resuming_failed_run"] >>)
    <3>1. s \in 1..(Len(plan) + 1)
      <4>1. Latest(s).phase = "failed_resume" /\ RecordsOf(s) # {} /\ records \in Seq(Record)
        BY <1>4, Parts DEF HasPhase
      <4>2. Max(RecordsOf(s)) \in DOMAIN records /\ Latest(s).step = s
            /\ Latest(s) = records[Max(RecordsOf(s))]
        BY <4>1, LatestRecord DEF Latest
      <4>3. s \in 1..Len(plan)
        BY <4>1, <4>2, Parts DEF Placed
      <4> QED BY <4>3, Parts
    <3>2. "resume" \in Driving /\ "resuming_failed_run" \in RunStatuses
      BY DEF Driving, RunStatuses
    <3> HIDE DEF s
    <3> QED BY <1>2, <2>2, <3>1, <3>2, NumbersTyped, RunWritten
  <2> QED BY <1>4, <2>1, <2>2 DEF ContinueResumption
<1> QED BY <1>3, <1>4 DEF Continue

LEMMA ResumeTyped ==
  ASSUME TypeInv, NEW c \in Calls, Resume(c)
  PROVE  TypeInv'
<1> DEFINE s == Min(FailedSteps)
           d == Driver("resume", s, FALSE, ResumeNumbers(s, FALSE))
           w == << [run |-> "resuming_failed_run"] >>
<1>1. /\ c \in Actors /\ UNCHANGED <<plan, records, history, status, interrupted>>
      /\ Goes(c, d, s, plan, w) /\ FailedSteps # {}
  BY DEF Resume, Actors
<1>2. s \in 1..Len(plan)
  <2>1. FailedSteps \in SUBSET Nat /\ FailedSteps \subseteq 1..Len(plan)
    BY Parts DEF FailedSteps
  <2> QED BY <1>1, <2>1, LeastNumber
<1>3. s \in 1..(Len(plan) + 1) /\ s \in Places
  BY <1>2, Parts DEF Places
<1>4. d \in Doer /\ d.kind = "resume" /\ Len(d.numbers) = Len(plan)
  <2>1. ResumeNumbers(s, FALSE) \in Seq(Nat \ {0}) /\ Len(ResumeNumbers(s, FALSE)) = Len(plan)
    BY NumbersTyped
  <2>2. "resume" \in Kinds
    BY DEF Kinds
  <2> HIDE DEF s
  <2> QED BY <1>3, <2>1, <2>2, IdleTyped DEF Driver, Doer
<1>5. w \in Seq(Write) /\ WritesPlaced(w, plan)
  <2>1. "resuming_failed_run" \in RunStatuses
    BY DEF RunStatuses
  <2> QED BY <2>1, RunWritten
<1> HIDE DEF s, d, w
<1>6. Drives(d, plan') /\ Goes(c, d, s, plan', w) /\ plan' = plan
  BY <1>1, <1>4 DEF Drives, Driving
<1> QED BY <1>1, <1>3, <1>4, <1>5, <1>6, Parts, GoesTyped

LEMMA ResultTyped ==
  ASSUME TypeInv, NEW a \in Actors, NEW tries \in 1..MaxTries, NEW st \in {"success", "failed"},
         Result(a, tries, st)
  PROVE  TypeInv'
<1> DEFINE d == actor[a]
           w == Stored(d, d.index, tries, st)
<1>1. /\ UNCHANGED <<plan, records, history, status, interrupted>>
      /\ IF st = "success" THEN Goes(a, d, d.index + 1, plan, w)
         ELSE Ends(a, w \o << [run |-> "failed"] >>)
      /\ d \in Doer /\ d.index \in 1..Len(plan) /\ Drives(d, plan)
  BY Parts DEF Result, Fits
<1> HIDE DEF d
<1>2. w \in Seq(Write) /\ WritesPlaced(w, plan)
  BY <1>1, Parts, StoredMade
<1> HIDE DEF w
<1>3. CASE st = "success"
  <2>1. d.index + 1 \in 1..(Len(plan) + 1)
    BY <1>1, Parts
  <2>2. Drives(d, plan') /\ Goes(a, d, d.index + 1, plan', w) /\ plan' = plan
    BY <1>1, <1>3
  <2> QED BY <1>1, <1>2, <2>1, <2>2, Parts, GoesTyped
<1>4. CASE st # "success"
  <2>1. << [run |-> "failed"] >> \in Seq(Write) /\ WritesPlaced(<< [run |-> "failed"] >>, plan)
    <3>1. "failed" \in RunStatuses
      BY DEF RunStatuses
    <3> QED BY <3>1, RunWritten
  <2>2. w \o << [run |-> "failed"] >> \in Seq(Write) /\ WritesPlaced(w \o << [run |-> "failed"] >>, plan)
    BY <1>2, <2>1, BatchesJoin
  <2> QED BY <1>1, <1>4, <2>2, EndsTyped
<1> QED BY <1>3, <1>4

LEMMA WriteTyped ==
  ASSUME TypeInv, NEW a \in Actors, WriteLands(a)
  PROVE  TypeInv'
<1> DEFINE d == actor[a]
           w == Head(d.todo)
           rest == Tail(d.todo)
           m == IF rest = <<>> /\ d.pc = "ending" THEN Idle ELSE [d EXCEPT !.todo = rest]
<1>1. d \in Doer /\ d.todo \in Seq(Write) /\ d.todo # <<>> /\ Fits(d, plan)
      /\ (d.pc = "planning" => a = Agent)
  BY Parts DEF WriteLands, Doer
<1>2. /\ w \in Write /\ rest \in Seq(Write) /\ WritesPlaced(rest, plan)
      /\ ("insert" \in DOMAIN w => Placed(w.insert, plan))
  <2>1. w \in Write /\ rest \in Seq(Write) /\ w = d.todo[1] /\ 1 \in DOMAIN d.todo
        /\ \A k \in DOMAIN rest : rest[k] = d.todo[k + 1] /\ k + 1 \in DOMAIN d.todo
    BY <1>1
  <2>2. WritesPlaced(d.todo, plan)
    BY <1>1 DEF Fits
  <2> QED BY <2>1, <2>2 DEF WritesPlaced
<1>3. /\ actor' = [actor EXCEPT ![a] = m] /\ plan' = plan /\ interrupted' = interrupted
      /\ executed' = IF rest = <<>> /\ d.pc = "executing"
                     THEN [executed EXCEPT ![d.index] = executed[d.index] + 1] ELSE executed
  BY DEF WriteLands
<1>4. \/ /\ "insert" \in DOMAIN w /\ records' = Append(records, w.insert)
         /\ UNCHANGED <<history, status>>
      \/ /\ "update" \in DOMAIN w
         /\ records' = IF RecordsOf(w.update) = {} THEN records
                       ELSE [records EXCEPT ![Max(RecordsOf(w.update))].status = w.status,
                                            ![Max(RecordsOf(w.update))].error = w.error]
         /\ UNCHANGED <<history, status>>
      \/ "decide" \in DOMAIN w /\ history' = Append(history, w.decide) /\ UNCHANGED <<records, status>>
      \/ "run" \in DOMAIN w /\ status' = w.run /\ UNCHANGED <<records, history>>
  BY DEF WriteLands
<1>5. m \in Doer /\ Fits(m, plan') /\ (m.pc = "planning" => a = Agent)
  <2>1. CASE rest = <<>> /\ d.pc = "ending"
    BY <1>3, <2>1, IdleTyped
  <2>2. CASE ~(rest = <<>> /\ d.pc = "ending")
    <3>1. /\ m \in Doer /\ m.pc = d.pc /\ m.kind = d.kind /\ m.start = d.start /\ m.index = d.index
          /\ m.numbers = d.numbers /\ m.todo = rest
      BY <1>1, <1>2, <2>2 DEF Doer
    <3> HIDE DEF m, rest
    <3> QED BY <1>1, <1>2, <1>3, <3>1 DEF Fits, Drives
  <2> QED BY <2>1, <2>2
<1>6. executed' \in [1..MaxSteps -> Nat]
  <2>1. d.pc = "executing" => d.index \in 1..MaxSteps
    BY <1>1, Parts DEF Fits
  <2>2. CASE rest = <<>> /\ d.pc = "executing"
    <3> HIDE DEF d, rest
    <3> QED BY <1>3, <2>1, <2>2, Parts
  <2>3. CASE ~(rest = <<>> /\ d.pc = "executing")
    <3> HIDE DEF d, rest
    <3> QED BY <1>3, <2>3, Parts
  <2> QED BY <2>2, <2>3
<1> HIDE DEF m, w, rest
<1>7. records' \in Seq(Record) /\ \A i \in DOMAIN records' : Placed(records'[i], plan')
  <2>1. CASE records' = records
    BY <1>3, <2>1, Parts DEF Placed
  <2>2. CASE "insert" \in DOMAIN w /\ records' = Append(records, w.insert)
    <3>1. w.insert \in Record /\ records \in Seq(Record) /\ Placed(w.insert, plan)
      BY <1>2, <2>2, WriteKinds, Parts
    <3>2. records' \in Seq(Record) /\ DOMAIN records' = 1..(Len(records) + 1)
          /\ \A i \in DOMAIN records' : records'[i] = IF i \in DOMAIN records THEN records[i]
                                                      ELSE w.insert
      BY <2>2, <3>1
    <3> QED BY <1>3, <3>1, <3>2, Parts
  <2>3. CASE /\ "update" \in DOMAIN w /\ RecordsOf(w.update) # {}
             /\ records' = [records EXCEPT ![Max(RecordsOf(w.update))].status = w.status,
                                           ![Max(RecordsOf(w.update))].error = w.error]
    <3> DEFINE j == Max(RecordsOf(w.update))
    <3>1. w.status \in {"approved", "rejected", "success", "failed"}
          /\ w.error \in Errors
      BY <1>2, <2>3, WriteKinds
    <3>2. j \in 1..Len(records) /\ records \in Seq(Record)
      BY <2>3, Parts, LatestRecord
    <3> DEFINE r == [records[j] EXCEPT !.status = w.status, !.error = w.error]
    <3>3. records' = [records EXCEPT ![j] = r]
      BY <2>3, <3>2
    <3>4. r \in Record /\ r.phase = records[j].phase /\ r.step = records[j].step
      <4>1. records[j] \in Record
        BY <3>2
      <4> HIDE DEF j
      <4> QED BY <3>1, <4>1 DEF Record
    <3> HIDE DEF j, r
    <3>5. records' \in Seq(Record) /\ DOMAIN records' = DOMAIN records
          /\ \A i \in DOMAIN records : records'[i] = IF i = j THEN r ELSE records[i]
      BY <3>2, <3>3, <3>4
    <3> QED BY <1>3, <3>2, <3>4, <3>5, Parts DEF Placed
  <2> QED BY <1>4, <2>1, <2>2, <2>3
<1>8. history' \in Seq(Decision) /\ status' \in RunStatuses
  <2>1. CASE "decide" \in DOMAIN w /\ history' = Append(history, w.decide) /\ UNCHANGED <<records, status>>
    <3>1. w.decide \in Decision /\ history \in Seq(Decision)
      BY <1>2, <2>1, WriteKinds, Parts
    <3> QED BY <2>1, <3>1, Parts
  <2>2. CASE "run" \in DOMAIN w /\ status' = w.run /\ UNCHANGED <<records, history>>
    <3>1. w.run \in RunStatuses
      BY <1>2, <2>2, WriteKinds
    <3> QED BY <2>2, <3>1, Parts
  <2>3. CASE UNCHANGED <<history, status>>
    BY <2>3, Parts
  <2> QED BY <1>4, <2>1, <2>2, <2>3
<1> HIDE DEF d
<1> QED BY <1>3, <1>5, <1>6, <1>7, <1>8, Parts, ActorTyped

LEMMA LostTyped ==
  ASSUME TypeInv, NEW A, Lost(A)
  PROVE  TypeInv'
<1>1. /\ actor' = [a \in Actors |-> IF a \in A THEN Idle ELSE actor[a]]
      /\ interrupted' = TRUE /\ UNCHANGED <<plan, records, history, status, executed>>
  BY DEF Lost
<1>2. \A a \in Actors : actor'[a] \in Doer /\ Fits(actor'[a], plan')
                        /\ (actor'[a].pc = "planning" => a = Agent)
  BY <1>1, Parts, IdleTyped
<1>3. actor' \in [Actors -> Doer]
  BY <1>1, <1>2
<1>4. TypeOK'
  BY <1>1, <1>3, Parts DEF TypeOK, Doer, Places
<1> QED BY <1>1, <1>2, <1>3, <1>4, Parts DEF TypeInv, Placed

LEMMA TypeInitial == Init => TypeInv
<1> SUFFICES ASSUME Init PROVE TypeInv
  OBVIOUS
<1> DEFINE m == [Idle EXCEPT !.kind = "agent", !.pc = "planning"]
<1>1. m \in Doer /\ m.pc = "planning" /\ m.kind = "agent" /\ m.todo = <<>>
  BY IdleTyped DEF Doer, Kinds
<1>2. /\ actor = [a \in Actors |-> IF a = Agent THEN m ELSE Idle]
      /\ plan = <<>> /\ records = <<>> /\ history = <<>> /\ status = "running"
      /\ executed = [s \in 1..MaxSteps |-> 0] /\ interrupted = FALSE
  BY DEF Init
<1> HIDE DEF m
<1>3. Fits(m, plan)
  BY <1>1, <1>2 DEF Fits, WritesPlaced
<1>4. actor \in [Actors -> Doer]
  BY <1>1, <1>2, IdleTyped
<1>5. \A a \in Actors : Fits(actor[a], plan) /\ (actor[a].pc = "planning" => a = Agent)
  BY <1>1, <1>2, <1>3, IdleTyped
<1>6. TypeOK
  <2>1. \A a \in Actors : actor[a] \in Doer
    BY <1>4
  <2>2. plan \in Seq(Gates) /\ Len(plan) <= MaxSteps
    BY <1>2, BoundsAssumption
  <2>3. records \in Seq(Record) /\ history \in Seq(Decision)
    BY <1>2
  <2>4. status \in RunStatuses /\ executed \in [1..MaxSteps -> Nat] /\ interrupted \in BOOLEAN
    BY <1>2 DEF RunStatuses
  <2> QED BY <2>1, <2>2, <2>3, <2>4 DEF TypeOK, Doer, Places
<1> QED BY <1>2, <1>4, <1>5, <1>6 DEF TypeInv

LEMMA TypeInductive == TypeInv /\ [Next]_vars => TypeInv'
<1> SUFFICES ASSUME TypeInv, [Next]_vars PROVE TypeInv'
  OBVIOUS
<1>1. CASE vars' = vars
  BY <1>1 DEF vars, TypeInv, TypeOK, Placed
<1>2. ASSUME NEW c \in Calls, Operator(c) PROVE TypeInv'
  <2>1. {"approve", "approve_step", "reject"} \subseteq Kinds
        /\ {"resuming_after_approval", "rejected"} \subseteq RunStatuses
    BY DEF Kinds, RunStatuses
  <2>2. CASE \E s \in StepIds, kind \in Kinds, decision \in {"approved", "rejected"},
                more \in RunStatuses : Decides(c, kind, s, decision, more)
    BY <2>2, DecidesTyped
  <2>3. CASE \E s \in StepIds : \/ Approve(c, s) \/ Reject(c, s)
                                \/ ApproveUnguarded(c, s) \/ RejectUnguarded(c, s)
    BY <2>1, <2>2, <2>3 DEF Approve, Reject, ApproveUnguarded, RejectUnguarded
  <2> QED BY <1>2, <2>3, ResumeTyped DEF Operator
<1>3. CASE Next
  BY <1>2, <1>3, PlanTyped, PlanFailsTyped, ContinueTyped, ResultTyped, WriteTyped, LostTyped
     DEF Next, Results
<1> QED BY <1>1, <1>3

(* The type invariant, for any calls, plans and bounds: every batch of     *)
(* writes consists of rows of the tables, and a driver stays in its plan.  *)
THEOREM TypeCorrect == Spec => []TypeOK
<1>1. TypeInv => TypeOK
  BY DEF TypeInv
<1> QED BY <1>1, TypeInitial, TypeInductive, PTL DEF Spec
-----------------------------------------------------------------------------
(* One driver at a time.  With the guarded endpoints only, and without     *)
(* writes of threads and processes in between, at most one actor has work  *)
(* to do, and what it has still to write fits what the tables tell.        *)
(*                                                                         *)
(* Below, e is what the tables tell of each step, n the length of the plan *)
(* and r the status of the run.                                            *)

Seen == {"none", "pending_approval", "approved", "rejected", "success", "failed"}

Told == [s \in StepIds |-> Effective(s)]

Going == {"running", "resuming_after_approval", "resuming_failed_run"}

Tried == {"none", "failed", "approved"}

Run(r) == [run |-> r]

(* The plan is done before step f and untouched after it.                  *)
Reached(e, n, f) == \A k \in 1..n : /\ k < f => e[k] = "success"
                                    /\ k > f => e[k] = "none"

(* Write w makes st the status of step f.                                  *)
Writes(w, e, f, st) ==
  \/ "insert" \in DOMAIN w /\ w.insert.step = f /\ w.insert.status = st
  \/ "update" \in DOMAIN w /\ w.update = f /\ w.status = st /\ e[f] # "none"

(* What is left of v after its first k writes.                             *)
Beyond(v, k) == [j \in 1..(Len(v) - k) |-> v[k + j]]

(* v is what a driver that is as d and has arrived at step f writes, or    *)
(* what is left of it.                                                     *)
Arrived(e, n, d, f, v) ==
  \/ /\ d.pc = "executing" /\ d.index = f /\ f \in 1..n /\ e[f] \in Tried
     /\ v = <<>>
  \/ d.pc = "ending" /\ n > 0 /\ f = n + 1 /\ Len(v) = 1 /\ v[1] = Run("completed")
  \/ d.pc = "ending" /\ f \in 1..n /\ e[f] = "failed" /\ Len(v) = 1 /\ v[1] = Run("failed")
  \/ /\ d.pc = "ending" /\ f \in 1..n /\ e[f] \in Tried
     /\ Len(v) = 2 /\ Writes(v[1], e, f, "failed") /\ v[2] = Run("failed")
  \/ /\ d.pc = "ending" /\ f \in 1..n /\ e[f] \in Tried
     /\ Len(v) = 3 /\ Writes(v[1], e, f, "pending_approval")
     /\ "decide" \in DOMAIN v[2] /\ v[3] = Run("awaiting_approval")
  \/ /\ d.pc = "ending" /\ f \in 1..n /\ e[f] = "pending_approval"
     /\ Len(v) = 2 /\ "decide" \in DOMAIN v[1] /\ v[2] = Run("awaiting_approval")
  \/ /\ d.pc = "ending" /\ f \in 1..n /\ e[f] = "pending_approval"
     /\ Len(v) = 1 /\ v[1] = Run("awaiting_approval")

(* There is no plan.                                                       *)
NoPlan(e, n, d, v) ==
  /\ d.pc = "ending" /\ n = 0
  /\ \/ Len(v) = 1 /\ v[1] = Run("failed")
     \/ Len(v) = 2 /\ Writes(v[1], e, 0, "failed") /\ v[2] = Run("failed")

(* The results of step f, of which only the last may be a success, take    *)
(* the first k writes of v.                                                *)
Storing(e, n, d, f, v, k) ==
  /\ k \in 1..Len(v) /\ f \in 1..n /\ e[f] \in Tried
  /\ \A j \in 1..k : j < k => Writes(v[j], e, f, "failed")
  /\ \/ Writes(v[k], e, f, "success") /\ Arrived(e, n, d, f + 1, Beyond(v, k))
     \/ /\ Writes(v[k], e, f, "failed") /\ d.pc = "ending"
        /\ Len(v) = k + 1 /\ v[k + 1] = Run("failed")

(* The decision now on step f; the run becomes that of status last.        *)
Decided(e, f, v, now, last) ==
  \/ /\ Len(v) = 3 /\ e[f] = "pending_approval" /\ Writes(v[1], e, f, now)
     /\ "decide" \in DOMAIN v[2] /\ v[3] = Run(last)
  \/ Len(v) = 2 /\ e[f] = now /\ "decide" \in DOMAIN v[1] /\ v[2] = Run(last)
  \/ Len(v) = 1 /\ e[f] = now /\ v[1] = Run(last)

Deciding(e, n, r, d, f, v) ==
  /\ f \in 1..n
  /\ \/ /\ d.pc = "ending" /\ r \in Going \cup {"awaiting_approval"}
        /\ Decided(e, f, v, "rejected", "rejected")
     \/ /\ d.pc = "deciding" /\ d.start = f /\ r \in Going \cup {"awaiting_approval"}
        /\ Decided(e, f, v, "approved", "resuming_after_approval")
     \/ /\ d.pc = "deciding" /\ d.start = f /\ e[f] = "approved" /\ v = <<>>
        /\ r = "resuming_after_approval"

(* A resumption from step f begins.                                        *)
Resuming(e, n, r, d, f, v) ==
  /\ r \in {"failed", "resuming_after_approval"} /\ d.pc \in {"executing", "ending"}
  /\ f \in 1..n /\ e[f] \in {"failed", "approved"}
  /\ Len(v) > 0 /\ v[1] = Run("resuming_failed_run") /\ Arrived(e, n, d, f, Beyond(v, 1))

Working(e, n, r, d, f, v) ==
  \/ r \in Going /\ Arrived(e, n, d, f, v)
  \/ r \in Going /\ NoPlan(e, n, d, v)
  \/ r \in Going /\ \E k \in 1..Len(v) : Storing(e, n, d, f, v, k)
  \/ Deciding(e, n, r, d, f, v)
  \/ Resuming(e, n, r, d, f, v)

(* The step that a continuation starts with is recorded.                   *)
Sourced(e, d) == d.kind = "continue" => d.start \in StepIds /\ e[d.start] # "none"

Planning(e, n, r, d) ==
  d.pc = "planning" /\ n = 0 /\ r = "running" /\ d.todo = <<>> /\ \A s \in StepIds : e[s] = "none"

Doing(e, n, r, d) ==
  /\ Sourced(e, d)
  /\ \/ Planning(e, n, r, d)
     \/ \E f \in 0..(n + 1) : Reached(e, n, f) /\ Working(e, n, r, d, f, d.todo)

(* Only planning fails outside the plan.                                   *)
Outside(e, n) == \A s \in StepIds : s \notin 1..n => e[s] \in {"none", "failed"}

(* Between two drivers.                                                    *)
AtRest(e, n, r, lost) ==
  /\ \A s \in StepIds : e[s] = "pending_approval" =>
        s \in 1..n /\ Reached(e, n, s) /\ r \in Going \cup {"awaiting_approval"}
  /\ r = "failed" => \A s \in 1..n : e[s] = "failed" => Reached(e, n, s)
  /\ r = "completed" => Reached(e, n, n + 1)
  /\ ~lost => (r = "awaiting_approval" <=> \E s \in StepIds : e[s] = "pending_approval")

Alone == \A a, b \in Actors : actor[a].pc # "idle" /\ actor[b].pc # "idle" => a = b

RunInv ==
  /\ Alone
  /\ \A a \in Actors : actor[a].pc = "idle" => actor[a] = Idle
  /\ Outside(Told, Len(plan))
  /\ \A a \in Actors : actor[a].pc # "idle" => Doing(Told, Len(plan), status, actor[a])
  /\ (\A a \in Actors : actor[a].pc = "idle") => AtRest(Told, Len(plan), status, interrupted)
-----------------------------------------------------------------------------
(* What a write does to what the tables tell.                              *)

Effect(w, e, r, e2, r2) ==
  /\ \A f \in StepIds, st \in Seen \ {"none"} :
        Writes(w, e, f, st) => e2 = [e EXCEPT ![f] = st] /\ r2 = r
  /\ "decide" \in DOMAIN w => e2 = e /\ r2 = r
  /\ \A x : w = Run(x) => e2 = e /\ r2 = x

LEMMA WritesOn ==
  ASSUME NEW e \in [StepIds -> Seen], NEW g \in StepIds, NEW st \in Seen \ {"none"},
         NEW w, NEW f \in StepIds, NEW x, Writes(w, e, f, x)
  PROVE  Writes(w, [e EXCEPT ![g] = st], f, x)
BY DEF Writes

LEMMA BeyondIs ==
  ASSUME NEW v \in Seq(Write), NEW k \in 1..Len(v)
  PROVE  /\ Beyond(v, k) \in Seq(Write) /\ Len(Beyond(v, k)) = Len(v) - k /\ Len(v) \in Nat
         /\ \A j \in 1..(Len(v) - k) : Beyond(v, k)[j] = v[k + j]
<1>1. Len(v) \in Nat /\ Len(v) - k \in Nat
  OBVIOUS
<1>2. \A j \in 1..(Len(v) - k) : k + j \in 1..Len(v) /\ v[k + j] \in Write
  OBVIOUS
<1>3. Beyond(v, k) \in [1..(Len(v) - k) -> Write]
  BY <1>2 DEF Beyond
<1> QED BY <1>1, <1>3 DEF Beyond

LEMMA BatchIs ==
  ASSUME NEW v \in Seq(Write)
  PROVE  v = [j \in 1..Len(v) |-> v[j]] /\ (v = <<>> <=> Len(v) = 0)
OBVIOUS

LEMMA TailIs ==
  ASSUME NEW v \in Seq(Write), v # <<>>
  PROVE  /\ Tail(v) \in Seq(Write) /\ Len(Tail(v)) = Len(v) - 1 /\ Len(v) \in Nat \ {0}
         /\ \A j \in 1..(Len(v) - 1) : Tail(v)[j] = v[j + 1]
         /\ Head(v) = v[1] /\ v[1] \in Write /\ Tail(v) = Beyond(v, 1)
         /\ Tail(v) = <<>> <=> Len(v) = 1
<1>1. /\ Tail(v) \in Seq(Write) /\ Len(Tail(v)) = Len(v) - 1 /\ Len(v) \in Nat \ {0}
      /\ \A j \in 1..(Len(v) - 1) : Tail(v)[j] = v[j + 1]
      /\ Head(v) = v[1] /\ v[1] \in Write
  OBVIOUS
<1>2. Tail(v) = Beyond(v, 1)
  <2>1. Tail(v) = [j \in 1..Len(Tail(v)) |-> Tail(v)[j]]
    BY <1>1, BatchIs
  <2>2. \A j \in 1..(Len(v) - 1) : Tail(v)[j] = v[1 + j]
    BY <1>1
  <2> QED BY <1>1, <2>1, <2>2 DEF Beyond
<1>3. Tail(v) = <<>> <=> Len(v) = 1
  BY <1>1, BatchIs
<1> QED BY <1>1, <1>2, <1>3

LEMMA BeyondTail ==
  ASSUME NEW v \in Seq(Write), NEW k \in 1..Len(v), k > 1
  PROVE  Beyond(Tail(v), k - 1) = Beyond(v, k)
<1>1. v # <<>> /\ Len(v) \in Nat /\ k \in Nat
  OBVIOUS
<1>2. Len(Tail(v)) - (k - 1) = Len(v) - k
  BY <1>1, TailIs
<1>3. \A j \in 1..(Len(v) - k) : Tail(v)[k - 1 + j] = v[k + j]
  <2> SUFFICES ASSUME NEW j \in 1..(Len(v) - k) PROVE Tail(v)[k - 1 + j] = v[k + j]
    OBVIOUS
  <2>1. k - 1 + j \in 1..(Len(v) - 1) /\ k - 1 + j + 1 = k + j
    BY <1>1
  <2> QED BY <1>1, <2>1, TailIs
<1> QED BY <1>2, <1>3 DEF Beyond

LEMMA JoinIs ==
  ASSUME NEW v \in Seq(Write), NEW w \in Seq(Write)
  PROVE  /\ v \o w \in Seq(Write) /\ Len(v \o w) = Len(v) + Len(w)
         /\ Len(v) \in Nat /\ Len(w) \in Nat
         /\ \A j \in 1..Len(v) : (v \o w)[j] = v[j]
         /\ \A j \in 1..Len(w) : (v \o w)[Len(v) + j] = w[j]
OBVIOUS

LEMMA BeyondJoin ==
  ASSUME NEW v \in Seq(Write), NEW w \in Seq(Write)
  PROVE  Beyond(v \o w, Len(v)) = w
<1>1. /\ v \o w \in Seq(Write) /\ Len(v \o w) = Len(v) + Len(w) /\ Len(v) \in Nat /\ Len(w) \in Nat
      /\ \A j \in 1..Len(w) : (v \o w)[Len(v) + j] = w[j]
  OBVIOUS
<1>2. w = [j \in 1..Len(w) |-> w[j]] /\ Len(v \o w) - Len(v) = Len(w)
  BY <1>1
<1> QED BY <1>1, <1>2 DEF Beyond

(* What d becomes when its first write lands.                              *)
After(d) ==
  IF Tail(d.todo) = <<>> /\ d.pc = "ending" THEN Idle ELSE [d EXCEPT !.todo = Tail(d.todo)]

(* A driver is through: what it leaves.                                    *)
LEMMA Rests ==
  ASSUME NEW e \in [StepIds -> Seen], NEW n \in Nat, n <= MaxSteps, Outside(e, n), NEW r,
         NEW f \in 0..(n + 1), Reached(e, n, f),
         \/ r = "completed" /\ f = n + 1
         \/ r = "failed" /\ f \in 1..n /\ e[f] = "failed"
         \/ r = "failed" /\ n = 0
         \/ r = "awaiting_approval" /\ f \in 1..n /\ e[f] = "pending_approval"
         \/ r = "rejected" /\ f \in 1..n /\ e[f] = "rejected",
         NEW lost
  PROVE  AtRest(e, n, r, lost)
<1>1. ASSUME NEW s \in StepIds, e[s] \in {"pending_approval"} PROVE s \in 1..n /\ s = f
  <2>1. s \in 1..n
    BY <1>1 DEF Outside
  <2>2. ~(s < f) /\ ~(s > f)
    BY <1>1, <2>1 DEF Reached
  <2> QED BY <2>1, <2>2
<1>2. ASSUME NEW s \in 1..n, e[s] = "failed" PROVE s = f
  <2>1. ~(s < f) /\ ~(s > f)
    BY <1>2 DEF Reached
  <2> QED BY <2>1
<1>3. f \in 1..n => f \in StepIds
  BY BoundsAssumption DEF StepIds
<1> QED BY <1>1, <1>2, <1>3 DEF AtRest
-----------------------------------------------------------------------------
(* The first write of d lands.                                             *)

Passes(d, n, e2, r2, lost) ==
  /\ e2 \in [StepIds -> Seen] /\ Outside(e2, n)
  /\ \/ After(d) = Idle /\ AtRest(e2, n, r2, lost)
     \/ After(d).pc # "idle" /\ Doing(e2, n, r2, After(d))

LEMMA AfterIs ==
  ASSUME NEW d \in Doer, d.todo # <<>>
  PROVE  /\ Len(d.todo) = 1 /\ d.pc = "ending" => After(d) = Idle
         /\ ~(Len(d.todo) = 1 /\ d.pc = "ending") =>
              /\ After(d).pc = d.pc /\ After(d).kind = d.kind /\ After(d).start = d.start
              /\ After(d).index = d.index /\ After(d).todo = Tail(d.todo)
         /\ d.todo \in Seq(Write)
<1>1. d.todo \in Seq(Write)
  BY DEF Doer
<1>2. Tail(d.todo) = <<>> <=> Len(d.todo) = 1
  BY <1>1, TailIs
<1> DEFINE m == [d EXCEPT !.todo = Tail(d.todo)]
<1>3. m.pc = d.pc /\ m.kind = d.kind /\ m.start = d.start /\ m.index = d.index /\ m.todo = Tail(d.todo)
  BY DEF Doer
<1> QED BY <1>1, <1>2, <1>3 DEF After

LEMMA Marked ==
  ASSUME NEW e \in [StepIds -> Seen], NEW n \in Nat, n <= MaxSteps, NEW f \in StepIds,
         NEW st \in Seen \ {"none"}, NEW d, NEW e2, e2 = [e EXCEPT ![f] = st],
         Reached(e, n, f), Outside(e, n), f \in 1..n \/ st = "failed", Sourced(e, d)
  PROVE  /\ e2 \in [StepIds -> Seen] /\ e2[f] = st /\ Reached(e2, n, f) /\ Outside(e2, n)
         /\ Sourced(e2, d) /\ \A s \in StepIds \ {f} : e2[s] = e[s]
         /\ \A w, x : Writes(w, e, f, x) => Writes(w, e2, f, x)
<1>1. 1..n \subseteq StepIds
  BY BoundsAssumption DEF StepIds
<1>2. e2 \in [StepIds -> Seen] /\ e2[f] = st /\ \A s \in StepIds \ {f} : e2[s] = e[s]
  OBVIOUS
<1>3. Reached(e2, n, f)
  BY <1>1, <1>2 DEF Reached
<1>4. Outside(e2, n)
  BY <1>2 DEF Outside
<1>5. Sourced(e2, d)
  BY <1>2 DEF Sourced
<1>6. \A w, x : Writes(w, e, f, x) => Writes(w, e2, f, x)
  BY <1>2 DEF Writes
<1> QED BY <1>2, <1>3, <1>4, <1>5, <1>6

LEMMA WorksOn ==
  ASSUME NEW d \in Doer, d.todo # <<>>, d.pc # "idle", ~(Len(d.todo) = 1 /\ d.pc = "ending"),
         NEW e2 \in [StepIds -> Seen], NEW n, NEW r2, NEW f \in 0..(n + 1), Reached(e2, n, f),
         Outside(e2, n), Sourced(e2, d), Working(e2, n, r2, d, f, Tail(d.todo)), NEW lost
  PROVE  Passes(d, n, e2, r2, lost)
<1> DEFINE m == After(d)
<1>1. /\ m.pc = d.pc /\ m.kind = d.kind /\ m.start = d.start /\ m.index = d.index
      /\ m.todo = Tail(d.todo)
  BY AfterIs
<1> HIDE DEF m
<1>2. Sourced(e2, m)
  BY <1>1 DEF Sourced
<1>3. Working(e2, n, r2, m, f, Tail(d.todo))
  <2>1. \A g, v : Arrived(e2, n, d, g, v) <=> Arrived(e2, n, m, g, v)
    BY <1>1 DEF Arrived
  <2>2. \A g, v, k : Storing(e2, n, d, g, v, k) <=> Storing(e2, n, m, g, v, k)
    BY <1>1, <2>1 DEF Storing
  <2>3. \A g, v : Deciding(e2, n, r2, d, g, v) <=> Deciding(e2, n, r2, m, g, v)
    BY <1>1 DEF Deciding
  <2>4. \A g, v : Resuming(e2, n, r2, d, g, v) <=> Resuming(e2, n, r2, m, g, v)
    BY <1>1, <2>1 DEF Resuming
  <2>5. \A v : NoPlan(e2, n, d, v) <=> NoPlan(e2, n, m, v)
    BY <1>1 DEF NoPlan
  <2> QED BY <2>1, <2>2, <2>3, <2>4, <2>5 DEF Working
<1>4. Doing(e2, n, r2, m)
  BY <1>1, <1>2, <1>3 DEF Doing
<1> QED BY <1>1, <1>4 DEF Passes, m

LEMMA Leaves ==
  ASSUME NEW d \in Doer, d.todo # <<>>, Len(d.todo) = 1, d.pc = "ending",
         NEW e \in [StepIds -> Seen], NEW n \in Nat, n <= MaxSteps, Outside(e, n),
         NEW r2, NEW f \in 0..(n + 1), Reached(e, n, f),
         \/ r2 = "completed" /\ f = n + 1
         \/ r2 = "failed" /\ f \in 1..n /\ e[f] = "failed"
         \/ r2 = "failed" /\ n = 0
         \/ r2 = "awaiting_approval" /\ f \in 1..n /\ e[f] = "pending_approval"
         \/ r2 = "rejected" /\ f \in 1..n /\ e[f] = "rejected",
         NEW lost
  PROVE  Passes(d, n, e, r2, lost)
<1>1. AtRest(e, n, r2, lost)
  BY Rests
<1> QED BY <1>1, AfterIs DEF Passes

LEMMA EndingWrites ==
  ASSUME NEW e, NEW n, NEW d, NEW f, NEW v, Arrived(e, n, d, f, v), d.pc = "ending"
  PROVE  Len(v) # 0
BY DEF Arrived

LEMMA ArrivedPasses ==
  ASSUME NEW d \in Doer, d.todo # <<>>,
         NEW e \in [StepIds -> Seen], NEW n \in Nat, n <= MaxSteps, Outside(e, n), Sourced(e, d),
         NEW r \in Going, NEW f \in 0..(n + 1), Reached(e, n, f), Arrived(e, n, d, f, d.todo),
         NEW e2, NEW r2, Effect(d.todo[1], e, r, e2, r2), NEW lost
  PROVE  Passes(d, n, e2, r2, lost)
<1> DEFINE v == d.todo
           t == Tail(v)
<1>0. /\ v \in Seq(Write) /\ t \in Seq(Write) /\ Len(t) = Len(v) - 1 /\ Len(v) \in Nat \ {0}
      /\ \A j \in 1..(Len(v) - 1) : t[j] = v[j + 1]
      /\ f \in 1..n => f \in StepIds
  BY AfterIs, TailIs, BoundsAssumption DEF StepIds
<1>1. d.pc = "ending"
  BY DEF Arrived
<1>2. CASE n > 0 /\ f = n + 1 /\ Len(v) = 1 /\ v[1] = Run("completed")
  <2>1. e2 = e /\ r2 = "completed"
    BY <1>2 DEF Effect
  <2> QED BY <1>1, <1>2, <2>1, Leaves
<1>3. CASE f \in 1..n /\ e[f] = "failed" /\ Len(v) = 1 /\ v[1] = Run("failed")
  <2>1. e2 = e /\ r2 = "failed"
    BY <1>3 DEF Effect
  <2> QED BY <1>1, <1>3, <2>1, Leaves
<1>4. CASE f \in 1..n /\ Len(v) = 2 /\ Writes(v[1], e, f, "failed") /\ v[2] = Run("failed")
  <2>1. e2 = [e EXCEPT ![f] = "failed"] /\ r2 = r
    BY <1>0, <1>4 DEF Effect, Seen
  <2>2. /\ e2 \in [StepIds -> Seen] /\ e2[f] = "failed" /\ Reached(e2, n, f) /\ Outside(e2, n)
        /\ Sourced(e2, d)
    BY <1>0, <1>4, <2>1, Marked DEF Seen
  <2>3. Len(t) = 1 /\ t[1] = Run("failed")
    BY <1>0, <1>4
  <2>4. Working(e2, n, r2, d, f, t)
    BY <1>1, <1>4, <2>1, <2>2, <2>3 DEF Working, Arrived
  <2> QED BY <1>1, <1>4, <2>2, <2>4, WorksOn
<1>5. CASE /\ f \in 1..n /\ Len(v) = 3 /\ Writes(v[1], e, f, "pending_approval")
           /\ "decide" \in DOMAIN v[2] /\ v[3] = Run("awaiting_approval")
  <2>1. e2 = [e EXCEPT ![f] = "pending_approval"] /\ r2 = r
    BY <1>0, <1>5 DEF Effect, Seen
  <2>2. /\ e2 \in [StepIds -> Seen] /\ e2[f] = "pending_approval" /\ Reached(e2, n, f)
        /\ Outside(e2, n) /\ Sourced(e2, d)
    BY <1>0, <1>5, <2>1, Marked DEF Seen
  <2>3. Len(t) = 2 /\ t[1] = v[2] /\ t[2] = v[3]
    BY <1>0, <1>5
  <2>4. Working(e2, n, r2, d, f, t)
    BY <1>1, <1>5, <2>1, <2>2, <2>3 DEF Working, Arrived
  <2> QED BY <1>1, <1>5, <2>2, <2>4, WorksOn
<1>6. CASE /\ f \in 1..n /\ e[f] = "pending_approval"
           /\ Len(v) = 2 /\ "decide" \in DOMAIN v[1] /\ v[2] = Run("awaiting_approval")
  <2>1. e2 = e /\ r2 = r
    BY <1>6 DEF Effect
  <2>3. Len(t) = 1 /\ t[1] = v[2]
    BY <1>0, <1>6
  <2>4. Working(e2, n, r2, d, f, t)
    BY <1>1, <1>6, <2>1, <2>3 DEF Working, Arrived
  <2> QED BY <1>1, <1>6, <2>1, <2>4, WorksOn
<1>7. CASE /\ f \in 1..n /\ e[f] = "pending_approval"
           /\ Len(v) = 1 /\ v[1] = Run("awaiting_approval")
  <2>1. e2 = e /\ r2 = "awaiting_approval"
    BY <1>7 DEF Effect
  <2> QED BY <1>1, <1>7, <2>1, Leaves
<1> QED BY <1>2, <1>3, <1>4, <1>5, <1>6, <1>7 DEF Arrived

LEMMA NoPlanPasses ==
  ASSUME NEW d \in Doer, d.todo # <<>>,
         NEW e \in [StepIds -> Seen], NEW n \in Nat, n <= MaxSteps, Outside(e, n), Sourced(e, d),
         NEW r \in Going, NoPlan(e, n, d, d.todo),
         NEW e2, NEW r2, Effect(d.todo[1], e, r, e2, r2), NEW lost
  PROVE  Passes(d, n, e2, r2, lost)
<1> DEFINE v == d.todo
           t == Tail(v)
<1>0. /\ v \in Seq(Write) /\ t \in Seq(Write) /\ Len(t) = Len(v) - 1 /\ Len(v) \in Nat \ {0}
      /\ \A j \in 1..(Len(v) - 1) : t[j] = v[j + 1]
      /\ 0 \in StepIds /\ 0 \in 0..(n + 1)
  BY AfterIs, TailIs, BoundsAssumption DEF StepIds
<1>1. d.pc = "ending" /\ n = 0 /\ \A x : Reached(x, n, 0)
  BY DEF NoPlan, Reached
<1>2. CASE Len(v) = 1 /\ v[1] = Run("failed")
  <2>1. e2 = e /\ r2 = "failed"
    BY <1>2 DEF Effect
  <2> QED BY <1>0, <1>1, <1>2, <2>1, Leaves
<1>3. CASE Len(v) = 2 /\ Writes(v[1], e, 0, "failed") /\ v[2] = Run("failed")
  <2>1. e2 = [e EXCEPT ![0] = "failed"] /\ r2 = r
    BY <1>0, <1>3 DEF Effect, Seen
  <2>2. e2 \in [StepIds -> Seen] /\ Outside(e2, n) /\ Sourced(e2, d)
    BY <1>0, <1>1, <2>1, Marked DEF Seen
  <2>3. Len(t) = 1 /\ t[1] = Run("failed")
    BY <1>0, <1>3
  <2>4. Working(e2, n, r2, d, 0, t)
    BY <1>1, <2>1, <2>3 DEF Working, NoPlan
  <2> QED BY <1>0, <1>1, <1>3, <2>2, <2>4, WorksOn
<1> QED BY <1>2, <1>3 DEF NoPlan

LEMMA StoringPasses ==
  ASSUME NEW d \in Doer, d.todo # <<>>,
         NEW e \in [StepIds -> Seen], NEW n \in Nat, n <= MaxSteps, Outside(e, n), Sourced(e, d),
         NEW r \in Going, NEW f \in 0..(n + 1), Reached(e, n, f),
         NEW k, Storing(e, n, d, f, d.todo, k), d.pc \in {"executing", "ending"},
         NEW e2, NEW r2, Effect(d.todo[1], e, r, e2, r2), NEW lost
  PROVE  Passes(d, n, e2, r2, lost)
<1> DEFINE v == d.todo
           t == Tail(v)
<1>0. /\ v \in Seq(Write) /\ t \in Seq(Write) /\ Len(t) = Len(v) - 1 /\ Len(v) \in Nat \ {0}
      /\ \A j \in 1..(Len(v) - 1) : t[j] = v[j + 1]
      /\ t = Beyond(v, 1)
      /\ f \in 1..n /\ f \in StepIds /\ k \in 1..Len(v) /\ k \in Nat
      /\ k > 1 => Len(v) > 1
  <2>1. v \in Seq(Write)
    BY AfterIs
  <2>2. f \in 1..n /\ k \in 1..Len(v)
    BY DEF Storing
  <2>3. f \in StepIds
    BY <2>2, BoundsAssumption DEF StepIds
  <2>4. /\ t \in Seq(Write) /\ Len(t) = Len(v) - 1 /\ Len(v) \in Nat \ {0}
        /\ \A j \in 1..(Len(v) - 1) : t[j] = v[j + 1]
        /\ t = Beyond(v, 1)
    BY <2>1, TailIs
  <2>5. k \in Nat /\ (k > 1 => Len(v) > 1)
    BY <2>2, <2>4
  <2> QED BY <2>1, <2>2, <2>3, <2>4, <2>5
<1>1. CASE k = 1 /\ Writes(v[1], e, f, "success") /\ Arrived(e, n, d, f + 1, t)
  <2>1. e2 = [e EXCEPT ![f] = "success"] /\ r2 = r
    BY <1>0, <1>1 DEF Effect, Seen
  <2>2. /\ e2 \in [StepIds -> Seen] /\ e2[f] = "success" /\ Reached(e2, n, f) /\ Outside(e2, n)
        /\ Sourced(e2, d) /\ \A s \in StepIds \ {f} : e2[s] = e[s]
    BY <1>0, <2>1, Marked DEF Seen
  <2>3. Reached(e2, n, f + 1) /\ f + 1 \in 0..(n + 1)
    BY <1>0, <2>2 DEF Reached
  <2>4. f + 1 \in 1..n => f + 1 \in StepIds /\ f + 1 # f
    BY <1>0, BoundsAssumption DEF StepIds
  <2>5. f + 1 \in 1..n => e2[f + 1] = e[f + 1] /\ \A w, x : Writes(w, e, f + 1, x) => Writes(w, e2, f + 1, x)
    BY <2>2, <2>4 DEF Writes
  <2>6. Arrived(e2, n, d, f + 1, t)
    BY <1>1, <2>5 DEF Arrived
  <2>7. ~(Len(v) = 1 /\ d.pc = "ending")
    <3>1. d.pc = "ending" => Len(t) # 0
      BY <1>1, EndingWrites
    <3>2. Len(t) = Len(v) - 1 /\ Len(v) \in Nat
      BY <1>0
    <3> QED BY <3>1, <3>2
  <2>8. Working(e2, n, r2, d, f + 1, t)
    BY <2>1, <2>6 DEF Working
  <2> QED BY <2>2, <2>3, <2>7, <2>8, WorksOn
<1>2. CASE k = 1 /\ Writes(v[1], e, f, "failed") /\ d.pc = "ending" /\ Len(v) = 2 /\ v[2] = Run("failed")
  <2>1. e2 = [e EXCEPT ![f] = "failed"] /\ r2 = r
    BY <1>0, <1>2 DEF Effect, Seen
  <2>2. /\ e2 \in [StepIds -> Seen] /\ e2[f] = "failed" /\ Reached(e2, n, f) /\ Outside(e2, n)
        /\ Sourced(e2, d)
    BY <1>0, <2>1, Marked DEF Seen
  <2>3. Len(t) = 1 /\ t[1] = Run("failed")
    BY <1>0, <1>2
  <2>4. Working(e2, n, r2, d, f, t)
    BY <1>0, <1>2, <2>1, <2>2, <2>3 DEF Working, Arrived
  <2> QED BY <1>2, <2>2, <2>4, WorksOn
<1>3. CASE k > 1
  <2>1. Writes(v[1], e, f, "failed")
    BY <1>0, <1>3 DEF Storing
  <2>2. e2 = [e EXCEPT ![f] = "failed"] /\ r2 = r
    BY <1>0, <2>1 DEF Effect, Seen
  <2>3. /\ e2 \in [StepIds -> Seen] /\ e2[f] = "failed" /\ Reached(e2, n, f) /\ Outside(e2, n)
        /\ Sourced(e2, d) /\ \A s \in StepIds \ {f} : e2[s] = e[s]
        /\ \A w, x : Writes(w, e, f, x) => Writes(w, e2, f, x)
    <3>1. "failed" \in Seen \ {"none"}
      BY DEF Seen
    <3>2. f \in 1..n /\ f \in StepIds /\ e2 = [e EXCEPT ![f] = "failed"]
      BY <1>0, <2>2
    <3>3. /\ e2 \in [StepIds -> Seen] /\ e2[f] = "failed" /\ Reached(e2, n, f) /\ Outside(e2, n)
          /\ Sourced(e2, d) /\ \A s \in StepIds \ {f} : e2[s] = e[s]
      BY <3>1, <3>2, Marked
    <3>4. \A w, x : Writes(w, e, f, x) => Writes(w, e2, f, x)
      BY <3>2, <3>3 DEF Writes
    <3> QED BY <3>3, <3>4
  <2>4. k - 1 \in 1..Len(t) /\ Beyond(t, k - 1) = Beyond(v, k) /\ t[k - 1] = v[k]
        /\ Len(t) = Len(v) - 1
    BY <1>0, <1>3, BeyondTail
  <2>5. \A j \in 1..(k - 1) : j < k - 1 => Writes(t[j], e2, f, "failed")
    <3> SUFFICES ASSUME NEW j \in 1..(k - 1), j < k - 1 PROVE Writes(t[j], e2, f, "failed")
      OBVIOUS
    <3>1. t[j] = v[j + 1] /\ j + 1 \in 1..k /\ j + 1 < k
      BY <1>0
    <3> QED BY <2>3, <3>1 DEF Storing
  <2>6. f + 1 \in 1..n => f + 1 \in StepIds /\ f + 1 # f
    BY <1>0, BoundsAssumption DEF StepIds
  <2>7. f + 1 \in 1..n => e2[f + 1] = e[f + 1] /\ \A w, x : Writes(w, e, f + 1, x) => Writes(w, e2, f + 1, x)
    BY <2>3, <2>6 DEF Writes
  <2>8. Arrived(e, n, d, f + 1, Beyond(v, k)) => Arrived(e2, n, d, f + 1, Beyond(t, k - 1))
    BY <2>4, <2>7 DEF Arrived
  <2>9. \/ Writes(t[k - 1], e2, f, "success") /\ Arrived(e2, n, d, f + 1, Beyond(t, k - 1))
        \/ /\ Writes(t[k - 1], e2, f, "failed") /\ d.pc = "ending"
           /\ Len(t) = (k - 1) + 1 /\ t[(k - 1) + 1] = Run("failed")
    <3>1. CASE Writes(v[k], e, f, "success") /\ Arrived(e, n, d, f + 1, Beyond(v, k))
      BY <2>3, <2>4, <2>8, <3>1
    <3>2. CASE /\ Writes(v[k], e, f, "failed") /\ d.pc = "ending"
               /\ Len(v) = k + 1 /\ v[k + 1] = Run("failed")
      <4>1. t[k] = v[k + 1] /\ (k - 1) + 1 = k
        BY <1>0, <3>2
      <4> QED BY <1>0, <2>3, <2>4, <3>2, <4>1
    <3> QED BY <3>1, <3>2 DEF Storing
  <2>10. Storing(e2, n, d, f, t, k - 1)
    BY <1>0, <2>3, <2>4, <2>5, <2>9 DEF Storing, Tried
  <2>11. Working(e2, n, r2, d, f, t)
    BY <2>2, <2>4, <2>10 DEF Working
  <2>12. Len(v) # 1
    <3>1. Len(v) > 1 /\ Len(v) \in Nat
      BY <1>0, <1>3
    <3>2. \A x \in Nat : x > 1 => x # 1
      OBVIOUS
    <3> QED BY <3>1, <3>2, Zenon
  <2> QED BY <2>3, <2>11, <2>12, WorksOn
<1>4. k > 1 \/ k = 1
  BY <1>0
<1>5. CASE k = 1
  <2>1. \/ Writes(v[1], e, f, "success") /\ Arrived(e, n, d, f + 1, Beyond(v, 1))
        \/ /\ Writes(v[1], e, f, "failed") /\ d.pc = "ending" /\ Len(v) = 2 /\ v[2] = Run("failed")
    BY <1>5 DEF Storing
  <2> QED BY <1>0, <1>1, <1>2, <1>5, <2>1
<1> QED BY <1>3, <1>4, <1>5

LEMMA DecidingPasses ==
  ASSUME NEW d \in Doer, d.todo # <<>>,
         NEW e \in [StepIds -> Seen], NEW n \in Nat, n <= MaxSteps, Outside(e, n), Sourced(e, d),
         NEW r, NEW f \in 0..(n + 1), Reached(e, n, f), Deciding(e, n, r, d, f, d.todo),
         NEW e2, NEW r2, Effect(d.todo[1], e, r, e2, r2), NEW lost
  PROVE  Passes(d, n, e2, r2, lost)
<1> DEFINE v == d.todo
           t == Tail(v)
<1>0. /\ v \in Seq(Write) /\ t \in Seq(Write) /\ Len(t) = Len(v) - 1 /\ Len(v) \in Nat \ {0}
      /\ \A j \in 1..(Len(v) - 1) : t[j] = v[j + 1]
      /\ (t = <<>> <=> Len(v) = 1)
      /\ f \in 1..n /\ f \in StepIds
  BY AfterIs, TailIs, BoundsAssumption DEF StepIds, Deciding
<1>1. PICK now \in {"rejected", "approved"}, last \in {"rejected", "resuming_after_approval"} :
        /\ Decided(e, f, v, now, last) /\ r \in Going \cup {"awaiting_approval"}
        /\ \/ d.pc = "ending" /\ now = "rejected" /\ last = "rejected"
           \/ /\ d.pc = "deciding" /\ d.start = f /\ now = "approved"
              /\ last = "resuming_after_approval"
  BY DEF Deciding
<1>2. CASE /\ Len(v) = 3 /\ Writes(v[1], e, f, now)
           /\ "decide" \in DOMAIN v[2] /\ v[3] = Run(last)
  <2>1. e2 = [e EXCEPT ![f] = now] /\ r2 = r
    BY <1>0, <1>2 DEF Effect, Seen
  <2>2. /\ e2 \in [StepIds -> Seen] /\ e2[f] = now /\ Reached(e2, n, f) /\ Outside(e2, n)
        /\ Sourced(e2, d)
    BY <1>0, <2>1, Marked DEF Seen
  <2>3. Len(t) = 2 /\ t[1] = v[2] /\ t[2] = v[3]
    BY <1>0, <1>2
  <2>4. Decided(e2, f, t, now, last)
    BY <1>2, <2>2, <2>3 DEF Decided
  <2>5. Working(e2, n, r2, d, f, t)
    BY <1>0, <1>1, <2>1, <2>4 DEF Working, Deciding
  <2> QED BY <1>1, <1>2, <2>2, <2>5, WorksOn
<1>3. CASE Len(v) = 2 /\ e[f] = now /\ "decide" \in DOMAIN v[1] /\ v[2] = Run(last)
  <2>1. e2 = e /\ r2 = r
    BY <1>3 DEF Effect
  <2>2. Len(t) = 1 /\ t[1] = v[2]
    BY <1>0, <1>3
  <2>3. Decided(e2, f, t, now, last)
    BY <1>3, <2>1, <2>2 DEF Decided
  <2>4. Working(e2, n, r2, d, f, t)
    BY <1>0, <1>1, <2>1, <2>3 DEF Working, Deciding
  <2> QED BY <1>1, <1>3, <2>1, <2>4, WorksOn
<1>4. CASE Len(v) = 1 /\ e[f] = now /\ v[1] = Run(last)
  <2>1. e2 = e /\ r2 = last
    BY <1>4 DEF Effect
  <2>2. CASE d.pc = "ending"
    BY <1>0, <1>1, <1>4, <2>1, <2>2, Leaves
  <2>3. CASE d.pc = "deciding"
    <3>1. Working(e2, n, r2, d, f, t)
      BY <1>0, <1>1, <1>4, <2>1, <2>3 DEF Working, Deciding
    <3> QED BY <1>1, <2>1, <2>3, <3>1, WorksOn
  <2> QED BY <1>1, <2>2, <2>3
<1> QED BY <1>1, <1>2, <1>3, <1>4 DEF Decided

LEMMA ResumingPasses ==
  ASSUME NEW d \in Doer, d.todo # <<>>,
         NEW e \in [StepIds -> Seen], NEW n \in Nat, n <= MaxSteps, Outside(e, n), Sourced(e, d),
         NEW r, NEW f \in 0..(n + 1), Reached(e, n, f), Resuming(e, n, r, d, f, d.todo),
         NEW e2, NEW r2, Effect(d.todo[1], e, r, e2, r2), NEW lost
  PROVE  Passes(d, n, e2, r2, lost)
<1> DEFINE t == Tail(d.todo)
<1>0. d.todo \in Seq(Write) /\ t = Beyond(d.todo, 1) /\ Len(t) = Len(d.todo) - 1 /\ Len(d.todo) \in Nat
  BY AfterIs, TailIs
<1>1. e2 = e /\ r2 = "resuming_failed_run" /\ Arrived(e, n, d, f, t)
  BY <1>0 DEF Resuming, Effect
<1>2. ~(Len(d.todo) = 1 /\ d.pc = "ending") /\ d.pc # "idle"
  <2>1. d.pc \in {"executing", "ending"} /\ (d.pc = "ending" => Len(t) # 0)
    BY <1>1 DEF Arrived
  <2> QED BY <1>0, <2>1
<1>3. Working(e2, n, r2, d, f, t)
  BY <1>1 DEF Working, Going
<1> QED BY <1>1, <1>2, <1>3, WorksOn

LEMMA DoingPasses ==
  ASSUME NEW d \in Doer, d.todo # <<>>,
         NEW e \in [StepIds -> Seen], NEW n \in Nat, n <= MaxSteps, Outside(e, n),
         NEW r, Doing(e, n, r, d),
         NEW e2, NEW r2, Effect(d.todo[1], e, r, e2, r2), NEW lost
  PROVE  Passes(d, n, e2, r2, lost)
<1>1. PICK f \in 0..(n + 1) : Reached(e, n, f) /\ Working(e, n, r, d, f, d.todo) /\ Sourced(e, d)
  BY DEF Doing, Planning
<1>2. CASE r \in Going /\ \E k \in 1..Len(d.todo) : Storing(e, n, d, f, d.todo, k)
  <2>1. PICK k \in 1..Len(d.todo) : Storing(e, n, d, f, d.todo, k)
    BY <1>2
  <2>2. d.pc \in {"executing", "ending"}
    BY <2>1 DEF Storing, Arrived
  <2> QED BY <1>1, <1>2, <2>1, <2>2, StoringPasses
<1> QED BY <1>1, <1>2, ArrivedPasses, NoPlanPasses, DecidingPasses, ResumingPasses DEF Working
-----------------------------------------------------------------------------
(* The tables and the actors.                                              *)

LEMMA ToldIs ==
  ASSUME TypeInv
  PROVE  /\ Told \in [StepIds -> Seen] /\ Len(plan) \in Nat /\ Len(plan) <= MaxSteps
         /\ 1..Len(plan) \subseteq StepIds
         /\ \A s \in StepIds : /\ Told[s] = Effective(s)
                               /\ Told[s] = "none" <=> RecordsOf(s) = {}
<1>1. records \in Seq(Record) /\ Len(plan) \in Nat /\ Len(plan) <= MaxSteps
  BY Parts
<1>2. 1..Len(plan) \subseteq StepIds
  BY <1>1, BoundsAssumption DEF StepIds
<1>3. ASSUME NEW s \in StepIds
      PROVE  Effective(s) \in Seen /\ (Effective(s) = "none" <=> RecordsOf(s) = {})
  <2>1. CASE RecordsOf(s) = {}
    BY <2>1 DEF Effective, Seen
  <2>2. CASE RecordsOf(s) # {}
    <3>1. Latest(s) \in Record
      BY <1>1, <2>2, LatestRecord
    <3>2. Latest(s).status \in Seen \ {"none"}
      BY <3>1 DEF Record, Seen
    <3> QED BY <2>2, <3>2 DEF Effective
  <2> QED BY <2>1, <2>2
<1> QED BY <1>1, <1>2, <1>3 DEF Told

LEMMA SameTold ==
  ASSUME records' = records
  PROVE  Told' = Told
BY DEF Told, Effective, Latest, RecordsOf

LEMMA InsertTells ==
  ASSUME TypeInv, NEW r \in Record, records' = Append(records, r)
  PROVE  Told' = [Told EXCEPT ![r.step] = r.status]
<1> DEFINE n == Len(records)
<1>1. records \in Seq(Record) /\ n \in Nat
  BY Parts
<1>2. /\ DOMAIN records' = 1..(n + 1) /\ DOMAIN records = 1..n /\ records'[n + 1] = r
      /\ \A i \in 1..n : records'[i] = records[i]
  BY <1>1
<1>3. RecordsOf(r.step)' = RecordsOf(r.step) \cup {n + 1}
  BY <1>2 DEF RecordsOf
<1>4. \A s : s # r.step => RecordsOf(s)' = RecordsOf(s)
  BY <1>2 DEF RecordsOf
<1>5. Max(RecordsOf(r.step)') = n + 1
  <2> DEFINE T == RecordsOf(r.step)'
  <2>1. T \in SUBSET 0..(n + 1) /\ T # {} /\ n + 1 \in Nat /\ n + 1 \in T
    BY <1>1, <1>2, <1>3 DEF RecordsOf
  <2> HIDE DEF T
  <2>2. Max(T) \in T /\ \A y \in T : Max(T) >= y
    BY <2>1, GreatestNumber
  <2>3. Max(T) \in 0..(n + 1) /\ Max(T) >= n + 1
    BY <2>1, <2>2
  <2>4. Max(T) = n + 1
    BY <1>1, <2>3
  <2> QED BY <2>4 DEF T
<1>6. Effective(r.step)' = r.status
  <2>1. RecordsOf(r.step)' # {}
    BY <1>3
  <2> QED BY <1>2, <1>5, <2>1 DEF Effective, Latest
<1>7. ASSUME NEW s, s # r.step PROVE Effective(s)' = Effective(s)
  <2>1. CASE RecordsOf(s) = {}
    BY <1>4, <1>7, <2>1 DEF Effective
  <2>2. CASE RecordsOf(s) # {}
    <3>1. Max(RecordsOf(s)) \in 1..n
      BY <1>1, <2>2, LatestRecord
    <3> QED BY <1>2, <1>4, <1>7, <2>2, <3>1 DEF Effective, Latest
  <2> QED BY <2>1, <2>2
<1>8. r.step \in StepIds
  BY DEF Record
<1> QED BY <1>6, <1>7, <1>8 DEF Told

LEMMA UpdateTells ==
  ASSUME TypeInv, NEW s \in StepIds, RecordsOf(s) # {}, NEW st, NEW error,
         records' = [records EXCEPT ![Max(RecordsOf(s))].status = st,
                                    ![Max(RecordsOf(s))].error = error]
  PROVE  Told' = [Told EXCEPT ![s] = st]
<1>1. PICK j : j = Max(RecordsOf(s))
  OBVIOUS
<1>2. /\ records \in Seq(Record) /\ j \in 1..Len(records) /\ j \in RecordsOf(s)
      /\ records[j] \in Record
  BY <1>1, Parts, LatestRecord
<1> DEFINE r == [records[j] EXCEPT !.status = st, !.error = error]
<1>3. r.step = records[j].step /\ r.status = st
  BY <1>2 DEF Record
<1>4. records' = [records EXCEPT ![j] = r]
  BY <1>1, <1>2
<1> HIDE DEF r
<1>5. /\ DOMAIN records' = DOMAIN records /\ records'[j] = r
      /\ \A i \in DOMAIN records : i # j => records'[i] = records[i]
      /\ DOMAIN records = 1..Len(records)
  BY <1>2, <1>4
<1>6. \A k : RecordsOf(k)' = RecordsOf(k)
  BY <1>3, <1>5 DEF RecordsOf
<1>7. Effective(s)' = st
  BY <1>1, <1>3, <1>5, <1>6 DEF Effective, Latest
<1>8. ASSUME NEW k, k # s PROVE Effective(k)' = Effective(k)
  <2>1. CASE RecordsOf(k) = {}
    BY <1>6, <2>1 DEF Effective
  <2>2. CASE RecordsOf(k) # {}
    <3>1. PICK i : i = Max(RecordsOf(k))
      OBVIOUS
    <3>2. i \in DOMAIN records /\ records[i].step = k /\ records[j].step = s
      BY <1>2, <1>5, <2>2, <3>1, LatestRecord DEF RecordsOf
    <3>3. records'[i] = records[i]
      BY <1>5, <1>8, <3>2
    <3>4. RecordsOf(k)' = RecordsOf(k)
      BY <1>6
    <3>5. Latest(k)' = Latest(k)
      BY <3>1, <3>3, <3>4 DEF Latest
    <3> QED BY <2>2, <3>4, <3>5 DEF Effective
  <2> QED BY <2>1, <2>2
<1> QED BY <1>7, <1>8 DEF Told

(* A write is of one kind.                                                 *)
LEMMA KindsApart ==
  ASSUME NEW w \in Write
  PROVE  /\ "insert" \in DOMAIN w => /\ "update" \notin DOMAIN w /\ "decide" \notin DOMAIN w
                                     /\ "run" \notin DOMAIN w
         /\ "update" \in DOMAIN w => /\ "insert" \notin DOMAIN w /\ "decide" \notin DOMAIN w
                                     /\ "run" \notin DOMAIN w
         /\ "decide" \in DOMAIN w => /\ "insert" \notin DOMAIN w /\ "update" \notin DOMAIN w
                                     /\ "run" \notin DOMAIN w
<1>1. CASE w \in [insert : Record]
  BY <1>1
<1>2. CASE w \in [update : StepIds, status : {"approved", "rejected", "success", "failed"},
                  error : Errors]
  BY <1>2
<1>3. CASE w \in [decide : Decision]
  BY <1>3
<1>4. CASE w \in [run : RunStatuses]
  BY <1>4
<1> QED BY <1>1, <1>2, <1>3, <1>4 DEF Write

LEMMA WriteTells ==
  ASSUME TypeInv, NEW a \in Actors, WriteLands(a)
  PROVE  /\ Effect(actor[a].todo[1], Told, status, Told', status')
         /\ actor' = [actor EXCEPT ![a] = After(actor[a])]
         /\ plan' = plan /\ interrupted' = interrupted
         /\ actor[a] \in Doer /\ actor[a].todo # <<>>
<1> DEFINE w == actor[a].todo[1]
<1>1. actor[a] \in Doer /\ actor[a].todo \in Seq(Write) /\ actor[a].todo # <<>>
  BY Parts DEF WriteLands, Doer
<1>2. w \in Write /\ Head(actor[a].todo) = w
  BY <1>1, TailIs
<1>3. actor' = [actor EXCEPT ![a] = After(actor[a])]
  BY Parts DEF WriteLands, After
<1>4. \/ /\ "insert" \in DOMAIN w /\ records' = Append(records, w.insert)
         /\ UNCHANGED <<history, status>>
      \/ /\ "update" \in DOMAIN w
         /\ records' = IF RecordsOf(w.update) = {} THEN records
                       ELSE [records EXCEPT ![Max(RecordsOf(w.update))].status = w.status,
                                            ![Max(RecordsOf(w.update))].error = w.error]
         /\ UNCHANGED <<history, status>>
      \/ "decide" \in DOMAIN w /\ history' = Append(history, w.decide) /\ UNCHANGED <<records, status>>
      \/ "run" \in DOMAIN w /\ status' = w.run /\ UNCHANGED <<records, history>>
  BY <1>2 DEF WriteLands
<1>5. plan' = plan /\ interrupted' = interrupted
  BY DEF WriteLands
<1> HIDE DEF w
<1>6. ASSUME NEW f \in StepIds, NEW st \in Seen \ {"none"}, Writes(w, Told, f, st)
      PROVE  Told' = [Told EXCEPT ![f] = st] /\ status' = status
  <2>1. CASE "insert" \in DOMAIN w /\ w.insert.step = f /\ w.insert.status = st
    <3>1. records' = Append(records, w.insert) /\ status' = status /\ w.insert \in Record
      BY <1>2, <1>4, <2>1, KindsApart, WriteKinds
    <3> QED BY <2>1, <3>1, InsertTells
  <2>2. CASE "update" \in DOMAIN w /\ w.update = f /\ w.status = st /\ Told[f] # "none"
    <3>1. RecordsOf(f) # {}
      BY <2>2, ToldIs
    <3>2. status' = status /\ records' = [records EXCEPT ![Max(RecordsOf(f))].status = st,
                                                         ![Max(RecordsOf(f))].error = w.error]
      BY <1>2, <1>4, <2>2, <3>1, KindsApart
    <3> QED BY <3>1, <3>2, UpdateTells
  <2> QED BY <1>6, <2>1, <2>2 DEF Writes
<1>7. "decide" \in DOMAIN w => Told' = Told /\ status' = status
  <2> SUFFICES ASSUME "decide" \in DOMAIN w PROVE Told' = Told /\ status' = status
    OBVIOUS
  <2>1. records' = records /\ status' = status
    BY <1>2, <1>4, KindsApart
  <2> QED BY <2>1, SameTold
<1>8. ASSUME NEW x, w = Run(x) PROVE Told' = Told /\ status' = x
  <2>1. DOMAIN w = {"run"} /\ w.run = x
    BY <1>8 DEF Run
  <2>2. records' = records /\ status' = x
    BY <1>4, <2>1
  <2> QED BY <2>2, SameTold
<1>9. Effect(w, Told, status, Told', status')
  BY <1>6, <1>7, <1>8 DEF Effect
<1> QED BY <1>1, <1>3, <1>5, <1>9 DEF w

LEMMA OthersRest ==
  ASSUME RunInv, NEW a \in Actors, actor[a].pc # "idle"
  PROVE  \A b \in Actors \ {a} : actor[b].pc = "idle" /\ actor[b] = Idle
BY DEF RunInv, Alone

LEMMA OneMoves ==
  ASSUME TypeInv, RunInv, NEW a \in Actors, \A b \in Actors \ {a} : actor[b].pc = "idle",
         NEW m, actor' = [actor EXCEPT ![a] = m], m.pc # "idle",
         Outside(Told', Len(plan')), Doing(Told', Len(plan'), status', m)
  PROVE  RunInv'
<1>1. actor \in [Actors -> Doer]
  BY Parts
<1>2. actor'[a] = m /\ \A b \in Actors \ {a} : actor'[b] = actor[b]
  BY <1>1
<1>3. \A b \in Actors : actor'[b].pc # "idle" => b = a
  BY <1>2
<1>4. Alone'
  BY <1>3 DEF Alone
<1>5. \A b \in Actors : actor'[b].pc = "idle" => actor'[b] = Idle
  BY <1>2 DEF RunInv
<1> QED BY <1>2, <1>3, <1>4, <1>5 DEF RunInv

LEMMA OneRests ==
  ASSUME TypeInv, RunInv, NEW a \in Actors, \A b \in Actors \ {a} : actor[b].pc = "idle",
         actor' = [actor EXCEPT ![a] = Idle],
         Outside(Told', Len(plan')), AtRest(Told', Len(plan'), status', interrupted')
  PROVE  RunInv'
<1>1. actor \in [Actors -> Doer]
  BY Parts
<1>2. actor'[a] = Idle /\ \A b \in Actors \ {a} : actor'[b] = actor[b]
  BY <1>1
<1>3. \A b \in Actors : actor'[b].pc = "idle" /\ actor'[b] = Idle
  BY <1>2, IdleTyped DEF RunInv
<1>4. Alone'
  BY <1>3 DEF Alone
<1> QED BY <1>3, <1>4 DEF RunInv

LEMMA WriteRuns ==
  ASSUME TypeInv, RunInv, NEW a \in Actors, WriteLands(a)
  PROVE  RunInv'
<1> DEFINE d == actor[a]
<1>1. /\ Effect(d.todo[1], Told, status, Told', status') /\ actor' = [actor EXCEPT ![a] = After(d)]
      /\ plan' = plan /\ interrupted' = interrupted /\ d \in Doer /\ d.todo # <<>>
  BY WriteTells
<1>2. d.pc # "idle"
  BY <1>1, IdleTyped DEF RunInv
<1>3. Doing(Told, Len(plan), status, d) /\ Outside(Told, Len(plan))
  BY <1>2 DEF RunInv
<1>4. \A b \in Actors \ {a} : actor[b].pc = "idle"
  BY <1>2, OthersRest
<1>5. Passes(d, Len(plan), Told', status', interrupted)
  BY <1>1, <1>3, ToldIs, DoingPasses
<1> HIDE DEF d
<1>6. CASE After(d) = Idle /\ AtRest(Told', Len(plan), status', interrupted)
  BY <1>1, <1>4, <1>5, <1>6, OneRests DEF Passes
<1>7. CASE After(d).pc # "idle" /\ Doing(Told', Len(plan), status', After(d))
  BY <1>1, <1>4, <1>5, <1>7, OneMoves DEF Passes
<1> QED BY <1>5, <1>6, <1>7 DEF Passes
-----------------------------------------------------------------------------
(* An actor with nothing left to write.                                    *)
LEMMA Paused ==
  ASSUME TypeInv, RunInv, NEW a \in Actors, actor[a].pc # "idle", actor[a].todo = <<>>
  PROVE  LET d == actor[a]
         IN /\ d.pc \in {"planning", "deciding", "executing"} /\ status \in Going
            /\ \A s \in StepIds : Told[s] # "pending_approval"
            /\ d.pc = "planning" => Planning(Told, Len(plan), status, d)
            /\ d.pc = "executing" => /\ d.index \in 1..Len(plan) /\ Told[d.index] \in Tried
                                     /\ Reached(Told, Len(plan), d.index)
            /\ d.pc = "deciding" => /\ d.start \in 1..Len(plan) /\ Told[d.start] = "approved"
                                    /\ Reached(Told, Len(plan), d.start)
                                    /\ status = "resuming_after_approval"
            /\ Sourced(Told, d)
<1> DEFINE d == actor[a]
           e == Told
           n == Len(plan)
<1>1. Doing(e, n, status, d) /\ Outside(e, n) /\ d.todo = <<>> /\ Len(d.todo) = 0
  BY DEF RunInv
<1>2. n \in Nat /\ e \in [StepIds -> Seen] /\ 1..n \subseteq StepIds
  BY ToldIs
<1> HIDE DEF d, e, n
<1>3. CASE Planning(e, n, status, d)
  BY <1>1, <1>3 DEF Planning, Doing, Going, d, e, n
<1>4. ASSUME NEW f \in 0..(n + 1), Reached(e, n, f), Working(e, n, status, d, f, d.todo)
      PROVE  \/ /\ d.pc = "executing" /\ d.index = f /\ f \in 1..n /\ e[f] \in Tried
                /\ status \in Going
             \/ /\ d.pc = "deciding" /\ d.start = f /\ f \in 1..n /\ e[f] = "approved"
                /\ status = "resuming_after_approval"
  <2>1. Arrived(e, n, d, f, d.todo) => d.pc = "executing" /\ d.index = f /\ f \in 1..n /\ e[f] \in Tried
    BY <1>1 DEF Arrived
  <2>2. ~NoPlan(e, n, d, d.todo)
    BY <1>1 DEF NoPlan
  <2>3. \A k : ~Storing(e, n, d, f, d.todo, k)
    BY <1>1 DEF Storing
  <2>4. Deciding(e, n, status, d, f, d.todo) =>
          /\ d.pc = "deciding" /\ d.start = f /\ f \in 1..n /\ e[f] = "approved"
          /\ status = "resuming_after_approval"
    BY <1>1 DEF Deciding, Decided
  <2>5. ~Resuming(e, n, status, d, f, d.todo)
    BY <1>1 DEF Resuming
  <2> QED BY <1>4, <2>1, <2>2, <2>3, <2>4, <2>5 DEF Working
<1>5. ASSUME NEW f \in 1..n, Reached(e, n, f), e[f] \in Tried, NEW s \in StepIds
      PROVE  e[s] # "pending_approval"
  <2>1. CASE s \in 1..n
    BY <1>5, <2>1 DEF Reached, Tried
  <2>2. CASE s \notin 1..n
    BY <1>1, <2>2 DEF Outside
  <2> QED BY <2>1, <2>2
<1>6. CASE ~Planning(e, n, status, d)
  <2>1. PICK f \in 0..(n + 1) : Reached(e, n, f) /\ Working(e, n, status, d, f, d.todo)
    BY <1>1, <1>6 DEF Doing
  <2>2. CASE d.pc = "executing" /\ d.index = f /\ f \in 1..n /\ e[f] \in Tried /\ status \in Going
    <3>1. \A s \in StepIds : e[s] # "pending_approval"
      BY <1>5, <2>1, <2>2
    <3> QED BY <1>1, <2>1, <2>2, <3>1 DEF Doing, d, e, n
  <2>3. CASE /\ d.pc = "deciding" /\ d.start = f /\ f \in 1..n /\ e[f] = "approved"
             /\ status = "resuming_after_approval"
    <3>1. \A s \in StepIds : e[s] # "pending_approval"
      BY <1>5, <2>1, <2>3 DEF Tried
    <3> QED BY <1>1, <2>1, <2>3, <3>1 DEF Doing, Going, d, e, n
  <2> QED BY <1>4, <2>1, <2>2, <2>3
<1> QED BY <1>3, <1>6

(* A call that may be made finds every actor idle, or one that has nothing *)
(* left to write.                                                          *)
LEMMA CallsWait ==
  ASSUME TypeInv, RunInv, ~Racing, NEW c \in Actors, actor[c].pc = "idle", MayRun(c)
  PROVE  \/ AtRest(Told, Len(plan), status, interrupted) /\ \A a \in Actors : actor[a].pc = "idle"
         \/ status \in Going /\ \A s \in StepIds : Told[s] # "pending_approval"
<1>1. CASE \A a \in Actors : actor[a].pc = "idle"
  BY <1>1 DEF RunInv
<1>2. ASSUME NEW b \in Actors, actor[b].pc # "idle"
      PROVE  status \in Going /\ \A s \in StepIds : Told[s] # "pending_approval"
  <2>1. b # c /\ ~Busy(b)
    BY <1>2 DEF MayRun
  <2>2. actor[b].todo = <<>>
    BY <2>1 DEF Busy
  <2> QED BY <1>2, <2>2, Paused
<1> QED BY <1>1, <1>2

LEMMA DecidesRuns ==
  ASSUME TypeInv, RunInv, ~Racing, NEW c \in Calls, NEW kind \in Kinds \ {"continue"},
         NEW s \in StepIds, Decidable(s),
         NEW now, NEW last,
         \/ now = "approved" /\ last = "resuming_after_approval"
         \/ now = "rejected" /\ last = "rejected",
         Decides(c, kind, s, now, last)
  PROVE  RunInv'
<1> DEFINE d == Driver(kind, s, FALSE, <<>>)
           u == [update |-> s, status |-> now, error |-> "none"]
           g == [decide |-> [step |-> s, decision |-> now]]
           w == <<u, g, Run(last)>>
           pc == IF now = "approved" THEN "deciding" ELSE "ending"
           m == [d EXCEPT !.pc = pc, !.todo = w]
           e == Told
           n == Len(plan)
<1>1. /\ c \in Actors /\ actor[c].pc = "idle" /\ MayRun(c) /\ actor' = [actor EXCEPT ![c] = m]
      /\ UNCHANGED <<plan, records, history, status, executed, interrupted>>
  BY DEF Decides, Actors, Run
<1>2. Told[s] = "pending_approval"
  BY ToldIs DEF Decidable
<1>3. /\ AtRest(Told, Len(plan), status, interrupted)
      /\ \A a \in Actors : actor[a].pc = "idle"
  BY <1>1, <1>2, CallsWait
<1>4. s \in 1..n /\ Reached(e, n, s) /\ status \in Going \cup {"awaiting_approval"}
  BY <1>2, <1>3 DEF AtRest
<1>5. m.pc = pc /\ m.kind = kind /\ m.start = s /\ m.todo = w
  BY IdleTyped DEF Driver, Doer
<1>6. Len(w) = 3 /\ w[1] = u /\ w[2] = g /\ w[3] = Run(last)
  OBVIOUS
<1>7. Writes(u, e, s, now) /\ "decide" \in DOMAIN g
  BY <1>2 DEF Writes
<1> HIDE DEF m, w, u, g
<1>8. Decided(e, s, w, now, last)
  BY <1>2, <1>6, <1>7 DEF Decided
<1>9. Working(e, n, status, m, s, m.todo)
  BY <1>4, <1>5, <1>8 DEF Working, Deciding
<1>10. Sourced(e, m)
  BY <1>5 DEF Sourced
<1>11. Doing(e, n, status, m)
  <2>1. s \in 0..(n + 1)
    BY <1>4, ToldIs
  <2> QED BY <1>4, <1>9, <1>10, <2>1 DEF Doing
<1>12. Told' = Told /\ plan' = plan /\ status' = status
  BY <1>1, SameTold
<1> QED BY <1>1, <1>3, <1>5, <1>11, <1>12, OneMoves DEF RunInv

LEMMA MarksWrites ==
  ASSUME NEW d, NEW i, NEW e, Sourced(e, d), NEW st, NEW w, Marks(w, i, st, Source(d, i))
  PROVE  Writes(w, e, i, st)
<1>1. CASE \E r \in Record : w = [insert |-> r] /\ r.step = i /\ r.status = st
  BY <1>1 DEF Writes
<1>2. CASE \E x \in Errors :
             Source(d, i) /\ w = [update |-> i, status |-> st, error |-> x]
  <2>1. e[i] # "none"
    BY <1>2 DEF Source, Sourced
  <2> QED BY <1>2, <2>1 DEF Writes
<1> QED BY <1>1, <1>2 DEF Marks

(* Where a driver goes, and what it has then to write after w.             *)
Heads(a, d, e, n, i, w) ==
  \E m, v : /\ actor' = [actor EXCEPT ![a] = m] /\ v \in Seq(Write) /\ m.todo = w \o v
            /\ m.kind = d.kind /\ m.start = d.start /\ m.pc \in {"executing", "ending"}
            /\ Arrived(e, n, m, i, v)

LEMMA GoesArrives ==
  ASSUME TypeInv, NEW a \in Actors, NEW d \in Doer, NEW p \in Seq(Gates), Drives(d, p),
         Len(p) <= MaxSteps, p # <<>>, NEW i \in 1..(Len(p) + 1), NEW w \in Seq(Write),
         Goes(a, d, i, p, w), NEW e \in [StepIds -> Seen],
         i <= Len(p) => e[i] \in Tried, Sourced(e, d)
  PROVE  Heads(a, d, e, Len(p), i, w)
<1>0. /\ Len(p) \in Nat /\ i \in Places /\ Len(p) > 0
  BY BoundsAssumption DEF Places
<1>1. ASSUME NEW v \in Seq(Write),
             actor' = [actor EXCEPT ![a] = [d EXCEPT !.pc = "ending", !.index = i, !.todo = w \o v]],
             \A m : m.pc = "ending" => Arrived(e, Len(p), m, i, v)
      PROVE  Heads(a, d, e, Len(p), i, w)
  <2> DEFINE m == [d EXCEPT !.pc = "ending", !.index = i, !.todo = w \o v]
  <2>1. m.kind = d.kind /\ m.start = d.start /\ m.pc = "ending" /\ m.todo = w \o v
    BY DEF Doer
  <2>2. actor' = [actor EXCEPT ![a] = m]
    BY <1>1
  <2> HIDE DEF m
  <2>3. Arrived(e, Len(p), m, i, v)
    BY <1>1, <2>1
  <2> QED BY <1>1, <2>1, <2>2, <2>3 DEF Heads
<1>2. CASE i > Len(p)
  <2>1. i = Len(p) + 1
    BY <1>0, <1>2
  <2> DEFINE v == << [run |-> "completed"] >>
  <2>2. v \in Seq(Write) /\ Len(v) = 1 /\ v[1] = Run("completed")
    BY RunWritten DEF RunStatuses, Run
  <2>3. actor' = [actor EXCEPT ![a] = [d EXCEPT !.pc = "ending", !.index = i, !.todo = w \o v]]
    BY <1>0, <1>2 DEF Goes
  <2> HIDE DEF v
  <2>4. \A m : m.pc = "ending" => Arrived(e, Len(p), m, i, v)
    BY <1>0, <2>1, <2>2 DEF Arrived
  <2> QED BY <1>1, <2>2, <2>3, <2>4
<1>3. CASE i <= Len(p) /\ Pauses(d, i, p[i])
  <2>0. ~(i > Len(p)) /\ i \in 1..Len(p)
    BY <1>0, <1>3
  <2> DEFINE v == Pause(d, i)
  <2>1. actor' = [actor EXCEPT ![a] = [d EXCEPT !.pc = "ending", !.index = i, !.todo = w \o v]]
    BY <1>3, <2>0 DEF Goes
  <2> HIDE DEF v
  <2>2. PICK r \in Record, x \in Decision :
          /\ v = << [insert |-> r], [decide |-> x], [run |-> "awaiting_approval"] >>
          /\ r.step = i /\ r.status = "pending_approval" /\ v \in Seq(Write)
    BY <2>0, PauseMade DEF v
  <2>3. /\ Len(v) = 3 /\ v[1] = [insert |-> r] /\ "decide" \in DOMAIN v[2]
        /\ v[3] = Run("awaiting_approval")
    BY <2>2 DEF Run
  <2>4. Writes(v[1], e, i, "pending_approval")
    BY <2>2, <2>3 DEF Writes
  <2>5. \A m : m.pc = "ending" => Arrived(e, Len(p), m, i, v)
    BY <1>3, <2>0, <2>3, <2>4 DEF Arrived
  <2> QED BY <1>1, <2>1, <2>2, <2>5
<1>4. ASSUME NEW error \in {"policy", "arguments"}, i <= Len(p),
             actor' = [actor EXCEPT ![a] = [d EXCEPT !.pc = "ending", !.index = i,
                                                     !.todo = w \o Refusal(d, i, error)]]
      PROVE  Heads(a, d, e, Len(p), i, w)
  <2>0. ~(i > Len(p)) /\ i \in 1..Len(p)
    BY <1>0, <1>4
  <2> DEFINE v == Refusal(d, i, error)
  <2>1. actor' = [actor EXCEPT ![a] = [d EXCEPT !.pc = "ending", !.index = i, !.todo = w \o v]]
    BY <1>4
  <2> HIDE DEF v
  <2>2. PICK x \in Write : /\ v = << x, [run |-> "failed"] >> /\ v \in Seq(Write)
                           /\ Marks(x, i, "failed", Source(d, i))
    BY <2>0, RefusalMade DEF v
  <2>3. Len(v) = 2 /\ v[1] = x /\ v[2] = Run("failed")
    BY <2>2 DEF Run
  <2>4. Writes(v[1], e, i, "failed")
    BY <2>2, <2>3, MarksWrites
  <2>5. \A m : m.pc = "ending" => Arrived(e, Len(p), m, i, v)
    BY <1>4, <2>0, <2>3, <2>4 DEF Arrived
  <2> QED BY <1>1, <2>1, <2>2, <2>5
<1>5. ASSUME i <= Len(p),
             actor' = [actor EXCEPT ![a] = [d EXCEPT !.pc = "executing", !.index = i, !.todo = w]]
      PROVE  Heads(a, d, e, Len(p), i, w)
  <2>0. ~(i > Len(p)) /\ i \in 1..Len(p)
    BY <1>0, <1>5
  <2> DEFINE m == [d EXCEPT !.pc = "executing", !.index = i, !.todo = w]
  <2>1. actor' = [actor EXCEPT ![a] = m]
    BY <1>5
  <2>2. m.kind = d.kind /\ m.start = d.start /\ m.pc = "executing" /\ m.index = i /\ m.todo = w
    BY DEF Doer
  <2> HIDE DEF m
  <2>3. <<>> \in Seq(Write) /\ w = w \o <<>>
    OBVIOUS
  <2>4. Arrived(e, Len(p), m, i, <<>>)
    BY <1>5, <2>0, <2>2 DEF Arrived
  <2> QED BY <2>1, <2>2, <2>3, <2>4 DEF Heads
<1> QED BY <1>2, <1>3, <1>4, <1>5 DEF Goes
-----------------------------------------------------------------------------
(* The actions.                                                            *)

(* Driver d, with nothing to write before, arrives at step i.              *)
LEMMA GoesRuns ==
  ASSUME TypeInv, RunInv, NEW a \in Actors, \A b \in Actors \ {a} : actor[b].pc = "idle",
         NEW d \in Doer, plan' \in Seq(Gates), Drives(d, plan'), Len(plan') <= MaxSteps,
         plan' # <<>>, NEW i \in 1..(Len(plan') + 1), Goes(a, d, i, plan', <<>>),
         UNCHANGED <<records, status>>, status \in Going,
         i <= Len(plan') => Told[i] \in Tried, Reached(Told, Len(plan'), i),
         Outside(Told, Len(plan')), Sourced(Told, d)
  PROVE  RunInv'
<1>1. <<>> \in Seq(Write) /\ Told \in [StepIds -> Seen] /\ Told' = Told
  BY ToldIs, SameTold
<1>2. PICK m, v : /\ actor' = [actor EXCEPT ![a] = m] /\ v \in Seq(Write) /\ m.todo = <<>> \o v
                  /\ m.kind = d.kind /\ m.start = d.start /\ m.pc \in {"executing", "ending"}
                  /\ Arrived(Told, Len(plan'), m, i, v)
  <2>1. Heads(a, d, Told, Len(plan'), i, <<>>)
    BY <1>1, GoesArrives
  <2> QED BY <2>1 DEF Heads
<1>3. m.todo = v
  BY <1>2
<1>4. Sourced(Told, m)
  BY <1>2 DEF Sourced
<1>5. Doing(Told, Len(plan'), status, m)
  <2>1. i \in 0..(Len(plan') + 1)
    OBVIOUS
  <2> QED BY <1>2, <1>3, <1>4, <2>1 DEF Doing, Working
<1> QED BY <1>1, <1>2, <1>5, OneMoves

LEMMA PlanRuns ==
  ASSUME TypeInv, RunInv, Plan
  PROVE  RunInv'
<1>1. PICK n \in 0..MaxSteps : plan' \in [1..n -> Gates]
  BY DEF Plan
<1>2. plan' \in Seq(Gates) /\ Len(plan') <= MaxSteps /\ n \in Nat /\ Len(plan') = n
  BY <1>1, BoundsAssumption
<1> DEFINE d == [actor[Agent] EXCEPT !.start = 1]
<1>3. /\ Agent \in Actors /\ Goes(Agent, d, 1, plan', <<>>) /\ actor[Agent].todo = <<>>
      /\ UNCHANGED <<records, history, status, interrupted>>
      /\ actor[Agent] \in Doer /\ actor[Agent].kind = "agent" /\ actor[Agent].pc = "planning"
  BY Parts DEF Plan, Fits, Actors, MayRun
<1>4. d \in Doer /\ d.kind = "agent"
  <2>1. 1 \in Places
    BY BoundsAssumption DEF Places
  <2> QED BY <1>3, <2>1 DEF Doer
<1>5. Planning(Told, Len(plan), status, actor[Agent]) /\ status \in Going
  BY <1>3, Paused
<1>6. \A s \in StepIds : Told[s] = "none"
  BY <1>5 DEF Planning
<1>7. \A b \in Actors \ {Agent} : actor[b].pc = "idle"
  BY <1>3, OthersRest
<1> HIDE DEF d
<1>8. Drives(d, plan') /\ Sourced(Told, d)
  BY <1>4 DEF Drives, Driving, Sourced
<1>9. 1..Len(plan') \subseteq StepIds
  BY <1>2, BoundsAssumption DEF StepIds
<1>10. Outside(Told, Len(plan')) /\ \A f \in {0, 1} : Reached(Told, Len(plan'), f)
  BY <1>2, <1>6, <1>9 DEF Outside, Reached
<1>11. CASE plan' # <<>>
  <2>1. 1 \in 1..(Len(plan') + 1) /\ (1 <= Len(plan') => Told[1] \in Tried)
    BY <1>2, <1>6, <1>9 DEF Tried
  <2> QED BY <1>2, <1>3, <1>4, <1>5, <1>7, <1>8, <1>10, <1>11, <2>1, GoesRuns
<1>12. CASE plan' = <<>>
  <2> DEFINE v == <<>> \o << [run |-> "failed"] >>
             m == [d EXCEPT !.pc = "ending", !.index = 1, !.todo = v]
  <2>1. Len(plan') = 0 /\ 1 > Len(plan')
    BY <1>12
  <2>2. actor' = [actor EXCEPT ![Agent] = m]
    BY <1>3, <1>12, <2>1 DEF Goes
  <2>3. v = << [run |-> "failed"] >>
    OBVIOUS
  <2>4. Len(v) = 1 /\ v[1] = Run("failed")
    BY <2>3 DEF Run
  <2>5. m.pc = "ending" /\ m.kind = "agent" /\ m.todo = v
    BY <1>4 DEF Doer
  <2> HIDE DEF m, v
  <2>6. NoPlan(Told, Len(plan'), m, m.todo)
    BY <2>1, <2>4, <2>5 DEF NoPlan
  <2>7. Doing(Told, Len(plan'), status, m)
    <3>1. 0 \in 0..(Len(plan') + 1) /\ Sourced(Told, m)
      BY <2>1, <2>5 DEF Sourced
    <3> QED BY <1>5, <1>10, <2>6, <3>1 DEF Doing, Working
  <2>8. Told' = Told
    BY <1>3, SameTold
  <2> QED BY <1>3, <1>7, <1>10, <2>2, <2>5, <2>7, <2>8, OneMoves
<1> QED BY <1>11, <1>12

LEMMA PlanFailsRuns ==
  ASSUME TypeInv, RunInv, PlanFails
  PROVE  RunInv'
<1> DEFINE r == Unnumbered(0, "failed", "tool")
           w == << [insert |-> r], [run |-> "failed"] >>
           m == [actor[Agent] EXCEPT !.pc = "ending", !.todo = w]
           n == Len(plan)
<1>1. /\ Agent \in Actors /\ Ends(Agent, w) /\ UNCHANGED <<plan, records, history, status, interrupted>>
      /\ actor[Agent].pc = "planning" /\ actor[Agent].todo = <<>> /\ actor[Agent] \in Doer
  BY Parts DEF PlanFails, Actors, MayRun
<1>2. Planning(Told, n, status, actor[Agent]) /\ status \in Going
  BY <1>1, Paused
<1>3. \A b \in Actors \ {Agent} : actor[b].pc = "idle"
  BY <1>1, OthersRest
<1>4. m.pc = "ending" /\ m.kind = actor[Agent].kind /\ m.start = actor[Agent].start /\ m.todo = w
  BY <1>1 DEF Doer
<1>5. actor' = [actor EXCEPT ![Agent] = m]
  BY <1>1, Parts DEF Ends
<1>6. Writes([insert |-> r], Told, 0, "failed")
  <2>1. r.step = 0 /\ r.status = "failed"
    BY DEF Unnumbered
  <2> QED BY <2>1 DEF Writes
<1>7. Len(w) = 2 /\ w[1] = [insert |-> r] /\ w[2] = Run("failed")
  BY DEF Run
<1> HIDE DEF m, w, r
<1>8. NoPlan(Told, n, m, m.todo)
  BY <1>2, <1>4, <1>6, <1>7 DEF NoPlan, Planning
<1>9. Sourced(Told, m)
  BY <1>1, <1>4, Paused DEF Sourced
<1>10. Reached(Told, n, 0) /\ 0 \in 0..(n + 1)
  BY <1>2 DEF Reached, Planning
<1>11. Doing(Told, n, status, m)
  BY <1>2, <1>8, <1>9, <1>10 DEF Doing, Working
<1>12. Told' = Told
  BY <1>1, SameTold
<1> QED BY <1>1, <1>3, <1>4, <1>5, <1>11, <1>12, OneMoves DEF RunInv

(* A driver that resumes a failed run from step s.                         *)
LEMMA ResumesRuns ==
  ASSUME TypeInv, RunInv, NEW a \in Actors, \A b \in Actors \ {a} : actor[b].pc = "idle",
         NEW d \in Doer, Drives(d, plan), d.kind = "resume", NEW s \in 1..Len(plan),
         Goes(a, d, s, plan, << [run |-> "resuming_failed_run"] >>),
         UNCHANGED <<plan, records, status>>,
         status \in {"failed", "resuming_after_approval"}, Told[s] \in {"failed", "approved"},
         Reached(Told, Len(plan), s)
  PROVE  RunInv'
<1> DEFINE w == << [run |-> "resuming_failed_run"] >>
           n == Len(plan)
<1>1. /\ w \in Seq(Write) /\ Told \in [StepIds -> Seen] /\ Told' = Told /\ n \in Nat
      /\ Len(w) = 1 /\ w[1] = Run("resuming_failed_run")
  BY ToldIs, SameTold, RunWritten DEF RunStatuses, Run
<1>2. plan \in Seq(Gates) /\ Len(plan) <= MaxSteps /\ plan # <<>> /\ s \in 1..(Len(plan) + 1)
      /\ s \in 0..(n + 1)
  BY Parts
<1>3. Told[s] \in Tried /\ Sourced(Told, d)
  BY DEF Tried, Sourced
<1> HIDE DEF w
<1>4. PICK m, v : /\ actor' = [actor EXCEPT ![a] = m] /\ v \in Seq(Write) /\ m.todo = w \o v
                  /\ m.kind = d.kind /\ m.start = d.start /\ m.pc \in {"executing", "ending"}
                  /\ Arrived(Told, n, m, s, v)
  <2>1. Heads(a, d, Told, n, s, w)
    BY <1>1, <1>2, <1>3, GoesArrives DEF w
  <2> QED BY <2>1 DEF Heads
<1>5. Len(m.todo) > 0 /\ m.todo[1] = w[1] /\ Beyond(m.todo, 1) = v
  <2>1. Beyond(w \o v, Len(w)) = v
    BY <1>1, <1>4, BeyondJoin
  <2>2. Len(w \o v) = Len(w) + Len(v) /\ (w \o v)[1] = w[1] /\ Len(v) \in Nat
    <3>1. w \in Seq(Write) /\ v \in Seq(Write) /\ 1 \in 1..Len(w)
      BY <1>1, <1>4
    <3> QED BY <3>1, JoinIs
  <2> QED BY <1>1, <1>4, <2>1, <2>2
<1>6. Resuming(Told, n, status, m, s, m.todo)
  BY <1>1, <1>4, <1>5 DEF Resuming
<1>7. Sourced(Told, m)
  BY <1>4 DEF Sourced
<1>8. Doing(Told, n, status, m)
  BY <1>2, <1>6, <1>7 DEF Doing, Working
<1> QED BY <1>1, <1>4, <1>8, OneMoves DEF RunInv

LEMMA ContinueRuns ==
  ASSUME TypeInv, RunInv, NEW c \in Calls, Continue(c)
  PROVE  RunInv'
<1> DEFINE n == Len(plan)
<1>1. /\ c \in Actors /\ UNCHANGED <<plan, records, history, status, interrupted>>
      /\ actor[c].pc = "deciding" /\ actor[c].todo = <<>>
  BY DEF Continue, Actors, MayRun
<1>2. \A b \in Actors \ {c} : actor[b].pc = "idle"
  BY <1>1, OthersRest
<1>3. PICK s : s = actor[c].start
  OBVIOUS
<1>4. /\ s \in 1..n /\ Told[s] = "approved" /\ Reached(Told, n, s)
      /\ status = "resuming_after_approval"
      /\ \A t \in StepIds : Told[t] # "pending_approval"
  BY <1>1, <1>3, Paused
<1>5. /\ s \in StepIds /\ s \in Places /\ s \in 1..(n + 1) /\ s \in 0..(n + 1) /\ n \in Nat
      /\ plan \in Seq(Gates) /\ n <= MaxSteps /\ plan # <<>> /\ Outside(Told, n)
      /\ Told' = Told
  <2>1. s \in StepIds /\ n \in Nat /\ n <= MaxSteps /\ plan \in Seq(Gates)
    BY <1>4, ToldIs, Parts
  <2>2. s \in Places /\ s \in 1..(n + 1) /\ s \in 0..(n + 1) /\ plan # <<>>
    BY <1>4, <2>1, BoundsAssumption DEF Places
  <2> QED BY <1>1, <2>1, <2>2, SameTold DEF RunInv
<1>6. ASSUME NEW kind \in {"continue", "legacy"}, NEW numbers \in Seq(Nat \ {0}),
             kind = "continue" => Len(numbers) = Len(plan),
             Goes(c, Driver(kind, s, TRUE, numbers), s, plan, <<>>)
      PROVE  RunInv'
  <2> DEFINE d == Driver(kind, s, TRUE, numbers)
  <2>1. d \in Doer /\ d.kind = kind /\ d.numbers = numbers /\ d.start = s
    BY <1>5, IdleTyped DEF Driver, Doer, Kinds
  <2>2. Goes(c, d, s, plan', <<>>) /\ plan' = plan
    BY <1>1, <1>6
  <2> HIDE DEF d
  <2>3. Drives(d, plan') /\ Sourced(Told, d)
    BY <1>4, <1>5, <1>6, <2>1, <2>2 DEF Drives, Driving, Sourced
  <2>4. Told[s] \in Tried /\ status \in Going
    BY <1>4 DEF Tried, Going
  <2> QED BY <1>1, <1>2, <1>4, <1>5, <2>1, <2>2, <2>3, <2>4, GoesRuns
<1>7. CASE ContinuePlan(c, s)
  <2>1. \/ Goes(c, Driver("continue", s, TRUE, ContinueNumbers(s)), s, plan, <<>>)
        \/ Goes(c, Driver("legacy", s, TRUE, <<>>), s, plan, <<>>)
    BY <1>4, <1>7 DEF ContinuePlan
  <2>2. <<>> \in Seq(Nat \ {0})
    OBVIOUS
  <2>3. CASE Goes(c, Driver("continue", s, TRUE, ContinueNumbers(s)), s, plan, <<>>)
    BY <1>6, <2>3, NumbersTyped
  <2>4. CASE Goes(c, Driver("legacy", s, TRUE, <<>>), s, plan, <<>>)
    BY <1>6, <2>2, <2>4
  <2> QED BY <2>1, <2>3, <2>4
<1>8. CASE ContinueResumption(c, s)
  <2>1. CASE actor' = [actor EXCEPT ![c] = Idle] /\ executed' = executed
    <3>2. AtRest(Told, n, status, interrupted')
      BY <1>4 DEF AtRest
    <3> QED BY <1>1, <1>2, <1>5, <2>1, <3>2, OneRests
  <2>2. CASE Goes(c, Driver("resume", s, TRUE, ResumeNumbers(s, TRUE)), s, plan,
                  << [run |-> "resuming_failed_run"] >>)
    <3> DEFINE d == Driver("resume", s, TRUE, ResumeNumbers(s, TRUE))
    <3>1. ResumeNumbers(s, TRUE) \in Seq(Nat \ {0}) /\ Len(ResumeNumbers(s, TRUE)) = Len(plan)
      BY NumbersTyped
    <3>2. d \in Doer /\ d.kind = "resume" /\ d.numbers = ResumeNumbers(s, TRUE)
      BY <1>5, <3>1, IdleTyped DEF Driver, Doer, Kinds
    <3> HIDE DEF d
    <3>3. Drives(d, plan)
      BY <3>1, <3>2 DEF Drives, Driving
    <3>4. Goes(c, d, s, plan, << [run |-> "resuming_failed_run"] >>)
      BY <2>2 DEF d
    <3> QED BY <1>1, <1>2, <1>4, <3>2, <3>3, <3>4, ResumesRuns
  <2> QED BY <1>8, <2>1, <2>2 DEF ContinueResumption
<1> QED BY <1>3, <1>7, <1>8 DEF Continue

LEMMA ResumeRuns ==
  ASSUME TypeInv, RunInv, ~Racing, NEW c \in Calls, Resume(c)
  PROVE  RunInv'
<1> DEFINE n == Len(plan)
<1>1. PICK s : s = Min(FailedSteps)
  OBVIOUS
<1> DEFINE d == Driver("resume", s, FALSE, ResumeNumbers(s, FALSE))
<1>2. /\ c \in Actors /\ UNCHANGED <<plan, records, history, status, interrupted>>
      /\ Goes(c, d, s, plan, << [run |-> "resuming_failed_run"] >>) /\ FailedSteps # {}
      /\ status = "failed" /\ actor[c].pc = "idle" /\ MayRun(c)
  BY <1>1 DEF Resume, Actors, Resumable
<1>3. s \in 1..n /\ Told[s] = "failed"
  <2>1. FailedSteps \in SUBSET Nat
    BY Parts DEF FailedSteps
  <2>2. s \in FailedSteps
    BY <1>1, <1>2, <2>1, LeastNumber
  <2> QED BY <2>2, ToldIs DEF FailedSteps
<1>4. /\ AtRest(Told, n, status, interrupted)
      /\ \A a \in Actors : actor[a].pc = "idle"
  BY <1>2, CallsWait DEF Going
<1>5. Reached(Told, n, s)
  BY <1>2, <1>3, <1>4 DEF AtRest
<1>6. ResumeNumbers(s, FALSE) \in Seq(Nat \ {0}) /\ Len(ResumeNumbers(s, FALSE)) = Len(plan)
  BY NumbersTyped
<1>7. s \in Places
  BY <1>3, Parts DEF Places
<1>8. d \in Doer /\ d.kind = "resume" /\ d.numbers = ResumeNumbers(s, FALSE)
  BY <1>6, <1>7, IdleTyped DEF Driver, Doer, Kinds
<1> HIDE DEF d
<1>9. Drives(d, plan)
  BY <1>6, <1>8 DEF Drives, Driving
<1> QED BY <1>2, <1>3, <1>4, <1>5, <1>8, <1>9, ResumesRuns

LEMMA ResultRuns ==
  ASSUME TypeInv, RunInv, NEW a \in Actors, NEW tries \in 1..MaxTries,
         NEW st \in {"success", "failed"}, Result(a, tries, st)
  PROVE  RunInv'
<1> DEFINE d == actor[a]
           w == Stored(d, d.index, tries, st)
           n == Len(plan)
<1>1. /\ UNCHANGED <<plan, records, history, status, interrupted>>
      /\ IF st = "success" THEN Goes(a, d, d.index + 1, plan, w)
         ELSE Ends(a, w \o << [run |-> "failed"] >>)
      /\ d \in Doer /\ Drives(d, plan) /\ d.pc = "executing" /\ d.todo = <<>>
  BY Parts DEF Result, Fits, MayRun
<1>2. \A b \in Actors \ {a} : actor[b].pc = "idle"
  BY <1>1, OthersRest
<1>3. PICK i : i = d.index
  OBVIOUS
<1>4. /\ i \in 1..n /\ Told[i] \in Tried /\ Reached(Told, n, i) /\ status \in Going
      /\ Sourced(Told, d)
  BY <1>1, <1>3, Paused
<1>5. /\ Told \in [StepIds -> Seen] /\ Told' = Told /\ n \in Nat /\ n <= MaxSteps /\ plan # <<>>
      /\ plan \in Seq(Gates) /\ 1..n \subseteq StepIds /\ tries \in Nat \ {0}
  BY <1>1, <1>4, ToldIs, SameTold, Parts, BoundsAssumption
<1> HIDE DEF d
<1>6. /\ Len(w) = tries /\ w \in Seq(Write)
      /\ \A k \in 1..tries : Writes(w[k], Told, i, IF k < tries THEN "failed" ELSE st)
  <2>1. /\ Len(w) = tries /\ w \in Seq(Write)
        /\ \A k \in 1..tries : Marks(w[k], i, IF k < tries THEN "failed" ELSE st, Source(d, i))
    BY <1>1, <1>3, <1>4, <1>5, StoredMade
  <2> QED BY <1>4, <2>1, MarksWrites
<1>7. Writes(w[tries], Told, i, st) /\ \A k \in 1..tries : k < tries => Writes(w[k], Told, i, "failed")
  BY <1>5, <1>6
<1> HIDE DEF w
<1>8. ASSUME NEW m, NEW v \in Seq(Write), actor' = [actor EXCEPT ![a] = m], m.todo = w \o v,
             m.kind = d.kind, m.start = d.start, m.pc # "idle",
             \/ st = "success" /\ Arrived(Told, n, m, i + 1, v)
             \/ st = "failed" /\ m.pc = "ending" /\ Len(v) = 1 /\ v[1] = Run("failed")
      PROVE  RunInv'
  <2> DEFINE x == w \o v
  <2>1. /\ x \in Seq(Write) /\ Len(x) = tries + Len(v) /\ Len(v) \in Nat
        /\ (\A k \in 1..tries : x[k] = w[k]) /\ (\A k \in 1..Len(v) : x[tries + k] = v[k])
    BY <1>5, <1>6
  <2>2. Beyond(x, tries) = v
    BY <1>6, BeyondJoin
  <2> HIDE DEF x
  <2>3. tries \in 1..Len(x)
    BY <1>5, <2>1
  <2>4. Writes(x[tries], Told, i, st)
        /\ \A k \in 1..tries : k < tries => Writes(x[k], Told, i, "failed")
    BY <1>5, <1>7, <2>1
  <2>5. Storing(Told, n, m, i, x, tries)
    <3>1. CASE st = "success" /\ Arrived(Told, n, m, i + 1, v)
      BY <1>4, <2>2, <2>3, <2>4, <3>1 DEF Storing
    <3>2. CASE st = "failed" /\ m.pc = "ending" /\ Len(v) = 1 /\ v[1] = Run("failed")
      <4>1. Len(x) = tries + 1 /\ x[tries + 1] = Run("failed")
        BY <2>1, <3>2
      <4> QED BY <1>4, <2>3, <2>4, <3>2, <4>1 DEF Storing
    <3> QED BY <1>8, <3>1, <3>2
  <2>6. Working(Told, n, status, m, i, m.todo)
    BY <1>4, <1>8, <2>3, <2>5 DEF Working, x
  <2>7. Sourced(Told, m)
    BY <1>4, <1>8 DEF Sourced
  <2>8. Doing(Told, n, status, m)
    <3>1. i \in 0..(n + 1)
      BY <1>4, <1>5
    <3> QED BY <1>4, <2>6, <2>7, <3>1 DEF Doing
  <2> QED BY <1>1, <1>2, <1>5, <1>8, <2>8, OneMoves DEF RunInv
<1>9. CASE st = "success"
  <2>1. Goes(a, d, i + 1, plan, w) /\ i + 1 \in 1..(n + 1)
    BY <1>1, <1>3, <1>4, <1>5, <1>9
  <2>2. i + 1 <= Len(plan) => Told[i + 1] \in Tried
    <3> SUFFICES ASSUME i + 1 <= n PROVE Told[i + 1] = "none"
      BY DEF Tried
    <3>1. i + 1 \in 1..n /\ i + 1 > i
      BY <1>4, <1>5
    <3> QED BY <1>4, <3>1 DEF Reached
  <2>3. PICK m, v : /\ actor' = [actor EXCEPT ![a] = m] /\ v \in Seq(Write) /\ m.todo = w \o v
                    /\ m.kind = d.kind /\ m.start = d.start /\ m.pc \in {"executing", "ending"}
                    /\ Arrived(Told, n, m, i + 1, v)
    <3>1. Heads(a, d, Told, n, i + 1, w)
      BY <1>1, <1>4, <1>5, <1>6, <2>1, <2>2, GoesArrives
    <3> QED BY <3>1 DEF Heads
  <2> QED BY <1>8, <1>9, <2>3
<1>10. CASE st # "success"
  <2> DEFINE v == << [run |-> "failed"] >>
             m == [d EXCEPT !.pc = "ending", !.todo = w \o v]
  <2>1. actor' = [actor EXCEPT ![a] = m]
    BY <1>1, <1>10, Parts DEF Ends, d
  <2>2. m.kind = d.kind /\ m.start = d.start /\ m.pc = "ending" /\ m.todo = w \o v
    BY <1>1 DEF Doer
  <2>3. v \in Seq(Write) /\ Len(v) = 1 /\ v[1] = Run("failed")
    BY RunWritten DEF RunStatuses, Run
  <2> HIDE DEF m, v
  <2> QED BY <1>8, <1>10, <2>1, <2>2, <2>3
<1> QED BY <1>9, <1>10
-----------------------------------------------------------------------------
(* A driver is lost half-way.                                              *)
LEMMA Abandoned ==
  ASSUME NEW e \in [StepIds -> Seen], NEW n \in Nat, n <= MaxSteps, Outside(e, n), NEW r,
         NEW d, Doing(e, n, r, d)
  PROVE  AtRest(e, n, r, TRUE)
<1>1. CASE Planning(e, n, r, d)
  BY <1>1 DEF Planning, AtRest
<1>2. ASSUME NEW f \in 0..(n + 1), Reached(e, n, f), Working(e, n, r, d, f, d.todo)
      PROVE  AtRest(e, n, r, TRUE)
  <2>1. ASSUME NEW s \in StepIds, e[s] = "pending_approval" PROVE s \in 1..n /\ s = f
    <3>1. s \in 1..n
      BY <2>1 DEF Outside
    <3>2. ~(s < f) /\ ~(s > f)
      BY <1>2, <2>1, <3>1 DEF Reached
    <3> QED BY <3>1, <3>2
  <2>2. ASSUME NEW s \in 1..n, e[s] = "failed" PROVE s = f
    <3>1. ~(s < f) /\ ~(s > f)
      BY <1>2, <2>2 DEF Reached
    <3> QED BY <3>1
  <2>3. CASE r \in Going \cup {"awaiting_approval"}
    BY <1>2, <2>1, <2>3 DEF AtRest, Going
  <2>4. CASE Resuming(e, n, r, d, f, d.todo)
    <3>1. r \in {"failed", "resuming_after_approval"} /\ e[f] # "pending_approval"
      BY <2>4 DEF Resuming
    <3> QED BY <1>2, <2>1, <2>2, <3>1 DEF AtRest
  <2>5. CASE Deciding(e, n, r, d, f, d.todo)
    <3>1. r \in Going \cup {"awaiting_approval"}
      BY <2>5 DEF Deciding, Going
    <3> QED BY <2>3, <3>1
  <2> QED BY <1>2, <2>3, <2>4, <2>5 DEF Working
<1> QED BY <1>1, <1>2 DEF Doing

LEMMA LostRuns ==
  ASSUME TypeInv, RunInv, NEW A, A \subseteq Actors, Lost(A)
  PROVE  RunInv'
<1>1. PICK a \in A : actor[a].pc # "idle"
  BY DEF Lost
<1>2. /\ actor' = [b \in Actors |-> IF b \in A THEN Idle ELSE actor[b]] /\ interrupted' = TRUE
      /\ UNCHANGED <<plan, records, history, status, executed>> /\ a \in Actors
      /\ \A b \in Actors \ {a} : actor[b].pc = "idle" /\ actor[b] = Idle
  BY <1>1, OthersRest DEF Lost
<1>3. actor' = [actor EXCEPT ![a] = Idle]
  <2>1. \A b \in Actors : actor'[b] = Idle
    BY <1>2
  <2>2. actor' = [b \in Actors |-> actor'[b]] /\ actor = [b \in Actors |-> actor[b]]
    BY <1>2, Parts
  <2>3. DOMAIN [actor EXCEPT ![a] = Idle] = Actors /\ \A b \in Actors : [actor EXCEPT ![a] = Idle][b] = Idle
    BY <1>2, <2>2
  <2> QED BY <1>2, <2>1, <2>2, <2>3
<1>4. Told' = Told /\ Outside(Told, Len(plan)) /\ Doing(Told, Len(plan), status, actor[a])
  BY <1>1, <1>2, SameTold DEF RunInv
<1>5. AtRest(Told, Len(plan), status, TRUE)
  BY <1>4, ToldIs, Abandoned
<1> QED BY <1>2, <1>3, <1>4, <1>5, OneRests

LEMMA RunInitial == Init => RunInv
<1> SUFFICES ASSUME Init PROVE RunInv
  OBVIOUS
<1> DEFINE m == [Idle EXCEPT !.kind = "agent", !.pc = "planning"]
<1>1. m.pc = "planning" /\ m.kind = "agent" /\ m.todo = <<>>
  BY IdleTyped DEF Doer
<1>2. /\ actor = [a \in Actors |-> IF a = Agent THEN m ELSE Idle]
      /\ plan = <<>> /\ records = <<>> /\ status = "running" /\ Agent \in Actors
  BY DEF Init, Actors
<1> HIDE DEF m
<1>3. \A s \in StepIds : Told[s] = "none"
  <2>1. \A s : RecordsOf(s) = {}
    BY <1>2 DEF RecordsOf
  <2> QED BY <2>1 DEF Told, Effective
<1>4. Doing(Told, Len(plan), status, m)
  BY <1>1, <1>2, <1>3 DEF Doing, Planning, Sourced
<1>5. Outside(Told, Len(plan))
  BY <1>3 DEF Outside
<1>6. \A a \in Actors : actor[a].pc # "idle" <=> a = Agent
  BY <1>1, <1>2, IdleTyped
<1>7. Alone /\ \A a \in Actors : actor[a].pc = "idle" => actor[a] = Idle
  BY <1>2, <1>6 DEF Alone
<1> QED BY <1>2, <1>4, <1>5, <1>6, <1>7 DEF RunInv

LEMMA RunInductive ==
  ASSUME ~Unguarded, ~Racing, TypeInv, RunInv, [Next]_vars
  PROVE  RunInv'
<1>1. CASE vars' = vars
  <2>1. Told' = Told /\ UNCHANGED <<plan, status, actor, interrupted>>
    BY <1>1, SameTold DEF vars
  <2> QED BY <2>1 DEF RunInv, Alone
<1>2. ASSUME NEW c \in Calls, NEW s \in StepIds, Approve(c, s) \/ Reject(c, s) PROVE RunInv'
  <2>1. {"approve", "approve_step", "reject"} \subseteq Kinds \ {"continue"}
    BY DEF Kinds
  <2>2. CASE Approve(c, s)
    BY <2>1, <2>2, DecidesRuns DEF Approve
  <2>3. CASE Reject(c, s)
    BY <2>1, <2>3, DecidesRuns DEF Reject
  <2> QED BY <1>2, <2>2, <2>3
<1>3. ASSUME NEW c \in Calls, Operator(c) PROVE RunInv'
  BY <1>2, <1>3, ResumeRuns DEF Operator, ApproveUnguarded, RejectUnguarded
<1>4. Calls \subseteq Actors /\ {Agent} \subseteq Actors
  BY DEF Actors
<1>5. CASE Next
  BY <1>3, <1>4, <1>5, PlanRuns, PlanFailsRuns, ContinueRuns, ResultRuns, WriteRuns, LostRuns
     DEF Next, Results
<1> QED BY <1>1, <1>5

LEMMA RunAlways ==
  ASSUME ~Unguarded, ~Racing
  PROVE  Spec => [](TypeInv /\ RunInv)
<1>1. TypeInv /\ RunInv /\ [Next]_vars => (TypeInv /\ RunInv)'
  BY TypeInductive, RunInductive
<1> QED BY <1>1, TypeInitial, RunInitial, PTL DEF Spec

(* A run that says it is completed has every step of its plan done, by the *)
(* latest attempt of each, with the guarded endpoints and no writes of     *)
(* threads and processes in between.                                       *)
THEOREM CompletedMeansDoneCorrect ==
  ASSUME ~Unguarded, ~Racing
  PROVE  Spec => []CompletedMeansDone
<1>1. TypeInv /\ RunInv => CompletedMeansDone
  <2> SUFFICES ASSUME TypeInv, RunInv, status = "completed", NEW s \in 1..Len(plan)
               PROVE  Effective(s) = "success"
    BY DEF CompletedMeansDone
  <2>1. \A a \in Actors : ~Doing(Told, Len(plan), status, actor[a])
    BY DEF Doing, Planning, Working, Deciding, Resuming, Going
  <2>2. AtRest(Told, Len(plan), status, interrupted)
    BY <2>1 DEF RunInv
  <2>3. Reached(Told, Len(plan), Len(plan) + 1)
    BY <2>2 DEF AtRest
  <2>4. Told[s] = "success"
    BY <2>3, ToldIs DEF Reached
  <2> QED BY <2>4, ToldIs
<1> QED BY <1>1, RunAlways, PTL

(* Between two batches, and unless an actor was lost, a run waits exactly  *)
(* when it has a step to decide.                                           *)
THEOREM AwaitingHasPendingCorrect ==
  ASSUME ~Unguarded, ~Racing
  PROVE  Spec => []AwaitingHasPending
<1>1. TypeInv /\ RunInv => AwaitingHasPending
  <2> SUFFICES ASSUME TypeInv, RunInv, Quiet, ~interrupted
               PROVE  status = "awaiting_approval" <=>
                        \E s \in StepIds : Told[s] = "pending_approval"
    BY ToldIs DEF AwaitingHasPending
  <2>1. CASE \A a \in Actors : actor[a].pc = "idle"
    BY <2>1 DEF RunInv, AtRest
  <2>2. ASSUME NEW a \in Actors, actor[a].pc # "idle"
        PROVE  status \in Going /\ \A s \in StepIds : Told[s] # "pending_approval"
    <3>1. actor[a].todo = <<>>
      BY DEF Quiet, Busy
    <3> QED BY <2>2, <3>1, Paused
  <2> QED BY <2>1, <2>2 DEF Going
<1> QED BY <1>1, RunAlways, PTL

(* A rejection ends the run: whatever is called afterwards, nothing more   *)
(* is executed, recorded or decided.                                       *)
THEOREM RejectionEndsCorrect ==
  ASSUME ~Unguarded, ~Racing
  PROVE  Spec => RejectionEnds
<1> DEFINE Kept == UNCHANGED <<status, records, history, executed>>
<1>1. TypeInv /\ RunInv /\ [Next]_vars => [status = "rejected" => Kept]_vars
  <2> SUFFICES ASSUME TypeInv, RunInv, [Next]_vars, status = "rejected" PROVE vars' = vars
    OBVIOUS
  <2>1. \A a \in Actors : ~Doing(Told, Len(plan), status, actor[a])
    BY DEF Doing, Planning, Working, Deciding, Resuming, Going
  <2>2. \A a \in Actors : actor[a].pc = "idle" /\ actor[a] = Idle /\ actor[a].todo = <<>>
    BY <2>1, IdleTyped DEF RunInv
  <2>3. AtRest(Told, Len(plan), status, interrupted)
    BY <2>2 DEF RunInv
  <2>4. \A s \in StepIds : ~Decidable(s)
    BY <2>3, ToldIs DEF AtRest, Decidable, Going
  <2>5. Calls \subseteq Actors /\ Agent \in Actors
    BY DEF Actors
  <2>6. \A c \in Calls : ~Operator(c) /\ ~Continue(c)
    BY <2>2, <2>4, <2>5
       DEF Operator, Approve, Reject, ApproveUnguarded, RejectUnguarded, Resume, Resumable, Continue
  <2>7. \A a \in Actors : ~Results(a) /\ ~WriteLands(a)
    BY <2>2 DEF Results, Result, WriteLands
  <2>8. ~Plan /\ ~PlanFails /\ ~Lost(Calls) /\ ~Lost({Agent})
    BY <2>2, <2>5 DEF Plan, PlanFails, Lost
  <2> QED BY <2>6, <2>7, <2>8 DEF Next
<1> QED BY <1>1, RunAlways, PTL DEF Spec, RejectionEnds

LEMMA ExecutingTried ==
  ASSUME NEW e, NEW n, NEW r, NEW d, Doing(e, n, r, d), d.pc = "executing"
  PROVE  d.index \in 1..n /\ e[d.index] \in Tried
<1>1. \A f, v : Arrived(e, n, d, f, v) => d.index \in 1..n /\ e[d.index] \in Tried
  BY DEF Arrived
<1>2. \A f, v : ~NoPlan(e, n, d, v) /\ ~Deciding(e, n, r, d, f, v)
  BY DEF NoPlan, Deciding
<1>3. \A f, v, k : Storing(e, n, d, f, v, k) => d.index \in 1..n /\ e[d.index] \in Tried
  BY <1>1 DEF Storing
<1>4. \A f, v : Resuming(e, n, r, d, f, v) => d.index \in 1..n /\ e[d.index] \in Tried
  BY <1>1 DEF Resuming
<1> QED BY <1>1, <1>2, <1>3, <1>4 DEF Doing, Planning, Working

LEMMA GoesExecutes ==
  ASSUME TypeInv, NEW a, NEW d, NEW i, NEW p, NEW w, Goes(a, d, i, p, w), NEW s \in 1..MaxSteps,
         executed'[s] > executed[s]
  PROVE  s = i /\ w = <<>>
<1>1. executed \in [1..MaxSteps -> Nat]
  BY Parts
<1>2. executed' = executed \/ (w = <<>> /\ executed' = [executed EXCEPT ![i] = executed[i] + 1])
  BY DEF Goes
<1>3. executed'[s] # executed[s]
  <2>1. executed[s] \in Nat
    BY <1>1
  <2>2. \A x \in Nat : ~(x > x)
    OBVIOUS
  <2> QED BY <2>1, <2>2
<1>4. w = <<>> /\ executed' = [executed EXCEPT ![i] = executed[i] + 1]
  BY <1>2, <1>3
<1>5. s # i => executed'[s] = executed[s]
  BY <1>1, <1>4
<1> QED BY <1>3, <1>4, <1>5

(* Resumptions and continuations skip completed work: no step whose latest *)
(* attempt succeeded is handed to the executor.                            *)
THEOREM SkipsCompletedCorrect ==
  ASSUME ~Unguarded, ~Racing
  PROVE  Spec => SkipsCompleted
<1>1. TypeInv /\ RunInv /\ [Next]_vars =>
        [\A s \in 1..Len(plan) : executed'[s] > executed[s] => Effective(s) # "success"]_vars
  <2> SUFFICES ASSUME TypeInv, RunInv, Next, NEW s \in 1..Len(plan), executed'[s] > executed[s]
               PROVE  Told[s] \in Tried
    BY ToldIs DEF Tried
  <2>0. /\ executed \in [1..MaxSteps -> Nat] /\ s \in 1..MaxSteps /\ plan # <<>>
        /\ executed' # executed /\ Calls \subseteq Actors
    BY Parts DEF Actors
  <2>1. ASSUME NEW c \in Calls, Continue(c) PROVE Told[s] \in Tried
    <3>1. actor[c].pc = "deciding" /\ actor[c].todo = <<>> /\ c \in Actors
      BY <2>0, <2>1 DEF Continue, MayRun
    <3>2. Told[actor[c].start] = "approved"
      BY <3>1, Paused
    <3>3. \/ \E v : Ends(c, v)
          \/ \E d, w : Goes(c, d, actor[c].start, plan, w)
          \/ executed' = executed
      BY <2>1 DEF Continue, ContinuePlan, ContinueResumption
    <3>4. s = actor[c].start
      BY <2>0, <3>3, GoesExecutes DEF Ends
    <3> QED BY <3>2, <3>4 DEF Tried
  <2>2. ASSUME NEW c \in Calls, Operator(c) PROVE FALSE
    <3>1. CASE Resume(c)
      <4>1. \E d, i : Goes(c, d, i, plan, << [run |-> "resuming_failed_run"] >>)
        BY <3>1 DEF Resume
      <4>2. << [run |-> "resuming_failed_run"] >> # <<>>
        OBVIOUS
      <4> QED BY <2>0, <4>1, <4>2, GoesExecutes
    <3> QED BY <2>0, <2>2, <3>1
            DEF Operator, Approve, Reject, ApproveUnguarded, RejectUnguarded, Decides
  <2>3. ASSUME NEW a \in Actors, NEW tries \in 1..MaxTries, NEW st \in {"success", "failed"},
               Result(a, tries, st)
        PROVE  FALSE
    <3> DEFINE d == actor[a]
               w == Stored(d, d.index, tries, st)
    <3>1. Goes(a, d, d.index + 1, plan, w)
      BY <2>0, <2>3 DEF Result, Ends
    <3>2. Len(w) = tries
      <4>1. d \in Doer /\ Drives(d, plan) /\ d.index \in 1..Len(plan) /\ plan \in Seq(Gates)
            /\ Len(plan) <= MaxSteps
        BY <2>3, Parts DEF Result, Fits
      <4> HIDE DEF d
      <4> QED BY <4>1, StoredMade
    <3> HIDE DEF w
    <3>3. w = <<>>
      BY <2>0, <3>1, GoesExecutes
    <3> QED BY <3>2, <3>3
  <2>4. ASSUME NEW a \in Actors, WriteLands(a) PROVE Told[s] \in Tried
    <3>1. actor[a].pc = "executing" /\ executed' = [executed EXCEPT ![actor[a].index] = @ + 1]
      BY <2>0, <2>4 DEF WriteLands
    <3>2. s = actor[a].index
      BY <2>0, <3>1
    <3>3. Doing(Told, Len(plan), status, actor[a])
      BY <3>1 DEF RunInv
    <3> QED BY <3>1, <3>2, <3>3, ExecutingTried
  <2>5. ~Plan /\ ~PlanFails
    <3>1. Agent \in Actors
      BY DEF Actors
    <3> QED BY <2>0, <3>1, Parts DEF Plan, PlanFails, Fits
  <2>6. ~Lost(Calls) /\ ~Lost({Agent})
    BY <2>0 DEF Lost
  <2> QED BY <2>1, <2>2, <2>3, <2>4, <2>5, <2>6 DEF Next, Results
<1> QED BY <1>1, RunAlways, PTL DEF Spec, SkipsCompleted
=============================================================================
