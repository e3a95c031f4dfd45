---------------------------- MODULE AutoFixProofs ----------------------------
(***************************************************************************)
(* Theorems about the auto-fix loop, for any clients, edits, plans and     *)
(* numbers of attempts: what it tries, whatever happens to its file, and   *)
(* what the file has become, if nothing happens to it.                     *)
(***************************************************************************)
EXTENDS AutoFix, SequenceTheorems, TLAPS

LoopType ==
  [pc : {"idle", "next", "patching", "testing", "storing", "closed", "raised"},
   max : Int, plan : Seq(Patches), attempts : Seq(AttemptType),
   diff : Seq(Contents), after : Contents, result : {"none", "completed", "failed"},
   status : {"none", "running", "completed", "failed"}, stored : Nat,
   start : Contents, tested : Contents, disturbed : BOOLEAN]

EditType == [pc : {"none", "computed", "checked", "opened"}, after : Contents]

(* Attempt i got as far as its tests, and they did not end the loop.       *)
Tried(l, i) == l.attempts[i].status # "stopped"

Differ(l) ==
  \A i, j \in DOMAIN l.attempts : i # j /\ Tried(l, i) /\ Tried(l, j) =>
    /\ l.attempts[i].diff # l.attempts[j].diff
    /\ \/ l.attempts[i].signature # l.attempts[j].signature
       \/ l.attempts[i].signature = "none"

(* What a loop has done so far leaves it to do no more than was planned;   *)
(* it only tests a diff that it has not tried.                             *)
Sane(l) ==
  /\ l \in LoopType
  /\ l.stored <= Len(l.attempts) /\ Len(l.attempts) <= Len(l.plan)
  /\ l.max >= 0 => Len(l.plan) <= l.max
  /\ l.pc \in {"patching", "testing"} => Len(l.attempts) < Len(l.plan)
  /\ l.pc = "testing" => l.diff \notin Diffs(l)
  /\ Differ(l)

Files == file \in Contents /\ dry \in BOOLEAN /\ edit \in [Clients -> EditType]

LoopInv ==
  /\ Files
  /\ loop \in [Loops -> LoopType]
  /\ \A c \in Loops : Sane(loop[c])

LEMMA Implied == LoopInv => TypeOK /\ AttemptsDiffer
<1>1. LoopInv => TypeOK
  BY DEF LoopInv, Files, TypeOK, LoopType, EditType, Sane
<1>2. LoopInv => AttemptsDiffer
  <2> SUFFICES ASSUME LoopInv, NEW c \in Loops
               PROVE  /\ loop[c].max >= 0 => Len(loop[c].attempts) <= loop[c].max
                      /\ Differ(loop[c])
    BY DEF AttemptsDiffer, Differ, Tried
  <2>1. /\ loop[c].max \in Int /\ Len(loop[c].attempts) \in Nat /\ Len(loop[c].plan) \in Nat
        /\ Sane(loop[c])
    BY DEF LoopInv, LoopType
  <2> QED BY <2>1 DEF Sane
<1> QED BY <1>1, <1>2
-----------------------------------------------------------------------------
(* Files and edits.                                                        *)

(* What is put in place of a piece of a text is a piece of the new one.    *)
LEMMA ReplacedContents ==
  ASSUME NEW s \in Contents, NEW r \in Contents, NEW t \in Contents, NEW k \in 1..(Len(s) + 1)
  PROVE  ReplaceSubSeqAt(k, r, t, s) \in Contents
<1>1. s \in Seq(Blocks) /\ Len(s) \in Nat /\ Len(t) \in Nat
  BY DEF Contents
<1>2. SubSeq(s, 1, k - 1) \in Seq(Blocks)
  <2>1. \A i \in 1..(k - 1) : s[i] \in Blocks
    BY <1>1
  <2> QED BY <1>1, <2>1, SubSeqProperties
<1>3. SubSeq(s, k + Len(t), Len(s)) \in Seq(Blocks)
  <2>1. \A i \in (k + Len(t))..Len(s) : s[i] \in Blocks
    BY <1>1
  <2>2. k + Len(t) \in Int /\ Len(s) \in Int
    BY <1>1
  <2> QED BY <2>1, <2>2, SubSeqProperties
<1> DEFINE u == SubSeq(s, 1, k - 1)
           v == SubSeq(s, k + Len(t), Len(s))
<1>4. ReplaceSubSeqAt(k, r, t, s) = u \o r \o v
  BY DEF ReplaceSubSeqAt
<1> HIDE DEF u, v
<1>5. u \o r \in Seq(Blocks)
  BY <1>2, ConcatProperties DEF Contents, u
<1>6. (u \o r) \o v \in Seq(Blocks)
  BY <1>3, <1>5, ConcatProperties DEF v
<1> QED BY <1>4, <1>6 DEF Contents

(* An edit makes text of text.                                             *)
LEMMA EditedContents ==
  ASSUME NEW e \in Edits, NEW s \in Contents
  PROVE  Edited(e, s) \subseteq Contents
<1>1. e.text \in Contents /\ s \o e.text \in Contents /\ <<>> \in Contents
  BY EditsAssumption DEF Contents
<1>2. /\ \A b : Once(s, b) \subseteq 1..Len(s) /\ First(s, b) \subseteq 1..Len(s)
      /\ Len(s) \in Nat
  BY DEF Once, First, Positions, Contents
<1>3. CASE e.op \in {"append", "fs.append", "fs.write"}
  BY <1>1, <1>3 DEF Edited, Made
<1>4. CASE e.op = "insert"
  <2>1. \A i \in Once(s, e.anchor) : i + (IF e.before THEN 0 ELSE 1) \in 1..(Len(s) + 1)
    BY <1>2
  <2>2. \A i \in Once(s, e.anchor) :
          ReplaceSubSeqAt(i + IF e.before THEN 0 ELSE 1, e.text, <<>>, s) \in Contents
    BY <1>1, <2>1, ReplacedContents
  <2> QED BY <1>4, <2>2 DEF Edited, Made
<1>5. CASE e.op \notin {"append", "fs.append", "fs.write", "insert"}
  <2>1. <<e.target>> \in Contents
    BY <1>5, EditsAssumption DEF Contents
  <2>2. \A i \in 1..Len(s) : ReplaceSubSeqAt(i, e.text, <<e.target>>, s) \in Contents
    <3>1. \A i \in 1..Len(s) : i \in 1..(Len(s) + 1)
      BY <1>2
    <3> QED BY <1>1, <2>1, <3>1, ReplacedContents
  <2>3. \A i \in Once(s, e.target) \cup First(s, e.target) :
          ReplaceSubSeqAt(i, e.text, <<e.target>>, s) \in Contents
    BY <1>2, <2>2
  <2>4. CASE e.op = "fs.replace"
    BY <2>3, <2>4 DEF Edited, Made
  <2>5. CASE e.op # "fs.replace"
    BY <1>5, <2>3, <2>5 DEF Edited, Made
  <2> QED BY <2>4, <2>5
<1> QED BY <1>3, <1>4, <1>5

(* One text written over another, and over nothing.                        *)
LEMMA OverlaidContents ==
  ASSUME NEW s \in Contents, NEW f \in Contents
  PROVE  /\ s \o SubSeq(f, Len(s) + 1, Len(f)) \in Contents
         /\ f = <<>> => s \o SubSeq(f, Len(s) + 1, Len(f)) = s
<1>1. s \in Seq(Blocks) /\ f \in Seq(Blocks) /\ Len(s) \in Nat /\ Len(f) \in Nat
  BY DEF Contents
<1> DEFINE v == SubSeq(f, Len(s) + 1, Len(f))
<1>2. \A i \in (Len(s) + 1)..Len(f) : f[i] \in Blocks
  BY <1>1
<1>3. v \in Seq(Blocks)
  BY <1>1, <1>2, SubSeqProperties
<1>4. ASSUME f = <<>> PROVE v = <<>>
  <2>1. Len(f) = 0
    BY <1>4
  <2> QED BY <1>1, <2>1, SubSeqEmpty
<1> HIDE DEF v
<1>5. s \o v \in Seq(Blocks)
  BY <1>1, <1>3, ConcatProperties
<1>6. s \o <<>> = s
  BY <1>1, ConcatEmptySeq
<1> QED BY <1>4, <1>5, <1>6 DEF Contents, v

(* What an edit or a patch of the file leaves to be written.               *)
LEMMA PlannedTyped ==
  ASSUME Files, NEW e \in Edits, NEW after \in Edited(e, file)
  PROVE  Planned(e, after, dry) \in EditType /\ after \in Contents
<1>1. after \in Contents
  BY EditedContents DEF Files
<1>2. <<>> \in Contents
  BY DEF Contents
<1> QED BY <1>1, <1>2 DEF Planned, EditType, NoEdit
-----------------------------------------------------------------------------
(* Steps of a loop.                                                        *)

LEMMA NoLoopSane == Sane(NoLoop) /\ NoLoop \in LoopType
<1>1. NoLoop \in LoopType
  BY DEF NoLoop, LoopType, Contents
<1> QED BY <1>1 DEF Sane, NoLoop, Differ

LEMMA SliceBounded ==
  ASSUME NEW plan \in Seq(Patches), NEW max \in Int
  PROVE  Slice(plan, max) \in Seq(Patches) /\ (max >= 0 => Len(Slice(plan, max)) <= max)
<1>1. CASE max >= Len(plan)
  BY <1>1 DEF Slice
<1>2. CASE max < Len(plan)
  <2> DEFINE n == IF max >= 0 THEN max ELSE Len(plan) + max
  <2>1. n \in Int /\ n <= Len(plan) /\ (max >= 0 => n = max)
    BY <1>2
  <2>2. Slice(plan, max) = SubSeq(plan, 1, n)
    BY <1>2 DEF Slice
  <2> HIDE DEF n
  <2>3. \A i \in 1..n : plan[i] \in Patches
    BY <2>1
  <2>4. SubSeq(plan, 1, n) \in Seq(Patches)
        /\ Len(SubSeq(plan, 1, n)) = IF 1 <= n THEN n ELSE 0
    BY <2>1, <2>3, SubSeqProperties
  <2> QED BY <2>1, <2>2, <2>4
<1> QED BY <1>1, <1>2

(* A loop that tries nothing new is still sane ...                         *)
LEMMA SaneKept ==
  ASSUME NEW l, Sane(l), NEW m \in LoopType,
         m.attempts = l.attempts, m.plan = l.plan, m.max = l.max, m.stored <= Len(l.attempts),
         m.pc \in {"patching", "testing"} => Len(l.attempts) < Len(l.plan),
         m.pc = "testing" => m.diff \notin Diffs(l)
  PROVE  Sane(m)
BY DEF Sane, Differ, Tried, Diffs

(* ... and so is one with an attempt more, unless what it tried and is     *)
(* going to follow repeats an earlier one.                                 *)
LEMMA SaneAppended ==
  ASSUME NEW l, Sane(l), NEW a \in AttemptType, NEW m \in LoopType,
         m.attempts = Append(l.attempts, a), m.plan = l.plan, m.max = l.max,
         m.stored = l.stored, m.pc \notin {"patching", "testing"},
         Len(l.attempts) < Len(l.plan),
         a.status # "stopped" => /\ a.diff \notin Diffs(l)
                                 /\ a.signature \notin Failures(l)
  PROVE  Sane(m)
<1>1. /\ l.attempts \in Seq(AttemptType) /\ Len(l.attempts) \in Nat /\ Len(l.plan) \in Nat
      /\ l.stored \in Nat /\ l.max \in Int
  BY DEF Sane, LoopType
<1>2. /\ Len(m.attempts) = Len(l.attempts) + 1
      /\ DOMAIN m.attempts = 1..(Len(l.attempts) + 1) /\ DOMAIN l.attempts = 1..Len(l.attempts)
      /\ \A i \in DOMAIN l.attempts : m.attempts[i] = l.attempts[i]
      /\ m.attempts[Len(l.attempts) + 1] = a
  BY <1>1
<1>3. ASSUME NEW i \in DOMAIN l.attempts, Tried(m, i), a.status # "stopped"
      PROVE  /\ m.attempts[i].diff # a.diff
             /\ m.attempts[i].signature # a.signature \/ a.signature = "none"
  BY <1>2, <1>3 DEF Diffs, Failures
<1>4. Differ(m)
  <2> SUFFICES ASSUME NEW i \in DOMAIN m.attempts, NEW j \in DOMAIN m.attempts,
                      i # j, Tried(m, i), Tried(m, j)
               PROVE  /\ m.attempts[i].diff # m.attempts[j].diff
                      /\ \/ m.attempts[i].signature # m.attempts[j].signature
                         \/ m.attempts[i].signature = "none"
    BY DEF Differ
  <2>1. CASE i \in DOMAIN l.attempts /\ j \in DOMAIN l.attempts
    BY <1>2, <2>1 DEF Sane, Differ, Tried
  <2>2. CASE i \in DOMAIN l.attempts /\ j = Len(l.attempts) + 1
    BY <1>2, <1>3, <2>2 DEF Tried
  <2>3. CASE j \in DOMAIN l.attempts /\ i = Len(l.attempts) + 1
    BY <1>2, <1>3, <2>3 DEF Tried
  <2> QED BY <1>1, <1>2, <2>1, <2>2, <2>3
<1>5. Len(m.attempts) <= Len(m.plan) /\ m.stored <= Len(m.attempts)
  BY <1>1, <1>2 DEF Sane
<1> QED BY <1>4, <1>5 DEF Sane

LEMMA LoopBecomes ==
  ASSUME LoopInv, Files', NEW c \in Loops, NEW m, Sane(m), loop' = [loop EXCEPT ![c] = m]
  PROVE  LoopInv'
<1>1. m \in LoopType /\ \A d \in Loops : loop'[d] = IF d = c THEN m ELSE loop[d]
  BY DEF Sane, LoopInv
<1> QED BY <1>1 DEF LoopInv

(* Whoever writes the file disturbs the others.                            *)
LEMMA DisturbedSane ==
  ASSUME LoopInv, Files', NEW c \in Clients, Disturbs(c) \/ loop' = loop
  PROVE  LoopInv'
<1>1. CASE loop' = loop
  BY <1>1 DEF LoopInv
<1>2. CASE Disturbs(c)
  <2>1. ASSUME NEW l \in LoopType, Sane(l) PROVE Sane(Disturbed(l))
    <3>1. Disturbed(l) \in LoopType
      <4>1. <<>> \in Contents
        BY DEF Contents
      <4> QED BY <4>1 DEF Disturbed, LoopType
    <3> DEFINE m == Disturbed(l)
    <3>2. /\ m.attempts = l.attempts /\ m.plan = l.plan /\ m.max = l.max
          /\ m.stored = l.stored /\ m.pc = l.pc /\ m.diff = l.diff
      BY DEF Disturbed, LoopType
    <3> HIDE DEF m
    <3>3. /\ m.stored <= Len(l.attempts)
          /\ m.pc \in {"patching", "testing"} => Len(l.attempts) < Len(l.plan)
          /\ m.pc = "testing" => m.diff \notin Diffs(l)
      BY <2>1, <3>2 DEF Sane
    <3> QED BY <2>1, <3>1, <3>2, <3>3, SaneKept DEF m
  <2>2. \A d \in Loops : loop'[d] \in {loop[d], Disturbed(loop[d])}
    BY <1>2 DEF Disturbs
  <2>3. \A d \in Loops : Sane(loop'[d])
    BY <2>1, <2>2 DEF LoopInv
  <2>4. loop' \in [Loops -> LoopType]
    BY <1>2, <2>3 DEF Disturbs, Sane
  <2> QED BY <2>3, <2>4 DEF LoopInv
<1> QED BY <1>1, <1>2
-----------------------------------------------------------------------------
(* The actions.                                                            *)

LEMMA LoopParts ==
  ASSUME LoopInv, NEW c \in Loops
  PROVE  /\ Sane(loop[c]) /\ loop[c] \in LoopType /\ c \in Clients
         /\ loop \in [Loops -> LoopType] /\ Files
         /\ Len(loop[c].attempts) \in Nat /\ Len(loop[c].plan) \in Nat
BY LoopsAssumption DEF LoopInv, LoopType

LEMMA BeginSane ==
  ASSUME LoopInv, NEW c \in Loops, Begin(c)
  PROVE  LoopInv'
<1>1. PICK plan \in Plans, max \in MaxAttempts :
        loop' = [loop EXCEPT ![c] = [NoLoop EXCEPT !.pc = "next", !.max = max,
                                       !.plan = Slice(plan, max), !.status = "running", !.start = file]]
  BY DEF Begin
<1> DEFINE m == [NoLoop EXCEPT !.pc = "next", !.max = max, !.plan = Slice(plan, max),
                               !.status = "running", !.start = file]
<1>2. /\ Slice(plan, max) \in Seq(Patches) /\ (max >= 0 => Len(Slice(plan, max)) <= max)
      /\ max \in Int /\ file \in Contents
  BY SliceBounded, PlansAssumption DEF LoopInv, Files
<1>3. m \in LoopType
  BY <1>2, NoLoopSane DEF LoopType
<1>4. /\ m.pc = "next" /\ m.max = max /\ m.plan = Slice(plan, max)
      /\ m.attempts = <<>> /\ m.stored = 0
  BY DEF NoLoop
<1> HIDE DEF m
<1>5. Len(m.attempts) = 0 /\ Len(m.plan) \in Nat /\ DOMAIN m.attempts = {}
  BY <1>2, <1>4
<1>6. Sane(m)
  BY <1>2, <1>3, <1>4, <1>5 DEF Sane, Differ
<1>7. Files'
  BY DEF Begin, LoopInv, Files
<1> QED BY <1>1, <1>6, <1>7, LoopBecomes DEF m

LEMMA PatchSane ==
  ASSUME LoopInv, NEW c \in Loops, Patch(c)
  PROVE  LoopInv'
<1> DEFINE l == loop[c]
           p == Current(l)
<1>1. /\ Sane(l) /\ l \in LoopType /\ c \in Clients /\ loop \in [Loops -> LoopType] /\ Files
      /\ Len(l.attempts) \in Nat /\ Len(l.plan) \in Nat
  BY LoopParts
<1>2. l.pc = "next" /\ Len(l.attempts) < Len(l.plan) /\ file' = file /\ dry' = dry
  BY DEF Patch
<1>3. p \in Edits
  BY <1>1, <1>2 DEF Current, LoopType, Patches
<1>4. CASE Edited(p, file) = {}
  <2> DEFINE m == [l EXCEPT !.pc = "raised"]
  <2>1. loop' = [loop EXCEPT ![c] = m] /\ edit' = edit
    BY <1>4 DEF Patch
  <2>2. /\ m \in LoopType /\ m.pc = "raised" /\ m.attempts = l.attempts /\ m.plan = l.plan
        /\ m.max = l.max /\ m.stored = l.stored
    BY <1>1 DEF LoopType
  <2> HIDE DEF m
  <2>3. Sane(m)
    BY <1>1, <2>2, SaneKept DEF Sane
  <2> QED BY <1>1, <1>2, <2>1, <2>3, LoopBecomes DEF Files
<1>5. CASE Edited(p, file) # {}
  <2>1. PICK after \in Edited(p, file) :
          /\ edit' = [edit EXCEPT ![c] = Planned(p, after, dry)]
          /\ loop' = [loop EXCEPT ![c].pc = "patching", ![c].diff = Diff(file, after),
                                 ![c].after = after]
    BY <1>5 DEF Patch
  <2> DEFINE m == [l EXCEPT !.pc = "patching", !.diff = Diff(file, after), !.after = after]
  <2>2. loop' = [loop EXCEPT ![c] = m]
    BY <1>1, <2>1
  <2>3. after \in Contents /\ Planned(p, after, dry) \in EditType
    BY <1>1, <1>3, PlannedTyped
  <2>4. Diff(file, after) \in Seq(Contents)
    BY <1>1, <2>3 DEF Diff, Files
  <2>5. /\ m \in LoopType /\ m.pc = "patching" /\ m.attempts = l.attempts /\ m.plan = l.plan
        /\ m.max = l.max /\ m.stored = l.stored
    BY <1>1, <2>3, <2>4 DEF LoopType
  <2> HIDE DEF m
  <2>6. Sane(m)
    BY <1>1, <1>2, <2>5, SaneKept DEF Sane
  <2>7. Files'
    BY <1>1, <1>2, <2>1, <2>3 DEF Files
  <2> QED BY <2>2, <2>6, <2>7, LoopBecomes
<1> QED BY <1>4, <1>5

LEMMA CheckPatchSane ==
  ASSUME LoopInv, NEW c \in Loops, CheckPatch(c)
  PROVE  LoopInv'
<1> DEFINE l == loop[c]
<1>1. /\ Sane(l) /\ l \in LoopType /\ c \in Clients /\ loop \in [Loops -> LoopType] /\ Files
      /\ Len(l.attempts) \in Nat /\ Len(l.plan) \in Nat
  BY LoopParts
<1>2. /\ l.pc = "patching" /\ Len(l.attempts) < Len(l.plan)
      /\ UNCHANGED <<file, edit, dry>> /\ Files'
  BY <1>1 DEF CheckPatch, Sane, Files
<1>3. CASE l.diff \in Diffs(l)
  <2> DEFINE a == Attempt(l, "none", "none", "stopped")
             m == [l EXCEPT !.pc = "storing", !.result = "failed", !.diff = <<>>, !.after = <<>>,
                            !.attempts = Append(l.attempts, a)]
  <2>1. loop' = [loop EXCEPT ![c] = m]
    BY <1>1, <1>3 DEF CheckPatch
  <2>2. a \in AttemptType /\ a.status = "stopped"
    BY <1>1 DEF Attempt, AttemptType, LoopType
  <2> HIDE DEF a
  <2>3. Append(l.attempts, a) \in Seq(AttemptType) /\ <<>> \in Seq(Contents) /\ <<>> \in Contents
    BY <1>1, <2>2 DEF LoopType, Contents
  <2>4. /\ m \in LoopType /\ m.pc = "storing" /\ m.attempts = Append(l.attempts, a)
        /\ m.plan = l.plan /\ m.max = l.max /\ m.stored = l.stored
    BY <1>1, <2>3 DEF LoopType
  <2> HIDE DEF m
  <2>5. Sane(m)
    BY <1>1, <1>2, <2>2, <2>4, SaneAppended
  <2> QED BY <1>2, <2>1, <2>5, LoopBecomes
<1>4. CASE l.diff \notin Diffs(l)
  <2> DEFINE m == [l EXCEPT !.pc = "testing"]
  <2>1. loop' = [loop EXCEPT ![c] = m]
    BY <1>4 DEF CheckPatch
  <2>2. /\ m \in LoopType /\ m.pc = "testing" /\ m.attempts = l.attempts /\ m.plan = l.plan
        /\ m.max = l.max /\ m.stored = l.stored /\ m.diff = l.diff
    BY <1>1 DEF LoopType
  <2> HIDE DEF m
  <2>3. Sane(m)
    BY <1>1, <1>2, <1>4, <2>2, SaneKept DEF Sane
  <2> QED BY <1>2, <2>1, <2>3, LoopBecomes
<1> QED BY <1>3, <1>4

LEMMA RunTestsSane ==
  ASSUME LoopInv, NEW c \in Loops, RunTests(c)
  PROVE  LoopInv'
<1> DEFINE l == loop[c]
<1>1. /\ Sane(l) /\ l \in LoopType /\ c \in Clients /\ loop \in [Loops -> LoopType] /\ Files
      /\ Len(l.attempts) \in Nat /\ Len(l.plan) \in Nat
  BY LoopParts
<1>2. /\ l.pc = "testing" /\ Len(l.attempts) < Len(l.plan) /\ l.diff \notin Diffs(l)
      /\ UNCHANGED <<file, edit, dry>> /\ Files'
  BY <1>1 DEF RunTests, Sane, Files
<1>3. CASE loop' = [loop EXCEPT ![c].pc = "raised"]
  <2> DEFINE m == [l EXCEPT !.pc = "raised"]
  <2>1. loop' = [loop EXCEPT ![c] = m]
    BY <1>3
  <2>2. /\ m \in LoopType /\ m.pc = "raised" /\ m.attempts = l.attempts /\ m.plan = l.plan
        /\ m.max = l.max /\ m.stored = l.stored
    BY <1>1 DEF LoopType
  <2> HIDE DEF m
  <2>3. Sane(m)
    BY <1>1, <2>2, SaneKept DEF Sane
  <2> QED BY <1>2, <2>1, <2>3, LoopBecomes
<1>4. ASSUME NEW t \in TestResults, NEW pc \in {"storing", "next"},
             NEW result \in {"completed", "failed"}, NEW tested \in Contents,
             loop' = [loop EXCEPT ![c] =
               [l EXCEPT !.pc = pc, !.result = result, !.diff = <<>>, !.after = <<>>,
                         !.attempts = Append(l.attempts,
                            Attempt(l, t[1], t[2], IF Again(l, t[2]) THEN "stopped" ELSE t[1])),
                         !.tested = tested]]
      PROVE  LoopInv'
  <2> DEFINE a == Attempt(l, t[1], t[2], IF Again(l, t[2]) THEN "stopped" ELSE t[1])
             m == [l EXCEPT !.pc = pc, !.result = result, !.diff = <<>>, !.after = <<>>,
                            !.attempts = Append(l.attempts, a), !.tested = tested]
  <2>1. t[1] \in {"passed", "failed", "simulated"} /\ t[2] \in Signatures \cup {"none"}
    BY <1>4 DEF TestResults
  <2>2. /\ a \in AttemptType /\ a.diff = l.diff /\ a.signature = t[2]
        /\ a.status = IF t[2] \in Failures(l) THEN "stopped" ELSE t[1]
    BY <1>1, <2>1 DEF Attempt, AttemptType, LoopType, Again
  <2> HIDE DEF a
  <2>3. Append(l.attempts, a) \in Seq(AttemptType) /\ <<>> \in Seq(Contents) /\ <<>> \in Contents
    BY <1>1, <2>2 DEF LoopType, Contents
  <2>4. /\ m \in LoopType /\ m.pc = pc /\ m.attempts = Append(l.attempts, a)
        /\ m.plan = l.plan /\ m.max = l.max /\ m.stored = l.stored
    BY <1>1, <1>4, <2>3 DEF LoopType
  <2>5. loop' = [loop EXCEPT ![c] = m]
    BY <1>4 DEF a
  <2> HIDE DEF m
  <2>6. Sane(m)
    BY <1>1, <1>2, <2>2, <2>4, SaneAppended
  <2> QED BY <1>2, <2>5, <2>6, LoopBecomes
<1>5. <<>> \in Contents /\ file \in Contents
  BY <1>1 DEF Files, Contents
<1> QED BY <1>3, <1>4, <1>5 DEF RunTests

LEMMA EndSane ==
  ASSUME LoopInv, NEW c \in Loops,
         Exhausted(c) \/ StoreAttempt(c) \/ Close(c) \/ Return(c)
  PROVE  LoopInv'
<1> DEFINE l == loop[c]
<1>1. /\ Sane(l) /\ l \in LoopType /\ c \in Clients /\ loop \in [Loops -> LoopType] /\ Files
      /\ Len(l.attempts) \in Nat /\ Len(l.plan) \in Nat
  BY LoopParts
<1>2. Files'
  BY <1>1 DEF Exhausted, StoreAttempt, Close, Return, Files
<1>3. ASSUME NEW pc \in {"storing", "closed"}, NEW result \in {"none", "completed", "failed"},
             NEW status \in {"none", "running", "completed", "failed"},
             NEW stored \in Nat, stored <= Len(l.attempts),
             loop' = [loop EXCEPT ![c] = [l EXCEPT !.pc = pc, !.result = result, !.status = status,
                                                   !.stored = stored]]
      PROVE  LoopInv'
  <2> DEFINE m == [l EXCEPT !.pc = pc, !.result = result, !.status = status, !.stored = stored]
  <2>1. /\ m \in LoopType /\ m.pc = pc /\ m.attempts = l.attempts /\ m.plan = l.plan
        /\ m.max = l.max /\ m.stored = stored
    BY <1>1, <1>3 DEF LoopType
  <2>2. loop' = [loop EXCEPT ![c] = m]
    BY <1>3
  <2> HIDE DEF m
  <2>3. Sane(m)
    BY <1>1, <1>3, <2>1, SaneKept
  <2> QED BY <1>2, <2>2, <2>3, LoopBecomes
<1>4. CASE Exhausted(c)
  <2>1. loop' = [loop EXCEPT ![c] = [l EXCEPT !.pc = "storing", !.result = "failed",
                                              !.status = l.status, !.stored = l.stored]]
    <3>1. [l EXCEPT !.pc = "storing", !.result = "failed"]
            = [l EXCEPT !.pc = "storing", !.result = "failed", !.status = l.status, !.stored = l.stored]
      BY <1>1 DEF LoopType
    <3>2. loop' = [loop EXCEPT ![c] = [l EXCEPT !.pc = "storing", !.result = "failed"]]
      BY <1>1, <1>4 DEF Exhausted
    <3> QED BY <3>1, <3>2
  <2> QED BY <1>1, <1>3, <2>1 DEF Sane, LoopType
<1>5. CASE StoreAttempt(c)
  <2>1. loop' = [loop EXCEPT ![c] = [l EXCEPT !.pc = "storing", !.result = l.result,
                                              !.status = l.status, !.stored = l.stored + 1]]
    <3>1. [l EXCEPT !.stored = l.stored + 1]
            = [l EXCEPT !.pc = "storing", !.result = l.result, !.status = l.status, !.stored = l.stored + 1]
      BY <1>1, <1>5 DEF StoreAttempt, LoopType
    <3>2. loop' = [loop EXCEPT ![c] = [l EXCEPT !.stored = l.stored + 1]]
      BY <1>1, <1>5 DEF StoreAttempt
    <3> QED BY <3>1, <3>2
  <2>2. l.stored + 1 \in Nat /\ l.stored + 1 <= Len(l.attempts)
    BY <1>1, <1>5 DEF StoreAttempt, LoopType
  <2> QED BY <1>1, <1>3, <2>1, <2>2 DEF LoopType
<1>6. CASE Close(c)
  <2>1. loop' = [loop EXCEPT ![c] = [l EXCEPT !.pc = "closed", !.result = l.result,
                                              !.status = l.result, !.stored = l.stored]]
    <3>1. [l EXCEPT !.pc = "closed", !.status = l.result]
            = [l EXCEPT !.pc = "closed", !.result = l.result, !.status = l.result, !.stored = l.stored]
      BY <1>1 DEF LoopType
    <3>2. loop' = [loop EXCEPT ![c] = [l EXCEPT !.pc = "closed", !.status = l.result]]
      BY <1>1, <1>6 DEF Close
    <3> QED BY <3>1, <3>2
  <2> QED BY <1>1, <1>3, <2>1 DEF Sane, LoopType
<1>7. CASE Return(c)
  BY <1>2, <1>7, NoLoopSane, LoopBecomes DEF Return
<1> QED BY <1>4, <1>5, <1>6, <1>7

LEMMA ToolSane ==
  ASSUME LoopInv, NEW c \in Clients,
         CallTool(c) \/ CheckFile(c) \/ OpenFile(c) \/ WriteFile(c) \/ Die(c)
  PROVE  LoopInv'
<1>1. Files /\ edit[c] \in EditType /\ <<>> \in Contents /\ NoEdit \in EditType
  BY DEF LoopInv, Files, NoEdit, EditType, Contents
<1>2. CASE CallTool(c)
  <2>1. PICK e \in Edits : \E after \in Edited(e, file) :
          edit' = [edit EXCEPT ![c] = Planned(e, after, dry)]
    BY <1>2 DEF CallTool
  <2>2. Files' /\ loop' = loop
    BY <1>1, <1>2, <2>1, PlannedTyped DEF CallTool, Files
  <2> QED BY <2>2, DisturbedSane
<1>3. CASE CheckFile(c)
  <2>1. Files'
    BY <1>1, <1>3 DEF CheckFile, Check, EditType, Files
  <2>2. CASE c \in Loops /\ Refused(c)
    <3> DEFINE l == loop[c]
               m == [l EXCEPT !.pc = "raised"]
    <3>1. loop' = [loop EXCEPT ![c] = m] /\ Sane(l) /\ l \in LoopType
      BY <1>3, <2>2, LoopParts DEF CheckFile
    <3>2. /\ m \in LoopType /\ m.pc = "raised" /\ m.attempts = l.attempts /\ m.plan = l.plan
          /\ m.max = l.max /\ m.stored = l.stored
      BY <3>1 DEF LoopType
    <3> HIDE DEF m
    <3>3. Sane(m)
      BY <3>1, <3>2, SaneKept DEF Sane
    <3> QED BY <2>1, <2>2, <3>1, <3>3, LoopBecomes
  <2>3. CASE ~(c \in Loops /\ Refused(c))
    BY <1>3, <2>1, <2>3, DisturbedSane DEF CheckFile
  <2> QED BY <2>2, <2>3
<1>4. CASE OpenFile(c)
  <2>1. edit' \in [Clients -> EditType] /\ file' \in Contents /\ dry' = dry
    BY <1>1, <1>4 DEF OpenFile, Open, EditType, Files
  <2> QED BY <1>1, <1>4, <2>1, DisturbedSane DEF OpenFile, Files
<1>5. CASE WriteFile(c)
  <2> DEFINE after == edit[c].after
  <2>1. after \in Contents
    BY <1>1 DEF EditType
  <2>2. after \o SubSeq(file, Len(after) + 1, Len(file)) \in Contents
    BY <1>1, <2>1, OverlaidContents DEF Files
  <2>3. edit' \in [Clients -> EditType] /\ file' \in Contents /\ dry' = dry
    BY <1>1, <1>5, <2>2 DEF WriteFile, Write, Files
  <2> QED BY <1>1, <1>5, <2>3, DisturbedSane DEF WriteFile, Files
<1>6. CASE Die(c)
  <2>1. Files'
    BY <1>1, <1>6 DEF Die, Files
  <2> QED BY <1>6, <2>1, NoLoopSane, LoopBecomes, DisturbedSane DEF Die
<1> QED BY <1>2, <1>3, <1>4, <1>5, <1>6

LEMMA LoopInitial == Init => LoopInv
<1> SUFFICES ASSUME Init PROVE LoopInv
  OBVIOUS
<1>1. file \in Contents /\ dry \in BOOLEAN /\ NoEdit \in EditType
  BY StartAssumption, DryRunsAssumption DEF Init, FileInit, NoEdit, EditType, Contents
<1> QED BY <1>1, NoLoopSane DEF Init, FileInit, LoopInv, Files

LEMMA LoopInductive == LoopInv /\ [Next]_vars => LoopInv'
<1> SUFFICES ASSUME LoopInv, [Next]_vars PROVE LoopInv'
  OBVIOUS
<1>1. CASE vars' = vars
  BY <1>1 DEF vars, LoopInv, Files
<1>2. CASE Next
  BY <1>2, BeginSane, PatchSane, CheckPatchSane, RunTestsSane, EndSane, ToolSane DEF Next
<1> QED BY <1>1, <1>2

(* What the attempts have made of the file.  A loop's own edit is under    *)
(* way only while it applies a patch; until another client writes, the     *)
(* file is what its attempts left, or what the patch under way makes of    *)
(* it.                                                                     *)

Left(l) == Before(l, Len(l.attempts) + 1)

UnderWay(l) == Follows(l, Len(l.attempts) + 1, l.diff, l.after)

Recorded(l, i) == Follows(l, i, l.attempts[i].diff, l.attempts[i].after)

(* An undisturbed loop l, whose client's edit is e, with content f.        *)
Honest(l, e, f) ==
  /\ \A i \in 1..Len(l.attempts) : Recorded(l, i)
  /\ l.pc \in {"next", "storing", "closed"} => f = Left(l)
  /\ l.pc \in {"patching", "testing"} => UnderWay(l)
  /\ l.pc = "patching" =>
       \/ dry /\ e.pc = "none" /\ f = l.start
       \/ ~dry /\ e.pc \in {"computed", "checked"} /\ e.after = l.after
       \/ ~dry /\ e.pc = "opened" /\ e.after = l.after /\ f = <<>>
       \/ ~dry /\ e.pc = "none" /\ f = l.after
  /\ l.pc = "testing" => f = IF dry THEN l.start ELSE l.after
  /\ l.pc \in {"storing", "closed"} /\ l.result = "completed" => f = l.tested

Succeeded(l) == Len(l.attempts) > 0 /\ Passed(l, Len(l.attempts))

(* Whatever happens to the file, the result is that of the last tests.     *)
Judged(l) ==
  /\ l.pc = "next" => ~Succeeded(l)
  /\ l.pc \in {"storing", "closed"} => (l.result = "completed" <=> Succeeded(l))
  /\ l.pc = "closed" => l.status = l.result

Told(l, e, f) == l.pc # "idle" => Judged(l) /\ (~l.disturbed => Honest(l, e, f))

FileInv ==
  \A c \in Loops : /\ loop[c].pc # "patching" => edit[c].pc = "none"
                   /\ Told(loop[c], edit[c], file)

LEMMA FileImplied == LoopInv /\ FileInv => AttemptsAreInTheFile
<1> SUFFICES ASSUME LoopInv, FileInv, NEW c \in Loops, loop[c].pc = "closed"
             PROVE  LET l == loop[c]
                        n == Len(l.attempts)
                    IN /\ l.status = "completed" <=> n > 0 /\ Passed(l, n)
                       /\ ~l.disturbed =>
                            /\ \A i \in 1..n : Follows(l, i, l.attempts[i].diff, l.attempts[i].after)
                            /\ file = Before(l, n + 1)
                            /\ l.status = "completed" => file = l.tested
  BY DEF AttemptsAreInTheFile
<1>1. Told(loop[c], edit[c], file)
  BY DEF FileInv
<1> QED BY <1>1 DEF Told, Judged, Honest, Succeeded, Left, Recorded

(* The loop l has an attempt more, and its file is what that made of it.   *)
LEMMA AttemptAppended ==
  ASSUME NEW l \in LoopType, NEW m \in LoopType, NEW a \in AttemptType,
         m.attempts = Append(l.attempts, a), m.plan = l.plan, m.start = l.start,
         \A i \in 1..Len(l.attempts) : Recorded(l, i),
         Follows(l, Len(l.attempts) + 1, a.diff, a.after)
  PROVE  /\ \A i \in 1..Len(m.attempts) : Recorded(m, i)
         /\ Left(m) = IF dry THEN l.start ELSE a.after
<1> DEFINE n == Len(l.attempts)
<1>1. /\ n \in Nat /\ Len(m.attempts) = n + 1 /\ m.attempts[n + 1] = a
      /\ \A i \in 1..n : m.attempts[i] = l.attempts[i]
  BY DEF LoopType
<1> HIDE DEF n
<1>2. ASSUME NEW i \in 1..(n + 1) PROVE Before(m, i) = Before(l, i)
  <2>1. i # 1 => i - 1 \in 1..n
    BY <1>1
  <2> QED BY <1>1, <2>1 DEF Before
<1>3. ASSUME NEW i \in 1..(n + 1) PROVE Recorded(m, i)
  <2>1. Before(m, i) = Before(l, i) /\ m.plan[i] = l.plan[i]
    BY <1>2
  <2>2. CASE i = n + 1
    BY <1>1, <2>1, <2>2 DEF Recorded, Follows, n
  <2>3. CASE i # n + 1
    <3>1. i \in 1..n /\ m.attempts[i] = l.attempts[i]
      BY <1>1, <2>3
    <3> QED BY <2>1, <3>1 DEF Recorded, Follows, n
  <2> QED BY <2>2, <2>3
<1>4. Left(m) = IF dry THEN l.start ELSE a.after
  <2>1. n + 1 + 1 # 1 /\ n + 1 + 1 - 1 = n + 1
    BY <1>1
  <2> QED BY <1>1, <2>1 DEF Left, Before
<1> QED BY <1>1, <1>3, <1>4

(* A loop that moves on without an attempt.                                *)
LEMMA SameAttempts ==
  ASSUME NEW l, NEW m, m.attempts = l.attempts, m.plan = l.plan, m.start = l.start
  PROVE  /\ \A i \in 1..Len(l.attempts) : Recorded(l, i) => Recorded(m, i)
         /\ Left(m) = Left(l) /\ (Succeeded(m) <=> Succeeded(l))
         /\ m.diff = l.diff /\ m.after = l.after => (UnderWay(m) <=> UnderWay(l))
BY DEF Recorded, Follows, Left, Before, Succeeded, Passed, UnderWay

(* What a new attempt says of the whole loop.                              *)
LEMMA AttemptJudged ==
  ASSUME NEW l \in LoopType, NEW m, NEW a \in AttemptType, m.attempts = Append(l.attempts, a)
  PROVE  Succeeded(m) <=> a.tests = "passed" /\ ~Again(l, a.signature)
<1> DEFINE n == Len(l.attempts)
<1>1. /\ n \in Nat /\ Len(m.attempts) = n + 1 /\ m.attempts[n + 1] = a
      /\ \A i \in 1..n : m.attempts[i] = l.attempts[i] /\ DOMAIN l.attempts = 1..n
  BY DEF LoopType
<1>2. Again(l, a.signature)
        <=> a.signature # "none" /\ \E i \in 1..n : l.attempts[i].signature = a.signature
  <2>1. DOMAIN l.attempts = 1..n
    BY DEF LoopType
  <2> HIDE DEF n
  <2> QED BY <2>1 DEF Again, Failures
<1> HIDE DEF n
<1>3. n + 1 - 1 = n /\ n + 1 > 0
  BY <1>1
<1> QED BY <1>1, <1>2, <1>3 DEF Succeeded, Passed

(* The other loops are as they were, if nothing is written.                *)
LEMMA FileBecomes ==
  ASSUME LoopInv, FileInv, NEW c \in Loops, NEW m, NEW e,
         loop' = [loop EXCEPT ![c] = m], edit' = [edit EXCEPT ![c] = e],
         file' = file, dry' = dry,
         m.pc # "patching" => e.pc = "none", Told(m, e, file)
  PROVE  FileInv'
<1>1. /\ \A d \in Loops : loop'[d] = IF d = c THEN m ELSE loop[d]
      /\ \A d \in Loops : edit'[d] = IF d = c THEN e ELSE edit[d]
  BY LoopsAssumption DEF LoopInv, Files
<1>2. \A d \in Loops : /\ loop'[d].pc # "patching" => edit'[d].pc = "none"
                       /\ Told(loop'[d], edit'[d], file)
  BY <1>1 DEF FileInv
<1> SUFFICES ASSUME NEW d \in Loops
             PROVE  /\ (loop[d].pc # "patching" => edit[d].pc = "none")'
                    /\ Told(loop[d], edit[d], file)'
  BY DEF FileInv
<1>3. Told(loop'[d], edit'[d], file)
  BY <1>2
<1>4. Honest(loop'[d], edit'[d], file) => Honest(loop[d], edit[d], file)'
  BY DEF Honest, UnderWay, Recorded, Left, Follows, Before
<1> QED BY <1>2, <1>3, <1>4 DEF Told, Judged, Succeeded, Passed

LEMMA BeginTold ==
  ASSUME LoopInv, FileInv, NEW c \in Loops, Begin(c)
  PROVE  FileInv'
<1>1. PICK plan \in Plans, max \in MaxAttempts :
        loop' = [loop EXCEPT ![c] = [NoLoop EXCEPT !.pc = "next", !.max = max,
                                       !.plan = Slice(plan, max), !.status = "running", !.start = file]]
  BY DEF Begin
<1> DEFINE m == [NoLoop EXCEPT !.pc = "next", !.max = max, !.plan = Slice(plan, max),
                               !.status = "running", !.start = file]
<1>2. m.pc = "next" /\ m.attempts = <<>> /\ m.start = file
  BY DEF NoLoop
<1>3. edit' = [edit EXCEPT ![c] = edit[c]] /\ edit[c].pc = "none" /\ file' = file /\ dry' = dry
  BY LoopParts DEF Begin, FileInv, Files
<1>4. loop' = [loop EXCEPT ![c] = m]
  BY <1>1
<1> HIDE DEF m
<1>5. Told(m, edit[c], file)
  <2>1. Len(m.attempts) = 0
    BY <1>2
  <2>2. Left(m) = file
    BY <1>2, <2>1 DEF Left, Before
  <2> QED BY <1>2, <2>1, <2>2 DEF Told, Judged, Succeeded, Honest
<1> QED BY <1>2, <1>3, <1>4, <1>5, FileBecomes

LEMMA PatchTold ==
  ASSUME LoopInv, FileInv, NEW c \in Loops, Patch(c)
  PROVE  FileInv'
<1> DEFINE l == loop[c]
           p == Current(l)
<1>1. /\ l \in LoopType /\ c \in Clients /\ Files /\ file \in Contents
      /\ Len(l.attempts) \in Nat /\ Len(l.plan) \in Nat /\ loop \in [Loops -> LoopType]
  BY LoopParts DEF Files
<1>2. /\ l.pc = "next" /\ Len(l.attempts) < Len(l.plan) /\ file' = file /\ dry' = dry
      /\ Told(l, edit[c], file) /\ edit[c].pc = "none"
  BY DEF Patch, FileInv
<1>3. p \in Patches /\ p \in Edits /\ p = l.plan[Len(l.attempts) + 1]
  BY <1>1, <1>2 DEF Current, LoopType, Patches
<1>4. CASE Edited(p, file) = {}
  <2> DEFINE m == [l EXCEPT !.pc = "raised"]
  <2>1. loop' = [loop EXCEPT ![c] = m] /\ edit' = [edit EXCEPT ![c] = edit[c]]
    BY <1>1, <1>4 DEF Patch, Files
  <2>2. /\ m.pc = "raised" /\ m.attempts = l.attempts /\ m.plan = l.plan /\ m.start = l.start
        /\ m.disturbed = l.disturbed
    BY <1>1 DEF LoopType
  <2> HIDE DEF m
  <2>3. Told(m, edit[c], file)
    BY <1>2, <2>2, SameAttempts DEF Told, Judged, Honest
  <2> QED BY <1>2, <2>1, <2>3, FileBecomes
<1>5. CASE Edited(p, file) # {}
  <2>1. PICK after \in Edited(p, file) :
          /\ edit' = [edit EXCEPT ![c] = Planned(p, after, dry)]
          /\ loop' = [loop EXCEPT ![c].pc = "patching", ![c].diff = Diff(file, after),
                                 ![c].after = after]
    BY <1>5 DEF Patch
  <2> DEFINE m == [l EXCEPT !.pc = "patching", !.diff = Diff(file, after), !.after = after]
             e == Planned(p, after, dry)
  <2>2. loop' = [loop EXCEPT ![c] = m]
    BY <1>1, <2>1
  <2>3. /\ m.pc = "patching" /\ m.attempts = l.attempts /\ m.plan = l.plan
        /\ m.start = l.start /\ m.disturbed = l.disturbed
        /\ m.diff = Diff(file, after) /\ m.after = after
    BY <1>1 DEF LoopType
  <2>4. /\ dry => e.pc = "none"
        /\ ~dry => (\/ e.pc \in {"computed", "checked"} /\ e.after = after
                    \/ e.pc = "none" /\ file = after)
    BY DEF Planned, Writes, NoEdit
  <2> HIDE DEF m, e
  <2>5. ASSUME ~l.disturbed PROVE Honest(m, e, file)
    <3>1. Honest(l, edit[c], file) /\ file = Left(l)
      BY <1>2, <2>5 DEF Told, Honest
    <3>2. UnderWay(m)
      <4>1. Before(m, Len(m.attempts) + 1) = file /\ m.plan[Len(m.attempts) + 1] = p
        BY <1>3, <2>3, <3>1 DEF Left, Before
      <4> QED BY <2>3, <4>1 DEF UnderWay, Follows
    <3>3. dry => file = m.start
      BY <2>3, <3>1 DEF Left, Before
    <3>4. \A i \in 1..Len(m.attempts) : Recorded(m, i)
      BY <2>3, <3>1, SameAttempts DEF Honest
    <3>5. dry \in BOOLEAN
      BY <1>1 DEF Files
    <3> QED BY <2>3, <2>4, <3>2, <3>3, <3>4, <3>5 DEF Honest
  <2>6. Told(m, e, file)
    BY <2>3, <2>5 DEF Told, Judged
  <2> QED BY <1>2, <2>1, <2>2, <2>3, <2>6, FileBecomes DEF e
<1> QED BY <1>4, <1>5

(* An attempt is recorded, and is in the file.                             *)
LEMMA RecordedTold ==
  ASSUME LoopInv, FileInv, NEW c \in Loops, NEW a \in AttemptType, NEW m \in LoopType,
         loop' = [loop EXCEPT ![c] = m], UNCHANGED <<file, edit, dry>>,
         loop[c].pc \in {"patching", "testing"}, edit[c].pc = "none",
         a.diff = loop[c].diff, a.after = loop[c].after,
         m.attempts = Append(loop[c].attempts, a), m.plan = loop[c].plan,
         m.start = loop[c].start, m.disturbed = loop[c].disturbed,
         m.pc \in {"storing", "next"}, m.result = "completed" => m.pc = "storing",
         m.result = "completed" <=> a.tests = "passed" /\ ~Again(loop[c], a.signature),
         m.result = "completed" /\ ~m.disturbed => m.tested = file
  PROVE  FileInv'
<1> DEFINE l == loop[c]
<1>1. l \in LoopType /\ Files /\ Len(l.attempts) \in Nat /\ Told(l, edit[c], file)
  BY LoopParts DEF FileInv
<1>2. Succeeded(m) <=> m.result = "completed"
  BY <1>1, AttemptJudged
<1>3. ASSUME ~m.disturbed PROVE Honest(m, edit[c], file)
  <2>1. /\ \A i \in 1..Len(l.attempts) : Recorded(l, i)
        /\ Follows(l, Len(l.attempts) + 1, a.diff, a.after)
        /\ file = IF dry THEN l.start ELSE a.after
    BY <1>1, <1>3 DEF Told, Honest, UnderWay
  <2>2. /\ \A i \in 1..Len(m.attempts) : Recorded(m, i)
        /\ file = Left(m)
    BY <1>1, <2>1, AttemptAppended
  <2> QED BY <1>3, <2>2 DEF Honest
<1>4. Told(m, edit[c], file)
  BY <1>2, <1>3 DEF Told, Judged
<1>5. edit' = [edit EXCEPT ![c] = edit[c]]
  BY <1>1 DEF Files
<1> QED BY <1>4, <1>5, FileBecomes

LEMMA CheckPatchTold ==
  ASSUME LoopInv, FileInv, NEW c \in Loops, CheckPatch(c)
  PROVE  FileInv'
<1> DEFINE l == loop[c]
<1>1. /\ l \in LoopType /\ Files /\ loop \in [Loops -> LoopType]
      /\ l.pc = "patching" /\ edit[c].pc = "none" /\ UNCHANGED <<file, edit, dry>>
      /\ Told(l, edit[c], file)
  BY LoopParts DEF CheckPatch, FileInv
<1>2. CASE l.diff \in Diffs(l)
  <2> DEFINE a == Attempt(l, "none", "none", "stopped")
             m == [l EXCEPT !.pc = "storing", !.result = "failed", !.diff = <<>>, !.after = <<>>,
                            !.attempts = Append(l.attempts, a)]
  <2>1. loop' = [loop EXCEPT ![c] = m]
    BY <1>1, <1>2 DEF CheckPatch
  <2>2. /\ a \in AttemptType /\ a.tests = "none" /\ a.diff = l.diff /\ a.after = l.after
    BY <1>1 DEF Attempt, AttemptType, LoopType
  <2> HIDE DEF a
  <2>3. Append(l.attempts, a) \in Seq(AttemptType) /\ <<>> \in Seq(Contents) /\ <<>> \in Contents
    BY <1>1, <2>2 DEF LoopType, Contents
  <2>4. /\ m \in LoopType /\ m.pc = "storing" /\ m.attempts = Append(l.attempts, a)
        /\ m.plan = l.plan /\ m.start = l.start /\ m.disturbed = l.disturbed /\ m.result = "failed"
    BY <1>1, <2>3 DEF LoopType
  <2> HIDE DEF m
  <2> QED BY <1>1, <2>1, <2>2, <2>4, RecordedTold
<1>3. CASE l.diff \notin Diffs(l)
  <2> DEFINE m == [l EXCEPT !.pc = "testing"]
  <2>1. loop' = [loop EXCEPT ![c] = m] /\ edit' = [edit EXCEPT ![c] = edit[c]]
    BY <1>1, <1>3 DEF CheckPatch, Files
  <2>2. /\ m.pc = "testing" /\ m.attempts = l.attempts /\ m.plan = l.plan /\ m.start = l.start
        /\ m.disturbed = l.disturbed /\ m.diff = l.diff /\ m.after = l.after
    BY <1>1 DEF LoopType
  <2> HIDE DEF m
  <2>3. Told(m, edit[c], file)
    BY <1>1, <2>2, SameAttempts DEF Told, Judged, Honest
  <2> QED BY <1>1, <2>1, <2>2, <2>3, FileBecomes
<1> QED BY <1>2, <1>3

LEMMA RunTestsTold ==
  ASSUME LoopInv, FileInv, NEW c \in Loops, RunTests(c)
  PROVE  FileInv'
<1> DEFINE l == loop[c]
<1>1. /\ l \in LoopType /\ Files /\ loop \in [Loops -> LoopType] /\ file \in Contents
      /\ l.pc = "testing" /\ edit[c].pc = "none" /\ UNCHANGED <<file, edit, dry>>
      /\ Told(l, edit[c], file)
  BY LoopParts DEF RunTests, FileInv, Files
<1>2. CASE loop' = [loop EXCEPT ![c].pc = "raised"]
  <2> DEFINE m == [l EXCEPT !.pc = "raised"]
  <2>1. loop' = [loop EXCEPT ![c] = m] /\ edit' = [edit EXCEPT ![c] = edit[c]]
    BY <1>1, <1>2 DEF Files
  <2>2. /\ m.pc = "raised" /\ m.attempts = l.attempts /\ m.plan = l.plan /\ m.start = l.start
        /\ m.disturbed = l.disturbed
    BY <1>1 DEF LoopType
  <2> HIDE DEF m
  <2>3. Told(m, edit[c], file)
    BY <1>1, <2>2, SameAttempts DEF Told, Judged, Honest
  <2> QED BY <1>1, <2>1, <2>2, <2>3, FileBecomes
<1>3. ASSUME NEW t \in TestResults,
             loop' = [loop EXCEPT ![c] =
               [l EXCEPT !.pc = IF Again(l, t[2]) \/ EndsWell(l, t) THEN "storing" ELSE "next",
                         !.result = IF EndsWell(l, t) THEN "completed" ELSE "failed",
                         !.diff = <<>>, !.after = <<>>,
                         !.attempts = Append(@, Attempt(l, t[1], t[2],
                                                IF Again(l, t[2]) THEN "stopped" ELSE t[1])),
                         !.tested = IF l.disturbed THEN <<>> ELSE file]]
      PROVE  FileInv'
  <2> DEFINE a == Attempt(l, t[1], t[2], IF Again(l, t[2]) THEN "stopped" ELSE t[1])
             pc == IF Again(l, t[2]) \/ EndsWell(l, t) THEN "storing" ELSE "next"
             result == IF EndsWell(l, t) THEN "completed" ELSE "failed"
             tested == IF l.disturbed THEN <<>> ELSE file
             m == [l EXCEPT !.pc = pc, !.result = result, !.diff = <<>>, !.after = <<>>,
                            !.attempts = Append(@, a), !.tested = tested]
  <2>1. t[1] \in {"passed", "failed", "simulated"} /\ t[2] \in Signatures \cup {"none"}
    BY <1>3 DEF TestResults
  <2>2. /\ a \in AttemptType /\ a.diff = l.diff /\ a.after = l.after
        /\ a.tests = t[1] /\ a.signature = t[2]
    BY <1>1, <2>1 DEF Attempt, AttemptType, LoopType
  <2>3. /\ result = "completed" <=> t[1] = "passed" /\ ~Again(l, t[2])
        /\ result = "completed" => pc = "storing"
    BY DEF EndsWell
  <2>4. loop' = [loop EXCEPT ![c] = m]
    BY <1>3
  <2>5. tested \in Contents /\ result \in {"completed", "failed"} /\ pc \in {"storing", "next"}
    BY <1>1 DEF Contents
  <2> HIDE DEF a, pc, result
  <2>6. Append(l.attempts, a) \in Seq(AttemptType) /\ <<>> \in Seq(Contents) /\ <<>> \in Contents
    BY <1>1, <2>2 DEF LoopType, Contents
  <2> HIDE DEF tested
  <2>7. /\ m \in LoopType /\ m.pc = pc /\ m.attempts = Append(l.attempts, a)
        /\ m.plan = l.plan /\ m.start = l.start /\ m.disturbed = l.disturbed
        /\ m.result = result /\ m.tested = tested
    BY <1>1, <2>5, <2>6 DEF LoopType
  <2> HIDE DEF m
  <2>8. ~m.disturbed => m.tested = file
    <3>1. l.disturbed \in BOOLEAN
      BY <1>1 DEF LoopType
    <3> QED BY <2>7, <3>1 DEF tested
  <2> QED BY <1>1, <2>2, <2>3, <2>4, <2>5, <2>7, <2>8, RecordedTold
<1> QED BY <1>2, <1>3 DEF RunTests

LEMMA EndTold ==
  ASSUME LoopInv, FileInv, NEW c \in Loops,
         Exhausted(c) \/ StoreAttempt(c) \/ Close(c) \/ Return(c)
  PROVE  FileInv'
<1> DEFINE l == loop[c]
<1>1. /\ l \in LoopType /\ Files /\ loop \in [Loops -> LoopType] /\ Told(l, edit[c], file)
      /\ l.pc \in {"next", "storing", "closed", "raised"} /\ edit[c].pc = "none"
      /\ UNCHANGED <<file, edit, dry>>
  BY LoopParts DEF FileInv, Exhausted, StoreAttempt, Close, Return
<1>2. edit' = [edit EXCEPT ![c] = edit[c]]
  BY <1>1 DEF Files
<1>3. CASE Exhausted(c)
  <2> DEFINE m == [l EXCEPT !.pc = "storing", !.result = "failed"]
  <2>1. loop' = [loop EXCEPT ![c] = m] /\ l.pc = "next"
    BY <1>1, <1>3 DEF Exhausted
  <2>2. /\ m.pc = "storing" /\ m.attempts = l.attempts /\ m.plan = l.plan /\ m.start = l.start
        /\ m.disturbed = l.disturbed /\ m.result = "failed"
    BY <1>1 DEF LoopType
  <2> HIDE DEF m
  <2>3. Told(m, edit[c], file)
    BY <1>1, <2>1, <2>2, SameAttempts DEF Told, Judged, Honest
  <2> QED BY <1>1, <1>2, <2>1, <2>3, FileBecomes
<1>4. CASE StoreAttempt(c)
  <2> DEFINE m == [l EXCEPT !.stored = l.stored + 1]
  <2>1. loop' = [loop EXCEPT ![c] = m] /\ l.pc = "storing"
    BY <1>1, <1>4 DEF StoreAttempt
  <2>2. /\ m.pc = "storing" /\ m.attempts = l.attempts /\ m.plan = l.plan /\ m.start = l.start
        /\ m.disturbed = l.disturbed /\ m.result = l.result /\ m.tested = l.tested
    BY <1>1, <2>1 DEF LoopType
  <2> HIDE DEF m
  <2>3. Told(m, edit[c], file)
    BY <1>1, <2>1, <2>2, SameAttempts DEF Told, Judged, Honest
  <2> QED BY <1>1, <1>2, <2>1, <2>2, <2>3, FileBecomes
<1>5. CASE Close(c)
  <2> DEFINE m == [l EXCEPT !.pc = "closed", !.status = l.result]
  <2>1. loop' = [loop EXCEPT ![c] = m] /\ l.pc = "storing"
    BY <1>1, <1>5 DEF Close
  <2>2. /\ m.pc = "closed" /\ m.attempts = l.attempts /\ m.plan = l.plan /\ m.start = l.start
        /\ m.disturbed = l.disturbed /\ m.result = l.result /\ m.tested = l.tested
        /\ m.status = l.result
    BY <1>1, <2>1 DEF LoopType
  <2> HIDE DEF m
  <2>3. Told(m, edit[c], file)
    BY <1>1, <2>1, <2>2, SameAttempts DEF Told, Judged, Honest
  <2> QED BY <1>1, <1>2, <2>1, <2>2, <2>3, FileBecomes
<1>6. CASE Return(c)
  <2>1. Told(NoLoop, edit[c], file)
    BY DEF Told, NoLoop
  <2>2. loop' = [loop EXCEPT ![c] = NoLoop]
    BY <1>6 DEF Return
  <2> QED BY <1>1, <1>2, <2>1, <2>2, FileBecomes
<1> QED BY <1>3, <1>4, <1>5, <1>6

(* What a client that is not at it writes, or leaves half-written, only    *)
(* takes from the others what they know of the file.                       *)
LEMMA WrittenTold ==
  ASSUME LoopInv, FileInv, NEW c \in Clients, Disturbs(c), dry' = dry,
         NEW e, edit' = [edit EXCEPT ![c] = e],
         c \in Loops => /\ loop[c].pc # "patching" => e.pc = "none"
                        /\ Told(loop[c], e, file')
  PROVE  FileInv'
<1> SUFFICES ASSUME NEW d \in Loops
             PROVE  /\ (loop[d].pc # "patching" => edit[d].pc = "none")'
                    /\ Told(loop[d], edit[d], file)'
  BY DEF FileInv
<1>1. /\ loop'[d] = IF d # c /\ loop[d].pc # "idle" THEN Disturbed(loop[d]) ELSE loop[d]
      /\ edit'[d] = IF d = c THEN e ELSE edit[d]
      /\ loop[d] \in LoopType /\ Told(loop[d], edit[d], file)
      /\ loop[d].pc # "patching" => edit[d].pc = "none"
  BY LoopParts DEF Disturbs, Files, FileInv
<1>2. /\ Disturbed(loop[d]).pc = loop[d].pc /\ Disturbed(loop[d]).disturbed
      /\ Disturbed(loop[d]).attempts = loop[d].attempts
      /\ Disturbed(loop[d]).result = loop[d].result /\ Disturbed(loop[d]).status = loop[d].status
  BY <1>1 DEF Disturbed, LoopType
<1>3. Told(loop'[d], edit'[d], file')
  <2>1. CASE d = c
    BY <1>1, <2>1
  <2>2. CASE d # c /\ loop[d].pc = "idle"
    BY <1>1, <2>2 DEF Told
  <2>3. CASE d # c /\ loop[d].pc # "idle"
    BY <1>1, <1>2, <2>3 DEF Told, Judged, Succeeded, Passed
  <2> QED BY <2>1, <2>2, <2>3
<1>4. loop'[d].pc # "patching" => edit'[d].pc = "none"
  BY <1>1, <1>2
<1>5. Honest(loop'[d], edit'[d], file') => Honest(loop[d], edit[d], file)'
  BY DEF Honest, UnderWay, Recorded, Left, Follows, Before
<1> QED BY <1>3, <1>4, <1>5 DEF Told, Judged, Succeeded, Passed

LEMMA ToolTold ==
  ASSUME LoopInv, FileInv, NEW c \in Clients \ Loops, CallTool(c)
  PROVE  FileInv'
<1>1. /\ loop' = loop /\ file' = file /\ dry' = dry
      /\ \A d \in Loops : edit'[d] = edit[d]
  BY DEF CallTool
<1> QED BY <1>1 DEF FileInv, Told, Judged, Succeeded, Passed, Honest, UnderWay, Recorded, Left,
                    Follows, Before

LEMMA CheckTold ==
  ASSUME LoopInv, FileInv, NEW c \in Clients, CheckFile(c)
  PROVE  FileInv'
<1> DEFINE e == IF Refused(c) \/ file = edit[c].after THEN NoEdit
                ELSE [edit[c] EXCEPT !.pc = "checked"]
<1>1. /\ edit[c].pc = "computed" /\ dry' = dry /\ file' = file /\ edit[c] \in EditType
      /\ edit' = [edit EXCEPT ![c] = e]
  BY DEF CheckFile, Check, LoopInv, Files
<1>2. /\ e.pc \in {"none", "checked"}
      /\ e.pc = "checked" => e.after = edit[c].after
      /\ e.pc = "none" => Refused(c) \/ file = edit[c].after
  BY <1>1 DEF NoEdit, EditType
<1> HIDE DEF e
<1>3. CASE c \notin Loops
  <2>1. loop' = loop /\ \A d \in Loops : edit'[d] = edit[d]
    BY <1>1, <1>3 DEF CheckFile
  <2> QED BY <1>1, <2>1
          DEF FileInv, Told, Judged, Succeeded, Passed, Honest, UnderWay, Recorded, Left,
              Follows, Before
<1>4. CASE c \in Loops
  <2> DEFINE l == loop[c]
  <2>1. /\ l \in LoopType /\ loop \in [Loops -> LoopType] /\ l.pc = "patching"
        /\ Told(l, edit[c], file)
    BY <1>1, <1>4, LoopParts DEF FileInv
  <2>2. CASE Refused(c)
    <3> DEFINE m == [l EXCEPT !.pc = "raised"]
    <3>1. loop' = [loop EXCEPT ![c] = m] /\ e.pc = "none"
      BY <1>4, <2>2 DEF CheckFile, e, NoEdit
    <3>2. /\ m.pc = "raised" /\ m.attempts = l.attempts /\ m.plan = l.plan
          /\ m.start = l.start /\ m.disturbed = l.disturbed
      BY <2>1 DEF LoopType
    <3> HIDE DEF m
    <3>3. Told(m, e, file)
      BY <2>1, <3>2, SameAttempts DEF Told, Judged, Honest
    <3> QED BY <1>1, <1>4, <3>1, <3>3, FileBecomes
  <2>3. CASE ~Refused(c)
    <3>1. loop' = [loop EXCEPT ![c] = l]
      BY <2>1, <2>3 DEF CheckFile
    <3>2. Told(l, e, file)
      BY <1>1, <1>2, <2>1, <2>3 DEF Told, Judged, Honest
    <3> QED BY <1>1, <1>4, <2>1, <3>1, <3>2, FileBecomes
  <2> QED BY <2>2, <2>3
<1> QED BY <1>3, <1>4

LEMMA OpenTold ==
  ASSUME LoopInv, FileInv, NEW c \in Clients, OpenFile(c)
  PROVE  FileInv'
<1> DEFINE e == [edit[c] EXCEPT !.pc = "opened"]
<1>1. /\ edit[c].pc = "checked" /\ dry' = dry /\ edit[c] \in EditType
      /\ edit' = [edit EXCEPT ![c] = e] /\ file' = <<>> /\ Disturbs(c)
  BY DEF OpenFile, Open, LoopInv, Files
<1>2. e.pc = "opened" /\ e.after = edit[c].after
  BY <1>1 DEF EditType
<1> HIDE DEF e
<1>3. ASSUME c \in Loops
      PROVE  loop[c].pc = "patching" /\ Told(loop[c], e, file')
  <2>1. loop[c].pc = "patching" /\ Told(loop[c], edit[c], file)
    BY <1>1, <1>3 DEF FileInv
  <2> QED BY <1>1, <1>2, <2>1 DEF Told, Judged, Honest
<1> QED BY <1>1, <1>3, WrittenTold

LEMMA WriteTold ==
  ASSUME LoopInv, FileInv, NEW c \in Clients, WriteFile(c)
  PROVE  FileInv'
<1>1. /\ edit[c].pc = "opened" /\ edit' = [edit EXCEPT ![c] = NoEdit]
      /\ file' = edit[c].after \o SubSeq(file, Len(edit[c].after) + 1, Len(file))
      /\ Disturbs(c) /\ dry' = dry
  BY DEF WriteFile, Write
<1>2. file = <<>> => file' = edit[c].after
  BY <1>1, OverlaidContents DEF LoopInv, Files, EditType
<1>3. ASSUME c \in Loops
      PROVE  loop[c].pc = "patching" /\ Told(loop[c], NoEdit, file')
  <2>1. loop[c].pc = "patching" /\ Told(loop[c], edit[c], file)
    BY <1>1, <1>3 DEF FileInv
  <2> QED BY <1>1, <1>2, <2>1 DEF Told, Judged, Honest, NoEdit
<1> QED BY <1>1, <1>3, WrittenTold DEF NoEdit

LEMMA DieTold ==
  ASSUME LoopInv, FileInv, NEW c \in Clients, Die(c)
  PROVE  FileInv'
<1>1. edit' = [edit EXCEPT ![c] = NoEdit] /\ file' = file /\ dry' = dry
  BY DEF Die
<1>2. CASE c \in Loops
  <2>1. loop' = [loop EXCEPT ![c] = NoLoop]
    BY <1>2 DEF Die
  <2>2. Told(NoLoop, NoEdit, file) /\ NoEdit.pc = "none"
    BY DEF Told, NoLoop, NoEdit
  <2> QED BY <1>1, <1>2, <2>1, <2>2, FileBecomes
<1>3. CASE c \notin Loops
  <2>1. loop' = loop /\ \A d \in Loops : edit'[d] = edit[d]
    BY <1>1, <1>3 DEF Die
  <2> QED BY <1>1, <2>1
          DEF FileInv, Told, Judged, Succeeded, Passed, Honest, UnderWay, Recorded, Left,
                  Follows, Before
<1> QED BY <1>2, <1>3

LEMMA FileInitial == Init => FileInv
BY LoopsAssumption DEF Init, FileInit, FileInv, Told, NoLoop, NoEdit

LEMMA FileInductive == LoopInv /\ FileInv /\ [Next]_vars => FileInv'
<1> SUFFICES ASSUME LoopInv, FileInv, [Next]_vars PROVE FileInv'
  OBVIOUS
<1>1. CASE vars' = vars
  BY <1>1 DEF vars, FileInv, Told, Judged, Succeeded, Passed, Honest, UnderWay, Recorded, Left,
                  Follows, Before
<1>2. CASE Next
  BY <1>2, BeginTold, PatchTold, CheckPatchTold, RunTestsTold, EndTold, ToolTold, CheckTold, OpenTold,
     WriteTold, DieTold DEF Next
<1> QED BY <1>1, <1>2

LEMMA LoopCorrect == Spec => []LoopInv
BY LoopInitial, LoopInductive, PTL DEF Spec

(* Types: what is stored has been attempted and what is attempted was      *)
(* planned, for any plan and any number of attempts asked for.             *)
THEOREM TypeCorrect == Spec => []TypeOK
BY Implied, LoopCorrect, PTL

(* No more attempts than asked for, no diff is tested twice and no failure *)
(* is followed by another attempt twice, whoever edits the file meanwhile. *)
THEOREM AttemptsDifferCorrect == Spec => []AttemptsDiffer
BY Implied, LoopCorrect, PTL

(* A run is completed exactly when the last tests passed without printing  *)
(* a failure seen before; the diffs a run stores are its patches, in order *)
(* and without a gap, and what they lead to is the file, the one that the  *)
(* tests of a completed run have seen: for any edits and any other         *)
(* clients, as long as these do not write in between.                      *)
THEOREM AttemptsAreInTheFileCorrect == Spec => []AttemptsAreInTheFile
<1>1. Init => FileInv
  BY FileInitial
<1>2. LoopInv /\ FileInv /\ [Next]_vars => FileInv'
  BY FileInductive
<1>3. Spec => []FileInv
  BY <1>1, <1>2, LoopCorrect, PTL DEF Spec
<1> QED BY <1>3, LoopCorrect, FileImplied, PTL
=============================================================================
