-------------------------- MODULE MemoryStoreProofs --------------------------
(***************************************************************************)
(* Theorems about the memory store, for any numbers of runs and clients,   *)
(* any settings of their processes, any knowledge and any retentions: its  *)
(* types, what its processes reconcile and record, and what clean-ups      *)
(* leave behind.                                                           *)
(***************************************************************************)
EXTENDS MemoryStore, TLAPS, WellFoundedInduction, FiniteSetTheorems

-----------------------------------------------------------------------------
(* Types.                                                                  *)

Planning == {"ingesting", "marking", "planning"}

Executing == {"working", "approved"}

Cleaning == {"keeping", "selecting", "deleting"}

Tables ==
  /\ now \in Nat /\ inserted \in Nat
  /\ row \in [Runs -> Row]
  /\ knowledge \in [Keys -> Nat \cup {Absent}]
  /\ under \in [Runs -> Profiles \cup {"none"}]
  /\ overtaken \in BOOLEAN

(* What a client may become.                                               *)
Sound(d) ==
  /\ d \in Client
  /\ d.pc \notin {"idle"} \cup Cleaning => d.run \in Runs
  /\ d.pc \in Planning \cup Executing => d.profile \in Profiles

LEMMA TypeParts ==
  TypeOK <=> /\ Tables
             /\ client \in [Clients -> Client]
             /\ \A c \in Clients : Sound(client[c])
BY DEF TypeOK, Tables, Sound, Planning, Executing, Cleaning

LEMMA IdleSound == Sound(Idle) /\ Idle.pc = "idle" /\ NoRow \in Row /\ NoRow.rowid = 0
<1>1. <<>> \in Seq(Keys \cup {Bad})
  OBVIOUS
<1> QED BY <1>1 DEF Sound, Idle, Client, NoRow, Row, Statuses, Profiles, Planning, Executing, Cleaning

LEMMA Becomes ==
  ASSUME TypeOK, Tables', NEW c \in Clients, NEW d, Sound(d), Become(c, d)
  PROVE  TypeOK'
<1>1. client' = [client EXCEPT ![c] = d] /\ d \in Client
  BY DEF Become, Sound
<1>2. client' \in [Clients -> Client]
  BY <1>1 DEF TypeOK
<1>3. \A e \in Clients : Sound(client'[e])
  BY <1>1, TypeParts
<1> QED BY <1>2, <1>3, TypeParts DEF TypeOK, Tables, Sound, Planning, Executing, Cleaning

LEMMA RowUpdated ==
  ASSUME Tables, NEW r \in Runs, NEW new \in Row,
         row' = [row EXCEPT ![r] = new] \/ Update(r, new) \/ row' = row,
         UNCHANGED <<now, inserted, knowledge, under, overtaken>>
  PROVE  Tables'
BY DEF Tables, Update

LEMMA SettingProfile == \A c \in Agents \cup Operators : c \in Clients /\ Setting[c] \in Profiles
BY ClientsAssumption, SettingAssumption DEF Profiles

(* The operations of a client that touch no table but its own reading.     *)
Reading(c) ==
  \/ ReadEntries(c) \/ StepInPlace(c)
  \/ (\E r \in Runs : BeginLoad(c, r)) \/ LoadRow(c) \/ LoadSteps(c) \/ LoadArtifacts(c)
  \/ LoadProfile(c) \/ BeginCleanup(c) \/ SelectKept(c) \/ SelectOld(c) \/ Restart(c)

LEMMA ReadingTyped ==
  ASSUME TypeOK, NEW c \in Clients, Reading(c)
  PROVE  TypeOK'
<1> USE DEF Sound, Planning, Executing, Cleaning
<1>1. UNCHANGED <<now, inserted, row, knowledge, under, overtaken>>
  BY DEF Reading, ReadEntries, StepInPlace, BeginLoad, LoadRow, LoadSteps,
         LoadArtifacts, LoadProfile, BeginCleanup, SelectKept, SelectOld, Restart
<1> SUFFICES \E d : Sound(d) /\ Become(c, d)
  <2>1. Tables'
    BY <1>1, TypeParts DEF Tables
  <2> HIDE DEF Sound
  <2> QED BY <2>1, Becomes
<1>2. client[c] \in Client /\ Sound(client[c]) /\ Present \subseteq Runs /\ row \in [Runs -> Row]
  BY DEF TypeOK, Present
<1>3. CASE ReadEntries(c)
  BY <1>2, <1>3 DEF ReadEntries, Client, Entries
<1>4. CASE StepInPlace(c)
  BY <1>2, <1>4 DEF StepInPlace, Client, Statuses
<1>5. CASE \E r \in Runs : BeginLoad(c, r)
  BY IdleSound, <1>5 DEF BeginLoad, Client
<1>6. CASE LoadRow(c)
  BY IdleSound, <1>2, <1>6 DEF LoadRow, Client, Row
<1>7. CASE LoadSteps(c)
  BY <1>2, <1>7 DEF LoadSteps, Client, Row
<1>8. CASE LoadArtifacts(c)
  BY <1>2, <1>8 DEF LoadArtifacts, Client, Row
<1>9. CASE LoadProfile(c)
  BY <1>2, <1>9 DEF LoadProfile, Client, Row
<1>10. CASE BeginCleanup(c)
  <2>1. PICK p \in Retentions :
          Become(c, [Idle EXCEPT !.pc = "keeping", !.keep = p.keep, !.old = now - p.days])
    BY <1>10 DEF BeginCleanup
  <2>2. p.keep \in Int /\ p.days \in Int /\ now \in Nat
    BY RetentionsAssumption DEF TypeOK
  <2>3. now - p.days \in Int
    BY <2>2
  <2> QED BY IdleSound, <2>1, <2>2, <2>3 DEF Client
<1>11. CASE SelectKept(c)
  BY <1>2, <1>11 DEF SelectKept, Client, Newest
<1>12. CASE SelectOld(c)
  <2>1. {r \in Present : Old(r, client[c].old)} \ client[c].doomed \in SUBSET Runs
    BY <1>2
  <2>2. 0 \in Int /\ 0 \in Nat
    OBVIOUS
  <2> QED BY <1>2, <1>12, <2>1, <2>2 DEF SelectOld, Client
<1>13. CASE Restart(c)
  BY IdleSound, <1>13 DEF Restart
<1> QED BY <1>3, <1>4, <1>5, <1>6, <1>7, <1>8, <1>9, <1>10, <1>11, <1>12, <1>13 DEF Reading

(* The bodies of what the clients write are rows again.                    *)
LEMMA RowsTyped ==
  ASSUME TypeOK, NEW r \in Runs
  PROVE  /\ row[r] \in Row
         /\ \A p \in Profiles : [row[r] EXCEPT !.profile = p] \in Row
         /\ \A s \in Statuses : [row[r] EXCEPT !.status = s] \in Row
         /\ \A s \in Statuses : [row[r] EXCEPT !.status = s, !.closed = row[r].steps] \in Row
         /\ [row[r] EXCEPT !.plan = TRUE] \in Row
         /\ [row[r] EXCEPT !.steps = row[r].steps + 1] \in Row
         /\ [NoRow EXCEPT !.rowid = inserted + 1, !.born = now] \in Row
<1>1. row[r] \in Row /\ inserted + 1 \in Nat /\ now \in Nat
  BY DEF TypeOK
<1>2. row[r].steps \in Nat /\ row[r].steps + 1 \in Nat
  BY <1>1 DEF Row
<1> QED BY <1>1, <1>2, IdleSound DEF Row

(* An INSERT into steps.                                                   *)
LEMMA StoreTyped ==
  ASSUME TypeOK, NEW c \in Clients, NEW pc, NEW status \in Statuses, Store(c, pc, status),
         client[c].run \in Runs, UNCHANGED <<now, inserted, knowledge, under, overtaken>>,
         pc \in {"working", "closing"}, pc = "working" => client[c].profile \in Profiles
  PROVE  TypeOK'
<1> DEFINE r == client[c].run
           new == [row[r] EXCEPT !.steps = row[r].steps + 1]
<1>1. client[c] \in Client /\ Tables /\ Sound(client[c])
  BY TypeParts
<1>2. CASE References(r)
  <2>1. row' = [row EXCEPT ![r] = new] /\ Become(c, [client[c] EXCEPT !.pc = pc, !.seen = status])
    BY <1>2 DEF Store
  <2>2. Tables'
    BY <1>1, <2>1, RowsTyped, RowUpdated
  <2>3. Sound([client[c] EXCEPT !.pc = pc, !.seen = status])
    BY <1>1 DEF Sound, Client, Planning, Executing, Cleaning
  <2> QED BY <2>1, <2>2, <2>3, Becomes
<1>3. CASE ~References(r)
  <2>1. row' = row /\ Become(c, Idle)
    BY <1>3 DEF Store
  <2> QED BY <1>1, <2>1, IdleSound, Becomes DEF Tables
<1> QED BY <1>2, <1>3

LEMMA CreateRunTyped ==
  ASSUME TypeOK, NEW c \in Agents, NEW r \in Runs, CreateRun(c, r)
  PROVE  TypeOK'
<1>1. PICK items \in Plans : Become(c, [Idle EXCEPT !.pc = "created", !.run = r, !.items = items])
  BY DEF CreateRun
<1>2. Sound([Idle EXCEPT !.pc = "created", !.run = r, !.items = items])
  BY IdleSound, PlansAssumption DEF Sound, Client, Planning, Executing, Cleaning
<1>3. Tables'
  <2>1. row' = [row EXCEPT ![r] = [NoRow EXCEPT !.rowid = inserted + 1, !.born = now]]
    BY DEF CreateRun
  <2>2. row' \in [Runs -> Row]
    BY <2>1, RowsTyped DEF TypeOK
  <2>3. under' \in [Runs -> Profiles \cup {"none"}] /\ inserted' \in Nat
    BY SettingProfile DEF CreateRun, TypeOK
  <2> QED BY <2>2, <2>3 DEF CreateRun, Tables, TypeOK
<1> QED BY <1>1, <1>2, <1>3, SettingProfile, Becomes

LEMMA SetProfileTyped ==
  ASSUME TypeOK, NEW c \in Clients, SetProfile(c)
  PROVE  TypeOK'
<1> DEFINE r == client[c].run
<1>1. r \in Runs /\ Setting[c] \in Profiles /\ Tables /\ Sound(client[c])
  BY TypeParts, SettingAssumption DEF SetProfile, TypeOK, Profiles
<1>2. Tables'
  BY <1>1, RowsTyped, RowUpdated DEF SetProfile
<1>3. Sound([client[c] EXCEPT !.pc = "ingesting", !.profile = Setting[c]])
  BY <1>1 DEF Sound, Client, Planning, Executing, Cleaning
<1> QED BY <1>2, <1>3, Becomes DEF SetProfile

LEMMA KnowledgeTyped ==
  ASSUME TypeOK
  PROVE  /\ \A k \in Keys : Remembered(k) \in [Keys -> Nat \cup {Absent}]
         /\ \A keys \in SUBSET Keys : Marked(keys) \in [Keys -> Nat \cup {Absent}]
         /\ \A k \in Keys : [knowledge EXCEPT ![k] = Absent] \in [Keys -> Nat \cup {Absent}]
BY DEF TypeOK, Remembered, Marked, Absent

LEMMA IngestTyped ==
  ASSUME TypeOK, NEW c \in Clients, Ingest(c)
  PROVE  TypeOK'
<1> DEFINE item == Head(client[c].items)
<1>1. client[c].run \in Runs /\ Tables /\ Sound(client[c]) /\ client[c] \in Client
  BY TypeParts DEF Ingest, Sound, Cleaning
<1>2. item \in Keys \cup {Bad} /\ Tail(client[c].items) \in Seq(Keys \cup {Bad})
  BY <1>1 DEF Ingest, Client
<1>3. CASE item = Bad
  BY <1>1, <1>3, StoreTyped DEF Ingest, Statuses
<1>4. CASE item # Bad
  <2>1. Tables'
    BY <1>1, <1>2, <1>4, KnowledgeTyped DEF Ingest, Tables
  <2>2. Sound([client[c] EXCEPT !.items = Tail(client[c].items)])
    BY <1>1, <1>2 DEF Sound, Client, Planning, Executing, Cleaning
  <2>3. Become(c, [client[c] EXCEPT !.items = Tail(client[c].items)])
    BY <1>4 DEF Ingest
  <2> QED BY <2>1, <2>2, <2>3, Becomes
<1> QED BY <1>3, <1>4

LEMMA MarkUsedTyped ==
  ASSUME TypeOK, NEW c \in Clients, MarkUsed(c)
  PROVE  TypeOK'
<1>1. Tables /\ Sound(client[c]) /\ client[c].keys \in SUBSET Keys
  BY TypeParts DEF TypeOK, Client
<1>2. Tables'
  BY <1>1, KnowledgeTyped DEF MarkUsed, Tables
<1>3. Sound([client[c] EXCEPT !.pc = "planning", !.keys = {}])
  BY <1>1 DEF MarkUsed, Sound, Client, Planning, Executing, Cleaning
<1> QED BY <1>2, <1>3, Becomes DEF MarkUsed

LEMMA PlannedTyped ==
  ASSUME TypeOK, NEW c \in Clients, Planned(c)
  PROVE  TypeOK'
<1> DEFINE r == client[c].run
           d == client[c]
<1>1. r \in Runs /\ Tables /\ Sound(client[c]) /\ client[c] \in Client
      /\ client[c].profile \in Profiles
  BY TypeParts DEF Planned, Sound, Cleaning, Planning
<1>2. UNCHANGED <<now, inserted, knowledge, under, overtaken>>
  BY DEF Planned
<1>3. d \in Client /\ d.run = r /\ d.profile = client[c].profile
  BY <1>1 DEF Client
<1>4. /\ Sound([d EXCEPT !.pc = "working"])
      /\ Sound([d EXCEPT !.pc = "closing", !.seen = "failed"])
  <2> HIDE DEF d
  <2> QED BY <1>1, <1>3 DEF Sound, Client, Planning, Executing, Cleaning, Statuses
<1>5. \/ /\ row' = [row EXCEPT ![r] = [row[r] EXCEPT !.plan = TRUE]]
         /\ Become(c, [d EXCEPT !.pc = "working"])
      \/ /\ row' = [row EXCEPT ![r] = [row[r] EXCEPT !.steps = row[r].steps + 1]]
         /\ Become(c, [d EXCEPT !.pc = "closing", !.seen = "failed"])
      \/ row' = row /\ Become(c, Idle)
  BY DEF Planned
<1> HIDE DEF d
<1>6. Tables'
  BY <1>1, <1>2, <1>5, RowsTyped, RowUpdated
<1> QED BY <1>4, <1>5, <1>6, IdleSound, Becomes

LEMMA WriteStatusTyped ==
  ASSUME TypeOK, NEW c \in Clients, WriteStatus(c)
  PROVE  TypeOK'
<1>1. client[c].run \in Runs /\ Tables /\ client[c].seen \in Statuses
  BY TypeParts DEF WriteStatus, Sound, Cleaning, Client
<1>2. Tables'
  BY <1>1, RowsTyped, RowUpdated DEF WriteStatus, SetStatus
<1> QED BY <1>2, IdleSound, Becomes DEF WriteStatus

(* A status is written to a run that may not be there.                     *)
LEMMA Decided ==
  ASSUME TypeOK, NEW r \in Runs, NEW status \in Statuses, SetStatus(r, status),
         UNCHANGED <<now, inserted, knowledge, under, overtaken>>
  PROVE  Tables'
BY TypeParts, RowsTyped, RowUpdated DEF SetStatus

LEMMA ApproveTyped ==
  ASSUME TypeOK, NEW c \in Operators, NEW r \in Runs, Approve(c, r)
  PROVE  TypeOK'
<1>1. Tables /\ c \in Clients
  BY TypeParts, SettingProfile
<1>2. Tables'
  BY Decided DEF Approve, Statuses
<1>3. Sound([Idle EXCEPT !.pc = "loading", !.run = r, !.purpose = "approval"])
  BY IdleSound DEF Sound, Client, Planning, Executing, Cleaning
<1> QED BY <1>1, <1>2, <1>3, Becomes DEF Approve

LEMMA RejectTyped ==
  ASSUME TypeOK, NEW c \in Operators, NEW r \in Runs, Reject(c, r)
  PROVE  TypeOK'
<1>1. Tables /\ client' = client
  BY TypeParts DEF Reject
<1>2. Tables'
  BY Decided DEF Reject, Statuses
<1> QED BY <1>1, <1>2 DEF Tables, TypeOK

(* Whoever uses a run has a profile for it.                                *)
LEMMA ProfileForRunTyped == TypeOK => \A c \in Clients : ProfileForRun(c) \in Profiles
BY SettingAssumption DEF ProfileForRun, Profiles

LEMMA UseRunTyped ==
  ASSUME TypeOK, NEW c \in Clients, UseRun(c)
  PROVE  TypeOK'
<1> DEFINE r == client[c].run
           d == [Idle EXCEPT !.run = r, !.profile = ProfileForRun(c)]
<1>1. r \in Runs /\ Tables /\ ProfileForRun(c) \in Profiles
  BY TypeParts, ProfileForRunTyped DEF UseRun, Sound, Cleaning
<1>2. UNCHANGED <<now, inserted, knowledge, under, overtaken>>
  BY DEF UseRun
<1>3. d \in Client /\ d.run = r /\ d.profile = ProfileForRun(c)
  BY <1>1, IdleSound DEF Sound, Client
<1>4. \A pc \in Executing : Sound([d EXCEPT !.pc = pc])
  <2> HIDE DEF d
  <2> QED BY <1>1, <1>3 DEF Sound, Client, Planning, Executing, Cleaning
<1>5. /\ row' = row \/ \E status \in Statuses : SetStatus(r, status)
      /\ \/ Become(c, Idle)
         \/ \E pc \in Executing : Become(c, [d EXCEPT !.pc = pc])
  BY DEF UseRun, Statuses, Executing
<1> HIDE DEF d
<1>6. Tables'
  <2>1. CASE row' = row
    BY <1>1, <1>2, <2>1 DEF Tables
  <2> QED BY <1>1, <1>2, <1>5, <2>1, Decided
<1> QED BY <1>4, <1>5, <1>6, IdleSound, Becomes

LEMMA DeleteTyped ==
  ASSUME TypeOK, NEW c \in Clients, Delete(c)
  PROVE  TypeOK'
<1>1. Tables'
  BY IdleSound DEF Delete, Tables, TypeOK
<1> QED BY <1>1, IdleSound, Becomes DEF Delete

(* The operations of a client that write, and no one else's.               *)
Writing(c) ==
  \/ SetProfile(c) \/ Ingest(c) \/ MarkUsed(c) \/ Planned(c) \/ Step(c)
  \/ WriteStatus(c) \/ UseRun(c) \/ Delete(c)

Moves ==
  \/ \E c \in Agents, r \in Runs : CreateRun(c, r)
  \/ \E c \in Operators, r \in Runs : Approve(c, r) \/ Reject(c, r)
  \/ \E c \in Clients : Reading(c) \/ Writing(c)
  \/ (\E k \in Keys : Forget(k)) \/ Time

LEMMA NextMoves == Next => Moves
BY ClientsAssumption DEF Next, Moves, Reading, Writing

LEMMA WritingTyped ==
  ASSUME TypeOK, NEW c \in Clients, Writing(c)
  PROVE  TypeOK'
<1>1. CASE Step(c)
  <2>1. PICK next \in Statuses :
          Store(c, IF next = "active" THEN "working" ELSE "closing", next)
    BY <1>1 DEF Step
  <2>2. client[c].run \in Runs /\ client[c].profile \in Profiles
    BY <1>1, TypeParts DEF Step, Sound, Cleaning, Executing
  <2>3. (IF next = "active" THEN "working" ELSE "closing") \in {"working", "closing"}
    OBVIOUS
  <2> QED BY <1>1, <2>1, <2>2, <2>3, StoreTyped DEF Step, Statuses
<1> QED BY <1>1, SetProfileTyped, IngestTyped, MarkUsedTyped, PlannedTyped, WriteStatusTyped,
           UseRunTyped, DeleteTyped DEF Writing

LEMMA TypeInitial == Init => TypeOK
<1> SUFFICES ASSUME Init PROVE TypeOK
  OBVIOUS
<1>1. Tables /\ client \in [Clients -> Client]
  BY IdleSound DEF Init, Tables, Sound, Absent
<1> QED BY <1>1, TypeParts, IdleSound DEF Init

LEMMA TypeInductive == TypeOK /\ [Next]_vars => TypeOK'
<1> SUFFICES ASSUME TypeOK, [Next]_vars PROVE TypeOK'
  OBVIOUS
<1>1. CASE \E k \in Keys : Forget(k)
  BY <1>1, KnowledgeTyped DEF Forget, TypeOK
<1>2. CASE Time
  BY <1>2 DEF Time, TypeOK
<1>3. CASE vars' = vars
  BY <1>3 DEF vars, TypeOK
<1>4. CASE Moves
  BY <1>1, <1>2, <1>4, CreateRunTyped, ApproveTyped, RejectTyped, ReadingTyped, WritingTyped DEF Moves
<1> QED BY <1>3, <1>4, NextMoves

(* Types: whoever executes a run has a run and a profile for it.           *)
THEOREM TypeCorrect == Spec => []TypeOK
BY TypeInitial, TypeInductive, PTL DEF Spec
-----------------------------------------------------------------------------
(* The rows, and what clients know of them.                                *)

RowsCoherent ==
  /\ \A r \in Present :
       /\ under[r] \in Profiles
       /\ row[r].profile \in {"unknown", under[r]}
       /\ row[r].plan => row[r].profile = under[r]
       /\ row[r].closed <= row[r].steps
       /\ row[r].rowid <= inserted
       /\ row[r].born <= now
  /\ \A r, s \in Present : row[r].rowid = row[s].rowid => r = s

Loading == {"row", "steps", "artifacts", "loaded"}

(* What a client that is as d knows of the run it works on; after the run  *)
(* has been deleted it knows nothing, and its id is not used again.        *)
Knows(c, d) ==
  LET r == d.run
  IN /\ d.pc = "created" => under[r] = Setting[c]
     /\ d.pc \in Planning => under[r] = d.profile
     /\ d.pc \in Loading \cup Executing \cup {"closing"} => under[r] # "none"
     /\ r \in Present =>
          /\ d.pc \in Planning => row[r].profile = under[r]
          /\ d.pc \in Executing => d.profile = under[r]
          /\ d.pc \in {"artifacts", "loaded"} /\ d.plan => row[r].profile = under[r]
          /\ d.pc = "loaded" /\ d.plan => d.profile = under[r]
          /\ d.pc \in Loading => d.closed <= row[r].steps
          /\ d.pc \in {"steps", "artifacts", "loaded"} => d.closed <= d.steps

StoreInv ==
  /\ TypeOK
  /\ NoOrphans
  /\ RowsCoherent
  /\ \A c \in Clients : Knows(c, client[c])

(* The ways in which a step may change the rows.                           *)
Continues(r, new) ==
  /\ new.rowid = row[r].rowid /\ new.born = row[r].born
  /\ new.steps >= row[r].steps /\ new.closed <= new.steps
  /\ new.profile \in {row[r].profile, under[r]}
  /\ new.plan => row[r].plan \/ row[r].profile = under[r]

Created ==
  \E r \in Runs :
    /\ under[r] = "none" /\ under'[r] \in Profiles
    /\ under' = [under EXCEPT ![r] = under'[r]]
    /\ row' = [row EXCEPT ![r] = [NoRow EXCEPT !.rowid = inserted + 1, !.born = now]]
    /\ inserted' = inserted + 1 /\ now' = now

Changed ==
  /\ \E r \in Present, new \in Row : row' = [row EXCEPT ![r] = new] /\ Continues(r, new)
  /\ UNCHANGED <<under, inserted, now>>

Deleted == \E c \in Clients : Delete(c)

Kept == UNCHANGED <<row, under, inserted>> /\ now' >= now

Effect == Created \/ Changed \/ Deleted \/ Kept

(* Runs are not created twice, and what is known of one stays true.        *)
Evolves ==
  \A r \in Runs : under[r] # "none" =>
    /\ under'[r] = under[r]
    /\ r \in Present' =>
         /\ r \in Present
         /\ row'[r].steps >= row[r].steps
         /\ row[r].profile = under[r] => row'[r].profile = under[r]

LEMMA EffectEvolves ==
  ASSUME TypeOK, TypeOK', RowsCoherent, Effect
  PROVE  Evolves
<1> USE DEF Evolves, Present
<1>1. \A r \in Runs : row[r] \in Row /\ row'[r] \in Row
  BY DEF TypeOK
<1>2. CASE Created
  BY <1>1, <1>2 DEF Created, TypeOK, Row
<1>3. CASE Changed
  <2>1. PICK r \in Present, new \in Row : row' = [row EXCEPT ![r] = new] /\ Continues(r, new)
    BY <1>3 DEF Changed
  <2> QED BY <1>1, <1>3, <2>1 DEF Changed, Continues, TypeOK, Row
<1>4. CASE Deleted
  BY <1>1, <1>4, IdleSound DEF Deleted, Delete, TypeOK, Row
<1>5. CASE Kept
  BY <1>1, <1>5 DEF Kept, Row
<1> QED BY <1>2, <1>3, <1>4, <1>5 DEF Effect

LEMMA EffectCoherent ==
  ASSUME TypeOK, TypeOK', RowsCoherent, NoOrphans, Effect
  PROVE  RowsCoherent' /\ NoOrphans'
<1> USE DEF RowsCoherent, NoOrphans, Present
<1>1. /\ \A r \in Runs : row[r] \in Row /\ row'[r] \in Row
      /\ row \in [Runs -> Row] /\ under \in [Runs -> Profiles \cup {"none"}]
      /\ inserted \in Nat /\ now \in Nat /\ now' \in Nat
  BY DEF TypeOK
<1>2. CASE Created
  <2>1. PICK r \in Runs :
          /\ under[r] = "none" /\ under'[r] \in Profiles
          /\ under' = [under EXCEPT ![r] = under'[r]]
          /\ row' = [row EXCEPT ![r] = [NoRow EXCEPT !.rowid = inserted + 1, !.born = now]]
          /\ inserted' = inserted + 1 /\ now' = now
    BY <1>2 DEF Created
  <2>2. /\ row'[r].rowid = inserted + 1 /\ row'[r].born = now /\ row'[r].steps = 0
        /\ row'[r].closed = 0 /\ row'[r].profile = "unknown" /\ row'[r].plan = FALSE
    BY <1>1, <2>1 DEF NoRow
  <2>3. \A s \in Runs \ {r} : row'[s] = row[s] /\ under'[s] = under[s]
    BY <1>1, <2>1
  <2>4. r \notin Present
    BY <2>1 DEF Profiles
  <2> QED BY <1>1, <2>1, <2>2, <2>3, <2>4 DEF Row
<1>3. CASE Changed
  <2>1. PICK r \in Present, new \in Row : row' = [row EXCEPT ![r] = new] /\ Continues(r, new)
    BY <1>3 DEF Changed
  <2>2. row'[r] = new /\ \A s \in Runs \ {r} : row'[s] = row[s]
    BY <1>1, <2>1
  <2>3. under' = under /\ inserted' = inserted /\ now' = now
    BY <1>3 DEF Changed
  <2> QED BY <1>1, <2>1, <2>2, <2>3 DEF Continues, Row
<1>4. CASE Deleted
  <2>1. PICK D \in SUBSET Runs : row' = [r \in Runs |-> IF r \in D THEN NoRow ELSE row[r]]
    BY <1>4 DEF Deleted, Delete, TypeOK, Client
  <2>2. \A r \in Runs : row'[r] = IF r \in D THEN NoRow ELSE row[r]
    BY <2>1
  <2>3. under' = under /\ inserted' = inserted /\ now' = now
    BY <1>4 DEF Deleted, Delete
  <2> QED BY <1>1, <2>2, <2>3, IdleSound
<1>5. CASE Kept
  BY <1>1, <1>5 DEF Kept, Row
<1> QED BY <1>2, <1>3, <1>4, <1>5 DEF Effect

(* What a client that does nothing knows stays true.                       *)
LEMMA KnowledgeStays ==
  ASSUME TypeOK, TypeOK', Evolves, NEW c \in Clients, NEW d, Sound(d), Knows(c, d)
  PROVE  Knows(c, d)'
<1>1. d.pc \in {"created", "closing"} \cup Planning \cup Loading \cup Executing => d.run \in Runs
  BY DEF Sound, Planning, Loading, Executing, Cleaning
<1>2. d.pc \in {"created", "closing"} \cup Planning \cup Loading \cup Executing => under[d.run] # "none"
  BY SettingAssumption DEF Knows, Sound, Profiles, Planning, Executing, Loading
<1>3. \A r \in Present' : row[r].steps \in Nat /\ row'[r].steps \in Nat
  BY DEF Present, TypeOK, Row
<1>4. d.closed \in Nat
  BY DEF Sound, Client
<1> QED BY <1>1, <1>2, <1>3, <1>4 DEF Knows, Evolves, Planning, Loading, Executing

LEMMA ReadingKnows ==
  ASSUME StoreInv, TypeOK', NEW c \in Clients, Reading(c)
  PROVE  Effect /\ Knows(c, client[c])'
<1> USE DEF Knows, Planning, Loading, Executing
<1>1. UNCHANGED <<now, inserted, row, knowledge, under, overtaken>>
  BY DEF Reading, ReadEntries, StepInPlace, BeginLoad, LoadRow, LoadSteps,
         LoadArtifacts, LoadProfile, BeginCleanup, SelectKept, SelectOld, Restart
<1>2. Effect
  BY <1>1 DEF Effect, Kept, StoreInv, TypeOK
<1> SUFFICES Knows(c, client[c])'
  BY <1>2
<1>3. /\ Knows(c, client[c]) /\ client[c] \in Client /\ client \in [Clients -> Client]
      /\ RowsCoherent /\ Sound(client[c]) /\ Present' = Present
  BY <1>1, TypeParts DEF StoreInv, TypeOK, Present
<1>4. CASE ReadEntries(c)
  BY <1>1, <1>3, <1>4 DEF ReadEntries, Become, Client
<1>5. CASE StepInPlace(c)
  BY <1>1, <1>3, <1>5 DEF StepInPlace, Become, Client
<1>6. CASE \E r \in Runs : BeginLoad(c, r)
  BY <1>1, <1>3, <1>6, IdleSound DEF BeginLoad, Become, Client, Sound
<1>7. CASE LoadRow(c)
  <2> DEFINE r == client[c].run
  <2>1. CASE r \in Present
    <3>1. client'[c] = [client[c] EXCEPT !.pc = "row", !.seen = row[r].status, !.closed = row[r].closed]
      BY <1>3, <1>7, <2>1 DEF LoadRow, Become
    <3>2. client'[c].pc = "row" /\ client'[c].run = r /\ client'[c].closed = row[r].closed
      BY <1>3, <3>1 DEF Client
    <3>3. under[r] # "none" /\ row[r].closed <= row[r].steps
      BY <1>3, <2>1 DEF RowsCoherent, Profiles
    <3> QED BY <1>1, <3>2, <3>3
  <2>2. CASE r \notin Present
    BY <1>3, <1>7, <2>2, IdleSound DEF LoadRow, Become
  <2> QED BY <2>1, <2>2
<1>8. CASE LoadSteps(c)
  BY <1>1, <1>3, <1>8 DEF LoadSteps, Become, Client
<1>9. CASE LoadArtifacts(c)
  BY <1>1, <1>3, <1>9 DEF LoadArtifacts, Become, Client, RowsCoherent
<1>10. CASE LoadProfile(c)
  BY <1>1, <1>3, <1>10 DEF LoadProfile, Become, Client
<1>11. CASE BeginCleanup(c)
  BY <1>1, <1>3, <1>11, IdleSound DEF BeginCleanup, Become, Client, Sound
<1>12. CASE SelectKept(c)
  BY <1>1, <1>3, <1>12 DEF SelectKept, Become, Client
<1>13. CASE SelectOld(c)
  BY <1>1, <1>3, <1>13 DEF SelectOld, Become, Client
<1>14. CASE Restart(c)
  BY <1>1, <1>3, <1>14, IdleSound DEF Restart, Become
<1> QED BY <1>2, <1>4, <1>5, <1>6, <1>7, <1>8, <1>9, <1>10, <1>11, <1>12, <1>13,
           <1>14 DEF Reading

LEMMA StoreKnows ==
  ASSUME StoreInv, NEW c \in Clients, NEW pc \in {"working", "closing"}, NEW status \in Statuses,
         Store(c, pc, status), client[c].pc \in Planning \cup Executing,
         UNCHANGED <<under, inserted, now>>
  PROVE  Effect /\ Knows(c, client[c])'
<1> DEFINE r == client[c].run
           new == [row[r] EXCEPT !.steps = row[r].steps + 1]
<1>1. /\ TypeOK /\ RowsCoherent /\ Knows(c, client[c]) /\ Sound(client[c]) /\ r \in Runs
      /\ client[c] \in Client /\ client \in [Clients -> Client]
      /\ row[r] \in Row /\ new \in Row /\ row \in [Runs -> Row]
  <2>1. TypeOK /\ Tables /\ Sound(client[c]) /\ RowsCoherent /\ Knows(c, client[c])
        /\ client \in [Clients -> Client]
    BY TypeParts DEF StoreInv
  <2>2. r \in Runs
    BY <2>1 DEF Sound, Planning, Executing, Cleaning
  <2> QED BY <2>1, <2>2, RowsTyped DEF Tables
<1>2. CASE References(r)
  <2>1. /\ row' = [row EXCEPT ![r] = new] /\ r \in Present
        /\ client'[c] = [client[c] EXCEPT !.pc = pc, !.seen = status]
    <3>1. row' = [row EXCEPT ![r] = new] /\ Become(c, [client[c] EXCEPT !.pc = pc, !.seen = status])
      BY <1>2 DEF Store
    <3> QED BY <1>1, <1>2, <3>1 DEF Become, References
  <2>2. Continues(r, new)
    BY <1>1, <2>1 DEF Continues, RowsCoherent, Row
  <2>3. row'[r].profile = row[r].profile /\ row'[r].rowid = row[r].rowid
    BY <1>1, <2>1 DEF Row
  <2>4. Knows(c, client[c])'
    BY <1>1, <2>1, <2>3, SettingAssumption DEF Knows, Planning, Loading, Executing, Client, RowsCoherent, Profiles
  <2> QED BY <1>1, <2>1, <2>2, <2>4 DEF Effect, Changed
<1>3. CASE ~References(r)
  <2>1. row' = row /\ client'[c] = Idle
    BY <1>1, <1>3 DEF Store, Become
  <2> QED BY <1>1, <2>1, IdleSound DEF Effect, Kept, TypeOK, Knows, Planning, Loading, Executing
<1> QED BY <1>2, <1>3

(* Most writes are an UPDATE of the client's run.                          *)
LEMMA UpdateEffect ==
  ASSUME StoreInv, NEW r \in Runs, NEW new \in Row,
         Update(r, new) \/ (row' = [row EXCEPT ![r] = new] /\ r \in Present),
         r \in Present => Continues(r, new), UNCHANGED <<under, inserted, now>>
  PROVE  Effect
<1>1. now \in Nat
  BY DEF StoreInv, TypeOK
<1> QED BY <1>1 DEF Update, Effect, Changed, Kept

LEMMA StatusEffect ==
  ASSUME StoreInv, NEW r \in Runs, NEW status \in Statuses, SetStatus(r, status),
         UNCHANGED <<under, inserted, now>>
  PROVE  Effect
<1> DEFINE new == [row[r] EXCEPT !.status = status, !.closed = row[r].steps]
<1>1. TypeOK /\ RowsCoherent /\ row[r] \in Row /\ new \in Row /\ Update(r, new)
  BY RowsTyped DEF StoreInv, SetStatus
<1>2. r \in Present => Continues(r, new)
  BY <1>1 DEF Continues, RowsCoherent, Row
<1> QED BY <1>1, <1>2, UpdateEffect

LEMMA WritingKnows ==
  ASSUME StoreInv, TypeOK', NEW c \in Clients, Writing(c)
  PROVE  Effect /\ Knows(c, client[c])'
<1> DEFINE r == client[c].run
<1> USE DEF Planning, Loading, Executing
<1>1. /\ TypeOK /\ RowsCoherent /\ Knows(c, client[c]) /\ Sound(client[c])
      /\ client[c] \in Client /\ client \in [Clients -> Client] /\ row \in [Runs -> Row]
      /\ now \in Nat /\ Setting[c] \in Profiles
  BY TypeParts, SettingAssumption DEF StoreInv, TypeOK, Profiles
<1>2. CASE SetProfile(c)
  <2>1. r \in Runs /\ under[r] = Setting[c] /\ row[r] \in Row
        /\ Update(r, [row[r] EXCEPT !.profile = Setting[c]])
        /\ [row[r] EXCEPT !.profile = Setting[c]] \in Row
    BY <1>1, <1>2, RowsTyped DEF SetProfile, Knows, Sound, Cleaning
  <2>2. r \in Present => Continues(r, [row[r] EXCEPT !.profile = Setting[c]])
    BY <1>1, <2>1 DEF Continues, RowsCoherent, Row
  <2>3. Effect
    BY <1>2, <2>1, <2>2, UpdateEffect DEF SetProfile
  <2>4. client'[c] = [client[c] EXCEPT !.pc = "ingesting", !.profile = Setting[c]]
        /\ under' = under
    BY <1>1, <1>2 DEF SetProfile, Become
  <2>5. r \in Present' => row'[r].profile = Setting[c]
    BY <1>1, <2>1 DEF Update, Present, Row
  <2>6. Knows(c, client[c])'
    BY <1>1, <2>1, <2>4, <2>5 DEF Knows, Client
  <2> QED BY <2>3, <2>6
<1>3. CASE Ingest(c)
  <2>1. CASE Head(client[c].items) = Bad
    BY <1>3, <2>1, StoreKnows DEF Ingest, Statuses
  <2>2. CASE Head(client[c].items) # Bad
    <3>1. row' = row /\ under' = under /\ inserted' = inserted /\ now' = now
          /\ client'[c] = [client[c] EXCEPT !.items = Tail(client[c].items)]
      BY <1>1, <1>3, <2>2 DEF Ingest, Become
    <3> QED BY <1>1, <1>3, <3>1 DEF Ingest, Effect, Kept, Knows, Client, Present
  <2> QED BY <2>1, <2>2
<1>4. CASE MarkUsed(c)
  <2>1. row' = row /\ under' = under /\ inserted' = inserted /\ now' = now
        /\ client'[c] = [client[c] EXCEPT !.pc = "planning", !.keys = {}]
    BY <1>1, <1>4 DEF MarkUsed, Become
  <2> QED BY <1>1, <1>4, <2>1 DEF MarkUsed, Effect, Kept, Knows, Client, Present
<1>5. CASE Planned(c)
  <2> DEFINE d == client[c]
  <2>1. /\ r \in Runs /\ client[c].pc = "planning" /\ UNCHANGED <<under, inserted, now>>
        /\ row[r] \in Row /\ [row[r] EXCEPT !.plan = TRUE] \in Row
        /\ [row[r] EXCEPT !.steps = row[r].steps + 1] \in Row
    BY <1>1, <1>5, RowsTyped DEF Planned, Sound, Cleaning
  <2>2. d \in Client /\ d.run = r /\ d.profile = client[c].profile
    BY <1>1 DEF Client
  <2>3. \/ /\ row' = [row EXCEPT ![r] = [row[r] EXCEPT !.plan = TRUE]] /\ r \in Present
           /\ client'[c] = [d EXCEPT !.pc = "working"]
        \/ /\ row' = [row EXCEPT ![r] = [row[r] EXCEPT !.steps = row[r].steps + 1]] /\ r \in Present
           /\ client'[c] = [d EXCEPT !.pc = "closing", !.seen = "failed"]
        \/ row' = row /\ client'[c] = Idle
    BY <1>1, <1>5 DEF Planned, Become, References
  <2> HIDE DEF d
  <2>4. ASSUME row' = [row EXCEPT ![r] = [row[r] EXCEPT !.plan = TRUE]], r \in Present,
               client'[c] = [d EXCEPT !.pc = "working"]
        PROVE  Effect /\ Knows(c, client[c])'
    <3>1. Continues(r, [row[r] EXCEPT !.plan = TRUE])
      BY <1>1, <2>1, <2>4 DEF Continues, RowsCoherent, Knows, Row
    <3>2. client'[c].pc = "working" /\ client'[c].run = r /\ client'[c].profile = client[c].profile
      BY <2>2, <2>4 DEF Client
    <3>3. Knows(c, client[c])'
      BY <1>1, <2>1, <3>2, SettingAssumption DEF Knows, Profiles, Sound
    <3> QED BY <2>1, <2>4, <3>1, <3>3, UpdateEffect
  <2>5. ASSUME row' = [row EXCEPT ![r] = [row[r] EXCEPT !.steps = row[r].steps + 1]], r \in Present,
               client'[c] = [d EXCEPT !.pc = "closing", !.seen = "failed"]
        PROVE  Effect /\ Knows(c, client[c])'
    <3>1. Continues(r, [row[r] EXCEPT !.steps = row[r].steps + 1])
      BY <1>1, <2>1, <2>5 DEF Continues, RowsCoherent, Row
    <3>2. client'[c].pc = "closing"
      BY <2>2, <2>5 DEF Client
    <3>3. client'[c].run = r /\ under'[r] # "none"
      BY <1>1, <2>1, <2>2, <2>5 DEF Client, Knows, Sound, Profiles
    <3>4. Knows(c, client[c])'
      BY <3>2, <3>3 DEF Knows
    <3> QED BY <2>1, <2>5, <3>1, <3>4, UpdateEffect
  <2>6. ASSUME row' = row, client'[c] = Idle
        PROVE  Effect /\ Knows(c, client[c])'
    BY <1>1, <2>1, <2>6, IdleSound DEF Effect, Kept, Knows
  <2> QED BY <2>3, <2>4, <2>5, <2>6
<1>6. CASE Step(c)
  <2>1. PICK next \in Statuses :
          Store(c, IF next = "active" THEN "working" ELSE "closing", next)
    BY <1>6 DEF Step
  <2>2. (IF next = "active" THEN "working" ELSE "closing") \in {"working", "closing"}
    OBVIOUS
  <2> QED BY <1>6, <2>1, <2>2, StoreKnows DEF Step, Statuses
<1>7. CASE WriteStatus(c)
  <2> DEFINE new == [row[r] EXCEPT !.status = client[c].seen, !.closed = row[r].steps]
  <2>1. r \in Runs /\ row[r] \in Row /\ new \in Row /\ Update(r, new)
    BY <1>1, <1>7, RowsTyped DEF WriteStatus, SetStatus, Sound, Cleaning, Client
  <2>2. Continues(r, new)
    BY <2>1, <1>1 DEF Continues, Row
  <2>3. client'[c] = Idle
    BY <1>1, <1>7 DEF WriteStatus, Become
  <2> QED BY <1>7, <2>1, <2>2, <2>3, UpdateEffect, IdleSound DEF WriteStatus, SetStatus, Knows
<1>8. CASE UseRun(c)
  <2> DEFINE d == [Idle EXCEPT !.run = r, !.profile = ProfileForRun(c)]
  <2>1. r \in Runs /\ client[c].pc = "loaded" /\ UNCHANGED <<under, inserted, now>>
    BY <1>1, <1>8 DEF UseRun, Sound, Cleaning
  <2>2. d \in Client /\ d.run = r /\ d.profile = ProfileForRun(c)
    BY <1>1, <2>1, IdleSound, ProfileForRunTyped DEF Sound, Client
  <2>3. /\ row' = row \/ \E status \in Statuses : SetStatus(r, status)
        /\ \/ client'[c] = Idle
           \/ client[c].plan /\ \E pc \in Executing : client'[c] = [d EXCEPT !.pc = pc]
    BY <1>1, <1>8 DEF UseRun, Become, Statuses
  <2> HIDE DEF d
  <2>4. Effect
    BY <1>1, <2>1, <2>3, StatusEffect DEF Effect, Kept
  <2>5. Present' \cap {r} \subseteq Present
    BY <1>1, <2>1, <2>3 DEF SetStatus, Update, Present
  <2>6. ASSUME client[c].plan, NEW pc \in Executing, client'[c] = [d EXCEPT !.pc = pc]
        PROVE  Knows(c, client[c])'
    <3>1. client'[c].run = r /\ client'[c].profile = ProfileForRun(c) /\ client'[c].pc = pc
      BY <2>2, <2>6 DEF Client
    <3>2. under'[r] # "none" /\ (r \in Present => ProfileForRun(c) = under[r])
      BY <1>1, <2>1, <2>6 DEF Knows, ProfileForRun, RowsCoherent
    <3> QED BY <2>1, <2>5, <3>1, <3>2 DEF Knows
  <2> QED BY <2>3, <2>4, <2>6, IdleSound DEF Knows
<1>9. CASE Delete(c)
  <2>1. client'[c] = Idle
    BY <1>1, <1>9 DEF Delete, Become
  <2> QED BY <1>9, <2>1, IdleSound DEF Effect, Deleted, Knows
<1> QED BY <1>2, <1>3, <1>4, <1>5, <1>6, <1>7, <1>8, <1>9 DEF Writing

LEMMA CreateRunKnows ==
  ASSUME StoreInv, TypeOK', NEW c \in Agents, NEW r \in Runs, CreateRun(c, r)
  PROVE  Effect /\ Knows(c, client[c])'
<1>1. /\ c \in Clients /\ Setting[c] \in Profiles
      /\ client \in [Clients -> Client] /\ under \in [Runs -> Profiles \cup {"none"}]
  BY SettingProfile DEF StoreInv, TypeOK
<1>2. PICK items : client'[c] = [Idle EXCEPT !.pc = "created", !.run = r, !.items = items]
  BY <1>1 DEF CreateRun, Become
<1>3. client'[c].pc = "created" /\ client'[c].run = r
  BY <1>2, IdleSound DEF Sound, Client
<1>4. under'[r] = Setting[c] /\ under' = [under EXCEPT ![r] = Setting[c]]
  BY <1>1 DEF CreateRun
<1>5. Effect
  BY <1>1, <1>4 DEF CreateRun, Effect, Created
<1> QED BY <1>3, <1>4, <1>5 DEF Knows, Planning, Loading, Executing

LEMMA ApproveKnows ==
  ASSUME StoreInv, TypeOK', NEW c \in Operators, NEW r \in Runs, Approve(c, r)
  PROVE  Effect /\ Knows(c, client[c])'
<1>1. c \in Clients /\ client \in [Clients -> Client]
  BY SettingProfile DEF StoreInv, TypeOK
<1>2. Effect
  BY StatusEffect DEF Approve, Statuses
<1>3. client'[c] = [Idle EXCEPT !.pc = "loading", !.run = r, !.purpose = "approval"]
  BY <1>1 DEF Approve, Become
<1>4. client'[c].pc = "loading"
  BY <1>3, IdleSound DEF Sound, Client
<1> QED BY <1>2, <1>4 DEF Knows, Planning, Loading, Executing

LEMMA RejectKnows ==
  ASSUME StoreInv, TypeOK', NEW c \in Operators, NEW r \in Runs, Reject(c, r)
  PROVE  Effect /\ client' = client /\ Knows(c, client[c])'
<1>1. c \in Clients /\ client' = client /\ TypeOK /\ RowsCoherent
  BY SettingProfile DEF Reject, StoreInv
<1>2. Effect
  BY StatusEffect DEF Reject, Statuses
<1>3. Knows(c, client[c]) /\ Sound(client[c])
  BY <1>1, TypeParts DEF StoreInv
<1>4. Knows(c, client[c])'
  <2>1. Evolves
    BY <1>1, <1>2, EffectEvolves
  <2> QED BY <1>1, <1>3, <2>1, KnowledgeStays DEF Knows
<1> QED BY <1>1, <1>2, <1>4

(* The clients that a step is not of stay as they are.                     *)
LEMMA OthersStay ==
  ASSUME StoreInv, TypeOK', Effect, NEW c \in Clients, Knows(c, client[c])',
         \A e \in Clients \ {c} : client'[e] = client[e]
  PROVE  StoreInv'
<1>1. TypeOK /\ RowsCoherent /\ NoOrphans
  BY DEF StoreInv
<1>2. Evolves
  BY <1>1, EffectEvolves
<1>3. ASSUME NEW e \in Clients \ {c} PROVE Knows(e, client[e])'
  <2>1. Knows(e, client[e]) /\ Sound(client[e])
    BY TypeParts DEF StoreInv
  <2> QED BY <1>1, <1>2, <2>1, KnowledgeStays DEF Knows
<1> QED BY <1>1, <1>3, EffectCoherent DEF StoreInv

LEMMA StoreInitial == Init => StoreInv
<1> SUFFICES ASSUME Init PROVE StoreInv
  OBVIOUS
<1>1. Present = {} /\ NoOrphans
  BY IdleSound DEF Init, Present, NoOrphans
<1>2. \A c \in Clients : Knows(c, client[c])
  BY <1>1, IdleSound DEF Init, Knows, Planning, Loading, Executing
<1> QED BY <1>1, <1>2, TypeInitial DEF StoreInv, RowsCoherent

(* Whose step it is, and that nobody else is affected.                     *)
LEMMA Moved ==
  ASSUME StoreInv, TypeOK', Moves
  PROVE  /\ Effect
         /\ \/ client' = client /\ UNCHANGED <<row, under>>
            \/ \E c \in Clients : /\ Knows(c, client[c])'
                                  /\ \A e \in Clients \ {c} : client'[e] = client[e]
<1>1. TypeOK /\ client \in [Clients -> Client] /\ now \in Nat
  BY DEF StoreInv, TypeOK
<1>2. \A c \in Clients : \A d : Become(c, d) => \A e \in Clients \ {c} : client'[e] = client[e]
  BY <1>1 DEF Become
<1>3. ASSUME NEW c \in Agents, NEW r \in Runs, CreateRun(c, r)
      PROVE  \A e \in Clients \ {c} : client'[e] = client[e]
  BY <1>2, <1>3, SettingProfile DEF CreateRun
<1>4. ASSUME NEW c \in Operators, NEW r \in Runs, Approve(c, r)
      PROVE  \A e \in Clients \ {c} : client'[e] = client[e]
  BY <1>2, <1>4, SettingProfile DEF Approve
<1>5. ASSUME NEW c \in Clients, Reading(c)
      PROVE  \A e \in Clients \ {c} : client'[e] = client[e]
  BY <1>2, <1>5 DEF Reading, ReadEntries, StepInPlace, BeginLoad, LoadRow,
         LoadSteps, LoadArtifacts, LoadProfile, BeginCleanup, SelectKept, SelectOld, Restart
<1>6. ASSUME NEW c \in Clients, Writing(c)
      PROVE  \A e \in Clients \ {c} : client'[e] = client[e]
  BY <1>2, <1>6 DEF Writing, SetProfile, Ingest, Store, MarkUsed, Planned, Step, WriteStatus,
         UseRun, Delete
<1>7. ASSUME NEW c \in Operators, NEW r \in Runs, Reject(c, r)
      PROVE  \A e \in Clients \ {c} : client'[e] = client[e]
  BY <1>7 DEF Reject
<1>8. ASSUME (\E k \in Keys : Forget(k)) \/ Time
      PROVE  client' = client /\ Effect /\ UNCHANGED <<row, under>>
  BY <1>1, <1>8 DEF Forget, Time, Effect, Kept
<1> QED BY <1>1, <1>3, <1>4, <1>5, <1>6, <1>8, <1>7, SettingProfile, CreateRunKnows, ApproveKnows, RejectKnows,
           ReadingKnows, WritingKnows DEF Moves

LEMMA StoreInductive == StoreInv /\ [Next]_vars => StoreInv'
<1> SUFFICES ASSUME StoreInv, [Next]_vars PROVE StoreInv'
  OBVIOUS
<1>1. TypeOK'
  BY TypeInductive DEF StoreInv
<1>2. CASE vars' = vars
  BY <1>1, <1>2 DEF vars, StoreInv, NoOrphans, RowsCoherent, Knows, Present
<1>3. CASE Moves
  <2>1. CASE client' = client /\ UNCHANGED <<row, under>>
    <3>1. \A c \in Clients : Knows(c, client[c])'
      BY <2>1 DEF StoreInv, Knows, Present
    <3> QED BY <1>1, <1>3, <3>1, Moved, EffectCoherent DEF StoreInv
  <2>2. CASE \E c \in Clients : /\ Knows(c, client[c])'
                                /\ \A e \in Clients \ {c} : client'[e] = client[e]
    BY <1>1, <1>3, <2>2, Moved, OthersStay
  <2> QED BY <1>1, <1>3, <2>1, <2>2, Moved
<1> QED BY <1>2, <1>3, NextMoves

LEMMA StoreCorrect == Spec => []StoreInv
BY StoreInitial, StoreInductive, PTL DEF Spec

(* Nothing refers to a run that is not there, whoever deletes and whoever  *)
(* still works on it.                                                      *)
THEOREM NoOrphansCorrect == Spec => []NoOrphans
<1>1. StoreInv => NoOrphans
  BY DEF StoreInv
<1> QED BY <1>1, StoreCorrect, PTL

(* A loaded run shows the records its status was written after.            *)
THEOREM ViewCoversStatusCorrect == Spec => []ViewCoversStatus
<1>1. StoreInv => ViewCoversStatus
  <2> SUFFICES ASSUME StoreInv, NEW c \in Clients, client[c].pc = "loaded",
                      client[c].run \in Present
               PROVE  client[c].steps >= client[c].closed
    BY DEF ViewCoversStatus
  <2>1. client[c].steps \in Nat /\ client[c].closed \in Nat
    BY DEF StoreInv, TypeOK, Client
  <2> QED BY <2>1 DEF StoreInv, Knows
<1> QED BY <1>1, StoreCorrect, PTL

(* Steps of a run are executed under the profile it was created under.     *)
THEOREM ProfileStableCorrect == Spec => []ProfileStable
<1>1. StoreInv => ProfileStable
  BY DEF StoreInv, Knows, ProfileStable, Executing
<1> QED BY <1>1, StoreCorrect, PTL
-----------------------------------------------------------------------------
(* Knowledge is upserted by one statement and counted by another.          *)

(* No use that was counted is lost, as long as the entry is not forgotten. *)
THEOREM UsesNeverLostCorrect == Spec => UsesNeverLost
<1> DEFINE Grown == \A k \in Keys : knowledge'[k] # Absent => knowledge'[k] >= knowledge[k]
<1>1. ASSUME TypeOK, [Next]_vars PROVE Grown
  <2>1. \A k \in Keys : knowledge[k] \in Int /\ knowledge[k] >= Absent
    BY <1>1 DEF TypeOK, Absent
  <2>2. \A k \in Keys : knowledge[k] >= knowledge[k]
    BY <2>1
  <2>3. CASE knowledge' = knowledge
    BY <2>2, <2>3
  <2>4. CASE \E key \in Keys : knowledge' = Remembered(key)
    BY <1>1, <2>1, <2>4 DEF Remembered, Absent, TypeOK
  <2>5. CASE \E keys : knowledge' = Marked(keys)
    BY <1>1, <2>1, <2>5 DEF Marked, Absent
  <2>6. CASE \E key \in Keys : knowledge' = [knowledge EXCEPT ![key] = Absent]
    BY <1>1, <2>1, <2>6 DEF TypeOK
  <2>7. ASSUME NEW c \in Clients, Ingest(c)
        PROVE  knowledge' = knowledge \/ \E key \in Keys : knowledge' = Remembered(key)
    <3>1. Head(client[c].items) \in Keys \cup {Bad}
      BY <1>1, <2>7 DEF Ingest, TypeOK, Client
    <3> QED BY <2>7, <3>1 DEF Ingest
  <2> QED BY <1>1, <2>3, <2>4, <2>5, <2>6, <2>7
      DEF Next, vars, CreateRun, BeginLoad, Approve, Reject, SetProfile, ReadEntries, MarkUsed,
          Planned, Step, StepInPlace, WriteStatus, LoadRow, LoadSteps, LoadArtifacts,
          LoadProfile, UseRun, BeginCleanup, SelectKept, SelectOld, Delete, Restart, Forget, Time
<1>2. TypeOK /\ [Next]_vars => [Grown]_vars
  BY <1>1
<1> QED BY <1>2, TypeCorrect, PTL DEF Spec, UsesNeverLost

-----------------------------------------------------------------------------
(***************************************************************************)
(* Retention: any number of clean-ups keeps the newest runs.               *)
(***************************************************************************)
Above(r) == {s \in Present : Newer(s, r)}

Least(k) == \A q \in Retentions : q.keep < 0 \/ k <= q.keep

(* What a clean-up that has come as far as d has decided does not touch    *)
(* the newest runs; nor will it, as time goes on and runs are added.       *)
Reserves(d) ==
  /\ d.pc = "deleting" => \A r \in d.doomed : under[r] # "none"
  /\ \A k \in Nat : Least(k) =>
       /\ d.pc = "keeping" => d.keep < 0 \/ k <= d.keep
       /\ d.pc = "selecting" =>
            \A r \in Present \ d.doomed : Old(r, d.old) => Cardinality(Above(r)) >= k
       /\ d.pc = "deleting" => \A r \in Present \cap d.doomed : Cardinality(Above(r)) >= k

RetentionInv == StoreInv /\ (overtaken \/ \A c \in Clients : Reserves(client[c]))

(* No run is added that a clean-up which is as d will take for an old one. *)
Overtakes(d) == d.pc = "selecting" /\ \E r \in Present' \ Present : row'[r].born <= d.old

LEMMA AboveFinite ==
  ASSUME NEW S \in SUBSET Runs, NEW T \in SUBSET S
  PROVE  Cardinality(T) \in Nat /\ Cardinality(S) \in Nat /\ Cardinality(T) <= Cardinality(S)
<1>1. IsFiniteSet(S)
  BY RunsAssumption, FS_Subset
<1> QED BY <1>1, FS_Subset, FS_CardinalityType

(* A set of numbers has a least one.                                       *)
LEMMA LeastNatural ==
  ASSUME NEW T \in SUBSET Nat, T # {}
  PROVE  \E x \in T : \A y \in T : x <= y
<1>1. PICK x \in T : \A y \in T : ~ (<<y, x>> \in OpToRel(<, Nat))
  BY NatLessThanWellFounded, WFMin
<1>2. ASSUME NEW y \in T PROVE x <= y
  <2>1. ~ (y < x)
    BY <1>1 DEF OpToRel
  <2> QED BY <2>1
<1> QED BY <1>2

(* If everything in D has k newer runs, then what has k newer runs still   *)
(* has as many without D: those above the newest of D are among them.      *)
LEMMA Survivors ==
  ASSUME TypeOK, RowsCoherent, NEW D \in SUBSET Runs, NEW k \in Nat,
         \A r \in Present \cap D : Cardinality(Above(r)) >= k,
         NEW r \in Present, Cardinality(Above(r)) >= k
  PROVE  Cardinality(Above(r) \ D) >= k
<1>1. /\ Above(r) \in SUBSET Runs /\ Above(r) \subseteq Present /\ Present \subseteq Runs
      /\ \A s \in Present : row[s].rowid \in Nat /\ inserted - row[s].rowid \in Nat
      /\ inserted \in Nat
  BY DEF Above, Present, TypeOK, RowsCoherent, Row
<1>2. CASE Above(r) \cap D = {}
  <2>1. Above(r) \ D = Above(r)
    BY <1>2
  <2> QED BY <2>1
<1>3. CASE Above(r) \cap D # {}
  <2> DEFINE T == {inserted - row[s].rowid : s \in Above(r) \cap D}
  <2>1. T \in SUBSET Nat /\ T # {}
    BY <1>1, <1>3
  <2>2. PICK x \in T : \A y \in T : x <= y
    <3> HIDE DEF T
    <3> QED BY <2>1, LeastNatural
  <2>3. PICK m \in Above(r) \cap D : x = inserted - row[m].rowid
    OBVIOUS
  <2>4. \A s \in Above(r) \cap D : inserted - row[m].rowid <= inserted - row[s].rowid
    BY <2>2, <2>3
  <2>5. \A s \in Above(r) \cap D : row[s].rowid <= row[m].rowid
    BY <1>1, <2>4
  <2>6. Above(m) \subseteq Above(r) \ D
    BY <1>1, <2>5 DEF Above, Newer
  <2>7. Cardinality(Above(m)) <= Cardinality(Above(r) \ D)
    BY <1>1, <2>6, AboveFinite
  <2>8. Cardinality(Above(m)) >= k
    BY <1>1, <2>3
  <2>9. Cardinality(Above(m)) \in Nat /\ Cardinality(Above(r) \ D) \in Nat
    BY <1>1, <2>6, AboveFinite
  <2> QED BY <2>7, <2>8, <2>9
<1> QED BY <1>2, <1>3

(* A step that deletes nothing keeps the runs, in their order, and adds a  *)
(* newer one at most.                                                      *)
LEMMA RunsStay ==
  ASSUME TypeOK, RowsCoherent, Created \/ Changed \/ Kept
  PROVE  /\ \A r \in Present : r \in Present' /\ Above(r) \subseteq Above(r)'
                              /\ row'[r].born = row[r].born
         /\ \A r \in Present' \ Present : under[r] = "none" /\ row'[r].born = now
         /\ now' >= now
<1> USE DEF Present, Above, Newer
<1>1. /\ row \in [Runs -> Row] /\ now \in Nat /\ inserted \in Nat
      /\ \A r \in Runs : row[r] \in Row /\ row[r].rowid \in Nat
  BY DEF TypeOK, Row
<1>2. CASE Created
  <2>1. PICK r \in Runs :
          /\ under[r] = "none"
          /\ row' = [row EXCEPT ![r] = [NoRow EXCEPT !.rowid = inserted + 1, !.born = now]]
          /\ now' = now
    BY <1>2 DEF Created
  <2>2. row'[r].rowid = inserted + 1 /\ row'[r].born = now
    <3>1. row'[r] = [NoRow EXCEPT !.rowid = inserted + 1, !.born = now]
      BY <1>1, <2>1
    <3> QED BY <3>1, IdleSound DEF Row
  <2>3. r \notin Present
    BY <2>1 DEF RowsCoherent, Profiles
  <2>4. \A s \in Runs \ {r} : row'[s] = row[s]
    BY <1>1, <2>1
  <2> QED BY <1>1, <2>1, <2>2, <2>3, <2>4
<1>3. CASE Changed
  <2>1. PICK r \in Present, new \in Row : row' = [row EXCEPT ![r] = new] /\ Continues(r, new)
    BY <1>3 DEF Changed
  <2>2. row'[r] = new /\ \A s \in Runs \ {r} : row'[s] = row[s]
    BY <1>1, <2>1
  <2>3. \A s \in Runs : row'[s].rowid = row[s].rowid /\ row'[s].born = row[s].born
    BY <2>1, <2>2 DEF Continues
  <2>4. now' >= now
    BY <1>1, <1>3 DEF Changed
  <2> QED BY <2>3, <2>4
<1>4. CASE Kept
  BY <1>4 DEF Kept
<1> QED BY <1>2, <1>3, <1>4

LEMMA ReservesStays ==
  ASSUME RetentionInv, ~overtaken, TypeOK', Effect, NEW d, Sound(d), Reserves(d), ~Overtakes(d)
  PROVE  Reserves(d)'
<1>1. /\ TypeOK /\ RowsCoherent /\ now \in Nat /\ now' \in Nat /\ d.old \in Int
      /\ d.doomed \in SUBSET Runs
  BY DEF RetentionInv, StoreInv, TypeOK, Sound, Client
<1>2. Evolves
  BY <1>1, EffectEvolves
<1>3. \A r \in Present : Above(r) \in SUBSET Runs /\ Above(r)' \in SUBSET Runs
  BY DEF Above, Present
<1>4. CASE Created \/ Changed \/ Kept
  <2>1. /\ \A r \in Present : r \in Present' /\ Above(r) \subseteq Above(r)'
                              /\ row'[r].born = row[r].born
        /\ \A r \in Present' \ Present : under[r] = "none" /\ row'[r].born = now
        /\ now' >= now
    BY <1>1, <1>4, RunsStay
  <2>2. \A r \in Present, k \in Nat : Cardinality(Above(r)) >= k => Cardinality(Above(r)') >= k
    <3>1. ASSUME NEW r \in Present, NEW k \in Nat, Cardinality(Above(r)) >= k
          PROVE  Cardinality(Above(r)') >= k
      <4>1. /\ Cardinality(Above(r)) \in Nat /\ Cardinality(Above(r)') \in Nat
            /\ Cardinality(Above(r)) <= Cardinality(Above(r)')
        BY <1>3, <2>1, AboveFinite
      <4> QED BY <3>1, <4>1
    <3> QED BY <3>1
  <2>3. d.pc = "deleting" => \A r \in d.doomed : under'[r] # "none"
    BY <1>1, <1>2 DEF Reserves, Evolves
  <2>4. ASSUME NEW r \in Present' \ Present, d.pc = "selecting" PROVE ~Old(r, d.old)'
    BY <2>4 DEF Overtakes, Old
  <2>5. ASSUME NEW r \in Present PROVE Old(r, d.old)' <=> Old(r, d.old)
    BY <2>1 DEF Old
  <2>6. d.pc = "deleting" => Present' \cap d.doomed \subseteq Present
    BY <1>1, <2>1 DEF Reserves
  <2>7. ASSUME NEW k \in Nat, Least(k), d.pc = "selecting",
               NEW r \in Present' \ d.doomed, Old(r, d.old)'
        PROVE  Cardinality(Above(r)') >= k
    BY <2>2, <2>4, <2>5, <2>7 DEF Reserves
  <2>8. ASSUME NEW k \in Nat, Least(k), d.pc = "deleting", NEW r \in Present' \cap d.doomed
        PROVE  Cardinality(Above(r)') >= k
    BY <2>2, <2>6, <2>8 DEF Reserves
  <2> QED BY <2>3, <2>7, <2>8 DEF Reserves, Least
<1>5. CASE Deleted
  <2>1. PICK c \in Clients : Delete(c)
    BY <1>5 DEF Deleted
  <2> DEFINE D == client[c].doomed
  <2>2. /\ D \in SUBSET Runs /\ client[c].pc = "deleting" /\ now' = now /\ under' = under
        /\ Reserves(client[c]) /\ row' = [r \in Runs |-> IF r \in D THEN NoRow ELSE row[r]]
    BY <1>1, <2>1 DEF Delete, TypeOK, Client, RetentionInv
  <2>3. Present' = Present \ D /\ \A r \in Present' : row'[r] = row[r]
    BY <2>2, IdleSound DEF Present
  <2>4. \A r \in Present' : Above(r)' = Above(r) \ D
    BY <2>3 DEF Above, Newer
  <2>5. ASSUME NEW r \in Present', NEW k \in Nat, Least(k), Cardinality(Above(r)) >= k
        PROVE  Cardinality(Above(r)') >= k
    <3>1. \A s \in Present \cap D : Cardinality(Above(s)) >= k
      BY <2>2, <2>5 DEF Reserves
    <3>2. Cardinality(Above(r) \ D) >= k
      BY <1>1, <2>2, <2>3, <2>5, <3>1, Survivors
    <3> QED BY <2>4, <3>2
  <2> HIDE DEF D
  <2> QED BY <2>2, <2>3, <2>5 DEF Reserves, Least, Old
<1> QED BY <1>4, <1>5 DEF Effect

(* What the client whose step it is has decided.                           *)
LEMMA ActorReserves ==
  ASSUME RetentionInv, ~overtaken, TypeOK', NEW c \in Clients,
         \/ Reading(c) \/ Writing(c)
         \/ \E r \in Runs : CreateRun(c, r) \/ Approve(c, r)
  PROVE  Reserves(client[c])'
<1>1. /\ TypeOK /\ RowsCoherent /\ client \in [Clients -> Client] /\ client[c] \in Client
      /\ now \in Nat /\ Reserves(client[c])
  BY DEF RetentionInv, StoreInv, TypeOK
<1>2. client'[c].pc \notin Cleaning => Reserves(client[c])'
  BY DEF Reserves, Cleaning
<1>3. CASE BeginCleanup(c)
  <2>1. PICK p \in Retentions :
          client'[c] = [Idle EXCEPT !.pc = "keeping", !.keep = p.keep, !.old = now - p.days]
    BY <1>1, <1>3 DEF BeginCleanup, Become
  <2>2. client'[c].pc = "keeping" /\ client'[c].keep = p.keep /\ client'[c].old = now - p.days
    BY <2>1, IdleSound DEF Sound, Client
  <2> QED BY <2>2 DEF Reserves, Least
<1>4. CASE SelectKept(c)
  <2>1. client'[c] = [client[c] EXCEPT !.pc = "selecting", !.doomed = Newest(client[c].keep)]
    BY <1>1, <1>4 DEF SelectKept, Become
  <2>2. /\ client'[c].pc = "selecting" /\ client'[c].doomed = Newest(client[c].keep)
        /\ client'[c].old = client[c].old /\ client[c].pc = "keeping" /\ client[c].keep \in Int
    BY <1>1, <1>4, <2>1 DEF SelectKept, Client
  <2>3. now' = now /\ row' = row
    BY <1>4 DEF SelectKept
  <2>4. ASSUME NEW k \in Nat, Least(k), NEW r \in Present' \ Newest(client[c].keep)
        PROVE  Cardinality(Above(r)') >= k
    <3>1. r \in Present /\ Above(r)' = Above(r)
      BY <2>3, <2>4 DEF Present, Above, Newer
    <3>2. ~ (client[c].keep < 0) /\ ~ (Cardinality(Above(r)) < client[c].keep)
      BY <2>4, <3>1 DEF Newest, Above
    <3>3. k <= client[c].keep
      BY <1>1, <2>2, <2>4, <3>2 DEF Reserves
    <3>4. Cardinality(Above(r)) \in Nat
      BY AboveFinite DEF Above, Present
    <3> QED BY <2>2, <3>1, <3>2, <3>4, <3>3
  <2> QED BY <1>1, <2>2, <2>3, <2>4 DEF Reserves, Least
<1>5. CASE SelectOld(c)
  <2> DEFINE gone == {r \in Present : Old(r, client[c].old)} \ client[c].doomed
  <2>1. client'[c] = [client[c] EXCEPT !.pc = "deleting", !.doomed = gone, !.old = 0, !.keep = 0]
    BY <1>1, <1>5 DEF SelectOld, Become
  <2>2. client'[c].pc = "deleting" /\ client'[c].doomed = gone /\ client[c].pc = "selecting"
    BY <1>1, <1>5, <2>1 DEF SelectOld, Client
  <2>3. now' = now /\ row' = row /\ under' = under
    BY <1>5 DEF SelectOld
  <2>4. \A r \in gone : under'[r] # "none"
    BY <1>1, <2>3 DEF RowsCoherent, Profiles
  <2>5. ASSUME NEW k \in Nat, Least(k), NEW r \in Present' \cap gone
        PROVE  Cardinality(Above(r)') >= k
    BY <1>1, <2>2, <2>3, <2>5 DEF Reserves, Present, Above, Newer
  <2> QED BY <2>2, <2>4, <2>5 DEF Reserves, Least
<1>6. CASE \E r \in Runs : CreateRun(c, r) \/ Approve(c, r)
  <2>1. CASE \E r \in Runs : CreateRun(c, r)
    <3>1. PICK r \in Runs : CreateRun(c, r)
      BY <2>1
    <3>2. PICK items \in Plans :
            client'[c] = [Idle EXCEPT !.pc = "created", !.run = r, !.items = items]
      BY <1>1, <3>1 DEF CreateRun, Become
    <3>3. client'[c].pc = "created"
      BY <3>2, IdleSound DEF Sound, Client
    <3> QED BY <1>2, <3>3 DEF Cleaning
  <2>2. CASE \E r \in Runs : Approve(c, r)
    <3>1. PICK r \in Runs : client'[c] = [Idle EXCEPT !.pc = "loading", !.run = r, !.purpose = "approval"]
      BY <1>1, <2>2 DEF Approve, Become
    <3>2. client'[c].pc = "loading"
      BY <3>1, IdleSound DEF Sound, Client
    <3> QED BY <1>2, <3>2 DEF Cleaning
  <2> QED BY <1>6, <2>1, <2>2
<1>7. CASE Reading(c) /\ ~BeginCleanup(c) /\ ~SelectKept(c) /\ ~SelectOld(c)
  <2> SUFFICES client'[c].pc \notin Cleaning
    BY <1>2
  <2> USE DEF Cleaning, Become
  <2>1. CASE ReadEntries(c)
    BY <1>1, <2>1 DEF ReadEntries, Client
  <2>2. CASE StepInPlace(c)
    BY <1>1, <2>2 DEF StepInPlace, Client
  <2>3. CASE \E r \in Runs : BeginLoad(c, r)
    <3>1. PICK r : client'[c] = [Idle EXCEPT !.pc = "loading", !.run = r, !.purpose = "load"]
      BY <1>1, <2>3 DEF BeginLoad
    <3> QED BY <3>1, IdleSound DEF Sound, Client
  <2>4. CASE LoadRow(c)
    <3>1. CASE client[c].run \in Present
      <4>1. client'[c] = [client[c] EXCEPT !.pc = "row", !.seen = row[client[c].run].status,
                                           !.closed = row[client[c].run].closed]
        BY <1>1, <2>4, <3>1 DEF LoadRow
      <4> QED BY <1>1, <4>1 DEF Client
    <3>2. CASE client[c].run \notin Present
      BY <1>1, <2>4, <3>2, IdleSound DEF LoadRow
    <3> QED BY <3>1, <3>2
  <2>5. CASE LoadSteps(c)
    BY <1>1, <2>5 DEF LoadSteps, Client
  <2>6. CASE LoadArtifacts(c)
    BY <1>1, <2>6 DEF LoadArtifacts, Client
  <2>7. CASE LoadProfile(c)
    BY <1>1, <2>7 DEF LoadProfile, Client
  <2>8. CASE Restart(c)
    BY <1>1, <2>8, IdleSound DEF Restart
  <2> QED BY <1>7, <2>1, <2>2, <2>3, <2>4, <2>5, <2>6, <2>7, <2>8 DEF Reading
<1>8. CASE Writing(c)
  <2> SUFFICES client'[c].pc \notin Cleaning
    BY <1>2
  <2> USE DEF Cleaning, Become
  <2>1. ASSUME NEW pc \in {"working", "closing"}, NEW status, Store(c, pc, status)
        PROVE  client'[c].pc \notin Cleaning
    <3>1. client'[c] = [client[c] EXCEPT !.pc = pc, !.seen = status] \/ client'[c] = Idle
      BY <1>1, <2>1 DEF Store
    <3> QED BY <1>1, <3>1, IdleSound DEF Client
  <2>2. CASE SetProfile(c)
    BY <1>1, <2>2 DEF SetProfile, Client
  <2>3. CASE Ingest(c)
    <3>1. CASE Head(client[c].items) = Bad
      BY <2>1, <2>3, <3>1 DEF Ingest
    <3>2. CASE Head(client[c].items) # Bad
      <4>1. client'[c] = [client[c] EXCEPT !.items = Tail(client[c].items)]
        BY <1>1, <2>3, <3>2 DEF Ingest
      <4> QED BY <1>1, <2>3, <4>1 DEF Ingest, Client
    <3> QED BY <3>1, <3>2
  <2>4. CASE MarkUsed(c)
    BY <1>1, <2>4 DEF MarkUsed, Client
  <2>5. CASE Planned(c)
    <3> DEFINE d == client[c]
    <3>1. client'[c] \in {Idle, [d EXCEPT !.pc = "working"], [d EXCEPT !.pc = "closing", !.seen = "failed"]}
      BY <1>1, <2>5 DEF Planned
    <3>2. d \in Client
      BY <1>1 DEF Client
    <3> HIDE DEF d
    <3> QED BY <3>1, <3>2, IdleSound DEF Client
  <2>6. CASE Step(c)
    <3>1. PICK next : Store(c, IF next = "active" THEN "working" ELSE "closing", next)
      BY <2>6 DEF Step
    <3>2. (IF next = "active" THEN "working" ELSE "closing") \in {"working", "closing"}
      OBVIOUS
    <3> QED BY <2>1, <3>1, <3>2
  <2>7. CASE WriteStatus(c) \/ Delete(c)
    BY <1>1, <2>7, IdleSound DEF WriteStatus, Delete
  <2>8. CASE UseRun(c)
    <3> DEFINE d == [Idle EXCEPT !.run = client[c].run, !.profile = ProfileForRun(c)]
    <3>1. DOMAIN d = DOMAIN Idle /\ "pc" \in DOMAIN Idle
      BY IdleSound DEF Sound, Client
    <3>2. client'[c] = Idle \/ \E pc \in Executing : client'[c] = [d EXCEPT !.pc = pc]
      BY <1>1, <2>8 DEF UseRun, Executing
    <3> HIDE DEF d
    <3> QED BY <3>1, <3>2, IdleSound DEF Executing
  <2> QED BY <1>8, <2>2, <2>3, <2>4, <2>5, <2>6, <2>7, <2>8 DEF Writing
<1> QED BY <1>3, <1>4, <1>5, <1>6, <1>7, <1>8

LEMMA RetentionInitial == Init => RetentionInv
<1> SUFFICES ASSUME Init PROVE RetentionInv
  OBVIOUS
<1>1. \A c \in Clients : client[c].pc = "idle"
  BY IdleSound DEF Init
<1> QED BY <1>1, StoreInitial DEF RetentionInv, Reserves

(* Whoever overtakes a clean-up is noted.                                  *)
LEMMA OvertakingNoted ==
  ASSUME RetentionInv, Moves, TypeOK', StoreInv', NEW e \in Clients, Overtakes(client[e])
  PROVE  overtaken'
<1>1. TypeOK /\ RowsCoherent /\ StoreInv /\ Effect /\ RowsCoherent'
  BY Moved DEF RetentionInv, StoreInv
<1>2. PICK r \in Present' \ Present : client[e].pc = "selecting" /\ row'[r].born <= client[e].old
  BY DEF Overtakes
<1>3. ~Deleted
  BY <1>2, IdleSound DEF Deleted, Delete, Present
<1>4. under[r] = "none" /\ row'[r].born = now
  BY <1>1, <1>2, <1>3, RunsStay DEF Effect
<1>5. under' # under
  BY <1>1, <1>2, <1>4 DEF RowsCoherent, Profiles
<1>6. \E c \in Agents, s \in Runs : CreateRun(c, s)
  BY <1>5 DEF Moves, Approve, Reject, Forget, Time, Reading, ReadEntries, StepInPlace, BeginLoad,
              LoadRow, LoadSteps, LoadArtifacts, LoadProfile, BeginCleanup, SelectKept, SelectOld,
              Restart, Writing, SetProfile, Ingest, MarkUsed, Planned, Step, WriteStatus, UseRun,
              Delete
<1> QED BY <1>2, <1>4, <1>6 DEF CreateRun

LEMMA RetentionInductive == RetentionInv /\ [Next]_vars => RetentionInv'
<1> SUFFICES ASSUME RetentionInv, [Next]_vars, ~overtaken' PROVE RetentionInv'
  BY StoreInductive DEF RetentionInv
<1>1. StoreInv /\ StoreInv' /\ TypeOK' /\ overtaken \in BOOLEAN
  BY StoreInductive, TypeInductive DEF RetentionInv, StoreInv, TypeOK
<1>2. ~overtaken /\ \A c \in Clients : Reserves(client[c])
  <2>1. ~overtaken
    BY <1>1 DEF Next, vars, CreateRun, BeginLoad, Approve, Reject, SetProfile, Ingest, ReadEntries,
                MarkUsed, Planned, Step, StepInPlace, WriteStatus, LoadRow, LoadSteps,
                LoadArtifacts, LoadProfile, UseRun, BeginCleanup, SelectKept, SelectOld, Delete,
                Restart, Forget, Time
  <2> QED BY <2>1 DEF RetentionInv
<1>3. CASE vars' = vars
  BY <1>1, <1>2, <1>3 DEF vars, RetentionInv, Reserves, Present, Above, Newer, Old, Least
<1>4. CASE Moves
  <2>1. Effect /\ \A c \in Clients : Sound(client[c])
    BY <1>1, <1>4, Moved, TypeParts DEF StoreInv
  <2>2. ASSUME NEW e \in Clients, client'[e] = client[e] PROVE Reserves(client[e])'
    <3> DEFINE d == client[e]
    <3>1. Sound(d) /\ Reserves(d) /\ ~Overtakes(d)
      BY <1>1, <1>2, <1>4, <2>1, OvertakingNoted
    <3> QED BY <1>1, <1>2, <2>1, <2>2, <3>1, ReservesStays
            DEF Reserves, Overtakes, Present, Above, Newer, Old, Least
  <2>3. CASE client' = client
    BY <1>1, <2>2, <2>3 DEF RetentionInv
  <2>4. ASSUME NEW c \in Clients, \A e \in Clients \ {c} : client'[e] = client[e],
               Reserves(client[c])'
        PROVE  RetentionInv'
    BY <1>1, <2>2, <2>4 DEF RetentionInv
  <2>5. CASE \/ (\E k \in Keys : Forget(k)) \/ Time
             \/ \E c \in Operators, r \in Runs : Reject(c, r)
    BY <2>3, <2>5 DEF Forget, Time, Reject
  <2>6. ASSUME NEW c \in Clients,
               \/ Reading(c) \/ Writing(c)
               \/ \E r \in Runs : CreateRun(c, r) \/ Approve(c, r)
        PROVE  RetentionInv'
    <3>1. Reserves(client[c])'
      BY <1>1, <1>2, <2>6, ActorReserves
    <3>2. \A e \in Clients \ {c} : client'[e] = client[e]
      <4>1. \A d : Become(c, d) => \A e \in Clients \ {c} : client'[e] = client[e]
        BY <1>1 DEF Become, StoreInv, TypeOK
      <4> QED BY <2>6, <4>1
          DEF Reading, ReadEntries, StepInPlace, BeginLoad, LoadRow, LoadSteps,
              LoadArtifacts, LoadProfile, BeginCleanup, SelectKept, SelectOld, Restart, Writing,
              SetProfile, Ingest, Store, MarkUsed, Planned, Step, WriteStatus, UseRun, Delete,
              CreateRun, Approve
    <3> QED BY <2>4, <3>1, <3>2
  <2> QED BY <1>4, <2>5, <2>6, SettingProfile DEF Moves
<1> QED BY <1>3, <1>4, NextMoves

(* However many clean-ups overlap, a run is only deleted if as many newer  *)
(* ones as the smallest number to keep stay; for clean-ups of any age, as  *)
(* long as no run has overtaken one of them.                               *)
THEOREM NewestKeptCorrect == Spec => NewestKept
<1> DEFINE Kept1 ==
      overtaken \/
      \A r \in Present, p \in Retentions :
        (\A q \in Retentions : q.keep < 0 \/ p.keep <= q.keep) /\ r \notin Present'
            => Cardinality({s \in Present' : row'[s].rowid > row[r].rowid}) >= p.keep
<1>1. ASSUME RetentionInv, [Next]_vars PROVE Kept1
  <2> SUFFICES ASSUME ~overtaken, NEW r \in Present, NEW p \in Retentions, Least(p.keep),
                      r \notin Present'
               PROVE  Cardinality({s \in Present' : row'[s].rowid > row[r].rowid}) >= p.keep
    BY DEF Least
  <2>1. /\ TypeOK /\ RowsCoherent /\ StoreInv /\ TypeOK' /\ p.keep \in Int
        /\ \A c \in Clients : Reserves(client[c])
    BY <1>1, TypeInductive, RetentionsAssumption DEF RetentionInv, StoreInv
  <2>2. Moves
    BY <1>1, NextMoves DEF vars, Present
  <2>3. Deleted
    BY <2>1, <2>2, Moved, RunsStay DEF Effect
  <2>4. PICK c \in Clients : Delete(c)
    BY <2>3 DEF Deleted
  <2> DEFINE D == client[c].doomed
  <2>5. /\ D \in SUBSET Runs /\ client[c].pc = "deleting"
        /\ row' = [s \in Runs |-> IF s \in D THEN NoRow ELSE row[s]]
    BY <2>1, <2>4 DEF Delete, TypeOK, Client
  <2>6. Present' = Present \ D /\ \A s \in Present' : row'[s] = row[s]
    BY <2>5, IdleSound DEF Present
  <2>7. {s \in Present' : row'[s].rowid > row[r].rowid} = Above(r) \ D
    BY <2>6 DEF Above, Newer
  <2>8. Cardinality(Above(r) \ D) \in Nat
    BY <2>5, AboveFinite DEF Above, Present
  <2>9. CASE p.keep \in Nat
    <3>1. \A s \in Present \cap D : Cardinality(Above(s)) >= p.keep
      BY <2>1, <2>5, <2>9 DEF Reserves
    <3>2. r \in D
      BY <2>5 DEF Present
    <3>3. Cardinality(Above(r) \ D) >= p.keep
      <4> HIDE DEF D
      <4> QED BY <2>1, <2>5, <2>9, <3>1, <3>2, Survivors
    <3> QED BY <2>7, <3>3
  <2> QED BY <2>1, <2>7, <2>8, <2>9
<1>2. RetentionInv /\ [Next]_vars => [Kept1]_vars
  BY <1>1
<1>3. Spec => []RetentionInv
  BY RetentionInitial, RetentionInductive, PTL DEF Spec
<1> QED BY <1>2, <1>3, PTL DEF Spec, NewestKept
=============================================================================
