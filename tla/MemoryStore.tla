----------------------------- MODULE MemoryStore -----------------------------
(***************************************************************************)
(* The memory store: the runs with their records and artifacts, retention, *)
(* and the knowledge about the project, in one SQLite file.  The store has *)
(* no lock of its own: every call is one transaction or several, and the   *)
(* processes that share the file (API, worker, bot, command line) come     *)
(* between any two of them.                                                *)
(*                                                                         *)
(* A client is one flow of calls in one process: the agent that executes a *)
(* run, an operator's call that loads, continues or approves one, or a     *)
(* retention.                                                              *)
(***************************************************************************)
EXTENDS Integers, FiniteSetsExt, Sequences

CONSTANTS
    Runs,         \* run ids that may be drawn
    Clients,
    Agents,       \* the clients that execute tasks ...
    Operators,    \* ... and those that load, resume and approve runs
    Setting,      \* the execution profile each client's process is configured with
    Keys,         \* keys of project knowledge
    Plans,        \* what the context of a task may carry: sequences of keys and Bad
    Bad,          \* an item that remember refuses
    Retentions,   \* parameters of a clean-up: [days, keep]
    MaxSteps,     \* bound: records of one run
    MaxTime       \* bound: days

ASSUME RunsAssumption == IsFiniteSet(Runs)
ASSUME ClientsAssumption == Agents \cup Operators \subseteq Clients
ASSUME SettingAssumption == \A c \in Clients : Setting[c] \in {"safe", "dev", "owner"}
ASSUME PlansAssumption == Plans \subseteq Seq(Keys \cup {Bad}) /\ Bad \notin Keys
(* The settings refuse less than a day; the command line passes any number *)
(* on.                                                                     *)
ASSUME RetentionsAssumption == Retentions \subseteq [days : Int, keep : Int]
ASSUME BoundsAssumption == MaxSteps \in Nat /\ MaxTime \in Nat

VARIABLES
    now,          \* the day
    inserted,     \* the last rowid given to a run
    row,          \* tables runs, steps and artifacts; rowid 0: no such run
    knowledge,    \* table project_knowledge: use_count, or Absent
    client,       \* where each client is and what it has read
    under,        \* history: the profile a run was created under
    overtaken     \* history: a clean-up took a run for an old one that was
                  \* created after it had selected the runs to keep

vars == <<now, inserted, row, knowledge, client, under, overtaken>>

Absent == -1

Profiles == {"safe", "dev", "owner"}

(* What may be done with a run depends on whether it failed, and nothing   *)
(* else: "active" is running, resuming_after_approval and                  *)
(* resuming_failed_run; "settled" is completed, rejected,                  *)
(* awaiting_approval and approved_waiting_manual_resume.                   *)
Statuses == {"active", "failed", "settled"}

(* closed is history: the records there were when the status was written.  *)
NoRow == [rowid |-> 0, born |-> 0, status |-> "active", profile |-> "unknown",
          steps |-> 0, plan |-> FALSE, closed |-> 0]

(* A client works on run under profile; seen, closed, steps and plan are   *)
(* what it has read of the run; items and keys the knowledge it still has  *)
(* to remember and to mark; old, keep and doomed the decision of a         *)
(* clean-up.                                                               *)
Idle == [pc |-> "idle", run |-> 0, profile |-> "none", purpose |-> "none",
         seen |-> "active", closed |-> 0, steps |-> 0, plan |-> FALSE,
         items |-> <<>>, keys |-> {},
         old |-> 0, keep |-> 0, doomed |-> {}]
-----------------------------------------------------------------------------
Present == {r \in Runs : row[r].rowid > 0}

(* ORDER BY created_at DESC: the clock does not go back and the index      *)
(* breaks ties by rowid.                                                   *)
Newer(r, s) == row[r].rowid > row[s].rowid

(* Slip: ORDER BY created_at, without DESC.                                *)
OldestRuns(limit) ==
    {r \in Present : limit < 0 \/ Cardinality({s \in Present : Newer(r, s)}) < limit}

(* A negative LIMIT is none.                                               *)
Newest(limit) ==
    {r \in Present : limit < 0 \/ Cardinality({s \in Present : Newer(s, r)}) < limit}

(* created_at is '2026-01-31 10:00:00' and the cutoff '2026-01-30T10:00...'*)
(* compared as strings: within the day of the cutoff, all runs are older.  *)
Old(r, cutoff) == row[r].born <= cutoff

(* A foreign key: a record or an artifact needs its run.                   *)
(* Slip: foreign_keys is a setting of a connection, and off by default.    *)
ReferencesUnchecked(r) == TRUE

References(r) == r \in Present

Update(r, new) == row' = IF r \in Present THEN [row EXCEPT ![r] = new] ELSE row

(* update_run_status: an UPDATE, which may find no row.                    *)
SetStatus(r, status) == Update(r, [row[r] EXCEPT !.status = status, !.closed = row[r].steps])

Become(c, new) == client' = [client EXCEPT ![c] = new]
-----------------------------------------------------------------------------
(* Knowledge (ProjectContextV2).                                           *)

(* Slip: the upsert replaces the entry, its count too.                     *)
RememberedAfresh(k) == [knowledge EXCEPT ![k] = 0]

Remembered(k) == [knowledge EXCEPT ![k] = IF @ = Absent THEN 0 ELSE @]

Entries == {k \in Keys : knowledge[k] # Absent}

(* One UPDATE: entries that were forgotten since they were read are not.   *)
Marked(keys) ==
    [k \in Keys |-> IF k \in keys /\ knowledge[k] # Absent THEN knowledge[k] + 1 ELSE knowledge[k]]
-----------------------------------------------------------------------------
Init ==
    /\ now = 0
    /\ inserted = 0
    /\ row = [r \in Runs |-> NoRow]
    /\ knowledge = [k \in Keys |-> Absent]
    /\ client = [c \in Clients |-> Idle]
    /\ under = [r \in Runs |-> "none"]
    /\ overtaken = FALSE

(* MemoryStore.create_run: the row is inserted, and given its profile in a *)
(* second transaction.                                                     *)
CreateRun(c, r) ==
    /\ client[c].pc = "idle" /\ under[r] = "none"
    /\ inserted' = inserted + 1
    /\ row' = [row EXCEPT ![r] = [NoRow EXCEPT !.rowid = inserted + 1, !.born = now]]
    /\ under' = [under EXCEPT ![r] = Setting[c]]
    /\ overtaken' = (overtaken \/ \E d \in Clients : /\ client[d].pc = "selecting"
                                                   /\ now <= client[d].old)
    /\ \E items \in Plans :
        Become(c, [Idle EXCEPT !.pc = "created", !.run = r, !.items = items])
    /\ UNCHANGED <<now, knowledge>>

SetProfile(c) ==
    /\ client[c].pc = "created"
    /\ Update(client[c].run, [row[client[c].run] EXCEPT !.profile = Setting[c]])
    /\ Become(c, [client[c] EXCEPT !.pc = "ingesting", !.profile = Setting[c]])
    /\ UNCHANGED <<now, inserted, knowledge, under, overtaken>>

(* An INSERT into steps, after which the client goes on at pc and, if the  *)
(* run has ended or pauses, writes that status; without the run it raises, *)
(* and so does whatever the handler of the exception tries to store.       *)
Store(c, pc, status) ==
    LET r == client[c].run
    IN IF References(r)
       THEN /\ row' = [row EXCEPT ![r].steps = @ + 1]
            /\ Become(c, [client[c] EXCEPT !.pc = pc, !.seen = status])
       ELSE /\ Become(c, Idle)
            /\ UNCHANGED row

(* ingest_context: a transaction for each item.  What came before a bad    *)
(* item stays remembered.                                                  *)
Ingest(c) ==
    /\ client[c].pc = "ingesting" /\ client[c].items # <<>>
    /\ LET item == Head(client[c].items)
       IN IF item = Bad
          THEN Store(c, "closing", "failed") /\ UNCHANGED knowledge
          ELSE /\ knowledge' = Remembered(item)
               /\ Become(c, [client[c] EXCEPT !.items = Tail(@)])
               /\ UNCHANGED row
    /\ UNCHANGED <<now, inserted, under, overtaken>>

(* ProjectContextV2.build reads every entry and marks those it has chosen; *)
(* what else the planner is told of is only read.                          *)
ReadEntries(c) ==
    /\ client[c].pc = "ingesting" /\ client[c].items = <<>>
    /\ Become(c, [client[c] EXCEPT !.pc = "marking", !.keys = Entries])
    /\ UNCHANGED <<now, inserted, row, knowledge, under, overtaken>>

MarkUsed(c) ==
    /\ client[c].pc = "marking"
    /\ knowledge' = Marked(client[c].keys)
    /\ Become(c, [client[c] EXCEPT !.pc = "planning", !.keys = {}])
    /\ UNCHANGED <<now, inserted, row, under, overtaken>>

(* The planner answers: the plan is stored, or the failure.                *)
Planned(c) ==
    /\ client[c].pc = "planning"
    /\ LET r == client[c].run
       IN \/ /\ References(r)
             /\ row' = [row EXCEPT ![r].plan = TRUE]
             /\ Become(c, [client[c] EXCEPT !.pc = "working"])
          \/ /\ References(r)
             /\ row' = [row EXCEPT ![r].steps = @ + 1]
             /\ Become(c, [client[c] EXCEPT !.pc = "closing", !.seen = "failed"])
          \/ /\ ~References(r)
             /\ Become(c, Idle)
             /\ UNCHANGED row
    /\ UNCHANGED <<now, inserted, knowledge, under, overtaken>>

(* A step has been executed and is stored: the next one follows, or it was *)
(* the last, it failed or it waits for an approval.                        *)
Step(c) ==
    /\ client[c].pc = "working"
    /\ row[client[c].run].steps < MaxSteps
    /\ \E next \in Statuses :
        Store(c, IF next = "active" THEN "working" ELSE "closing", next)
    /\ UNCHANGED <<now, inserted, knowledge, under, overtaken>>

(* The step that was approved is updated in place, if it is still there.   *)
StepInPlace(c) ==
    /\ client[c].pc = "approved"
    /\ \E next \in Statuses :
        Become(c, [client[c] EXCEPT !.pc = IF next = "active" THEN "working" ELSE "closing",
                                    !.seen = next])
    /\ UNCHANGED <<now, inserted, row, knowledge, under, overtaken>>

WriteStatus(c) ==
    /\ client[c].pc = "closing"
    /\ SetStatus(client[c].run, client[c].seen)
    /\ Become(c, Idle)
    /\ UNCHANGED <<now, inserted, knowledge, under, overtaken>>
-----------------------------------------------------------------------------
(* Loading a run: a transaction for the row, one for each of the tables    *)
(* that refer to it, and one more for the profile.                         *)

BeginLoad(c, r) ==
    /\ client[c].pc = "idle"
    /\ Become(c, [Idle EXCEPT !.pc = "loading", !.run = r, !.purpose = "load"])
    /\ UNCHANGED <<now, inserted, row, knowledge, under, overtaken>>

(* A decision is stored, which needs the run, and the run marked.  One of  *)
(* the two pairs of endpoints asks for a pending step before; the other,   *)
(* approve_step and reject_step, for nothing: the run may be in any state, *)
(* also one that is being planned.                                         *)
Reject(c, r) ==
    /\ client[c].pc = "idle" /\ References(r)
    /\ SetStatus(r, "settled")
    /\ UNCHANGED <<now, inserted, knowledge, client, under, overtaken>>

(* After an approval the run is loaded.                                    *)
Approve(c, r) ==
    /\ client[c].pc = "idle" /\ References(r)
    /\ SetStatus(r, "active")
    /\ Become(c, [Idle EXCEPT !.pc = "loading", !.run = r, !.purpose = "approval"])
    /\ UNCHANGED <<now, inserted, knowledge, under, overtaken>>

LoadRow(c) ==
    /\ client[c].pc = "loading"
    /\ LET r == client[c].run
       IN IF r \in Present
          THEN Become(c, [client[c] EXCEPT !.pc = "row", !.seen = row[r].status,
                                           !.closed = row[r].closed])
          ELSE Become(c, Idle)
    /\ UNCHANGED <<now, inserted, row, knowledge, under, overtaken>>

LoadSteps(c) ==
    /\ client[c].pc = "row"
    /\ Become(c, [client[c] EXCEPT !.pc = "steps", !.steps = row[client[c].run].steps])
    /\ UNCHANGED <<now, inserted, row, knowledge, under, overtaken>>

LoadArtifacts(c) ==
    /\ client[c].pc = "steps"
    /\ Become(c, [client[c] EXCEPT !.pc = "artifacts", !.plan = row[client[c].run].plan])
    /\ UNCHANGED <<now, inserted, row, knowledge, under, overtaken>>

(* Slip: the status is read again with the profile.                        *)
LoadProfileAndStatus(c) ==
    /\ client[c].pc = "artifacts"
    /\ LET r == client[c].run
       IN Become(c, [client[c] EXCEPT !.pc = "loaded", !.profile = row[r].profile,
                                      !.seen = row[r].status, !.closed = row[r].closed])
    /\ UNCHANGED <<now, inserted, row, knowledge, under, overtaken>>

LoadProfile(c) ==
    /\ client[c].pc = "artifacts"
    /\ Become(c, [client[c] EXCEPT !.pc = "loaded", !.profile = row[client[c].run].profile])
    /\ UNCHANGED <<now, inserted, row, knowledge, under, overtaken>>

(* Agent._profile_for_run: a run of no known profile gets the process's.   *)
(* Slip: the setting of the process that continues the run.                *)
ProfileOfProcess(c) == Setting[c]

(* Slip: what was loaded, whatever it is.                                  *)
ProfileAsLoaded(c) == client[c].profile

ProfileForRun(c) == IF client[c].profile \in Profiles THEN client[c].profile ELSE Setting[c]

(* What the run was loaded for: to be shown, to be resumed after a failure *)
(* (with an artifact that marks the boundary) or to be continued, which    *)
(* needs a plan with the approved step; that step's record is updated in   *)
(* place, or a new one inserted.                                           *)
UseRun(c) ==
    /\ client[c].pc = "loaded"
    /\ LET r == client[c].run
           d == [Idle EXCEPT !.run = r, !.profile = ProfileForRun(c)]
       IN \/ /\ client[c].purpose = "load"
             /\ Become(c, Idle)
             /\ UNCHANGED row
          \/ /\ client[c].purpose = "load" /\ client[c].plan
             /\ client[c].seen = "failed" /\ References(r)
             /\ SetStatus(r, "active")
             /\ Become(c, [d EXCEPT !.pc = "working"])
          \/ /\ client[c].purpose = "approval"
             /\ SetStatus(r, "settled")
             /\ Become(c, Idle)
          \/ /\ client[c].purpose = "approval" /\ client[c].plan
             /\ \E pc \in {"approved", "working"} : Become(c, [d EXCEPT !.pc = pc])
             /\ UNCHANGED row
    /\ UNCHANGED <<now, inserted, knowledge, under, overtaken>>
-----------------------------------------------------------------------------
(* cleanup_retention: two SELECTs, then one transaction of DELETEs.        *)

BeginCleanup(c) ==
    /\ client[c].pc = "idle"
    /\ \E p \in Retentions :
        Become(c, [Idle EXCEPT !.pc = "keeping", !.keep = p.keep, !.old = now - p.days])
    /\ UNCHANGED <<now, inserted, row, knowledge, under, overtaken>>

SelectKept(c) ==
    /\ client[c].pc = "keeping"
    /\ Become(c, [client[c] EXCEPT !.pc = "selecting", !.doomed = Newest(client[c].keep)])
    /\ UNCHANGED <<now, inserted, row, knowledge, under, overtaken>>

SelectOld(c) ==
    /\ client[c].pc = "selecting"
    /\ Become(c, [client[c] EXCEPT !.pc = "deleting",
                    !.doomed = {r \in Present : Old(r, client[c].old)} \ @,
                    !.old = 0, !.keep = 0])
    /\ UNCHANGED <<now, inserted, row, knowledge, under, overtaken>>

Delete(c) ==
    /\ client[c].pc = "deleting"
    /\ row' = [r \in Runs |-> IF r \in client[c].doomed THEN NoRow ELSE row[r]]
    /\ Become(c, Idle)
    /\ UNCHANGED <<now, inserted, knowledge, under, overtaken>>

Forget(k) ==
    /\ knowledge' = [knowledge EXCEPT ![k] = Absent]
    /\ UNCHANGED <<now, inserted, row, client, under, overtaken>>

(* A process ends wherever it is, and is started again.                    *)
Restart(c) ==
    /\ client[c] # Idle
    /\ Become(c, Idle)
    /\ UNCHANGED <<now, inserted, row, knowledge, under, overtaken>>

Time ==
    /\ now < MaxTime
    /\ now' = now + 1
    /\ UNCHANGED <<inserted, row, knowledge, client, under, overtaken>>

Next ==
    \/ \E c \in Agents, r \in Runs : CreateRun(c, r)
    \/ \E c \in Operators, r \in Runs : BeginLoad(c, r) \/ Approve(c, r) \/ Reject(c, r)
    \/ \E c \in Clients :
        \/ SetProfile(c) \/ Ingest(c) \/ ReadEntries(c) \/ MarkUsed(c) \/ Planned(c)
        \/ Step(c) \/ StepInPlace(c) \/ WriteStatus(c)
        \/ LoadRow(c) \/ LoadSteps(c) \/ LoadArtifacts(c) \/ LoadProfile(c) \/ UseRun(c)
        \/ BeginCleanup(c) \/ SelectKept(c) \/ SelectOld(c) \/ Delete(c) \/ Restart(c)
    \/ \E k \in Keys : Forget(k)
    \/ Time

Spec == Init /\ [][Next]_vars
-----------------------------------------------------------------------------
Row == [rowid : Nat, born : Nat, status : Statuses, profile : Profiles \cup {"unknown"},
        steps : Nat, plan : BOOLEAN, closed : Nat]

Client == [pc : {"idle", "created", "ingesting", "marking", "planning",
                 "working", "approved", "closing", "loading", "row", "steps", "artifacts",
                 "loaded", "keeping", "selecting", "deleting"},
           run : Runs \cup {0}, profile : Profiles \cup {"unknown", "none"},
           purpose : {"none", "load", "approval"}, seen : Statuses,
           closed : Nat, steps : Nat, plan : BOOLEAN,
           items : Seq(Keys \cup {Bad}), keys : SUBSET Keys,
           old : Int, keep : Int, doomed : SUBSET Runs]

(* Types; only an idle client and a clean-up have no run, and nobody plans *)
(* or executes steps without a profile.                                    *)
TypeOK ==
    /\ now \in Nat /\ inserted \in Nat
    /\ row \in [Runs -> Row]
    /\ knowledge \in [Keys -> Nat \cup {Absent}]
    /\ client \in [Clients -> Client]
    /\ under \in [Runs -> Profiles \cup {"none"}]
    /\ overtaken \in BOOLEAN
    /\ \A c \in Clients :
        /\ client[c].pc \notin {"idle", "keeping", "selecting", "deleting"} => client[c].run \in Runs
        /\ client[c].pc \in {"ingesting", "marking", "planning", "working", "approved"} => client[c].profile \in Profiles

(* However many clean-ups overlap, and whatever is created meanwhile, none *)
(* of them deletes a run unless as many newer ones as the smallest number  *)
(* to keep are still there.  The exception is a run that is created        *)
(* between the two SELECTs of a clean-up and is old for the second; only   *)
(* one of less than a day can find it so.                                  *)
NewestKept ==
    [][overtaken \/
       \A r \in Present, p \in Retentions :
        (\A q \in Retentions : q.keep < 0 \/ p.keep <= q.keep) /\ r \notin Present'
            => Cardinality({s \in Present' : row'[s].rowid > row[r].rowid}) >= p.keep]_vars

(* Nothing refers to a run that is not there: deletion takes the records,  *)
(* and an agent that still executes a deleted run leaves none behind.      *)
NoOrphans == \A r \in Runs \ Present : row[r] = NoRow

(* A loaded run shows at least the records it had when the status it shows *)
(* was written, unless it has been deleted since.                          *)
ViewCoversStatus ==
    \A c \in Clients : client[c].pc = "loaded" /\ client[c].run \in Present
                           => client[c].steps >= client[c].closed

(* Whoever executes steps of a run does so under the profile it was        *)
(* created under, unless it has been deleted since.                        *)
ProfileStable ==
    \A c \in Clients : client[c].pc \in {"working", "approved"} /\ client[c].run \in Present
                           => client[c].profile = under[client[c].run]

(* As long as an entry is not forgotten, no use of it that was counted is  *)
(* lost, whoever remembers and marks it at the same time.                  *)
UsesNeverLost ==
    [][\A k \in Keys : knowledge'[k] # Absent => knowledge'[k] >= knowledge[k]]_vars
=============================================================================
