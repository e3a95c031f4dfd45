----------------------------- MODULE ModelRouter -----------------------------
(***************************************************************************)
(* The model router of one process: the planner and the analysis steps of  *)
(* all its tasks call route() on one event loop, share the cooldowns of    *)
(* the providers and interleave at every request and every back-off.       *)
(*                                                                         *)
(* A route walks over the positions of Considered(task), its preferred     *)
(* providers and then the configured order, and tries the candidates among *)
(* them that are not cooling down when their turn comes.                   *)
(***************************************************************************)
EXTENDS Integers, Sequences, FiniteSetsExt, Functions

CONSTANTS
    Callers,      \* tasks that may be inside route() at a time
    Order,        \* PROVIDER_ORDER
    Keys,         \* the remote providers with an API key
    MaxRetries,   \* PROVIDER_MAX_RETRIES
    Cooldown      \* PROVIDER_HEALTH_COOLDOWN_SECONDS, in ticks of the clock

Providers == {"openai", "openrouter", "anthropic", "gemini", "ollama"}

ASSUME RouterAssumption ==
    /\ Order \in Seq(Providers)
    /\ Keys \subseteq Providers \ {"ollama"}
    /\ MaxRetries \in Nat
    /\ Cooldown \in Nat

VARIABLES
    route,        \* the latest route of each caller
    cooling       \* ticks until cooldown_until, 0 when it has passed

routerVars == <<route, cooling>>

TaskTypes == {"code", "planning", "analysis", "reasoning", "fast", "summarize", "other"}

Route == [pc      : {"idle", "calling", "waiting", "selected", "failed", "escaped"},
          task    : TaskTypes,
          pos     : Nat \ {0},           \* of the provider being called
          tries   : 0..(MaxRetries + 1), \* requests sent to it
          skipped : SUBSET Providers,    \* attempts with status skipped_cooldown
          failed  : SUBSET Providers]    \* attempts with status failed

RouterTypeOK ==
    /\ route \in [Callers -> Route]
    /\ cooling \in [Providers -> 0..Cooldown]
-----------------------------------------------------------------------------
Preferred(task) ==
    CASE task \in {"code", "planning"}      -> <<"openai", "openrouter", "ollama">>
      [] task \in {"analysis", "reasoning"} -> <<"openai", "anthropic", "gemini">>
      [] task \in {"fast", "summarize"}     -> <<"openrouter", "ollama", "openai">>
      [] OTHER -> Order

Considered(task) == Preferred(task) \o Order

Available(p) == p = "ollama" \/ p \in Keys

(* Slip: only the preferred providers are candidates.                      *)
PreferredOnly(task, i) == i <= Len(Preferred(task)) /\ Available(Considered(task)[i])

(* Beyond the preferred ones, the remote providers not yet considered.     *)
Candidate(task, i) ==
    LET p == Considered(task)[i]
    IN /\ Available(p)
       /\ i > Len(Preferred(task)) => p \notin Range(Preferred(task)) \cup {"ollama"}

(* Slip: the cooldown is recorded, and never looked at.                    *)
RestedAlways(p, cool) == TRUE

Rested(p, cool) == cool[p] = 0

Calling(r) == r.pc \in {"calling", "waiting"}

(* Go on from position n: skip what is cooling down, call the first that   *)
(* is not, or fail.  There is no await in between.                         *)
Advance(r, n, cool) ==
    LET at(i)     == Considered(r.task)[i]
        positions == {i \in n..Len(Considered(r.task)) : Candidate(r.task, i)}
        rested    == {i \in positions : Rested(at(i), cool)}
        next      == CHOOSE i \in rested : \A j \in rested : i <= j
    IN IF rested = {}
       THEN [r EXCEPT !.pc = "failed", !.skipped = @ \cup {at(i) : i \in positions}]
       ELSE [r EXCEPT !.pc = "calling", !.pos = next, !.tries = 1,
                      !.skipped = @ \cup {at(i) : i \in {j \in positions : j < next}}]

Fresh(task) == [pc |-> "idle", task |-> task, pos |-> 1, tries |-> 0,
                skipped |-> {}, failed |-> {}]

RouterInit ==
    /\ route = [c \in Callers |-> Fresh("other")]
    /\ cooling = [p \in Providers |-> 0]

Begin(c, task) ==
    /\ ~Calling(route[c])
    /\ route' = [route EXCEPT ![c] = Advance(Fresh(task), 1, cooling)]
    /\ UNCHANGED cooling

Current(c) == Considered(route[c].task)[route[c].pos]

(* A usable answer.  It ends the provider's cooldown, even one that began  *)
(* after the request was sent.                                             *)
Answer(c) ==
    /\ route[c].pc = "calling"
    /\ route' = [route EXCEPT ![c].pc = "selected"]
    /\ cooling' = [cooling EXCEPT ![Current(c)] = 0]

(* A timeout, 429, 5xx or connection error before the last try.            *)
Transient(c) ==
    /\ route[c].pc = "calling"
    /\ route[c].tries <= MaxRetries
    /\ route' = [route EXCEPT ![c].pc = "waiting"]
    /\ UNCHANGED cooling

(* The last such error; another 4xx, or a response that is not JSON or     *)
(* holds no text, at any try.                                              *)
Fail(c) ==
    /\ route[c].pc = "calling"
    /\ cooling' = [cooling EXCEPT ![Current(c)] = Cooldown]
    /\ LET failed == [route[c] EXCEPT !.failed = @ \cup {Current(c)}]
       IN route' = [route EXCEPT ![c] = Advance(failed, failed.pos + 1, cooling')]

(* JSON of an unexpected shape (AttributeError), or broken JSON            *)
(* (JSONDecodeError): the exception leaves route() at once, with nothing   *)
(* recorded, no fallback tried, and the route's attempts forgotten.        *)
Escape(c) ==
    /\ route[c].pc = "calling"
    /\ route' = [route EXCEPT ![c] = [Fresh(@.task) EXCEPT !.pc = "escaped"]]
    /\ UNCHANGED cooling

(* The end of asyncio.sleep between two tries.                             *)
Resend(c) ==
    /\ route[c].pc = "waiting"
    /\ route' = [route EXCEPT ![c].pc = "calling", ![c].tries = @ + 1]
    /\ UNCHANGED cooling

(* CancelledError is raised at the await and leaves route() likewise.      *)
Abandon(c) ==
    /\ Calling(route[c])
    /\ route' = [route EXCEPT ![c] = [Fresh(@.task) EXCEPT !.pc = "escaped"]]
    /\ UNCHANGED cooling

(* The clock.                                                              *)
Tick ==
    /\ \E p \in Providers : cooling[p] > 0
    /\ cooling' = [p \in Providers |-> IF cooling[p] > 0 THEN cooling[p] - 1 ELSE 0]
    /\ UNCHANGED route

(* A request ends, by the total timeout of the session at the latest.      *)
Respond(c) == Answer(c) \/ Transient(c) \/ Fail(c) \/ Escape(c)
-----------------------------------------------------------------------------
(* A route that fails has not passed over anything: every configured       *)
(* provider that is remote has failed in it or was cooling down when its   *)
(* turn came, and so has ollama when the task type prefers it.             *)
FailedMeansExhausted ==
    \A c \in Callers : route[c].pc = "failed" =>
        \A p \in (Keys \cap Range(Order)) \cup ({"ollama"} \cap Range(Preferred(route[c].task))) :
            p \in route[c].failed \cup route[c].skipped

(* However calls overlap, and although each failure starts the cooldown of *)
(* its provider afresh, the provider comes back.                           *)
ProviderComesBack == \A p \in Providers : cooling[p] > 0 ~> cooling[p] = 0
=============================================================================
