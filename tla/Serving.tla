------------------------------ MODULE Serving ------------------------------
(***************************************************************************)
(* How the gateway process runs requests: the thread pool, the event loop, *)
(* the database transaction of each request and its write locks            *)
(* (agentid/gateway/deps.py, gateway/api/mcp.py, database/engine.py,       *)
(* identity/api_keys.py, audit/storage.py).                                *)
(*                                                                         *)
(* A request is authenticated and counted in a thread.  POST /mcp/call     *)
(* then runs on the event loop, where every statement it sends blocks all  *)
(* other handlers, and leaves it only to await its server; the discovery   *)
(* routes run in a thread.  What a request has written stays locked until  *)
(* its session commits or is closed.                                       *)
(***************************************************************************)
EXTENDS RateLimiter

CONSTANTS
  Tools,       \* the requests to POST /mcp/call; the others are discovery
  KeyRow,      \* Calls -> the api_keys row that authenticates it, or None
  SecretRow,   \* Calls -> the credentials row its server needs, or None
  Database     \* "sqlite" or "postgresql"

Rows == ({KeyRow[c] : c \in Calls} \union {SecretRow[c] : c \in Calls}) \ {None}

\* The audit event of a request is a row of its own, named by the request.
ASSUME ServingAssumption ==
  /\ Tools \subseteq Calls
  /\ DOMAIN KeyRow = Calls /\ DOMAIN SecretRow = Calls
  /\ Rows \intersect Calls = {}
  /\ {KeyRow[c] : c \in Calls} \intersect {SecretRow[c] : c \in Calls} \subseteq {None}
  /\ None \notin Calls
  /\ Database \in {"sqlite", "postgresql"}

VARIABLES
  stage,      \* Calls -> how far the request has come
  held,       \* Calls -> the rows it has written and not committed
  committed,  \* Calls -> the rows it has committed
  loop        \* the request whose handler occupies the event loop, or None

servingVars == <<stage, held, committed, loop>>
vars == <<limiterVars, servingVars>>

Stages ==
  {"idle", "authenticating", "counting", "ready", "resolving", "awaiting",
   "auditing", "committing", "closing", "answered", "raised", "refused", "failed"}

Ended(c) == stage[c] \in {"answered", "raised", "refused", "failed"}

\* SQLite has one write lock; PostgreSQL locks rows.
CanWrite(c, row) ==
  \A d \in Calls \ {c} :
    IF Database = "sqlite" THEN held[d] = {} ELSE row \notin held[d]

\* The row a request is about to write.
Wanted(c) ==
  CASE stage[c] = "authenticating" -> KeyRow[c]
    [] stage[c] = "resolving"      -> SecretRow[c]
    [] stage[c] = "auditing"       -> c
    [] OTHER -> None

Blocked(c) == Wanted(c) # None /\ ~CanWrite(c, Wanted(c))

Goto(c, s) == stage' = [stage EXCEPT ![c] = s]

LeaveLoop_Stays(c) == UNCHANGED loop

\* The handler's turn on the event loop ends: it awaits or is done.
LeaveLoop(c) == loop' = IF loop = c THEN None ELSE loop

Flush(c) ==
  /\ CanWrite(c, Wanted(c))
  /\ held' = [held EXCEPT ![c] = @ \union {Wanted(c)}]

----------------------------------------------------------------------------
\* The threads that authenticate.

\* A token is checked by reading; an API key is also stamped as used.
Arrive(c) ==
  /\ stage[c] = "idle"
  /\ loop = None
  /\ Goto(c, IF KeyRow[c] = None THEN "counting" ELSE "authenticating")
  /\ UNCHANGED <<limiterVars, held, committed, loop>>

StampKey_Commits(c) ==
  /\ stage[c] = "authenticating"
  /\ CanWrite(c, Wanted(c))
  /\ committed' = [committed EXCEPT ![c] = @ \union {Wanted(c)}]
  /\ Goto(c, "counting")
  /\ UNCHANGED <<limiterVars, held, loop>>

\* verify_api_key(): last_used_at is flushed, and committed with the request.
StampKey(c) ==
  /\ stage[c] = "authenticating"
  /\ Flush(c)
  /\ Goto(c, "counting")
  /\ UNCHANGED <<limiterVars, committed, loop>>

\* current_context(): the limiter, which reads the clock and then counts.
LookAtClock(c) ==
  /\ stage[c] = "counting"
  /\ ReadClock(c)
  /\ UNCHANGED servingVars

Pass(c) ==
  /\ stage[c] = "counting"
  /\ Check(c)
  /\ within_limit(c)
  /\ Goto(c, "ready")
  /\ UNCHANGED <<held, committed, loop>>

\* RateLimitExceeded: what the request has written is still held.
TurnAway(c) ==
  /\ stage[c] = "counting"
  /\ Check(c)
  /\ ~within_limit(c)
  /\ Goto(c, "closing")
  /\ UNCHANGED <<held, committed, loop>>

\* _from_api_key(): the key was stamped before its agent is found disabled.
Dismiss(c) ==
  /\ stage[c] = "counting" /\ KeyRow[c] # None
  /\ clock_read[c] = None
  /\ Goto(c, "closing")
  /\ UNCHANGED <<limiterVars, held, committed, loop>>

Close_KeepsSession(c) ==
  /\ stage[c] = "closing"
  /\ loop = None
  /\ Goto(c, "refused")
  /\ UNCHANGED <<limiterVars, held, committed, loop>>

\* The exception returns to the event loop, which has a thread leave
\* db_session(): closing the session rolls it back.
Close(c) ==
  /\ stage[c] = "closing"
  /\ loop = None
  /\ Goto(c, "refused")
  /\ held' = [held EXCEPT ![c] = {}]
  /\ UNCHANGED <<limiterVars, committed, loop>>

----------------------------------------------------------------------------
\* The handlers.

\* discover_tools() in a thread, started from the event loop: it reads, and
\* writes one event.
Discover(c) ==
  /\ stage[c] = "ready" /\ c \notin Tools
  /\ loop = None
  /\ Goto(c, "auditing")
  /\ UNCHANGED <<limiterVars, held, committed, loop>>

\* call_tool() until its first statement that writes: a refusal is audited, an
\* expired secret is refreshed.  What resolving a secret raises, if it is no
\* AgentIDError, is not audited, and the route commits all the same.
Begin(c) ==
  /\ stage[c] = "ready" /\ c \in Tools
  /\ loop = None
  /\ \/ Goto(c, "auditing")
     \/ SecretRow[c] # None /\ Goto(c, "resolving")
     \/ Goto(c, "committing")
  /\ loop' = c
  /\ UNCHANGED <<limiterVars, held, committed>>

\* Or until it awaits its server, with a secret that needs no refresh.
Forward(c) ==
  /\ stage[c] = "ready" /\ c \in Tools
  /\ loop = None
  /\ Goto(c, "awaiting")
  /\ UNCHANGED <<limiterVars, held, committed, loop>>

\* The refreshed secret is flushed, and the server awaited.
PersistSecret(c) ==
  /\ stage[c] = "resolving"
  /\ Flush(c)
  /\ Goto(c, "awaiting")
  /\ LeaveLoop(c)
  /\ UNCHANGED <<limiterVars, committed>>

\* The answer, or the timeout of the HTTP client: both come from the loop.  A
\* cancellation, and an answer of which no message can be made, are not audited.
Resume(c) ==
  /\ stage[c] = "awaiting"
  /\ loop = None
  /\ loop' = c
  /\ Goto(c, "auditing") \/ Goto(c, "committing")
  /\ UNCHANGED <<limiterVars, held, committed>>

\* DatabaseSink.write()
WriteEvent(c) ==
  /\ stage[c] = "auditing"
  /\ Flush(c)
  /\ Goto(c, "committing")
  /\ UNCHANGED <<limiterVars, committed, loop>>

\* The commit at the end of the route, in the finally clause of POST /mcp/call.
Commit(c) ==
  /\ stage[c] = "committing"
  /\ committed' = [committed EXCEPT ![c] = @ \union held[c]]
  /\ held' = [held EXCEPT ![c] = {}]
  /\ Goto(c, IF c \in held[c] THEN "answered" ELSE "raised")
  /\ LeaveLoop(c)
  /\ UNCHANGED limiterVars

GiveUp_InThreads(c) ==
  /\ Database = "sqlite"
  /\ Blocked(c) /\ loop # c
  /\ held' = [held EXCEPT ![c] = {}]
  /\ Goto(c, "failed")
  /\ LeaveLoop(c)
  /\ UNCHANGED <<limiterVars, committed>>

\* sqlite3 waits for the lock for five seconds.  The flush then fails, which
\* rolls the transaction back, and so does whatever the handler does after it.
\* PostgreSQL waits for as long as the row is locked.
GiveUp(c) ==
  /\ Database = "sqlite"
  /\ Blocked(c)
  /\ held' = [held EXCEPT ![c] = {}]
  /\ Goto(c, "failed")
  /\ LeaveLoop(c)
  /\ UNCHANGED <<limiterVars, committed>>

----------------------------------------------------------------------------
Step(c) ==
  \/ StampKey(c) \/ LookAtClock(c) \/ Pass(c)
  \/ TurnAway(c) \/ Dismiss(c) \/ Close(c)
  \/ Discover(c) \/ Begin(c) \/ Forward(c) \/ PersistSecret(c) \/ Resume(c)
  \/ WriteEvent(c) \/ Commit(c) \/ GiveUp(c)

InitServing ==
  /\ InitLimiter
  /\ stage = [c \in Calls |-> "idle"]
  /\ held = [c \in Calls |-> {}]
  /\ committed = [c \in Calls |-> {}]
  /\ loop = None

NextServing ==
  \/ Tick /\ UNCHANGED servingVars
  \/ \E c \in Calls : Arrive(c) \/ Step(c)

SpecServing == InitServing /\ [][NextServing]_vars

\* Threads are scheduled, a handler that can go on is (the loop's queue is
\* first come, first served), and a wait for SQLite's lock ends.  An awaited
\* server answers, falls silent for the client's timeout, or breaks off: the
\* timeout is one of each read, and a server that went on sending an answer
\* without end would be awaited without end.  Nothing makes a request arrive.
FairServing == SpecServing /\ \A c \in Calls : WF_vars(Step(c))

----------------------------------------------------------------------------
\* Properties.

\* The shape of the state.
ServingTypeOK ==
  /\ LimiterTypeOK
  /\ stage \in [Calls -> Stages]
  /\ held \in [Calls -> SUBSET (Rows \union Calls)]
  /\ committed \in [Calls -> SUBSET (Rows \union Calls)]
  /\ loop \in Calls \union {None}

\* A request that has ended, in whatever way, holds no lock and does not
\* occupy the loop (database/engine.py, db_session(); deps.py).
EndedHoldsNothing ==
  \A c \in Calls : Ended(c) => held[c] = {} /\ loop # c

\* What a request writes is kept with its audit event or not at all: no use of
\* a key and no refreshed secret is recorded of a request that was turned away
\* or failed.  Only a call whose handler raised what nobody audits keeps what it
\* has written, without an event (api_keys.py, verify_api_key(); deps.py,
\* current_context(); gateway/api/mcp.py, call_tool()).
KeptWithItsEvent ==
  \A c \in Calls :
    /\ committed[c] # {} =>
         c \in committed[c] \/ (c \in Tools /\ stage[c] = "raised")
    /\ stage[c] = "answered" <=> c \in committed[c]

\* The guards of Step(c): the request can go on as things stand.
CanGoOn(c) ==
  \/ /\ stage[c] \in {"authenticating", "resolving", "auditing"}
     /\ CanWrite(c, Wanted(c)) \/ (Blocked(c) /\ Database = "sqlite")
  \/ stage[c] = "counting" /\ (clock_read[c] = None \/ counted[c] = None)
  \/ stage[c] \in {"ready", "awaiting", "closing"} /\ loop = None
  \/ stage[c] = "committing"

\* The process never stops with requests under way, but in one way: on
\* PostgreSQL, with a handler on the loop that wants to refresh a secret which
\* another one has refreshed before it began to await its server.  Keys, audit
\* events and threads that wait never stop it, and nothing stops it on SQLite
\* (gateway/api/mcp.py, call_tool(); credentials/manager.py, _persist()).
StopsOnlyForASecret ==
  (\E c \in Calls : stage[c] # "idle" /\ ~Ended(c)) =>
    \/ \E c \in Calls : CanGoOn(c)
    \/ /\ Database = "postgresql"
       /\ \E c, d \in Calls : /\ loop = c /\ stage[c] = "resolving"
                              /\ stage[d] = "awaiting" /\ SecretRow[c] \in held[d]

\* Every request that arrives ends, though handlers block the loop with locks
\* that only the loop can release (docs/implementation-notes.md section 3:
\* "Synchronous DB sessions inside async endpoints. Correct but blocking.").
EveryRequestEnds ==
  \A c \in Calls : stage[c] # "idle" ~> Ended(c)

=============================================================================
