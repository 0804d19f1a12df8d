# A TLA+ model of the AgentID MCP gateway

The gateway stands between AI agents and MCP servers. Humans log in and hand
agents *delegated* tokens; agents and service accounts hold API keys; every tool
call is authenticated, authorized against a policy database, given a downstream
credential, forwarded and audited. This directory holds a TLA+ model of it: what
TLC checks on small instances, what TLAPS proves for all of them, and where the
code does something other than its documentation says.

Paths below are relative to `src/agentid/` unless they start with `docs/`.

## 1. The system

| Component | State it keeps | Operations | Code |
|---|---|---|---|
| Permissions and roles | role entries (allow, deny patterns) | match, flatten roles, replace a role | `authorization/permissions.py`, `rbac.py` |
| Authorization engine | none: reads the policy database | `authorize_tool`, execution identity | `authorization/engine.py` |
| Policy administration | identities, role assignments, service-account grants, tools, servers | the routes behind `require_admin` | `gateway/api/policy.py`, `identity.py`, `registry.py`, `gateway/deps.py` |
| Policy bundles | none | apply a file of roles | `authorization/policies.py` |
| Sessions | session rows | login, logout, revoke, purge | `identity/sessions.py`, `gateway/api/auth.py` |
| Delegation | agent grants, delegation rows | grant, exchange, revoke | `identity/delegation.py`, `agents.py`, `credentials/token_exchange.py` |
| API keys | key rows | issue, verify, revoke | `identity/api_keys.py` |
| Tokens | none: signed claims | issue, verify | `identity/tokens.py` |
| Authentication | none | API key or token to a request context | `gateway/middleware/auth.py` |
| Tool calls | the handlers in progress | route, authorize, resolve, forward, audit | `gateway/services/mcp_service.py`, `gateway/mcp/` |
| Serving | threads, the event loop, one transaction per request | authenticate, count, handle, commit or roll back | `gateway/deps.py`, `database/engine.py`, `gateway/api/mcp.py` |
| Server SDK, servers | none of identity | verify the gateway's credential, decide on resources | `sdk/server/`, `servers/` |
| Credential manager | credential rows, an in-process cache | resolve, refresh, store, delete | `credentials/` |
| Rate limiter | a window per identity | check | `gateway/middleware/ratelimit.py` |
| Audit | event rows | log, query | `audit/` |
| Registry, discovery | servers, tools | register, search, list the permitted tools | `registry/`, `gateway/mcp/discovery.py` |

How they interact. Every route first authenticates (a synchronous dependency,
run by FastAPI in a thread pool), which reads sessions, delegations, keys and
identities. `POST /mcp/call` is an `async` handler on the event loop: it reads
the policy, resolves a credential, awaits the server, and commits one audit
event. Every request has its own database session; requests see each other's
effects only after a commit. Tokens live with clients and are never stored: the
rows they name (`sid`, `did`) are what revocation acts on. The cache, the rate
limiter and the HTTP client are shared by the process.

What is hard here:

* **Interleaving.** A token exchange verifies, inserts, and commits in separate
  steps; a logout, a revocation, a purge or another exchange may come in between.
  Routes and scripts select rows, and write them at a later commit.
* **Staleness.** A caller is authenticated in one step, authorized in a later one, and
  its request sent in another; an administrator's permission is looked at once, before
  the route.
* **Failure and time.** A server may answer late, refuse, answer nothing, fail half-way
  or never answer; the gateway may stop between the tool's effect and its audit event.
* **Blocking.** The event loop runs statements that wait for database locks, and
  the locks are held over awaits that only the loop can end.
* **Emptiness.** Roles, grants, scopes and defaults can all become empty or
  `None`, and Python treats an empty permission set as false.

What makes each part correct:

* *Engine*: it allows exactly what the documented rules allow, under the
  documented identity; delegation never widens; taking away never opens.
* *Policy store*: a role is what the administrator who wrote it last sent.
* *Sessions, delegation*: a token dies with its login and its delegation, is
  recorded, and never comes back.
* *Tool calls*: a call runs at most once, only if permitted, as the permitted
  identity; its audit event is single and true.
* *Credential manager*: the secret sent is the current one of the most specific
  credential and has not expired; a deleted credential stays deleted; no write of one
  undoes a later one.
* *Rate limiter*: at most twice the limit in any window's length, and nobody
  refused who has not had it.
* *Serving*: every request ends if its server does, gives back what it holds, and is
  recorded whole or not at all.
* *Discovery*: it lists exactly what a call would be allowed.
* *Servers*: they are told, and base their own rules on, what the engine decided;
  a credential works on one side only.

`PROJECT.json` lists every hazard at its line, with the properties that cover it.

## 2. The modules

| Module | What it is |
|---|---|
| `Permissions` | Pure operators: matching, permission sets, flattening of roles |
| `Authorization` | The policy database, `authorize_tool`, the administrative routes; properties of the decision function |
| `AuthorizationProofs` | Theorems about `Authorization` |
| `Discovery`, `DiscoveryProofs` | What callers are shown of the registry, over the policy of `Authorization`; theorems |
| `Downstream`, `DownstreamProofs` | The token a call carries to its server and what the server makes of it, over the decisions of `Authorization`; theorems |
| `MCAuthorization` | The instance of all three for TLC |
| `Authority` | Abstract: what the gateway promises of the credentials a login leads to |
| `Authentication` | Sessions, delegations, API keys, tokens and the concurrent token exchange; implements `Authority` |
| `AuthenticationProofs` | Theorems about `Authentication`, the refinement of `Authority` among them |
| `MCAuthentication` | Its instance for TLC |
| `AuditedCall` | Abstract: what the gateway promises of a tool call |
| `ToolCall` | `POST /mcp/call` with the server and the policy it runs against; composes `Authorization`, implements `AuditedCall` |
| `ToolCallProofs` | Theorems about `ToolCall`, the refinement of `AuditedCall` among them |
| `MCToolCall` | Its instance for TLC |
| `CredentialStore` | The stored credentials of one server: cache, refresh, administrators, restart, clock |
| `CredentialProofs` | Theorems about `CredentialStore` |
| `MCCredentialStore` | Its instance for TLC |
| `PolicyStore` | `PUT /policy/roles` and `POST /policy/bundle` as the statements of concurrent transactions |
| `PolicyStoreProofs` | Theorems about `PolicyStore` |
| `MCPolicyStore` | Its instance for TLC |
| `RateLimiter` | The fixed-window counter, with a clock and threads |
| `Serving` | Threads, event loop, transactions and locks of the `/mcp` routes; composes `RateLimiter` |
| `ServingProofs` | Theorems about both, and that `Serving` implements `RateLimiter` |
| `MCServing` | Its instance for TLC |

A definition named `Something_Bug` is a mutant of `Something`: a bug the code could
plausibly have. Each property is shown to fail once such a mutant replaces the
original (`PROJECT.json`, "mutants").

### Permissions, Authorization

A permission is the sequence of its dotted segments. Which pattern matched only
feeds the text of a decision, so the code's search for the first match is the
question whether there is one. The state of `Authorization` is what the engine
reads on every request: `identities`, `active` (`is_active`), `role_entries`,
`roles_of`, `sa_grants` (unrevoked rows), `tools`, `registered`, `enabled`. The
database starts with one administrator, as seeding leaves it; every other identity,
server and tool is created by a route. Nothing in the code deletes an identity.
Deleting a server deletes its tools (`cascade` in `models/registry.py`). Each
administrative route is an action under `Administer`, the commit of a request that
`LetIn` admitted earlier: `require_admin` looks at the caller's permissions once, before
the route, and other routes may commit in between. `administering` is how many requests
are past it, bounded by `MaxAdministering`; `EndWithoutCommit` is a route that only reads
or fails. No route changes `is_active`, so `SetActive` is an
operator's update of the database. `authorize_tool` is a function of the state
and the request, with the code's checks in the code's order. `Contexts` holds
every request context `authenticate()` can build; agents and service accounts
reach it through API keys. Here the queries of one decision are one step; `ToolCall`
takes them apart.

Several points of the code are kept on purpose: a disabled service account
authenticates and administers; a service account with its own key ignores the
service account a request names; a token with no scopes passes the scope check;
an empty permission set is false for `permissions_of_caller`.

### Discovery, Downstream

Both are operators over the policy database and add no state. `Discovery` reads the
registry twice, as the code does: `permitted_tool_names` asks the engine about every
enabled tool, `search_tools` reads the tools again and keeps what is permitted,
enabled and asked for. `DiscoveryShowsTheCallable` puts both reads at one instant and
compares them with the documented rules; `NothingWithdrawnIsShown` puts a change of
the registry between them. How well a tool matches a query is a free set (`relevant`).

`Downstream` follows the identity of an allowed call: `decided` puts the decision's
service account into the context, `downstream_token` mints the token,
`verified` and `claims` are the server's side of it, and `may_write`,
`may_read_restricted` are the rules of two of the bundled servers. The audience of a
server is a field an administrator fills in, so the properties hold for every
audience, that of the gateway included. With a shared audience only the type of a
token tells the sides apart, and two servers that share one take each other's tokens:
`TokensKeepToTheirSide` claims no more than that.

### Authentication, Authority

One action per operation. An operation whose effect is one row, read and written
in one transaction, is one step; the token exchange is `ExchangeVerify`
(signature, expiry, session), `ExchangeDelegate` (agent, grant, insertion of the
row) and then `ExchangeCommit`, `ExchangeWithoutToken` or `ExchangeFail`. A row that is
inserted and not committed sits in `exchanges`, where no other request sees it but the
foreign key to the session already holds. When the signing of the token fails, the
handler of the failure logs and commits (`gateway/api/auth.py:132-143`), and with the
event the inserted row: that is `ExchangeWithoutToken`, which is also a commit whose
response is lost. The row of a failed signing keeps the empty `jti` it was inserted with
(`signed` is false), and `jti` is unique (`models/session.py:71`): from then on every
insertion fails, and until then each waits while another's is not committed
(`Insertable`). `tokens` is every token handed to a client: a client
can present any of them at any time, so nothing is lost by never removing one.
`login` and `chain` are history that no action reads. Identifiers are random in
the code and therefore used once here.

`revoke_sessions_for`, `purge_expired`, `revoke_delegation` and
`revoke_delegations_for_user` are called by no route: an operator's script calls them,
at any time. The two that revoke many rows select them and write them at a later commit
(`RevokeDelegationsRead`, `RevokeDelegationsCommit` and the same of sessions), and what
an exchange commits in between escapes them. `RevokeAllStopsAgents` therefore speaks of
the tokens clients held when the rows were selected (`held`). Tokens whose subject is an
agent or a service account are accepted by the code but issued by no route; they are not
modelled.

The database is read-committed: this covers PostgreSQL, and SQLite, whose
serialized writers give fewer interleavings.

`Authority` says what all this is for. A login happens once and is open until it is
over; a mandate for an agent is given once and is live until it is over; a credential
works only while its login is open to its user and its mandate, if it has one, is live
for its agent; what has ceased never comes back. `Authentication` implements it with
sessions for logins, delegation rows for mandates, and for the credentials that work the
tokens that are not dead, each by its history (`login`) and not by what it carries:
`Open`, `Live`, `Working`. So a token that named the wrong session, or none, would be no
credential of the abstract system. A delegation whose token is lost, was never signed,
or descends from a login that is over is a mandate nobody can use (`DelegateInVain`),
and one that is committed after it has expired was never live (`DelegateTooLate`).
Whether the user or the agent is disabled is no part of the promise: a disabled identity
may be enabled again, and its tokens then work again.

### ToolCall, AuditedCall

A call is `idle`, `authenticated`, `decided`, `ready`, `forwarded`, `ended`. It is
authenticated in a thread, decided on the event loop (`Decide`, `Refuse`), given a
credential (`ResolveCredential`, during which a provider may be asked, `CredentialRefused`,
`CredentialRaises`) and sent (`Forward`): the policy may change between any two of these.
`authorized` is history: the identities the documented rules let the call run as at some
moment while it waited for its decision. `RunsAsAuthorized` says that nothing else is ever
sent, runs, or is said to have been permitted. A permission taken away after the decision
does not stop the call, which the property leaves open on purpose.

`Decide` is one step, though other threads commit during it, and the engine takes a query
or more for each of its rows. `AllowedReading` is the decision with any subset of them
(`late`) read after the commit, and `DecisionsAreOfOneInstant` says that it allows nothing
which neither the policy before nor the policy after allows. This is what makes it sound
to decide in one step: a permission that a mixture grants is one that was granted a moment
earlier or is granted a moment later. It covers one commit of one route during one
decision. A bundle that loosens one role and tightens another in one commit, or two
commits during one decision, can still be mixed.

The server takes the request from the wire whenever it likes, also after the gateway gave
up, and answers with a result, an error (having done something or not), the SDK's refusal,
or an object that has neither a result nor an error (`NotServed`): FastAPI answers so to a
path or a method it does not serve. The proxy does not look at the status, so that is
logged as `allow`, and no tool ran: `Answered` has it, and both `TrailMatchesEffects` and
`AuditedCall` say that an `allow` ran a tool unless its server answered nothing.
`NoAnswer` is a timeout, a broken connection or a body that is no object; the timeout is
one of each read, a server that sends a byte now and then is awaited without end, and
nothing here claims that a call ends. The route commits in a `finally` clause, so the
event and the end of the call are one step; a call whose handler raised something else
ends as `raised` with no event, and with no effect; `Crash` is the process stopping, or
the handler being cancelled, before the commit.

`LockoutIsPermanent` is checked here, where two administrative requests are in progress
at once: once every identity lacks `agentid.admin` nobody is let in, and each change of
the policy uses up one of the requests let in before. Such a request may even be the one
that gives the permission back; after the last of them nothing does.

`AuditedCall` says what is promised without saying how: refuse or permit, perform
at most once as the permitted identity, report at most once and truthfully.
`ToolCall` implements it under the mapping written at `Promise`.

### CredentialStore

The rows are those of one server: the cache key names a row, so servers share
nothing. `resolve()` is synchronous and runs on the event loop, so it is one step
(`SendCached`, `SendOpened`, `SendNothing`) unless the secret has expired. Then a
provider is asked: `StartRefresh`, and some time later `Refresh` or
`RefreshFails`, during which no other handler runs (`LoopFree`) but administrators and
the clock do. `Refresh` flushes the row into the transaction of its call and
caches the secret; `Finish` commits it and `RollBack` does not. In between, other
calls read the old row. `store()` and `delete()` are called by two routes of
`gateway/api/registry.py`, in threads of the gateway, whose cache they clear before
the route commits, and by seeding in a process of its own (`clears` is false). They
select a row (`ScriptReads`), and flush (`Store`, `Delete`) once its lock is free. Two
such writes at a time are not modelled. A flushed row is locked until its transaction ends
(`RowLocked`); SQLite locks more, which only removes behaviours.

An UPDATE finds its row by the identifier that was read, and writes the columns in which
the new values differ from those that were read (`column`), not from those that are there
by then. `_persist()` never sets the type. So a refresh and a store of one row that
overlap can leave a mixture: the type of one and the ciphertext of the other, or the
expiry of one and the secret of the other. Such a row does not open (`usable`), or expires
at the wrong time. `meant` is history: what the writer of the ciphertext meant the other
columns to be, and which version it had read.

A row has an identifier and an `updated_at`, which together are the cache key;
both come from a counter of writes, bounded by `MaxWrites`. Two points of the code
are kept: an `api_key` or `service_account` secret loses its expiry when it is
opened, so only its row has one; and on SQLite the time of an updated row comes
back without its time zone, so the entry a refresh makes is under a key nobody
asks for, and a time never equals the one that was read (`zoned` is false).

`NoLostUpdate` says that the writes of a row are committed in the order they were made,
and that one whose row nobody wrote between its read and its commit leaves the row
`Whole`. A refresh reads its row before it asks the provider, and `store()` may commit
meanwhile. The refresh then overwrites the secret that was stored, but as the later write:
`_persist()` flushes after the answer, from when on the lock of the row keeps a `store()`
out. What is excluded is a refreshed secret that waits for its call to end and then covers
one stored in between. `ExpiryRespected` leaves out the rows whose expiry is that of
another secret.

The assumption of fresh timestamps is the one thing the model takes on trust: two
writes of one row in the same microsecond would share a cache key.

### PolicyStore

`Authorization` replaces the body of a role in one step (`PutRole`). The code takes
several statements, in threads, and this module says when they amount to that. A
transaction works through its documents: `Select` or `Create` the role, `Delete` the
entries it has loaded, `Insert` the body; then `Commit`, or `Fail` at any point.
Reads see what is committed and the transaction's own writes (READ COMMITTED, as on
PostgreSQL); rows and unique values that another transaction has written are waited
for. On SQLite one transaction writes at a time, so there are fewer behaviours, but
two that have both read a role before either writes are among them.

What makes this delicate is the session: it keeps a role it has loaded, with its
entries (`loaded`, `seen`), until it is closed or refreshed. A role can be there
before the route starts, because `require_admin` read the caller's roles in the same
session (`held`), and when a bundle lists a role twice.

`upsert` in a row stands for its random identifier. `based`, `body` and `latest` are
history: the committed body a request started from, the one it wrote, and the one
committed last. A list that repeats a name, and the unique violations that waiting
can end in, are among the ways to `Fail`. `replace=False` has no caller.

### RateLimiter, Serving

`RateLimiter` is `check()` in its two steps: the clock is read (`ReadClock`), then the
window is looked up, counted and perhaps replaced under the lock (`Check`). Between
the two other threads count, and the clock goes on, so a thread can count in a window
by a time that is past. `counted` is history: when and in which window each request
was counted. `reset()` has no caller. A request is prompt when it was counted at the
time it had read. `BurstBounded` speaks of prompt requests only:
threads that read their clocks long before they count can each open a window of its own,
and be admitted beyond it, and nothing in the code bounds how slow a thread is.
`RefusedAtLimitOnly` holds of every refusal: its window had not ended by the clock of its
thread, and had admitted the whole limit; that this was within the last window's length
holds of prompt requests, and a slow one may be refused later than that.

`Serving` is one gateway process. A request is authenticated and counted in a thread
(`StampKey`, which writes `last_used_at` when it came with an API key, `LookAtClock`,
`Pass` or `TurnAway`). One that is turned away, or dismissed because the key's agent is
disabled (`Dismiss`), keeps what it has locked until the loop lets a thread close its
session (`Close`), which rolls it back. `POST /mcp/call` then runs on the event loop:
from `Begin` or `Resume` until it awaits or ends it is the value of `loop`, and nothing
else runs there, also while one of its statements waits for a lock. Other requests are
started from the loop (`Arrive`, `Discover`) and run in threads. `held` is what a
transaction has written and not committed, `CanWrite` who has to wait for whom: on
SQLite there is one write lock, which is given up after five seconds (`GiveUp`); on
PostgreSQL each row has its own and is waited for without end. The model has the writes
of these routes: the use of a key, a refreshed secret, the audit event. A call can reach
the commit of its `finally` clause with no event: when resolving its secret raises
something other than `AgentIDError`, when an answer cannot be turned into a message, when
it is cancelled (`Begin`, `Resume` to `committing`). It then commits what it has written,
and is `raised`. `KeptWithItsEvent` makes this the only exception.

Every step of a request on the limiter's variables is a step of `RateLimiter`
(`ServingUsesLimiter`), so what holds of the limiter alone holds in the process.

That the process comes to an end with its requests has two halves. `StopsOnlyForASecret`
is a safety property: as long as a request is under way, one can go on (`CanGoOn`, the
guards of its next step), but for the deadlock of section 4, and that one only. And a
request takes at most nine steps (`ServingGoesForward`), so it is not kept going round.
`EveryRequestEnds` says what the two mean under fairness.

## 3. The runs

| Run | Specification, instance | Shows |
|---|---|---|
| `authorization` | `SpecPolicy`; 1 human, 1 agent, 1 service account, 2 roles of 3 bodies, 1 server, 1 tool of 3 kinds, 2 audiences, 1 administrative request at a time | type; `EngineMeetsPolicy`, `DelegationNeverWidens`, `AgentGrantsDoNotReachHumans`, `TighteningNeverAllows`, `RegisteringServersAllowsNothing`; `DiscoveryShowsTheCallable`, `NothingWithdrawnIsShown`; `ServerSeesDecision`, `RestrictedReadsAreGranted`, `TokensKeepToTheirSide` |
| `exchange_race` | `Spec`; 1 human, 1 delegated agent, 1 session, 2 delegations, 2 exchanges and 1 revocation of many rows at a time, 1 API key of the agent, clock to 2 | type; `LogoutEndsLineage`, `DelegationsAreRecorded`, `DelegationsKeepTheirSession`, `RevokeAllStopsAgents`, `NoResurrection`; `AuthorityKept` (refinement) |
| `tool_call` | `SpecToolCall`; 1 call, policy of 1 role of 2 bodies, 2 administrative requests at a time | type; `TrailMatchesEffects`, `PromiseKept` (refinement), `RunsAsAuthorized`, `DecisionsAreOfOneInstant`; `LockoutIsPermanent` |
| `credential_store` | `SpecStore`; 2 calls, a credential of the server and one of a service account, 3 kinds of payload, 2 secrets, 3 writes, clock to 2 | type; `CurrentSecretOnly`, `ExpiryRespected`, `DeletedStaysDeleted`, `NoLostUpdate` |
| `policy_store` | `SpecPolicyStore`; 2 threads, 2 roles, 2 names, 5 requests of 1 or 2 documents, 4 replacements | type; `LatestBodyInForce`, `UndisturbedReplaces` |
| `serving` | `FairServing` on SQLite; 3 requests of 1 identity (2 calls, 1 of them by API key, and a discovery), 1 secret to refresh, limit 1 in windows of 2, clock to 3 | type; `BurstBounded`, `RefusedAtLimitOnly`, `EndedHoldsNothing`, `KeptWithItsEvent`, `StopsOnlyForASecret`, `EveryRequestEnds` |
| `loop_deadlock` | `FairServing` on PostgreSQL; the same requests, limit 3 | violated: `EveryRequestEnds` |
| `replaced_role` | `SpecPolicyStore` | violated: `RoleIsLatestBody` |
| `delegated_admin` | `SpecPolicy` | violated: `DelegatedAdminNeedsBoth` |
| `revoked_exchange` | `Spec` | violated: `RevokedDelegationMintsNothing` |
| `unaudited_rejection` | `SpecToolCall` | violated: `FailedDownstreamIsAudited` |
| `expired_secret` | `SpecStore` | violated: `RefreshedIfExpired` |

**Bounds.** `MaxTime` bounds the clock, `MaxWrites` the writes of credential rows,
`MaxUpserts` the replacements of roles, `MaxAdministering` the administrative requests in
progress; nothing else counts.

In `exchange_race` access tokens, sessions and API keys live for 1, delegated tokens for
2, so that a delegated token outlives the access token it came from and, when it is
exchanged late, its session; at time 2 everything made at the start is dead and can be
tried again. Two delegations make a chain (a delegated token exchanged for another) and a
race (two exchanges at once). One revocation of many rows beside them is what a token can
escape. The key of a service account would differ from that of an agent in nothing its row
shows, and an agent of kind `AUTONOMOUS` from another only in being refused; the theorems
have both. The run takes exchanges and delegations to be alike (`SYMMETRY`): no action or
property names one, and it checks safety and step by step refinement only.

In `authorization` two roles on one identity tell a union of roles from one role; the role
bodies are everything, an allow with a deny, and nothing. Its properties are of one state
or one commit, so one administrative request at a time is enough. In `tool_call` two are a
lockout and a request that was let in before it; one call is enough, since calls share
only the policy, which changes in every way here.

In `credential_store` three writes are a store, a refresh and the store that overtakes it.
The default lifetime of a cache entry (3) is longer than the clock runs, the leeway (1)
shorter than a refreshed secret lives (2), so that entries are found, are passed over
within the leeway, and outlive their row. Two calls are one that waits or refreshes and
one that resolves. Calls and secrets are symmetric: no property distinguishes them, and
the run checks only safety.

In `policy_store` four replacements are two bundles of two roles, or a body that is there
and three requests about it; the five requests replace an allow by a deny, repeat an
entry, empty a role, list one role twice, and take two roles in both orders.

In `serving` three requests are two that hold and wait for each other's locks and one that needs
the loop or a thread meanwhile; they share a limit of 1, so that a second request is
refused inside a window and admitted after it, and the clock runs over a boundary.
That a window of 2 can let through twice its limit happens at times 1 and 2. In
`loop_deadlock` nobody is turned away.

The two runs of `Serving` turn deadlock checking off: once every request has ended the
process is idle. That it never stops earlier is `StopsOnlyForASecret`, and with fairness
`EveryRequestEnds`.

**Fairness.** Only `FairServing` states any. It assumes weak fairness of each request's
own steps: threads are scheduled; the event loop takes its callbacks in order, so a handler
that can go on does (`Begin`, `Forward`, `Resume`, `Discover`, `Close` need the loop to be
free, and while requests are few it is free again and again, which TLC confirms is
enough); and a wait for SQLite's lock ends, by the lock or by `GiveUp`. It also assumes
that an awaited server answers, falls silent for as long as the timeout of one read, or
breaks off: this is an assumption about servers, since the client's timeout
(`gateway/mcp/proxy.py:86-92`) does not end a call whose answer trickles in. Nothing makes
requests arrive or the clock go on. The same fairness is assumed on PostgreSQL, where it
does not help. The other specifications state no fairness, and the runs check only safety
under them; in particular nothing says that a tool call ends.

## 4. Where the code disagrees with its documentation

1. **An agent with no role does not limit its human** (`gateway/deps.py:146`).
   The comment above the line and `docs/authorization.md` section 9 say an
   administrative call through an agent needs the permission on both sides. An
   empty permission set is false in Python, so an agent with no role leaves the
   human's permissions as they are. With any entry, allow or deny,
   the intersection is taken.
   `DelegatedAdminTheorem` says how far it goes: who administers through an agent may
   always do so without it.
2. **A revoked delegation still mints tokens** (`gateway/api/auth.py:96-111`).
   `docs/authentication.md` section 4 says every token carrying a revoked `did`
   stops working. It stops authenticating, but the exchange accepts it and
   returns a token with a new `did`. The grant of the agent and the session are
   checked, so revoking either does stop it.
3. **A refusal by the SDK leaves no audit event**
   (`gateway/services/mcp_service.py:213`). The SDK's 401 body carries `error` as
   a string; the text of the error is looked up in it as in an object, and the
   exception comes before the event is written.
4. **An expired secret is sent from the cache** (`credentials/manager.py:169`).
   The module says an expired credential is refreshed. An API key stored with an
   `expires_at` is cached for 300 s whatever that says, and a hit returns before
   the expiry is looked at. `ExpiryRespected` says how far this goes: secrets with
   an expiry of their own (OAuth) are never sent late, the others by less than
   300 s minus the leeway.
5. **Two replacements of a role add up** (`authorization/rbac.py:76`).
   `authorization/policies.py` says that loading a bundle replaces the entries of a
   role. Each request deletes the entries it has read; one that read the role before
   another committed leaves the other's entries beside its own, so a permission the
   later body no longer allows stays allowed. `LatestBodyInForce` and
   `UndisturbedReplaces` say how far this goes: the later body itself is in force,
   its denies above all, and nothing is left over when no other request for the
   same role commits in between.
6. **A blocking wait can stop the gateway** (`credentials/manager.py:177`).
   `docs/implementation-notes.md` section 3 calls synchronous database sessions in
   asynchronous handlers "correct but blocking". On PostgreSQL a call that has
   refreshed a secret holds the lock of its row while it awaits its server. A second
   call that refreshes the same secret waits for that lock in a statement that blocks
   the event loop, so the first is never resumed and never commits: both, and every
   other handler of the process, wait for ever. On SQLite the five-second limit of the
   wait ends this (`serving`): the second request fails, whole. `ServingGoesOn` proves that
   this is the only way the gateway can stop: keys, audit events, the limiter and
   waiting threads never do it.

What the models show besides, where no document says otherwise:

* After one failed signing no exchange succeeds until its row is removed: the row is
  committed with an empty `jti`, which is unique (`gateway/api/auth.py:132-143`,
  `models/session.py:71`).
* An exchange that commits while `revoke_delegations_for_user` runs hands out a token
  that works on.
* A server that answers a JSON object with neither a result nor an error is recorded as
  `allow` (`gateway/mcp/proxy.py:110-122`).
* A call whose handler raises, or is cancelled, commits what it has written and no event.
* A store that overlaps a refresh can leave a row of columns of both.
* An administrative request that was let in before its caller lost the permission
  commits all the same, and a tool call decided before runs.

## 5. What is proved

Every safety property of section 3 is a theorem of its specification: it holds
for every set of identities, roles, tools, servers, sessions and calls, every
role body, every lifetime and every `MaxTime`, under the named assumptions below.

`AuthenticationProofs` (about `Authentication!Spec`; assumes that lifetimes are
positive, identifiers are not `None`, rows are not `None` or `Purged`):

| Theorem | Argument |
|---|---|
| `TypeCorrect` | `TypeOK` is inductive, one lemma per group of actions |
| `LogoutTheorem` | `LogoutEndsLineage` is not inductive: a token in the hands of an exchange may become a client's. `LineageInv` says that every token, handed out or about to be, carries the `sid` of its login, and that the login's session belongs to its subject. Sessions never change owner and never come back (`SessionsKept`). |
| `RecordTheorem` | `RecordInv` adds to it what each exchange is about to commit (`PendingRow`): the row matches the token, its identifier is unused, and no other exchange is about to use it; with or without its token, a commit writes that row (`CommitWrites`) |
| `HoldTheorem` | `HoldInv`: the session of a pending row, too, has not been purged |
| `NoResurrectionTheorem` | an action property: the clock goes forward, and revocation and expiry of each kind of row are final under every action |
| `RevokeAllTheorem` | an action property. `RevokeInv`: while a revocation is between its read and its commit, every token it must stop names a delegation that is among the rows it read or is revoked (`Stoppable`). When it reads, `RecordInv` says that each such token's `did` names a committed row of its subject; afterwards no step takes a revocation or a row back (`DelegationsKept`) |
| `AuthorityTheorem` | `AuthInv` is type, lineage and record together. Under it each action is a step of `Authority`: a login begins one (`LoginPromised`), a commit of an exchange delegates, delegates in vain, or delegates too late (`CommitPromised`), every other action only takes away (`OthersPromised`), because open logins and live mandates only shrink (`OpenShrinks`, `LiveShrinks`) and every working token is backed (`LiveIsBacked`, from the lineage) |
| `AuthorityMeans` | about the abstract specification alone: a credential that works is backed, and none that has ceased works again. With `AuthorityTheorem` it holds of the gateway |

`AuthorizationProofs` (about `Authorization!SpecPolicy`; assumes that humans,
agents and service accounts are disjoint and `None` is none of them, that the
bootstrap administrator exists, and that the administrative requests at a time are
finitely many). The decision is a function of the policy, so
most of the work is about operators, and needs only `PolicyTypeOK`:

| Theorem | Argument |
|---|---|
| `PolicyTypeCorrect` | `PolicyTypeOK` is inductive |
| `EngineTheorem` | `ContextKinds` lists the kinds of context; `ResolvedIdentity` says what identity the staged checks find, `ChainDecision` and `OwnDecision` when they all pass; together they are the rules (`EngineIsPolicy`) |
| `DelegationTheorem` | the grantee of a delegated call is the human in both cases, so the checks of the human alone are a subset of those through the agent |
| `DelegatedAdminTheorem` | who passes `is_admin` through an agent passes it alone, and the agent does not lack the permission unless its roles have no entry at all (`DelegatedAdminIsUserAdmin`): the two sides of the intersection |
| `LockoutTheorem` | who passes `is_admin` includes someone who does not lack the permission (`AdminHolder`), so nobody is let in; every other step that changes the policy lowers `administering` |
| `TighteningTheorem` | a permission set only shrinks when allows go and denies come (`MatchesGrow`, `PermitsShrink`), through flattening of roles (`TighterRoles`); an identity that may still run a call could run it before (`TighterRuns`) |
| `AgentGrantsTheorem` | the execution identity of a call for a human depends on the grants of that human alone |
| `RegisteringTheorem` | a server that was not registered has no tools: the step changes nothing an allowed call rests on but its own name |

`ToolCallProofs` (about `ToolCall!SpecToolCall`; assumes in addition that `None`
is no answer of a server):

| Theorem | Argument |
|---|---|
| `ToolCallTypeCorrect` | inductive, over `PolicyTypeOK` |
| `ToolCallUsesPolicy` | every behaviour of `SpecToolCall` is one of `SpecPolicy`, step by step: no handler of a call changes the policy. So the theorems above hold while calls run |
| `TrailTheorem` | `TrailMatchesEffects` speaks of ended calls only. `CallInv` says, for each place a call can be in, what the wire, the answer, the effect and the event may be; each action changes one call and frames the others (`Frame`) |
| `AuthorizedTheorem` | `AuthorizedOK`: a call that waits for its decision has in `authorized` what the rules allow it now, and one that is past it the identity it has. A decision is for one of the former (`DecisionPermitted`, from `EngineIsPolicy`); every other step keeps the identity or drops it (`IdentityKept`), and the history only grows (`HistoryGrows`). What is on the wire, in the effect and in the trail is the identity of the call (`CallInv`) |
| `OneInstantTheorem` | an action property. `RowsDecideCorrect`: with no row late, `AllowedReading` is `Allowed`. `PolicyOneWay`: each administrative route moves all rows of a decision in one direction, so they are all at least as permissive before it as after, or the reverse; a mixture is then no more permissive than one of the two (`ReadingOneWay`). A role's entries matter through `PutRoleOneWay`: one body replaces another for all its holders |
| `PromiseTheorem` | initial states map to initial states; under `CallInv` each action of the gateway, of the server and of administrators maps to one named action of `AuditedCall` or leaves its variables unchanged |

`DiscoveryProofs` and `DownstreamProofs` (about `Authorization!SpecPolicy`; the
latter assumes that the gateway's audience is an audience):

| Theorem | Argument |
|---|---|
| `DiscoveryTheorem` | a tool is permitted just when it is callable (`PermittedIsCallable`, from `EngineIsPolicy`), and what is callable passes the filters of the search (`CallableIsListed`) |
| `WithdrawnTheorem` | an action property, from the same and the filters of the second read |
| `ServerSeesTheorem` | `DecisionShape`: a decision names a service account just when it runs as one; `TokenFields` carries the three identities through token and claims |
| `RestrictedReadsTheorem` | from `ServerSeesTheorem` and the rules of the engine (`DecidedAccount`) |
| `SidesTheorem` | the type of a token, and its audience |

`ServingProofs` (about `RateLimiter!SpecLimiter` and `Serving!SpecServing`, on either
database; assumes that there are finitely many requests, that windows have a length,
and that the rows of keys, the rows of secrets and the requests are apart):

| Theorem | Argument |
|---|---|
| `LimiterBurst` | `LimiterInv`: windows of a key follow each other at least a window's length apart, the count of a window is the number of requests counted in it, at most `Limit` of which were admitted. A window's length meets at most two windows, counted by requests whose thread was prompt |
| `LimiterRefusals` | `RefusedAfterLimit` in the same invariant: before a refusal, of however slow a thread, the whole limit was admitted in its window, which had not ended by the thread's clock |
| `ServingUsesLimiter` | step by step; it gives the two bounds for `Serving` (`ServingLimits`) |
| `ServingType`, `ServingReleases`, `ServingKeepsTogether` | `ServingInv`, one step lemma (`OneRequestMoves`) for all actions: who is on the loop is in a stage that runs there, and a request has committed its event just when it is answered; what else has committed anything is a call that raised |
| `ServingGoesOn` | `OrderInv` says what a request may hold at each stage: nothing until it is authenticated, a refreshed secret only while it is on the loop or awaits its server; and that a handler on the loop has it. With the loop free (`FreeLoop`) only an authentication can wait, and for a request that is past its own, which goes on. A handler on the loop (`HolderOfLoop`) waits for nobody's audit event, and for a secret only of one that awaits its server; on SQLite every wait ends by itself |
| `ServingGoesForward` | an action property: `StepsLeft` is a natural number at most 9, every step of a request lowers its own, and no step raises another's |

`CredentialProofs` (about `CredentialStore!SpecStore`; assumes that the server's
own credential is an owner's, that lifetimes of refreshed secrets are positive,
and that `None` is no owner, row, time or cache entry):

| Theorem | Argument |
|---|---|
| `CredentialTypeCorrect` | `CredentialTypeOK` is inductive |
| `CurrentSecretTheorem` | an action property: `find_credential` is the most specific credential (`Found`); `CacheInv` says that an entry under the key of a row that is committed or may yet be holds what opening that row gives. It is kept because a key is made of the counter of writes: an entry under it can only have come from that row |
| `ExpiryTheorem` | from the same invariant (`Sound`) an entry's expiry is its secret's, or at most `DefaultTTL` after a time at which the row had not expired, if the row's expiry is that of its secret |
| `DeletionTheorem` | `LockInv`: a call that has flushed a row holds its lock, so the committed row it will replace has the identifier it read |
| `UpdateTheorem` | an action property. `OrderInv`: what a call or a script has flushed is later than the committed row of the same owner, and whole if that is the version it had read (`Follows`), since the columns it left alone are then those it read; kept because nobody else writes a locked row (`LockInv`), and a new write takes the counter's next value |

`PolicyStoreProofs` (about `PolicyStore!SpecPolicyStore`; assumes that a request is
a sequence of documents that is not empty, and that `None` is no transaction):

| Theorem | Argument |
|---|---|
| `PolicyStoreTypeCorrect` | `PolicyStoreTypeOK` is inductive |
| `LatestBodyTheorem` | `LatestBodyInForce` needs to know what a transaction is about to commit. `TxInv` says of each: the rows it has written belong to roles it has come to, which exist (`Reach`); of a role it has replaced, what it has added is the body (`Wrote`); as long as no other commit changes a role, what is in force of it is what the transaction has loaded, and then what it has deleted (`ReadAll`); and the role of every row exists (`RolesExist`). `CommitMeans` draws the conclusion for the step that commits |
| `UndisturbedTheorem` | an action property, from `ReadAll` and `CommitMeans` |

Only checked by TLC: `EveryRequestEnds`, since liveness and
`ENABLED` are outside what TLAPS proves (`ServingGoesOn` and `ServingGoesForward` are
what can be said of it without fairness), and the six violations of section 4, which are
counterexamples.

## 6. What is not modelled

Cryptography (passwords, key hashes, signatures, the vault) is taken as perfect.

* *Policy*: reading a bundle from a file is left out. Scopes of grants and delegations
  are stored by the code and read by nothing. `set_password`, `update_server`,
  `upsert_role(replace=False)` and `authorize_service_account_use` have no caller in
  the package.
* *Tokens*: the lifetime of a downstream token. It is the only thing that ends one;
  nothing revokes it, and nothing says so.
* *Discovery*: scores, ranking and the cut at `limit`.
* *Servers*: the issues and tables themselves; the Kubernetes server, whose rules do
  not look at who calls.
* *Credentials*: the refresh token and the headers, and how a provider gets a new
  secret: it answers with one that has not expired, or fails. Two administrators who
  store or delete at the same time.
* *Serving*: the sizes of the thread pool and of the connection pool, and the writes of
  the administrative routes. The gateway as several processes: each has its own limiter
  and cache (`docs/implementation-notes.md` section 3).
* *Audit*: queries and redaction.
* Seeding, the command line, configuration, schemas, start-up: no concurrent state.

## 7. Plan

Done: every module of section 2, and the proofs of all their safety properties. What
would come next:

1. The size of the thread pool and of the connection pool in `Serving`, and the
   administrative routes among its requests.
2. In `ToolCall`, a decision during which several commits fall, or one commit of
   several roles: what a mixture may allow then.
3. `Matching`: `matches` against a reference definition over bounded patterns, and
   what `intersect` loses of two permission sets.
4. Proofs: that `PolicyStore`, when no two requests for a role overlap, implements
   `Authorization`'s `PutRole`.
