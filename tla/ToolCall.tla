------------------------------ MODULE ToolCall ------------------------------
(***************************************************************************)
(* POST /mcp/call from the authenticated request to the committed audit    *)
(* event (agentid/gateway/services/mcp_service.py, gateway/mcp/proxy.py,   *)
(* gateway/api/mcp.py), with the server it is forwarded to                 *)
(* (agentid/servers/common.py, agentid/sdk/server/middleware.py).          *)
(*                                                                         *)
(* The request is authenticated, decided, given a credential, sent and     *)
(* answered at five moments: administrators change the policy between any  *)
(* two of them, from other threads and processes.                          *)
(***************************************************************************)
EXTENDS Authorization, Sequences

CONSTANT Calls   \* requests to /mcp/call

Replies == {"rejection", "result", "error", "nothing"}

ASSUME NoneIsNoAnswer == None \notin Replies

VARIABLES
  calls,      \* Calls -> where the request is in the gateway
  wire,       \* Calls -> the identity of a request sent and not yet taken, or None
  answers,    \* Calls -> what the server answered, or None
  effects,    \* Calls -> the identity the tool ran as, or None
  events,     \* Calls -> the committed mcp.call audit events of the request
  authorized  \* history: Calls -> the identities the documented rules let the
              \* call run as at some moment between authentication and decision

callVars == <<calls, wire, answers, effects, events>>
callSystemVars == <<policyVars, callVars, authorized>>

Event == [decision : {"allow", "deny", "error"}, identity : Principals]

\* Past the decision, whose execution identity the request keeps.
Permitted == {"decided", "ready", "forwarded"}

Call ==
  [at : {"idle"}]
    \union [at : {"authenticated"}, ctx : Contexts, tool : Tools,
            requested : ServiceAccounts \union {None}]
    \union [at : Permitted, identity : Principals]
    \union [at : {"ended"}, how : {"refused", "failed", "answered", "raised", "crashed"},
            identity : Principals \union {None}]

At(stage, identity) == [at |-> stage, identity |-> identity]
Ended(how, identity) == [at |-> "ended", how |-> how, identity |-> identity]

execution_identity_HumanOnly(ctx) ==
  IF ctx.service_account # None THEN ctx.service_account ELSE ctx.user

\* RequestContext.execution_identity.
execution_identity(ctx) ==
  IF ctx.service_account # None THEN ctx.service_account
  ELSE IF ctx.user # None THEN ctx.user ELSE ctx.agent

\* AuditLogger.log() and the commit in the finally clause of the route.
Audit(c, decision, identity) ==
  events' = [events EXCEPT ![c] =
    Append(@, [decision |-> decision, identity |-> identity])]

Decision(c) == authorize_tool(calls[c].ctx, calls[c].tool, calls[c].requested)

\* The decision below is one step.  The engine takes several queries, the
\* tool first and then one or more for each of these, and every query reads
\* what is committed by then: a commit may fall between any two of them.
Rows == {"server", "user", "agent", "account", "grant"}

permitted_principal(p, permission) ==
  p \in active /\ ~denies(p, permission) /\ ~lacks(p, permission)

\* The row of p, read before the commit or, if it is among the late ones, after.
ReadUsable(row, late, p, permission) ==
  IF row \in late THEN permitted_principal(p, permission)' ELSE permitted_principal(p, permission)

\* The service account a call needs, None where it needs none or names none.
account_for(ctx, tool, requested) ==
  IF ctx.user = None /\ ctx.agent = None THEN ctx.service_account
  ELSE IF requested # None THEN requested
  ELSE IF tool.requires_service_account THEN tool.default ELSE None

\* authorize_tool() allows, the rows in late read after a commit.
AllowedReading(ctx, t, requested, late) ==
  \E tool \in {tools[t]} \ {None} : \E sa \in {account_for(ctx, tool, requested)} :
    /\ ctx.scopes = {} \/ REQUIRED_TOOL_SCOPE \in ctx.scopes
    /\ tool.enabled
    /\ IF "server" \in late THEN ToolServer[t] \in enabled' ELSE ToolServer[t] \in enabled
    /\ ctx.user # None => ReadUsable("user", late, ctx.user, tool.permission)
    /\ ctx.agent # None => ReadUsable("agent", late, ctx.agent, tool.permission)
    /\ sa # None => ReadUsable("account", late, sa, tool.permission)
    /\ ctx.user # None \/ ctx.agent # None =>
         /\ tool.requires_service_account => sa # None
         /\ sa # None => IF "grant" \in late THEN <<grantee_for(ctx), sa>> \in sa_grants'
                                             ELSE <<grantee_for(ctx), sa>> \in sa_grants

----------------------------------------------------------------------------
\* current_context(): the caller is authenticated once.
Authenticate(c, ctx, t, requested) ==
  /\ calls[c].at = "idle"
  /\ authenticated(ctx)
  /\ calls' = [calls EXCEPT ![c] =
       [at |-> "authenticated", ctx |-> ctx, tool |-> t, requested |-> requested]]
  /\ UNCHANGED <<policyVars, wire, answers, effects, events>>

\* resolve_route() finds no tool, or the engine denies.
Refuse(c) ==
  /\ calls[c].at = "authenticated"
  /\ ~Allowed(calls[c].ctx, calls[c].tool, calls[c].requested)
  /\ Audit(c, "deny", execution_identity(calls[c].ctx))
  /\ calls' = [calls EXCEPT ![c] = Ended("refused", None)]
  /\ UNCHANGED <<policyVars, wire, answers, effects>>

Decide_RouteOnly(c) ==
  /\ calls[c].at = "authenticated"
  /\ tools[calls[c].tool] # None
  /\ calls' = [calls EXCEPT ![c] = At("decided", execution_identity(calls[c].ctx))]
  /\ UNCHANGED <<policyVars, wire, answers, effects, events>>

\* The engine allows.  The policy is not looked at again.
Decide(c) ==
  /\ calls[c].at = "authenticated"
  /\ Allowed(calls[c].ctx, calls[c].tool, calls[c].requested)
  /\ calls' = [calls EXCEPT ![c] = At("decided", Decision(c).execution_identity)]
  /\ UNCHANGED <<policyVars, wire, answers, effects, events>>

\* CredentialManager.resolve(), which may take a provider's refresh to return.
ResolveCredential(c) ==
  /\ calls[c].at = "decided"
  /\ calls' = [calls EXCEPT ![c] = At("ready", calls[c].identity)]
  /\ UNCHANGED <<policyVars, wire, answers, effects, events>>

\* It raises an AgentIDError.
CredentialRefused(c) ==
  /\ calls[c].at = "decided"
  /\ Audit(c, "error", calls[c].identity)
  /\ calls' = [calls EXCEPT ![c] = Ended("failed", calls[c].identity)]
  /\ UNCHANGED <<policyVars, wire, answers, effects>>

\* It raises anything else: a stored expiry that does not parse, a refresh
\* function that fails.
CredentialRaises(c) ==
  /\ calls[c].at = "decided"
  /\ calls' = [calls EXCEPT ![c] = Ended("raised", calls[c].identity)]
  /\ UNCHANGED <<policyVars, wire, answers, effects, events>>

\* The request is sent, its credential naming the execution identity.
Forward(c) ==
  /\ calls[c].at = "ready"
  /\ wire' = [wire EXCEPT ![c] = calls[c].identity]
  /\ calls' = [calls EXCEPT ![c] = At("forwarded", calls[c].identity)]
  /\ UNCHANGED <<policyVars, answers, effects, events>>

\* The server answers with a result, or with an object that has neither a result
\* nor an error: is_error asks only for an error and a result marked isError,
\* and the status of the answer is not looked at.
Answered(c) ==
  /\ calls[c].at = "forwarded"
  /\ answers[c] \in {"result", "nothing"}
  /\ Audit(c, "allow", calls[c].identity)
  /\ calls' = [calls EXCEPT ![c] = Ended("answered", calls[c].identity)]
  /\ UNCHANGED <<policyVars, wire, answers, effects>>

AnsweredError_AsAllow(c) ==
  /\ calls[c].at = "forwarded"
  /\ answers[c] = "error"
  /\ Audit(c, "allow", calls[c].identity)
  /\ calls' = [calls EXCEPT ![c] = Ended("answered", calls[c].identity)]
  /\ UNCHANGED <<policyVars, wire, answers, effects>>

\* It answers with a JSON-RPC error object, or a result marked isError.
AnsweredError(c) ==
  /\ calls[c].at = "forwarded"
  /\ answers[c] = "error"
  /\ Audit(c, "error", calls[c].identity)
  /\ calls' = [calls EXCEPT ![c] = Ended("answered", calls[c].identity)]
  /\ UNCHANGED <<policyVars, wire, answers, effects>>

\* It answers {"error": "<code>", ...}, the server SDK's refusal of the
\* gateway's credential: the message is looked up in the string as if it were
\* an object, which raises before the event is written.
AnsweredRejection(c) ==
  /\ calls[c].at = "forwarded"
  /\ answers[c] = "rejection"
  /\ calls' = [calls EXCEPT ![c] = Ended("raised", calls[c].identity)]
  /\ UNCHANGED <<policyVars, wire, answers, effects, events>>

\* A DownstreamError: no connection, no bytes for the time the proxy gives each
\* read, a connection that breaks, a body that is no JSON object.  The server may
\* have run the tool, or be about to.  A server that keeps sending bytes is
\* waited for without end, so nothing says that this ever happens.
NoAnswer(c) ==
  /\ calls[c].at = "forwarded"
  /\ Audit(c, "error", calls[c].identity)
  /\ calls' = [calls EXCEPT ![c] = Ended("answered", calls[c].identity)]
  /\ UNCHANGED <<policyVars, wire, answers, effects>>

\* The process stops before the commit, or the handler is cancelled.
Crash(c) ==
  /\ calls[c].at \in {"authenticated"} \union Permitted
  /\ calls' = [calls EXCEPT ![c] =
       Ended("crashed", IF calls[c].at \in Permitted THEN calls[c].identity ELSE None)]
  /\ UNCHANGED <<policyVars, wire, answers, effects, events>>

----------------------------------------------------------------------------
\* The server, which may take a request after the gateway has given it up.

Answer(c, a) ==
  /\ wire[c] # None
  /\ wire' = [wire EXCEPT ![c] = None]
  /\ answers' = [answers EXCEPT ![c] = a]
  /\ UNCHANGED <<policyVars, calls, events>>

\* GatewayAuthMiddleware: a credential that does not verify (its audience, the
\* server's key or clock) never reaches the tool.
RejectCredential(c) == Answer(c, "rejection") /\ UNCHANGED effects

\* FastAPI's own answer to a path or a method the server does not serve, when
\* the registered endpoint is not that of its /mcp route: {"detail": ...}.
NotServed(c) == Answer(c, "nothing") /\ UNCHANGED effects

RunTool(c) == Answer(c, "result") /\ effects' = [effects EXCEPT ![c] = wire[c]]

\* The handler fails, before or after it has changed something.
FailTool(c) ==
  /\ Answer(c, "error")
  /\ effects' \in {effects, [effects EXCEPT ![c] = wire[c]]}

----------------------------------------------------------------------------
Gateway(c) ==
  \/ Refuse(c) \/ Decide(c)
  \/ ResolveCredential(c) \/ CredentialRefused(c) \/ CredentialRaises(c)
  \/ Forward(c)
  \/ Answered(c) \/ AnsweredError(c) \/ AnsweredRejection(c) \/ NoAnswer(c)

Server(c) == RejectCredential(c) \/ NotServed(c) \/ RunTool(c) \/ FailTool(c)

\* What the documented rules let a call run as while it waits for its decision.
PermittedAs(c) ==
  IF calls[c].at # "authenticated" \/ tools[calls[c].tool] = None THEN {}
  ELSE {p \in Principals : MayRunAs(calls[c].ctx, calls[c].tool, calls[c].requested, p)}

InitToolCall ==
  /\ InitPolicy
  /\ calls = [c \in Calls |-> [at |-> "idle"]]
  /\ wire = [c \in Calls |-> None]
  /\ answers = [c \in Calls |-> None]
  /\ effects = [c \in Calls |-> None]
  /\ events = [c \in Calls |-> <<>>]
  /\ authorized = [c \in Calls |-> {}]

NextToolCall ==
  /\ \/ NextPolicy /\ UNCHANGED callVars
     \/ \E c \in Calls :
          \/ \E ctx \in Contexts, t \in Tools, q \in ServiceAccounts \union {None} :
                Authenticate(c, ctx, t, q)
          \/ Gateway(c)
          \/ Server(c)
          \/ Crash(c)
  /\ authorized' = [c \in Calls |-> authorized[c] \union PermittedAs(c)']

SpecToolCall == InitToolCall /\ [][NextToolCall]_callSystemVars

----------------------------------------------------------------------------
\* Properties.

\* The shape of the state.
ToolCallTypeOK ==
  /\ calls \in [Calls -> Call]
  /\ wire \in [Calls -> Principals \union {None}]
  /\ answers \in [Calls -> Replies \union {None}]
  /\ effects \in [Calls -> Principals \union {None}]
  /\ events \in [Calls -> Seq(Event)]
  /\ authorized \in [Calls -> SUBSET Principals]

\* What AuditedCall says of a call, read off the state.
Verdict == [c \in Calls |->
  CASE calls[c].at \in Permitted -> calls[c].identity
    [] calls[c].at = "ended" ->
         IF calls[c].how = "refused" THEN "refused" ELSE calls[c].identity
    [] OTHER -> None]

Log == [c \in Calls |-> IF events[c] = <<>> THEN None ELSE events[c][1]]

Promise == INSTANCE AuditedCall WITH
  Identities <- Principals, verdict <- Verdict, reply <- answers, effect <- effects, log <- Log

\* The gateway keeps the promise of AuditedCall: a call is decided once, runs at
\* most once and as the identity it was permitted as, and leaves at most one
\* event, which says "deny" exactly of a refused call and "allow" only of one
\* whose server answered without an error (services/mcp_service.py, call_tool()).
PromiseKept == Promise!Spec

\* Whatever administrators change while a call is in progress, what is sent, what
\* runs and what the trail says was permitted is an identity that the documented
\* rules allowed this call at some moment after its caller was authenticated: a
\* permission taken away before, or given after the decision, opens nothing
\* (mcp_service.py: "authorize, always before routing the request onward").  One
\* taken away after the decision does not stop the call.
RunsAsAuthorized ==
  \A c \in Calls :
    /\ {wire[c], effects[c]} \ {None} \subseteq authorized[c]
    /\ \A i \in DOMAIN events[c] :
         events[c][i].decision # "deny" => events[c][i].identity \in authorized[c]

\* A decision whose queries fall on both sides of an administrator's commit
\* allows nothing that the policy before and the policy after both refuse: no
\* mixture of the two opens a call.  Each commit of the administrative routes
\* moves every row of a decision in the same direction (authorization/engine.py,
\* _resolve_principals() and _resolve_execution_identity()).
DecisionsAreOfOneInstant ==
  [][ \A c \in Calls : \A call \in {calls[c]} : call.at = "authenticated" =>
        \A late \in SUBSET Rows :
          AllowedReading(call.ctx, call.tool, call.requested, late) =>
            \/ Allowed(call.ctx, call.tool, call.requested)
            \/ Allowed(call.ctx, call.tool, call.requested)'
    ]_callSystemVars

\* The trail of an ended call says what happened to it: one that was refused, or
\* got no credential, never reached the tool and never will; an "allow" ran as
\* the recorded identity unless its server answered nothing; nothing ran as
\* another; a call that left no event is one whose handler was stopped or raised,
\* and one that raised had no effect (services/mcp_service.py, call_tool()).
TrailMatchesEffects ==
  \A c \in Calls : calls[c].at = "ended" =>
    /\ calls[c].how \in {"refused", "failed", "raised"} => wire[c] = None /\ effects[c] = None
    /\ IF calls[c].how \in {"raised", "crashed"} THEN events[c] = <<>>
       ELSE /\ Len(events[c]) = 1
            /\ effects[c] \in {None, events[c][1].identity}
            /\ events[c][1].decision = "allow" /\ answers[c] # "nothing"
                 => effects[c] # None

\* mcp_service.py: "Every exit path (allowed, denied, or failed downstream)
\* writes exactly one audit event."  A crash is no exit path.
FailedDownstreamIsAudited ==
  \A c \in Calls :
    calls[c].at = "ended" /\ calls[c].how # "crashed" /\ answers[c] # None
      => Len(events[c]) = 1

=============================================================================
