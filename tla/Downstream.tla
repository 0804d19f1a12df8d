---------------------------- MODULE Downstream -----------------------------
(***************************************************************************)
(* The credential a call carries to its server, and what the server makes  *)
(* of it (agentid/identity/tokens.py, agentid/credentials/token_exchange.py,*)
(* agentid/sdk/server/, agentid/servers/).                                 *)
(*                                                                         *)
(* Every token is signed with the one key and names the one issuer.  The   *)
(* audience of a server is a field an administrator sets, so a token may   *)
(* be minted for any audience.  Expiry is left out.                        *)
(***************************************************************************)
EXTENDS Authorization

CONSTANTS
  Audiences,       \* the audiences tokens are minted with and servers check
  GatewayAudience  \* jwt_audience, the audience of the gateway itself

ASSUME AudienceAssumption == GatewayAudience \in Audiences

\* McpService.call_tool() puts the decision's service account in the context.
decided(ctx, d) == [ctx EXCEPT !.service_account = d.service_account]

downstream_token_HumanFirst(ctx, aud) ==
  [typ |-> "downstream", aud |-> aud, persona |-> ctx.persona,
   sub |-> IF ctx.user # None THEN ctx.user
           ELSE IF ctx.service_account # None THEN ctx.service_account ELSE ctx.agent,
   sub_type |-> IF ctx.service_account # None THEN "service_account"
                ELSE IF ctx.user # None THEN "user" ELSE "agent",
   act |-> ctx.agent, on_behalf_of |-> ctx.user,
   execution_identity |-> ctx.service_account]

\* issue_downstream_token(): the subject is the service account when there is
\* one, otherwise the user, otherwise the agent.
downstream_token(ctx, aud) ==
  [typ |-> "downstream", aud |-> aud, persona |-> ctx.persona,
   sub |-> IF ctx.service_account # None THEN ctx.service_account
           ELSE IF ctx.user # None THEN ctx.user ELSE ctx.agent,
   sub_type |-> IF ctx.service_account # None THEN "service_account"
                ELSE IF ctx.user # None THEN "user" ELSE "agent",
   act |-> ctx.agent, on_behalf_of |-> ctx.user,
   execution_identity |-> ctx.service_account]

\* issue_access_token() and issue_delegated_token(), for the human of ctx.
client_token(ctx) ==
  [typ |-> IF ctx.agent = None THEN "access" ELSE "delegated",
   aud |-> GatewayAudience, persona |-> "user", sub |-> ctx.user, sub_type |-> "user",
   act |-> ctx.agent, on_behalf_of |-> None, execution_identity |-> None]

ClientTokens == {client_token(ctx) : ctx \in {c \in Contexts : c.user # None}}

----------------------------------------------------------------------------
\* The gateway, presented with a token.

gateway_accepts_AnyType(token) == token.aud = GatewayAudience

\* TokenService.verify() and the first check of _from_claims().
gateway_accepts(token) ==
  token.aud = GatewayAudience /\ token.typ # "downstream"

\* token_exchange(), before it looks at the session.
exchangeable(token) ==
  /\ token.aud = GatewayAudience /\ token.typ # "downstream"
  /\ token.sub_type = "user" /\ token.persona = "user"

----------------------------------------------------------------------------
\* A server, presented with a token.

\* TokenVerifier.verify(), which GatewayAuthMiddleware calls on every request.
verified(token, audience) == token.aud = audience /\ token.typ = "downstream"

\* GatewayClaims.from_payload().
claims(token) ==
  [subject |-> token.sub, subject_type |-> token.sub_type, agent |-> token.act,
   on_behalf_of |-> token.on_behalf_of, service_account |-> token.execution_identity]

human_user(c) == IF c.subject_type # "user" THEN c.on_behalf_of ELSE c.subject

\* identity_chain(), which the server writes into its own records.
identity_chain(c) == <<human_user(c), c.agent, c.service_account>>

\* servers/github: _require_write(), `writers` being who was given the repository.
may_write(c, writers) ==
  {c.subject, c.agent, c.on_behalf_of, c.service_account} \intersect writers # {}

may_read_restricted_AnyMachine(c) == human_user(c) = None

\* servers/postgres: _require_readable() of a restricted table.
may_read_restricted(c) == c.service_account # None

----------------------------------------------------------------------------
\* Properties.

\* The allowed calls, with their decisions.
AllowedCalls ==
  {call \in Contexts \X {t \in Tools : tools[t] # None} \X Requests :
     authorize_tool(call[1], call[2], call[3]).effect = "allow"}

\* What the server of an allowed call is told of it.
Told(ctx, d, aud) == claims(downstream_token(decided(ctx, d), aud))

\* The server acts for, and records, exactly the chain the gateway decided on:
\* the subject is the execution identity of the decision, the human and the
\* agent are those of the request, the service account is named just when the
\* call runs as one; and who may write a repository is one of that chain
\* (identity/tokens.py, sdk/server/claims.py, servers/github/server.py).
ServerSeesDecision ==
  \A call \in AllowedCalls, aud \in Audiences :
    LET ctx == call[1]
        d   == authorize_tool(call[1], call[2], call[3])
        c   == Told(ctx, d, aud)
    IN  /\ c.subject = d.execution_identity
        /\ identity_chain(c) =
             <<ctx.user, ctx.agent,
               IF d.execution_identity \in ServiceAccounts THEN d.execution_identity ELSE None>>
        /\ \A writers \in SUBSET Principals :
             may_write(c, writers) <=>
               {ctx.user, ctx.agent, d.execution_identity} \intersect writers # {}

\* A restricted table is read only by a call that runs as a service account
\* which is enabled and itself permitted, and which the human, or the agent
\* that acts alone, was granted (servers/postgres/server.py with
\* authorization/engine.py, _resolve_execution_identity()).
RestrictedReadsAreGranted ==
  \A call \in AllowedCalls, aud \in Audiences :
    LET ctx == call[1]
        d   == authorize_tool(call[1], call[2], call[3])
    IN  may_read_restricted(Told(ctx, d, aud)) =>
          /\ d.execution_identity \in ServiceAccounts \intersect active
          /\ ~lacks(d.execution_identity, tools[call[2]].permission)
          /\ \/ ctx.user = None /\ ctx.agent = None
             \/ <<IF ctx.user # None THEN ctx.user ELSE ctx.agent,
                  d.execution_identity>> \in sa_grants

\* A credential works on one side only, even for a server that was registered
\* with the audience of the gateway: no server takes a client's token, the
\* gateway neither authenticates nor exchanges a server's, and a server takes
\* only those minted for its own audience (sdk/server/verifier.py: "a token
\* minted for another server, or a client's own gateway token, fails here").
TokensKeepToTheirSide ==
  /\ \A token \in ClientTokens, aud \in Audiences : ~verified(token, aud)
  /\ \A call \in AllowedCalls, aud \in Audiences :
       LET token == downstream_token(
                      decided(call[1], authorize_tool(call[1], call[2], call[3])), aud)
       IN  /\ ~gateway_accepts(token) /\ ~exchangeable(token)
           /\ \A other \in Audiences : verified(token, other) <=> other = aud

=============================================================================
