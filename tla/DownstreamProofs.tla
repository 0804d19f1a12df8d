-------------------------- MODULE DownstreamProofs -------------------------
(***************************************************************************)
(* The credential of an allowed call, for every policy, caller and         *)
(* audience: it tells the server of the gateway's decision, and works      *)
(* nowhere else.                                                           *)
(***************************************************************************)
EXTENDS Downstream, AuthorizationProofs

\* The decision that lets a call go on names its execution identity, and names
\* it as a service account just when it is one.
LEMMA DecisionShape ==
  ASSUME PolicyTypeOK, NEW ctx \in Contexts, NEW t \in Tools, tools[t] # None,
         NEW q \in Requests, NEW d, d = authorize_tool(ctx, t, q), d.effect = "allow"
  PROVE  /\ d.service_account \in Principals \union {None}
         /\ IF d.service_account # None
            THEN /\ d.execution_identity = d.service_account
                 /\ Usable(d.service_account, tools[t].permission)
                 /\ \/ ctx.user = None /\ ctx.agent = None
                    \/ <<grantee_for(ctx), d.service_account>> \in sa_grants
            ELSE /\ ctx.user # None \/ ctx.agent # None
                 /\ d.execution_identity = grantee_for(ctx)
<1>1. active \subseteq Principals
  BY DEF PolicyTypeOK
<1>2. \A reason : deny(reason).effect # "allow"
  BY DEF deny
<1>3. \A i, sa : allow(i, sa).execution_identity = i /\ allow(i, sa).service_account = sa
  BY DEF allow
<1>4. CASE ctx.user = None /\ ctx.agent = None
  <2>1. d = allow(ctx.service_account, ctx.service_account)
        /\ Usable(ctx.service_account, tools[t].permission)
    BY <1>4, OwnDecision
  <2>2. ctx.service_account # None
    BY <1>4, ContextKinds
  <2> QED BY <1>1, <1>3, <1>4, <2>1, <2>2 DEF Usable
<1>5. CASE ctx.user # None \/ ctx.agent # None
  <2>1. d = resolve_execution_identity(ctx, tools[t], q)
        /\ \A p \in {ctx.user, ctx.agent} \ {None} : Usable(p, tools[t].permission)
    BY <1>5, ChainDecision DEF Admitted
  <2>2. CASE d = allow(IF ctx.user # None THEN ctx.user ELSE ctx.agent, None)
    BY <1>3, <1>5, <2>2 DEF grantee_for
  <2>3. CASE d # allow(IF ctx.user # None THEN ctx.user ELSE ctx.agent, None)
    <3>1. PICK sa : /\ d = allow(sa, sa) /\ sa # None /\ sa \in active
                    /\ may_use_service_account(grantee_for(ctx), sa)
                    /\ ~lacks(sa, tools[t].permission)
      BY <1>2, <2>1, <2>3 DEF resolve_execution_identity
    <3> QED BY <1>1, <1>3, <1>5, <3>1 DEF may_use_service_account, lacks, Usable
  <2> QED BY <2>2, <2>3
<1> QED BY <1>4, <1>5

\* The account that a decision names is a service account.
LEMMA DecidedAccount ==
  ASSUME PolicyTypeOK, NEW ctx \in Contexts, NEW t \in Tools, tools[t] # None,
         NEW q \in Requests, NEW d, d = authorize_tool(ctx, t, q), d.effect = "allow"
  PROVE  IF d.service_account # None
         THEN d.execution_identity = d.service_account
              /\ d.execution_identity \in ServiceAccounts
         ELSE /\ d.execution_identity \notin ServiceAccounts
              /\ d.execution_identity = grantee_for(ctx)
              /\ d.execution_identity # None
<1>1. /\ ctx.user \in Users \union {None} /\ ctx.agent \in Agents \union {None}
      /\ ctx.user = None /\ ctx.agent = None => ctx.service_account \in ServiceAccounts
  BY ContextKinds
<1>2. \A i, sa : allow(i, sa).service_account = sa
  BY DEF allow
<1>3. CASE d.service_account # None
  <2>1. CASE ctx.user = None /\ ctx.agent = None
    <3>1. d = allow(ctx.service_account, ctx.service_account)
      BY <2>1, OwnDecision
    <3>2. d.execution_identity = d.service_account
      BY <1>3, DecisionShape
    <3>3. d.service_account = ctx.service_account
      BY <1>2, <3>1
    <3>4. ctx.service_account \in ServiceAccounts
      BY <1>1, <2>1
    <3> QED BY <1>3, <3>2, <3>3, <3>4
  <2>2. CASE ctx.user # None \/ ctx.agent # None
    <3>1. <<grantee_for(ctx), d.service_account>> \in sa_grants
      BY <1>3, <2>2, DecisionShape
    <3>2. sa_grants \subseteq (Users \union Agents) \X ServiceAccounts
      BY DEF PolicyTypeOK
    <3> QED BY <1>3, <3>1, <3>2, DecisionShape
  <2> QED BY <2>1, <2>2
<1>4. CASE d.service_account = None
  <2>1. d.execution_identity = grantee_for(ctx) /\ (ctx.user # None \/ ctx.agent # None)
    BY <1>4, DecisionShape
  <2> QED BY <1>1, <1>4, <2>1, PrincipalsDisjoint DEF grantee_for, Principals
<1> QED BY <1>3, <1>4

\* The token of an allowed call, field by field.
LEMMA TokenFields ==
  ASSUME NEW ctx \in Contexts, NEW d, NEW aud
  PROVE  LET token == downstream_token(decided(ctx, d), aud)
         IN  /\ token.typ = "downstream" /\ token.aud = aud
             /\ token.act = ctx.agent /\ token.on_behalf_of = ctx.user
             /\ token.execution_identity = d.service_account
             /\ token.sub = IF d.service_account # None THEN d.service_account
                            ELSE grantee_for(ctx)
             /\ token.sub_type = IF d.service_account # None THEN "service_account"
                                 ELSE IF ctx.user # None THEN "user" ELSE "agent"
<1>1. /\ decided(ctx, d).service_account = d.service_account
      /\ decided(ctx, d).user = ctx.user /\ decided(ctx, d).agent = ctx.agent
  BY DEF decided, Contexts, Context
<1> QED BY <1>1 DEF downstream_token, grantee_for

LEMMA ServerIsTold == PolicyTypeOK => ServerSeesDecision
<1> SUFFICES ASSUME PolicyTypeOK, NEW call \in AllowedCalls, NEW aud \in Audiences,
                    NEW ctx, ctx = call[1], NEW d, d = authorize_tool(call[1], call[2], call[3]),
                    NEW c, c = Told(ctx, d, aud)
             PROVE  /\ c.subject = d.execution_identity
                    /\ identity_chain(c) =
                         <<ctx.user, ctx.agent,
                           IF d.execution_identity \in ServiceAccounts
                           THEN d.execution_identity ELSE None>>
                    /\ \A writers \in SUBSET Principals :
                         may_write(c, writers) <=>
                           {ctx.user, ctx.agent, d.execution_identity} \intersect writers # {}
  BY DEF ServerSeesDecision
<1>1. /\ ctx \in Contexts /\ call[2] \in Tools /\ tools[call[2]] # None
      /\ call[3] \in Requests /\ d.effect = "allow"
  BY DEF AllowedCalls
<1>2. IF d.service_account # None
      THEN d.execution_identity = d.service_account /\ d.execution_identity \in ServiceAccounts
      ELSE /\ d.execution_identity \notin ServiceAccounts
           /\ d.execution_identity = grantee_for(ctx)
           /\ d.execution_identity # None
  BY <1>1, DecidedAccount
<1>3. /\ c.subject = IF d.service_account # None THEN d.service_account ELSE grantee_for(ctx)
      /\ c.subject_type = IF d.service_account # None THEN "service_account"
                          ELSE IF ctx.user # None THEN "user" ELSE "agent"
      /\ c.agent = ctx.agent /\ c.on_behalf_of = ctx.user
      /\ c.service_account = d.service_account
  BY <1>1, TokenFields DEF Told, claims
<1>4. human_user(c) = ctx.user
  BY <1>2, <1>3 DEF human_user, grantee_for
<1>5. identity_chain(c) =
        <<ctx.user, ctx.agent,
          IF d.execution_identity \in ServiceAccounts THEN d.execution_identity ELSE None>>
  BY <1>2, <1>3, <1>4 DEF identity_chain
<1>6. ASSUME NEW writers \in SUBSET Principals
      PROVE  may_write(c, writers) <=>
               {ctx.user, ctx.agent, d.execution_identity} \intersect writers # {}
  <2>1. None \notin writers
    BY PrincipalsDisjoint
  <2>2. {c.subject, c.agent, c.on_behalf_of, c.service_account} \ {None}
          = {ctx.user, ctx.agent, d.execution_identity} \ {None}
    BY <1>2, <1>3 DEF grantee_for
  <2> QED BY <2>1, <2>2 DEF may_write
<1> QED BY <1>2, <1>3, <1>5, <1>6

\* The server of an allowed call sees the chain of identities the gateway
\* decided on (identity/tokens.py, issue_downstream_token(); sdk/server/claims.py).
THEOREM ServerSeesTheorem == SpecPolicy => []ServerSeesDecision
  BY PolicyTypeCorrect, ServerIsTold, PTL

LEMMA ReadsGranted == PolicyTypeOK => RestrictedReadsAreGranted
<1> SUFFICES ASSUME PolicyTypeOK, NEW call \in AllowedCalls, NEW aud \in Audiences,
                    NEW ctx, ctx = call[1], NEW d, d = authorize_tool(call[1], call[2], call[3]),
                    may_read_restricted(Told(ctx, d, aud))
             PROVE  /\ d.execution_identity \in ServiceAccounts \intersect active
                    /\ ~lacks(d.execution_identity, tools[call[2]].permission)
                    /\ \/ ctx.user = None /\ ctx.agent = None
                       \/ <<IF ctx.user # None THEN ctx.user ELSE ctx.agent,
                            d.execution_identity>> \in sa_grants
  BY DEF RestrictedReadsAreGranted
<1>1. /\ ctx \in Contexts /\ call[2] \in Tools /\ tools[call[2]] # None
      /\ call[3] \in Requests /\ d.effect = "allow"
  BY DEF AllowedCalls
<1>2. d.service_account # None
  BY <1>1, TokenFields DEF may_read_restricted, Told, claims
<1>3. d.execution_identity = d.service_account /\ d.execution_identity \in ServiceAccounts
  BY <1>1, <1>2, DecidedAccount
<1>4. /\ Usable(d.service_account, tools[call[2]].permission)
      /\ \/ ctx.user = None /\ ctx.agent = None
         \/ <<grantee_for(ctx), d.service_account>> \in sa_grants
  BY <1>1, <1>2, DecisionShape
<1> QED BY <1>3, <1>4 DEF Usable, lacks, grantee_for

\* A restricted table is read only as a service account that is enabled,
\* permitted and granted (servers/postgres/server.py, _require_readable()).
THEOREM RestrictedReadsTheorem == SpecPolicy => []RestrictedReadsAreGranted
  BY PolicyTypeCorrect, ReadsGranted, PTL

\* No credential works on the other side (sdk/server/verifier.py, verify();
\* middleware/auth.py, _from_claims(); api/auth.py, token_exchange()).
THEOREM SidesTheorem == SpecPolicy => []TokensKeepToTheirSide
<1>1. TokensKeepToTheirSide
  <2>1. ASSUME NEW token \in ClientTokens, NEW aud \in Audiences
        PROVE  ~verified(token, aud)
    BY DEF ClientTokens, client_token, verified
  <2>2. ASSUME NEW call \in AllowedCalls, NEW aud \in Audiences, NEW token,
               token = downstream_token(
                 decided(call[1], authorize_tool(call[1], call[2], call[3])), aud)
        PROVE  /\ ~gateway_accepts(token) /\ ~exchangeable(token)
               /\ \A other \in Audiences : verified(token, other) <=> other = aud
    <3>1. call[1] \in Contexts
      BY DEF AllowedCalls
    <3>2. token.typ = "downstream" /\ token.aud = aud
      BY <2>2, <3>1, TokenFields
    <3> QED BY <3>2 DEF gateway_accepts, exchangeable, verified
  <2> QED BY <2>1, <2>2 DEF TokensKeepToTheirSide
<1> QED BY <1>1, PTL

=============================================================================
