------------------------ MODULE AuthorizationProofs ------------------------
(***************************************************************************)
(* What holds of the decision function and of administration for every     *)
(* policy, every set of identities and every request.                      *)
(***************************************************************************)
EXTENDS Authorization, TLAPS

----------------------------------------------------------------------------
\* Types.

\* Every action keeps the database rows well shaped.
LEMMA NextPolicyType == PolicyTypeOK /\ [NextPolicy]_policyVars => PolicyTypeOK'
<1> SUFFICES ASSUME PolicyTypeOK, [NextPolicy]_policyVars PROVE PolicyTypeOK'
  OBVIOUS
<1> USE DEF PolicyTypeOK, policyVars, policy, registry
<1>1. CASE UNCHANGED policyVars
  BY <1>1
<1>2. ASSUME NEW p \in Principals, NEW on \in BOOLEAN, SetActive(p, on)
      PROVE  PolicyTypeOK'
  BY <1>2 DEF SetActive
<1>3. ASSUME LetIn \/ EndWithoutCommit
      PROVE  PolicyTypeOK'
  BY <1>3, MaxAdministeringAssumption DEF LetIn, EndWithoutCommit
<1>4. CASE Administer
  <2> administering' \in 0 .. MaxAdministering
    BY <1>4, MaxAdministeringAssumption DEF Administer
  <2>1. ASSUME NEW r \in Roles, NEW body \in RoleBodies, PutRole(r, body)
        PROVE  PolicyTypeOK'
    BY <2>1 DEF PutRole
  <2>2. ASSUME NEW p \in Principals, NEW rs \in SUBSET Roles, AssignRoles(p, rs)
        PROVE  PolicyTypeOK'
    BY <2>2 DEF AssignRoles
  <2>3. ASSUME NEW g \in Users \union Agents, NEW sa \in ServiceAccounts,
               GrantServiceAccount(g, sa) \/ RevokeServiceAccount(g, sa)
        PROVE  PolicyTypeOK'
    BY <2>3 DEF GrantServiceAccount, RevokeServiceAccount
  <2>4. ASSUME NEW t \in Tools, NEW spec \in ToolSpecs, RegisterTool(t, spec)
        PROVE  PolicyTypeOK'
    BY <2>4 DEF RegisterTool
  <2>5. ASSUME NEW t \in Tools, DeleteTool(t)
        PROVE  PolicyTypeOK'
    BY <2>5 DEF DeleteTool
  <2>6. ASSUME NEW s \in Servers, NEW on \in BOOLEAN, SetServerEnabled(s, on)
        PROVE  PolicyTypeOK'
    BY <2>6 DEF SetServerEnabled
  <2>7. ASSUME NEW p \in Principals, NEW rs \in SUBSET Roles, NewIdentity(p, rs)
        PROVE  PolicyTypeOK'
    BY <2>7 DEF NewIdentity
  <2>8. ASSUME NEW s \in Servers, NEW on \in BOOLEAN, RegisterServer(s, on)
        PROVE  PolicyTypeOK'
    BY <2>8 DEF RegisterServer
  <2>9. ASSUME NEW s \in Servers, DeleteServer(s)
        PROVE  PolicyTypeOK'
    BY <2>9 DEF DeleteServer
  <2> QED
    BY <1>4, <2>1, <2>2, <2>3, <2>4, <2>5, <2>6, <2>7, <2>8, <2>9
    DEF Administer, CreateUser, CreateAgent, CreateServiceAccount, Principals
<1> QED BY <1>1, <1>2, <1>3, <1>4 DEF NextPolicy

LEMMA InitPolicyType == InitPolicy => PolicyTypeOK
  BY BootstrapAssumption, MaxAdministeringAssumption DEF InitPolicy, PolicyTypeOK, Principals

\* The rows of the policy database always have the shape of PolicyTypeOK
\* (models/policy.py, models/identity.py, models/registry.py).
THEOREM PolicyTypeCorrect == SpecPolicy => []PolicyTypeOK
  BY InitPolicyType, NextPolicyType, PTL DEF SpecPolicy

----------------------------------------------------------------------------
\* The contexts, one kind at a time.

LEMMA ContextKinds ==
  ASSUME NEW ctx \in Contexts
  PROVE  /\ ctx.user \in Users \union {None}
         /\ ctx.agent \in Agents \union {None}
         /\ ctx.service_account \in ServiceAccounts \union {None}
         /\ ctx.user # None =>
              /\ ctx.persona = "user" /\ ctx.service_account = None
              /\ ctx.agent \notin Autonomous
         /\ ctx.user = None =>
              /\ ctx.persona = "non_user"
              /\ (ctx.agent = None) <=> (ctx.service_account # None)
  BY PrincipalsDisjoint DEF Contexts, Context, Principals

\* A human's context without its agent is a context too.
LEMMA WithoutAgent ==
  ASSUME NEW ctx \in Contexts, ctx.user # None
  PROVE  /\ [ctx EXCEPT !.agent = None] \in Contexts
         /\ [ctx EXCEPT !.agent = None].agent = None
         /\ [ctx EXCEPT !.agent = None].user = ctx.user
         /\ [ctx EXCEPT !.agent = None].service_account = ctx.service_account
         /\ [ctx EXCEPT !.agent = None].persona = ctx.persona
         /\ [ctx EXCEPT !.agent = None].scopes = ctx.scopes
<1>1. PICK u \in Users, a \in (Agents \ Autonomous) \union {None}, s \in ScopeSets :
        ctx = Context("user", u, a, None, s)
  BY PrincipalsDisjoint DEF Contexts, Context, Principals
<1>2. [ctx EXCEPT !.agent = None] = Context("user", u, None, None, s)
  BY <1>1 DEF Context
<1> QED BY <1>1, <1>2 DEF Contexts, Context
----------------------------------------------------------------------------
\* The decision.

\* An identity that passes the checks of an engine is enabled and permitted.
Usable(p, permission) == p \in active /\ permits(permissions_for(p), permission)

\* The checks that do not look at who executes.
Admitted(ctx, t) ==
  /\ ctx.scopes = {} \/ REQUIRED_TOOL_SCOPE \in ctx.scopes
  /\ tools[t].enabled /\ ToolServer[t] \in enabled
  /\ \A p \in {ctx.user, ctx.agent} \ {None} : Usable(p, tools[t].permission)

LEMMA NoneIsDisabled == PolicyTypeOK => None \notin active
  BY PrincipalsDisjoint DEF PolicyTypeOK

\* A call with a human or an agent passes the checks exactly when it is
\* admitted, and then runs as resolve_execution_identity() says.
LEMMA ChainDecision ==
  ASSUME PolicyTypeOK, NEW ctx \in Contexts, NEW t \in Tools, NEW q \in Requests,
         ctx.user # None \/ ctx.agent # None
  PROVE  IF Admitted(ctx, t)
         THEN authorize_tool(ctx, t, q) = resolve_execution_identity(ctx, tools[t], q)
         ELSE authorize_tool(ctx, t, q).effect = "deny"
<1> DEFINE own == ctx.user = None /\ ctx.agent = None
           perm == tools[t].permission
<1>1. /\ ctx.user # None => ctx.user \in Users
      /\ ctx.agent # None => ctx.agent \in Agents
      /\ (ctx.persona = "user") <=> (ctx.user # None)
      /\ ctx.user # None => ctx.agent \notin Autonomous
  BY ContextKinds
<1>2. ASSUME NEW p, p # None
      PROVE  Usable(p, perm) <=> p \in active /\ ~denies(p, perm) /\ ~lacks(p, perm)
  BY <1>2 DEF Usable, denies, lacks, permits
<1>3. ~denies(None, perm)
  BY DEF denies
<1>4. \A reason : deny(reason).effect = "deny"
  BY DEF deny
<1>5. CASE Admitted(ctx, t)
  <2>1. \A p \in {ctx.user, ctx.agent} \ {None} :
          p \in active /\ ~denies(p, perm) /\ ~lacks(p, perm)
    BY <1>2, <1>5 DEF Admitted
  <2> QED BY <1>1, <1>3, <1>5, <2>1 DEF Admitted, authorize_tool
<1>6. CASE ~Admitted(ctx, t)
  <2>1. \/ ctx.scopes # {} /\ REQUIRED_TOOL_SCOPE \notin ctx.scopes
        \/ ~tools[t].enabled \/ ToolServer[t] \notin enabled
        \/ ctx.user # None /\ (ctx.user \notin active \/ denies(ctx.user, perm) \/ lacks(ctx.user, perm))
        \/ ctx.agent # None /\ (ctx.agent \notin active \/ denies(ctx.agent, perm) \/ lacks(ctx.agent, perm))
    BY <1>2, <1>6 DEF Admitted
  <2> QED BY <1>1, <1>3, <1>4, <1>6, <2>1 DEF authorize_tool
<1> QED BY <1>5, <1>6

\* A service account with its own credential runs as itself or not at all.
LEMMA OwnDecision ==
  ASSUME PolicyTypeOK, NEW ctx \in Contexts, NEW t \in Tools, NEW q \in Requests,
         ctx.user = None, ctx.agent = None
  PROVE  IF Admitted(ctx, t) /\ Usable(ctx.service_account, tools[t].permission)
         THEN authorize_tool(ctx, t, q) = allow(ctx.service_account, ctx.service_account)
         ELSE authorize_tool(ctx, t, q).effect = "deny"
<1> DEFINE sa == ctx.service_account
           perm == tools[t].permission
<1>1. sa \in ServiceAccounts /\ sa # None /\ ctx.persona = "non_user"
  BY ContextKinds
<1>2. Usable(sa, perm) <=> sa \in active /\ ~denies(sa, perm) /\ ~lacks(sa, perm)
  BY <1>1 DEF Usable, denies, lacks, permits
<1>3. ~denies(None, perm)
  BY DEF denies
<1>4. \A reason : deny(reason).effect = "deny"
  BY DEF deny
<1>5. Admitted(ctx, t) <=> /\ ctx.scopes = {} \/ REQUIRED_TOOL_SCOPE \in ctx.scopes
                           /\ tools[t].enabled /\ ToolServer[t] \in enabled
  BY DEF Admitted
<1> QED BY <1>1, <1>2, <1>3, <1>4, <1>5 DEF authorize_tool, authorize_own_account

\* What resolve_execution_identity() lets a human or an agent run as.
LEMMA ResolvedIdentity ==
  ASSUME PolicyTypeOK, NEW ctx \in Contexts, NEW t \in Tools, NEW q \in Requests,
         NEW p \in Principals, ctx.user # None \/ ctx.agent # None
  PROVE  LET d == resolve_execution_identity(ctx, tools[t], q)
         IN  (d.effect = "allow" /\ d.execution_identity = p) <=>
               IF tools[t].requires_service_account \/ q # None
               THEN /\ p = IF q = None THEN tools[t].default ELSE q
                    /\ p # None /\ Usable(p, tools[t].permission)
                    /\ <<grantee_for(ctx), p>> \in sa_grants
               ELSE p = grantee_for(ctx)
<1>1. p # None /\ None \notin active
  BY PrincipalsDisjoint, NoneIsDisabled
<1>2. \A reason : deny(reason).effect # "allow"
  BY DEF deny
<1>3. \A i, sa : allow(i, sa).effect = "allow" /\ allow(i, sa).execution_identity = i
  BY DEF allow
<1> QED
  BY <1>1, <1>2, <1>3
  DEF resolve_execution_identity, grantee_for, may_use_service_account, lacks, Usable

\* The caller of the documented rules is the grantee of the engine.
LEMMA CallerIsGrantee ==
  ASSUME NEW ctx, ctx.user # None \/ ctx.agent # None
  PROVE  (CHOOSE p \in {ctx.user, ctx.agent} \ {None} :
            ctx.user \in {ctx.user, ctx.agent} \ {None} => p = ctx.user)
           = grantee_for(ctx)
<1>1. CASE ctx.user # None
  BY <1>1 DEF grantee_for
<1>2. CASE ctx.user = None
  <2>1. {ctx.user, ctx.agent} \ {None} = {ctx.agent}
    BY <1>2
  <2> QED BY <1>2, <2>1 DEF grantee_for
<1> QED BY <1>1, <1>2

\* The engine decides as the documented rules do, whatever the policy.
LEMMA EngineIsPolicy == PolicyTypeOK => EngineMeetsPolicy
<1> SUFFICES ASSUME PolicyTypeOK, NEW ctx \in Contexts,
                    NEW t \in Tools, tools[t] # None, NEW q \in Requests, NEW p \in Principals
             PROVE  (/\ authorize_tool(ctx, t, q).effect = "allow"
                     /\ authorize_tool(ctx, t, q).execution_identity = p)
                      <=> MayRunAs(ctx, t, q, p)
  BY DEF EngineMeetsPolicy
<1> DEFINE chain == {ctx.user, ctx.agent} \ {None}
           perm == tools[t].permission
<1>1. CASE ctx.user # None \/ ctx.agent # None
  <2>1. chain # {}
    BY <1>1
  <2>2. MayRunAs(ctx, t, q, p) <=>
          /\ Admitted(ctx, t)
          /\ IF tools[t].requires_service_account \/ q # None
             THEN /\ p = IF q = None THEN tools[t].default ELSE q
                  /\ p # None /\ Usable(p, perm)
                  /\ <<grantee_for(ctx), p>> \in sa_grants
             ELSE p = grantee_for(ctx)
    BY <1>1, <2>1, CallerIsGrantee DEF MayRunAs, Admitted, Usable
  <2> QED BY <1>1, <2>2, ChainDecision, ResolvedIdentity
<1>2. CASE ctx.user = None /\ ctx.agent = None
  <2>1. chain = {}
    BY <1>2
  <2>2. MayRunAs(ctx, t, q, p) <=>
          Admitted(ctx, t) /\ p = ctx.service_account /\ Usable(p, perm)
    BY <2>1 DEF MayRunAs, Admitted, Usable
  <2> QED BY <1>2, <2>2, OwnDecision DEF allow
<1> QED BY <1>1, <1>2

\* The engine allows exactly the calls the documented rules allow, under the
\* documented identity, in every reachable policy (authorization/engine.py).
THEOREM EngineTheorem == SpecPolicy => []EngineMeetsPolicy
  BY PolicyTypeCorrect, EngineIsPolicy, PTL

----------------------------------------------------------------------------
\* Delegation.

LEMMA DelegationIsNarrow == PolicyTypeOK => DelegationNeverWidens
<1> SUFFICES ASSUME PolicyTypeOK, NEW ctx \in Contexts, NEW t \in Tools, NEW q \in Requests,
                    ctx.user # None, ctx.agent # None, Allowed(ctx, t, q)
             PROVE  authorize_tool([ctx EXCEPT !.agent = None], t, q)
                      = authorize_tool(ctx, t, q)
  BY DEF DelegationNeverWidens
<1> DEFINE alone == [ctx EXCEPT !.agent = None]
<1>1. /\ alone \in Contexts
      /\ alone.agent = None /\ alone.user = ctx.user
      /\ alone.service_account = ctx.service_account /\ alone.scopes = ctx.scopes
  BY WithoutAgent
<1>2. Admitted(ctx, t)
      /\ authorize_tool(ctx, t, q) = resolve_execution_identity(ctx, tools[t], q)
  BY ChainDecision DEF Allowed
<1>3. Admitted(alone, t)
  BY <1>1, <1>2 DEF Admitted
<1>4. authorize_tool(alone, t, q) = resolve_execution_identity(alone, tools[t], q)
  <2>1. alone.user # None
    BY <1>1
  <2> HIDE DEF alone
  <2> QED BY <1>1, <1>3, <2>1, ChainDecision
<1>5. resolve_execution_identity(alone, tools[t], q)
        = resolve_execution_identity(ctx, tools[t], q)
  BY <1>1 DEF resolve_execution_identity, grantee_for
<1> QED BY <1>2, <1>4, <1>5

\* Whatever a human may do through an agent the human may do alone, as the
\* same identity, in every reachable policy (authorization/engine.py,
\* _grantee_for() and the checks of user and agent).
THEOREM DelegationTheorem == SpecPolicy => []DelegationNeverWidens
  BY PolicyTypeCorrect, DelegationIsNarrow, PTL

----------------------------------------------------------------------------
\* Monotonicity of permission sets.

LEMMA MatchesGrow ==
  ASSUME NEW P, NEW Q, P \subseteq Q, NEW permission
  PROVE  any_matches(P, permission) => any_matches(Q, permission)
  BY DEF any_matches

\* A set with fewer allows and more denies permits less.
LEMMA PermitsShrink ==
  ASSUME NEW ps, NEW other, NEW permission,
         ps.allow \subseteq other.allow, other.deny \subseteq ps.deny
  PROVE  permits(ps, permission) => permits(other, permission)
  BY MatchesGrow DEF permits, allowed_by, denied_by

\* intersect() permits no more than either side.
LEMMA IntersectSound ==
  ASSUME NEW ps, NEW other, NEW permission, permits(intersect(ps, other), permission)
  PROVE  permits(ps, permission) /\ permits(other, permission)
<1>1. intersect(ps, other).allow \subseteq ps.allow /\ ps.deny \subseteq intersect(ps, other).deny
  BY DEF intersect
<1>2. intersect(ps, other).allow \subseteq other.allow /\ other.deny \subseteq intersect(ps, other).deny
  BY DEF intersect
<1> QED BY <1>1, <1>2, PermitsShrink

----------------------------------------------------------------------------
\* Administration.

\* Whoever passes require_admin rests on an identity that holds the permission.
LEMMA AdminHolder ==
  AdminCaller => \E p \in Principals : ~lacks(p, ADMIN_PERMISSION)
<1> SUFFICES ASSUME NEW ctx \in Contexts, is_admin(ctx)
             PROVE  \E p \in Principals : ~lacks(p, ADMIN_PERMISSION)
  BY DEF AdminCaller
<1>1. /\ ctx.user # None => ctx.user \in Users
      /\ ctx.agent # None => ctx.agent \in Agents
      /\ ctx.user = None /\ ctx.agent = None => ctx.service_account \in ServiceAccounts
  BY ContextKinds, PrincipalsDisjoint
<1>2. ASSUME NEW p \in Principals, permits(permissions_for(p), ADMIN_PERMISSION)
      PROVE  \E x \in Principals : ~lacks(x, ADMIN_PERMISSION)
  BY <1>2 DEF lacks
<1>3. CASE ctx.user # None
  <2>1. permits(permissions_for(ctx.user), ADMIN_PERMISSION)
    BY <1>3, IntersectSound DEF is_admin, permissions_of_caller
  <2> QED BY <1>1, <1>2, <1>3, <2>1 DEF Principals
<1>4. CASE ctx.user = None
  BY <1>1, <1>2, <1>4 DEF is_admin, permissions_of_caller, Principals
<1> QED BY <1>3, <1>4

\* An agent adds nothing to the administration its human may do: what it may do
\* for the human, the human may do alone.  (DelegatedAdminNeedsBoth asks that the
\* agent hold the permission too, which one without any permission does not.)
DelegatedAdminIsUserAdmin ==
  \A ctx \in Contexts :
    /\ ctx.user # None /\ ctx.agent # None
    /\ authenticated(ctx) /\ is_admin(ctx)
    => /\ ~lacks(ctx.user, ADMIN_PERMISSION)
       /\ ~lacks(ctx.agent, ADMIN_PERMISSION) \/ ~truthy(permissions_for(ctx.agent))
       /\ authenticated([ctx EXCEPT !.agent = None]) /\ is_admin([ctx EXCEPT !.agent = None])

\* A delegated administrator is bounded by its human always, and by its agent
\* whenever the agent has any permission at all (gateway/deps.py,
\* _permissions_for() and require_admin()).
THEOREM DelegatedAdminTheorem == SpecPolicy => []DelegatedAdminIsUserAdmin
<1>1. DelegatedAdminIsUserAdmin
  <2> SUFFICES ASSUME NEW ctx \in Contexts, ctx.user # None, ctx.agent # None,
                      authenticated(ctx), is_admin(ctx)
               PROVE  /\ ~lacks(ctx.user, ADMIN_PERMISSION)
                      /\ ~lacks(ctx.agent, ADMIN_PERMISSION) \/ ~truthy(permissions_for(ctx.agent))
                      /\ authenticated([ctx EXCEPT !.agent = None])
                      /\ is_admin([ctx EXCEPT !.agent = None])
    BY DEF DelegatedAdminIsUserAdmin
  <2>1. permits(permissions_for(ctx.user), ADMIN_PERMISSION)
    BY IntersectSound DEF is_admin, permissions_of_caller
  <2>2. truthy(permissions_for(ctx.agent)) =>
          permits(permissions_for(ctx.agent), ADMIN_PERMISSION)
    BY IntersectSound DEF is_admin, permissions_of_caller
  <2>3. PICK alone : alone = [ctx EXCEPT !.agent = None]
    OBVIOUS
  <2>4. /\ alone.user = ctx.user /\ alone.agent = None
        /\ alone.service_account = ctx.service_account
    BY <2>3, ContextKinds DEF Contexts, Context
  <2>5. authenticated(alone)
    BY <2>4 DEF authenticated
  <2>6. is_admin(alone)
    BY <2>1, <2>4 DEF is_admin, permissions_of_caller
  <2> QED BY <2>1, <2>2, <2>3, <2>5, <2>6 DEF lacks
<1> QED BY <1>1, PTL

\* Once no identity holds agentid.admin, require_admin lets nobody in, and only
\* the requests it let in before change the policy, each once (gateway/deps.py,
\* require_admin(); the commits of the administrative routes).
THEOREM LockoutTheorem == SpecPolicy => LockoutIsPermanent
<1>1. ASSUME PolicyTypeOK, [NextPolicy]_policyVars, LockedOut
      PROVE  /\ administering' <= administering
             /\ policy' # policy => administering' < administering
  <2>1. administering \in Nat
    BY <1>1, MaxAdministeringAssumption DEF PolicyTypeOK
  <2>2. ~LetIn
    BY <1>1, AdminHolder DEF LetIn, LockedOut
  <2>3. CASE Administer \/ EndWithoutCommit
    BY <2>1, <2>3 DEF Administer, EndWithoutCommit
  <2>4. CASE UNCHANGED policyVars \/ \E p \in Principals, on \in BOOLEAN : SetActive(p, on)
    BY <2>1, <2>4 DEF policyVars, SetActive
  <2> QED BY <1>1, <2>2, <2>3, <2>4 DEF NextPolicy
<1>2. PolicyTypeOK /\ [NextPolicy]_policyVars =>
        [LockedOut => /\ administering' <= administering
                      /\ policy' # policy => administering' < administering]_policyVars
  BY <1>1
<1> QED BY <1>2, PolicyTypeCorrect, PTL DEF SpecPolicy, LockoutIsPermanent

----------------------------------------------------------------------------
\* Taking away.

\* A call is allowed when it may run as somebody.
AllowedIsRunnable ==
  \A ctx \in Contexts, t \in Tools, q \in Requests :
    Allowed(ctx, t, q) <=>
      tools[t] # None /\ \E p \in Principals : MayRunAs(ctx, t, q, p)

\* An allowed call runs as an identity of the database.
LEMMA ExecutionIdentity ==
  ASSUME PolicyTypeOK, NEW ctx \in Contexts, NEW t \in Tools, NEW q \in Requests,
         Allowed(ctx, t, q)
  PROVE  authorize_tool(ctx, t, q).execution_identity \in Principals
<1>1. /\ ctx.user # None => ctx.user \in Principals
      /\ ctx.agent # None => ctx.agent \in Principals
      /\ ctx.user = None /\ ctx.agent = None => ctx.service_account \in Principals
  BY ContextKinds, PrincipalsDisjoint DEF Principals
<1>2. active \subseteq Principals
  BY DEF PolicyTypeOK
<1>3. \A reason : deny(reason).effect # "allow"
  BY DEF deny
<1>4. \A i, sa : allow(i, sa).execution_identity = i
  BY DEF allow
<1>5. CASE ctx.user # None \/ ctx.agent # None
  <2>1. authorize_tool(ctx, t, q) = resolve_execution_identity(ctx, tools[t], q)
    BY <1>5, ChainDecision DEF Allowed
  <2> QED BY <1>1, <1>2, <1>3, <1>4, <1>5, <2>1 DEF Allowed, resolve_execution_identity
<1>6. CASE ctx.user = None /\ ctx.agent = None
  BY <1>1, <1>4, <1>6, OwnDecision DEF Allowed
<1> QED BY <1>5, <1>6

LEMMA AllowedMeans == PolicyTypeOK => AllowedIsRunnable
  BY EngineIsPolicy, ExecutionIdentity DEF AllowedIsRunnable, Allowed, EngineMeetsPolicy

\* A tightening step makes nobody's permissions larger.
LEMMA TighterRoles ==
  ASSUME PolicyTypeOK, Tightens, NEW p \in Principals, NEW permission
  PROVE  permits(permissions_for(p)', permission) => permits(permissions_for(p), permission)
<1>1. roles_of[p] \subseteq Roles
  BY DEF PolicyTypeOK
<1>2. /\ permissions_for(p)'.allow = UNION {role_entries'[r].allow : r \in roles_of[p]}
      /\ permissions_for(p)'.deny = UNION {role_entries'[r].deny : r \in roles_of[p]}
      /\ permissions_for(p).allow = UNION {role_entries[r].allow : r \in roles_of[p]}
      /\ permissions_for(p).deny = UNION {role_entries[r].deny : r \in roles_of[p]}
  BY DEF permissions_for, from_roles, Tightens
<1>3. /\ permissions_for(p)'.allow \subseteq permissions_for(p).allow
      /\ permissions_for(p).deny \subseteq permissions_for(p)'.deny
  BY <1>1, <1>2 DEF Tightens
<1> QED BY <1>3, PermitsShrink

\* What a call may run as after a tightening step it could run as before.
LEMMA TighterRuns ==
  ASSUME PolicyTypeOK, Tightens, NEW ctx \in Contexts, NEW t \in Tools, NEW q \in Requests,
         NEW p \in Principals, (tools[t] # None)', MayRunAs(ctx, t, q, p)'
  PROVE  tools[t] # None /\ MayRunAs(ctx, t, q, p)
<1>1. tools'[t] = tools[t] /\ tools[t] # None
  BY DEF Tightens
<1>2. active' \subseteq active /\ sa_grants' \subseteq sa_grants /\ enabled' \subseteq enabled
  BY DEF Tightens
<1>3. ASSUME NEW x \in Principals, x \in active',
             permits(permissions_for(x)', tools[t].permission)
      PROVE  x \in active /\ permits(permissions_for(x), tools[t].permission)
  BY <1>2, <1>3, TighterRoles
<1>4. {ctx.user, ctx.agent} \ {None} \subseteq Principals
  BY ContextKinds DEF Principals
<1> QED BY <1>1, <1>2, <1>3, <1>4 DEF MayRunAs

\* Taking something away never opens a call that was refused
\* (authorization/engine.py: no check is skipped because a set is empty).
THEOREM TighteningTheorem == SpecPolicy => TighteningNeverAllows
<1>1. ASSUME PolicyTypeOK, AllowedIsRunnable, AllowedIsRunnable', Tightens,
             NEW ctx \in Contexts, NEW t \in Tools, NEW q \in Requests, Allowed(ctx, t, q)'
      PROVE  Allowed(ctx, t, q)
  <2>1. PICK p \in Principals : (tools[t] # None)' /\ MayRunAs(ctx, t, q, p)'
    BY <1>1 DEF AllowedIsRunnable
  <2>2. tools[t] # None /\ MayRunAs(ctx, t, q, p)
    BY <1>1, <2>1, TighterRuns
  <2> QED BY <1>1, <2>2 DEF AllowedIsRunnable
<1>2. PolicyTypeOK /\ AllowedIsRunnable /\ AllowedIsRunnable' =>
        [Tightens => \A ctx \in Contexts, t \in Tools, q \in Requests :
                       Allowed(ctx, t, q)' => Allowed(ctx, t, q)]_policyVars
  BY <1>1
<1> QED BY <1>2, PolicyTypeCorrect, AllowedMeans, PTL DEF TighteningNeverAllows

----------------------------------------------------------------------------
\* Grants of agents.

\* The decision on a call made for a human does not depend on what agents have
\* been granted (authorization/engine.py, _grantee_for()).
THEOREM AgentGrantsTheorem == SpecPolicy => AgentGrantsDoNotReachHumans
<1> DEFINE SameForHumans ==
             /\ UNCHANGED <<active, role_entries, roles_of, tools, enabled>>
             /\ \A u \in Users, sa \in ServiceAccounts :
                  <<u, sa>> \in sa_grants <=> <<u, sa>> \in sa_grants'
<1>1. ASSUME PolicyTypeOK, PolicyTypeOK', SameForHumans,
             NEW ctx \in Contexts, ctx.user # None, NEW t \in Tools, NEW q \in Requests
      PROVE  Allowed(ctx, t, q)' = Allowed(ctx, t, q)
  <2>1. \A p : permissions_for(p)' = permissions_for(p)
    BY <1>1 DEF permissions_for
  <2>2. ctx.user \in Users
    BY <1>1, ContextKinds
  <2>3. \A sa : sa \in active => (<<ctx.user, sa>> \in sa_grants <=> <<ctx.user, sa>> \in sa_grants')
    BY <1>1, <2>2, PrincipalsDisjoint DEF PolicyTypeOK
  <2>4. resolve_execution_identity(ctx, tools[t], q)' = resolve_execution_identity(ctx, tools[t], q)
    BY <1>1, <2>1, <2>3
    DEF resolve_execution_identity, grantee_for, may_use_service_account, lacks
  <2>5. \A p : /\ denies(p, tools[t].permission)' = denies(p, tools[t].permission)
               /\ lacks(p, tools[t].permission)' = lacks(p, tools[t].permission)
    BY <1>1, <2>1 DEF denies, lacks
  <2>6. authorize_tool(ctx, t, q)' = authorize_tool(ctx, t, q)
    BY <1>1, <2>4, <2>5 DEF authorize_tool
  <2> QED BY <1>1, <2>6 DEF Allowed
<1>2. PolicyTypeOK /\ PolicyTypeOK' =>
        [/\ sa_grants' # sa_grants
         /\ UNCHANGED <<active, role_entries, roles_of, tools, enabled>>
         /\ \A u \in Users, sa \in ServiceAccounts :
              <<u, sa>> \in sa_grants <=> <<u, sa>> \in sa_grants'
         => \A ctx \in {c \in Contexts : c.user # None}, t \in Tools, q \in Requests :
              Allowed(ctx, t, q)' = Allowed(ctx, t, q)]_policyVars
  BY <1>1
<1> QED BY <1>2, PolicyTypeCorrect, PTL DEF AgentGrantsDoNotReachHumans

----------------------------------------------------------------------------
\* The registry.

ToolsHaveServers == \A t \in Tools : tools[t] # None => ToolServer[t] \in registered

\* No tool is registered without its server, and none outlives it.
LEMMA NextToolsHaveServers ==
  PolicyTypeOK /\ ToolsHaveServers /\ [NextPolicy]_policyVars => ToolsHaveServers'
<1> SUFFICES ASSUME PolicyTypeOK, ToolsHaveServers, [NextPolicy]_policyVars
             PROVE  ToolsHaveServers'
  OBVIOUS
<1>1. CASE UNCHANGED <<tools, registered>>
  BY <1>1 DEF ToolsHaveServers
<1>2. ASSUME NEW t \in Tools, NEW spec \in ToolSpecs, RegisterTool(t, spec)
      PROVE  ToolsHaveServers'
  BY <1>2 DEF RegisterTool, ToolsHaveServers, PolicyTypeOK
<1>3. ASSUME NEW t \in Tools, DeleteTool(t) PROVE ToolsHaveServers'
  BY <1>3 DEF DeleteTool, ToolsHaveServers, PolicyTypeOK
<1>4. ASSUME NEW s \in Servers, NEW on \in BOOLEAN, RegisterServer(s, on)
      PROVE  ToolsHaveServers'
  BY <1>4 DEF RegisterServer, ToolsHaveServers
<1>5. ASSUME NEW s \in Servers, DeleteServer(s) PROVE ToolsHaveServers'
  BY <1>5 DEF DeleteServer, ToolsHaveServers
<1>6. ASSUME NEW p \in Principals, NEW rs \in SUBSET Roles, NewIdentity(p, rs)
      PROVE  ToolsHaveServers'
  BY <1>1, <1>6 DEF NewIdentity, registry
<1>7. CASE Administer
  <2>1. ASSUME NEW s \in Servers, NEW on \in BOOLEAN, SetServerEnabled(s, on)
        PROVE  ToolsHaveServers'
    BY <1>1, <2>1 DEF SetServerEnabled
  <2>2. ASSUME NEW r \in Roles, NEW body \in RoleBodies, PutRole(r, body)
        PROVE  ToolsHaveServers'
    BY <1>1, <2>2 DEF PutRole, registry
  <2>3. ASSUME NEW p \in Principals, NEW rs \in SUBSET Roles, AssignRoles(p, rs)
        PROVE  ToolsHaveServers'
    BY <1>1, <2>3 DEF AssignRoles, registry
  <2>4. ASSUME NEW g \in Users \union Agents, NEW sa \in ServiceAccounts,
               GrantServiceAccount(g, sa) \/ RevokeServiceAccount(g, sa)
        PROVE  ToolsHaveServers'
    BY <1>1, <2>4 DEF GrantServiceAccount, RevokeServiceAccount, registry
  <2> QED
    BY <1>2, <1>3, <1>4, <1>5, <1>6, <1>7, <2>1, <2>2, <2>3, <2>4
    DEF Administer, CreateUser, CreateAgent, CreateServiceAccount, Principals
<1>8. ASSUME NEW p \in Principals, NEW on \in BOOLEAN, SetActive(p, on)
      PROVE  ToolsHaveServers'
  BY <1>1, <1>8 DEF SetActive, policy, registry
<1>9. CASE UNCHANGED policyVars \/ LetIn \/ EndWithoutCommit
  BY <1>1, <1>9 DEF policyVars, policy, registry, LetIn, EndWithoutCommit
<1> QED BY <1>7, <1>8, <1>9 DEF NextPolicy

\* Only the registration of a server adds to the registered servers.
LEMMA OnlyRegistrationRegisters ==
  ASSUME [NextPolicy]_policyVars, registered' \ registered # {}
  PROVE  \E s \in Servers, on \in BOOLEAN : RegisterServer(s, on)
BY DEF NextPolicy, Administer, CreateUser, CreateAgent, CreateServiceAccount, NewIdentity,
       PutRole, AssignRoles, GrantServiceAccount, RevokeServiceAccount, SetServerEnabled,
       RegisterTool, DeleteTool, DeleteServer, SetActive, LetIn, EndWithoutCommit,
       policyVars, policy, registry

\* A server's name brings nothing back when it is registered again
\* (registry/servers.py, delete_server(); models/registry.py, McpServer.tools).
THEOREM RegisteringTheorem == SpecPolicy => RegisteringServersAllowsNothing
<1>1. InitPolicy => ToolsHaveServers
  BY DEF InitPolicy, ToolsHaveServers
<1>2. SpecPolicy => [](PolicyTypeOK /\ ToolsHaveServers)
  BY <1>1, InitPolicyType, NextPolicyType, NextToolsHaveServers, PTL DEF SpecPolicy
<1>3. ASSUME ToolsHaveServers, [NextPolicy]_policyVars, registered' \ registered # {},
             NEW ctx \in Contexts, NEW t \in Tools, NEW q \in Requests, Allowed(ctx, t, q)'
      PROVE  Allowed(ctx, t, q)
  <2>1. PICK s \in Servers, on \in BOOLEAN : RegisterServer(s, on)
    BY <1>3, OnlyRegistrationRegisters
  <2>2. /\ tools' = tools /\ active' = active /\ roles_of' = roles_of
        /\ role_entries' = role_entries /\ sa_grants' = sa_grants
        /\ s \notin registered /\ enabled' \in {enabled, enabled \union {s}}
    BY <2>1 DEF RegisterServer
  <2>3. tools[t] # None /\ ToolServer[t] # s
    BY <1>3, <2>2 DEF Allowed, ToolsHaveServers
  <2>4. ToolServer[t] \in enabled' <=> ToolServer[t] \in enabled
    BY <2>2, <2>3
  <2>5. \A p : permissions_for(p)' = permissions_for(p)
    BY <2>2 DEF permissions_for
  <2>6. /\ resolve_execution_identity(ctx, tools[t], q)'
             = resolve_execution_identity(ctx, tools[t], q)
        /\ authorize_own_account(ctx.service_account, tools[t])'
             = authorize_own_account(ctx.service_account, tools[t])
        /\ \A p : /\ denies(p, tools[t].permission)' = denies(p, tools[t].permission)
                  /\ lacks(p, tools[t].permission)' = lacks(p, tools[t].permission)
    BY <2>2, <2>5
    DEF resolve_execution_identity, authorize_own_account, grantee_for,
        may_use_service_account, lacks, denies
  <2>7. authorize_tool(ctx, t, q)' = authorize_tool(ctx, t, q)
    BY <2>2, <2>4, <2>6 DEF authorize_tool
  <2> QED BY <1>3, <2>3, <2>7 DEF Allowed
<1>4. ToolsHaveServers /\ [NextPolicy]_policyVars =>
        [registered' \ registered # {} =>
           \A ctx \in Contexts, t \in Tools, q \in Requests :
             Allowed(ctx, t, q)' => Allowed(ctx, t, q)]_policyVars
  BY <1>3
<1> QED BY <1>2, <1>4, PTL DEF SpecPolicy, RegisteringServersAllowsNothing

=============================================================================
