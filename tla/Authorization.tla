--------------------------- MODULE Authorization ---------------------------
(***************************************************************************)
(* The policy database and the decision function over it                   *)
(* (agentid/authorization/engine.py, agentid/gateway/deps.py and the       *)
(* administrative routes of agentid/gateway/api/).                         *)
(*                                                                         *)
(* The state is what the engine reads from the database on every request.  *)
(* Each administrative route is an action.  A request is let in by         *)
(* require_admin, on what it reads then, and commits its route later.      *)
(***************************************************************************)
EXTENDS Permissions, FiniteSets, Naturals

CONSTANTS
  Users, Agents, ServiceAccounts,  \* identities, which the code never deletes
  Autonomous,     \* the agents of kind AUTONOMOUS
  Roles,
  RoleBodies,     \* the permission sets a role may be given
  Tools, Servers, \* qualified tool names and server names
  ToolServer,     \* Tools -> Servers: the server part of a qualified name
  ToolSpecs,      \* the tool records an administrator may register
  ScopeSets,      \* the scopes a token may carry
  BootstrapAdmin, \* the user and the role the first administrator holds
  AdminRole,
  AdminBody,
  MaxAdministering, \* bound: administrative requests in progress at once
  None

Principals == Users \union Agents \union ServiceAccounts

ASSUME PrincipalsDisjoint ==
  /\ Users \intersect Agents = {}
  /\ Users \intersect ServiceAccounts = {}
  /\ Agents \intersect ServiceAccounts = {}
  /\ None \notin Principals
  /\ Autonomous \subseteq Agents

ASSUME BootstrapAssumption ==
  /\ BootstrapAdmin \in Users
  /\ AdminRole \in Roles
  /\ AdminBody \in RoleBodies

ASSUME MaxAdministeringAssumption == MaxAdministering \in Nat

VARIABLES
  identities,    \* principals that have been created
  active,        \* principals whose is_active flag is set
  role_entries,  \* Roles -> the allow and deny entries of the role
  roles_of,      \* Principals -> the roles assigned to it
  sa_grants,     \* unrevoked <<grantee, service account>> grants
  tools,         \* Tools -> the registered record, or None
  registered,    \* servers that are registered
  enabled,       \* servers that are enabled
  administering  \* how many requests are past require_admin and not ended

registry == <<tools, registered, enabled>>
policy == <<identities, role_entries, roles_of, sa_grants, registry>>
policyVars == <<active, policy, administering>>

----------------------------------------------------------------------------
\* What the engine reads.

REQUIRED_TOOL_SCOPE == "mcp:tools"
ADMIN_PERMISSION    == <<"agentid", "admin">>

permissions_for(p) == from_roles(role_entries, roles_of[p])

\* A RequestContext, as authenticate() can build it: a human, a human through
\* an agent, an agent alone, or a service account alone.
Context(persona, user, agent, sa, scopes) ==
  [persona |-> persona, user |-> user, agent |-> agent,
   service_account |-> sa, scopes |-> scopes]

Contexts ==
  UNION {
    {Context("user", u, a, None, s) :
       u \in Users, a \in (Agents \ Autonomous) \union {None}, s \in ScopeSets},
    {Context("non_user", None, a, None, s) : a \in Agents, s \in ScopeSets},
    {Context("non_user", None, None, sa, s) :
       sa \in ServiceAccounts, s \in ScopeSets}}

deny(reason) ==
  [effect |-> "deny", reason |-> reason,
   execution_identity |-> None, service_account |-> None]

allow(identity, sa) ==
  [effect |-> "allow", reason |-> "allowed",
   execution_identity |-> identity, service_account |-> sa]

\* A definition named Something_Bug is a mutant: Something with a bug the code
\* could plausibly have, which the properties are shown to catch.
grantee_for_AgentFirst(ctx) == IF ctx.agent # None THEN ctx.agent ELSE ctx.user
lacks_EmptyIsUnrestricted(p, permission) ==
  truthy(permissions_for(p)) /\ ~permits(permissions_for(p), permission)

\* _grantee_for(): the human when there is one, otherwise the agent.
grantee_for(ctx) == IF ctx.user # None THEN ctx.user ELSE ctx.agent

may_use_service_account(grantee, sa) == <<grantee, sa>> \in sa_grants

lacks(p, permission) == ~permits(permissions_for(p), permission)

denies(p, permission) ==
  p # None /\ denied_by(permissions_for(p), permission)

resolve_execution_identity_FallsBack(ctx, tool, requested) ==
  LET sa      == IF requested # None THEN requested ELSE tool.default
      needsSa == tool.requires_service_account \/ requested # None
  IN  IF ~needsSa \/ sa \notin active
      THEN allow(grantee_for(ctx), None)
      ELSE IF ~may_use_service_account(grantee_for(ctx), sa)
      THEN deny("service_account_not_authorized")
      ELSE allow(sa, sa)

\* _resolve_execution_identity(): whose identity the downstream call carries.
resolve_execution_identity(ctx, tool, requested) ==
  LET sa      == IF requested # None THEN requested ELSE tool.default
      needsSa == tool.requires_service_account \/ requested # None
  IN  IF ~needsSa
      THEN allow(IF ctx.user # None THEN ctx.user ELSE ctx.agent, None)
      ELSE IF sa = None THEN deny("service_account_required")
      ELSE IF sa \notin active \/ ~may_use_service_account(grantee_for(ctx), sa)
      THEN deny("service_account_not_authorized")
      ELSE IF lacks(sa, tool.permission)
      THEN deny("service_account_not_permitted")
      ELSE allow(sa, sa)

\* A service account presenting its own key is its own principal; the service
\* account the request names is not looked at.
authorize_own_account(sa, tool) ==
  IF denies(sa, tool.permission) THEN deny("explicit_deny")
  ELSE IF lacks(sa, tool.permission) THEN deny("service_account_not_permitted")
  ELSE allow(sa, sa)

\* authorize_tool(): the checks in the order the code makes them.
authorize_tool(ctx, t, requested) ==
  LET tool == tools[t]
      own  == ctx.user = None /\ ctx.agent = None
  IN
  IF own /\ ctx.service_account = None THEN deny("unauthenticated")
  ELSE IF ctx.scopes # {} /\ REQUIRED_TOOL_SCOPE \notin ctx.scopes
  THEN deny("missing_scope")
  ELSE IF ~tool.enabled THEN deny("tool_disabled")
  ELSE IF ToolServer[t] \notin enabled THEN deny("server_disabled")
  ELSE IF \/ ctx.user # None /\ ctx.user \notin active
          \/ own /\ ctx.service_account \notin active
          \/ ctx.agent # None /\ ctx.agent \notin active
  THEN deny("identity_disabled")
  ELSE IF \/ (ctx.persona = "user") # (ctx.user # None)
          \/ ctx.user # None /\ ctx.agent \in Autonomous
  THEN deny("persona_violation")
  ELSE IF denies(ctx.user, tool.permission) \/ denies(ctx.agent, tool.permission)
  THEN deny("explicit_deny")
  ELSE IF ctx.user # None /\ lacks(ctx.user, tool.permission)
  THEN deny("missing_permission")
  ELSE IF ctx.agent # None /\ lacks(ctx.agent, tool.permission)
  THEN deny(IF ctx.user = None THEN "agent_not_permitted"
                               ELSE "exceeds_user_permissions")
  ELSE IF own THEN authorize_own_account(ctx.service_account, tool)
  ELSE resolve_execution_identity(ctx, tool, requested)

Allowed(ctx, t, requested) ==
  tools[t] # None /\ authorize_tool(ctx, t, requested).effect = "allow"

----------------------------------------------------------------------------
\* Administration.

\* _permissions_for(): the caller's permissions on the administrative routes.
permissions_of_caller(ctx) ==
  LET agents == permissions_for(ctx.agent)
  IN  IF ctx.user # None
      THEN IF ctx.agent # None /\ truthy(agents)
           THEN intersect(permissions_for(ctx.user), agents)
           ELSE permissions_for(ctx.user)
      ELSE permissions_for(IF ctx.agent # None THEN ctx.agent
                                               ELSE ctx.service_account)

is_admin_EmptyIsUnrestricted(ctx) ==
  truthy(permissions_of_caller(ctx)) => permits(permissions_of_caller(ctx), ADMIN_PERMISSION)

\* require_admin(): the permission, not the activity of the identity.
is_admin(ctx) == permits(permissions_of_caller(ctx), ADMIN_PERMISSION)

\* authenticate() refuses a disabled user or agent, and does not look at
\* whether a service account is disabled.
authenticated(ctx) ==
  /\ {ctx.user, ctx.agent} \ {None} \subseteq active
  /\ ctx.service_account \in identities \union {None}

AdminCaller == \E ctx \in Contexts : authenticated(ctx) /\ is_admin(ctx)

\* PUT /policy/roles: the entries of the role are replaced.
PutRole(r, body) ==
  /\ role_entries' = [role_entries EXCEPT ![r] = body]
  /\ UNCHANGED <<identities, active, roles_of, sa_grants, registry>>

\* A new identity is active and has the roles it is created with.  A name that
\* is taken is refused.
NewIdentity(p, rs) ==
  /\ p \notin identities
  /\ identities' = identities \union {p}
  /\ active' = active \union {p}
  /\ roles_of' = [roles_of EXCEPT ![p] = rs]
  /\ UNCHANGED <<role_entries, sa_grants, registry>>

\* POST /users, /agents and /service-accounts
CreateUser(u, rs) == NewIdentity(u, rs)
CreateAgent(a, rs) == NewIdentity(a, rs)
CreateServiceAccount(sa, rs) == NewIdentity(sa, rs)

AssignRoles_OneHolder(p, rs) ==
  /\ p \in identities
  /\ roles_of' = [x \in Principals |-> IF x = p THEN rs ELSE roles_of[x] \ rs]
  /\ UNCHANGED <<identities, active, role_entries, sa_grants, registry>>

\* POST /policy/{users,agents,service-accounts}/{id}/roles
AssignRoles(p, rs) ==
  /\ p \in identities
  /\ roles_of' = [roles_of EXCEPT ![p] = rs]
  /\ UNCHANGED <<identities, active, role_entries, sa_grants, registry>>

GrantServiceAccount_Swapped(grantee, sa) ==
  /\ {grantee, sa} \subseteq identities
  /\ sa_grants' = sa_grants \union {<<sa, grantee>>}
  /\ UNCHANGED <<identities, active, role_entries, roles_of, registry>>

\* POST and DELETE /service-accounts/{id}/grants.  The grantee is not looked
\* up; a grant to an id that nobody has stays without effect.
GrantServiceAccount(grantee, sa) ==
  /\ {grantee, sa} \subseteq identities
  /\ sa_grants' = sa_grants \union {<<grantee, sa>>}
  /\ UNCHANGED <<identities, active, role_entries, roles_of, registry>>

RevokeServiceAccount(grantee, sa) ==
  /\ sa_grants' = sa_grants \ {<<grantee, sa>>}
  /\ UNCHANGED <<identities, active, role_entries, roles_of, registry>>

\* POST /registry/servers refuses a name that is registered.
RegisterServer(s, on) ==
  /\ s \notin registered
  /\ registered' = registered \union {s}
  /\ enabled' = IF on THEN enabled \union {s} ELSE enabled
  /\ UNCHANGED <<identities, active, role_entries, roles_of, sa_grants, tools>>

\* POST /registry/servers/{name}/enabled
SetServerEnabled(s, on) ==
  /\ s \in registered
  /\ enabled' = IF on THEN enabled \union {s} ELSE enabled \ {s}
  /\ UNCHANGED <<identities, active, role_entries, roles_of, sa_grants, tools, registered>>

DeleteServer_KeepsTools(s) ==
  /\ s \in registered
  /\ registered' = registered \ {s}
  /\ enabled' = enabled \ {s}
  /\ UNCHANGED <<identities, active, role_entries, roles_of, sa_grants, tools>>

\* DELETE /registry/servers/{name} deletes the tools of the server with it.  It
\* fails, and changes nothing, while a stored credential refers to the server.
DeleteServer(s) ==
  /\ s \in registered
  /\ registered' = registered \ {s}
  /\ enabled' = enabled \ {s}
  /\ tools' = [t \in Tools |-> IF ToolServer[t] = s THEN None ELSE tools[t]]
  /\ UNCHANGED <<identities, active, role_entries, roles_of, sa_grants>>

\* POST /registry/servers/{name}/tools refuses a name that is registered, and
\* the foreign key a default service account that does not exist.
RegisterTool(t, spec) ==
  /\ ToolServer[t] \in registered
  /\ tools[t] = None
  /\ spec.default \in identities \union {None}
  /\ tools' = [tools EXCEPT ![t] = spec]
  /\ UNCHANGED <<identities, active, role_entries, roles_of, sa_grants, registered, enabled>>

DeleteTool(t) ==
  /\ tools[t] # None
  /\ tools' = [tools EXCEPT ![t] = None]
  /\ UNCHANGED <<identities, active, role_entries, roles_of, sa_grants, registered, enabled>>

\* No route changes is_active: an operator does, in the database.
SetActive(p, on) ==
  /\ p \in identities
  /\ active' = IF on THEN active \union {p} ELSE active \ {p}
  /\ UNCHANGED <<policy, administering>>

----------------------------------------------------------------------------
\* Seeding the database creates the first administrator.
InitPolicy ==
  /\ identities = {BootstrapAdmin}
  /\ active = {BootstrapAdmin}
  /\ role_entries = [r \in Roles |-> IF r = AdminRole THEN AdminBody
                                                     ELSE EmptyPermissionSet]
  /\ roles_of = [p \in Principals |-> IF p = BootstrapAdmin THEN {AdminRole} ELSE {}]
  /\ sa_grants = {}
  /\ tools = [t \in Tools |-> None]
  /\ registered = {}
  /\ enabled = {}
  /\ administering = 0

\* Every administrative route depends on require_admin, which looks at the
\* caller's permissions once, before the route.
LetIn ==
  /\ AdminCaller
  /\ administering < MaxAdministering
  /\ administering' = administering + 1
  /\ UNCHANGED <<active, policy>>

\* The commit of a route, whatever its caller's permissions are by then.
Administer ==
  /\ administering > 0
  /\ administering' = administering - 1
  /\ \/ \E r \in Roles, body \in RoleBodies : PutRole(r, body)
     \/ \E u \in Users, rs \in SUBSET Roles : CreateUser(u, rs)
     \/ \E a \in Agents, rs \in SUBSET Roles : CreateAgent(a, rs)
     \/ \E sa \in ServiceAccounts, rs \in SUBSET Roles : CreateServiceAccount(sa, rs)
     \/ \E p \in Principals, rs \in SUBSET Roles : AssignRoles(p, rs)
     \/ \E g \in Users \union Agents, sa \in ServiceAccounts :
           GrantServiceAccount(g, sa) \/ RevokeServiceAccount(g, sa)
     \/ \E t \in Tools, spec \in ToolSpecs : RegisterTool(t, spec)
     \/ \E t \in Tools : DeleteTool(t)
     \/ \E s \in Servers : DeleteServer(s)
     \/ \E s \in Servers, on \in BOOLEAN : RegisterServer(s, on) \/ SetServerEnabled(s, on)

\* A route that only reads, or that fails: nothing is committed.
EndWithoutCommit ==
  /\ administering > 0
  /\ administering' = administering - 1
  /\ UNCHANGED <<active, policy>>

NextPolicy ==
  \/ LetIn
  \/ Administer
  \/ EndWithoutCommit
  \/ \E p \in Principals, on \in BOOLEAN : SetActive(p, on)

SpecPolicy == InitPolicy /\ [][NextPolicy]_policyVars

----------------------------------------------------------------------------
\* Properties.

\* The shape of the database rows.
PolicyTypeOK ==
  /\ identities \subseteq Principals
  /\ active \subseteq identities
  /\ role_entries \in [Roles -> RoleBodies \union {EmptyPermissionSet}]
  /\ roles_of \in [Principals -> SUBSET Roles]
  /\ sa_grants \subseteq (Users \union Agents) \X ServiceAccounts
  /\ tools \in [Tools -> ToolSpecs \union {None}]
  /\ registered \subseteq Servers
  /\ enabled \subseteq registered
  /\ administering \in 0 .. MaxAdministering

Requests == ServiceAccounts \union {None}

\* What a call may run as, stated without the engine's order of checks
\* (docs/authorization.md sections 4 to 6): every identity of the chain is
\* enabled and holds the permission with no deny; the execution identity is
\* the human, else the agent, unless a service account is needed, and then it
\* is one the human (else the agent) was granted and that holds the
\* permission itself.
MayRunAs(ctx, t, requested, identity) ==
  LET tool   == tools[t]
      chain  == {ctx.user, ctx.agent} \ {None}
      caller == CHOOSE p \in chain : ctx.user \in chain => p = ctx.user
      usable(p) == p \in active /\ permits(permissions_for(p), tool.permission)
  IN  /\ tool.enabled /\ ToolServer[t] \in enabled
      /\ ctx.scopes = {} \/ REQUIRED_TOOL_SCOPE \in ctx.scopes
      /\ \A p \in chain : usable(p)
      /\ IF chain = {} THEN identity = ctx.service_account /\ usable(identity)
         ELSE IF tool.requires_service_account \/ requested # None
         THEN /\ identity = IF requested = None THEN tool.default ELSE requested
              /\ identity # None /\ usable(identity)
              /\ <<caller, identity>> \in sa_grants
         ELSE identity = caller

\* The engine allows exactly the calls the documented rules allow, under
\* exactly the documented execution identity.
EngineMeetsPolicy ==
  \A ctx \in Contexts, t \in {x \in Tools : tools[x] # None}, q \in Requests :
    LET d == authorize_tool(ctx, t, q)
    IN  \A p \in Principals :
          (d.effect = "allow" /\ d.execution_identity = p) <=> MayRunAs(ctx, t, q, p)

\* A human who puts an agent in front of a call gains nothing: whatever the
\* delegated call may do, the human could do alone, as the same identity.
\* (The grantee of a service account is the human in both cases.)
DelegationNeverWidens ==
  \A ctx \in Contexts, t \in Tools, q \in Requests :
    /\ ctx.user # None /\ ctx.agent # None
    /\ Allowed(ctx, t, q)
    => authorize_tool([ctx EXCEPT !.agent = None], t, q) = authorize_tool(ctx, t, q)

\* The decision on a call made for a human does not depend on what agents
\* have been granted: a step that only changes agents' grants changes none.
AgentGrantsDoNotReachHumans ==
  [][ /\ sa_grants' # sa_grants
      /\ UNCHANGED <<active, role_entries, roles_of, tools, enabled>>
      /\ \A u \in Users, sa \in ServiceAccounts :
           <<u, sa>> \in sa_grants <=> <<u, sa>> \in sa_grants'
      => \A ctx \in {c \in Contexts : c.user # None}, t \in Tools, q \in Requests :
           Allowed(ctx, t, q)' = Allowed(ctx, t, q)
    ]_policyVars

\* A step that only takes away: fewer active identities, grants, servers and
\* tools, roles with fewer allows or more denies, the same role assignments.
Tightens ==
  /\ policyVars' # policyVars
  /\ active' \subseteq active
  /\ sa_grants' \subseteq sa_grants
  /\ enabled' \subseteq enabled
  /\ \A t \in Tools : tools'[t] \in {tools[t], None}
  /\ roles_of' = roles_of
  /\ \A r \in Roles : /\ role_entries'[r].allow \subseteq role_entries[r].allow
                      /\ role_entries[r].deny \subseteq role_entries'[r].deny

\* Taking something away never opens a call that was refused: no check is
\* skipped because a set of permissions or grants became empty.
TighteningNeverAllows ==
  [][ Tightens =>
        \A ctx \in Contexts, t \in Tools, q \in Requests :
          Allowed(ctx, t, q)' => Allowed(ctx, t, q)
    ]_policyVars

\* A server registered under a name that was used before begins with nothing:
\* the tools of the old one, and what was permitted to be done with them, do
\* not come back with it (registry/servers.py, delete_server(); models/registry.py).
RegisteringServersAllowsNothing ==
  [][ registered' \ registered # {} =>
        \A ctx \in Contexts, t \in Tools, q \in Requests :
          Allowed(ctx, t, q)' => Allowed(ctx, t, q)
    ]_policyVars

LockedOut == \A p \in Principals : lacks(p, ADMIN_PERMISSION)

\* Once no identity holds agentid.admin free of denies, nobody gets in any more,
\* whatever chain of identities and scopes the caller presents: only requests
\* that were let in before can still change the policy, each of them once, and
\* when the last has ended administration is never recovered through the
\* gateway (gateway/deps.py, require_admin() before the route's commit).
LockoutIsPermanent ==
  [][ LockedOut => /\ administering' <= administering
                   /\ policy' # policy => administering' < administering
    ]_policyVars

\* deps.py: "A delegated caller is still bounded by the agent's own grants."
\* docs/authorization.md section 9: it "needs the permission on both the user
\* and the agent".
DelegatedAdminNeedsBoth ==
  \A ctx \in Contexts :
    /\ ctx.user # None /\ ctx.agent # None
    /\ authenticated(ctx) /\ is_admin(ctx)
    => ~lacks(ctx.user, ADMIN_PERMISSION) /\ ~lacks(ctx.agent, ADMIN_PERMISSION)

=============================================================================
