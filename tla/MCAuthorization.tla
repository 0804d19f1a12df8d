-------------------------- MODULE MCAuthorization --------------------------
(***************************************************************************)
(* One human, one delegated agent, one service account, two roles and one  *)
(* tool: enough for every chain a request can carry and for two roles on   *)
(* one identity.                                                           *)
(***************************************************************************)
EXTENDS Discovery, Downstream

CONSTANTS alice, coder, deployer, admins, devs, create_issue, github,
          github_audience, gateway_audience

Permission == <<"github", "create_issue">>

MCUsers == {alice}
MCAgents == {coder}
MCServiceAccounts == {deployer}
MCRoles == {admins, devs}
MCTools == {create_issue}
MCServers == {github}
MCToolServer == [t \in MCTools |-> github]

Everything == [allow |-> {<<"*">>}, deny |-> {}]

\* The role that holds everything, one that denies what others may allow, and
\* a role with no entry.
MCRoleBodies ==
  {Everything,
   [allow |-> {Permission}, deny |-> {<<"agentid", "**">>}],
   EmptyPermissionSet}

ToolSpec(on, needsSa, default) ==
  [enabled |-> on, permission |-> Permission,
   requires_service_account |-> needsSa, default |-> default]

MCToolSpecs ==
  {ToolSpec(TRUE, FALSE, None), ToolSpec(TRUE, TRUE, deployer),
   ToolSpec(FALSE, TRUE, None)}

MCScopeSets == {{"mcp:tools"}, {"profile"}}

=============================================================================
