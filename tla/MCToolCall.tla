----------------------------- MODULE MCToolCall -----------------------------
(***************************************************************************)
(* One call, since calls share nothing but the policy, against a policy    *)
(* small enough to change in every way while the call is in progress.      *)
(***************************************************************************)
EXTENDS ToolCall

CONSTANTS alice, coder, deployer, admins, create_issue, github, call

MCPermission == <<"github", "create_issue">>
MCUsers == {alice}
MCAgents == {coder}
MCServiceAccounts == {deployer}
MCRoles == {admins}
MCTools == {create_issue}
MCServers == {github}
MCToolServer == [t \in MCTools |-> github]
Everything == [allow |-> {<<"*">>}, deny |-> {}]
MCRoleBodies == {Everything, EmptyPermissionSet}
MCToolSpecs ==
  {[enabled |-> TRUE, permission |-> MCPermission,
    requires_service_account |-> TRUE, default |-> deployer]}
MCScopeSets == {{"mcp:tools"}}
MCCalls == {call}

=============================================================================
