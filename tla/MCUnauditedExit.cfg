\* An exit of call_tool() that leaves no audit event.
CONSTANTS
  alice = alice
  coder = coder
  deployer = deployer
  admins = admins
  create_issue = create_issue
  github = github
  call = call
  Calls <- MCCalls
  None = None
  Users <- MCUsers
  Agents <- MCAgents
  ServiceAccounts <- MCServiceAccounts
  Autonomous = {}
  Roles <- MCRoles
  RoleBodies <- MCRoleBodies
  Tools <- MCTools
  Servers <- MCServers
  ToolServer <- MCToolServer
  ToolSpecs <- MCToolSpecs
  ScopeSets <- MCScopeSets
  BootstrapAdmin = alice
  AdminRole = admins
  AdminBody <- Everything
  MaxAdministering = 1
SPECIFICATION SpecToolCall
INVARIANTS
  FailedDownstreamIsAudited
