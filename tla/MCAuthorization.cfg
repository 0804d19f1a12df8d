\* The decision function over every policy two roles can express.
CONSTANTS
  alice = alice
  coder = coder
  deployer = deployer
  admins = admins
  devs = devs
  create_issue = create_issue
  github = github
  None = None
  Users <- MCUsers
  Agents <- MCAgents
  ServiceAccounts <- MCServiceAccounts
  Autonomous = {}
  Roles <- MCRoles
  RoleBodies <- MCRoleBodies
  Tools <- MCTools
  Servers <- MCServers
  ToolServer <- MCToolServer
  ToolSpecs <- MCToolSpecs
  ScopeSets <- MCScopeSets
  BootstrapAdmin = alice
  AdminRole = admins
  AdminBody <- Everything
  MaxAdministering = 1
  github_audience = github_audience
  gateway_audience = gateway_audience
  Audiences = {github_audience, gateway_audience}
  GatewayAudience = gateway_audience
SPECIFICATION SpecPolicy
INVARIANTS
  PolicyTypeOK
  EngineMeetsPolicy
  DelegationNeverWidens
  DiscoveryShowsTheCallable
  ServerSeesDecision
  RestrictedReadsAreGranted
  TokensKeepToTheirSide
PROPERTIES
  AgentGrantsDoNotReachHumans
  TighteningNeverAllows
  RegisteringServersAllowsNothing
  
