\* The exchange of a delegated token whose delegation was revoked.
CONSTANTS
  alice = alice
  coder = coder
  nightly = nightly
  deployer = deployer
  s1 = s1
  s2 = s2
  d1 = d1
  d2 = d2
  k1 = k1
  w1 = w1
  w2 = w2
  r1 = r1
  None = None
  Purged = Purged
  Users <- MCUsers
  Agents <- MCAgents
  Autonomous <- MCAutonomous
  ServiceAccounts <- MCServiceAccounts
  SessionIds <- MCOneSession
  DelegationIds <- MCDelegationIds
  ApiKeyIds = {}
  KeyTTLs <- MCKeyTTLs
  Workers <- MCOneWorker
  Revokers <- MCRevokers
  AccessTTL = 1
  DelegatedTTL = 2
  SessionTTL = 2
  MaxTime = 1
SPECIFICATION Spec
PROPERTIES
  RevokedDelegationMintsNothing
