\* Two exchanges against each other, and an API key.  A delegated token made
\* late outlives its session.
CONSTANTS
  alice = alice
  coder = coder
  nightly = nightly
  deployer = deployer
  s1 = s1
  s2 = s2
  d1 = d1
  d2 = d2
  k1 = k1
  w1 = w1
  w2 = w2
  r1 = r1
  None = None
  Purged = Purged
  Users <- MCUsers
  Agents <- MCOneAgent
  Autonomous = {}
  ServiceAccounts = {}
  SessionIds <- MCOneSession
  DelegationIds <- MCDelegationIds
  ApiKeyIds <- MCApiKeyIds
  KeyTTLs <- MCShortKeys
  Workers <- MCTwoWorkers
  Revokers <- MCRevokers
  AccessTTL = 1
  DelegatedTTL = 2
  SessionTTL = 1
  MaxTime = 2
SPECIFICATION Spec
INVARIANTS
  TypeOK
  LogoutEndsLineage
  
  DelegationsKeepTheirSession
PROPERTIES
  RevokeAllStopsAgents
  NoResurrection
  AuthorityKept
SYMMETRY MCSymmetry
