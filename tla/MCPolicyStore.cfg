\* Concurrent replacements of two roles.
CONSTANTS
  thread1 = thread1
  thread2 = thread2
  developer = developer
  operator = operator
  read = read
  deploy = deploy
  None = None
  Txs <- MCTxs
  Roles <- MCRoles
  Names <- MCNames
  Requests <- MCRequests
  MaxUpserts = 4
SYMMETRY Symmetry
SPECIFICATION SpecPolicyStore
INVARIANTS
  PolicyStoreTypeOK
  LatestBodyInForce
PROPERTY
  UndisturbedReplaces
