\* Two replacements of one role leave the union of their bodies.
CONSTANTS
  thread1 = thread1
  thread2 = thread2
  developer = developer
  operator = operator
  read = read
  deploy = deploy
  None = None
  Txs <- MCTxs
  Roles <- MCRoles
  Names <- MCNames
  Requests <- MCRequests
  MaxUpserts = 4
SPECIFICATION SpecPolicyStore
INVARIANT
  RoleIsLatestBody
