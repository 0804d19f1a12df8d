\* Calls, refreshes and scripts on two credentials.
CONSTANTS
  alice = alice
  deployer = deployer
  server = server
  call1 = call1
  call2 = call2
  value1 = value1
  value2 = value2
  None = None
  Calls <- MCCalls
  Owners <- MCOwners
  Server = server
  Contexts <- MCContexts
  Values <- MCValues
  Payloads <- MCPayloads
  Renewals <- MCRenewals
  DefaultTTL = 3
  Leeway = 1
  MaxTime = 2
  MaxWrites = 3
SYMMETRY Symmetry
SPECIFICATION SpecStore
INVARIANT
  CredentialTypeOK
PROPERTIES
  CurrentSecretOnly
  ExpiryRespected
  DeletedStaysDeleted
  NoLostUpdate
