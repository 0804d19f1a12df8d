\* SQLite: one write lock, given up after a while.
CONSTANTS
  c1 = c1
  c2 = c2
  c3 = c3
  coder = coder
  key1 = key1
  secret1 = secret1
  None = None
  Calls <- MCCalls
  Tools <- MCTools
  KeyOf <- MCKeyOf
  KeyRow <- MCKeyRow
  SecretRow <- MCSecretRow
  Limit = 1
  WindowSeconds = 2
  MaxTime = 3
  Database = "sqlite"
SPECIFICATION FairServing
INVARIANTS
  ServingTypeOK
  BurstBounded
  RefusedAtLimitOnly
  EndedHoldsNothing
  KeptWithItsEvent
  StopsOnlyForASecret
PROPERTIES
  EveryRequestEnds
\* The process is idle once every request has ended.
CHECK_DEADLOCK FALSE
