\* PostgreSQL: a lock per row, waited for without end.
CONSTANTS
  c1 = c1
  c2 = c2
  c3 = c3
  coder = coder
  key1 = key1
  secret1 = secret1
  None = None
  Calls <- MCCalls
  Tools <- MCTools
  KeyOf <- MCKeyOf
  KeyRow <- MCKeyRow
  SecretRow <- MCSecretRow
  Limit = 3
  WindowSeconds = 2
  MaxTime = 0
  Database = "postgresql"
SPECIFICATION FairServing
PROPERTIES
  EveryRequestEnds
\* The process is idle once every request has ended.
CHECK_DEADLOCK FALSE
