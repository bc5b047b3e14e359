CONSTANTS
  k1 = k1
  k2 = k2
  ApiKeys = {k1, k2}
  NoKey = NoKey
  NoToken = NoToken
  Configs <- TokenConfigs
  Validities = {2, 4}
  CallTime = 2
  MaxFaults = 3
  MaxGrants = 2
  MaxKeyChanges = 1

SPECIFICATION FairSpec
CHECK_DEADLOCK FALSE
INVARIANTS
  RequestsUseKeyRead
  RefusedTokenIsDropped
  RenewedInTime
PROPERTIES
  ShutdownEndsThread
  TokenComes
