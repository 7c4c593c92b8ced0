SPECIFICATION StartFairSpec
CONSTANTS
  Daemons = {d1, d2}
  Clients = {c1, c2}
  None = None
INVARIANTS StartTypeOK OneDaemon OneRegistryLock NextBootUnblocked
PROPERTY CallsReturn
CHECK_DEADLOCK FALSE
