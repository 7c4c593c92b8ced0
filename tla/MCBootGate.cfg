SPECIFICATION GateFairSpec
CONSTANTS
  Reqs = {r1, r2, r3}
  Names = {n1, n2, n3, n4}
  Locks = {l1, l2, l3, l4, l5}
  None = None
INVARIANTS OneLockPerName MapBounded
PROPERTY ImplementsFairFlight
CHECK_DEADLOCK FALSE
