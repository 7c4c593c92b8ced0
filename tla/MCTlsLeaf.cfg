SPECIFICATION TlsSpec
CONSTANTS
  Keys <- MCKeys
  Handlers = {h1}
  Start = Start
  CaKeys = {c1, c2, c3}
  LeafKeys = {k1, k2, k3}
  Faults = {"crash", "disk"}
  None = None
  Torn = Torn
SYMMETRY TlsSymmetry
INVARIANTS TlsTypeOK ServedLeafWhole EveryAppCovered LeafChains
CHECK_DEADLOCK FALSE
