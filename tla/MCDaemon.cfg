SPECIFICATION DaemonSpec
CONSTANTS
  Apps = {a1, a2}
  Handlers = {h1, h2}
  Scanner = Scanner
  Timed = {a1}
  Active = {a1}
  Commands = {"add", "remove", "prune", "up", "down", "restart"}
  Faults = {}
  None = None
SYMMETRY DaemonSymmetry
INVARIANT DaemonTypeOK
PROPERTIES ImplementsRegistry
CHECK_DEADLOCK FALSE
