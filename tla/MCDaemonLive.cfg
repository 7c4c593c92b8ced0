SPECIFICATION DaemonFairSpec
CONSTANTS
  Apps = {a1}
  Handlers = {h1, h2}
  Scanner = Scanner
  Timed = {}
  Active = {a1}
  Commands = {"add", "remove", "prune", "up", "down", "restart"}
  Faults = {"crash", "disk"}
  None = None
PROPERTIES OrphansReaped CommandsReturn
CHECK_DEADLOCK FALSE
