SPECIFICATION ProxyFairSpec
CONSTANTS
  Apps = {a1}
  Pids = {p1, p2}
  Ports = {q1}
  Tasks = {t1}
  Forks = {FALSE}
  None = None
  Reqs = {r1, r2}
  Listeners = {http}
  CliBoots = TRUE
PROPERTY RequestsAnswered
CHECK_DEADLOCK FALSE
