SPECIFICATION ProxySpec
CONSTANTS
  Apps = {a1}
  Pids = {p1, p2}
  Ports = {q1, q2}
  Tasks = {t1}
  Forks = {FALSE}
  None = None
  Reqs = {r1, r2}
  Listeners = {http}
  CliBoots = FALSE
PROPERTY RoutedRequestsSpared
CHECK_DEADLOCK FALSE
