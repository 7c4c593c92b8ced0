SPECIFICATION ProxySpec
CONSTANTS
  Apps = {a1}
  Pids = {p1, p2}
  Ports = {q1, q2}
  Tasks = {t1}
  Forks = {FALSE}
  None = None
  Reqs = {r1, r2, r3}
  Listeners = {http}
  CliBoots = FALSE
SYMMETRY ProxySymmetry
INVARIANTS ProxyTypeOK BootsShared RoutedRunsListen
PROPERTY FreshRequestsSpared
CHECK_DEADLOCK FALSE
