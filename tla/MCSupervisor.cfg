SPECIFICATION FairSpec
CONSTANTS
  Apps = {a1, a2}
  Pids = {p1, p2}
  Ports = {q1, q2}
  Tasks = {t1}
  Forks = {TRUE, FALSE}
  None = None
INVARIANTS TypeOK SupervisedRuns PortsExclusive KilledOnlyIfAsked
PROPERTIES StopOkMeansEnded ImplementsLife StopReturns ImplementsFairLife
CHECK_DEADLOCK FALSE
