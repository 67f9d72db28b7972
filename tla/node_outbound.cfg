CONSTANTS
  None = None
  Users = {u1, u2}
  Tasks = {t1, t2}
  DirectCallers = {}
  Fds = {f1, f2}
  EarlyConnect = FALSE
  Inbound = FALSE
  Incoming = {"peer_info", "eof"}
  NBoot = 1
  kTargetNumPeers = 2
  PipeCap = 3
  MaxPool = 1
  EpollFails = FALSE
SPECIFICATION Spec
INVARIANTS ShutdownOnlyWhenClosing RecordsIntact NeverDies
CHECK_DEADLOCK FALSE
