CONSTANTS
  None = None
  Users = {u1, u2}
  Tasks = {t1, t2}
  DirectCallers = {u1}
  Fds = {f1, f2}
  EarlyConnect = TRUE
  Inbound = TRUE
  Incoming = {"peer_info", "reject", "discovery", "disconnect", "eof", "reset"}
  NBoot = 1
  kTargetNumPeers = 2
  PipeCap = 3
  MaxPool = 1
  EpollFails = TRUE
SPECIFICATION Spec
SYMMETRY Symmetry
INVARIANTS TypeOK QuiescentJoin TablesAgree NodeInv JoinedClean NoOtherDeadlock
PROPERTIES OrphansOnlyOfStopped WedgeIsPermanent LifecycleSpec
CHECK_DEADLOCK FALSE
