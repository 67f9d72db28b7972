CONSTANTS
  None = None
  Users = {u1}
  Tasks = {t1}
  DirectCallers = {}
  Fds = {f1, f2}
  EarlyConnect = FALSE
  Inbound = TRUE
  Incoming = {"peer_info", "discovery", "eof"}
  NBoot = 1
  kTargetNumPeers = 2
  PipeCap = 3
  MaxPool = 1
  EpollFails = TRUE
SPECIFICATION FairSpec
PROPERTIES StopReturnsOrWedges ConnectedIsGreeted
CHECK_DEADLOCK FALSE
