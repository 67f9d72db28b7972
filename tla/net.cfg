CONSTANTS
  a = a
  b = b
  c = c
  Nodes = {a, b, c}
  NetId <- TwoNets
  Boot <- LineBoot
  kTargetNumPeers = 2
  MaxConns = 2
  Fds = {f1, f2, f3}
  Scattered = TRUE
  NoFd = NoFd
  MaxStarts = 3
  Stops = TRUE
  Patient = FALSE
  Coalesce = TRUE
SPECIFICATION FairSpec
INVARIANTS TypeOK AddressesStayInNetwork
PROPERTIES HandshakeSpec HandshakeCompletes StrangersPart ClosedIsNoticed
CHECK_DEADLOCK FALSE
