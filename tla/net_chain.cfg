CONSTANTS
  a = a
  b = b
  c = c
  Nodes = {a, b, c}
  NetId <- OneNet
  Boot <- ChainBoot
  kTargetNumPeers = 20
  MaxConns = 6
  Fds = {f1, f2, f3, f4, f5}
  Scattered = FALSE
  NoFd = NoFd
  MaxStarts = 3
  Stops = FALSE
  Patient = TRUE
  Coalesce = FALSE
SPECIFICATION StartedSpec
PROPERTIES AllMeet
CHECK_DEADLOCK FALSE
