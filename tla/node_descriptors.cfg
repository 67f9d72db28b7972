CONSTANTS
  MaxFd = 5
  MaxForeign = 1
  Tasks = {}
  DirectCallers = {d1}
  None = None
  Ports = {p1, p2}
SPECIFICATION Spec
SYMMETRY Symmetry
INVARIANTS TypeOK StoppedHoldsNothing
PROPERTIES ClosesItsOwn EventsReachThePipe PortsStayLost PortLostOnlyIf
CHECK_DEADLOCK FALSE
