CONSTANTS
  None = None
  Loggers = {t1, t2}
  Owners = {o1, o2}
  Rejecting = {o1}
  Reentrant = {o2}
  MaxID = 5
SPECIFICATION FairSpec
INVARIANTS LogInv RemovedIsSilent DeliveredToAll PrintedOnce
PROPERTIES LogReturns WaitReturns
CHECK_DEADLOCK FALSE
