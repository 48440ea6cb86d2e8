\* Three clients for two places through a restart.
CONSTANTS
  Callers = {"console"}
  Sessions = {s1, s2, s3}
  ClockStarts = 0
  AcceptStarts = 2
  MaxClients = 2
  MaxChannels = 1
  PortFactor = 2
  MaxConnections = 1

SPECIFICATION Spec

SYMMETRY SessionSymmetry

CONSTRAINT ConnectedEarly

INVARIANTS
  LifecycleTypeOK
  NumbersStayOwn
  PortsFollowNumbers
  BuffersStayApart

 

CHECK_DEADLOCK FALSE
