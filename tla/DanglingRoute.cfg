CONSTANTS
  Callers = {"console"}
  Sessions = {s1, s2}
  ClockStarts = 0
  AcceptStarts = 1
  MaxClients = 2
  MaxChannels = 1
  PortFactor = 2
  MaxConnections = 1

SPECIFICATION Spec

SYMMETRY SessionSymmetry

INVARIANT RoutesNeverDangle

CHECK_DEADLOCK FALSE
