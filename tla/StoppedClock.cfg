CONSTANTS
  Callers = {"console"}
  Sessions = {}
  ClockStarts = 1
  AcceptStarts = 1
  MaxClients = 1
  MaxChannels = 1
  PortFactor = 2
  MaxConnections = 0

SPECIFICATION Spec

PROPERTY StoppedClockQuits

CHECK_DEADLOCK FALSE
