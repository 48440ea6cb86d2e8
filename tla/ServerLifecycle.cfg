\* The commands and Ctrl-C, with two threads that accept and one clock.
CONSTANTS
  Callers = {"console", "ctrl"}
  Sessions = {s1}
  ClockStarts = 1
  AcceptStarts = 2
  MaxClients = 1
  MaxChannels = 1
  PortFactor = 2
  MaxConnections = 0

SPECIFICATION Spec

CONSTRAINT CtrlCAlone

INVARIANTS
  AcceptThreadFollowsServer
  StoppedServerIsClosed

PROPERTIES
  RunningServerListens
  CommandsFinish

CHECK_DEADLOCK FALSE
