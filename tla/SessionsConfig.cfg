\* Three clients that all fit; two of them open their configuration.
CONSTANTS
  MaxClients = 3
  MaxChannels = 1
  PortFactor = 2
  MaxConnections = 0
  c1 = c1
  c2 = c2
  c3 = c3
  None = None
  Clients = {c1, c2, c3}
  MayOpenConfig = {c1, c2}
  MayCrash = {}
  MayLackThread = {}

SPECIFICATION Spec

INVARIANTS
  OpenClientsKeepRef
  ClosedLeavesNothing

SYMMETRY AlikeButLast

CHECK_DEADLOCK FALSE
