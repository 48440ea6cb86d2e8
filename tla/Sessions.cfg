\* Three clients for two places, any of which may crash, or get no thread.
CONSTANTS
  MaxClients = 2
  MaxChannels = 1
  PortFactor = 2
  MaxConnections = 0
  c1 = c1
  c2 = c2
  c3 = c3
  None = None
  Clients = {c1, c2, c3}
  MayOpenConfig = {}
  MayCrash = {c1, c2, c3}
  MayLackThread = {c1, c2, c3}

SPECIFICATION Spec

INVARIANTS
  TypeOK
  OneRequestAtATime
  OpenClientsKeepRef
  ClosedLeavesNothing

SYMMETRY Alike

CHECK_DEADLOCK FALSE
