CONSTANTS
  MaxClients = 1
  MaxChannels = 1
  PortFactor = 2
  MaxConnections = 0
  c1 = c1
  c2 = c2
  c3 = c3
  None = None
  Clients = {c1, c2}
  MayOpenConfig = {}
  MayCrash = {}
  MayLackThread = {}

SPECIFICATION Spec

INVARIANTS
  OpenClientHasRecord

CHECK_DEADLOCK FALSE
