\* Two clients for two places.  Both may crash; the first may open its
\* configuration, and for the second there may be no thread.  No symmetry: the
\* properties are temporal.
CONSTANTS
  MaxClients = 2
  MaxChannels = 1
  PortFactor = 2
  MaxConnections = 0
  c1 = c1
  c2 = c2
  c3 = c3
  None = None
  Clients = {c1, c2}
  MayOpenConfig = {c1}
  MayCrash = {c1, c2}
  MayLackThread = {c2}

SPECIFICATION Spec

PROPERTIES
  OpenAnswered
  ClosedReleased

CHECK_DEADLOCK FALSE
