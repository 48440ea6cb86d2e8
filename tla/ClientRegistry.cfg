CONSTANTS
  MaxClients = 3
  MaxChannels = 2
  PortFactor = 3
  MaxConnections = 2

SPECIFICATION Spec

INVARIANTS
  TypeOK
  BuffersExclusive
  BuffersAccounted
  PortsOwned
  Layout
  RoutesResolve

PROPERTIES
  NeighboursUndisturbed
  ImplementsPatchbay

CHECK_DEADLOCK TRUE
