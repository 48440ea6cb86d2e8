CONSTANTS
  Frames = 2
  MaxBlocks = 3
  MaxPointers = 2
  twoRaisedTo32 = 4

SPECIFICATION Spec

INVARIANTS
  TypeOK
  NamedHalfWhole
  HeardIsRecent
  PointersLead
  PositionIsTold
  AtMostOneBlockAfterStop

PROPERTY ImplementsPath

CHECK_DEADLOCK FALSE
