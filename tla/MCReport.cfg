SPECIFICATION Spec
CONSTANTS
  Rows <- MCRows
  Surfaces <- MCSurfaces
  Capabilities <- MCCapabilities
INVARIANTS
  TypeOK
  AlignedIsEarned
  OrderIrrelevant
  FatalRowsAreTold
PROPERTIES
  UntestedSettlesNothing
  DisqualifiedForGood
CHECK_DEADLOCK FALSE
