SPECIFICATION Spec
CONSTANTS
  Rows <- AdvisoryRows
  Surfaces <- MCSurfaces
  Capabilities <- MCCapabilities
INVARIANT OnlyMustDisqualifies
CHECK_DEADLOCK FALSE
