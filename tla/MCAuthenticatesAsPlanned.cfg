SPECIFICATION Spec
CONSTANTS
  Ports <- TwoPorts
  Sessions <- MCSessions
INVARIANT AuthenticatesAsPlanned
CHECK_DEADLOCK FALSE
