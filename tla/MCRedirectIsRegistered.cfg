SPECIFICATION Spec
CONSTANTS
  Ports <- TwoPorts
  Sessions <- MCSessions
INVARIANT RedirectIsRegistered
CHECK_DEADLOCK FALSE
