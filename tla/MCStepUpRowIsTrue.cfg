SPECIFICATION Spec
CONSTANTS
  Ports <- TwoPorts
  Sessions <- StepUpSessions
INVARIANT StepUpRowIsTrue
CHECK_DEADLOCK FALSE
