SPECIFICATION Spec
CONSTANTS
  Ports <- TwoPorts
  Sessions <- MCSessions
INVARIANTS
  TypeOK
  OwnCodeRedeemed
  FailureExplained
  WaitsForThePerson
  
PROPERTY
  ImplementsLoginRounds
CHECK_DEADLOCK FALSE
