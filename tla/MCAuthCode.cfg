SPECIFICATION Spec
CONSTANTS
  Requests = {r1, r2, r3}
  Responses <- MCResponses
  NoCode = "none"
  Configs <- MCConfigs
INVARIANTS
  TypeOK
  FirstLoginWins
  LoginsDoNotCollide
  IssMixNeedsSecondLogin
PROPERTY
  ImplementsLoginRound
CHECK_DEADLOCK FALSE
