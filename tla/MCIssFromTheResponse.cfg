SPECIFICATION Spec
CONSTANTS
  Requests = {r1, r2, r3}
  Responses <- MCResponses
  NoCode = "none"
  Configs <- PlainConfigs
INVARIANT IssFromTheResponse
CHECK_DEADLOCK FALSE
