SPECIFICATION Spec
CONSTANTS
  Registry <- MCRegistry
  Deployments <- MCSites
  Invocations <- MCInvocations
INVARIANT RefreshPassIsEarned
CHECK_DEADLOCK FALSE
