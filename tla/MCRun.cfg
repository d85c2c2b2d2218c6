SPECIFICATION Spec
CONSTANTS
  Registry <- MCRegistry
  Deployments <- MCSites
  Invocations <- MCInvocations
INVARIANTS
  TypeOK
  OneIdentity
  CleanExitIsComplete
  NoOrphanClient
  NoFalseAlarm
  FailsOnlyWhatItRevoked
  UnsupportedIsAboutTheServer
  AbsentCapabilityIsSaid
PROPERTIES
  ImplementsReport
CHECK_DEADLOCK FALSE
