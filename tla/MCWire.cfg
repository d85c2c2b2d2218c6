SPECIFICATION SpecWire
CONSTANTS
  Registry <- DefaultRegistry
  Invocations <- AllInvocations
  Deployments <- AllDeployments
  Versions <- AllVersions
  ModernVersion <- Modern
  LegacyVersion <- Legacy
  NewerVersion <- Newer
  Worlds <- AllWorlds
INVARIANTS
  NeverAskedTwice
  VersionOfTheAnswer
  NoFalseFinding
  LossIsNoFinding
  ViolationSeen
  HtuPassIsEarned
  AuthAsRegistered
  ChallengeFound
  RegisteredIsDeleted
PROPERTIES
  ImplementsRun
  FreshProofs
  WireEnds
CHECK_DEADLOCK FALSE
