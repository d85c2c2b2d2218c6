SPECIFICATION SpecWire
CONSTANTS
  Registry <- DefaultRegistry
  Invocations <- AllInvocations
  Deployments <- AllDeployments
  Versions <- AllVersions
  ModernVersion <- Modern
  LegacyVersion <- Legacy
  NewerVersion <- Newer
  Worlds <- FindingWorlds
INVARIANTS
  FailIsAFinding
CHECK_DEADLOCK FALSE
