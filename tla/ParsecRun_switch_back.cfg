CONSTANTS
  MaxCpus = 1
  CpuTypes = {"timing"}
  MaxTicks = 1
SPECIFICATION Spec
INVARIANT RestIsReached
