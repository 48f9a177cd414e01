CONSTANTS
  MaxCpus = 3
  CpuTypes = {"kvm", "timing", "o3", "atomic", "simple", "minor"}
SPECIFICATION Spec
INVARIANTS PortsBoundOnce FirmwareFits OneWay EndsAtOwner MemoryThroughCaches KeepsGoing
PROPERTIES Arrives
