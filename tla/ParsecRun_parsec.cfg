CONSTANTS
  MaxCpus = 3
  CpuTypes = {"kvm", "timing", "o3"}
  MaxTicks = 2
SPECIFICATION Spec
INVARIANTS OneSetRuns PortsFollow QueuesApart InstructionsOfRegion
PROPERTIES Measures
