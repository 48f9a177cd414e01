CONSTANTS
  MaxCpus = 2
  CpuTypes = {"kvm", "o3", "minor"}
  MemSystems = {"MI_example", "MESI_Two_Level", "MOESI_CMP_directory", "CHI"}
  Isas = {"x86", "arm", "riscv"}
  NumL2Caches = 4
  LineBits = 6
  L2Sets = 4
SPECIFICATION Spec
INVARIANTS PortsBoundOnce PairedByNumber NetworkComplete BanksSpread EndsAtOwner KeepsGoing
PROPERTIES Arrives
