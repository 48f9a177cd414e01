--------------------------- MODULE ClassicSystem ---------------------------
(***************************************************************************)
(* The systems with gem5's classic memory: MySystem of                     *)
(* configs/system/system.py with the caches of configs/system/caches.py,   *)
(* and the syscall-emulation system of run_dbrc_cache.py around the DBRC   *)
(* cache.  The script makes the system step by step (step, links); then    *)
(* requests travel through it port by port (addr, route).                  *)
(***************************************************************************)
EXTENDS PcPlatform, Sequences, SequencesExt

CONSTANTS
  MaxCpus,    \* systems of 1..MaxCpus CPUs are made
  CpuTypes    \* values of the argument cpu_type

ASSUME SystemAssumption == MaxCpus \in Nat \ {0} /\ CpuTypes \subseteq STRING

VARIABLES
  args,         \* which script runs, and the arguments of MySystem; rigid
  step,         \* the part of the system to be made next, "built" or "fatal"
  links,        \* the links made so far
  cpu,          \* system.cpu: model and switched_out of its members
  detailedCpu,  \* system.detailedCpu, the same
  memMode,      \* system.mem_mode
  queue,        \* eventq_index of each CPU; everything else is in queue 0
  firmware,     \* the tables of system.workload
  addr,         \* the address of the request under way
  route         \* the ports it has passed, << >> without a request

buildVars == <<step, links, cpu, detailedCpu, memMode, queue, firmware>>
vars == <<args, step, links, cpu, detailedCpu, memMode, queue, firmware,
          addr, route>>

Cpus == 0..args.cpus-1
FullSystem == args.script = "MySystem"

MembusIn  == Port("membus", 0, "cpu_side_ports")
MembusOut == Port("membus", 0, "mem_side_ports")

NoCpu == [model |-> "none", out |-> TRUE]
NoFirmware == [table |-> MPTable(0), map |-> {}]

Arguments ==
  [script : {"MySystem"}, type : CpuTypes, cpus : 1..MaxCpus, no_kvm : BOOLEAN]
  \cup {[script |-> "run_dbrc_cache", type |-> "simple", cpus |-> 1,
         no_kvm |-> TRUE]}

InitWith(A) ==
  /\ args \in A
  /\ step = IF FullSystem THEN "membus" ELSE "l1"
  /\ links = {}
  /\ cpu = NoCpu /\ detailedCpu = NoCpu /\ memMode = "none"
  /\ queue = [i \in Cpus |-> 0]
  /\ firmware = NoFirmware
  /\ addr = Memory /\ route = << >>

Init == InitWith(Arguments)

Make(part, next, new) ==
  /\ step = part
  /\ step' = next
  /\ links' = links \cup new
  /\ UNCHANGED <<args, addr, route>>

-----------------------------------------------------------------------------
(* The parts of MySystem, in the order of its constructor.                 *)

CreateMembus ==
  /\ Make("membus", "initFS",
          {<<Port("membus", 0, "default"), Port("badaddr", 0, "pio")>>,
           <<Port("system", 0, "system_port"), MembusIn>>})
  /\ UNCHANGED <<cpu, detailedCpu, memMode, queue, firmware>>

\* The ranges the two bridges let pass; a local APIC has one page.
BridgeRanges_WithMemory == {Memory, PciMemory, IoSpace, PciConfig}
BridgeRanges == {IoHole, PciMemory, IoSpace, PciConfig}
ApicPage == 4096
ApicBridgeRanges_OneLess(n) ==
  {Apic(i) : i \in {j \in 0..MaxCpus : j * ApicPage < (n - 1) * ApicPage - 1}}
ApicBridgeRanges(n) ==
  {Apic(i) : i \in {j \in 0..MaxCpus : j * ApicPage < n * ApicPage - 1}}

Bridges_OneWay ==
  {<<Port("bridge", 0, "mem_side_port"), IobusIn>>,
   <<MembusOut, Port("bridge", 0, "cpu_side_port")>>,
   <<IobusOut, Port("apicbridge", 0, "cpu_side_port")>>}
Bridges ==
  {<<Port("bridge", 0, "mem_side_port"), IobusIn>>,
   <<MembusOut, Port("bridge", 0, "cpu_side_port")>>,
   <<IobusOut, Port("apicbridge", 0, "cpu_side_port")>>,
   <<Port("apicbridge", 0, "mem_side_port"), MembusIn>>}

IocacheLinks ==
  {<<IobusOut, Port("iocache", 0, "cpu_side")>>,
   <<Port("iocache", 0, "mem_side"), MembusIn>>}

InitFS ==
  /\ Make("initFS", "createCPU", Bridges \cup AttachIO({}) \cup IocacheLinks)
  /\ firmware' = [table |-> MPTable(args.cpus), map |-> E820]
  /\ UNCHANGED <<cpu, detailedCpu, memMode, queue>>

\* The two disks come first: copies of one image, each behind a layer of its own.
DetailedModel(type) ==
  CASE type = "atomic" -> "AtomicSimpleCPU"
    [] type = "kvm" -> "X86KvmCPU"
    [] type = "o3" -> "DerivO3CPU"
    [] type \in {"simple", "timing"} -> "TimingSimpleCPU"
    [] OTHER -> "none"

CreateCPU ==
  LET known == DetailedModel(args.type) # "none"
      next == IF known THEN "createCacheHierarchy" ELSE "fatal"
  IN /\ Make("createCPU", next, {})
     /\ cpu' = [model |-> IF args.no_kvm THEN "AtomicSimpleCPU" ELSE "X86KvmCPU",
                out |-> FALSE]
     /\ memMode' = IF args.no_kvm THEN "atomic" ELSE "atomic_noncaching"
     /\ detailedCpu' = [model |-> DetailedModel(args.type), out |-> TRUE]
     /\ UNCHANGED <<queue, firmware>>

L1ICacheLinks(i) ==
  {<<Port("cpu", i, "icache_port"), Port("icache", i, "cpu_side")>>,
   <<Port("icache", i, "mem_side"), Port("l2bus", i, "cpu_side_ports")>>}

L1DCacheLinks_ICachePort(i) ==
  {<<Port("cpu", i, "icache_port"), Port("dcache", i, "cpu_side")>>,
   <<Port("dcache", i, "mem_side"), Port("l2bus", i, "cpu_side_ports")>>}
L1DCacheLinks(i) ==
  {<<Port("cpu", i, "dcache_port"), Port("dcache", i, "cpu_side")>>,
   <<Port("dcache", i, "mem_side"), Port("l2bus", i, "cpu_side_ports")>>}

MMUCacheLinks(i) ==
  {<<Port("mmubus", i, "mem_side_ports"), Port("mmucache", i, "cpu_side")>>,
   <<Port("mmucache", i, "mem_side"), Port("l2bus", i, "cpu_side_ports")>>}
  \cup {<<Port("cpu", i, tlb), Port("mmubus", i, "cpu_side_ports")>>
          : tlb \in {"itb_walker", "dtb_walker"}}

L2CacheLinks(i) ==
  {<<Port("l2bus", i, "mem_side_ports"), Port("l2cache", i, "cpu_side")>>,
   <<Port("l2cache", i, "mem_side"), MembusIn>>}

CreateCacheHierarchy ==
  /\ Make("createCacheHierarchy", "setupInterrupts",
          UNION {L1ICacheLinks(i) \cup L1DCacheLinks(i) \cup MMUCacheLinks(i)
                   \cup L2CacheLinks(i) : i \in Cpus})
  /\ UNCHANGED <<cpu, detailedCpu, memMode, queue, firmware>>

InterruptLinks_ThroughL2(i) ==
  {<<MembusOut, Port("interrupts", i, "pio")>>,
   <<Port("interrupts", i, "int_requestor"), Port("l2bus", i, "cpu_side_ports")>>,
   <<MembusOut, Port("interrupts", i, "int_responder")>>}
InterruptLinks(i) ==
  {<<MembusOut, Port("interrupts", i, "pio")>>,
   <<Port("interrupts", i, "int_requestor"), MembusIn>>,
   <<MembusOut, Port("interrupts", i, "int_responder")>>}

SetupInterrupts ==
  /\ Make("setupInterrupts", "createMemoryControllers",
          UNION {InterruptLinks(i) : i \in Cpus})
  /\ UNCHANGED <<cpu, detailedCpu, memMode, queue, firmware>>

CreateMemoryControllers ==
  /\ Make("createMemoryControllers", "eventq",
          {<<MembusOut, Port("mem_cntrl", 0, "port")>>})
  /\ UNCHANGED <<cpu, detailedCpu, memMode, queue, firmware>>

\* What getHostParallel returns.
HostParallel == args.type = "kvm"

SetEventQueues ==
  /\ Make("eventq", "built", {})
  /\ queue' = IF HostParallel THEN [i \in Cpus |-> i + 1] ELSE queue
  /\ UNCHANGED <<cpu, detailedCpu, memMode, firmware>>

-----------------------------------------------------------------------------
(* run_dbrc_cache.py: one CPU, its two caches, the DBRC cache behind them. *)

DbrcL1 ==
  /\ Make("l1", "l2",
          {<<Port("cpu", 0, "icache_port"), Port("icache", 0, "cpu_side")>>,
           <<Port("cpu", 0, "dcache_port"), Port("dcache", 0, "cpu_side")>>,
           <<Port("icache", 0, "mem_side"), Port("l2bus", 0, "cpu_side_ports")>>,
           <<Port("dcache", 0, "mem_side"), Port("l2bus", 0, "cpu_side_ports")>>})
  /\ cpu' = [model |-> "TimingSimpleCPU", out |-> FALSE]
  /\ memMode' = "timing"
  /\ UNCHANGED <<detailedCpu, queue, firmware>>

DbrcL2 ==
  /\ Make("l2", "interrupts",
          {<<Port("l2bus", 0, "mem_side_ports"), Port("l2cache", 0, "cpu_side")>>,
           <<Port("l2cache", 0, "mem_side"), MembusIn>>})
  /\ UNCHANGED <<cpu, detailedCpu, memMode, queue, firmware>>

DbrcInterrupts ==
  /\ Make("interrupts", "memory",
          {<<MembusOut, Port("interrupts", 0, "pio")>>,
           <<Port("interrupts", 0, "int_requestor"), MembusIn>>,
           <<MembusOut, Port("interrupts", 0, "int_responder")>>})
  /\ UNCHANGED <<cpu, detailedCpu, memMode, queue, firmware>>

DbrcMemory ==
  /\ Make("memory", "built",
          {<<MembusOut, Port("mem_cntrl", 0, "port")>>,
           <<Port("system", 0, "system_port"), MembusIn>>})
  /\ UNCHANGED <<cpu, detailedCpu, memMode, queue, firmware>>

Build ==
  \/ CreateMembus \/ InitFS \/ CreateCPU \/ CreateCacheHierarchy
  \/ SetupInterrupts \/ CreateMemoryControllers \/ SetEventQueues
  \/ DbrcL1 \/ DbrcL2 \/ DbrcInterrupts \/ DbrcMemory

-----------------------------------------------------------------------------
(* A request on its way (gem5).  A crossbar hands it to the port whose     *)
(* ranges hold the address, else to its default; a cache or a bridge to    *)
(* the port behind it.                                                     *)

Crossbars == {"membus", "iobus", "l2bus", "mmubus"}
Caches == {"icache", "dcache", "mmucache", "l2cache"}

Serves(p, a) ==
  \/ p[1] \in Caches
  \/ p[1] = "iocache" /\ \E r \in DOMAIN MemRanges : a \in MemRanges[r]
  \/ p[1] = "mem_cntrl" /\ a \in MemRanges[1]
  \/ p[1] = "bridge" /\ a \in BridgeRanges
  \/ p[1] = "apicbridge" /\ a \in ApicBridgeRanges(args.cpus)
  \/ DeviceServes(p, a)

Behind(o) == {l[2] : l \in {m \in links : Owner(m[1]) = o}}

Claims(o, a) ==
  {l[2] : l \in {m \in links : /\ Owner(m[1]) = o
                               /\ m[1][3] = "mem_side_ports"
                               /\ Serves(m[2], a)}}

Hops(p, a) ==
  LET o == Owner(p) IN
  IF p[1] \in Crossbars
  THEN IF Claims(o, a) # {} THEN Claims(o, a)
       ELSE {l[2] : l \in {m \in links : m[1] = Port(o[1], o[2], "default")}}
  ELSE IF p[1] \in Caches \cup {"iocache", "bridge", "apicbridge"}
       THEN Behind(o) ELSE {}

\* A request that has come back to where it was goes round for ever.
Loops(r) == \E i, j \in 2..Len(r) : i # j /\ Owner(r[i]) = Owner(r[j])

\* Who sends requests, and where to.
Uncached(i) ==
  {PciMemory, IoHole, IoSpace, PciConfig, M5Ops, Lapic(i)}

Sent(p) ==
  CASE p[3] = "dcache_port" /\ FullSystem -> {Memory} \cup Uncached(p[2])
    [] \/ p[3] = "dcache_port" /\ ~FullSystem
       \/ p[3] \in {"icache_port", "itb_walker", "dtb_walker", "system_port", "dma"}
         -> {Memory}
    [] p = IoApic -> {Apic(q.id) : q \in firmware.table.processors}
    [] p[3] = "int_requestor" /\ p # IoApic -> {Apic(i) : i \in Cpus}
    [] OTHER -> {}

Arrived ==
  /\ route # << >>
  /\ Last(route)[1] \in {"mem_cntrl", "interrupts", "devices", "pci_host", "badaddr"}

\* The next request may follow as soon as the last has come to its end.
Issue ==
  /\ step = "built"
  /\ route = << >> \/ Arrived \/ Loops(route)
  /\ \E l \in links : \E a \in Sent(l[1]) :
       addr' = a /\ route' = l
  /\ UNCHANGED <<args, buildVars>>

Hop ==
  /\ route # << >> /\ ~Loops(route)
  /\ \E p \in Hops(Last(route), addr) : route' = Append(route, p)
  /\ UNCHANGED <<args, buildVars, addr>>

Stop == step = "fatal" /\ UNCHANGED vars

Next == Build \/ Issue \/ Hop \/ Stop

Spec == Init /\ [][Next]_vars /\ WF_vars(Build) /\ WF_vars(Hop)

-----------------------------------------------------------------------------
(* Properties.                                                             *)

Built == step = "built"

\* No port is given two peers: no method connects what another has connected.
PortsBoundOnce == BoundOnce(links)

\* What the firmware tells the guest is true of the machine: the processors of
\* the table are the CPUs made, each interrupt source has a pin of its own besides
\* the one of the 8259, and the memory map has no holes or overlaps.
FirmwareFits ==
  Built /\ FullSystem =>
    /\ TableFits(firmware.table, Cardinality({l \in links : l[1][3] = "icache_port"}))
    /\ MapFits(firmware.map)

\* A crossbar never finds two ports whose ranges hold the address of a request
\* (gem5 would stop): the bridges, the caches, the memory and the interrupt
\* controllers share the address map without overlaps.
OneWay ==
  route # << >> /\ ~Loops(route) => Cardinality(Hops(Last(route), addr)) <= 1

OwnerOf(a) ==
  CASE a = Memory -> {<<"mem_cntrl", 0>>}
    [] a[1] \in {"apic", "lapic"} -> {<<"interrupts", a[2]>>}
    [] a \in {PciMemory, IoSpace} -> {<<"devices", 0>>}
    [] a = PciConfig -> {<<"pci_host", 0>>}
    [] a = M5Ops -> {<<"badaddr", 0>>}
    [] OTHER -> {}

\* Wherever a request starts, it ends at the owner of its address: memory at the
\* controller, an interrupt at the controller of the CPU it names, also from the
\* devices, for every processor in the table.
EndsAtOwner ==
  Arrived /\ addr # IoHole => Owner(Last(route)) \in OwnerOf(addr)

CachesPassed(r) ==
  {r[i][1] : i \in 1..Len(r)} \cap (Caches \cup {"iocache"})

\* Memory is reached through caches, by a device as by a CPU ("required for the
\* classic memory model for coherence"), and interrupts past them ("directly
\* connected to the memory bus and not cached"); the simulator's own port has none.
MemoryThroughCaches ==
  Arrived /\ route[1][3] # "system_port" =>
    /\ addr = Memory => CachesPassed(route) # {}
    /\ addr[1] = "apic" => CachesPassed(route) = {}

\* A request never comes back to where it was, and until it has arrived there is a
\* port to go on to; but for the hole in the map, see Arrives.
KeepsGoing ==
  route # << >> /\ addr # IoHole =>
    /\ ~Loops(route)
    /\ Arrived \/ Hops(Last(route), addr) # {}

\* Every request arrives, but for those to [0xC0000000, 0xC0100000): the bridge
\* passes them to the I/O bus, and the cache there claims them for the memory bus
\* again, because mem_ranges lists that range as well.
Arrives == (route # << >> /\ addr # IoHole) ~> Arrived
=============================================================================
