------------------------ MODULE ClassicSystemProofs ------------------------
(***************************************************************************)
(* Theorems about ClassicSystem, for any number of CPUs: the ports that    *)
(* are joined, the tables of the firmware, and the way of a request.       *)
(***************************************************************************)
EXTENDS ClassicSystem, FunctionTheorems, FiniteSetTheorems, TLAPS

-----------------------------------------------------------------------------
(* The links made before each step, of each of the two scripts.            *)

MembusLinks ==
  {<<Port("membus", 0, "default"), Port("badaddr", 0, "pio")>>,
   <<Port("system", 0, "system_port"), MembusIn>>}
IOLinks == Bridges \cup AttachIO({}) \cup IocacheLinks
CacheLinks(i) ==
  L1ICacheLinks(i) \cup L1DCacheLinks(i) \cup MMUCacheLinks(i) \cup L2CacheLinks(i)
MemoryLinks == {<<MembusOut, Port("mem_cntrl", 0, "port")>>}
CpuLinks == UNION {CacheLinks(i) : i \in Cpus}
LapicLinks == UNION {InterruptLinks(i) : i \in Cpus}

AllLinks ==
  MembusLinks \cup IOLinks \cup CpuLinks \cup LapicLinks \cup MemoryLinks

MySystemLinks(s) ==
  CASE s = "membus" -> {}
    [] s = "initFS" -> MembusLinks
    [] s \in {"createCPU", "fatal", "createCacheHierarchy"} -> MembusLinks \cup IOLinks
    [] s = "setupInterrupts" -> MembusLinks \cup IOLinks \cup CpuLinks
    [] s = "createMemoryControllers" ->
         MembusLinks \cup IOLinks \cup CpuLinks \cup LapicLinks
    [] OTHER -> AllLinks

DbrcL1Links ==
  {<<Port("cpu", 0, "icache_port"), Port("icache", 0, "cpu_side")>>,
   <<Port("cpu", 0, "dcache_port"), Port("dcache", 0, "cpu_side")>>,
   <<Port("icache", 0, "mem_side"), Port("l2bus", 0, "cpu_side_ports")>>,
   <<Port("dcache", 0, "mem_side"), Port("l2bus", 0, "cpu_side_ports")>>}
DbrcL2Links ==
  {<<Port("l2bus", 0, "mem_side_ports"), Port("l2cache", 0, "cpu_side")>>,
   <<Port("l2cache", 0, "mem_side"), MembusIn>>}
DbrcMemoryLinks ==
  {<<MembusOut, Port("mem_cntrl", 0, "port")>>,
   <<Port("system", 0, "system_port"), MembusIn>>}

DbrcLinks(s) ==
  CASE s = "l1" -> {}
    [] s = "l2" -> DbrcL1Links
    [] s = "interrupts" -> DbrcL1Links \cup DbrcL2Links
    [] s = "memory" -> DbrcL1Links \cup DbrcL2Links \cup InterruptLinks(0)
    [] OTHER -> DbrcL1Links \cup DbrcL2Links \cup InterruptLinks(0) \cup DbrcMemoryLinks

MySystemSteps ==
  {"membus", "initFS", "createCPU", "fatal", "createCacheHierarchy",
   "setupInterrupts", "createMemoryControllers", "eventq", "built"}
DbrcSteps == {"l1", "l2", "interrupts", "memory", "built"}

\* What has been made is what the steps so far make.
MadeSoFar ==
  /\ args \in Arguments
  /\ step \in IF FullSystem THEN MySystemSteps ELSE DbrcSteps
  /\ links = IF FullSystem THEN MySystemLinks(step) ELSE DbrcLinks(step)
  /\ FullSystem /\ step \notin {"membus", "initFS"} =>
       firmware = [table |-> MPTable(args.cpus), map |-> E820]

LEMMA MadeInit == Init => MadeSoFar
  BY DEF Init, InitWith, MadeSoFar, MySystemLinks, DbrcLinks, MySystemSteps, DbrcSteps,
         FullSystem

LEMMA MadeNext == MadeSoFar /\ [Next]_vars => MadeSoFar'
  <1> SUFFICES ASSUME MadeSoFar, [Next]_vars PROVE MadeSoFar'
    OBVIOUS
  <1> USE DEF MadeSoFar, MySystemSteps, DbrcSteps, FullSystem, Make
  <1>0. args' = args
    BY DEF Next, Build, CreateMembus, InitFS, CreateCPU, CreateCacheHierarchy,
           SetupInterrupts, CreateMemoryControllers, SetEventQueues, DbrcL1, DbrcL2,
           DbrcInterrupts, DbrcMemory, Issue, Hop, Stop, vars
  <1>1. CASE CreateMembus
    BY <1>1 DEF CreateMembus, MySystemLinks, MembusLinks
  <1>2. CASE InitFS
    BY <1>2 DEF InitFS, MySystemLinks, IOLinks
  <1>3. CASE CreateCPU
    BY <1>3 DEF CreateCPU, MySystemLinks
  <1>4. CASE CreateCacheHierarchy
    BY <1>4 DEF CreateCacheHierarchy, MySystemLinks, CpuLinks, CacheLinks, Cpus
  <1>5. CASE SetupInterrupts
    BY <1>5 DEF SetupInterrupts, MySystemLinks, CpuLinks, LapicLinks, Cpus
  <1>6. CASE CreateMemoryControllers
    BY <1>6 DEF CreateMemoryControllers, MySystemLinks, AllLinks, MemoryLinks, CpuLinks, LapicLinks, Cpus
  <1>7. CASE SetEventQueues
    BY <1>7 DEF SetEventQueues, MySystemLinks, AllLinks, CpuLinks, LapicLinks, Cpus
  <1>8. CASE DbrcL1
    BY <1>8 DEF DbrcL1, DbrcLinks, DbrcL1Links
  <1>9. CASE DbrcL2
    BY <1>9 DEF DbrcL2, DbrcLinks, DbrcL2Links
  <1>10. CASE DbrcInterrupts
    BY <1>10 DEF DbrcInterrupts, DbrcLinks, InterruptLinks
  <1>11. CASE DbrcMemory
    BY <1>11 DEF DbrcMemory, DbrcLinks, DbrcMemoryLinks
  <1>12. CASE Issue \/ Hop \/ Stop \/ UNCHANGED vars
    BY <1>12 DEF Issue, Hop, Stop, vars, buildVars, MySystemLinks, DbrcLinks, AllLinks, CpuLinks,
               LapicLinks, Cpus
  <1> QED BY <1>1, <1>2, <1>3, <1>4, <1>5, <1>6, <1>7, <1>8, <1>9, <1>10, <1>11, <1>12
      DEF Next, Build

-----------------------------------------------------------------------------
(* No port twice.                                                          *)

LEMMA LinksAreOfAll == MadeSoFar => links \subseteq AllLinks
  <1> SUFFICES ASSUME MadeSoFar PROVE links \subseteq AllLinks
    OBVIOUS
  <1>1. CASE FullSystem
    BY <1>1 DEF MadeSoFar, MySystemLinks, AllLinks
  <1>2. CASE ~FullSystem
    <2>1. 0 \in Cpus
      BY <1>2 DEF MadeSoFar, Arguments, FullSystem, Cpus
    <2>2. DbrcL1Links \cup DbrcL2Links \subseteq CacheLinks(0)
      BY DEF DbrcL1Links, DbrcL2Links, CacheLinks, L1ICacheLinks, L1DCacheLinks, L2CacheLinks
    <2>3. DbrcMemoryLinks \subseteq MembusLinks \cup MemoryLinks
      BY DEF DbrcMemoryLinks, MembusLinks, MemoryLinks
    <2> QED BY <1>2, <2>1, <2>2, <2>3 DEF MadeSoFar, DbrcLinks, AllLinks, CpuLinks, LapicLinks
  <1> QED BY <1>1, <1>2

\* A link at its two ends.
IsLink(l, k, i, n, c, j, m) == l = <<<<k, i, n>>, <<c, j, m>>>>

PcLink(l) ==
  \/ IsLink(l, "membus", 0, "default", "badaddr", 0, "pio")
  \/ IsLink(l, "system", 0, "system_port", "membus", 0, "cpu_side_ports")
  \/ IsLink(l, "bridge", 0, "mem_side_port", "iobus", 0, "cpu_side_ports")
  \/ IsLink(l, "membus", 0, "mem_side_ports", "bridge", 0, "cpu_side_port")
  \/ IsLink(l, "iobus", 0, "mem_side_ports", "apicbridge", 0, "cpu_side_port")
  \/ IsLink(l, "apicbridge", 0, "mem_side_port", "membus", 0, "cpu_side_ports")
  \/ IsLink(l, "iobus", 0, "mem_side_ports", "devices", 0, "pio")
  \/ IsLink(l, "iobus", 0, "default", "pci_host", 0, "pio")
  \/ IsLink(l, "io_apic", 0, "int_requestor", "iobus", 0, "cpu_side_ports")
  \/ IsLink(l, "ide", 0, "dma", "iobus", 0, "cpu_side_ports")
  \/ IsLink(l, "iobus", 0, "mem_side_ports", "iocache", 0, "cpu_side")
  \/ IsLink(l, "iocache", 0, "mem_side", "membus", 0, "cpu_side_ports")
  \/ IsLink(l, "membus", 0, "mem_side_ports", "mem_cntrl", 0, "port")

CpuLink(l, i) ==
  \/ IsLink(l, "cpu", i, "icache_port", "icache", i, "cpu_side")
  \/ IsLink(l, "icache", i, "mem_side", "l2bus", i, "cpu_side_ports")
  \/ IsLink(l, "cpu", i, "dcache_port", "dcache", i, "cpu_side")
  \/ IsLink(l, "dcache", i, "mem_side", "l2bus", i, "cpu_side_ports")
  \/ IsLink(l, "cpu", i, "itb_walker", "mmubus", i, "cpu_side_ports")
  \/ IsLink(l, "cpu", i, "dtb_walker", "mmubus", i, "cpu_side_ports")
  \/ IsLink(l, "mmubus", i, "mem_side_ports", "mmucache", i, "cpu_side")
  \/ IsLink(l, "mmucache", i, "mem_side", "l2bus", i, "cpu_side_ports")
  \/ IsLink(l, "l2bus", i, "mem_side_ports", "l2cache", i, "cpu_side")
  \/ IsLink(l, "l2cache", i, "mem_side", "membus", 0, "cpu_side_ports")
  \/ IsLink(l, "membus", 0, "mem_side_ports", "interrupts", i, "pio")
  \/ IsLink(l, "interrupts", i, "int_requestor", "membus", 0, "cpu_side_ports")
  \/ IsLink(l, "membus", 0, "mem_side_ports", "interrupts", i, "int_responder")

LEMMA LinkIs ==
  ASSUME NEW l
  PROVE  l \in AllLinks <=> PcLink(l) \/ \E i \in Cpus : CpuLink(l, i)
  <1> USE DEF IsLink, Port, MembusIn, MembusOut, IobusIn, IobusOut, IoApic, IdeDma
  <1>1. l \in MembusLinks \cup IOLinks \cup MemoryLinks <=> PcLink(l)
    BY DEF MembusLinks, IOLinks, MemoryLinks, Bridges, AttachIO, IocacheLinks, PcLink
  <1>2. ASSUME NEW i PROVE l \in CacheLinks(i) \cup InterruptLinks(i) <=> CpuLink(l, i)
    BY DEF CacheLinks, InterruptLinks, L1ICacheLinks, L1DCacheLinks, MMUCacheLinks,
           L2CacheLinks, CpuLink
  <1>3. l \in CpuLinks \cup LapicLinks <=> \E i \in Cpus : l \in CacheLinks(i) \cup InterruptLinks(i)
    BY DEF CpuLinks, LapicLinks
  <1> QED BY <1>1, <1>2, <1>3 DEF AllLinks

LEMMA AllBoundOnce == BoundOnce(AllLinks)
  <1> SUFFICES ASSUME NEW l \in AllLinks, NEW p \in {l[1], l[2]}, p[3] \notin VectorPorts,
                      NEW m \in AllLinks, p \in {m[1], m[2]}
               PROVE  m = l
    BY DEF BoundOnce, Links
  <1> USE DEF VectorPorts, IsLink
  <1>1. CASE PcLink(l) /\ PcLink(m)
    BY <1>1 DEF PcLink
  <1>2. CASE PcLink(l) /\ \E i \in Cpus : CpuLink(m, i)
    BY <1>2 DEF PcLink, CpuLink
  <1>3. CASE PcLink(m) /\ \E i \in Cpus : CpuLink(l, i)
    BY <1>3 DEF PcLink, CpuLink
  <1>4. ASSUME NEW i \in Cpus, NEW j \in Cpus, CpuLink(l, i), CpuLink(m, j)
        PROVE  m = l
    BY <1>4 DEF CpuLink
  <1> QED BY <1>1, <1>2, <1>3, <1>4, LinkIs
LEMMA PortsMade == MadeSoFar => PortsBoundOnce
  <1> SUFFICES ASSUME MadeSoFar, NEW l \in links, NEW p \in {l[1], l[2]}, p[3] \notin VectorPorts
               PROVE  Links(p, links) = {l}
    BY DEF PortsBoundOnce, BoundOnce
  <1>1. l \in AllLinks /\ links \subseteq AllLinks
    BY LinksAreOfAll
  <1>2. Links(p, AllLinks) = {l}
    BY <1>1, AllBoundOnce DEF BoundOnce
  <1> QED BY <1>1, <1>2 DEF Links

\* No port is given two peers, for any number of CPUs: each part of the system
\* (system.py, caches.py, run_dbrc_cache.py) connects ports no other part connects.
THEOREM NoPortTwice == Spec => []PortsBoundOnce
  BY MadeInit, MadeNext, PortsMade, PTL DEF Spec

-----------------------------------------------------------------------------
(* The tables.                                                             *)

LEMMA TableFitsAny == ASSUME NEW n \in Nat \ {0} PROVE TableFits(MPTable(n), n)
  <1> DEFINE t == MPTable(n)
  <1>1. {p.id : p \in t.processors} = 0..n-1
    <2>1. t.processors = {[id |-> i, bootstrap |-> i = 0] : i \in 0..n-1}
      BY Zenon DEF MPTable
    <2>2. ASSUME NEW p \in t.processors PROVE p.id \in 0..n-1
      <3>1. PICK i \in 0..n-1 : p = [id |-> i, bootstrap |-> i = 0]
        BY <2>1
      <3> QED BY <3>1, Zenon
    <2>3. ASSUME NEW i \in 0..n-1 PROVE \E p \in t.processors : p.id = i
      <3> DEFINE p == [id |-> i, bootstrap |-> i = 0]
      <3>1. p \in t.processors
        BY <2>1
      <3>2. p.id = i
        BY Zenon
      <3> QED BY <3>1, <3>2, Zenon
    <2> HIDE DEF t
    <2> QED BY <2>2, <2>3
  <1>2. Cardinality({p \in t.processors : p.bootstrap}) = 1
    <2> DEFINE first == [id |-> 0, bootstrap |-> TRUE]
    <2>1. 0 \in 0..n-1 /\ (0 = 0) = TRUE
      OBVIOUS
    <2>2. first \in t.processors
      BY <2>1 DEF MPTable
    <2>3. ASSUME NEW p \in t.processors, p.bootstrap PROVE p = first
      <3>1. PICK i \in 0..n-1 : p = [id |-> i, bootstrap |-> i = 0]
        BY DEF MPTable
      <3>2. p.bootstrap <=> i = 0
        BY <3>1, Zenon
      <3>3. i = 0
        BY <2>3, <3>2
      <3>4. (i = 0) = TRUE
        BY <3>3
      <3> QED BY <3>1, <3>3, <3>4, Zenon
    <2>4. {p \in t.processors : p.bootstrap} = {first}
      <3>1. first.bootstrap
        BY Zenon
      <3> HIDE DEF first, t
      <3> QED BY <2>2, <2>3, <3>1, Zenon
    <2> QED BY <2>4, FS_Singleton
  <1>3. t.io_apic \notin {p.id : p \in t.processors}
    BY <1>1 DEF MPTable
  <1> DEFINE isa == {<<0, 2>>, <<1, 1>>} \cup {<<i, i>> : i \in 3..14}
             ext(k) == [type |-> "ExtInt", bus |-> 1, irq |-> k[1], pin |-> 0]
             int(k) == [type |-> "INT", bus |-> 1, irq |-> k[1], pin |-> k[2]]
             pci == [type |-> "INT", bus |-> 0, irq |-> 16, pin |-> 16]
             direct == {pci} \cup {int(k) : k \in isa}
             shared == {ext(k) : k \in isa}
  <1>4. t.wires = direct \cup shared
    <2>1. t.wires = {[type |-> "INT", bus |-> 0, irq |-> 4 * 4, pin |-> 16]}
                    \cup IsaWires(0, 2) \cup IsaWires(1, 1)
                    \cup UNION {IsaWires(i, i) : i \in 3..14}
      BY Zenon DEF MPTable
    <2>2. \A i, p : IsaWires(i, p) = {ext(<<i, p>>), int(<<i, p>>)}
      BY DEF IsaWires
    <2>3. UNION {IsaWires(i, i) : i \in 3..14}
            = {ext(<<i, i>>) : i \in 3..14} \cup {int(<<i, i>>) : i \in 3..14}
      <3> HIDE DEF ext, int
      <3> QED BY <2>2
    <2>4. /\ shared = {ext(<<0, 2>>), ext(<<1, 1>>)} \cup {ext(<<i, i>>) : i \in 3..14}
          /\ direct = {pci}
                      \cup {int(<<0, 2>>), int(<<1, 1>>)} \cup {int(<<i, i>>) : i \in 3..14}
      <3> HIDE DEF ext, int, pci
      <3> QED OBVIOUS
    <2>5. 4 * 4 = 16
      OBVIOUS
    <2> HIDE DEF ext, int, shared, direct, isa, t
    <2> QED BY <2>1, <2>2, <2>3, <2>4, <2>5
  <1>5. Direct(t) = direct /\ Through8259(t) = shared
    <2>1. direct \cap shared = {} /\ \A w \in direct \cup shared : w.type = "INT" <=> w \in direct
      OBVIOUS
    <2> HIDE DEF t, direct, shared
    <2> QED BY <1>4, <2>1 DEF Direct, Through8259
  <1>6. {w.bus : w \in t.wires} \cup {t.child.bus, t.child.parent} = t.buses
    BY <1>4 DEF MPTable
  <1>7. \A v, w \in direct : v.pin = w.pin \/ Source(v) = Source(w) => v = w
    BY DEF Source
  <1>8. /\ \A v, w \in shared : v.pin = w.pin
        /\ \A v \in direct, w \in shared : v.pin # w.pin
    OBVIOUS
  <1>9. {Source(w) : w \in shared} = {Source(w) : w \in {v \in direct : v.bus = 1}}
    <2>1. \A k : Source(ext(k)) = <<1, k[1]>> /\ Source(int(k)) = <<1, k[1]>>
      BY Zenon DEF Source
    <2>2. {v \in direct : v.bus = 1} = {int(k) : k \in isa}
      OBVIOUS
    <2>3. shared = {ext(k) : k \in isa}
      BY Zenon
    <2> HIDE DEF direct, shared, isa, int, ext
    <2>4. {Source(w) : w \in shared} = {<<1, k[1]>> : k \in isa}
      <3>1. \A s : (\E w \in shared : s = Source(w)) <=> (\E k \in isa : s = <<1, k[1]>>)
        BY <2>1, <2>3, Zenon
      <3> QED BY <3>1, Zenon
    <2>5. {Source(w) : w \in {int(k) : k \in isa}} = {<<1, k[1]>> : k \in isa}
      <3>1. \A s : (\E w \in {int(k) : k \in isa} : s = Source(w))
                     <=> (\E k \in isa : s = <<1, k[1]>>)
        BY <2>1, Zenon
      <3> QED BY <3>1, Zenon
    <2> QED BY <2>2, <2>4, <2>5, Zenon
  <1>10. t.child.bus = 1
    BY DEF MPTable
  <1> HIDE DEF t, direct, shared
  <1>11. TableFits(t, n)
    BY <1>1, <1>2, <1>3, <1>5, <1>6, <1>7, <1>8, <1>9, <1>10 DEF TableFits
  <1> QED BY <1>11 DEF t

LEMMA E820Fits == MapFits(E820)
  BY DEF MapFits, E820, End, MemorySize, MB

LEMMA CpusAreLinked ==
  MadeSoFar /\ Built /\ FullSystem
    => Cardinality({l \in links : l[1][3] = "icache_port"}) = args.cpus
  <1> SUFFICES ASSUME MadeSoFar, Built, FullSystem
               PROVE  Cardinality({l \in links : l[1][3] = "icache_port"}) = args.cpus
    OBVIOUS
  <1> DEFINE f == [i \in Cpus |-> <<<<"cpu", i, "icache_port">>, <<"icache", i, "cpu_side">>>>]
             S == {l \in links : l[1][3] = "icache_port"}
  <1>1. args.cpus \in Nat \ {0}
    BY SystemAssumption DEF MadeSoFar, Arguments
  <1>2. links = AllLinks
    BY DEF MadeSoFar, MySystemLinks, Built
  <1>3. \A l \in S : \E i \in Cpus : f[i] = l
    BY <1>2, LinkIs DEF PcLink, CpuLink, IsLink
  <1>4. \A i \in Cpus : f[i] \in S
    BY <1>2, LinkIs DEF CpuLink, IsLink
  <1>5. \A i, j \in Cpus : f[i] = f[j] => i = j
    OBVIOUS
  <1>6. IsFiniteSet(Cpus) /\ Cardinality(Cpus) = args.cpus
    <2>1. 0 \in Int /\ args.cpus - 1 \in Int
      BY <1>1
    <2>2. IsFiniteSet(Cpus)
          /\ Cardinality(Cpus) = IF 0 > args.cpus - 1 THEN 0 ELSE args.cpus - 1 - 0 + 1
      BY <2>1, FS_Interval DEF Cpus
    <2> QED BY <1>1, <2>2
  <1>7. f \in Bijection(Cpus, S)
    <2>1. f \in [Cpus -> S]
      BY <1>4
    <2> HIDE DEF f, S
    <2> QED BY <1>3, <1>5, <2>1, Fun_IsBij
  <1> HIDE DEF f, S
  <1>8. Cardinality(Cpus) = Cardinality(S)
    BY <1>6, <1>7, FS_Bijection DEF ExistsBijection
  <1> QED BY <1>6, <1>8 DEF S
\* For any number of CPUs, the MP table names exactly the CPUs that have been
\* connected (system.py:260-317, fs_tools.py), with one to boot and an I/O APIC apart
\* from them; direct interrupt wires have a pin and a source of their own, those
\* through the 8259 share pin 0; and the e820 map covers the memory without overlaps.
THEOREM FirmwareIsTrue == Spec => []FirmwareFits
  <1>1. MadeSoFar => FirmwareFits
    <2> SUFFICES ASSUME MadeSoFar, Built, FullSystem PROVE FirmwareFits
      BY DEF FirmwareFits
    <2>1. args.cpus \in Nat \ {0}
      BY SystemAssumption DEF MadeSoFar, Arguments
    <2>2. firmware.table = MPTable(args.cpus) /\ firmware.map = E820
      BY DEF MadeSoFar, Built
    <2> QED BY <2>1, <2>2, TableFitsAny, E820Fits, CpusAreLinked DEF FirmwareFits
  <1> QED BY MadeInit, MadeNext, <1>1, PTL DEF Spec

-----------------------------------------------------------------------------
(* Who answers to what.                                                    *)

LEMMA ServesIs ==
  ASSUME NEW p, NEW a
  PROVE  Serves(p, a) <=>
           \/ p[1] \in Caches
           \/ p[1] = "iocache" /\ a \in {Memory, IoHole}
           \/ p[1] = "mem_cntrl" /\ a = Memory
           \/ p[1] = "bridge" /\ a \in {IoHole, PciMemory, IoSpace, PciConfig}
           \/ p[1] = "apicbridge" /\ a \in ApicBridgeRanges(args.cpus)
           \/ p[1] = "devices" /\ a \in {IoSpace, PciMemory}
           \/ p[1] = "interrupts" /\ p[3] = "pio" /\ a = Lapic(p[2])
           \/ p[1] = "interrupts" /\ p[3] = "int_responder" /\ a = Apic(p[2])
  <1>1. \A x : (\E r \in DOMAIN MemRanges : x \in MemRanges[r]) <=> x \in {Memory, IoHole}
    BY DEF MemRanges
  <1>2. MemRanges[1] = {Memory}
    BY DEF MemRanges
  <1> QED BY <1>1, <1>2 DEF Serves, DeviceServes, BridgeRanges

LEMMA ApicRanges ==
  ASSUME MadeSoFar
  PROVE  /\ \A a \in ApicBridgeRanges(args.cpus) : a = Apic(a[2]) /\ a[1] = "apic"
         /\ \A i \in Cpus : Apic(i) \in ApicBridgeRanges(args.cpus)
  <1>1. args.cpus \in 1..MaxCpus /\ MaxCpus \in Nat
    BY SystemAssumption DEF MadeSoFar, Arguments
  <1>2. \A i \in Cpus : i \in 0..MaxCpus /\ i * ApicPage < args.cpus * ApicPage - 1
    BY <1>1 DEF Cpus, ApicPage
  <1> QED BY <1>2 DEF ApicBridgeRanges, Apic

\* A crossbar has one port for an address.
LEMMA OneClaim ==
  ASSUME MadeSoFar, NEW l \in AllLinks, NEW m \in AllLinks, Owner(l[1]) = Owner(m[1]),
         l[1][3] = "mem_side_ports", m[1][3] = "mem_side_ports", NEW a,
         Serves(l[2], a), Serves(m[2], a)
  PROVE  l = m
  <1> USE ServesIs, ApicRanges
      DEF IsLink, Owner, Caches, Memory, IoHole, PciMemory, IoSpace, PciConfig, Lapic, Apic
  <1>1. CASE PcLink(l) /\ PcLink(m)
    BY <1>1 DEF PcLink
  <1>2. CASE PcLink(l) /\ \E i \in Cpus : CpuLink(m, i)
    BY <1>2 DEF PcLink, CpuLink
  <1>3. CASE PcLink(m) /\ \E i \in Cpus : CpuLink(l, i)
    BY <1>3 DEF PcLink, CpuLink
  <1>4. ASSUME NEW i \in Cpus, NEW j \in Cpus, CpuLink(l, i), CpuLink(m, j)
        PROVE  l = m
    BY <1>4 DEF CpuLink
  <1> QED BY <1>1, <1>2, <1>3, <1>4, LinkIs
\* There is one port behind a cache or a bridge, and one default of a crossbar.
LEMMA OneBehind ==
  ASSUME NEW l \in AllLinks, NEW m \in AllLinks, Owner(l[1]) = Owner(m[1]),
         \/ l[1][1] \in Caches \cup {"iocache", "bridge", "apicbridge"}
         \/ l[1] = m[1] /\ l[1][3] = "default"
  PROVE  l = m
  <1> USE DEF IsLink, Owner, Caches
  <1>1. CASE PcLink(l) /\ PcLink(m)
    BY <1>1 DEF PcLink
  <1>2. CASE PcLink(l) /\ \E i \in Cpus : CpuLink(m, i)
    BY <1>2 DEF PcLink, CpuLink
  <1>3. CASE PcLink(m) /\ \E i \in Cpus : CpuLink(l, i)
    BY <1>3 DEF PcLink, CpuLink
  <1>4. ASSUME NEW i \in Cpus, NEW j \in Cpus, CpuLink(l, i), CpuLink(m, j)
        PROVE  l = m
    BY <1>4 DEF CpuLink
  <1> QED BY <1>1, <1>2, <1>3, <1>4, LinkIs

LEMMA OneHop ==
  ASSUME MadeSoFar, NEW p, NEW a, NEW q \in Hops(p, a), NEW r \in Hops(p, a)
  PROVE  q = r
  <1> DEFINE o == Owner(p)
             Inner == Caches \cup {"iocache", "bridge", "apicbridge"}
  <1>1. links \subseteq AllLinks
    BY LinksAreOfAll
  <1>2. \A x, y \in Claims(o, a) : x = y
    <2> SUFFICES ASSUME NEW x \in Claims(o, a), NEW y \in Claims(o, a) PROVE x = y
      OBVIOUS
    <2>1. PICK l \in links : l[2] = x /\ Owner(l[1]) = o /\ l[1][3] = "mem_side_ports"
                             /\ Serves(l[2], a)
      BY DEF Claims
    <2>2. PICK m \in links : m[2] = y /\ Owner(m[1]) = o /\ m[1][3] = "mem_side_ports"
                             /\ Serves(m[2], a)
      BY DEF Claims
    <2> QED BY <1>1, <2>1, <2>2, OneClaim
  <1>3. CASE p[1] \in Crossbars /\ Claims(o, a) # {}
    BY <1>2, <1>3 DEF Hops
  <1>4. CASE p[1] \in Crossbars /\ Claims(o, a) = {}
    <2> DEFINE d == Port(o[1], o[2], "default")
    <2>1. Hops(p, a) = {l[2] : l \in {m \in links : m[1] = d}}
      BY <1>4 DEF Hops
    <2>2. PICK l \in links : l[2] = q /\ l[1] = d
      BY <2>1
    <2>3. PICK m \in links : m[2] = r /\ m[1] = d
      BY <2>1
    <2>4. l[1][3] = "default"
      BY <2>2 DEF Port
    <2> QED BY <1>1, <2>2, <2>3, <2>4, OneBehind
  <1>5. CASE p[1] \in Inner \ Crossbars
    <2>1. Hops(p, a) = Behind(o)
      BY <1>5 DEF Hops
    <2>2. PICK l \in links : l[2] = q /\ Owner(l[1]) = o
      BY <2>1 DEF Behind
    <2>3. PICK m \in links : m[2] = r /\ Owner(m[1]) = o
      BY <2>1 DEF Behind
    <2>4. l[1][1] = p[1]
      BY <2>2 DEF Owner
    <2> QED BY <1>1, <1>5, <2>2, <2>3, <2>4, OneBehind
  <1>6. CASE p[1] \notin Inner \cup Crossbars
    BY <1>6 DEF Hops
  <1> QED BY <1>3, <1>4, <1>5, <1>6

\* For any number of CPUs, no crossbar finds two ports for the address of a request:
\* the ranges of the bridges, the caches, the memory and the interrupt controllers
\* (system.py) are apart.
THEOREM NeverTwoWays == Spec => []OneWay
  <1>1. MadeSoFar => OneWay
    <2> SUFFICES ASSUME MadeSoFar PROVE Cardinality(Hops(Last(route), addr)) <= 1
      BY DEF OneWay
    <2> DEFINE H == Hops(Last(route), addr)
    <2>1. \A q, r \in H : q = r
      BY OneHop
    <2> HIDE DEF H
    <2>2. H = {} \/ \E q : H = {q}
      BY <2>1
    <2>3. Cardinality(H) \in {0, 1}
      BY <2>2, FS_EmptySet, FS_Singleton
    <2>4. Cardinality(H) <= 1
      BY <2>3
    <2> QED BY <2>4 DEF H
  <1> QED BY MadeInit, MadeNext, <1>1, PTL DEF Spec
-----------------------------------------------------------------------------
(* The way of a request.                                                   *)

\* What is sent: to all parts of the map by a whole system, to memory and to the
\* interrupt controllers by the system around the DBRC cache.
Addresses ==
  {Memory} \cup {Apic(i) : i \in Cpus}
    \cup (IF FullSystem THEN {IoHole, PciMemory, IoSpace, PciConfig, M5Ops}
                               \cup {Lapic(i) : i \in Cpus} ELSE {})

BeforeMembus == {"icache", "dcache", "mmubus", "mmucache", "l2bus", "l2cache"}

\* Where a request for address a can be: at its owner, or at a port from which the
\* links lead there.
OnTheWay(p, a) ==
  \/ /\ p[1] \in BeforeMembus /\ p[2] \in Cpus /\ a[1] # "apic"
     /\ p[1] \in {"mmubus", "mmucache"} => FullSystem
  \/ Owner(p) = <<"membus", 0>>
  \/ FullSystem /\ Owner(p) = <<"iobus", 0>> /\ a # M5Ops /\ a[1] # "lapic"
  \/ FullSystem /\ Owner(p) = <<"iocache", 0>> /\ a \in {Memory, IoHole}
  \/ FullSystem /\ Owner(p) = <<"bridge", 0>> /\ a \in BridgeRanges
  \/ FullSystem /\ Owner(p) = <<"apicbridge", 0>> /\ a[1] = "apic"
  \/ Owner(p) \in OwnerOf(a)

LEMMA HopIs ==
  ASSUME NEW p, NEW a, NEW q \in Hops(p, a)
  PROVE  \E l \in links :
           /\ l[2] = q /\ Owner(l[1]) = Owner(p)
           /\ \/ p[1] \in Caches \cup {"iocache", "bridge", "apicbridge"}
              \/ /\ p[1] \in Crossbars /\ l[1][3] = "mem_side_ports" /\ Serves(q, a)
              \/ /\ p[1] \in Crossbars /\ l[1][3] = "default"
                 /\ \A m \in links : Owner(m[1]) = Owner(p) /\ m[1][3] = "mem_side_ports"
                                     => ~Serves(m[2], a)
  <1> DEFINE o == Owner(p)
  <1>1. CASE p[1] \in Crossbars /\ Claims(o, a) # {}
    BY <1>1 DEF Hops, Claims
  <1>2. CASE p[1] \in Crossbars /\ Claims(o, a) = {}
    <2>1. PICK l \in links : l[2] = q /\ l[1] = Port(o[1], o[2], "default")
      BY <1>2 DEF Hops
    <2>2. Owner(l[1]) = o /\ l[1][3] = "default"
      BY <2>1 DEF Port, Owner
    <2>3. \A m \in links : Owner(m[1]) = o /\ m[1][3] = "mem_side_ports" => ~Serves(m[2], a)
      BY <1>2 DEF Claims
    <2> QED BY <1>2, <2>1, <2>2, <2>3
  <1>3. CASE p[1] \notin Crossbars
    BY <1>3 DEF Hops, Behind
  <1> QED BY <1>1, <1>2, <1>3

\* What lies behind the two buses.
LEMMA BuiltLinks ==
  ASSUME MadeSoFar, Built
  PROVE  /\ <<MembusOut, Port("mem_cntrl", 0, "port")>> \in links
         /\ \A i \in Cpus : /\ <<MembusOut, Port("interrupts", i, "pio")>> \in links
                            /\ <<MembusOut, Port("interrupts", i, "int_responder")>> \in links
         /\ FullSystem => links = AllLinks
  <1>1. CASE FullSystem
    BY <1>1 DEF MadeSoFar, Built, MySystemLinks, AllLinks, MemoryLinks, LapicLinks,
                InterruptLinks
  <1>2. CASE ~FullSystem
    <2>1. Cpus = {0}
      BY <1>2 DEF MadeSoFar, Arguments, FullSystem, Cpus
    <2> QED BY <1>2, <2>1 DEF MadeSoFar, Built, DbrcLinks, DbrcMemoryLinks, InterruptLinks
  <1> QED BY <1>1, <1>2

LEMMA HopOnTheWay ==
  ASSUME MadeSoFar, Built, NEW p, NEW a \in Addresses, OnTheWay(p, a), NEW q \in Hops(p, a)
  PROVE  /\ OnTheWay(q, a)
         /\ q[1] = "mmubus" => FALSE
         /\ q[1] = "iobus" => a # Memory
         /\ p[1] = "mmubus" => q[1] \in Caches
         /\ p[1] = "iobus" /\ a = Memory => q[1] = "iocache"
         /\ a[1] = "apic" => q[1] \notin Caches \cup {"iocache"}
  <1>1. PICK l \in links :
           /\ l[2] = q /\ Owner(l[1]) = Owner(p)
           /\ \/ p[1] \in Caches \cup {"iocache", "bridge", "apicbridge"}
              \/ /\ p[1] \in Crossbars /\ l[1][3] = "mem_side_ports" /\ Serves(q, a)
              \/ /\ p[1] \in Crossbars /\ l[1][3] = "default"
                 /\ \A m \in links : Owner(m[1]) = Owner(p) /\ m[1][3] = "mem_side_ports"
                                     => ~Serves(m[2], a)
    BY HopIs
  <1>2. PcLink(l) \/ \E i \in Cpus : CpuLink(l, i)
    BY LinksAreOfAll, LinkIs
  <1> USE DEF Owner, Memory, IoHole, PciMemory, IoSpace, PciConfig, M5Ops, Lapic, Apic
  <1>3. CASE p[1] \in BeforeMembus
    BY <1>1, <1>2, <1>3, ServesIs
       DEF PcLink, CpuLink, IsLink, OnTheWay, BeforeMembus, Caches, OwnerOf
  <1>4. CASE Owner(p) = <<"membus", 0>>
    <2> DEFINE out == <<"membus", 0, "mem_side_ports">>
    <2>1. CASE l[1][3] = "mem_side_ports"
      BY <1>1, <1>2, <1>4, <2>1, ServesIs, ApicRanges
         DEF PcLink, CpuLink, IsLink, OnTheWay, Caches, OwnerOf, Addresses, BridgeRanges
    <2>2. CASE l[1][3] # "mem_side_ports"
      <3>1. \A m \in links : m[1] = out => ~Serves(m[2], a)
        BY <1>1, <1>4, <2>2 DEF Crossbars, Caches
      <3>2. a # Memory
        <4>1. <<out, <<"mem_cntrl", 0, "port">>>> \in links
          BY BuiltLinks DEF MembusOut, Port
        <4>2. ~Serves(<<"mem_cntrl", 0, "port">>, a)
          BY <3>1, <4>1
        <4> QED BY <4>2, ServesIs
      <3>3. \A i \in Cpus : a # Apic(i) /\ a # Lapic(i)
        <4> SUFFICES ASSUME NEW i \in Cpus PROVE a # Apic(i) /\ a # Lapic(i)
          OBVIOUS
        <4>1. /\ <<out, <<"interrupts", i, "pio">>>> \in links
              /\ <<out, <<"interrupts", i, "int_responder">>>> \in links
          BY BuiltLinks DEF MembusOut, Port
        <4>2. ~Serves(<<"interrupts", i, "pio">>, a) /\ ~Serves(<<"interrupts", i, "int_responder">>, a)
          BY <3>1, <4>1
        <4> QED BY <4>2, ServesIs
      <3>4. FullSystem /\ a \in {IoHole, PciMemory, IoSpace, PciConfig, M5Ops}
        BY <3>2, <3>3 DEF Addresses
      <3>5. a = M5Ops
        <4>1. <<out, <<"bridge", 0, "cpu_side_port">>>> \in links
          BY <3>4, BuiltLinks, LinkIs DEF PcLink, IsLink
        <4>2. ~Serves(<<"bridge", 0, "cpu_side_port">>, a)
          BY <3>1, <4>1
        <4> QED BY <3>4, <4>2, ServesIs
      <3>6. l[1][3] = "default"
        BY <1>1, <1>4, <2>2 DEF Caches
      <3>7. Owner(q) = <<"badaddr", 0>>
        BY <1>1, <1>2, <1>4, <3>6 DEF PcLink, CpuLink, IsLink
      <3> QED BY <1>4, <3>5, <3>7 DEF OnTheWay, OwnerOf, Caches
    <2> QED BY <2>1, <2>2
  <1>5. CASE FullSystem /\ Owner(p) = <<"iobus", 0>> /\ a # M5Ops /\ a[1] # "lapic"
    <2> DEFINE out == <<"iobus", 0, "mem_side_ports">>
    <2>1. CASE l[1][3] = "mem_side_ports"
      BY <1>1, <1>2, <1>5, <2>1, ServesIs, ApicRanges
         DEF PcLink, CpuLink, IsLink, OnTheWay, Caches, OwnerOf, Addresses
    <2>2. CASE l[1][3] # "mem_side_ports"
      <3>1. \A m \in links : m[1] = out => ~Serves(m[2], a)
        BY <1>1, <1>5, <2>2 DEF Crossbars, Caches
      <3>2. <<out, <<"iocache", 0, "cpu_side">>>> \in links
            /\ <<out, <<"devices", 0, "pio">>>> \in links
            /\ <<out, <<"apicbridge", 0, "cpu_side_port">>>> \in links
        BY <1>5, BuiltLinks, LinkIs DEF PcLink, IsLink
      <3>3. ~Serves(<<"iocache", 0, "cpu_side">>, a) /\ ~Serves(<<"devices", 0, "pio">>, a)
            /\ ~Serves(<<"apicbridge", 0, "cpu_side_port">>, a)
        BY <3>1, <3>2
      <3>4. a = PciConfig
        BY <1>5, <3>3, ServesIs, ApicRanges DEF Addresses
      <3>5. l[1][3] = "default"
        BY <1>1, <1>5, <2>2 DEF Caches
      <3>6. Owner(q) = <<"pci_host", 0>>
        BY <1>1, <1>2, <1>5, <3>5 DEF PcLink, CpuLink, IsLink
      <3> QED BY <1>5, <3>4, <3>6 DEF OnTheWay, OwnerOf, Caches
    <2> QED BY <2>1, <2>2
  <1>6. CASE Owner(p) \in {<<"iocache", 0>>, <<"bridge", 0>>, <<"apicbridge", 0>>}
    BY <1>1, <1>2, <1>6
       DEF PcLink, CpuLink, IsLink, OnTheWay, BeforeMembus, Caches, OwnerOf, BridgeRanges,
           Crossbars
  <1>7. CASE Owner(p) \in OwnerOf(a)
    <2>1. p[1] \in {"mem_cntrl", "interrupts", "devices", "pci_host", "badaddr"}
      BY <1>7 DEF OwnerOf
    <2> QED BY <1>1, <2>1 DEF Caches, Crossbars
  <1> QED BY <1>3, <1>4, <1>5, <1>6, <1>7 DEF OnTheWay
\* A request is where it can be for its address, and has passed a cache before the
\* memory bus if it is for memory, and none if it is an interrupt.
RouteSound ==
  route # << >> =>
    /\ Built
    /\ addr \in Addresses
    /\ \E S : route \in Seq(S)
    /\ Len(route) >= 2
    /\ OnTheWay(Last(route), addr)
    /\ addr = Memory /\ route[1][3] # "system_port" =>
         Last(route)[1] \in {"mmubus", "iobus"} \/ CachesPassed(route) # {}
    /\ addr[1] = "apic" => CachesPassed(route) = {}

ClassicInv == MadeSoFar /\ RouteSound

LEMMA SentFrom ==
  ASSUME MadeSoFar, Built, NEW l \in links, NEW a \in Sent(l[1])
  PROVE  /\ a \in Addresses
         /\ OnTheWay(l[2], a)
         /\ l[1][1] \notin Caches \cup {"iocache"}
         /\ a = Memory /\ l[1][3] # "system_port" =>
              l[2][1] \in {"mmubus", "iobus"} \cup Caches
         /\ a[1] = "apic" => l[2][1] \notin Caches \cup {"iocache"}
  <1>1. PcLink(l) \/ \E i \in Cpus : CpuLink(l, i)
    BY LinksAreOfAll, LinkIs
  <1>2. FullSystem => {q.id : q \in firmware.table.processors} = Cpus
    <2> SUFFICES ASSUME FullSystem PROVE {q.id : q \in firmware.table.processors} = Cpus
      OBVIOUS
    <2>1. args.cpus \in Nat \ {0}
      BY SystemAssumption DEF MadeSoFar, Arguments
    <2>2. firmware.table = MPTable(args.cpus)
      BY DEF MadeSoFar, Built
    <2> QED BY <2>1, <2>2, TableFitsAny DEF TableFits, Cpus
  <1>3. l[1][1] \in {"io_apic", "ide"} \/ l[2][1] \in {"mmubus", "mmucache"} => FullSystem
    <2> SUFFICES ASSUME ~FullSystem,
                        l[1][1] \in {"io_apic", "ide"} \/ l[2][1] \in {"mmubus", "mmucache"}
                 PROVE  FALSE
      OBVIOUS
    <2>1. links = DbrcLinks("built")
      BY DEF MadeSoFar, Built
    <2> QED BY <2>1 DEF DbrcLinks, DbrcL1Links, DbrcL2Links, DbrcMemoryLinks, InterruptLinks,
                        Port, MembusIn, MembusOut
  <1>4. CASE PcLink(l)
    <2>1. CASE l[1] = IoApic
      <3>1. l = <<IoApic, IobusIn>>
        BY <1>4, <2>1 DEF PcLink, IsLink, IoApic, IobusIn, Port
      <3>2. a \in {Apic(q.id) : q \in firmware.table.processors}
        BY <2>1 DEF Sent, IoApic, Port
      <3>3. PICK i \in Cpus : a = Apic(i)
        BY <1>2, <1>3, <2>1, <3>2 DEF IoApic, Port
      <3> QED BY <1>3, <3>1, <3>3
              DEF Addresses, OnTheWay, Apic, M5Ops, Memory, Owner, IobusIn, IoApic, Port, Caches
    <2>2. CASE l[1] # IoApic
      <3>1. l[1][3] # "int_requestor" /\ l[1][3] # "dcache_port" /\ l[1][3] # "icache_port"
        BY <1>4, <2>2 DEF PcLink, IsLink, IoApic, Port
      <3>2. a = Memory /\ l[1][3] \in {"itb_walker", "dtb_walker", "system_port", "dma"}
        BY <2>2, <3>1 DEF Sent
      <3>3. \/ IsLink(l, "system", 0, "system_port", "membus", 0, "cpu_side_ports")
            \/ IsLink(l, "ide", 0, "dma", "iobus", 0, "cpu_side_ports")
        BY <1>4, <3>2 DEF PcLink, IsLink
      <3> QED BY <1>3, <3>2, <3>3
              DEF IsLink, Addresses, OnTheWay, Owner, Memory, M5Ops, Caches
    <2> QED BY <2>1, <2>2
  <1>5. ASSUME NEW i \in Cpus, CpuLink(l, i)
        PROVE  /\ a \in Addresses
               /\ OnTheWay(l[2], a)
               /\ l[1][1] \notin Caches \cup {"iocache"}
               /\ a = Memory /\ l[1][3] # "system_port" =>
                    l[2][1] \in {"mmubus", "iobus"} \cup Caches
               /\ a[1] = "apic" => l[2][1] \notin Caches \cup {"iocache"}
    BY <1>3, <1>5 DEF CpuLink, IsLink, Sent, Uncached, IoApic, Port, Addresses, OnTheWay, Owner, Memory,
           IoHole, PciMemory, IoSpace, PciConfig, M5Ops, Apic, Lapic, Caches, BeforeMembus
  <1> QED BY <1>1, <1>4, <1>5
LEMMA RouteInit == Init => RouteSound
  BY DEF Init, InitWith, RouteSound

LEMMA RouteNext == ClassicInv /\ [Next]_vars => RouteSound'
  <1> SUFFICES ASSUME MadeSoFar, RouteSound, [Next]_vars PROVE RouteSound'
    BY DEF ClassicInv
  <1> DEFINE Watched == Caches \cup {"iocache"}
  <1>1. CASE Build
    <2>1. step # "built" /\ UNCHANGED route
      BY <1>1 DEF Build, Make, CreateMembus, InitFS, CreateCPU, CreateCacheHierarchy,
         SetupInterrupts, CreateMemoryControllers, SetEventQueues, DbrcL1, DbrcL2,
         DbrcInterrupts, DbrcMemory
    <2> QED BY <2>1 DEF RouteSound, Built
  <1>2. CASE Issue
    <2>1. PICK l \in links : \E a \in Sent(l[1]) : addr' = a /\ route' = l
      BY <1>2 DEF Issue
    <2>2. Built /\ UNCHANGED <<args, step, links>>
      BY <1>2 DEF Issue, Built, buildVars
    <2>3. addr' \in Sent(l[1]) /\ route' = l
      BY <2>1
    <2>4. /\ addr' \in Addresses
          /\ OnTheWay(l[2], addr')
          /\ l[1][1] \notin Watched
          /\ addr' = Memory /\ l[1][3] # "system_port" =>
               l[2][1] \in {"mmubus", "iobus"} \cup Caches
          /\ addr'[1] = "apic" => l[2][1] \notin Watched
      BY <2>2, <2>3, SentFrom
    <2>5. l = <<l[1], l[2]>>
      <3>1. PcLink(l) \/ \E i \in Cpus : CpuLink(l, i)
        BY LinksAreOfAll, LinkIs
      <3> QED BY <3>1 DEF PcLink, CpuLink, IsLink
    <2>6. route' \in Seq({l[1], l[2]}) /\ Len(route') = 2 /\ route'[1] = l[1] /\ route'[2] = l[2]
      <3> DEFINE x == l[1]
                 y == l[2]
      <3>1. route' = <<x, y>>
        BY <2>3, <2>5
      <3> HIDE DEF x, y
      <3>2. route' \in Seq({x, y}) /\ Len(route') = 2 /\ route'[1] = x /\ route'[2] = y
        BY <3>1
      <3> QED BY <3>2 DEF x, y
    <2>7. CachesPassed(route)' = {l[1][1], l[2][1]} \cap Watched
      BY <2>6 DEF CachesPassed
    <2>8. Last(route)' = l[2]
      BY <2>6 DEF Last
    <2>9. (Addresses = Addresses') /\ OnTheWay(l[2], addr)'
      BY <2>2, <2>4 DEF OnTheWay, OwnerOf, Cpus, Addresses, FullSystem
    <2> QED BY <2>2, <2>4, <2>6, <2>7, <2>8, <2>9 DEF RouteSound, Built
  <1>3. CASE Hop
    <2>1. PICK q \in Hops(Last(route), addr) : route' = Append(route, q)
      BY <1>3 DEF Hop
    <2>2. route # << >> /\ UNCHANGED <<args, step, links, addr>>
      BY <1>3 DEF Hop, buildVars
    <2>3. PICK S : route \in Seq(S)
      BY <2>2 DEF RouteSound
    <2> DEFINE p == Last(route)
               n == Len(route)
    <2>4. /\ route' \in Seq(S \cup {q}) /\ Len(route') = n + 1 /\ n >= 2 /\ n \in Nat
          /\ \A i \in 1..n : route'[i] = route[i]
          /\ route'[n + 1] = q
      BY <2>1, <2>2, <2>3 DEF RouteSound
    <2>5. Last(route)' = q /\ route'[1] = route[1]
      BY <2>4 DEF Last
    <2>6. CachesPassed(route)' = CachesPassed(route) \cup ({q[1]} \cap Watched)
      BY <2>4 DEF CachesPassed
    <2>7. Built /\ addr \in Addresses /\ OnTheWay(p, addr)
      BY <2>2 DEF RouteSound
    <2>8. /\ OnTheWay(q, addr)
          /\ q[1] = "mmubus" => FALSE
          /\ q[1] = "iobus" => addr # Memory
          /\ p[1] = "mmubus" => q[1] \in Caches
          /\ p[1] = "iobus" /\ addr = Memory => q[1] = "iocache"
          /\ addr[1] = "apic" => q[1] \notin Watched
      BY <2>1, <2>7, HopOnTheWay
    <2>9. (Addresses = Addresses') /\ OnTheWay(q, addr)'
      BY <2>2, <2>8 DEF OnTheWay, OwnerOf, Cpus, Addresses, FullSystem
    <2>10. /\ addr = Memory /\ route[1][3] # "system_port" =>
                p[1] \in {"mmubus", "iobus"} \/ CachesPassed(route) # {}
           /\ addr[1] = "apic" => CachesPassed(route) = {}
      BY <2>2 DEF RouteSound
    <2> HIDE DEF p
    <2> QED BY <2>2, <2>4, <2>5, <2>6, <2>7, <2>8, <2>9, <2>10 DEF RouteSound, Built
  <1>4. CASE Stop \/ UNCHANGED vars
    <2>1. UNCHANGED <<args, step, links, addr, route>>
      BY <1>4 DEF Stop, vars
    <2>2. (Addresses = Addresses') /\ (OnTheWay(Last(route), addr) <=> OnTheWay(Last(route), addr)')
      BY <2>1 DEF OnTheWay, OwnerOf, Cpus, Addresses, FullSystem
    <2> QED BY <2>1, <2>2 DEF RouteSound, Built, CachesPassed
  <1> QED BY <1>1, <1>2, <1>3, <1>4 DEF Next

LEMMA ClassicInvAlways == Spec => []ClassicInv
  <1>1. Init => ClassicInv
    BY MadeInit, RouteInit DEF ClassicInv
  <1>2. ClassicInv /\ [Next]_vars => ClassicInv'
    BY MadeNext, RouteNext DEF ClassicInv
  <1> QED BY <1>1, <1>2, PTL DEF Spec

\* For any number of CPUs, a request that has arrived is at the owner of its address:
\* memory at the controller, a CPU's or a device's register at the device, an
\* interrupt at the controller of the CPU it names (system.py, run_dbrc_cache.py).
THEOREM RequestsEndAtOwner == Spec => []EndsAtOwner
  <1>1. ClassicInv => EndsAtOwner
    <2> SUFFICES ASSUME ClassicInv, Arrived, addr # IoHole
                 PROVE  Owner(Last(route)) \in OwnerOf(addr)
      BY DEF EndsAtOwner
    <2>1. OnTheWay(Last(route), addr)
      BY DEF ClassicInv, RouteSound, Arrived
    <2>2. Last(route)[1] \in {"mem_cntrl", "interrupts", "devices", "pci_host", "badaddr"}
      BY DEF Arrived
    <2> QED BY <2>1, <2>2 DEF OnTheWay, BeforeMembus, Owner
  <1> QED BY ClassicInvAlways, <1>1, PTL

\* For any number of CPUs, a request for memory that has arrived came through a
\* cache, from a device as from a CPU, and an interrupt through none (caches.py,
\* system.py:initFS and setupInterrupts).
THEOREM MemoryIsCached == Spec => []MemoryThroughCaches
  <1>1. ClassicInv => MemoryThroughCaches
    <2> SUFFICES ASSUME ClassicInv, Arrived, route[1][3] # "system_port"
                 PROVE  /\ addr = Memory => CachesPassed(route) # {}
                        /\ addr[1] = "apic" => CachesPassed(route) = {}
      BY DEF MemoryThroughCaches
    <2>1. Last(route)[1] \notin {"mmubus", "iobus"} /\ route # << >>
      BY DEF Arrived
    <2> QED BY <2>1 DEF ClassicInv, RouteSound
  <1> QED BY ClassicInvAlways, <1>1, PTL

-----------------------------------------------------------------------------
(* No request goes round, and none is stuck.                               *)

\* What lies beyond the I/O bridge, as seen from the memory bus, or on that bus.
Outward(a) == a \in {PciMemory, IoSpace, PciConfig, M5Ops} \/ a[1] = "lapic"

\* How far a request for address a still has to go.  A request for the hole in the
\* map has no such order: the bridge and the I/O cache both take it.
Distance(p, a) ==
  CASE p[1] \in {"icache", "dcache", "mmubus"} -> 12
    [] p[1] = "mmucache" -> 11
    [] p[1] = "l2bus" -> 10
    [] p[1] = "l2cache" -> 9
    [] p[1] = "membus" -> IF Outward(a) THEN 8 ELSE 6
    [] p[1] = "iobus" -> IF Outward(a) THEN 6 ELSE 8
    [] p[1] \in {"iocache", "bridge", "apicbridge"} -> 7
    [] OTHER -> 0

LEMMA DistanceIs ==
  ASSUME NEW p, NEW a
  PROVE  /\ Distance(p, a) \in Nat
         /\ p[1] \in {"icache", "dcache", "mmubus"} => Distance(p, a) = 12
         /\ p[1] = "mmucache" => Distance(p, a) = 11
         /\ p[1] = "l2bus" => Distance(p, a) = 10
         /\ p[1] = "l2cache" => Distance(p, a) = 9
         /\ p[1] = "membus" /\ Outward(a) => Distance(p, a) = 8
         /\ p[1] = "membus" /\ ~Outward(a) => Distance(p, a) = 6
         /\ p[1] = "iobus" /\ Outward(a) => Distance(p, a) = 6
         /\ p[1] = "iobus" /\ ~Outward(a) => Distance(p, a) = 8
         /\ p[1] \in {"iocache", "bridge", "apicbridge"} => Distance(p, a) = 7
         /\ p[1] \in {"mem_cntrl", "interrupts", "devices", "pci_host", "badaddr"} =>
              Distance(p, a) = 0
  BY DEF Distance

LEMMA HopIsCloser ==
  ASSUME MadeSoFar, Built, NEW p, NEW a \in Addresses \ {IoHole}, OnTheWay(p, a),
         NEW q \in Hops(p, a)
  PROVE  Distance(q, a) < Distance(p, a)
  <1>1. PICK l \in links :
           /\ l[2] = q /\ Owner(l[1]) = Owner(p)
           /\ \/ p[1] \in Caches \cup {"iocache", "bridge", "apicbridge"}
              \/ /\ p[1] \in Crossbars /\ l[1][3] = "mem_side_ports" /\ Serves(q, a)
              \/ /\ p[1] \in Crossbars /\ l[1][3] = "default"
                 /\ \A m \in links : Owner(m[1]) = Owner(p) /\ m[1][3] = "mem_side_ports"
                                     => ~Serves(m[2], a)
    BY HopIs
  <1>2. PcLink(l) \/ \E i \in Cpus : CpuLink(l, i)
    BY LinksAreOfAll, LinkIs
  <1>3. p[1] = l[1][1] /\ p[2] = l[1][2]
    BY <1>1 DEF Owner
  <1>4. \/ p[1] \in {"icache", "dcache", "mmucache"} /\ q[1] = "l2bus"
        \/ p[1] = "mmubus" /\ q[1] = "mmucache"
        \/ p[1] = "l2bus" /\ q[1] = "l2cache"
        \/ p[1] = "l2cache" /\ q[1] = "membus"
        \/ p[1] = "membus" /\ q[1] \in {"bridge", "mem_cntrl", "interrupts", "badaddr"}
           /\ (q[1] = "bridge" => Serves(q, a))
        \/ p[1] = "iobus" /\ q[1] \in {"devices", "iocache", "apicbridge", "pci_host"}
           /\ (q[1] \in {"iocache", "apicbridge"} => Serves(q, a))
        \/ p[1] = "bridge" /\ q[1] = "iobus"
        \/ p[1] \in {"iocache", "apicbridge"} /\ q[1] = "membus"
    BY <1>1, <1>2, <1>3 DEF PcLink, CpuLink, IsLink, Caches, Crossbars
  <1> USE DEF Memory, IoHole, PciMemory, IoSpace, PciConfig, M5Ops, Lapic, Apic
  <1>5. Outward(a) <=> ~(a = Memory \/ a[1] = "apic")
    BY DEF Addresses, Outward
  <1>6. p[1] = "membus" /\ q[1] = "bridge" => Outward(a)
    <2> SUFFICES ASSUME q[1] = "bridge", p[1] = "membus" PROVE Outward(a)
      OBVIOUS
    <2>1. Serves(q, a)
      BY <1>4
    <2>2. a \in {IoHole, PciMemory, IoSpace, PciConfig}
      BY <2>1, ServesIs DEF Caches
    <2> QED BY <2>2 DEF Outward
  <1>7. p[1] = "iobus" /\ q[1] \in {"iocache", "apicbridge"} => ~Outward(a)
    <2>1. ASSUME q[1] = "iocache", p[1] = "iobus" PROVE ~Outward(a)
      <3>1. Serves(q, a)
        BY <1>4, <2>1
      <3>2. a \in {Memory, IoHole}
        BY <2>1, <3>1, ServesIs DEF Caches
      <3> QED BY <1>5, <3>2
    <2>2. ASSUME q[1] = "apicbridge", p[1] = "iobus" PROVE ~Outward(a)
      <3>1. Serves(q, a)
        BY <1>4, <2>2
      <3>2. a \in ApicBridgeRanges(args.cpus)
        BY <2>2, <3>1, ServesIs DEF Caches
      <3> QED BY <1>5, <3>2, ApicRanges
    <2> QED BY <2>1, <2>2
  <1>8. p[1] = "bridge" => Outward(a)
    BY <1>5 DEF OnTheWay, BridgeRanges, BeforeMembus, Owner, OwnerOf
  <1>9. p[1] \in {"iocache", "apicbridge"} => ~Outward(a)
    BY <1>5 DEF OnTheWay, BeforeMembus, Owner, OwnerOf
  <1> QED BY <1>4, <1>6, <1>7, <1>8, <1>9, DistanceIs

\* Each part but the owners of addresses has a port out.
LEMMA AWayOn ==
  ASSUME MadeSoFar, Built, NEW p, NEW a \in Addresses \ {IoHole}, OnTheWay(p, a),
         p[1] \notin {"mem_cntrl", "interrupts", "devices", "pci_host", "badaddr"}
  PROVE  Hops(p, a) # {}
  <1> DEFINE o == Owner(p)
  <1> USE DEF IsLink
  <1>0. Owner(p) = <<p[1], p[2]>>
    BY DEF Owner
  <1>1. ASSUME NEW l \in links, Owner(l[1]) = Owner(p),
               \/ p[1] \in (Caches \cup {"iocache", "bridge", "apicbridge"}) \ Crossbars
               \/ p[1] \in Crossbars /\ l[1][3] = "mem_side_ports" /\ Serves(l[2], a)
               \/ p[1] \in Crossbars /\ l[1] = <<p[1], p[2], "default">>
        PROVE  Hops(p, a) # {}
    <2>1. CASE p[1] \in Crossbars /\ l[1][3] = "mem_side_ports" /\ Serves(l[2], a)
      <3>1. l[2] \in Claims(o, a)
        BY <1>1, <2>1 DEF Claims
      <3> QED BY <2>1, <3>1 DEF Hops
    <2>2. CASE p[1] \in Crossbars /\ l[1] = <<p[1], p[2], "default">>
      BY <1>0, <1>1, <2>2 DEF Hops, Port
    <2>3. CASE p[1] \in (Caches \cup {"iocache", "bridge", "apicbridge"}) \ Crossbars
      <3>1. l[2] \in Behind(o)
        BY <1>1 DEF Behind
      <3> QED BY <2>3, <3>1 DEF Hops
    <2> QED BY <1>1, <2>1, <2>2, <2>3
  <1>2. CASE p[1] \in BeforeMembus /\ p[2] \in Cpus /\ a[1] # "apic"
             /\ (p[1] \in {"mmubus", "mmucache"} => FullSystem)
    <2>1. \E l \in links : /\ l[1][1] = p[1] /\ l[1][2] = p[2] /\ l[2][1] \in Caches \cup {"l2bus", "membus"}
                           /\ l[1][3] \in {"mem_side", "mem_side_ports"}
                           /\ p[1] \in {"mmubus", "l2bus"} =>
                                l[1][3] = "mem_side_ports" /\ l[2][1] \in Caches
      <3>1. CASE FullSystem
        <4> DEFINE i == p[2]
        <4>1. \A l : CpuLink(l, i) => l \in links
          BY <1>2, <3>1, BuiltLinks, LinkIs
        <4>2. /\ <<<<"icache", i, "mem_side">>, <<"l2bus", i, "cpu_side_ports">>>> \in links
              /\ <<<<"dcache", i, "mem_side">>, <<"l2bus", i, "cpu_side_ports">>>> \in links
              /\ <<<<"mmubus", i, "mem_side_ports">>, <<"mmucache", i, "cpu_side">>>> \in links
              /\ <<<<"mmucache", i, "mem_side">>, <<"l2bus", i, "cpu_side_ports">>>> \in links
              /\ <<<<"l2bus", i, "mem_side_ports">>, <<"l2cache", i, "cpu_side">>>> \in links
              /\ <<<<"l2cache", i, "mem_side">>, <<"membus", 0, "cpu_side_ports">>>> \in links
          BY <4>1 DEF CpuLink
        <4> QED BY <1>2, <4>2 DEF BeforeMembus, Caches
      <3>2. CASE ~FullSystem
        <4>1. Cpus = {0}
          BY <3>2 DEF MadeSoFar, Arguments, FullSystem, Cpus
        <4>2. DbrcL1Links \cup DbrcL2Links \subseteq links
          BY <3>2 DEF MadeSoFar, Built, DbrcLinks
        <4>3. /\ <<<<"icache", 0, "mem_side">>, <<"l2bus", 0, "cpu_side_ports">>>> \in links
              /\ <<<<"dcache", 0, "mem_side">>, <<"l2bus", 0, "cpu_side_ports">>>> \in links
              /\ <<<<"l2bus", 0, "mem_side_ports">>, <<"l2cache", 0, "cpu_side">>>> \in links
              /\ <<<<"l2cache", 0, "mem_side">>, <<"membus", 0, "cpu_side_ports">>>> \in links
          BY <4>2 DEF DbrcL1Links, DbrcL2Links, Port, MembusIn
        <4> QED BY <1>2, <3>2, <4>1, <4>3 DEF BeforeMembus, Caches
      <3> QED BY <3>1, <3>2
    <2>2. PICK l \in links : /\ l[1][1] = p[1] /\ l[1][2] = p[2]
                             /\ p[1] \in {"mmubus", "l2bus"} =>
                                  l[1][3] = "mem_side_ports" /\ l[2][1] \in Caches
      BY <2>1
    <2>3. Owner(l[1]) = Owner(p)
      BY <2>2 DEF Owner
    <2>4. p[1] \in {"mmubus", "l2bus"} => Serves(l[2], a)
      BY <2>2, ServesIs
    <2> QED BY <1>1, <1>2, <2>2, <2>3, <2>4 DEF BeforeMembus, Caches, Crossbars
  <1>3. CASE Owner(p) = <<"membus", 0>>
    <2>0. p[1] = "membus" /\ p[2] = 0
      BY <1>3 DEF Owner
    <2> DEFINE out == <<"membus", 0, "mem_side_ports">>
    <2>1. ASSUME NEW q, <<out, q>> \in links, Serves(q, a) PROVE Hops(p, a) # {}
      BY <1>1, <1>3, <2>0, <2>1 DEF Owner, Crossbars
    <2>2. CASE a = Memory
      <3>1. <<out, <<"mem_cntrl", 0, "port">>>> \in links
        BY BuiltLinks DEF MembusOut, Port
      <3> QED BY <2>1, <2>2, <3>1, ServesIs
    <2>3. ASSUME NEW i \in Cpus, a = Apic(i) \/ a = Lapic(i) PROVE Hops(p, a) # {}
      <3>1. /\ <<out, <<"interrupts", i, "pio">>>> \in links
            /\ <<out, <<"interrupts", i, "int_responder">>>> \in links
        BY BuiltLinks DEF MembusOut, Port
      <3> QED BY <2>1, <2>3, <3>1, ServesIs
    <2>4. CASE FullSystem
      <3>1. <<<<"membus", 0, "default">>, <<"badaddr", 0, "pio">>>> \in links
        BY <2>4, BuiltLinks, LinkIs DEF PcLink
      <3> QED BY <1>1, <1>3, <2>0, <3>1 DEF Owner, Crossbars
    <2> QED BY <2>2, <2>3, <2>4 DEF Addresses
  <1>4. CASE FullSystem /\ Owner(p) = <<"iobus", 0>>
    <2>0. p[1] = "iobus" /\ p[2] = 0
      BY <1>4 DEF Owner
    <2>1. <<<<"iobus", 0, "default">>, <<"pci_host", 0, "pio">>>> \in links
      BY <1>4, BuiltLinks, LinkIs DEF PcLink
    <2> QED BY <1>1, <1>4, <2>0, <2>1 DEF Owner, Crossbars
  <1>5. CASE FullSystem /\ Owner(p) \in {<<"iocache", 0>>, <<"bridge", 0>>, <<"apicbridge", 0>>}
    <2>0. p[1] \in {"iocache", "bridge", "apicbridge"} /\ p[2] = 0
      BY <1>5 DEF Owner
    <2>1. /\ <<<<"iocache", 0, "mem_side">>, <<"membus", 0, "cpu_side_ports">>>> \in links
          /\ <<<<"bridge", 0, "mem_side_port">>, <<"iobus", 0, "cpu_side_ports">>>> \in links
          /\ <<<<"apicbridge", 0, "mem_side_port">>, <<"membus", 0, "cpu_side_ports">>>> \in links
      BY <1>5, BuiltLinks, LinkIs DEF PcLink
    <2>2. PICK l \in links : l[1][1] = p[1] /\ l[1][2] = p[2]
      BY <2>0, <2>1
    <2>3. Owner(l[1]) = Owner(p)
      BY <2>2 DEF Owner
    <2> QED BY <1>1, <2>0, <2>3 DEF Caches, Crossbars
  <1>6. CASE Owner(p) \in OwnerOf(a)
    BY <1>6 DEF Owner, OwnerOf
  <1> QED BY <1>2, <1>3, <1>4, <1>5, <1>6 DEF OnTheWay

\* Each port that a request has come to is closer to its end than those before.
Descending ==
  route # << >> /\ addr # IoHole =>
    \A i, j \in 2..Len(route) :
      i < j => Distance(route[j], addr) < Distance(route[i], addr)

LEMMA DescendingNext == ClassicInv /\ Descending /\ [Next]_vars => Descending'
  <1> SUFFICES ASSUME ClassicInv, Descending, [Next]_vars, (route # << >> /\ addr # IoHole)'
               PROVE  \A i, j \in 2..Len(route') :
                        i < j => Distance(route'[j], addr') < Distance(route'[i], addr')
    BY DEF Descending
  <1>1. CASE UNCHANGED <<addr, route>>
    BY <1>1 DEF Descending
  <1>2. CASE Issue
    <2>1. PICK l \in links : route' = l
      BY <1>2 DEF Issue
    <2>2. l = <<l[1], l[2]>>
      <3>1. PcLink(l) \/ \E i \in Cpus : CpuLink(l, i)
        BY LinksAreOfAll, LinkIs DEF ClassicInv
      <3> QED BY <3>1 DEF PcLink, CpuLink, IsLink
    <2>3. Len(route') = 2
      <3> DEFINE x == l[1]
                 y == l[2]
      <3>1. route' = <<x, y>>
        BY <2>1, <2>2
      <3> HIDE DEF x, y
      <3> QED BY <3>1
    <2> QED BY <2>3
  <1>3. CASE Hop
    <2> DEFINE n == Len(route)
               p == Last(route)
    <2>1. PICK q \in Hops(p, addr) : route' = Append(route, q)
      BY <1>3 DEF Hop
    <2>2. route # << >> /\ addr' = addr /\ addr # IoHole
      BY <1>3 DEF Hop, IoHole
    <2>3. PICK S : route \in Seq(S)
      BY <2>2 DEF ClassicInv, RouteSound
    <2>4. /\ n \in Nat /\ n >= 2 /\ p = route[n]
          /\ Len(route') = n + 1 /\ route'[n + 1] = q
          /\ \A i \in 1..n : route'[i] = route[i]
      BY <2>1, <2>2, <2>3 DEF ClassicInv, RouteSound, Last
    <2>5. Distance(q, addr) < Distance(p, addr)
      <3>1. addr \in Addresses \ {IoHole} /\ OnTheWay(p, addr) /\ Built /\ MadeSoFar
        BY <2>2 DEF ClassicInv, RouteSound
      <3> QED BY <2>1, <3>1, HopIsCloser
    <2> DEFINE D(r) == Distance(r, addr)
    <2>6. /\ \A i, j \in 2..n : i < j => D(route[j]) < D(route[i])
          /\ \A r : D(r) \in Nat
      BY <2>2, DistanceIs DEF Descending
    <2> SUFFICES ASSUME NEW i \in 2..n+1, NEW j \in 2..n+1, i < j
                 PROVE  D(route'[j]) < D(route'[i])
      BY <2>2, <2>4
    <2>7. i \in 2..n /\ route'[i] = route[i]
      BY <2>4
    <2>8. CASE j \in 2..n
      BY <2>4, <2>6, <2>7, <2>8
    <2>9. CASE j = n + 1
      <3>1. D(route'[j]) < D(route[n]) /\ n \in 2..n
        BY <2>4, <2>5, <2>9
      <3>2. i = n \/ D(route[n]) < D(route[i])
        BY <2>4, <2>6, <2>7
      <3> HIDE DEF n, p, D
      <3> QED BY <2>6, <2>7, <3>1, <3>2
    <2> QED BY <2>4, <2>8, <2>9
  <1> QED BY <1>1, <1>2, <1>3
          DEF Next, Build, Make, CreateMembus, InitFS, CreateCPU, CreateCacheHierarchy,
              SetupInterrupts, CreateMemoryControllers, SetEventQueues, DbrcL1, DbrcL2,
              DbrcInterrupts, DbrcMemory, Stop, vars

LEMMA DescendingAlways == Spec => [](ClassicInv /\ Descending)
  <1>1. Init => Descending
    BY DEF Init, InitWith, Descending
  <1> QED BY <1>1, DescendingNext, ClassicInvAlways, PTL DEF Spec

\* For any number of CPUs, no request comes back to where it was, and one that has not
\* arrived has a port to go on to: no crossbar finds itself without a range and a default
\* for its address, and no cache or bridge without a port behind it (caches.py,
\* system.py:initFS, run_dbrc_cache.py).
THEOREM NeverRoundNorStuck == Spec => []KeepsGoing
  <1>1. ASSUME ClassicInv, Descending, route # << >>, addr # IoHole
        PROVE  ~Loops(route)
    <2> SUFFICES ASSUME NEW i \in 2..Len(route), NEW j \in 2..Len(route), i # j,
                        Owner(route[i]) = Owner(route[j])
                 PROVE  FALSE
      BY DEF Loops
    <2>1. route[i][1] = route[j][1]
      BY DEF Owner
    <2>2. Distance(route[i], addr) = Distance(route[j], addr)
      BY <2>1 DEF Distance
    <2>3. PICK S : route \in Seq(S)
      BY <1>1 DEF ClassicInv, RouteSound
    <2>4. i < j \/ j < i
      BY <2>3
    <2>5. \/ Distance(route[i], addr) < Distance(route[j], addr)
          \/ Distance(route[j], addr) < Distance(route[i], addr)
      BY <1>1, <2>4 DEF Descending
    <2> QED BY <2>2, <2>5, DistanceIs
  <1>2. ASSUME ClassicInv, route # << >>, addr # IoHole, ~Arrived
        PROVE  Hops(Last(route), addr) # {}
    BY <1>2, AWayOn DEF ClassicInv, RouteSound, Arrived
  <1>3. ClassicInv /\ Descending => KeepsGoing
    BY <1>1, <1>2 DEF KeepsGoing
  <1> QED BY <1>3, DescendingAlways, PTL
=============================================================================
