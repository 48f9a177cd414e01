----------------------------- MODULE RubySystem -----------------------------
(***************************************************************************)
(* configs/system/ruby_system.py with the three protocols it may load: the *)
(* system is made step by step, the network row by row; then requests      *)
(* travel through it, from the CPUs and the devices to their sequencers,   *)
(* between the controllers over the network, and over the I/O bus.         *)
(***************************************************************************)
EXTENDS PcPlatform, Sequences, SequencesExt

CONSTANTS
  MaxCpus,       \* systems of 1..MaxCpus CPUs
  CpuTypes,      \* values of the argument cpu_type
  MemSystems,    \* values of the argument mem_sys
  Isas,          \* values of buildEnv['TARGET_ISA']
  NumL2Caches,   \* self._numL2Caches
  LineBits,      \* log2 of system.cache_line_size
  L2Sets         \* sets of an L2 bank

ASSUME RubyAssumption ==
  /\ MaxCpus \in Nat \ {0} /\ NumL2Caches \in Nat \ {0}
  /\ LineBits \in Nat /\ L2Sets \in Nat \ {0}

VARIABLES
  args,         \* the arguments of MyRubySystem and of the build; rigid
  step,         \* the part to be made next, "built", "fatal" or "error"
  links,        \* the links between ports
  cpu,          \* the model of system.cpu
  memMode,      \* system.mem_mode
  queue,        \* eventq_index of each CPU
  firmware,     \* the tables of system.workload
  version,      \* _version of each class of controllers
  controllers,  \* ruby.controllers
  sequencers,   \* ruby.sequencers
  network,      \* the network: its virtual networks, routers and links, and the
                \* row of links to be made next
  addr, block,  \* the address of the request under way: its range and its line
  route         \* the ports it has passed, << >> without a request

buildVars == <<step, links, cpu, memMode, queue, firmware, version, controllers,
               sequencers, network>>
vars == <<args, buildVars, addr, block, route>>

MI == INSTANCE MI_example_caches
MESI == INSTANCE MESI_Two_Level
MOESI == INSTANCE MOESI_CMP_directory

\* The bits that choose a bank number no more banks than there are; true of every
\* number of banks.
ASSUME BanksAssumption == 2^MESI!BankBits \in 1..NumL2Caches

\* What the class of the protocol that has been asked for says.
ByProtocol(mi, mesi, moesi) ==
  CASE args.mem_sys = "MI_example" -> mi
    [] args.mem_sys = "MESI_Two_Level" -> mesi
    [] OTHER -> moesi

Protocols == {"MI_example", "MESI_Two_Level", "MOESI_CMP_directory"}

Cpus == 0..args.cpus-1

\* The two ports handed to the caches: the disk controller's DMA, and the I/O bus
\* for what other devices send to memory.
DmaPorts == <<IdeDma, IobusOut>>

Arguments ==
  [mem_sys : MemSystems, protocol : Protocols, type : CpuTypes, isa : Isas,
   cpus : 1..MaxCpus]

NoNetwork ==
  [virtual |-> 0, routers |-> 0, ext_links |-> {}, int_links |-> {}, link_count |-> 0,
   row |-> 0]

Init ==
  /\ args \in Arguments
  /\ step = "initFS"
  /\ links = {}
  /\ cpu = "none" /\ memMode = "none"
  /\ queue = [i \in Cpus |-> 0]
  /\ firmware = [table |-> MPTable(0), map |-> {}]
  /\ version = [L1Cache |-> 0, L2Cache |-> 0, Directory |-> 0, DMA |-> 0]
  /\ controllers = << >> /\ sequencers = << >>
  /\ network = NoNetwork
  /\ addr = Memory /\ block = 0 /\ route = << >>

Make(part, next) ==
  /\ step = part
  /\ step' = next
  /\ UNCHANGED <<args, addr, block, route>>

-----------------------------------------------------------------------------
(* The parts of MyRubySystem.                                              *)

\* The same tables as in the classic system, without bridges: the disk
\* controller's DMA is left for the caches to connect.
RubyMPTable(n) == MPTable(n)
RubyE820 == E820

InitFS_AllDma ==
  /\ Make("initFS", "createCPU")
  /\ links' = links \cup AttachIO({})
  /\ firmware' = [table |-> RubyMPTable(args.cpus), map |-> RubyE820]
  /\ UNCHANGED <<cpu, memMode, queue, version, controllers, sequencers, network>>
InitFS ==
  /\ Make("initFS", "createCPU")
  /\ links' = links \cup AttachIO({IdeDma})
  /\ firmware' = [table |-> RubyMPTable(args.cpus), map |-> RubyE820]
  /\ UNCHANGED <<cpu, memMode, queue, version, controllers, sequencers, network>>

Models ==
  [atomic |-> [model |-> "AtomicSimpleCPU", mode |-> "atomic"],
   kvm    |-> [model |-> "X86KvmCPU", mode |-> "atomic_noncaching"],
   o3     |-> [model |-> "DerivO3CPU", mode |-> "timing"],
   simple |-> [model |-> "TimingSimpleCPU", mode |-> "timing"]]

CreateCPU ==
  /\ Make("createCPU", IF args.type \in DOMAIN Models THEN "caches" ELSE "fatal")
  /\ IF args.type \in DOMAIN Models
     THEN cpu' = Models[args.type].model /\ memMode' = Models[args.type].mode
     ELSE UNCHANGED <<cpu, memMode>>
  /\ UNCHANGED <<links, queue, firmware, version, controllers, sequencers, network>>

\* One memory controller for the first range; its port is left for the directory.
MemCntrlPorts == <<Port("mem_cntrl", 0, "port")>>

Fits ==
  ByProtocol(MI!Fits(args.protocol), MESI!Fits(args.protocol), MOESI!Fits(args.protocol))

\* self.caches of a mem_sys none of the three: there is no such attribute.
ChooseCaches ==
  /\ Make("caches", IF args.mem_sys \notin Protocols THEN "error"
                    ELSE IF Fits THEN "controllers" ELSE "fatal")
  /\ UNCHANGED <<links, cpu, memMode, queue, firmware, version, controllers,
                 sequencers, network>>

-----------------------------------------------------------------------------
(* setup(...) of the protocol's class.                                     *)

NewControllers ==
  LET n == args.cpus  d == Len(DmaPorts)
  IN ByProtocol(MI!Controllers(n, d, version), MESI!Controllers(n, d, version),
                MOESI!Controllers(n, d, version))

OfKind(cs, kind) == {i \in 1..Len(cs) : cs[i].kind = kind}

\* Every class counts the controllers it has made; a directory takes the port of
\* the memory controller, and must be alone with it.
CreateControllers ==
  /\ step = "controllers"
  /\ step' = IF Len(MemCntrlPorts) > 1 THEN "fatal" ELSE "sequencers"
  /\ controllers' = NewControllers
  /\ version' = [k \in DOMAIN version |->
                   version[k] + Cardinality(OfKind(NewControllers, k))]
  /\ links' = links \cup {<<Port("Directory", NewControllers[i].version, "memory_out_port"),
                            MemCntrlPorts[1]>> : i \in OfKind(NewControllers, "Directory")}
  /\ network' = [network EXCEPT !.virtual =
                 ByProtocol(MI!VirtualNetworks, MESI!VirtualNetworks, MOESI!VirtualNetworks)]
  /\ UNCHANGED <<args, cpu, memMode, queue, firmware, sequencers, addr, block, route>>

CreateSequencers ==
  LET n == args.cpus  d == Len(DmaPorts) IN
  /\ Make("sequencers", "pair")
  /\ sequencers' =
       ByProtocol(MI!Sequencers(n, d), MESI!Sequencers(n, d), MOESI!Sequencers(n, d))
  /\ links' = links \cup
       ByProtocol(MI!SequencerLinks(n, DmaPorts), MESI!SequencerLinks(n, DmaPorts),
                  MOESI!SequencerLinks(n, DmaPorts))
  /\ UNCHANGED <<cpu, memMode, queue, firmware, version, controllers, network>>

PairSequencers ==
  LET n == args.cpus  d == Len(DmaPorts) IN
  /\ Make("pair", "network")
  /\ controllers' =
       ByProtocol(MI!WithSequencers(controllers, n, d), MESI!WithSequencers(controllers, n, d),
                  MOESI!WithSequencers(controllers, n, d))
  /\ UNCHANGED <<links, cpu, memMode, queue, firmware, version, sequencers, network>>

\* connectControllers: the routers and the links to them, then a row of links from
\* each router in turn.
ConnectControllers ==
  /\ Make("network", "rows")
  /\ network' =
       [network EXCEPT
          !.routers = Len(controllers),
          !.ext_links = ByProtocol(MI!ControllerLinks(controllers),
                                   MESI!ControllerLinks(controllers),
                                   MOESI!ControllerLinks(controllers))]
  /\ UNCHANGED <<links, cpu, memMode, queue, firmware, version, controllers, sequencers>>

ConnectRow ==
  LET k == network.routers  i == network.row  c == network.link_count
  IN /\ Make("rows", IF i + 1 = k THEN "ports" ELSE "rows")
     /\ network' =
          [network EXCEPT
             !.int_links = @ \cup ByProtocol(MI!RouterLinks(k, i, c), MESI!RouterLinks(k, i, c),
                                             MOESI!RouterLinks(k, i, c)),
             !.link_count = c + k - 1,
             !.row = i + 1]
     /\ UNCHANGED <<links, cpu, memMode, queue, firmware, version, controllers,
                    sequencers>>

ConnectPorts ==
  LET n == args.cpus IN
  /\ Make("ports", "eventq")
  /\ links' = links \cup
       ByProtocol(MI!PortLinks(n, args.isa), MESI!PortLinks(n, args.isa),
                  MOESI!PortLinks(n, args.isa))
  /\ UNCHANGED <<cpu, memMode, queue, firmware, version, controllers, sequencers,
                 network>>

SetEventQueues ==
  /\ Make("eventq", "built")
  /\ queue' = IF args.type = "kvm" THEN [i \in Cpus |-> i + 1] ELSE queue
  /\ UNCHANGED <<links, cpu, memMode, firmware, version, controllers, sequencers,
                 network>>

Build ==
  \/ InitFS \/ CreateCPU \/ ChooseCaches \/ CreateControllers \/ CreateSequencers
  \/ PairSequencers \/ ConnectControllers \/ ConnectRow \/ ConnectPorts
  \/ SetEventQueues

-----------------------------------------------------------------------------
(* A request on its way (gem5).  A sequencer gives memory requests to the  *)
(* controller it stands in front of and the rest to the I/O bus, from      *)
(* where they reach the devices, or the interrupt controllers behind the   *)
(* sequencers.  A controller hands a request to the next level.            *)

ControllerPort(i) == Port("controller", i, "buffer")

\* The controllers behind controller i for a block.  What chooses the bank in
\* MOESI_CMP_directory is not in the configuration.
Banks(b) ==
  {j \in OfKind(controllers, "L2Cache") :
     args.mem_sys = "MESI_Two_Level" => controllers[j].version = b % 2^MESI!BankBits}

NextLevel(i) ==
  IF controllers[i].kind = "L1Cache" /\ OfKind(controllers, "L2Cache") # {}
  THEN Banks(block)
  ELSE OfKind(controllers, "Directory")

\* There is a way over the network: out to a router, across, and in again.
Reaches(i, j) ==
  \E e, f \in network.ext_links, l \in network.int_links :
     /\ e.node = i - 1 /\ f.node = j - 1
     /\ l.src = e.router /\ l.dst = f.router

Behind(o, name, a) ==
  {l[2] : l \in {m \in links : m[1] = Port(o[1], o[2], name) /\ DeviceServes(m[2], a)}}

IobusServes(p, a) ==
  \/ DeviceServes(p, a)
  \/ p[3] = "in_ports" /\ a = Memory
  \/ p[3] = "pio_response_port" /\ Behind(Owner(p), "interrupt_out_port", a) # {}

Hops(p, a) ==
  LET o == Owner(p)
      out(name) == {l[2] : l \in {m \in links : m[1] = Port(o[1], o[2], name)}}
  IN CASE p[3] = "in_ports" /\ a = Memory /\ o[1] = "sequencer" ->
            {ControllerPort(i) : i \in {j \in 1..Len(controllers) :
                                          controllers[j].sequencer = o[2]}}
       [] p[3] = "in_ports" /\ a # Memory ->
            out("pio_request_port") \cup out("mem_request_port")
       [] p[3] = "pio_response_port" -> Behind(o, "interrupt_out_port", a)
       [] o[1] = "iobus" ->
            LET claims == {q \in out("mem_side_ports") : IobusServes(q, a)}
            IN IF claims # {} THEN claims ELSE out("default")
       [] o[1] = "controller" /\ controllers[o[2]].kind # "Directory" ->
            {ControllerPort(j) : j \in {k \in NextLevel(o[2]) : Reaches(o[2], k)}}
       [] o[1] = "controller" /\ controllers[o[2]].kind = "Directory" ->
            {l[2] : l \in {m \in links :
               m[1] = Port("Directory", controllers[o[2]].version, "memory_out_port")}}
       [] OTHER -> {}

Sent(p) ==
  CASE p[3] = "dcache_port" ->
         {Memory, PciMemory, IoSpace, PciConfig}
           \cup {a \in {Lapic(p[2])} : args.isa = "x86"}
    [] p[3] \in {"icache_port", "itb_walker", "dtb_walker", "system_port", "dma"} -> {Memory}
    [] p = IoApic /\ args.isa = "x86" -> {Apic(q.id) : q \in firmware.table.processors}
    [] p[3] = "int_requestor" /\ p # IoApic -> {Apic(i) : i \in Cpus}
    [] OTHER -> {}

\* The proxy answers functional requests to memory from the caches itself.
Arrived ==
  /\ route # << >>
  /\ LET p == Last(route) IN
       \/ p[1] \in {"mem_cntrl", "interrupts", "devices", "pci_host"}
       \/ p[1] = "proxy" /\ addr = Memory

\* A device on the I/O bus other than the disk controller may send to memory too.
Issue ==
  /\ step = "built"
  /\ route = << >> \/ Arrived
  /\ \/ \E l \in links : \E a \in Sent(l[1]) : addr' = a /\ route' = l
     \/ addr' = Memory /\ route' = <<Port("device", 0, "dma"), IobusIn>>
  /\ block' \in 0..NumL2Caches-1
  /\ addr' # Memory => block' = 0
  /\ UNCHANGED <<args, buildVars>>

Hop ==
  /\ route # << >> /\ ~Arrived
  /\ \E p \in Hops(Last(route), addr) : route' = Append(route, p)
  /\ UNCHANGED <<args, buildVars, addr, block>>

Stop == step \in {"fatal", "error"} /\ UNCHANGED vars

Next == Build \/ Issue \/ Hop \/ Stop

Spec == Init /\ [][Next]_vars /\ WF_vars(Build) /\ WF_vars(Hop)

-----------------------------------------------------------------------------
(* Properties.                                                             *)

Kinds == {"L1Cache", "L2Cache", "Directory", "DMA"}

\* No port is given two peers: the disk controller's DMA, for one, is connected by
\* the I/O bus or by Ruby and never by both.
PortsBoundOnce == BoundOnce(links)

\* A controller has a buffer of its own for every virtual network it uses, so that
\* it can have no more of them in one direction than there are networks.
BuffersFit ==
  \A i \in 1..Len(controllers) :
    /\ Cardinality(controllers[i].out) <= network.virtual
    /\ Cardinality(controllers[i].in) <= network.virtual

\* Controllers of a kind are numbered from 0 without gaps, and the L1 cache or DMA
\* controller of a number is behind the sequencer of the same number and sort: the
\* lists of controllers and of sequencers are made in the same order.  Their
\* buffers fit the network.
PairedByNumber ==
  step \in {"network", "rows", "ports", "eventq", "built"} =>
    /\ \A k \in Kinds :
         {controllers[i].version : i \in OfKind(controllers, k)}
           = 0..Cardinality(OfKind(controllers, k))-1
    /\ \A s \in 1..Len(sequencers) :
         \E i \in OfKind(controllers, IF sequencers[s].kind = "core" THEN "L1Cache" ELSE "DMA") :
            /\ controllers[i].version = sequencers[s].version
            /\ {j \in 1..Len(controllers) : controllers[j].sequencer = s - 1} = {i}
    /\ BuffersFit

\* When the network is done, one link leads from every router to every other, and
\* no two links share a number.
NetworkComplete ==
  step \in {"ports", "eventq", "built"} =>
    /\ \A i, j \in 0..Len(controllers)-1 :
         i # j <=> \E l \in network.int_links : l.src = i /\ l.dst = j
    /\ \A l, m \in network.int_links :
         l.id = m.id \/ (l.src = m.src /\ l.dst = m.dst) => l = m

\* The banks and their sets together hold as many consecutive blocks as there is
\* room for: the bits that choose the bank do not choose the set again.
SetOf(c, b) == (b \div 2^((CHOOSE x \in c.bits : TRUE) - LineBits)) % L2Sets
BanksSpread ==
  LET banks == OfKind(controllers, "L2Cache")
      blocks == 0..NumL2Caches * L2Sets - 1
  IN \A i \in banks : \A b, c \in {x \in blocks : x % NumL2Caches = controllers[i].version} :
       SetOf(controllers[i], b) = SetOf(controllers[i], c) => b = c

OwnerOf(a) ==
  CASE a = Memory -> {<<"mem_cntrl", 0>>, <<"proxy", 0>>}
    [] a[1] \in {"apic", "lapic"} -> {<<"interrupts", a[2]>>}
    [] a \in {PciMemory, IoSpace} -> {<<"devices", 0>>}
    [] OTHER -> {<<"pci_host", 0>>}

\* Wherever a request starts, it ends at the owner of its address, and a CPU's
\* request for memory has passed the L1 cache of that CPU.
EndsAtOwner ==
  Arrived =>
    /\ Owner(Last(route)) \in OwnerOf(addr)
    /\ route[1][1] = "cpu" /\ addr = Memory =>
         \E i \in OfKind(controllers, "L1Cache") :
            route[3] = ControllerPort(i) /\ controllers[i].version = route[1][2]

\* A request never comes back to where it was, and until it has arrived there is a
\* port to go on to.
KeepsGoing ==
  route # << >> =>
    /\ \A i, j \in 2..Len(route) : i # j => route[i] # route[j]
    /\ Arrived \/ Hops(Last(route), addr) # {}

\* Every request arrives: there is a way through the network wherever it is needed,
\* and nothing goes round.
Arrives == route # << >> ~> Arrived
=============================================================================
