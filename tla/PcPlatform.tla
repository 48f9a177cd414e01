----------------------------- MODULE PcPlatform -----------------------------
(***************************************************************************)
(* What the two full-system configurations (configs/system/system.py and   *)
(* configs/system/ruby_system.py) have in common: ports and their links,   *)
(* the address map, the devices of the PC, and the two tables the firmware *)
(* hands to the guest.                                                     *)
(*                                                                         *)
(* A port is <<kind of its owner, number of the owner, name>>.  A link is  *)
(* a pair of a request port and a response port; Python's assignment of a  *)
(* port to a port makes one.  An address is named by the part of the map   *)
(* it lies in: the configurations draw all their ranges between these      *)
(* parts.                                                                  *)
(***************************************************************************)
EXTENDS Integers, FiniteSets

Port(kind, i, name) == <<kind, i, name>>
Owner(p) == <<p[1], p[2]>>

\* A vector port takes any number of peers, every other port one.
VectorPorts ==
  {"cpu_side_ports", "mem_side_ports", "in_ports", "interrupt_out_port"}

Links(p, links) == {l \in links : p \in {l[1], l[2]}}

BoundOnce(links) ==
  \A l \in links : \A p \in {l[1], l[2]} :
     p[3] \notin VectorPorts => Links(p, links) = {l}

-----------------------------------------------------------------------------
(* The address map.                                                        *)

Memory    == <<"memory", 0>>       \* [0, 3GB)
IoHole    == <<"io_hole", 0>>      \* [0xC0000000, 0xC0100000)
PciMemory == <<"pci_memory", 0>>   \* [0xC0100000, 0xFFFF0000)
M5Ops     == <<"m5ops", 0>>        \* [0xFFFF0000, 4GB)
IoSpace   == <<"io_space", 0>>     \* [0x8000000000000000, 0xA000000000000000)
PciConfig == <<"pci_config", 0>>   \* from 0xC000000000000000
Apic(i)   == <<"apic", i>>         \* messages to the local APIC of CPU i
Lapic(i)  == <<"lapic", i>>        \* the registers of that local APIC

\* system.mem_ranges: the second range is set aside for I/O.
MemRanges == <<{Memory}, {IoHole}>>

-----------------------------------------------------------------------------
(* Pc.attachIO (gem5): the devices answer on the bus, the PCI host is its  *)
(* default, the I/O APIC sends interrupts through it; the disk controller  *)
(* does its DMA through it unless the caller keeps that port for itself.   *)

IobusIn  == Port("iobus", 0, "cpu_side_ports")
IobusOut == Port("iobus", 0, "mem_side_ports")
IdeDma   == Port("ide", 0, "dma")
IoApic   == Port("io_apic", 0, "int_requestor")

AttachIO(dma_ports) ==
  {<<IobusOut, Port("devices", 0, "pio")>>,
   <<Port("iobus", 0, "default"), Port("pci_host", 0, "pio")>>,
   <<IoApic, IobusIn>>}
  \cup {<<p, IobusIn>> : p \in {IdeDma} \ dma_ports}

\* The ranges the parts of the PC and of the CPUs answer to.
DeviceServes(p, a) ==
  \/ p[1] = "devices" /\ a \in {IoSpace, PciMemory}
  \/ p[1] = "interrupts" /\ p[3] = "pio" /\ a = Lapic(p[2])
  \/ p[1] = "interrupts" /\ p[3] = "int_responder" /\ a = Apic(p[2])

-----------------------------------------------------------------------------
(* The Intel MP table for n CPUs and the e820 map (in kB).                 *)

\* An interrupt of the ISA bus reaches the I/O APIC twice: through the 8259, on
\* pin 0, and directly.
IsaWires(irq, pin) ==
  {[type |-> "ExtInt", bus |-> 1, irq |-> irq, pin |-> 0],
   [type |-> "INT", bus |-> 1, irq |-> irq, pin |-> pin]}

MPTable_OneMore(n) ==
  [processors |-> {[id |-> i, bootstrap |-> i = 0] : i \in 0..n},
   io_apic    |-> n,
   buses      |-> {0, 1},
   child      |-> [bus |-> 1, parent |-> 0],
   wires      |-> IsaWires(0, 2) \cup IsaWires(1, 1)]
MPTable(n) ==
  [processors |-> {[id |-> i, bootstrap |-> i = 0] : i \in 0..n-1},
   io_apic    |-> n,
   buses      |-> {0, 1},
   child      |-> [bus |-> 1, parent |-> 0],
   wires      |-> {[type |-> "INT", bus |-> 0, irq |-> 4 * 4, pin |-> 16]}
                  \cup IsaWires(0, 2) \cup IsaWires(1, 1)
                  \cup UNION {IsaWires(i, i) : i \in 3..14}]

MB == 1024
MemorySize == 3 * 1024 * MB

E820 == {[addr |-> 0, size |-> 639, type |-> "usable"],
         [addr |-> 639, size |-> 385, type |-> "reserved"],
         [addr |-> MB, size |-> MemorySize - MB, type |-> "usable"],
         [addr |-> 4 * 1024 * MB - 64, size |-> 64, type |-> "reserved"]}

End(e) == e.addr + e.size

Direct(t) == {w \in t.wires : w.type = "INT"}
Through8259(t) == t.wires \ Direct(t)
Source(w) == <<w.bus, w.irq>>

\* The table names exactly the CPUs there are, one of which boots, and an I/O
\* APIC apart from them.  Of the direct wires no two share a pin or a source; the
\* others share one pin, which no direct wire takes, and are the wires of every
\* source of the child bus that has a direct one.
TableFits(t, n) ==
  /\ {p.id : p \in t.processors} = 0..n-1
  /\ Cardinality({p \in t.processors : p.bootstrap}) = 1
  /\ t.io_apic \notin {p.id : p \in t.processors}
  /\ {w.bus : w \in t.wires} \cup {t.child.bus, t.child.parent} = t.buses
  /\ \A v, w \in Direct(t) : v.pin = w.pin \/ Source(v) = Source(w) => v = w
  /\ \A v, w \in Through8259(t) : v.pin = w.pin
  /\ \A v \in Direct(t), w \in Through8259(t) : v.pin # w.pin
  /\ {Source(w) : w \in Through8259(t)} =
       {Source(w) : w \in {v \in Direct(t) : v.bus = t.child.bus}}

\* The map has no overlaps, covers the memory from end to end, and calls
\* nothing usable that is not memory.
MapFits(map) ==
  /\ \A e, f \in map : e # f => End(e) <= f.addr \/ End(f) <= e.addr
  /\ \A e \in map : e.type = "usable" => End(e) <= MemorySize
  /\ \E e \in map : e.addr = 0
  /\ \A e \in map : End(e) < MemorySize => \E f \in map : f.addr = End(e)
=============================================================================
