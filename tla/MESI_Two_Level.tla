--------------------------- MODULE MESI_Two_Level ---------------------------
(* configs/system/MESI_Two_Level.py: two caches per CPU, L2 banks they     *)
(* share, and a directory.                                                 *)
EXTENDS RubyParts

Fits(protocol) == protocol = "MESI_Two_Level"

VirtualNetworks == 5

\* The bits by which an L1 cache chooses the bank.
BankBits == Log2(NumL2Caches)

L1Cache(v) ==
  Controller("L1Cache", v,
             {"requestFromL1Cache", "responseFromL1Cache", "unblockFromL1Cache"},
             {"requestToL1Cache", "responseToL1Cache"}, {LineBits})

\* The sets of a bank start above the bits that choose it.
L2BlockSizeBits_OfL1 == LineBits
L2BlockSizeBits == LineBits + Log2(NumL2Caches)

L2Cache(v) ==
  Controller("L2Cache", v,
             {"DirRequestFromL2Cache", "L1RequestFromL2Cache", "responseFromL2Cache"},
             {"unblockToL2Cache", "L1RequestToL2Cache", "responseToL2Cache"},
             {L2BlockSizeBits})

DirController(v) ==
  Controller("Directory", v, {"responseFromDir"},
             {"requestToDir", "responseToDir"}, {})

DMAController(v) ==
  Controller("DMA", v, {"requestToDir"}, {"responseFromDir"}, {})

Controllers(n, d, version) ==
  Numbered(L1Cache(version.L1Cache), n)
    \o Numbered(L2Cache(version.L2Cache), NumL2Caches)
    \o Numbered(DirController(version.Directory), 1)
    \o Numbered(DMAController(version.DMA), d)

Sequencers(n, d) == CoreSequencers(n) \o DmaSequencers(d)
SequencerLinks(n, dma_ports) == CoreLinks(n) \cup DmaLinks(n, dma_ports)
WithSequencers(cs, n, d) == PairUp(cs, n, d)

ControllerLinks(cs) == ExtLinks(cs)
RouterLinks_Upwards(k, i, count) == {l \in IntLinks(k, i, count) : l.dst > i}
RouterLinks(k, i, count) == IntLinks(k, i, count)

PortLinks(n, isa) == ProxyLinks \cup CpuLinks(n, isa)
=============================================================================
