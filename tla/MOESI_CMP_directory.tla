------------------------ MODULE MOESI_CMP_directory ------------------------
(* configs/system/MOESI_CMP_directory.py: two caches per CPU, L2 banks     *)
(* they share, and a directory; fewer virtual networks than MESI.          *)
EXTENDS RubyParts

Fits(protocol) == protocol = "MOESI_CMP_directory"

VirtualNetworks == 3

L1Cache(v) ==
  Controller("L1Cache", v, {"requestFromL1Cache", "responseFromL1Cache"},
             {"requestToL1Cache", "responseToL1Cache"}, {LineBits})

\* The sets of a bank start above the bits that choose it.
L2StartIdx == LineBits + Log2(NumL2Caches)

L2Cache(v) ==
  Controller("L2Cache", v,
             {"GlobalRequestFromL2Cache", "L1RequestFromL2Cache", "responseFromL2Cache"},
             {"GlobalRequestToL2Cache", "L1RequestToL2Cache", "responseToL2Cache"},
             {L2StartIdx})

DirController(v) ==
  Controller("Directory", v, {"responseFromDir", "forwardFromDir"},
             {"requestToDir", "responseToDir"}, {})

DMAController(v) ==
  Controller("DMA", v, {"reqToDir", "respToDir"}, {"responseFromDir"}, {})

Controllers(n, d, version) ==
  Numbered(L1Cache(version.L1Cache), n)
    \o Numbered(L2Cache(version.L2Cache), NumL2Caches)
    \o Numbered(DirController(version.Directory), 1)
    \o Numbered(DMAController(version.DMA), d)

Sequencers(n, d) == CoreSequencers(n) \o DmaSequencers(d)
SequencerLinks(n, dma_ports) == CoreLinks(n) \cup DmaLinks(n, dma_ports)
WithSequencers(cs, n, d) == PairUp(cs, n, d)

ControllerLinks(cs) == ExtLinks(cs)
RouterLinks(k, i, count) == IntLinks(k, i, count)

PortLinks(n, isa) == ProxyLinks \cup CpuLinks(n, isa)
=============================================================================
