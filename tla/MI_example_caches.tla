------------------------- MODULE MI_example_caches -------------------------
(* configs/system/MI_example_caches.py: a cache per CPU over a directory.  *)
EXTENDS RubyParts

Fits(protocol) == protocol = "MI_example"

VirtualNetworks == 5

BlockSizeBits == LineBits

L1Cache(v) ==
  Controller("L1Cache", v, {"requestFromCache", "responseFromCache"},
             {"forwardToCache", "responseToCache"}, {BlockSizeBits})

DirController(v) ==
  Controller("Directory", v,
             {"responseFromDir", "dmaResponseFromDir", "forwardFromDir"},
             {"requestToDir", "dmaRequestToDir"}, {})

DMAController(v) ==
  Controller("DMA", v, {"requestToDir"}, {"responseFromDir"}, {})

Controllers(n, d, version) ==
  Numbered(L1Cache(version.L1Cache), n)
    \o Numbered(DirController(version.Directory), 1)
    \o Numbered(DMAController(version.DMA), d)

Sequencers(n, d) == CoreSequencers(n) \o DmaSequencers(d)
SequencerLinks(n, dma_ports) == CoreLinks(n) \cup DmaLinks(n, dma_ports)
WithSequencers(cs, n, d) == PairUp(cs, n, d)

ControllerLinks(cs) == ExtLinks(cs)
RouterLinks(k, i, count) == IntLinks(k, i, count)

PortLinks(n, isa) == ProxyLinks \cup CpuLinks(n, isa)
=============================================================================
