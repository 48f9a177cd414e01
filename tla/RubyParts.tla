----------------------------- MODULE RubyParts -----------------------------
(***************************************************************************)
(* What the three Ruby configurations of configs/system are made of.  A    *)
(* controller is a record: its machine type, its version (the number of    *)
(* that type), the message buffers it sends to and receives from the       *)
(* network, the bits at which the sets of its caches start, and the number *)
(* of the sequencer in front of it, -1 without one.                        *)
(***************************************************************************)
EXTENDS PcPlatform, Sequences

CONSTANTS
  NumL2Caches,   \* self._numL2Caches
  LineBits       \* log2 of system.cache_line_size

Controller(kind, version, out, in, bits) ==
  [kind |-> kind, version |-> version, out |-> out, in |-> in, bits |-> bits,
   sequencer |-> -1]

\* int(math.log(n, 2))
Log2(n) == CHOOSE k \in 0..n : 2^k <= n /\ n < 2^(k + 1)

\* A list of n controllers that begins with c: each takes the next version.
Numbered(c, n) == [i \in 1..n |-> [c EXCEPT !.version = @ + i - 1]]

\* RubySequencer and DMASequencer count their versions each from 0.
CoreSequencers(n) == [i \in 1..n |-> [kind |-> "core", version |-> i - 1]]
DmaSequencers(d) == [i \in 1..d |-> [kind |-> "dma", version |-> i - 1]]

\* The first n controllers get the first n sequencers, the last d the rest;
\* sequencers are numbered from 0.
PairUp_FromZero(cs, n, d) ==
  [i \in 1..Len(cs) |->
     IF i <= n THEN [cs[i] EXCEPT !.sequencer = i - 1]
     ELSE IF i > Len(cs) - d
          THEN [cs[i] EXCEPT !.sequencer = i - 1 - (Len(cs) - d)]
          ELSE cs[i]]
PairUp(cs, n, d) ==
  [i \in 1..Len(cs) |->
     IF i <= n THEN [cs[i] EXCEPT !.sequencer = i - 1]
     ELSE IF i > Len(cs) - d
          THEN [cs[i] EXCEPT !.sequencer = i - 1 - (Len(cs) - d) + n]
          ELSE cs[i]]

SequencerIn(s) == Port("sequencer", s, "in_ports")

\* A core sequencer has two ports into the I/O bus and one out of it.
CoreLinks(n) ==
  UNION {{<<Port("sequencer", s, "pio_request_port"), IobusIn>>,
          <<Port("sequencer", s, "mem_request_port"), IobusIn>>,
          <<IobusOut, Port("sequencer", s, "pio_response_port")>>} : s \in 0..n-1}

DmaLinks(n, dma_ports) ==
  {<<dma_ports[i], SequencerIn(n + i - 1)>> : i \in 1..Len(dma_ports)}

ProxyLinks ==
  {<<Port("system", 0, "system_port"), Port("proxy", 0, "in_ports")>>,
   <<Port("proxy", 0, "pio_request_port"), IobusIn>>}

CacheLinks_First(i) ==
  {<<Port("cpu", i, p), SequencerIn(0)>> : p \in {"icache_port", "dcache_port"}}
CacheLinks(i) ==
  {<<Port("cpu", i, p), SequencerIn(i)>> : p \in {"icache_port", "dcache_port"}}

InterruptLinks(i) ==
  LET out == Port("sequencer", i, "interrupt_out_port")
  IN {<<out, Port("interrupts", i, "pio")>>,
      <<Port("interrupts", i, "int_requestor"), SequencerIn(i)>>,
      <<out, Port("interrupts", i, "int_responder")>>}

WalkerLinks(i) ==
  {<<Port("cpu", i, p), SequencerIn(i)>> : p \in {"itb_walker", "dtb_walker"}}

CpuLinks(n, isa) ==
  UNION {CacheLinks(i)
           \cup (IF isa = "x86" THEN InterruptLinks(i) ELSE {})
           \cup (IF isa \in {"x86", "arm"} THEN WalkerLinks(i) ELSE {})
         : i \in 0..n-1}

\* One external link for each controller, to the router of its number.
ExtLinks(cs) == {[id |-> i, node |-> i, router |-> i] : i \in 0..Len(cs)-1}

\* The links from router i to the others of k, in the order of the inner loop;
\* count numbers have been given before.
IntLinks_NotSkipping(k, i, count) ==
  {[id |-> count + j, src |-> i, dst |-> j] : j \in (0..k-1) \ {i}}
IntLinks(k, i, count) ==
  {[id |-> count + (IF j < i THEN j + 1 ELSE j), src |-> i, dst |-> j]
     : j \in (0..k-1) \ {i}}
=============================================================================
