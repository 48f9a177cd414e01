# The DBRC cache in TLA+

The repository adds one component to gem5 20.1: `DbrcCache`
(`dbrc_cache.cc`, `dbrc_cache.hh`), a blocking second-level cache whose blocks
are found by walking tables of pointers that are themselves kept in the blocks
of the cache. Around it are replays of traces, configurations that put together
full systems, and a script that runs benchmarks on them. This directory models
these parts, checks them with TLC on small instances and proves part of them
with TLAPS.

## 1. Inventory

| Part | State | Operations |
|---|---|---|
| Index, TLB, replacement (`dbrc_cache.cc` 358-658) | `cache_L0T`, `cache_DBA` (`dut`, `tt`, `BTH`), `cache_TLB`, `cache_TLB_order`, `VBIR` | `CacheSearch`, `accessFunctional`, `insert` |
| Ports and blocking protocol (81-356) | `blocked`, `waitingPortId`, `originalPacket`, `needRetry` and `blockedPacket` of the ports, the scheduled access | `recvTimingReq`, `handleRequest`, `accessTiming`, `MemSidePort::sendPacket`, `recvReqRetry`, `recvTimingResp`, `handleResponse`, `sendResponse`, `trySendRetry`, `recvRespRetry`, `handleFunctional` |
| Block contents | `data` of each block, the buffers of writebacks | reads and writes of `accessFunctional`, the fill and the writeback of `insert`, `handleFunctional` |
| Statistics (676-686) | `hits`, `misses`, `missLatency` | written only |
| Port lookup, address ranges (64-79, 96-100, 195-199, 660-674) | none | forwarded to the memory port |
| SE-mode system (`run_dbrc_cache.py`, `DbrcCache.py`) | the links between ports | makes one CPU, two L1 caches, the DBRC cache and a memory |
| C++ trace replay (`test.cpp`) | a copy of the index, with a 32-bit `tt.PT` | `CacheSearch`, `accessFunctional`, `insert`, the loop over the trace |
| Python trace replays (`test.py`, `test_base.py`) | two more copies, different in the TLB and in the eviction; a block has one field for table and data | the same |
| Classic full system (`configs/system/system.py`, `caches.py`, `fs_tools.py`) | links, CPUs, memory mode, event queues, firmware tables | the steps of `MySystem.__init__`, `totalInsts`, `switchCpus` |
| Ruby full system (`configs/system/ruby_system.py`, `MI_example_caches.py`, `MESI_Two_Level.py`, `MOESI_CMP_directory.py`) | the same, controllers with their `_version` counters, sequencers, network | the steps of `MyRubySystem.__init__` and of the protocol's `setup` |
| PARSEC script (`configs/run_parsec.py`) | which CPUs run, start and end counts, statistics | boot, region of interest, rest |

How they interact: a peer on the CPU side (an L1 cache behind a crossbar) calls
`recvTimingReq`; the request blocks the cache and schedules `accessTiming`; the
access hits (index) and answers, or misses and sends a request through the
memory port; the memory side answers through `recvTimingResp`, which calls
`insert` (index), completes the request that had been upgraded to a read of the
block, and answers the peer. `insert` evicts blocks and sends their writebacks
through the same memory port. Calls are synchronous: a peer that is given a
response or a retry may send its next request before that call returns. A
functional request runs at any time, also while a miss is outstanding.

The configurations make gem5 objects and bind their ports to one another; what
they have made is the way every request of a CPU or device takes. `run_parsec.py`
makes a classic system, lets it boot on one set of CPUs and measures a region of
the benchmark on the same or the other set, to which the ports must move.

What is hard here:

- *The index is a graph stored in the blocks it indexes.* A slot is data at one
  time, a table of pointers at another. Nothing is checked along a walk except
  the valid bit, and a TLB hit is not checked at all, so every eviction must cut
  all pointers to the victim. Wrong pointers need long sequences of evictions.
- *The eviction works from stored back links* (`tt.PT`) which may be stale or,
  at eight bits, truncated.
- *The victim scan* clears reuse counts as it goes, gives up after `MNA`
  attempts, and shares its counter with two other loops.
- *The blocking protocol is reentrant*: the cache is freed before the response
  is handed over and the retries are offered afterwards.
- *One slot for refused packets* serves misses and writebacks.
- *Functional requests race a miss*, and a buffer handed to a writeback is still
  the block's own.
- *The wiring of a system is only as good as every link in it*: a port bound
  twice, a range claimed by two bridges or a request that goes round is found, if
  at all, when a simulation stops.
- *A measurement is bracketed by resets and counts in several places*, and the run
  may be cut short between any two of them.

`PROJECT.json` lists these hazards at their lines, with the properties about
each.

What makes each part correct:

- index: a walk and a TLB entry lead only to the block asked for; a pointer and
  the back link agree; what was just filled can be found; a dirty block replaced
  is written back, to its own address; `insert` stays inside its arrays;
- ports: no panic, one request at a time in one place, one response for each
  request to the port it came from, no retry forgotten, no request unanswered: to its
  peers, a blocking server;
- contents: a read returns the last value written, and what is dropped without a
  writeback is in memory;
- replays: an exact index and TLB, as in the cache; no exception before the count
  is printed;
- configurations: no port has two peers, a request has one way and ends at the owner
  of its address without going round, the firmware tells the truth, the network is complete;
- PARSEC script: one set of CPUs runs, the report is about the region and nothing else.

## 2. Modules

### DbrcIndex

The index, the TLB and the replacement. A memory block is its block number (the
code's `TAG`), a cache block its position in `cache_DBA`. The state is the code's,
field by field, without `data`, without the lock bit `L`, which nothing sets, and
without `target_BTH`, which nothing reads.

| Definition | Code |
|---|---|
| `Path`, `Walk`, `EndsAt`, `Found`, `Touched` | `CacheSearch`: the slots reached (in any tables, in the current ones), the index left behind, the validation, the reuse counts |
| `HitTLB`, `HitSearch`, `Miss` | the three outcomes of `accessFunctional` |
| `TimingHit`, `TimingMiss` | `accessTiming`; a miss fixes `req`, with whether the upgraded packet is a write that will dirty the block |
| `Functional` | `handleFunctional` |
| `InsertBegin` | `insert` up to the loop, with its two assertions (`phase` becomes `"found"` or `"in_TLB"` where one fails) |
| `InstallLevel`, `Turn` | one turn of the loop: scan and choice; eviction, link, install |
| `InsertEnd` | the rest of `insert`, and the access of the upgraded packet in `handleResponse` |

The victim scan is one step: `ScanEnds(n)` says after how many attempts it stops,
`Scanned(n)` what it clears, `IsSmallest` which block it remembers. `Counter` is
the value of the code's variable `i` when it is compared with `MNA`: the loops
over the parent's and the victim's tables have reused it by then. The branch at
480-487 that clears `PV` of the block named by `cache_L0T` is not in the model: it
runs only if the entry is valid, and the search has just failed because it is not.

Block sizes other than powers of two are excluded by the code's masks; the fan-out
is a constant of its own so that small tables can be checked. Block numbers are a
finite range; nothing in the code compares them other than for equality.

### DbrcHistory

Extends `DbrcIndex` with a history variable, `strayed`: whether a turn of the loop of
`insert` has yet gone astray. There are three ways in which it can, all left open by the
code: it installs another block than the one it has evicted (`TakesVictim`), it clears
the wrong first-level entry because `PT` is too narrow, or it stops at an entry that
names the victim but is not valid (`Severs`). With the defaults all of them come in
time, so a claim about the index for ever would be false; `PointersKept`, `TLBKept` and
`WalksKept` are about every state up to the first such turn. They say that nothing else
damages the index, however many blocks have been evicted by then. `strayed` is
defined by the step that is taken, and no step depends on it.

### BlockingServer, DbrcPorts

`BlockingServer` is the abstract specification: which peer is served, whose answer is
ready, who is owed one, who was refused and waits to be told to retry; `Accept`,
`Refuse`, `Finish`, `Deliver` and `TellRetry` say when each may change. `DbrcPorts` is
the code. `Server` is the refinement mapping (the port whose request blocks the cache is
served, a port that holds a response or is being handed one has it ready, a port with an
accepted request that its peer has no response to is owed one, a port with `needRetry`
set waits) and `ServesOneByOne` the property that the code implements the abstract
specification.

`DbrcPorts` has the ports and the blocking protocol, for any number of ports. Packets
keep the peer they come from and their kind: `"part"` (smaller than a block), `"line"`
(a block), `"evict"` (a block that needs no response), `"fill"` (the read a part is
upgraded to), `"writeback"`. The kind is what `accessTiming` tells apart by size
and by `needsResponse`.

`pc`, `cur`, `sweep` and `response` are the call chain inside one event: handing a
response to a peer (`"send"`), the peer running (`"taken"`), offering a retry
(`"try"`), the peer running after it (`"retry"`). While the peer runs it may call
`recvTimingReq`, for any port; no other event may run until the chain is done.
Whether an access hits and how many writebacks an `insert` emits is left open:
both are decided by the index, and everything here holds for any choice. The
memory side and the peers are external: the memory side takes or refuses what it
is sent and answers what it has taken; a peer takes or refuses a response.

Each `panic_if` and `assert` of the ports ends in `pc = "panic"`.

### TraceReplay

The three replays in one module. `script` says which of them runs; it is chosen by
`Init` and never changes. `test.cpp` has the code of the cache but for the choice
of the smallest count (`IsLastDrop`), so its actions are those of `DbrcIndex`, used
through `Cache == INSTANCE DbrcIndex` with a parent field that is wide enough, no
writes and no request in flight. The Python programs have definitions of their own
where they differ:

| Definition | What it is about |
|---|---|
| `At`, `PyPath`, `PyEndsAt` | a list indexed with -1 gives its last element, while -1 returned by the search means a miss in `L0T` |
| `SearchRaises`, `EvictionRaises`, `BaseAccess` | a block is a list of entries or of bytes, by the level it was installed at; the wrong kind raises `AttributeError`, an offset behind the end `IndexError`: `phase = "error"` |
| `PyAccess`, `BaseAccess` | which of search and TLB is believed |
| `PyVictim` | the choice after `MNA` attempts: the last block passed, or -1 |
| `PyInstall` | `test.py` chooses, evicts and links; `test_base.py` chooses, links and evicts |
| `Severed` | the loop over the parent's entries, with or without `break` |
| `PyDropsFromTLB` | the key dropped: the victim's tag, or the address inserted |

The addresses are block numbers and the bytes are left out: a read-back reads the
block just inserted. The statements of `test.py` that only assign to `x` do nothing.

### DbrcContents

Extends `DbrcHistory`: each action is an action of the index with what it does to the
data. Of every block one word is followed. `pending` is the request of a miss as
`originalPacket` and the forwarded packet hold it; `answer` is the word in the
response; memory may refuse a writeback, which then waits in `parked` and carries the
victim's *own* buffer, so that what memory reads is what is there when it reads
(`Readable`); a buffer deleted with its packet may hold anything afterwards. (gem5
does not forbid a deleted buffer to be used, and the code goes on using it.)
`latest` is a history variable: the value last written to a block, until a writeback or
an overtaking functional write has made it uncertain, which the code does not prevent
and nothing in it promises. Requests come one at a time; the ports are `DbrcPorts`'s.
Whole blocks that an upper cache evicts without wanting a response are left out: such a
packet panics or blocks the ports for ever (section 3).

### PcPlatform, ClassicSystem

A port is `<<owner, number, name>>`, a link a pair of a request port and a response
port. `PcPlatform` has what both full systems share: the address map, by parts between
which all ranges are drawn, the devices of `Pc.attachIO`, the MP table and the e820
map of the firmware. An interrupt of the ISA bus is wired twice, as `assignISAInt` does
(`IsaWires`): through the 8259 to pin 0, which all of them share, and directly to a pin of
its own. `ClassicSystem` makes the system one method at a time, in the
order of the constructor (`Make(part, next, links)`), for `MySystem` with each
`cpu_type` and number of CPUs, and for the system of `run_dbrc_cache.py`. Then every
sender sends to every part of the map it may address (`Sent`) and the request hops from
port to port. How crossbars, bridges and caches route is gem5's and marked external.
`KeepsGoing` is the part of `Arrives` that is a safety property: a request never comes
back to a port it has been at, and one that has not arrived can hop.

### RubyParts, MI_example_caches, MESI_Two_Level, MOESI_CMP_directory, RubySystem

The three protocol files are near copies of one another; `RubyParts` has what they have
in common, each protocol module what is its own: its controllers and their buffers, the
bits that choose bank and set, the virtual networks. `RubySystem` makes the system for
each protocol asked for (`mem_sys`) and each one gem5 was built with (`protocol`): a
mismatch ends in `fatal`, an unknown name in an `AttributeError` (`step = "error"`).
`connectControllers` is a step that makes the external links and one step per router
for the row of internal links that leaves it. A request goes from a sequencer to its
controller, over the network to the next level, and to memory; or to the I/O bus.
The guards of the `CASE` in `Hops` exclude one another. `KeepsGoing` is as above.

### RoiMeasurement, ParsecRun

`RoiMeasurement` is the abstract specification: the region is entered once or the run
ends before it, and what is reported of it is its own length and statistics.
`ParsecRun` is the script. It makes the system with the actions of `ClassicSystem`
(`System == INSTANCE ClassicSystem`), then each call of `m5.simulate()` with the code
that follows it is one action; the guest decides how long the call takes and with which
cause it ends. `SwitchCpus` moves the ports and changes the memory mode, as
`m5.switchCpus` does. `Measurement` is the refinement mapping and `Measures` the
property that the script implements the abstract specification.

### DbrcIndexProofs, DbrcEvictionProofs, DbrcContentsProofs, TraceReplayProofs, DbrcPortsProofs, ParsecRunProofs, ClassicSystemProofs, RubySystemProofs

The theorems, see section 4. The first three build on one another: `DbrcIndexProofs`
(types, the TLB, a miss; then walks, and whose path a block is on) is extended by
`DbrcEvictionProofs` (an array with free blocks, then a full one), and that by
`DbrcContentsProofs` (what the blocks hold). `TraceReplayProofs` instantiates
`DbrcEvictionProofs` for the replays.

## 3. Runs

All bounds are constants of the `.cfg` files; no constraint cuts a run short.

| Run | Shows | Instance |
|---|---|---|
| `index` | types and widths, TLB order and size, a miss stays a miss until it is filled; everything is exact until the last free block is used; TLB, pointers and walks stay exact through evictions until a turn of `insert` goes astray | 2 levels, tables of 2, 2 first-level entries, 4 slots, `MNA` = 3, `PT` of 3 values: fewer attempts than slots and a `PT` too narrow, as in the defaults (`MNA` 5 of 256 slots, 8 bits for 65536 entries), so that each turn after the first fill may go astray or not |
| `ports` | no panic, one request in one place, one response to the right port, no lost retry; every request is answered and every retry comes; the code implements `BlockingServer` | 2 ports, up to 2 writebacks, refusals of requests and responses; deadlock checked |
| `contents` | reads give the last value written, on every path and with functional requests racing a miss, until a turn of `insert` goes astray, but for blocks that a writeback, a race or the eviction of the table over them has made uncertain; a clean block equals memory | 2 levels, tables of 1, 2 first-level entries, 3 slots, `MNA` = 2, `TLB_size` = 0, values 0 and 1 |
| `replays` | the replays are exact until the array is full; `test.py` keeps pointers, walks and TLB exact for ever, and its TLB agrees with its search | 2 levels, tables of 2, 2 first-level entries, 4 slots, `MNA` = 2 |
| `classic` | both systems with classic memory are made without binding a port twice; every request has one way, never comes back to where it was nor gets stuck, arrives, and ends at the owner of its address; memory is reached through caches, interrupts past them; the firmware's tables fit | 1 to 3 CPUs, all five known values of `cpu_type` and one that is unknown; deadlock checked |
| `ruby` | controllers and sequencers pair up, the network is complete, the banks use all their sets, every request goes on until it arrives at its owner, through its own L1 controller | 1 or 2 CPUs, 3 ISAs, the 3 protocols asked for and built in every combination and an unknown one, 4 L2 banks, 4 sets; deadlock checked |
| `parsec` | one set of CPUs runs at a time with the ports and the memory mode that belong to it; event queues are apart; the instructions of the region; the script implements `RoiMeasurement` | 1 to 3 CPUs, `kvm`, `timing` and a type that is refused, up to 2 ticks in a call of `simulate()`; deadlock checked |
| `writeback_address` | violation of `WritebackAddressed` | 3 slots, `MNA` = 4, a wide `PT`, writes |
| `fill_reachable` | violation of `FillReachable` | 4 slots, `MNA` = 5, a wide `PT` |
| `lost_dirty` | violation of `DirtyWrittenBack` | 3 slots, `MNA` = 1, a wide `PT`, writes |
| `refused_writeback` | violation of `NoPanic` | 1 port, the memory side may refuse a writeback |
| `switch_back` | violation of `RestIsReached` | 1 CPU, `timing` |

Why the bounds are enough. Four slots are full with the two paths of two levels that
they hold, and four memory blocks give two first-level entries with two blocks each, so
that paths share a table and do not: tables, data and first-level links compete for the
same slots, and every kind of block is evicted by every kind. A scan of three attempts
finds a block or does not, and 97 of the 124621 states with `~strayed` come before the
array is full. `TLB_size` = 1 makes the TLB (which keeps one entry more) evict. `RMax` =
2 reaches the cap of the reuse count by two hits. Two ports are the least that tell the
waiting port from another; three give the same result in a longer run. In `replays` the
array has one block more than a scan has attempts, so that both outcomes of the scan
occur; `MNA` = 1, 3 and 5 give the same result. In `contents` two paths of two levels
compete for three slots, so that a table is evicted over a dirty block of data; a TLB of
one entry lets go of the orphan before the hand meets it. Tables have one entry there:
which entry is followed is the question of the index runs. One level with three blocks
of memory and two slots gives the same result. Two values tell written from not written,
and 0 is also what a wiped block holds. In `classic`, the third CPU is the first that is
neither the booting one nor the last, where a range that is one short would show. In
`ruby`, the four banks of the model stand for the code's eight (two bits that choose a
bank and a set that must not use them again) and four sets for the number the cache's
size gives; one or two CPUs distinguish a list's first part from its middle. In `parsec`
two ticks let the region be longer or shorter than what comes before.

`index`, `contents` and the replays switch the deadlock check off: they
can end (an assertion, an access out of bounds, an exception, a panic of the port). So do
the runs that are to show a violation, but for `switch_back`.

Fairness. In `DbrcIndex`, the steps of `insert` are one function call, so a step
that is enabled is taken (weak fairness of `Spec`); accesses need not happen. No property
of the index needs it. In `DbrcPorts`,
a call returns (weak fairness of the call chain). An event that has been scheduled
runs in the end, although handlers run in between, so the access, the memory's
answer and a retry are strongly fair. The peers and the memory side are assumed to
take in the end what they keep being offered: `RequestAnswered` and `RetryComes`
say that the cache forgets nothing, not that its environment is good. Neither is
assumed to send anything. In the systems, a script that can go on does, and a request
that can hop hops (weak fairness of `Build`, `Hop` and `Step`): Python runs its
statements, and gem5 its events; nobody need send a request.

The five violations are disagreements between the code and its own comments; each
is described in `PROJECT.json` under `findings` with the lines. In short:

- `TAG` is cleared before the writeback uses it as its address (`writeback_address`);
- the victim may be the very table the new block is linked into (`fill_reachable`);
- after `MNA` attempts the block evicted is the one under the hand, and the one installed
  over is `smallest_r_idx`: a dirty block there is lost (`lost_dirty`);
- a refused writeback blocks the memory port while the cache is free (`refused_writeback`);
- after the region a run with the timing CPUs looks for `system.timingCpu`, which nothing
  makes (`switch_back`).

Modelling showed more than is kept as runs. Each can be seen by changing a constant
or by writing the claim as an invariant:

- `tt.PT` has 8 bits: with more first-level entries than it can number, the eviction clears
  the wrong one, and the right one leads to whatever is installed next (`PointersSound` is
  violated with 3 slots, `MNA` = 4, 3 first-level entries and a `PT` of 2 values, and holds
  with one of 3).
- The loop at 541-549 stops at the first entry that names the victim, valid or not, and can
  leave the valid one behind (`PointersSound` is violated with 4 slots, `MNA` = 3 and a wide
  `PT`, and holds with `MNA` = 5).
- The counter `i` of the scan is reused by two loops of the eviction and then compared
  with `MNA`: it may say that no block was found when one was, and `smallest_r_idx` may
  still be -1 then (`phase = "overrun"`, 3 levels, 4 slots, `MNA` = 1 with tables of 2: fewer
  attempts than entries, as by default, 5 and 32).
- A block that a cache above evicts needs no response; forwarded on a miss, it leaves the
  cache blocked, and a peer refused then is never told to retry (`RetryComes` is violated
  with `"evict"` in `Kinds`; `run_dbrc_cache.py` puts such caches above).
- A request to [0xC0000000, 0xC0100000) goes round between the bridge and the I/O cache
  of the classic system: `mem_ranges` lists the range, so the I/O cache claims it for
  the memory bus, and the bridge takes it from there to the I/O bus. `Arrives`,
  `KeepsGoing` and `EndsAtOwner` leave it out.
- Evicting a table leaves the dirty blocks under it in their slots, where nothing but
  the TLB finds them until the hand meets them and writes them back: a read in between
  gets an old value from memory. In `DbrcContents`, `Lost` are these blocks; without
  them `ReadsLatest` fails in `contents`.
- `test.py` may install a block over its own parent and then finds data where it
  expects a table; the program ends this way on the trace of the repository.
- `test.cpp` compares each reuse count with the one before only, so from three attempts
  on it does not choose the smallest.
- `totalInsts` counts `self.cpu` only: with the timing CPUs the instructions reported
  of the region stand still (`InstructionsOfRegion` speaks of the other runs).
- "Finish executing the benchmark with kvm cpu": the script makes its system with
  `no_kvm`, so the booting CPUs are atomic ones.

Of these, `lost_dirty` and the first three of the list are the ways in which a turn goes
astray (`DbrcHistory`); how soon they come is a matter of the constants. A full array of
the defaults (tables of 32 entries, `MNA` 5 of 256 slots) meets them in time. `test.py`
goes on to the last entry and chooses the block before it evicts; `PySound` says that
this is enough for any number of attempts.

## 4. Proofs

`DbrcPortsProofs` proves, for any number of ports and any number of writebacks per
insert, that `NoPanic`, `RequestInOnePlace`, `ResponseToSender`, `AnsweredOnce` and
`NoLostRetry` are invariants of `Spec`. The theorems assume `Surroundings`: no
packet without a response is sent and no writeback is refused. Both are needed: a
refused writeback leads to a panic (run `refused_writeback`), and so does a packet without
a response that hits, by an assertion of gem5, while one that misses blocks the cache
(section 3).

The safety properties are not inductive: whether a panic is reachable depends on
where the packet of the current request is, on whose it is, and on what the call
chain still has to do. `Inv` joins `TypeOK` and the properties with these facts: at
most one of the places of a request is in use and only while the cache is blocked;
while a response is in hand the port it goes to holds none; the loop over the
ports has left no port behind that is owed a retry and could be given one. Its
proof has one lemma per action, and `InvNext` puts them together.

`PortsKeepTheirTypes` is a part of the same invariant.

`CacheIsBlockingServer` proves, under the same assumptions, that `DbrcPorts` implements
`BlockingServer` (`ServesOneByOne`): the initial states map to the initial state, and
each step to one of the server's or to a stutter. It rests on `OwedOnce`, which the
invariant gives: a port is owed exactly one response while its request is worked on and
while the response is at hand, and these are never the case at once. So a request that
is finished never overwrites an answer that waits, and a response that is taken pays
the debt. The order of the calls enters twice: `sendResponse` frees the cache before it
hands over the response, so that the peer may be accepted again from inside the call;
and a retry goes only to a port whose response has been taken (`Offered`), since any
other could not be accepted. What the memory side does, and the kept packet, are not
seen (`Unseen`).

`DbrcIndexProofs` proves, for any sizes of the cache, that `TypeOK`, `TLBInStep`
and `MissStaysMiss` are invariants of `Spec`. The only assumptions are
`SizesAssumption` and `PowersAssumption`: sizes are positive, and the powers of the
fan-out are what they are, which is arithmetic the provers do not know
(`ReplayAssumption` says the same of the replays). Two arguments:

- The order vector is an injective listing of the keys of the TLB, so its length is
  the number of keys, and each of the five updates keeps the two in step. To record
  an entry one needs that it is not there yet: on a search hit the TLB has just been
  looked up, at the end of `insert` this is what the assertion at its head found
  and what the evictions, which only remove entries, leave true. `InsertState`
  carries this from step to step, with the bounds on `last_BTH` and
  `current_level`; `IndexInv` is it with the three properties.
- While a miss is outstanding only functional requests run. They change reuse
  counts and dirty bits of the array and nothing a walk or its validation looks at
  (`Walk` and `Found` are unchanged), and a functional request for the missing
  block misses as well, so it does not enter the TLB.

The second half of `DbrcIndexProofs` has no theorem but the argument on which the next
three modules rest. What a walk finds depends on the tables it goes through, so that a
statement about all walks is not inductive; a statement about single pointers is. A
*witness* `owner` names for each slot the block of memory for which it was installed.
`Owned` says that every valid entry leads to a block in use, of the next level, whose
`PT` leads back and whose owner agrees with the owner of the table in the digits down to
this level and with the entry in the next one; that no block is pointed to twice; and
that a block of data is tagged with its owner. Nothing in the code is the witness: it
is quantified (`\E owner : IndexOwned(owner)`), and each turn of `insert` gives the
block it installs the owner `req.block`. It follows that a walk stays on blocks whose
owner has the digits searched for (`WalkOwned`), so that what it finds at the last level is
tagged with that block: `WalksExact`. Three facts about the recursion are needed and
proved here: that `Path` defines a function, level by level (`PathSteps`, with a
least-element argument in place of an induction theorem, `LevelInduction`); that a
block is its digits (`PrefixFacts`); and that a search which ends early ends at an entry
that leads nowhere, which is the one that `insert` fills (`SearchEnds`, `InsertFillsGap`).
`TLBExact` says that each TLB entry names a block of data with its tag, and never the
block that is being filled.

The first half of `DbrcEvictionProofs` proves `ColdSound` for any sizes, any `MNA` and
any width of `PT`: until the array is full, every pointer leads to a block of its level
whose parent leads back, nothing is written back, `insert` does not run over the array,
a walk finds the block searched or none, and finds every block the TLB has. It is not
inductive, since an eviction could break it: `ColdInv` adds that the slots in use are
exactly those below the hand `VBIR` (`HandSplits`: so the slot under the hand is free,
the scan stops at once and there is nothing to evict), that the entry `insert` fills
leads nowhere (`InsertFillsGap`), and, with the witness above, that every block in use
hangs on its owner's path (`AllLinked`: so the TLB's blocks are reached). A turn of the
loop never frees a slot, so an array that has been filled stays so. `FirstFillIsSafe` is
the part about pointers by itself, `FirstFillIsExact` the whole.

The second half is about the array when it is full. `PointersKept`, `TLBKept` and
`WalksKept` are invariants of `HistorySpec`, for any sizes, any `MNA` and any width of
`PT`, and with writes (`EvictionsKeepPointers`, `EvictionsKeepTLB`, `EvictionsKeepWalks`).
The invariant is `SweepInv`, as long as `strayed` is false: `insert` has not run over the
array, `TLBExact`, `InsertFillsGap` and the witness. The main step (`SweepTurn`) is that a
turn which clears the entry that leads to its victim and installs that victim is an
`Installs`: the lemmas of `DbrcIndexProofs` then say that the witness, with the new owner,
fits the new tables. That the entry is cleared is needed only where one leads to the
victim (`Severs`), so the victims that no table leads to any more, whose back links are
stale, need nothing. Where a victim has lost its parent this is what the `PV` bits are
about; where it has children, they are orphaned in the same turn (`EvictedFields`,
`SeveredTables`, `RootUnlinked`).

That the condition is not an empty one is `FillingNeverStrays`: no turn goes astray before
the array is full, whatever the constants, since the slot under the hand is free. After
that it depends on them; in `index` nearly all the states of which the properties
speak come after the first evictions.

`DbrcContentsProofs` proves `ReadsLatest` and `CleanMatchesMemory` of `ContentsSpec`, for
any sizes, any `MNA`, any width of `PT`, any set of values and any interleaving of
functional requests with a miss. Both speak of the states before a turn goes astray, as
above. The assumption `ContentsAssumption` is that a packet writes or
does not and that a word is a number, 0 among them. The two are not inductive: they are
silent while `insert` runs, about the slot it fills and about the word that is on its
way. `DataInv` says where the last value of a block is, at every moment: in its slot if
the index has it (`InBlock`); in memory or in a dirty slot (`InMemory`); in the response
of a miss (`InAnswer`). It needs three things of the index: the TLB and the search lead
to the same slot (`Agreed`), a missing block is in neither (`StillMissing`), and the
victim of a turn is no block that anything still leads to. The first two are parts of
the invariant, the last is what the invariant of `DbrcEvictionProofs` gives as long as no
turn has gone astray (`ExactIndex`). So the invariant is `ContentsInv == HistoryInv /\
(~strayed => DataInv)`, and each action on the contents is proved to keep it from the
lemma about its part in the index. A block that is lost with its path is given up by the
model itself (`LostGivenUp`): nothing is claimed of it. The longest is the turn of the
loop (what is written back, and whose slot it was), then the end of `insert`, where the
response meets the part of the block that was to be written.

`TraceReplayProofs` proves `TypeOK`, `ColdSound` and `PySound` of the three replays, for
any sizes and any number of attempts. `Index` is the cache's index with the replays'
variables. The steps of `test.cpp` are steps of it but for the choice of a victim, which
while slots are free is the same; its invariant `CppInv` is the one until the array is full.
The Python programs link, choose and evict in other orders, so they have `PyInv`:
`Types`, which both satisfy for ever, exceptions and indices of -1 included, and
`ExactInv` as long as the index is exact (`Exact`: always in `test.py`, until every
block has been used in `test_base.py`). `ExactInv` is the witness of `DbrcIndexProofs`,
`TLBExact`, `InsertFillsGap` and two facts more: the TLB agrees with the search
(`Agreed`), and the search does not find a missing block until it is filled
(`StillMissing`). The main step is that a whole turn of either loop, read in the
order in which that program does it, is an `Installs` of the index, from which on the
lemmas about the cache's turn apply: while slots are free because there is nothing to
unlink (`PyColdTurn`), and in `test.py` afterwards because its loop unlinks the victim
in every entry of its parent and it drops the victim from the TLB (`PyFullTurn`,
`PyDropKept`). An exception, which test.py can still raise, ends the program and leaves
the index as it is (`RaiseIndex`).

`ParsecRunProofs` proves, for any number of CPUs, types and ticks, that `TypeOK`,
`OneSetRuns`, `PortsFollow`, `QueuesApart` and `InstructionsOfRegion` are invariants of
`ParsecRun` and that `ParsecRun` implements `RoiMeasurement` (`RegionIsMeasured`):
`Init` maps to its initial state and each step to `Enter`, `Abort`, `Leave` or a
stutter. The invariant is a conjunction of parts by subject: `Arrangement` (which set
is switched in and in what mode, in each phase), `Queues` (what the construction has
done by when), `CpuLinks` (the links of the CPUs, which come into being in one step of
the construction and move in one step of the switch), `Accounts` and `Counted` (start
and end counts in terms of the length of the periods, and what the statistics have
counted so far). The only assumption is `RunAssumption`.

`ClassicSystemProofs` proves all the invariants of `ClassicSystem`, for any number of
CPUs: `PortsBoundOnce`, `FirmwareFits`, `OneWay`, `EndsAtOwner`, `MemoryThroughCaches`
and `KeepsGoing`. `MadeSoFar` gives the links that exist before each step of the
construction, which is what makes a port bound twice a matter of the pairs of a set
(`PcLink`, `CpuLink`). `RouteSound` says where a request can be for its address
(`OnTheWay`), and that it has passed a cache by the time it is on the memory bus if it is
for memory and none if it is an interrupt. For each port in `OnTheWay` there is one port
to go on to (`AWayOn`), and it is nearer by `Distance`; a route is `Descending`, so
no port is on it twice (`NeverRoundNorStuck`). This is the safety half of `Arrives`: what
is left to fairness is that a request which can hop does. The hole in the map is left
out because there is no such distance for it (section 3).

`RubySystemProofs` proves all the invariants of `RubySystem`, for any number of CPUs and
banks and each protocol and ISA. `NetworkSoFar` says of the loop over the routers that
the rows before `network.row` are complete, that no other row has been begun, and that
every number given out so far is at most `link_count`: the next row's numbers are new
(`NetworkComplete`). `PartsSoFar` says in which order the lists stand and what has been
linked before each step: L1 caches, banks, directory, DMA (`InOrder`), and, after
`"pair"`, the sequencers of the CPUs before the first of these, those of the DMA before
the last (`Paired`). From it follow `PairedByNumber` and `PortsBoundOnce`. `RouteSound`,
`Distance` and `Descending` give `EndsAtOwner` and `KeepsGoing` as above; here one needs
in addition that a controller has a router (`LinkedOut`), that any two routers are
joined (`AllReached`, from the rows of the network) and that the bits of a block name a
bank that exists (`ABank`). Two facts about powers of two are assumed, since the provers
do not know the laws of exponents. `BanksAssumption` says that the bits which choose a
bank tell at most as many banks apart as there are, which is true of every number; TLC
evaluates it. `ExactLog` says that they tell exactly as many apart: the number is a
power of two. It is an assumption of `BlocksAreSpread` alone, without it some banks
would get no block, and `SomeExactLogs` proves it for 1, 2, 4, 8, 16 and 32 banks.

Only model-checked is liveness, which is out of the prover's reach:
`RequestAnswered`, `RetryComes` and `Arrives` of both systems. Every invariant, action
property and refinement that a passing run checks is a theorem; `AnsweredOnce` and the
types of the ports and of `ParsecRun` are theorems without a run of their own, as parts
of the invariants. Of an array in which a turn has gone astray only `TypeOK`, `TLBInStep`
and `MissStaysMiss` are proved: the rest is false there (section 3).

## 5. Not modelled

`PROJECT.json` gives the status of each part. Left out are:

- statistics, which are only written, `getPort` and the address ranges, which are
  stateless forwarding, and `recvAtomic`, which is a panic;
- sizes, latencies and associativities of caches and links, the ends of address ranges
  by one, and the `panic` of `getBlockSizeBits`, which no configuration reaches;
- the choice of an L2 bank in `MOESI_CMP_directory`, which the protocol makes and the
  configuration does not: any bank may be taken;
- `_version` counters over several systems in one Python process: one is made;
- packets that are neither reads nor writes, that span two blocks, or that are part of a
  block and need no response, and with them the panics and the assertion that they meet
  (`dbrc_cache.cc` 329, 332, 339, 442): all packets of the models are reads and writes
  within a block. Which packets a cache above sends is gem5's;
- the class `DbrcL2Cache`, which nothing makes;
- whole blocks evicted without a response, in `DbrcContents`;
- what the scripts and the replays print, but for the numbers that are compared;
- the Docker and SCons files and the recorded trace.

## 6. What is left

1. `DbrcContents` under `DbrcPorts`, so that contents are followed with several peers.
2. That every power of two satisfies `ExactLog`, and not only those up to 32.
3. Fairness between the ports: retries go to them in a fixed order, and nothing keeps the
   first from taking the cache again each time.
4. The eviction by `test_base.py` once its array is full, of which only types are proved.
