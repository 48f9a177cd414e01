-------------------------- MODULE RubySystemProofs --------------------------
(***************************************************************************)
(* Theorems about RubySystem, for any number of CPUs and L2 banks, each of *)
(* the three protocols and each ISA: the network, the numbers of the       *)
(* controllers and their sequencers, the ports, the banks, and the way of  *)
(* a request.                                                              *)
(***************************************************************************)
EXTENDS RubySystem, FiniteSetTheorems, TLAPS

-----------------------------------------------------------------------------
(* The list of controllers is a list, and not an empty one.                *)

AList(s) == \E S : s \in Seq(S)

LEMMA ConcatList ==
  ASSUME NEW s, NEW t, AList(s), AList(t)
  PROVE  AList(s \o t) /\ Len(s \o t) = Len(s) + Len(t) /\ Len(s) \in Nat /\ Len(t) \in Nat
  <1>1. PICK S : s \in Seq(S)
    BY DEF AList
  <1>2. PICK T : t \in Seq(T)
    BY DEF AList
  <1>3. s \in Seq(S \cup T) /\ t \in Seq(S \cup T)
    BY <1>1, <1>2
  <1>4. s \o t \in Seq(S \cup T) /\ Len(s \o t) = Len(s) + Len(t)
    BY <1>3
  <1> QED BY <1>3, <1>4 DEF AList

LEMMA FunctionList ==
  ASSUME NEW n \in Nat, NEW s, s = [i \in 1..n |-> s[i]]
  PROVE  AList(s) /\ Len(s) = n
  <1> DEFINE S == {s[i] : i \in 1..n}
  <1>1. s \in [1..n -> S]
    OBVIOUS
  <1> HIDE DEF S
  <1>2. s \in Seq(S) /\ Len(s) = n
    BY <1>1
  <1> QED BY <1>2 DEF AList

\* What all three classes make: lists of controllers one after the other.
LEMMA ListsOfControllers ==
  ASSUME NEW n \in Nat \ {0}, NEW d \in Nat
  PROVE  /\ AList(MI!Controllers(n, d, version)) /\ Len(MI!Controllers(n, d, version)) > 0
         /\ AList(MESI!Controllers(n, d, version)) /\ Len(MESI!Controllers(n, d, version)) > 0
         /\ AList(MOESI!Controllers(n, d, version)) /\ Len(MOESI!Controllers(n, d, version)) > 0
  <1>1. AList(MI!Controllers(n, d, version)) /\ Len(MI!Controllers(n, d, version)) > 0
    <2> DEFINE a == MI!Numbered(MI!L1Cache(version.L1Cache), n)
               b == MI!Numbered(MI!DirController(version.Directory), 1)
               c == MI!Numbered(MI!DMAController(version.DMA), d)
    <2>1. AList(a) /\ Len(a) = n
      <3>1. a = [i \in 1..n |-> a[i]]
        BY DEF MI!Numbered
      <3> HIDE DEF a
      <3> QED BY <3>1, FunctionList
    <2>2. AList(b)
      <3>1. b = [i \in 1..1 |-> b[i]]
        BY DEF MI!Numbered
      <3> HIDE DEF b
      <3> QED BY <3>1, FunctionList
    <2>3. AList(c)
      <3>1. c = [i \in 1..d |-> c[i]]
        BY DEF MI!Numbered
      <3> HIDE DEF c
      <3> QED BY <3>1, FunctionList
    <2>4. MI!Controllers(n, d, version) = a \o b \o c
      BY DEF MI!Controllers
    <2> HIDE DEF a, b, c
    <2>5. AList(a \o b) /\ Len(a \o b) > 0
      BY <2>1, <2>2, ConcatList
    <2> QED BY <2>3, <2>4, <2>5, ConcatList
  <1>2. AList(MESI!Controllers(n, d, version)) /\ Len(MESI!Controllers(n, d, version)) > 0
    <2> DEFINE a == MESI!Numbered(MESI!L1Cache(version.L1Cache), n)
               e == MESI!Numbered(MESI!L2Cache(version.L2Cache), NumL2Caches)
               b == MESI!Numbered(MESI!DirController(version.Directory), 1)
               c == MESI!Numbered(MESI!DMAController(version.DMA), d)
    <2>1. AList(a) /\ Len(a) = n
      <3>1. a = [i \in 1..n |-> a[i]]
        BY DEF MESI!Numbered
      <3> HIDE DEF a
      <3> QED BY <3>1, FunctionList
    <2>2. AList(e)
      <3>1. e = [i \in 1..NumL2Caches |-> e[i]]
        BY DEF MESI!Numbered
      <3> HIDE DEF e
      <3> QED BY <3>1, FunctionList, RubyAssumption
    <2>3. AList(b)
      <3>1. b = [i \in 1..1 |-> b[i]]
        BY DEF MESI!Numbered
      <3> HIDE DEF b
      <3> QED BY <3>1, FunctionList
    <2>4. AList(c)
      <3>1. c = [i \in 1..d |-> c[i]]
        BY DEF MESI!Numbered
      <3> HIDE DEF c
      <3> QED BY <3>1, FunctionList
    <2>5. MESI!Controllers(n, d, version) = a \o e \o b \o c
      BY DEF MESI!Controllers
    <2> HIDE DEF a, b, c, e
    <2>6. AList(a \o e) /\ Len(a \o e) > 0
      BY <2>1, <2>2, ConcatList
    <2>7. AList(a \o e \o b) /\ Len(a \o e \o b) > 0
      BY <2>3, <2>6, ConcatList
    <2> QED BY <2>4, <2>5, <2>7, ConcatList
  <1>3. AList(MOESI!Controllers(n, d, version)) /\ Len(MOESI!Controllers(n, d, version)) > 0
    <2> DEFINE a == MOESI!Numbered(MOESI!L1Cache(version.L1Cache), n)
               e == MOESI!Numbered(MOESI!L2Cache(version.L2Cache), NumL2Caches)
               b == MOESI!Numbered(MOESI!DirController(version.Directory), 1)
               c == MOESI!Numbered(MOESI!DMAController(version.DMA), d)
    <2>1. AList(a) /\ Len(a) = n
      <3>1. a = [i \in 1..n |-> a[i]]
        BY DEF MOESI!Numbered
      <3> HIDE DEF a
      <3> QED BY <3>1, FunctionList
    <2>2. AList(e)
      <3>1. e = [i \in 1..NumL2Caches |-> e[i]]
        BY DEF MOESI!Numbered
      <3> HIDE DEF e
      <3> QED BY <3>1, FunctionList, RubyAssumption
    <2>3. AList(b)
      <3>1. b = [i \in 1..1 |-> b[i]]
        BY DEF MOESI!Numbered
      <3> HIDE DEF b
      <3> QED BY <3>1, FunctionList
    <2>4. AList(c)
      <3>1. c = [i \in 1..d |-> c[i]]
        BY DEF MOESI!Numbered
      <3> HIDE DEF c
      <3> QED BY <3>1, FunctionList
    <2>5. MOESI!Controllers(n, d, version) = a \o e \o b \o c
      BY DEF MOESI!Controllers
    <2> HIDE DEF a, b, c, e
    <2>6. AList(a \o e) /\ Len(a \o e) > 0
      BY <2>1, <2>2, ConcatList
    <2>7. AList(a \o e \o b) /\ Len(a \o e \o b) > 0
      BY <2>3, <2>6, ConcatList
    <2> QED BY <2>4, <2>5, <2>7, ConcatList
  <1> QED BY <1>1, <1>2, <1>3

\* The list is a non-empty one for any choice of the protocol.
NonEmptyList(s) == AList(s) /\ Len(s) \in Nat /\ Len(s) > 0

LEMMA LengthOfList == ASSUME NEW s, AList(s) PROVE Len(s) \in Nat
  BY DEF AList

LEMMA NewControllersList ==
  ASSUME args \in Arguments PROVE NonEmptyList(NewControllers)
  <1> DEFINE n == args.cpus
             d == Len(DmaPorts)
  <1>1. n \in Nat \ {0}
    BY RubyAssumption DEF Arguments
  <1>2. d \in Nat
    BY DEF DmaPorts
  <1>3. NewControllers \in {MI!Controllers(n, d, version), MESI!Controllers(n, d, version),
                            MOESI!Controllers(n, d, version)}
    <2>1. CASE args.mem_sys = "MI_example"
      BY <2>1 DEF NewControllers, ByProtocol
    <2>2. CASE args.mem_sys = "MESI_Two_Level"
      BY <2>2 DEF NewControllers, ByProtocol
    <2>3. CASE args.mem_sys \notin {"MI_example", "MESI_Two_Level"}
      BY <2>3 DEF NewControllers, ByProtocol
    <2> QED BY <2>1, <2>2, <2>3
  <1> HIDE DEF n, d
  <1> QED BY <1>1, <1>2, <1>3, ListsOfControllers, LengthOfList DEF NonEmptyList

LEMMA PairedList ==
  ASSUME NEW cs, NEW n, NEW d, NonEmptyList(cs)
  PROVE  LET new == ByProtocol(MI!WithSequencers(cs, n, d), MESI!WithSequencers(cs, n, d),
                               MOESI!WithSequencers(cs, n, d))
         IN NonEmptyList(new) /\ Len(new) = Len(cs)
  <1> DEFINE new == ByProtocol(MI!WithSequencers(cs, n, d), MESI!WithSequencers(cs, n, d),
                               MOESI!WithSequencers(cs, n, d))
  <1>1. new = [i \in 1..Len(cs) |-> new[i]]
    <2>1. CASE args.mem_sys = "MI_example"
      BY <2>1 DEF ByProtocol, MI!WithSequencers, MI!PairUp
    <2>2. CASE args.mem_sys = "MESI_Two_Level"
      BY <2>2 DEF ByProtocol, MESI!WithSequencers, MESI!PairUp
    <2>3. CASE args.mem_sys \notin {"MI_example", "MESI_Two_Level"}
      BY <2>3 DEF ByProtocol, MOESI!WithSequencers, MOESI!PairUp
    <2> QED BY <2>1, <2>2, <2>3
  <1> HIDE DEF new
  <1>2. AList(new) /\ Len(new) = Len(cs)
    BY <1>1, FunctionList DEF NonEmptyList
  <1> QED BY <1>2 DEF NonEmptyList, new

-----------------------------------------------------------------------------
(* The rows of the network.                                                *)

InRows(L, k, r, c) ==
  \A l \in L : /\ l = [id |-> l.id, src |-> l.src, dst |-> l.dst]
               /\ l.id \in 1..c /\ l.src \in 0..r-1 /\ l.dst \in 0..k-1
               /\ l.src # l.dst

Full(L, k, r) ==
  \A i \in 0..r-1, j \in 0..k-1 : i # j => \E l \in L : l.src = i /\ l.dst = j

Distinct(L) ==
  \A l, m \in L : l.id = m.id \/ (l.src = m.src /\ l.dst = m.dst) => l = m

\* The first r rows of a network of k routers, with c links.
Rows(L, k, r, c) == InRows(L, k, r, c) /\ Full(L, k, r) /\ Distinct(L)

RowLink(r, c, j) == [id |-> c + (IF j < r THEN j + 1 ELSE j), src |-> r, dst |-> j]

LEMMA SameRows ==
  ASSUME NEW k, NEW r, NEW c
  PROVE  ByProtocol(MI!RouterLinks(k, r, c), MESI!RouterLinks(k, r, c),
                    MOESI!RouterLinks(k, r, c)) = {RowLink(r, c, j) : j \in (0..k-1) \ {r}}
  <1>1. CASE args.mem_sys = "MI_example"
    BY <1>1 DEF ByProtocol, RowLink, MI!RouterLinks, MI!IntLinks
  <1>2. CASE args.mem_sys = "MESI_Two_Level"
    BY <1>2 DEF ByProtocol, RowLink, MESI!RouterLinks, MESI!IntLinks
  <1>3. CASE args.mem_sys \notin {"MI_example", "MESI_Two_Level"}
    BY <1>3 DEF ByProtocol, RowLink, MOESI!RouterLinks, MOESI!IntLinks
  <1> QED BY <1>1, <1>2, <1>3

LEMMA RowGrows ==
  ASSUME NEW L, NEW k \in Nat, NEW r \in 0..k-1, NEW c \in Nat, Rows(L, k, r, c)
  PROVE  Rows(L \cup {RowLink(r, c, j) : j \in (0..k-1) \ {r}}, k, r + 1, c + k - 1)
  <1> DEFINE New == {RowLink(r, c, j) : j \in (0..k-1) \ {r}}
             M == L \cup New
  <1>1. ASSUME NEW l \in New
        PROVE  \E j \in (0..k-1) \ {r} : l = RowLink(r, c, j)
    OBVIOUS
  <1>2. ASSUME NEW j \in (0..k-1) \ {r} PROVE RowLink(r, c, j) \in New
    OBVIOUS
  <1> HIDE DEF New
  <1>3. ASSUME NEW l \in New
        PROVE  /\ l = [id |-> l.id, src |-> l.src, dst |-> l.dst]
               /\ l.id \in c+1..c+k-1 /\ l.src = r /\ l.dst \in (0..k-1) \ {r}
               /\ l.id = c + (IF l.dst < r THEN l.dst + 1 ELSE l.dst)
    <2>1. PICK j \in (0..k-1) \ {r} : l = RowLink(r, c, j)
      BY <1>1
    <2> QED BY <2>1 DEF RowLink
  <1>4. InRows(M, k, r + 1, c + k - 1)
    <2>1. ASSUME NEW l \in L
          PROVE  /\ l = [id |-> l.id, src |-> l.src, dst |-> l.dst]
                 /\ l.id \in 1..c+k-1 /\ l.src \in 0..r /\ l.dst \in 0..k-1
                 /\ l.src # l.dst
      BY DEF Rows, InRows
    <2>2. ASSUME NEW l \in New
          PROVE  /\ l = [id |-> l.id, src |-> l.src, dst |-> l.dst]
                 /\ l.id \in 1..c+k-1 /\ l.src \in 0..r /\ l.dst \in 0..k-1
                 /\ l.src # l.dst
      BY <1>3
    <2> QED BY <2>1, <2>2 DEF InRows
  <1>5. Full(M, k, r + 1)
    <2>1. ASSUME NEW i \in 0..r, NEW j \in 0..k-1, i # j
          PROVE  \E l \in M : l.src = i /\ l.dst = j
      <3>1. CASE i = r
        <4>1. RowLink(r, c, j) \in M
          BY <1>2, <2>1, <3>1
        <4> QED BY <3>1, <4>1 DEF RowLink
      <3>2. CASE i # r
        BY <2>1, <3>2 DEF Rows, Full
      <3> QED BY <3>1, <3>2
    <2> QED BY <2>1 DEF Full
  <1>6. Distinct(M)
    <2>1. ASSUME NEW l \in M, NEW m \in M,
                 l.id = m.id \/ (l.src = m.src /\ l.dst = m.dst)
          PROVE  l = m
      <3>1. CASE l \in L /\ m \in L
        BY <2>1, <3>1 DEF Rows, Distinct
      <3>2. CASE l \in New /\ m \in New
        <4>1. l.dst = m.dst
          BY <1>3, <2>1, <3>2
        <4> QED BY <1>3, <3>2, <4>1
      <3>3. ASSUME NEW x \in L, NEW y \in New
            PROVE  x.id # y.id /\ x.src # y.src
        BY <1>3 DEF Rows, InRows
      <3> QED BY <2>1, <3>1, <3>2, <3>3
    <2> QED BY <2>1 DEF Distinct
  <1> QED BY <1>4, <1>5, <1>6 DEF Rows, New

-----------------------------------------------------------------------------
(* The invariant.                                                          *)

Before == {"initFS", "createCPU", "caches", "controllers", "sequencers", "pair", "network"}
Listed == {"sequencers", "pair", "network", "rows", "ports", "eventq", "built"}
Done == {"ports", "eventq", "built"}

IsNetwork(n) ==
  n = [virtual |-> n.virtual, routers |-> n.routers, ext_links |-> n.ext_links,
       int_links |-> n.int_links, link_count |-> n.link_count, row |-> n.row]

\* While the rows are made, those before network.row are complete.
NetworkSoFar ==
  /\ args \in Arguments
  /\ IsNetwork(network)
  /\ step \in Before =>
       network.int_links = {} /\ network.link_count = 0 /\ network.row = 0
  /\ step \in Listed => NonEmptyList(controllers)
  /\ step = "rows" =>
       /\ network.routers = Len(controllers)
       /\ network.row \in 0..network.routers-1
       /\ network.link_count \in Nat
       /\ Rows(network.int_links, network.routers, network.row, network.link_count)
  /\ step \in Done =>
       Rows(network.int_links, Len(controllers), Len(controllers), network.link_count)

LEMMA NetworkInit == Init => NetworkSoFar
  BY DEF Init, NetworkSoFar, IsNetwork, NoNetwork, Before, Listed, Done

LEMMA NetworkNext == NetworkSoFar /\ [Next]_vars => NetworkSoFar'
  <1> SUFFICES ASSUME NetworkSoFar, [Next]_vars PROVE NetworkSoFar'
    OBVIOUS
  <1> USE DEF NetworkSoFar, Before, Listed, Done
  <1>1. CASE InitFS
    BY <1>1 DEF InitFS, Make
  <1>2. CASE CreateCPU
    BY <1>2 DEF CreateCPU, Make
  <1>3. CASE ChooseCaches
    BY <1>3 DEF ChooseCaches, Make
  <1>4. CASE CreateControllers
    <2>1. NonEmptyList(NewControllers)
      BY NewControllersList
    <2>2. step' \in {"sequencers", "fatal"} /\ controllers' = NewControllers /\ args' = args
      BY <1>4 DEF CreateControllers
    <2>3. IsNetwork(network') /\ network'.int_links = network.int_links
          /\ network'.link_count = network.link_count /\ network'.row = network.row
      BY <1>4 DEF CreateControllers, IsNetwork
    <2>4. step = "controllers"
      BY <1>4 DEF CreateControllers
    <2> QED BY <2>1, <2>2, <2>3, <2>4
  <1>5. CASE CreateSequencers
    BY <1>5 DEF CreateSequencers, Make
  <1>6. CASE PairSequencers
    <2>1. NonEmptyList(controllers)'
      BY <1>6, PairedList DEF PairSequencers, Make
    <2>2. step = "pair" /\ step' = "network" /\ UNCHANGED <<args, network>>
      BY <1>6 DEF PairSequencers, Make
    <2> QED BY <2>1, <2>2
  <1>7. CASE ConnectControllers
    <2>1. step = "network" /\ step' = "rows" /\ UNCHANGED <<args, controllers>>
      BY <1>7 DEF ConnectControllers, Make
    <2>2. /\ IsNetwork(network') /\ network'.int_links = {}
          /\ network'.link_count = 0 /\ network'.row = 0
          /\ network'.routers = Len(controllers)
      BY <1>7, <2>1 DEF ConnectControllers, IsNetwork
    <2>3. Rows({}, Len(controllers), 0, 0)
      BY DEF Rows, InRows, Full, Distinct
    <2> QED BY <2>1, <2>2, <2>3 DEF NonEmptyList
  <1>8. CASE ConnectRow
    <2> DEFINE k == network.routers
               i == network.row
               c == network.link_count
    <2>1. step = "rows" /\ UNCHANGED <<args, controllers>>
          /\ step' = IF i + 1 = k THEN "ports" ELSE "rows"
      BY <1>8 DEF ConnectRow, Make
    <2>2. /\ IsNetwork(network')
          /\ network'.int_links =
               network.int_links \cup {RowLink(i, c, j) : j \in (0..k-1) \ {i}}
          /\ network'.link_count = c + k - 1 /\ network'.row = i + 1
          /\ network'.routers = k
      BY <1>8, SameRows DEF ConnectRow, IsNetwork
    <2>3. k \in Nat /\ k = Len(controllers) /\ i \in 0..k-1 /\ c \in Nat
      BY <2>1 DEF NonEmptyList
    <2>4. Rows(network'.int_links, k, i + 1, c + k - 1)
      <3> DEFINE L == network.int_links
      <3>1. Rows(L, k, i, c)
        BY <2>1
      <3> HIDE DEF L, k, i, c
      <3>2. Rows(L \cup {RowLink(i, c, j) : j \in (0..k-1) \ {i}}, k, i + 1, c + k - 1)
        BY <2>3, <3>1, RowGrows
      <3> QED BY <2>2, <3>2 DEF L
    <2> HIDE DEF k, i, c
    <2>5. c + k - 1 \in Nat
      BY <2>3
    <2>6. CASE i + 1 = k
      <3>1. Rows(network'.int_links, Len(controllers'), Len(controllers'), network'.link_count)
        BY <2>1, <2>2, <2>3, <2>4, <2>6
      <3> QED BY <2>1, <2>2, <2>6, <3>1
    <2>7. CASE i + 1 # k
      <3>1. i + 1 \in 0..k-1
        BY <2>3, <2>7
      <3> QED BY <2>1, <2>2, <2>3, <2>4, <2>5, <2>7, <3>1
    <2> QED BY <2>6, <2>7
  <1>9. CASE ConnectPorts
    BY <1>9 DEF ConnectPorts, Make
  <1>10. CASE SetEventQueues
    BY <1>10 DEF SetEventQueues, Make
  <1>11. CASE Issue \/ Hop \/ Stop \/ UNCHANGED vars
    BY <1>11 DEF Issue, Hop, Stop, vars, buildVars
  <1> QED BY <1>1, <1>2, <1>3, <1>4, <1>5, <1>6, <1>7, <1>8, <1>9, <1>10, <1>11
      DEF Next, Build

LEMMA NetworkSafe == NetworkSoFar => NetworkComplete
  <1> SUFFICES ASSUME NetworkSoFar, step \in Done PROVE NetworkComplete
    BY DEF NetworkComplete, Done
  <1> DEFINE L == network.int_links
             k == Len(controllers)
  <1>1. Rows(L, k, k, network.link_count) /\ k \in Nat
    BY DEF NetworkSoFar, NonEmptyList, Done, Listed
  <1>2. ASSUME NEW i \in 0..k-1, NEW j \in 0..k-1
        PROVE  i # j <=> \E l \in L : l.src = i /\ l.dst = j
    BY <1>1 DEF Rows, InRows, Full
  <1>3. Distinct(L)
    BY <1>1 DEF Rows
  <1> QED BY <1>2, <1>3 DEF NetworkComplete, Distinct

-----------------------------------------------------------------------------
(* What stands where in the list of controllers.                           *)

LEMMA Joined ==
  ASSUME NEW s, NEW t, AList(s), AList(t)
  PROVE  /\ \A i \in 1..Len(s) : (s \o t)[i] = s[i]
         /\ \A i \in 1..Len(t) : (s \o t)[Len(s) + i] = t[i]
  <1>1. PICK S : s \in Seq(S)
    BY DEF AList
  <1>2. PICK T : t \in Seq(T)
    BY DEF AList
  <1>3. s \in Seq(S \cup T) /\ t \in Seq(S \cup T)
    BY <1>1, <1>2
  <1> QED BY <1>3

\* The number of L2 banks, and of the networks a controller's buffers share.
L2Count == ByProtocol(0, NumL2Caches, NumL2Caches)
VirtualNetworks == ByProtocol(5, 5, 3)

IsController(c) ==
  c = [kind |-> c.kind, version |-> c.version, out |-> c.out, in |-> c.in,
       bits |-> c.bits, sequencer |-> c.sequencer]

FewBuffers(c, v) == Cardinality(c.out) <= v /\ Cardinality(c.in) <= v

\* Controllers c[1..n] of a kind, numbered from 0, before they are paired.
Unpaired(c, n, kind, v, bits) ==
  /\ AList(c) /\ Len(c) = n
  /\ \A i \in 1..n : /\ IsController(c[i]) /\ FewBuffers(c[i], v)
                     /\ c[i].kind = kind /\ c[i].version = i - 1
                     /\ c[i].bits = bits /\ c[i].sequencer = -1

LEMMA OneMore ==
  ASSUME NEW S, NEW n \in Nat, IsFiniteSet(S), Cardinality(S) \in Nat, Cardinality(S) <= n, NEW x
  PROVE  /\ IsFiniteSet(S \cup {x}) /\ Cardinality(S \cup {x}) \in Nat
         /\ Cardinality(S \cup {x}) <= n + 1
  <1>1. IsFiniteSet(S \cup {x})
        /\ Cardinality(S \cup {x}) = IF x \in S THEN Cardinality(S) ELSE Cardinality(S) + 1
    BY FS_AddElement
  <1> QED BY <1>1

LEMMA FewElements ==
  ASSUME NEW v \in {3, 5}
  PROVE  /\ Cardinality({}) <= v
         /\ \A x : Cardinality({x}) <= v
         /\ \A x, y : Cardinality({x, y}) <= v
         /\ \A x, y, z : Cardinality({x, y, z}) <= v
  <1>1. Cardinality({}) = 0
    BY FS_EmptySet
  <1>2. ASSUME NEW x PROVE IsFiniteSet({x}) /\ Cardinality({x}) = 1
    BY FS_Singleton
  <1>3. ASSUME NEW x, NEW y
        PROVE  IsFiniteSet({x, y}) /\ Cardinality({x, y}) \in Nat /\ Cardinality({x, y}) <= 2
    <2> DEFINE S == {x}
    <2>1. IsFiniteSet(S) /\ Cardinality(S) = 1
      BY <1>2
    <2>2. {x, y} = S \cup {y}
      OBVIOUS
    <2> HIDE DEF S
    <2>3. IsFiniteSet(S \cup {y}) /\ Cardinality(S \cup {y}) \in Nat /\ Cardinality(S \cup {y}) <= 1 + 1
      BY <2>1, OneMore
    <2> QED BY <2>2, <2>3
  <1>4. ASSUME NEW x, NEW y, NEW z PROVE Cardinality({x, y, z}) \in Nat /\ Cardinality({x, y, z}) <= 3
    <2> DEFINE S == {x, y}
    <2>1. IsFiniteSet(S) /\ Cardinality(S) \in Nat /\ Cardinality(S) <= 2
      BY <1>3
    <2>2. {x, y, z} = S \cup {z}
      OBVIOUS
    <2> HIDE DEF S
    <2>3. Cardinality(S \cup {z}) \in Nat /\ Cardinality(S \cup {z}) <= 2 + 1
      BY <2>1, OneMore
    <2> QED BY <2>2, <2>3
  <1>5. Cardinality({}) <= v
    BY <1>1
  <1>6. \A x : Cardinality({x}) <= v
    BY <1>2
  <1>7. \A x, y : Cardinality({x, y}) <= v
    <2> SUFFICES ASSUME NEW x, NEW y PROVE Cardinality({x, y}) <= v
      OBVIOUS
    <2>1. Cardinality({x, y}) \in Nat /\ Cardinality({x, y}) <= 2
      BY <1>3
    <2> QED BY <2>1
  <1>8. \A x, y, z : Cardinality({x, y, z}) <= v
    <2> SUFFICES ASSUME NEW x, NEW y, NEW z PROVE Cardinality({x, y, z}) <= v
      OBVIOUS
    <2>1. Cardinality({x, y, z}) \in Nat /\ Cardinality({x, y, z}) <= 3
      BY <1>4
    <2> QED BY <2>1
  <1> QED BY <1>5, <1>6, <1>7, <1>8
LEMMA NumberedIs ==
  ASSUME NEW n \in Nat, NEW c, NEW v, IsController(c), FewBuffers(c, v), c.version = 0,
         c.sequencer = -1, NEW s, s = [i \in 1..n |-> [c EXCEPT !.version = @ + i - 1]]
  PROVE  Unpaired(s, n, c.kind, v, c.bits)
  <1>1. AList(s) /\ Len(s) = n
    BY FunctionList
  <1>2. ASSUME NEW i \in 1..n
        PROVE  /\ IsController(s[i]) /\ FewBuffers(s[i], v)
               /\ s[i].kind = c.kind /\ s[i].version = i - 1
               /\ s[i].bits = c.bits /\ s[i].sequencer = -1
    <2>1. s[i] = [c EXCEPT !.version = 0 + i - 1]
      OBVIOUS
    <2>2. s[i] = [kind |-> c.kind, version |-> i - 1, out |-> c.out, in |-> c.in,
                  bits |-> c.bits, sequencer |-> c.sequencer]
      BY <2>1 DEF IsController
    <2> QED BY <2>2 DEF IsController, FewBuffers
  <1> QED BY <1>1, <1>2 DEF Unpaired

\* The L1 caches, the L2 banks, the directory and the DMA controllers, in this order.
InOrder(s, n, m, d, v, bits) ==
  /\ AList(s) /\ Len(s) = n + m + 1 + d
  /\ \A i \in 1..n+m+1+d : IsController(s[i]) /\ FewBuffers(s[i], v)
  /\ \A i \in 1..n : s[i].kind = "L1Cache" /\ s[i].version = i - 1
  /\ \A i \in 1..m : s[n+i].kind = "L2Cache" /\ s[n+i].version = i - 1 /\ s[n+i].bits = bits
  /\ s[n+m+1].kind = "Directory" /\ s[n+m+1].version = 0
  /\ \A i \in 1..d : s[n+m+1+i].kind = "DMA" /\ s[n+m+1+i].version = i - 1

NonePaired(s) == \A i \in 1..Len(s) : s[i].sequencer = -1

\* a and e, one after the other.
Both(ae, a, e, n, m) ==
  /\ AList(ae) /\ Len(ae) = n + m
  /\ \A i \in 1..n : ae[i] = a[i]
  /\ \A i \in 1..m : ae[n + i] = e[i]

\* The lists one after the other, the second of them perhaps empty.
LEMMA AllParts ==
  ASSUME NEW n \in Nat, NEW m \in Nat, NEW d \in Nat, NEW v, NEW x, NEW y, NEW z, NEW bits,
         NEW a, Unpaired(a, n, "L1Cache", v, x), NEW e, Unpaired(e, m, "L2Cache", v, bits),
         NEW ae, Both(ae, a, e, n, m),
         NEW b, Unpaired(b, 1, "Directory", v, y), NEW c, Unpaired(c, d, "DMA", v, z)
  PROVE  InOrder(ae \o b \o c, n, m, d, v, bits) /\ NonePaired(ae \o b \o c)
  <1> DEFINE aeb == ae \o b
             s == aeb \o c
  <1>1. AList(ae) /\ AList(b) /\ AList(c)
    BY DEF Unpaired, Both
  <1>2. /\ AList(aeb) /\ Len(aeb) = Len(ae) + Len(b)
        /\ \A i \in 1..Len(ae) : aeb[i] = ae[i]
        /\ \A i \in 1..Len(b) : aeb[Len(ae) + i] = b[i]
    BY <1>1, Joined, ConcatList
  <1> HIDE DEF aeb
  <1>3. /\ AList(s) /\ Len(s) = Len(aeb) + Len(c)
        /\ \A i \in 1..Len(aeb) : s[i] = aeb[i]
        /\ \A i \in 1..Len(c) : s[Len(aeb) + i] = c[i]
    <2>1. AList(aeb)
      BY <1>2
    <2> QED BY <1>1, <2>1, Joined, ConcatList
  <1> HIDE DEF s
  <1>15. Len(ae) = n + m /\ Len(b) = 1 /\ Len(c) = d
    BY DEF Unpaired, Both
  <1>4. /\ Len(aeb) = n + m + 1
        /\ \A i \in 1..n+m : aeb[i] = ae[i]
        /\ aeb[n + m + 1] = b[1]
    BY <1>2, <1>15
  <1>16. /\ Len(s) = n + m + 1 + d
         /\ \A i \in 1..n+m+1 : s[i] = aeb[i]
         /\ \A i \in 1..d : s[n + m + 1 + i] = c[i]
    BY <1>3, <1>4, <1>15
  <1>5. \A i \in 1..n : s[i] = a[i]
    BY <1>4, <1>16 DEF Both
  <1>6. \A i \in 1..m : s[n + i] = e[i]
    <2> SUFFICES ASSUME NEW i \in 1..m PROVE s[n + i] = e[i]
      OBVIOUS
    <2>1. n + i \in 1..n+m /\ n + i \in 1..n+m+1
      OBVIOUS
    <2>2. s[n + i] = aeb[n + i] /\ aeb[n + i] = ae[n + i]
      BY <1>4, <1>16, <2>1
    <2>3. ae[n + i] = e[i]
      BY DEF Both
    <2> QED BY <2>2, <2>3
  <1>7. s[n + m + 1] = b[1]
    BY <1>4, <1>16
  <1>8. \A i \in 1..n : IsController(s[i]) /\ FewBuffers(s[i], v) /\ s[i].sequencer = -1
                        /\ s[i].kind = "L1Cache" /\ s[i].version = i - 1
    BY <1>5 DEF Unpaired
  <1>9. \A i \in 1..m : IsController(s[n+i]) /\ FewBuffers(s[n+i], v)
                        /\ s[n+i].sequencer = -1 /\ s[n+i].kind = "L2Cache"
                        /\ s[n+i].version = i - 1 /\ s[n+i].bits = bits
    <2>1. \A i \in 1..m : IsController(e[i]) /\ FewBuffers(e[i], v) /\ e[i].sequencer = -1
                          /\ e[i].kind = "L2Cache" /\ e[i].version = i - 1 /\ e[i].bits = bits
      BY DEF Unpaired
    <2> QED BY <1>6, <2>1
  <1>10. /\ IsController(s[n+m+1]) /\ FewBuffers(s[n+m+1], v) /\ s[n+m+1].sequencer = -1
         /\ s[n+m+1].kind = "Directory" /\ s[n+m+1].version = 0
    BY <1>7 DEF Unpaired
  <1>11. \A i \in 1..d : IsController(s[n+m+1+i]) /\ FewBuffers(s[n+m+1+i], v)
                         /\ s[n+m+1+i].sequencer = -1 /\ s[n+m+1+i].kind = "DMA"
                         /\ s[n+m+1+i].version = i - 1
    <2>1. \A i \in 1..d : IsController(c[i]) /\ FewBuffers(c[i], v) /\ c[i].sequencer = -1
                          /\ c[i].kind = "DMA" /\ c[i].version = i - 1
      BY DEF Unpaired
    <2>2. \A i \in 1..d : s[n + m + 1 + i] = c[i]
      BY <1>16
    <2> QED BY <2>1, <2>2
  <1>12. ASSUME NEW i \in 1..n+m+1+d
         PROVE  IsController(s[i]) /\ FewBuffers(s[i], v) /\ s[i].sequencer = -1
    <2>1. CASE i \in 1..n
      BY <1>8, <2>1
    <2>2. CASE i - n \in 1..m
      <3>1. i = n + (i - n)
        OBVIOUS
      <3> QED BY <1>9, <2>2, <3>1
    <2>3. CASE i = n + m + 1
      BY <1>10, <2>3
    <2>4. CASE i - n - m - 1 \in 1..d
      <3>1. i = n + m + 1 + (i - n - m - 1)
        OBVIOUS
      <3> QED BY <1>11, <2>4, <3>1
    <2> QED BY <2>1, <2>2, <2>3, <2>4
  <1>13. InOrder(s, n, m, d, v, bits)
    BY <1>3, <1>16, <1>8, <1>9, <1>10, <1>11, <1>12 DEF InOrder
  <1>14. NonePaired(s)
    BY <1>16, <1>12 DEF NonePaired
  <1> QED BY <1>13, <1>14 DEF s, aeb

LEMMA WithL2 ==
  ASSUME NEW n \in Nat, NEW m \in Nat, NEW d \in Nat, NEW v, NEW x, NEW y, NEW z, NEW bits,
         NEW a, Unpaired(a, n, "L1Cache", v, x), NEW e, Unpaired(e, m, "L2Cache", v, bits),
         NEW b, Unpaired(b, 1, "Directory", v, y), NEW c, Unpaired(c, d, "DMA", v, z)
  PROVE  InOrder(a \o e \o b \o c, n, m, d, v, bits) /\ NonePaired(a \o e \o b \o c)
  <1> DEFINE ae == a \o e
  <1>1. AList(a) /\ AList(e)
    BY DEF Unpaired
  <1>2. /\ AList(ae) /\ Len(ae) = Len(a) + Len(e)
        /\ \A i \in 1..Len(a) : ae[i] = a[i]
        /\ \A i \in 1..Len(e) : ae[Len(a) + i] = e[i]
    BY <1>1, Joined, ConcatList
  <1> HIDE DEF ae
  <1>3. Len(a) = n /\ Len(e) = m
    BY DEF Unpaired
  <1>4. Both(ae, a, e, n, m)
    BY <1>2, <1>3 DEF Both
  <1>5. InOrder(ae \o b \o c, n, m, d, v, bits) /\ NonePaired(ae \o b \o c)
    BY <1>4, AllParts
  <1> QED BY <1>5 DEF ae

LEMMA WithoutL2 ==
  ASSUME NEW n \in Nat, NEW d \in Nat, NEW v, NEW x, NEW y, NEW z, NEW bits,
         NEW a, Unpaired(a, n, "L1Cache", v, x), NEW b, Unpaired(b, 1, "Directory", v, y),
         NEW c, Unpaired(c, d, "DMA", v, z)
  PROVE  InOrder(a \o b \o c, n, 0, d, v, bits) /\ NonePaired(a \o b \o c)
  <1>1. Unpaired(<< >>, 0, "L2Cache", v, bits)
    BY DEF Unpaired, AList
  <1>2. Both(a, a, << >>, n, 0)
    BY DEF Unpaired, Both
  <1> QED BY <1>1, <1>2, AllParts
-----------------------------------------------------------------------------
(* What each protocol's class makes is in this order.                      *)

L2Bits == {LineBits + MESI!Log2(NumL2Caches)}
Unmade == [L1Cache |-> 0, L2Cache |-> 0, Directory |-> 0, DMA |-> 0]

LEMMA PartsOfMI ==
  ASSUME NEW n \in Nat, NEW d \in Nat
  PROVE  /\ Unpaired(MI!Numbered(MI!L1Cache(0), n), n, "L1Cache", 5, {LineBits})
         /\ Unpaired(MI!Numbered(MI!DirController(0), 1), 1, "Directory", 5, {})
         /\ Unpaired(MI!Numbered(MI!DMAController(0), d), d, "DMA", 5, {})
  <1>1. Unpaired(MI!Numbered(MI!L1Cache(0), n), n, "L1Cache", 5, {LineBits})
    <2> DEFINE c == MI!L1Cache(0)
    <2>1. IsController(c) /\ FewBuffers(c, 5) /\ c.version = 0 /\ c.sequencer = -1
          /\ c.kind = "L1Cache" /\ c.bits = {LineBits}
      BY FewElements
         DEF MI!L1Cache, MI!Controller, IsController, FewBuffers, MI!BlockSizeBits
    <2> HIDE DEF c
    <2>2. Unpaired(MI!Numbered(c, n), n, c.kind, 5, c.bits)
      BY <2>1, NumberedIs DEF MI!Numbered
    <2> QED BY <2>1, <2>2 DEF c
  <1>2. Unpaired(MI!Numbered(MI!DirController(0), 1), 1, "Directory", 5, {})
    <2> DEFINE c == MI!DirController(0)
    <2>1. IsController(c) /\ FewBuffers(c, 5) /\ c.version = 0 /\ c.sequencer = -1
          /\ c.kind = "Directory" /\ c.bits = {}
      BY FewElements
         DEF MI!DirController, MI!Controller, IsController, FewBuffers
    <2> HIDE DEF c
    <2>2. Unpaired(MI!Numbered(c, 1), 1, c.kind, 5, c.bits)
      BY <2>1, NumberedIs DEF MI!Numbered
    <2> QED BY <2>1, <2>2 DEF c
  <1>3. Unpaired(MI!Numbered(MI!DMAController(0), d), d, "DMA", 5, {})
    <2> DEFINE c == MI!DMAController(0)
    <2>1. IsController(c) /\ FewBuffers(c, 5) /\ c.version = 0 /\ c.sequencer = -1
          /\ c.kind = "DMA" /\ c.bits = {}
      BY FewElements
         DEF MI!DMAController, MI!Controller, IsController, FewBuffers
    <2> HIDE DEF c
    <2>2. Unpaired(MI!Numbered(c, d), d, c.kind, 5, c.bits)
      BY <2>1, NumberedIs DEF MI!Numbered
    <2> QED BY <2>1, <2>2 DEF c
  <1> QED BY <1>1, <1>2, <1>3

LEMMA PartsOfMESI ==
  ASSUME NEW n \in Nat, NEW m \in Nat, NEW d \in Nat
  PROVE  /\ Unpaired(MESI!Numbered(MESI!L1Cache(0), n), n, "L1Cache", 5, {LineBits})
         /\ Unpaired(MESI!Numbered(MESI!L2Cache(0), m), m, "L2Cache", 5, L2Bits)
         /\ Unpaired(MESI!Numbered(MESI!DirController(0), 1), 1, "Directory", 5, {})
         /\ Unpaired(MESI!Numbered(MESI!DMAController(0), d), d, "DMA", 5, {})
  <1>1. Unpaired(MESI!Numbered(MESI!L1Cache(0), n), n, "L1Cache", 5, {LineBits})
    <2> DEFINE c == MESI!L1Cache(0)
    <2>1. IsController(c) /\ FewBuffers(c, 5) /\ c.version = 0 /\ c.sequencer = -1
          /\ c.kind = "L1Cache" /\ c.bits = {LineBits}
      BY FewElements
         DEF MESI!L1Cache, MESI!Controller, IsController, FewBuffers
    <2> HIDE DEF c
    <2>2. Unpaired(MESI!Numbered(c, n), n, c.kind, 5, c.bits)
      BY <2>1, NumberedIs DEF MESI!Numbered
    <2> QED BY <2>1, <2>2 DEF c
  <1>2. Unpaired(MESI!Numbered(MESI!L2Cache(0), m), m, "L2Cache", 5, L2Bits)
    <2> DEFINE c == MESI!L2Cache(0)
    <2>1. IsController(c) /\ FewBuffers(c, 5) /\ c.version = 0 /\ c.sequencer = -1
          /\ c.kind = "L2Cache" /\ c.bits = L2Bits
      BY FewElements
         DEF MESI!L2Cache, MESI!Controller, IsController, FewBuffers, L2Bits, MESI!L2BlockSizeBits
    <2> HIDE DEF c
    <2>2. Unpaired(MESI!Numbered(c, m), m, c.kind, 5, c.bits)
      BY <2>1, NumberedIs DEF MESI!Numbered
    <2> QED BY <2>1, <2>2 DEF c
  <1>3. Unpaired(MESI!Numbered(MESI!DirController(0), 1), 1, "Directory", 5, {})
    <2> DEFINE c == MESI!DirController(0)
    <2>1. IsController(c) /\ FewBuffers(c, 5) /\ c.version = 0 /\ c.sequencer = -1
          /\ c.kind = "Directory" /\ c.bits = {}
      BY FewElements
         DEF MESI!DirController, MESI!Controller, IsController, FewBuffers
    <2> HIDE DEF c
    <2>2. Unpaired(MESI!Numbered(c, 1), 1, c.kind, 5, c.bits)
      BY <2>1, NumberedIs DEF MESI!Numbered
    <2> QED BY <2>1, <2>2 DEF c
  <1>4. Unpaired(MESI!Numbered(MESI!DMAController(0), d), d, "DMA", 5, {})
    <2> DEFINE c == MESI!DMAController(0)
    <2>1. IsController(c) /\ FewBuffers(c, 5) /\ c.version = 0 /\ c.sequencer = -1
          /\ c.kind = "DMA" /\ c.bits = {}
      BY FewElements
         DEF MESI!DMAController, MESI!Controller, IsController, FewBuffers
    <2> HIDE DEF c
    <2>2. Unpaired(MESI!Numbered(c, d), d, c.kind, 5, c.bits)
      BY <2>1, NumberedIs DEF MESI!Numbered
    <2> QED BY <2>1, <2>2 DEF c
  <1> QED BY <1>1, <1>2, <1>3, <1>4

LEMMA PartsOfMOESI ==
  ASSUME NEW n \in Nat, NEW m \in Nat, NEW d \in Nat
  PROVE  /\ Unpaired(MOESI!Numbered(MOESI!L1Cache(0), n), n, "L1Cache", 3, {LineBits})
         /\ Unpaired(MOESI!Numbered(MOESI!L2Cache(0), m), m, "L2Cache", 3, L2Bits)
         /\ Unpaired(MOESI!Numbered(MOESI!DirController(0), 1), 1, "Directory", 3, {})
         /\ Unpaired(MOESI!Numbered(MOESI!DMAController(0), d), d, "DMA", 3, {})
  <1>1. Unpaired(MOESI!Numbered(MOESI!L1Cache(0), n), n, "L1Cache", 3, {LineBits})
    <2> DEFINE c == MOESI!L1Cache(0)
    <2>1. IsController(c) /\ FewBuffers(c, 3) /\ c.version = 0 /\ c.sequencer = -1
          /\ c.kind = "L1Cache" /\ c.bits = {LineBits}
      BY FewElements
         DEF MOESI!L1Cache, MOESI!Controller, IsController, FewBuffers
    <2> HIDE DEF c
    <2>2. Unpaired(MOESI!Numbered(c, n), n, c.kind, 3, c.bits)
      BY <2>1, NumberedIs DEF MOESI!Numbered
    <2> QED BY <2>1, <2>2 DEF c
  <1>2. Unpaired(MOESI!Numbered(MOESI!L2Cache(0), m), m, "L2Cache", 3, L2Bits)
    <2> DEFINE c == MOESI!L2Cache(0)
    <2>1. IsController(c) /\ FewBuffers(c, 3) /\ c.version = 0 /\ c.sequencer = -1
          /\ c.kind = "L2Cache" /\ c.bits = L2Bits
      BY FewElements
         DEF MOESI!L2Cache, MOESI!Controller, IsController, FewBuffers, L2Bits, MOESI!L2StartIdx, MOESI!Log2, MESI!Log2
    <2> HIDE DEF c
    <2>2. Unpaired(MOESI!Numbered(c, m), m, c.kind, 3, c.bits)
      BY <2>1, NumberedIs DEF MOESI!Numbered
    <2> QED BY <2>1, <2>2 DEF c
  <1>3. Unpaired(MOESI!Numbered(MOESI!DirController(0), 1), 1, "Directory", 3, {})
    <2> DEFINE c == MOESI!DirController(0)
    <2>1. IsController(c) /\ FewBuffers(c, 3) /\ c.version = 0 /\ c.sequencer = -1
          /\ c.kind = "Directory" /\ c.bits = {}
      BY FewElements
         DEF MOESI!DirController, MOESI!Controller, IsController, FewBuffers
    <2> HIDE DEF c
    <2>2. Unpaired(MOESI!Numbered(c, 1), 1, c.kind, 3, c.bits)
      BY <2>1, NumberedIs DEF MOESI!Numbered
    <2> QED BY <2>1, <2>2 DEF c
  <1>4. Unpaired(MOESI!Numbered(MOESI!DMAController(0), d), d, "DMA", 3, {})
    <2> DEFINE c == MOESI!DMAController(0)
    <2>1. IsController(c) /\ FewBuffers(c, 3) /\ c.version = 0 /\ c.sequencer = -1
          /\ c.kind = "DMA" /\ c.bits = {}
      BY FewElements
         DEF MOESI!DMAController, MOESI!Controller, IsController, FewBuffers
    <2> HIDE DEF c
    <2>2. Unpaired(MOESI!Numbered(c, d), d, c.kind, 3, c.bits)
      BY <2>1, NumberedIs DEF MOESI!Numbered
    <2> QED BY <2>1, <2>2 DEF c
  <1> QED BY <1>1, <1>2, <1>3, <1>4

\* The controllers of a system of n CPUs and d DMA controllers, numbered and in order.
LEMMA NewInOrder ==
  ASSUME args \in Arguments, version = Unmade
  PROVE  /\ InOrder(NewControllers, args.cpus, L2Count, Len(DmaPorts), VirtualNetworks, L2Bits)
         /\ NonePaired(NewControllers)
  <1> DEFINE n == args.cpus
             d == Len(DmaPorts)
             m == NumL2Caches
  <1>1. n \in Nat /\ d \in Nat /\ m \in Nat
    BY RubyAssumption DEF Arguments, DmaPorts
  <1>2. version.L1Cache = 0 /\ version.L2Cache = 0 /\ version.Directory = 0 /\ version.DMA = 0
    BY DEF Unmade
  <1> HIDE DEF n, d, m
  <1>3. InOrder(MI!Controllers(n, d, version), n, 0, d, 5, L2Bits)
        /\ NonePaired(MI!Controllers(n, d, version))
    <2> DEFINE a == MI!Numbered(MI!L1Cache(0), n)
               b == MI!Numbered(MI!DirController(0), 1)
               c == MI!Numbered(MI!DMAController(0), d)
    <2>1. /\ Unpaired(a, n, "L1Cache", 5, {LineBits}) /\ Unpaired(b, 1, "Directory", 5, {})
          /\ Unpaired(c, d, "DMA", 5, {})
      BY <1>1, PartsOfMI
    <2>2. MI!Controllers(n, d, version) = a \o b \o c
      BY <1>2 DEF MI!Controllers
    <2> HIDE DEF a, b, c
    <2>3. InOrder(a \o b \o c, n, 0, d, 5, L2Bits) /\ NonePaired(a \o b \o c)
      BY <1>1, <2>1, WithoutL2
    <2> QED BY <2>2, <2>3
  <1>4. InOrder(MESI!Controllers(n, d, version), n, m, d, 5, L2Bits)
        /\ NonePaired(MESI!Controllers(n, d, version))
    <2> DEFINE a == MESI!Numbered(MESI!L1Cache(0), n)
               e == MESI!Numbered(MESI!L2Cache(0), m)
               b == MESI!Numbered(MESI!DirController(0), 1)
               c == MESI!Numbered(MESI!DMAController(0), d)
    <2>1. /\ Unpaired(a, n, "L1Cache", 5, {LineBits}) /\ Unpaired(e, m, "L2Cache", 5, L2Bits)
          /\ Unpaired(b, 1, "Directory", 5, {}) /\ Unpaired(c, d, "DMA", 5, {})
      BY <1>1, PartsOfMESI
    <2>2. MESI!Controllers(n, d, version) = a \o e \o b \o c
      BY <1>2 DEF MESI!Controllers, m
    <2> HIDE DEF a, b, c, e
    <2>3. InOrder(a \o e \o b \o c, n, m, d, 5, L2Bits) /\ NonePaired(a \o e \o b \o c)
      BY <1>1, <2>1, WithL2
    <2> QED BY <2>2, <2>3
  <1>5. InOrder(MOESI!Controllers(n, d, version), n, m, d, 3, L2Bits)
        /\ NonePaired(MOESI!Controllers(n, d, version))
    <2> DEFINE a == MOESI!Numbered(MOESI!L1Cache(0), n)
               e == MOESI!Numbered(MOESI!L2Cache(0), m)
               b == MOESI!Numbered(MOESI!DirController(0), 1)
               c == MOESI!Numbered(MOESI!DMAController(0), d)
    <2>1. /\ Unpaired(a, n, "L1Cache", 3, {LineBits}) /\ Unpaired(e, m, "L2Cache", 3, L2Bits)
          /\ Unpaired(b, 1, "Directory", 3, {}) /\ Unpaired(c, d, "DMA", 3, {})
      BY <1>1, PartsOfMOESI
    <2>2. MOESI!Controllers(n, d, version) = a \o e \o b \o c
      BY <1>2 DEF MOESI!Controllers, m
    <2> HIDE DEF a, b, c, e
    <2>3. InOrder(a \o e \o b \o c, n, m, d, 3, L2Bits) /\ NonePaired(a \o e \o b \o c)
      BY <1>1, <2>1, WithL2
    <2> QED BY <2>2, <2>3
  <1>6. CASE args.mem_sys = "MI_example"
    BY <1>3, <1>6 DEF NewControllers, ByProtocol, L2Count, VirtualNetworks, n, d
  <1>7. CASE args.mem_sys = "MESI_Two_Level"
    BY <1>4, <1>7 DEF NewControllers, ByProtocol, L2Count, VirtualNetworks, n, d, m
  <1>8. CASE args.mem_sys \notin {"MI_example", "MESI_Two_Level"}
    BY <1>5, <1>8 DEF NewControllers, ByProtocol, L2Count, VirtualNetworks, n, d, m
  <1> QED BY <1>6, <1>7, <1>8
-----------------------------------------------------------------------------
(* Controllers and sequencers are paired.                                  *)

\* The sequencer in front of controller i of k.
InFront(i, k, n, d) ==
  IF i <= n THEN i - 1 ELSE IF i > k - d THEN i - 1 - (k - d) + n ELSE -1

Paired(s, n, d) == \A i \in 1..Len(s) : s[i].sequencer = InFront(i, Len(s), n, d)

PairOf(cs, n, d) ==
  [i \in 1..Len(cs) |->
     IF i <= n \/ i > Len(cs) - d
     THEN [cs[i] EXCEPT !.sequencer = InFront(i, Len(cs), n, d)] ELSE cs[i]]

LEMMA SamePairs ==
  ASSUME NEW cs, NEW n \in Nat, NEW d \in Nat, Len(cs) \in Nat
  PROVE  ByProtocol(MI!WithSequencers(cs, n, d), MESI!WithSequencers(cs, n, d),
                    MOESI!WithSequencers(cs, n, d)) = PairOf(cs, n, d)
  <1>1. MI!WithSequencers(cs, n, d) = PairOf(cs, n, d)
    BY DEF MI!WithSequencers, MI!PairUp, PairOf, InFront
  <1>2. MESI!WithSequencers(cs, n, d) = PairOf(cs, n, d)
    BY DEF MESI!WithSequencers, MESI!PairUp, PairOf, InFront
  <1>3. MOESI!WithSequencers(cs, n, d) = PairOf(cs, n, d)
    BY DEF MOESI!WithSequencers, MOESI!PairUp, PairOf, InFront
  <1> QED BY <1>1, <1>2, <1>3 DEF ByProtocol

LEMMA PairKeepsOrder ==
  ASSUME NEW cs, NEW n \in Nat, NEW m \in Nat, NEW d \in Nat, NEW v, NEW bits,
         InOrder(cs, n, m, d, v, bits), NonePaired(cs)
  PROVE  InOrder(PairOf(cs, n, d), n, m, d, v, bits) /\ Paired(PairOf(cs, n, d), n, d)
  <1> DEFINE k == n + m + 1 + d
             new == PairOf(cs, n, d)
  <1>1. Len(cs) = k /\ k \in Nat /\ \A i \in 1..k : IsController(cs[i])
    BY DEF InOrder
  <1>2. new = [i \in 1..k |-> new[i]]
    BY <1>1 DEF PairOf
  <1>3. AList(new) /\ Len(new) = k
    <2> HIDE DEF new, k
    <2> QED BY <1>1, <1>2, FunctionList
  <1>4. ASSUME NEW i \in 1..k
        PROVE  /\ IsController(new[i]) /\ new[i].kind = cs[i].kind
               /\ new[i].version = cs[i].version /\ new[i].out = cs[i].out
               /\ new[i].in = cs[i].in /\ new[i].bits = cs[i].bits
               /\ new[i].sequencer = InFront(i, k, n, d)
    <2>1. CASE i <= n \/ i > k - d
      <3>1. new[i] = [cs[i] EXCEPT !.sequencer = InFront(i, k, n, d)]
        BY <1>1, <2>1 DEF PairOf
      <3>2. IsController(cs[i])
        BY <1>1
      <3> HIDE DEF new, k
      <3>3. new[i] = [kind |-> cs[i].kind, version |-> cs[i].version, out |-> cs[i].out,
                      in |-> cs[i].in, bits |-> cs[i].bits, sequencer |-> InFront(i, k, n, d)]
        BY <3>1, <3>2 DEF IsController
      <3> QED BY <3>3 DEF IsController
    <2>2. CASE ~(i <= n \/ i > k - d)
      <3>1. new[i] = cs[i]
        BY <1>1, <2>2 DEF PairOf
      <3>2. InFront(i, k, n, d) = -1
        BY <2>2 DEF InFront
      <3>3. IsController(cs[i]) /\ cs[i].sequencer = -1
        BY <1>1 DEF NonePaired
      <3> QED BY <3>1, <3>2, <3>3
    <2> QED BY <2>1, <2>2
  <1> HIDE DEF new
  <1>5. Paired(new, n, d)
    BY <1>3, <1>4 DEF Paired
  <1>6. \A i \in 1..k : IsController(new[i]) /\ FewBuffers(new[i], v)
    BY <1>4 DEF InOrder, FewBuffers
  <1>7. ASSUME NEW i \in 1..n PROVE new[i].kind = "L1Cache" /\ new[i].version = i - 1
    <2>1. i \in 1..k
      OBVIOUS
    <2>2. cs[i].kind = "L1Cache" /\ cs[i].version = i - 1
      BY DEF InOrder
    <2> QED BY <1>4, <2>1, <2>2
  <1>8. ASSUME NEW i \in 1..m
        PROVE  new[n+i].kind = "L2Cache" /\ new[n+i].version = i - 1 /\ new[n+i].bits = bits
    <2>1. n + i \in 1..k
      OBVIOUS
    <2>2. cs[n+i].kind = "L2Cache" /\ cs[n+i].version = i - 1 /\ cs[n+i].bits = bits
      BY DEF InOrder
    <2> QED BY <1>4, <2>1, <2>2
  <1>9. new[n+m+1].kind = "Directory" /\ new[n+m+1].version = 0
    <2>1. n + m + 1 \in 1..k
      OBVIOUS
    <2> QED BY <1>4, <2>1 DEF InOrder
  <1>10. ASSUME NEW i \in 1..d PROVE new[n+m+1+i].kind = "DMA" /\ new[n+m+1+i].version = i - 1
    <2>1. n + m + 1 + i \in 1..k
      OBVIOUS
    <2>2. cs[n+m+1+i].kind = "DMA" /\ cs[n+m+1+i].version = i - 1
      BY DEF InOrder
    <2> QED BY <1>4, <2>1, <2>2
  <1>11. InOrder(new, n, m, d, v, bits)
    BY <1>3, <1>6, <1>7, <1>8, <1>9, <1>10 DEF InOrder
  <1> QED BY <1>5, <1>11 DEF new

\* The sequencers: one for each CPU, then one for each DMA controller.
CoresThenDma(s, n, d) ==
  /\ Len(s) = n + d
  /\ \A i \in 1..n : s[i] = [kind |-> "core", version |-> i - 1]
  /\ \A i \in 1..d : s[n + i] = [kind |-> "dma", version |-> i - 1]

LEMMA SameSequencers ==
  ASSUME NEW n \in Nat, NEW d \in Nat
  PROVE  CoresThenDma(ByProtocol(MI!Sequencers(n, d), MESI!Sequencers(n, d),
                                 MOESI!Sequencers(n, d)), n, d)
  <1> DEFINE a == [i \in 1..n |-> [kind |-> "core", version |-> i - 1]]
             b == [i \in 1..d |-> [kind |-> "dma", version |-> i - 1]]
             s == a \o b
  <1>1. AList(a) /\ Len(a) = n
    <2>1. a = [i \in 1..n |-> a[i]]
      OBVIOUS
    <2> HIDE DEF a
    <2> QED BY <2>1, FunctionList
  <1>2. AList(b) /\ Len(b) = d
    <2>1. b = [i \in 1..d |-> b[i]]
      OBVIOUS
    <2> HIDE DEF b
    <2> QED BY <2>1, FunctionList
  <1>3. /\ \A i \in 1..n : a[i] = [kind |-> "core", version |-> i - 1]
        /\ \A i \in 1..d : b[i] = [kind |-> "dma", version |-> i - 1]
    OBVIOUS
  <1> HIDE DEF a, b
  <1>4. /\ Len(s) = Len(a) + Len(b)
        /\ \A i \in 1..Len(a) : s[i] = a[i]
        /\ \A i \in 1..Len(b) : s[Len(a) + i] = b[i]
    <2>1. AList(a) /\ AList(b)
      BY <1>1, <1>2
    <2> QED BY <2>1, Joined, ConcatList
  <1>5. ByProtocol(MI!Sequencers(n, d), MESI!Sequencers(n, d), MOESI!Sequencers(n, d)) = s
    BY DEF ByProtocol, MI!Sequencers, MI!CoreSequencers, MI!DmaSequencers,
           MESI!Sequencers, MESI!CoreSequencers, MESI!DmaSequencers,
           MOESI!Sequencers, MOESI!CoreSequencers, MOESI!DmaSequencers, a, b
  <1> HIDE DEF s
  <1>6. /\ Len(s) = n + d
        /\ \A i \in 1..n : s[i] = [kind |-> "core", version |-> i - 1]
        /\ \A i \in 1..d : s[n + i] = [kind |-> "dma", version |-> i - 1]
    BY <1>1, <1>2, <1>3, <1>4
  <1> QED BY <1>5, <1>6 DEF CoresThenDma
\* Where the controllers of each kind stand.
KindsApart(cs, n, m, d) ==
  /\ OfKind(cs, "L1Cache") = 1..n
  /\ OfKind(cs, "L2Cache") = n+1..n+m
  /\ OfKind(cs, "Directory") = n+m+1..n+m+1
  /\ OfKind(cs, "DMA") = n+m+2..n+m+1+d

LEMMA KindsAre ==
  ASSUME NEW cs, NEW n \in Nat, NEW m \in Nat, NEW d \in Nat, NEW v, NEW bits,
         InOrder(cs, n, m, d, v, bits)
  PROVE  KindsApart(cs, n, m, d)
  <1> DEFINE k == n + m + 1 + d
  <1>1. Len(cs) = k
    BY DEF InOrder
  <1>2. \A i \in 1..n : cs[i].kind = "L1Cache"
    BY DEF InOrder
  <1>3. \A i \in n+1..n+m : cs[i].kind = "L2Cache"
    <2> SUFFICES ASSUME NEW i \in n+1..n+m PROVE cs[i].kind = "L2Cache"
      OBVIOUS
    <2>1. i - n \in 1..m /\ n + (i - n) = i
      OBVIOUS
    <2>2. cs[n + (i - n)].kind = "L2Cache"
      BY <2>1 DEF InOrder
    <2> QED BY <2>1, <2>2
  <1>4. cs[n+m+1].kind = "Directory"
    BY DEF InOrder
  <1>5. \A i \in n+m+2..k : cs[i].kind = "DMA"
    <2> SUFFICES ASSUME NEW i \in n+m+2..k PROVE cs[i].kind = "DMA"
      OBVIOUS
    <2> DEFINE j == i - n - m - 1
    <2>1. j \in 1..d /\ n + m + 1 + j = i
      OBVIOUS
    <2>2. \A x \in 1..d : cs[n + m + 1 + x].kind = "DMA"
      BY DEF InOrder
    <2>3. cs[n + m + 1 + j].kind = "DMA"
      BY <2>1, <2>2
    <2> QED BY <2>1, <2>3
  <1>6. 1..k = (1..n) \cup (n+1..n+m) \cup {n+m+1} \cup (n+m+2..k)
    OBVIOUS
  <1>7. OfKind(cs, "L1Cache") = 1..n /\ OfKind(cs, "L2Cache") = n+1..n+m
    BY <1>1, <1>2, <1>3, <1>4, <1>5, <1>6 DEF OfKind
  <1>8. OfKind(cs, "Directory") = n+m+1..n+m+1 /\ OfKind(cs, "DMA") = n+m+2..k
    BY <1>1, <1>2, <1>3, <1>4, <1>5, <1>6 DEF OfKind
  <1> QED BY <1>7, <1>8 DEF KindsApart

\* The number of controllers of a kind is the length of its stretch.
IsStretch(cs, S, a, q) ==
  /\ a \in Int /\ q \in Nat /\ S = a+1..a+q
  /\ \A i \in 1..q : cs[a+i].version = i - 1

LEMMA Stretch ==
  ASSUME NEW cs, NEW S, NEW a, NEW q, IsStretch(cs, S, a, q)
  PROVE  {cs[i].version : i \in S} = 0..Cardinality(S)-1
  <1>0. /\ a \in Int /\ q \in Nat /\ S = a+1..a+q
        /\ \A i \in 1..q : cs[a+i].version = i - 1
    BY DEF IsStretch
  <1>1. Cardinality(S) = q
    <2> DEFINE x == a + 1
               y == a + q
    <2>1. x \in Int /\ y \in Int
      BY <1>0
    <2> HIDE DEF x, y
    <2>2. Cardinality(x..y) = IF x > y THEN 0 ELSE y - x + 1
      BY <2>1, FS_Interval
    <2> USE DEF x, y
    <2>3. S = x..y /\ (IF x > y THEN 0 ELSE y - x + 1) = q
      BY <1>0
    <2> HIDE DEF x, y
    <2> QED BY <2>2, <2>3
  <1>2. ASSUME NEW i \in S PROVE cs[i].version \in 0..q-1
    <2> DEFINE x == i - a
    <2>1. x \in 1..q /\ a + x = i
      BY <1>0
    <2> HIDE DEF x
    <2>2. cs[a + x].version = x - 1
      BY <1>0, <2>1
    <2> QED BY <1>0, <2>1, <2>2
  <1>3. ASSUME NEW j \in 0..q-1 PROVE \E i \in S : cs[i].version = j
    <2> DEFINE x == j + 1
    <2>1. x \in 1..q /\ a + x \in S /\ x - 1 = j
      BY <1>0
    <2> HIDE DEF x
    <2>2. cs[a + x].version = x - 1
      BY <1>0, <2>1
    <2> QED BY <2>1, <2>2
  <1> QED BY <1>1, <1>2, <1>3

LEMMA NumberedFromZero ==
  ASSUME NEW cs, NEW n \in Nat, NEW m \in Nat, NEW d \in Nat, NEW v, NEW bits,
         InOrder(cs, n, m, d, v, bits), NEW kind \in Kinds
  PROVE  {cs[i].version : i \in OfKind(cs, kind)} = 0..Cardinality(OfKind(cs, kind))-1
  <1>1. /\ OfKind(cs, "L1Cache") = 1..n
        /\ OfKind(cs, "L2Cache") = n+1..n+m
        /\ OfKind(cs, "Directory") = n+m+1..n+m+1
        /\ OfKind(cs, "DMA") = n+m+2..n+m+1+d
    <2>1. KindsApart(cs, n, m, d)
      BY KindsAre
    <2> QED BY <2>1 DEF KindsApart
  <1>2. CASE kind = "L1Cache"
    <2> DEFINE a == 0
               S == OfKind(cs, kind)
    <2>1. a \in Int /\ S = a+1..a+n
      BY <1>1, <1>2
    <2>2. \A i \in 1..n : cs[a + i].version = i - 1
      BY DEF InOrder
    <2> HIDE DEF a, S
    <2>3. IsStretch(cs, S, a, n)
      BY <2>1, <2>2 DEF IsStretch
    <2>4. {cs[i].version : i \in S} = 0..Cardinality(S)-1
      BY <2>3, Stretch
    <2> QED BY <2>4 DEF S
  <1>3. CASE kind = "L2Cache"
    <2> DEFINE a == n
               S == OfKind(cs, kind)
    <2>1. a \in Int /\ S = a+1..a+m
      BY <1>1, <1>3
    <2>2. \A i \in 1..m : cs[a + i].version = i - 1
      BY DEF InOrder
    <2> HIDE DEF a, S
    <2>3. IsStretch(cs, S, a, m)
      BY <2>1, <2>2 DEF IsStretch
    <2>4. {cs[i].version : i \in S} = 0..Cardinality(S)-1
      BY <2>3, Stretch
    <2> QED BY <2>4 DEF S
  <1>4. CASE kind = "Directory"
    <2> DEFINE a == n + m
               S == OfKind(cs, kind)
    <2>1. a \in Int /\ S = a+1..a+1
      BY <1>1, <1>4
    <2>2. \A i \in 1..1 : cs[a + i].version = i - 1
      BY DEF InOrder
    <2> HIDE DEF a, S
    <2>3. IsStretch(cs, S, a, 1)
      BY <2>1, <2>2 DEF IsStretch
    <2>4. {cs[i].version : i \in S} = 0..Cardinality(S)-1
      BY <2>3, Stretch
    <2> QED BY <2>4 DEF S
  <1>5. CASE kind = "DMA"
    <2> DEFINE a == n + m + 1
               S == OfKind(cs, kind)
    <2>1. a \in Int /\ S = a+1..a+d
      BY <1>1, <1>5
    <2>2. \A i \in 1..d : cs[a + i].version = i - 1
      BY DEF InOrder
    <2> HIDE DEF a, S
    <2>3. IsStretch(cs, S, a, d)
      BY <2>1, <2>2 DEF IsStretch
    <2>4. {cs[i].version : i \in S} = 0..Cardinality(S)-1
      BY <2>3, Stretch
    <2> QED BY <2>4 DEF S
  <1> QED BY <1>2, <1>3, <1>4, <1>5 DEF Kinds

\* One controller is behind sequencer s: the one of its number and sort.
HasItsController(cs, ss, s) ==
  \E i \in OfKind(cs, IF ss[s].kind = "core" THEN "L1Cache" ELSE "DMA") :
     /\ cs[i].version = ss[s].version
     /\ {j \in 1..Len(cs) : cs[j].sequencer = s - 1} = {i}

LEMMA EachHasItsSequencer ==
  ASSUME NEW cs, NEW n \in Nat, NEW m \in Nat, NEW d \in Nat, NEW v, NEW bits,
         InOrder(cs, n, m, d, v, bits), Paired(cs, n, d),
         NEW ss, CoresThenDma(ss, n, d), NEW s \in 1..Len(ss)
  PROVE  HasItsController(cs, ss, s)
  <1> DEFINE k == n + m + 1 + d
  <1>0. OfKind(cs, "L1Cache") = 1..n /\ OfKind(cs, "DMA") = n+m+2..n+m+1+d
    <2>1. KindsApart(cs, n, m, d)
      BY KindsAre
    <2> QED BY <2>1 DEF KindsApart
  <1>1. Len(cs) = k /\ Len(ss) = n + d
    BY DEF InOrder, CoresThenDma
  <1>2. \A j \in 1..k : cs[j].sequencer = InFront(j, k, n, d)
    BY <1>1 DEF Paired
  <1>3. CASE s <= n
    <2>1. s \in 1..n /\ s \in 1..k
      BY <1>1, <1>3
    <2>2. ss[s].kind = "core" /\ ss[s].version = s - 1 /\ cs[s].version = s - 1
      <3>1. ss[s] = [kind |-> "core", version |-> s - 1]
        BY <2>1 DEF CoresThenDma
      <3>2. \A x \in 1..n : cs[x].version = x - 1
        BY DEF InOrder
      <3> QED BY <2>1, <3>1, <3>2
    <2>3. s \in OfKind(cs, "L1Cache")
      BY <1>0, <2>1
    <2>4. \A j \in 1..k : InFront(j, k, n, d) = s - 1 <=> j = s
      BY <2>1 DEF InFront
    <2>5. {j \in 1..Len(cs) : cs[j].sequencer = s - 1} = {s}
      BY <1>1, <1>2, <2>1, <2>4
    <2> QED BY <2>2, <2>3, <2>5 DEF HasItsController
  <1>4. CASE s > n
    <2> DEFINE t == s - n
               i == n + m + 1 + t
    <2>1. t \in 1..d /\ n + t = s /\ i \in 1..k
      BY <1>1, <1>4
    <2>2. ss[n + t].kind = "dma" /\ ss[n + t].version = t - 1
      <3>1. ss[n + t] = [kind |-> "dma", version |-> t - 1]
        BY <2>1 DEF CoresThenDma
      <3> QED BY <3>1
    <2>3. cs[n + m + 1 + t].version = t - 1
      <3>1. \A x \in 1..d : cs[n + m + 1 + x].version = x - 1
        BY DEF InOrder
      <3> QED BY <2>1, <3>1
    <2>4. i \in OfKind(cs, "DMA")
      BY <1>0, <2>1
    <2>5. \A j \in 1..k : InFront(j, k, n, d) = s - 1 <=> j = i
      BY <2>1, <1>4 DEF InFront
    <2>6. {j \in 1..Len(cs) : cs[j].sequencer = s - 1} = {i}
      BY <1>1, <1>2, <2>1, <2>5
    <2> HIDE DEF t
    <2> QED BY <2>1, <2>2, <2>3, <2>4, <2>6 DEF HasItsController
  <1> QED BY <1>1, <1>3, <1>4

-----------------------------------------------------------------------------
(* What has been made before each step.                                    *)

Early == {"initFS", "createCPU", "caches", "controllers"}
Ended == {"fatal", "error"}
After == {"network", "rows", "ports", "eventq", "built"}

PcLinks == AttachIO({IdeDma})
DirectoryLinks == {<<Port("Directory", 0, "memory_out_port"), Port("mem_cntrl", 0, "port")>>}
SequencerLinks == MI!SequencerLinks(args.cpus, DmaPorts)
PeerLinks == MI!PortLinks(args.cpus, args.isa)
AllLinks == PcLinks \cup DirectoryLinks \cup SequencerLinks \cup PeerLinks

RubyLinks(s) ==
  CASE s = "initFS" -> {}
    [] s \in {"createCPU", "caches", "controllers", "fatal", "error"} -> PcLinks
    [] s = "sequencers" -> PcLinks \cup DirectoryLinks
    [] s \in {"pair", "network", "rows", "ports"} ->
         PcLinks \cup DirectoryLinks \cup SequencerLinks
    [] OTHER -> AllLinks

\* The lists stand in the order they are made in, and are paired in that order.
PartsSoFar ==
  /\ args \in Arguments
  /\ step \in Early \cup Ended \cup {"sequencers", "pair"} \cup After
  /\ links = RubyLinks(step)
  /\ step # "initFS" => firmware.table = MPTable(args.cpus)
  /\ step \in Early => version = Unmade
  /\ step \in Early \cup Ended => controllers = << >> /\ sequencers = << >>
  /\ step \notin Early \cup Ended =>
       /\ network.virtual = VirtualNetworks
       /\ InOrder(controllers, args.cpus, L2Count, Len(DmaPorts), VirtualNetworks, L2Bits)
  /\ step \in {"sequencers", "pair"} => NonePaired(controllers)
  /\ step \in After => Paired(controllers, args.cpus, Len(DmaPorts))
  /\ step \in {"pair"} \cup After => CoresThenDma(sequencers, args.cpus, Len(DmaPorts))

LEMMA PartsInit == Init => PartsSoFar
  BY DEF Init, PartsSoFar, RubyLinks, Early, Ended, After, Unmade

LEMMA SameSequencerLinks ==
  ASSUME NEW n \in Nat
  PROVE  ByProtocol(MI!SequencerLinks(n, DmaPorts), MESI!SequencerLinks(n, DmaPorts),
                    MOESI!SequencerLinks(n, DmaPorts)) = MI!SequencerLinks(n, DmaPorts)
  <1>1. MESI!SequencerLinks(n, DmaPorts) = MI!SequencerLinks(n, DmaPorts)
    <2>1. MESI!CoreLinks(n) = MI!CoreLinks(n)
      BY DEF MESI!CoreLinks, MI!CoreLinks, MESI!Port, MI!Port, MESI!IobusIn, MI!IobusIn,
             MESI!IobusOut, MI!IobusOut
    <2>2. MESI!DmaLinks(n, DmaPorts) = MI!DmaLinks(n, DmaPorts)
      BY DEF MESI!DmaLinks, MI!DmaLinks, MESI!Port, MI!Port, MESI!SequencerIn, MI!SequencerIn
    <2> QED BY <2>1, <2>2 DEF MESI!SequencerLinks, MI!SequencerLinks
  <1>2. MOESI!SequencerLinks(n, DmaPorts) = MI!SequencerLinks(n, DmaPorts)
    <2>1. MOESI!CoreLinks(n) = MI!CoreLinks(n)
      BY DEF MOESI!CoreLinks, MI!CoreLinks, MOESI!Port, MI!Port, MOESI!IobusIn, MI!IobusIn,
             MOESI!IobusOut, MI!IobusOut
    <2>2. MOESI!DmaLinks(n, DmaPorts) = MI!DmaLinks(n, DmaPorts)
      BY DEF MOESI!DmaLinks, MI!DmaLinks, MOESI!Port, MI!Port, MOESI!SequencerIn, MI!SequencerIn
    <2> QED BY <2>1, <2>2 DEF MOESI!SequencerLinks, MI!SequencerLinks
  <1> QED BY <1>1, <1>2 DEF ByProtocol

LEMMA SamePortLinks ==
  ASSUME NEW n \in Nat, NEW isa
  PROVE  ByProtocol(MI!PortLinks(n, isa), MESI!PortLinks(n, isa), MOESI!PortLinks(n, isa))
           = MI!PortLinks(n, isa)
  <1>1. MESI!PortLinks(n, isa) = MI!PortLinks(n, isa)
    BY DEF MESI!PortLinks, MI!PortLinks, MESI!ProxyLinks, MI!ProxyLinks, MESI!CpuLinks, MI!CpuLinks,
           MESI!CacheLinks, MI!CacheLinks, MESI!InterruptLinks, MI!InterruptLinks,
           MESI!WalkerLinks, MI!WalkerLinks, MESI!SequencerIn, MI!SequencerIn,
           MESI!Port, MI!Port, MESI!IobusIn, MI!IobusIn
  <1>2. MOESI!PortLinks(n, isa) = MI!PortLinks(n, isa)
    BY DEF MOESI!PortLinks, MI!PortLinks, MOESI!ProxyLinks, MI!ProxyLinks, MOESI!CpuLinks,
           MI!CpuLinks, MOESI!CacheLinks, MI!CacheLinks, MOESI!InterruptLinks, MI!InterruptLinks,
           MOESI!WalkerLinks, MI!WalkerLinks, MOESI!SequencerIn, MI!SequencerIn,
           MOESI!Port, MI!Port, MOESI!IobusIn, MI!IobusIn
  <1> QED BY <1>1, <1>2 DEF ByProtocol

LEMMA OneDirectory ==
  ASSUME NEW cs, NEW n \in Nat, NEW m \in Nat, NEW d \in Nat, NEW v, NEW bits,
         InOrder(cs, n, m, d, v, bits)
  PROVE  \E i : OfKind(cs, "Directory") = {i} /\ cs[i].version = 0 /\ i \in 1..Len(cs)
  <1> DEFINE i == n + m + 1
  <1>1. KindsApart(cs, n, m, d)
    BY KindsAre
  <1>2. OfKind(cs, "Directory") = i..i
    BY <1>1 DEF KindsApart
  <1>3. cs[i].version = 0 /\ Len(cs) = i + d
    BY DEF InOrder
  <1>4. i \in 1..Len(cs) /\ i..i = {i}
    BY <1>3
  <1> HIDE DEF i
  <1> QED BY <1>2, <1>3, <1>4

LEMMA PartsNext == NetworkSoFar /\ PartsSoFar /\ [Next]_vars => PartsSoFar'
  <1> SUFFICES ASSUME NetworkSoFar, PartsSoFar, [Next]_vars PROVE PartsSoFar'
    OBVIOUS
  <1> DEFINE n == args.cpus
             d == Len(DmaPorts)
  <1> USE DEF Early, Ended, After
  <1>a. args' = args /\ n \in Nat /\ d \in Nat /\ d = 2 /\ L2Count \in Nat
    <2>1. args' = args
      BY DEF Next, Build, InitFS, CreateCPU, ChooseCaches, CreateControllers, CreateSequencers,
             PairSequencers, ConnectControllers, ConnectRow, ConnectPorts, SetEventQueues, Make,
             Issue, Hop, Stop, vars
    <2>2. n \in Nat
      BY RubyAssumption DEF PartsSoFar, Arguments
    <2>3. L2Count \in Nat
      BY RubyAssumption DEF L2Count, ByProtocol
    <2> QED BY <2>1, <2>2, <2>3 DEF DmaPorts
  <1>b. /\ (VirtualNetworks = VirtualNetworks') /\ (L2Count = L2Count')
        /\ (SequencerLinks = SequencerLinks') /\ (PeerLinks = PeerLinks')
    BY <1>a DEF VirtualNetworks, L2Count, SequencerLinks, PeerLinks, ByProtocol
  <1>c. \A s : RubyLinks(s)' = RubyLinks(s)
    BY <1>b DEF RubyLinks, AllLinks, PcLinks, DirectoryLinks
  <1>1. CASE InitFS
    BY <1>1, <1>a, <1>c DEF InitFS, Make, PartsSoFar, RubyLinks, PcLinks, RubyMPTable, RubyE820
  <1>2. CASE CreateCPU
    BY <1>2, <1>a, <1>c DEF CreateCPU, Make, PartsSoFar, RubyLinks
  <1>3. CASE ChooseCaches
    BY <1>3, <1>a, <1>c DEF ChooseCaches, Make, PartsSoFar, RubyLinks
  <1>4. CASE CreateControllers
    <2>1. step = "controllers" /\ step' = "sequencers" /\ controllers' = NewControllers
          /\ UNCHANGED <<firmware, sequencers>>
      BY <1>4 DEF CreateControllers, MemCntrlPorts
    <2>2. version = Unmade
      BY <2>1 DEF PartsSoFar
    <2>3. InOrder(NewControllers, n, L2Count, d, VirtualNetworks, L2Bits)
          /\ NonePaired(NewControllers)
      BY <2>2, NewInOrder DEF PartsSoFar
    <2>4. network'.virtual = VirtualNetworks
      BY <1>4 DEF CreateControllers, NetworkSoFar, IsNetwork, VirtualNetworks, ByProtocol,
                  MI!VirtualNetworks, MESI!VirtualNetworks, MOESI!VirtualNetworks
    <2>5. links' = PcLinks \cup DirectoryLinks
      <3> DEFINE new == NewControllers
      <3> HIDE DEF new
      <3>1. PICK i : OfKind(new, "Directory") = {i} /\ new[i].version = 0
        BY <1>a, <2>3, OneDirectory DEF new
      <3>2. links' = links \cup {<<Port("Directory", new[j].version, "memory_out_port"),
                                   MemCntrlPorts[1]>> : j \in OfKind(new, "Directory")}
        BY <1>4 DEF CreateControllers, new
      <3>3. links = PcLinks
        BY <2>1 DEF PartsSoFar, RubyLinks
      <3> QED BY <3>1, <3>2, <3>3 DEF DirectoryLinks, MemCntrlPorts
    <2>6. (links = RubyLinks(step))'
      BY <1>c, <2>1, <2>5 DEF RubyLinks
    <2>7. (L2Bits = L2Bits')
      BY DEF L2Bits
    <2> QED BY <1>a, <1>b, <2>1, <2>3, <2>4, <2>6, <2>7 DEF PartsSoFar
  <1>5. CASE CreateSequencers
    <2>1. step = "sequencers" /\ step' = "pair"
          /\ UNCHANGED <<firmware, controllers, network>>
      BY <1>5 DEF CreateSequencers, Make
    <2>2. CoresThenDma(sequencers', n, d)
      BY <1>5, <1>a, SameSequencers DEF CreateSequencers
    <2>3. links' = links \cup SequencerLinks
      BY <1>5, <1>a, SameSequencerLinks DEF CreateSequencers, SequencerLinks
    <2>4. (links = RubyLinks(step))'
      BY <1>c, <2>1, <2>3 DEF PartsSoFar, RubyLinks
    <2>5. (L2Bits = L2Bits')
      BY DEF L2Bits
    <2> QED BY <1>a, <1>b, <2>1, <2>2, <2>4, <2>5 DEF PartsSoFar
  <1>6. CASE PairSequencers
    <2>1. step = "pair" /\ step' = "network"
          /\ UNCHANGED <<firmware, links, sequencers, network>>
      BY <1>6 DEF PairSequencers, Make
    <2>2. /\ InOrder(controllers, n, L2Count, d, VirtualNetworks, L2Bits)
          /\ NonePaired(controllers)
      BY <2>1 DEF PartsSoFar
    <2>3. controllers' = PairOf(controllers, n, d)
      <3>1. Len(controllers) \in Nat
        BY <2>1 DEF NetworkSoFar, Listed, NonEmptyList
      <3>2. controllers' = ByProtocol(MI!WithSequencers(controllers, n, d),
                                      MESI!WithSequencers(controllers, n, d),
                                      MOESI!WithSequencers(controllers, n, d))
        BY <1>6 DEF PairSequencers
      <3> HIDE DEF n, d
      <3> QED BY <1>a, <3>1, <3>2, SamePairs
    <2>4. InOrder(controllers', n, L2Count, d, VirtualNetworks, L2Bits)
          /\ Paired(controllers', n, d)
      <3> HIDE DEF n, d
      <3> QED BY <1>a, <2>2, <2>3, PairKeepsOrder
    <2>5. (links = RubyLinks(step))'
      BY <1>c, <2>1 DEF PartsSoFar, RubyLinks
    <2>6. (L2Bits = L2Bits')
      BY DEF L2Bits
    <2> QED BY <1>a, <1>b, <2>1, <2>4, <2>5, <2>6 DEF PartsSoFar
  <1>7. CASE ConnectControllers \/ ConnectRow
    <2>1. /\ step \in {"network", "rows"} /\ step' \in {"rows", "ports"}
          /\ UNCHANGED <<firmware, links, controllers, sequencers>>
      BY <1>7 DEF ConnectControllers, ConnectRow, Make
    <2>2. network'.virtual = network.virtual
      BY <1>7 DEF ConnectControllers, ConnectRow, NetworkSoFar, IsNetwork
    <2>3. (links = RubyLinks(step))'
      BY <1>c, <2>1 DEF PartsSoFar, RubyLinks
    <2>4. (L2Bits = L2Bits')
      BY DEF L2Bits
    <2> QED BY <1>a, <1>b, <2>1, <2>2, <2>3, <2>4 DEF PartsSoFar
  <1>8. CASE ConnectPorts
    <2>1. step = "ports" /\ step' = "eventq"
          /\ UNCHANGED <<firmware, controllers, sequencers, network>>
      BY <1>8 DEF ConnectPorts, Make
    <2>2. links' = links \cup PeerLinks
      BY <1>8, <1>a, SamePortLinks DEF ConnectPorts, PeerLinks
    <2>3. (links = RubyLinks(step))'
      BY <1>c, <2>1, <2>2 DEF PartsSoFar, RubyLinks, AllLinks
    <2>4. (L2Bits = L2Bits')
      BY DEF L2Bits
    <2> QED BY <1>a, <1>b, <2>1, <2>3, <2>4 DEF PartsSoFar
  <1>9. CASE SetEventQueues
    <2>1. (L2Bits = L2Bits')
      BY DEF L2Bits
    <2> QED BY <1>9, <1>a, <1>b, <1>c, <2>1 DEF SetEventQueues, Make, PartsSoFar, RubyLinks
  <1>10. CASE Issue \/ Hop \/ Stop \/ UNCHANGED vars
    <2>1. UNCHANGED <<args, buildVars>>
      BY <1>10 DEF Issue, Hop, Stop, vars
    <2>2. (L2Bits = L2Bits')
      BY DEF L2Bits
    <2> QED BY <1>a, <1>b, <1>c, <2>1, <2>2 DEF buildVars, PartsSoFar
  <1> QED BY <1>1, <1>2, <1>3, <1>4, <1>5, <1>6, <1>7, <1>8, <1>9, <1>10 DEF Next, Build

LEMMA PairedMade == PartsSoFar => PairedByNumber
  <1> SUFFICES ASSUME PartsSoFar, step \in After
               PROVE  /\ \A k \in Kinds :
                           {controllers[i].version : i \in OfKind(controllers, k)}
                             = 0..Cardinality(OfKind(controllers, k))-1
                      /\ \A s \in 1..Len(sequencers) :
                           \E i \in OfKind(controllers, IF sequencers[s].kind = "core"
                                                        THEN "L1Cache" ELSE "DMA") :
                              /\ controllers[i].version = sequencers[s].version
                              /\ {j \in 1..Len(controllers) : controllers[j].sequencer = s - 1}
                                   = {i}
                      /\ BuffersFit
    BY DEF PairedByNumber, After
  <1> DEFINE n == args.cpus
             d == Len(DmaPorts)
  <1>1. n \in Nat /\ d \in Nat /\ L2Count \in Nat
    BY RubyAssumption DEF PartsSoFar, Arguments, L2Count, ByProtocol, DmaPorts
  <1>2. /\ InOrder(controllers, n, L2Count, d, VirtualNetworks, L2Bits)
        /\ Paired(controllers, n, d) /\ CoresThenDma(sequencers, n, d)
        /\ network.virtual = VirtualNetworks
    BY DEF PartsSoFar, Early, Ended, After
  <1>3. BuffersFit
    BY <1>2 DEF BuffersFit, InOrder, FewBuffers
  <1> HIDE DEF n, d
  <1>4. ASSUME NEW k \in Kinds
        PROVE  {controllers[i].version : i \in OfKind(controllers, k)}
                 = 0..Cardinality(OfKind(controllers, k))-1
    BY <1>1, <1>2, NumberedFromZero
  <1>5. ASSUME NEW s \in 1..Len(sequencers)
        PROVE  \E i \in OfKind(controllers, IF sequencers[s].kind = "core"
                                            THEN "L1Cache" ELSE "DMA") :
                  /\ controllers[i].version = sequencers[s].version
                  /\ {j \in 1..Len(controllers) : controllers[j].sequencer = s - 1} = {i}
    <2>1. HasItsController(controllers, sequencers, s)
      BY <1>1, <1>2, <1>5, EachHasItsSequencer
    <2> QED BY <2>1 DEF HasItsController
  <1> QED BY <1>3, <1>4, <1>5

-----------------------------------------------------------------------------
(* No port twice.                                                          *)

\* A link at its two ends.
IsLink(l, k, i, n, c, j, m) == l = <<<<k, i, n>>, <<c, j, m>>>>

PcLink(l) ==
  \/ IsLink(l, "iobus", 0, "mem_side_ports", "devices", 0, "pio")
  \/ IsLink(l, "iobus", 0, "default", "pci_host", 0, "pio")
  \/ IsLink(l, "io_apic", 0, "int_requestor", "iobus", 0, "cpu_side_ports")
  \/ IsLink(l, "Directory", 0, "memory_out_port", "mem_cntrl", 0, "port")
  \/ IsLink(l, "ide", 0, "dma", "sequencer", args.cpus, "in_ports")
  \/ IsLink(l, "iobus", 0, "mem_side_ports", "sequencer", args.cpus + 1, "in_ports")
  \/ IsLink(l, "system", 0, "system_port", "proxy", 0, "in_ports")
  \/ IsLink(l, "proxy", 0, "pio_request_port", "iobus", 0, "cpu_side_ports")

CpuLink(l, i) ==
  \/ IsLink(l, "sequencer", i, "pio_request_port", "iobus", 0, "cpu_side_ports")
  \/ IsLink(l, "sequencer", i, "mem_request_port", "iobus", 0, "cpu_side_ports")
  \/ IsLink(l, "iobus", 0, "mem_side_ports", "sequencer", i, "pio_response_port")
  \/ IsLink(l, "cpu", i, "icache_port", "sequencer", i, "in_ports")
  \/ IsLink(l, "cpu", i, "dcache_port", "sequencer", i, "in_ports")
  \/ args.isa = "x86" /\
       \/ IsLink(l, "sequencer", i, "interrupt_out_port", "interrupts", i, "pio")
       \/ IsLink(l, "interrupts", i, "int_requestor", "sequencer", i, "in_ports")
       \/ IsLink(l, "sequencer", i, "interrupt_out_port", "interrupts", i, "int_responder")
  \/ args.isa \in {"x86", "arm"} /\
       \/ IsLink(l, "cpu", i, "itb_walker", "sequencer", i, "in_ports")
       \/ IsLink(l, "cpu", i, "dtb_walker", "sequencer", i, "in_ports")

LEMMA LinkIs ==
  ASSUME args \in Arguments, NEW l
  PROVE  l \in AllLinks <=> PcLink(l) \/ \E i \in Cpus : CpuLink(l, i)
  <1> DEFINE n == args.cpus
             core(i) == {<<MI!Port("sequencer", i, "pio_request_port"), MI!IobusIn>>,
                         <<MI!Port("sequencer", i, "mem_request_port"), MI!IobusIn>>,
                         <<MI!IobusOut, MI!Port("sequencer", i, "pio_response_port")>>}
             own(i) == MI!CacheLinks(i)
                         \cup (IF args.isa = "x86" THEN MI!InterruptLinks(i) ELSE {})
                         \cup (IF args.isa \in {"x86", "arm"} THEN MI!WalkerLinks(i) ELSE {})
  <1> USE DEF IsLink, Port, IobusIn, IobusOut, IoApic, IdeDma, MI!Port, MI!IobusIn, MI!IobusOut,
              MI!SequencerIn
  <1>0. n \in Nat \ {0}
    BY RubyAssumption DEF Arguments
  <1>1. l \in PcLinks \cup DirectoryLinks \cup MI!ProxyLinks \cup MI!DmaLinks(n, DmaPorts)
          <=> PcLink(l)
    <2>1. l \in MI!DmaLinks(n, DmaPorts) <=>
            \/ IsLink(l, "ide", 0, "dma", "sequencer", n, "in_ports")
            \/ IsLink(l, "iobus", 0, "mem_side_ports", "sequencer", n + 1, "in_ports")
      <3>1. Len(DmaPorts) = 2 /\ DmaPorts[1] = IdeDma /\ DmaPorts[2] = IobusOut
        BY DEF DmaPorts
      <3>2. n + 1 - 1 = n /\ n + 2 - 1 = n + 1 /\ 1..2 = {1, 2}
        BY <1>0
      <3> HIDE DEF n
      <3>3. MI!DmaLinks(n, DmaPorts) = {<<DmaPorts[1], MI!SequencerIn(n + 1 - 1)>>,
                                        <<DmaPorts[2], MI!SequencerIn(n + 2 - 1)>>}
        BY <3>1, <3>2 DEF MI!DmaLinks
      <3> QED BY <3>1, <3>2, <3>3
    <2> QED BY <2>1 DEF PcLinks, AttachIO, DirectoryLinks, MI!ProxyLinks, PcLink
  <1>2. ASSUME NEW i PROVE l \in core(i) \cup own(i) <=> CpuLink(l, i)
    BY DEF CpuLink, MI!CacheLinks, MI!InterruptLinks, MI!WalkerLinks
  <1>3. l \in MI!CoreLinks(n) <=> \E i \in Cpus : l \in core(i)
    BY DEF MI!CoreLinks, Cpus
  <1>4. l \in MI!CpuLinks(n, args.isa) <=> \E i \in Cpus : l \in own(i)
    BY DEF MI!CpuLinks, Cpus
  <1>5. SequencerLinks = MI!CoreLinks(n) \cup MI!DmaLinks(n, DmaPorts)
        /\ PeerLinks = MI!ProxyLinks \cup MI!CpuLinks(n, args.isa)
    BY DEF SequencerLinks, PeerLinks, MI!SequencerLinks, MI!PortLinks
  <1> HIDE DEF n, core, own
  <1> QED BY <1>1, <1>2, <1>3, <1>4, <1>5 DEF AllLinks

LEMMA AllBoundOnce == args \in Arguments => BoundOnce(AllLinks)
  <1> SUFFICES ASSUME args \in Arguments,
                      NEW l \in AllLinks, NEW p \in {l[1], l[2]}, p[3] \notin VectorPorts,
                      NEW m \in AllLinks, p \in {m[1], m[2]}
               PROVE  m = l
    BY DEF BoundOnce, Links
  <1> USE DEF VectorPorts, IsLink
  <1>1. CASE PcLink(l) /\ PcLink(m)
    BY <1>1 DEF PcLink
  <1>2. CASE PcLink(l) /\ \E i \in Cpus : CpuLink(m, i)
    BY <1>2 DEF PcLink, CpuLink
  <1>3. CASE PcLink(m) /\ \E i \in Cpus : CpuLink(l, i)
    BY <1>3 DEF PcLink, CpuLink
  <1>4. ASSUME NEW i \in Cpus, NEW j \in Cpus, CpuLink(l, i), CpuLink(m, j)
        PROVE  m = l
    BY <1>4 DEF CpuLink
  <1> QED BY <1>1, <1>2, <1>3, <1>4, LinkIs

LEMMA PortsMade == PartsSoFar => PortsBoundOnce
  <1> SUFFICES ASSUME PartsSoFar, NEW l \in links, NEW p \in {l[1], l[2]}, p[3] \notin VectorPorts
               PROVE  Links(p, links) = {l}
    BY DEF PortsBoundOnce, BoundOnce
  <1>1. l \in AllLinks /\ links \subseteq AllLinks
    BY DEF PartsSoFar, RubyLinks, AllLinks
  <1>2. Links(p, AllLinks) = {l}
    BY <1>1, AllBoundOnce DEF BoundOnce, PartsSoFar
  <1> QED BY <1>1, <1>2 DEF Links

-----------------------------------------------------------------------------
(* The way of a request.                                                   *)

\* What is sent: to the local APICs only where there are any.
LocalAddresses == {Apic(i) : i \in Cpus} \cup {Lapic(i) : i \in Cpus}
Addresses ==
  {Memory, PciMemory, IoSpace, PciConfig} \cup {a \in LocalAddresses : args.isa = "x86"}

\* Where a request for address a can be: at its owner, or at a port from which the
\* links lead there.
OnTheWay(p, a) ==
  \/ /\ p[1] = "sequencer" /\ p[3] = "in_ports" /\ p[2] \in 0..args.cpus+1
     /\ a # Memory => p[2] \in Cpus
  \/ /\ p[1] = "sequencer" /\ p[3] = "pio_response_port" /\ p[2] \in Cpus
     /\ a \in {Apic(p[2]), Lapic(p[2])}
  \/ /\ p[1] = "controller" /\ p[3] = "buffer" /\ a = Memory
     /\ p[2] \in 1..Len(controllers)
  \/ p = IobusIn
  \/ Owner(p) \in OwnerOf(a)

LEMMA OwnersAre ==
  /\ OwnerOf(Memory) = {<<"mem_cntrl", 0>>, <<"proxy", 0>>}
  /\ \A i : OwnerOf(Apic(i)) = {<<"interrupts", i>>} /\ OwnerOf(Lapic(i)) = {<<"interrupts", i>>}
  BY DEF OwnerOf, Memory, Apic, Lapic, PciMemory, IoSpace

LEMMA BehindIs ==
  ASSUME NEW o, NEW name, NEW a, NEW q \in Behind(o, name, a)
  PROVE  \E l \in links : l[2] = q /\ l[1] = <<o[1], o[2], name>> /\ DeviceServes(q, a)
  BY DEF Behind, Port

\* The I/O bus gives a request to the one part of the PC that answers to it.
LEMMA HopFromIobus ==
  ASSUME PartsSoFar, step = "built", NEW a \in Addresses, NEW q \in Hops(IobusIn, a)
  PROVE  OnTheWay(q, a)
  <1> DEFINE out == <<"iobus", 0, "mem_side_ports">>
             claims == {x \in {l[2] : l \in {m \in links : m[1] = out}} : IobusServes(x, a)}
             default == {l[2] : l \in {m \in links : m[1] = <<"iobus", 0, "default">>}}
  <1>0. links = AllLinks /\ args \in Arguments
    BY DEF PartsSoFar, RubyLinks, Early, Ended, After
  <1>1. q \in IF claims # {} THEN claims ELSE default
    BY DEF Hops, IobusIn, Port, Owner
  <1>2. CASE q \in claims
    <2>1. PICK l \in links : l[2] = q /\ l[1] = out /\ IobusServes(q, a)
      BY <1>2
    <2>2. PcLink(l) \/ \E i \in Cpus : CpuLink(l, i)
      BY <1>0, LinkIs
    <2>3. \/ q = <<"devices", 0, "pio">>
          \/ q = <<"sequencer", args.cpus + 1, "in_ports">>
          \/ \E i \in Cpus : q = <<"sequencer", i, "pio_response_port">>
      BY <2>1, <2>2 DEF PcLink, CpuLink, IsLink
    <2>4. CASE q = <<"devices", 0, "pio">>
      BY <2>1, <2>4 DEF IobusServes, DeviceServes, OnTheWay, Owner, OwnerOf, IoSpace, PciMemory,
                        Memory
    <2>5. CASE q = <<"sequencer", args.cpus + 1, "in_ports">>
      <3>1. a = Memory
        BY <2>1, <2>5 DEF IobusServes, DeviceServes
      <3>2. args.cpus + 1 \in 0..args.cpus+1
        BY <1>0, RubyAssumption DEF Arguments
      <3> QED BY <2>5, <3>1, <3>2 DEF OnTheWay
    <2>6. ASSUME NEW i \in Cpus, q = <<"sequencer", i, "pio_response_port">>
          PROVE  OnTheWay(q, a)
      <3>1. Behind(<<"sequencer", i>>, "interrupt_out_port", a) # {}
        BY <2>1, <2>6 DEF IobusServes, DeviceServes, Owner
      <3>2. PICK x : x \in Behind(<<"sequencer", i>>, "interrupt_out_port", a)
        BY <3>1
      <3>3. PICK m \in links : m[2] = x /\ m[1] = <<"sequencer", i, "interrupt_out_port">>
                               /\ DeviceServes(x, a)
        BY <3>2, BehindIs
      <3>4. PcLink(m) \/ \E j \in Cpus : CpuLink(m, j)
        BY <1>0, LinkIs
      <3>5. x[1] = "interrupts" /\ x[2] = i
        BY <3>3, <3>4 DEF PcLink, CpuLink, IsLink
      <3>6. a \in {Apic(i), Lapic(i)}
        BY <3>3, <3>5 DEF DeviceServes
      <3> QED BY <2>6, <3>6 DEF OnTheWay
    <2> QED BY <2>3, <2>4, <2>5, <2>6
  <1>3. CASE claims = {}
    <2>1. \A m \in links : m[1] = out => ~IobusServes(m[2], a)
      BY <1>3
    <2>2. a # Memory
      <3>1. <<out, <<"sequencer", args.cpus + 1, "in_ports">>>> \in links
        BY <1>0, LinkIs DEF PcLink, IsLink
      <3>2. ~IobusServes(<<"sequencer", args.cpus + 1, "in_ports">>, a)
        BY <2>1, <3>1
      <3> QED BY <3>2 DEF IobusServes
    <2>3. a \notin {IoSpace, PciMemory}
      <3>1. <<out, <<"devices", 0, "pio">>>> \in links
        BY <1>0, LinkIs DEF PcLink, IsLink
      <3>2. ~IobusServes(<<"devices", 0, "pio">>, a)
        BY <2>1, <3>1
      <3> QED BY <3>2 DEF IobusServes, DeviceServes
    <2>4. ASSUME NEW i \in Cpus, args.isa = "x86" PROVE a # Apic(i) /\ a # Lapic(i)
      <3> DEFINE s == <<"sequencer", i, "pio_response_port">>
                 line == <<"sequencer", i, "interrupt_out_port">>
      <3>1. <<out, s>> \in links
        BY <1>0, LinkIs DEF CpuLink, IsLink
      <3>2. ~IobusServes(s, a)
        BY <2>1, <3>1
      <3>3. Behind(<<"sequencer", i>>, "interrupt_out_port", a) = {}
        BY <3>2 DEF IobusServes, Owner
      <3>4. \A m \in links : m[1] = line => ~DeviceServes(m[2], a)
        BY <3>3 DEF Behind, Port
      <3>5. <<line, <<"interrupts", i, "pio">>>> \in links
            /\ <<line, <<"interrupts", i, "int_responder">>>> \in links
        BY <1>0, <2>4, LinkIs DEF CpuLink, IsLink
      <3>6. ~DeviceServes(<<"interrupts", i, "pio">>, a)
            /\ ~DeviceServes(<<"interrupts", i, "int_responder">>, a)
        BY <3>4, <3>5
      <3> QED BY <3>6 DEF DeviceServes
    <2>5. a = PciConfig
      BY <2>2, <2>3, <2>4 DEF Addresses, LocalAddresses
    <2>6. PICK l \in links : l[2] = q /\ l[1] = <<"iobus", 0, "default">>
      BY <1>1, <1>3
    <2>7. PcLink(l) \/ \E i \in Cpus : CpuLink(l, i)
      BY <1>0, LinkIs
    <2>8. q = <<"pci_host", 0, "pio">>
      BY <2>6, <2>7 DEF PcLink, CpuLink, IsLink
    <2> QED BY <2>5, <2>8 DEF OnTheWay, Owner, OwnerOf, PciConfig, Memory, PciMemory, IoSpace
  <1> QED BY <1>1, <1>2, <1>3

LEMMA HopOnTheWay ==
  ASSUME PartsSoFar, step = "built", NEW a \in Addresses, NEW p, OnTheWay(p, a),
         p[1] \notin {"mem_cntrl", "interrupts", "devices", "pci_host"},
         p[1] = "proxy" => a # Memory, NEW q \in Hops(p, a)
  PROVE  OnTheWay(q, a)
  <1>0. links = AllLinks /\ args \in Arguments
    BY DEF PartsSoFar, RubyLinks, Early, Ended, After
  <1>1. CASE p[1] = "sequencer" /\ p[3] = "in_ports" /\ a = Memory
    <2>1. PICK i \in 1..Len(controllers) : q = ControllerPort(i)
      BY <1>1 DEF Hops, Owner
    <2> QED BY <1>1, <2>1 DEF OnTheWay, ControllerPort, Port
  <1>2. CASE p[1] = "sequencer" /\ p[3] = "in_ports" /\ a # Memory
    <2>1. PICK l \in links : /\ l[2] = q
                             /\ l[1] \in {<<p[1], p[2], "pio_request_port">>,
                                          <<p[1], p[2], "mem_request_port">>}
      BY <1>2 DEF Hops, Owner, Port
    <2>2. PcLink(l) \/ \E i \in Cpus : CpuLink(l, i)
      BY <1>0, LinkIs
    <2> QED BY <1>2, <2>1, <2>2 DEF PcLink, CpuLink, IsLink, OnTheWay, IobusIn, Port
  <1>3. CASE p[1] = "sequencer" /\ p[3] = "pio_response_port"
    <2>1. q \in Behind(<<p[1], p[2]>>, "interrupt_out_port", a)
      BY <1>3 DEF Hops, Owner
    <2>2. PICK l \in links : /\ l[2] = q /\ l[1] = <<p[1], p[2], "interrupt_out_port">>
                             /\ DeviceServes(q, a)
      BY <2>1 DEF Behind, Port
    <2>3. PcLink(l) \/ \E i \in Cpus : CpuLink(l, i)
      BY <1>0, LinkIs
    <2>4. q[1] = "interrupts"
      BY <2>2, <2>3 DEF PcLink, CpuLink, IsLink
    <2>5. a = Lapic(q[2]) \/ a = Apic(q[2])
      BY <2>2, <2>4 DEF DeviceServes
    <2>6. Owner(q) \in OwnerOf(a)
      <3>1. OwnerOf(a) = {<<"interrupts", q[2]>>}
        BY <2>5, OwnersAre
      <3>2. Owner(q) = <<"interrupts", q[2]>>
        BY <2>4 DEF Owner
      <3> QED BY <3>1, <3>2
    <2> QED BY <2>6 DEF OnTheWay
  <1>4. CASE p[1] = "controller" /\ p[3] = "buffer" /\ a = Memory
    <2>1. CASE controllers[p[2]].kind # "Directory"
      <3>1. PICK i \in 1..Len(controllers) : q = ControllerPort(i)
        BY <1>4, <2>1 DEF Hops, Owner, NextLevel, Banks, OfKind
      <3> QED BY <1>4, <3>1 DEF OnTheWay, ControllerPort, Port
    <2>2. CASE controllers[p[2]].kind = "Directory"
      <3>1. PICK l \in links : l[2] = q /\ l[1][1] = "Directory"
        BY <1>4, <2>2 DEF Hops, Owner, Port
      <3>2. PcLink(l) \/ \E i \in Cpus : CpuLink(l, i)
        BY <1>0, LinkIs
      <3>3. q = <<"mem_cntrl", 0, "port">>
        BY <3>1, <3>2 DEF PcLink, CpuLink, IsLink
      <3>4. Owner(q) \in OwnerOf(Memory)
        BY <3>3, OwnersAre DEF Owner
      <3> QED BY <1>4, <3>4 DEF OnTheWay
    <2> QED BY <2>1, <2>2
  <1>5. CASE p = IobusIn
    BY <1>5, HopFromIobus
  <1>6. CASE Owner(p) \in OwnerOf(a)
    BY <1>6 DEF Owner, OwnerOf
  <1> QED BY <1>1, <1>2, <1>3, <1>4, <1>5, <1>6 DEF OnTheWay

LEMMA SentFrom ==
  ASSUME PartsSoFar, step = "built", NEW l \in links, NEW a \in Sent(l[1])
  PROVE  /\ a \in Addresses
         /\ OnTheWay(l[2], a)
         /\ l = <<l[1], l[2]>>
         /\ l[1][1] = "cpu" => l[1][2] \in Cpus /\ l[2] = MI!SequencerIn(l[1][2])
  <1>0. links = AllLinks /\ args \in Arguments
    BY DEF PartsSoFar, RubyLinks, Early, Ended, After
  <1>1. args.cpus \in Nat \ {0}
    BY <1>0, RubyAssumption DEF Arguments
  <1>2. {q.id : q \in firmware.table.processors} = Cpus
    <2> DEFINE t == MPTable(args.cpus)
    <2>1. t.processors = {[id |-> i, bootstrap |-> i = 0] : i \in Cpus}
      BY Zenon DEF MPTable, Cpus
    <2>0. firmware.table = t
      BY DEF PartsSoFar
    <2> HIDE DEF t
    <2>2. firmware.table.processors = {[id |-> i, bootstrap |-> i = 0] : i \in Cpus}
      BY <2>0, <2>1
    <2>3. ASSUME NEW q \in firmware.table.processors PROVE q.id \in Cpus
      <3>1. PICK i \in Cpus : q = [id |-> i, bootstrap |-> i = 0]
        BY <2>2
      <3> QED BY <3>1, Zenon
    <2>4. ASSUME NEW i \in Cpus PROVE \E q \in firmware.table.processors : q.id = i
      <3> DEFINE q == [id |-> i, bootstrap |-> i = 0]
      <3>1. q \in firmware.table.processors
        BY <2>2
      <3>2. q.id = i
        BY Zenon
      <3> QED BY <3>1, <3>2, Zenon
    <2> QED BY <2>3, <2>4
  <1>3. PcLink(l) \/ \E i \in Cpus : CpuLink(l, i)
    BY <1>0, LinkIs
  <1>4. CASE PcLink(l)
    <2>1. CASE l[1] = IoApic
      <3>1. l = <<IoApic, IobusIn>>
        BY <1>4, <2>1 DEF PcLink, IsLink, IoApic, IobusIn, Port
      <3>2. a \in {Apic(q.id) : q \in firmware.table.processors} /\ args.isa = "x86"
        BY <2>1 DEF Sent, IoApic, Port
      <3>3. PICK i \in Cpus : a = Apic(i)
        BY <1>2, <3>2
      <3> QED BY <3>1, <3>2, <3>3
              DEF Addresses, LocalAddresses, OnTheWay, IobusIn, IoApic, Port
    <2>2. CASE l[1] # IoApic
      <3>1. l[1][3] # "int_requestor" /\ l[1][3] # "dcache_port" /\ l[1][3] # "icache_port"
        BY <1>4, <2>2 DEF PcLink, IsLink, IoApic, Port
      <3>2. a = Memory /\ l[1][3] \in {"itb_walker", "dtb_walker", "system_port", "dma"}
        BY <2>2, <3>1 DEF Sent
      <3>3. \/ IsLink(l, "system", 0, "system_port", "proxy", 0, "in_ports")
            \/ IsLink(l, "ide", 0, "dma", "sequencer", args.cpus, "in_ports")
        BY <1>4, <3>2 DEF PcLink, IsLink
      <3>4. CASE IsLink(l, "system", 0, "system_port", "proxy", 0, "in_ports")
        <4>1. Owner(l[2]) \in OwnerOf(Memory)
          BY <3>4, OwnersAre DEF IsLink, Owner
        <4> QED BY <3>2, <3>4, <4>1 DEF IsLink, Addresses, OnTheWay
      <3>5. CASE IsLink(l, "ide", 0, "dma", "sequencer", args.cpus, "in_ports")
        <4>1. args.cpus \in 0..args.cpus+1
          BY <1>1
        <4> QED BY <3>2, <3>5, <4>1 DEF IsLink, Addresses, OnTheWay
      <3> QED BY <3>3, <3>4, <3>5
    <2> QED BY <2>1, <2>2
  <1>5. ASSUME NEW i \in Cpus, CpuLink(l, i)
        PROVE  /\ a \in Addresses
               /\ OnTheWay(l[2], a)
               /\ l = <<l[1], l[2]>>
               /\ l[1][1] = "cpu" => l[1][2] \in Cpus /\ l[2] = MI!SequencerIn(l[1][2])
    <2>1. i \in 0..args.cpus+1
      BY <1>1 DEF Cpus
    <2>2. l[1][1] \in {"cpu", "interrupts"} /\ l[2] = <<"sequencer", i, "in_ports">>
          /\ l[1][2] = i /\ l = <<l[1], l[2]>>
      BY <1>5 DEF CpuLink, IsLink, Sent, IoApic, Port
    <2>3. a \in Addresses
      <3>1. CASE l[1][1] = "cpu"
        <4>1. l[1][3] \in {"icache_port", "dcache_port", "itb_walker", "dtb_walker"}
              /\ l[1][2] = i
          BY <1>5, <3>1 DEF CpuLink, IsLink
        <4>2. a = Memory \/ a \in {PciMemory, IoSpace, PciConfig}
              \/ (args.isa = "x86" /\ a = Lapic(i))
          BY <4>1 DEF Sent, IoApic, Port
        <4> QED BY <4>2 DEF Addresses, LocalAddresses
      <3>2. CASE l[1][1] = "interrupts"
        <4>1. args.isa = "x86" /\ l[1][3] = "int_requestor"
          BY <1>5, <2>2, <3>2 DEF CpuLink, IsLink
        <4> QED BY <3>2, <4>1 DEF Sent, IoApic, Port, Addresses, LocalAddresses
      <3> QED BY <2>2, <3>1, <3>2
    <2> QED BY <1>5, <2>1, <2>2, <2>3 DEF OnTheWay, MI!SequencerIn, MI!Port
  <1> QED BY <1>3, <1>4, <1>5

\* A CPU's request for memory goes from its sequencer to the L1 cache of its number.
PastL1(r) ==
  \E i \in OfKind(controllers, "L1Cache") :
     r[3] = ControllerPort(i) /\ controllers[i].version = r[1][2]

LEMMA FromCore ==
  ASSUME PartsSoFar, step = "built", NEW c \in Cpus,
         NEW q \in Hops(MI!SequencerIn(c), Memory)
  PROVE  \E i \in OfKind(controllers, "L1Cache") :
            q = ControllerPort(i) /\ controllers[i].version = c
  <1> DEFINE n == args.cpus
             d == Len(DmaPorts)
             s == c + 1
  <1>1. n \in Nat /\ d \in Nat /\ L2Count \in Nat
    BY RubyAssumption DEF PartsSoFar, Arguments, L2Count, ByProtocol, DmaPorts
  <1>2. /\ InOrder(controllers, n, L2Count, d, VirtualNetworks, L2Bits)
        /\ Paired(controllers, n, d) /\ CoresThenDma(sequencers, n, d)
    BY DEF PartsSoFar, Early, Ended, After
  <1>3. s \in 1..n /\ s \in 1..Len(sequencers) /\ s - 1 = c
    BY <1>1, <1>2 DEF CoresThenDma, Cpus
  <1>4. sequencers[s].kind = "core" /\ sequencers[s].version = c
    <2>1. sequencers[s] = [kind |-> "core", version |-> s - 1]
      BY <1>2, <1>3 DEF CoresThenDma
    <2> QED BY <1>3, <2>1
  <1> HIDE DEF n, d, s
  <1>5. HasItsController(controllers, sequencers, s)
    BY <1>1, <1>2, <1>3, EachHasItsSequencer
  <1>6. PICK i \in OfKind(controllers, "L1Cache") :
           /\ controllers[i].version = c
           /\ {j \in 1..Len(controllers) : controllers[j].sequencer = s - 1} = {i}
    BY <1>4, <1>5 DEF HasItsController
  <1>7. PICK j \in 1..Len(controllers) : controllers[j].sequencer = c /\ q = ControllerPort(j)
    BY DEF Hops, Owner, MI!SequencerIn, MI!Port
  <1>8. j = i
    BY <1>3, <1>6, <1>7
  <1> QED BY <1>6, <1>7, <1>8

\* A request is where it can be for its address.
RouteSound ==
  route # << >> =>
    /\ step = "built"
    /\ addr \in Addresses
    /\ \E S : route \in Seq(S)
    /\ Len(route) >= 2
    /\ OnTheWay(Last(route), addr)
    /\ route[1][1] = "cpu" =>
         /\ route[1][2] \in Cpus /\ route[2] = MI!SequencerIn(route[1][2])
         /\ addr = Memory /\ Len(route) > 2 => PastL1(route)

LEMMA RouteInit == Init => RouteSound
  BY DEF Init, RouteSound

LEMMA RouteNext == PartsSoFar /\ RouteSound /\ [Next]_vars => RouteSound'
  <1> SUFFICES ASSUME PartsSoFar, RouteSound, [Next]_vars PROVE RouteSound'
    OBVIOUS
  <1>a. UNCHANGED <<args, buildVars>> =>
          /\ (Addresses = Addresses') /\ (Cpus = Cpus')
          /\ \A p, a : OnTheWay(p, a)' = OnTheWay(p, a)
          /\ \A r : PastL1(r)' = PastL1(r)
    <2> SUFFICES ASSUME UNCHANGED <<args, buildVars>>
                 PROVE  /\ (Addresses = Addresses') /\ (Cpus = Cpus')
                        /\ \A p, a : OnTheWay(p, a)' = OnTheWay(p, a)
                        /\ \A r : PastL1(r)' = PastL1(r)
      OBVIOUS
    <2>1. UNCHANGED <<args, controllers>> /\ (Cpus = Cpus')
      BY DEF buildVars, Cpus
    <2> QED BY <2>1 DEF Addresses, LocalAddresses, OnTheWay, PastL1, OfKind
  <1>1. CASE Build
    <2>1. step # "built" /\ UNCHANGED route
      BY <1>1 DEF Build, InitFS, CreateCPU, ChooseCaches, CreateControllers, CreateSequencers,
             PairSequencers, ConnectControllers, ConnectRow, ConnectPorts, SetEventQueues, Make
    <2> QED BY <2>1 DEF RouteSound
  <1>2. CASE Issue
    <2>1. step = "built" /\ UNCHANGED <<args, buildVars>> /\ step' = step
      BY <1>2 DEF Issue, buildVars
    <2>2. \/ \E l \in links : addr' \in Sent(l[1]) /\ route' = l
          \/ addr' = Memory /\ route' = <<Port("device", 0, "dma"), IobusIn>>
      BY <1>2 DEF Issue
    <2>3. ASSUME NEW x, NEW y, route' = <<x, y>>, addr' \in Addresses, OnTheWay(y, addr'),
                 x[1] = "cpu" => x[2] \in Cpus /\ y = MI!SequencerIn(x[2])
          PROVE  RouteSound'
      <3>1. route' \in Seq({x, y}) /\ Len(route') = 2 /\ route'[1] = x /\ route'[2] = y
        BY <2>3
      <3>2. Last(route)' = y
        BY <3>1 DEF Last
      <3>3. addr' \in Addresses' /\ OnTheWay(y, addr)' /\ (Cpus = Cpus')
        BY <1>a, <2>1, <2>3
      <3>4. route'[1][1] = "cpu" =>
              /\ route'[1][2] \in Cpus' /\ route'[2] = MI!SequencerIn(route'[1][2])
        BY <2>3, <3>1, <3>3
      <3>5. ~(Len(route') > 2) /\ (\E S : route' \in Seq(S)) /\ Len(route') >= 2
        BY <3>1
      <3> QED BY <2>1, <3>2, <3>3, <3>4, <3>5 DEF RouteSound
    <2>4. ASSUME NEW l \in links, addr' \in Sent(l[1]), route' = l
          PROVE  RouteSound'
      <3> DEFINE a == addr'
      <3>1. a \in Sent(l[1])
        BY <2>4
      <3> HIDE DEF a
      <3>2. /\ a \in Addresses /\ OnTheWay(l[2], a) /\ l = <<l[1], l[2]>>
            /\ l[1][1] = "cpu" => l[1][2] \in Cpus /\ l[2] = MI!SequencerIn(l[1][2])
        BY <2>1, <3>1, SentFrom
      <3> QED BY <2>3, <2>4, <3>2 DEF a
    <2>5. CASE addr' = Memory /\ route' = <<Port("device", 0, "dma"), IobusIn>>
      <3>1. Memory \in Addresses /\ OnTheWay(IobusIn, Memory)
        BY DEF Addresses, OnTheWay
      <3>2. Port("device", 0, "dma")[1] # "cpu"
        BY DEF Port
      <3> QED BY <2>3, <2>5, <3>1, <3>2
    <2> QED BY <2>2, <2>4, <2>5
  <1>3. CASE Hop
    <2>1. PICK p \in Hops(Last(route), addr) : route' = Append(route, p)
      BY <1>3 DEF Hop
    <2>2. route # << >> /\ ~Arrived /\ UNCHANGED <<args, buildVars, addr>> /\ step' = step
      BY <1>3 DEF Hop, buildVars
    <2>3. /\ step = "built" /\ addr \in Addresses /\ Len(route) >= 2
          /\ OnTheWay(Last(route), addr)
      BY <2>2 DEF RouteSound
    <2>4. /\ Last(route)[1] \notin {"mem_cntrl", "interrupts", "devices", "pci_host"}
          /\ Last(route)[1] = "proxy" => addr # Memory
      BY <2>2 DEF Arrived
    <2>5. OnTheWay(p, addr)
      <3> DEFINE last == Last(route)
      <3> HIDE DEF last
      <3> QED BY <2>1, <2>3, <2>4, HopOnTheWay DEF last
    <2>6. PICK S : route \in Seq(S)
      BY <2>2 DEF RouteSound
    <2>7. /\ route' \in Seq(S \cup {p}) /\ Len(route') = Len(route) + 1
          /\ \A i \in 1..Len(route) : route'[i] = route[i]
          /\ route'[Len(route')] = p /\ Len(route) \in Nat
      BY <2>1, <2>6
    <2>8. Last(route)' = p
      BY <2>7 DEF Last
    <2>9. route'[1] = route[1] /\ route'[2] = route[2]
      BY <2>3, <2>7
    <2>10. ASSUME route[1][1] = "cpu", addr = Memory PROVE PastL1(route')
      <3> DEFINE c == route[1][2]
      <3>1. c \in Cpus /\ route[2] = MI!SequencerIn(c)
        BY <2>2, <2>10 DEF RouteSound
      <3>2. CASE Len(route) = 2
        <4>1. Last(route) = MI!SequencerIn(c) /\ route'[3] = p
          BY <2>7, <3>1, <3>2 DEF Last
        <4>2. p \in Hops(MI!SequencerIn(c), Memory)
          BY <2>1, <2>10, <4>1
        <4>3. \E i \in OfKind(controllers, "L1Cache") :
                 p = ControllerPort(i) /\ controllers[i].version = c
          BY <2>3, <3>1, <4>2, FromCore
        <4> HIDE DEF c
        <4>4. PICK i \in OfKind(controllers, "L1Cache") :
                 p = ControllerPort(i) /\ controllers[i].version = c
          BY <4>3
        <4>5. route'[3] = ControllerPort(i) /\ controllers[i].version = route'[1][2]
          BY <2>9, <4>1, <4>4 DEF c
        <4> QED BY <4>5 DEF PastL1
      <3>3. CASE Len(route) > 2
        <4>1. PastL1(route)
          BY <2>2, <2>10, <3>3 DEF RouteSound
        <4>2. route'[3] = route[3]
          BY <2>7, <3>3
        <4> QED BY <2>9, <4>1, <4>2 DEF PastL1
      <3> DEFINE k == Len(route)
      <3>4. k \in Nat /\ k >= 2
        BY <2>3, <2>7
      <3> HIDE DEF k
      <3>5. k = 2 \/ k > 2
        BY <3>4
      <3> QED BY <3>2, <3>3, <3>5 DEF k
    <2>11. /\ addr' \in Addresses' /\ OnTheWay(p, addr)' /\ (Cpus = Cpus')
           /\ PastL1(route') <=> PastL1(route)'
      BY <1>a, <2>2, <2>3, <2>5
    <2>12. route[1][1] = "cpu" => route[1][2] \in Cpus /\ route[2] = MI!SequencerIn(route[1][2])
      BY <2>2 DEF RouteSound
    <2>13. step' = "built" /\ Len(route') >= 2 /\ (\E T : route' \in Seq(T))
      BY <2>2, <2>3, <2>7
    <2> QED BY <2>2, <2>8, <2>9, <2>10, <2>11, <2>12, <2>13 DEF RouteSound
  <1>4. CASE Stop \/ UNCHANGED vars
    <2>1. UNCHANGED <<args, buildVars, addr, route>> /\ step' = step
      BY <1>4 DEF Stop, vars, buildVars
    <2> QED BY <1>a, <2>1 DEF RouteSound
  <1> QED BY <1>1, <1>2, <1>3, <1>4 DEF Next

-----------------------------------------------------------------------------
(* The banks.                                                              *)

\* The bits that choose a bank tell exactly as many banks apart as there are: the
\* number is a power of two, as the 8 of the configurations (_numL2Caches).
ExactLog ==
  MESI!Log2(NumL2Caches) \in Nat /\ 2^MESI!Log2(NumL2Caches) = NumL2Caches

LEMMA SomeExactLogs == NumL2Caches \in {1, 2, 4, 8, 16, 32} => ExactLog
  <1>1. MESI!Log2(1) = 0 /\ 2^0 = 1
    BY DEF MESI!Log2
  <1>2. MESI!Log2(2) = 1 /\ 2^1 = 2
    BY DEF MESI!Log2
  <1>3. MESI!Log2(4) = 2 /\ 2^2 = 4
    BY DEF MESI!Log2
  <1>4. MESI!Log2(8) = 3 /\ 2^3 = 8
    BY DEF MESI!Log2
  <1>5. MESI!Log2(16) = 4 /\ 2^4 = 16
    BY DEF MESI!Log2
  <1>6. MESI!Log2(32) = 5 /\ 2^5 = 32
    BY DEF MESI!Log2
  <1> SUFFICES ASSUME NumL2Caches \in {1, 2, 4, 8, 16, 32} PROVE ExactLog
    OBVIOUS
  <1>7. PICK k \in 0..5 : MESI!Log2(NumL2Caches) = k /\ 2^k = NumL2Caches
    BY <1>1, <1>2, <1>3, <1>4, <1>5, <1>6
  <1> QED BY <1>7 DEF ExactLog

LEMMA Division ==
  ASSUME NEW n \in Nat \ {0}, NEW b \in Nat
  PROVE  b = n * (b \div n) + (b % n) /\ b \div n \in Nat /\ b % n \in 0..n-1
  OBVIOUS

LEMMA PlaceInBank ==
  ASSUME NEW n \in Nat \ {0}, NEW s \in Nat \ {0}, NEW b \in 0..n*s-1
  PROVE  (b \div n) % s = b \div n
  <1> DEFINE q == b \div n
             r == b % n
  <1>1. b = n * q + r /\ q \in Nat /\ r \in Nat
    BY Division
  <1> HIDE DEF q, r
  <1>2. CASE q >= s
    <2>1. n * q >= n * s
      BY <1>1, <1>2
    <2> QED BY <1>1, <2>1
  <1>3. CASE q < s
    BY <1>1, <1>3 DEF q
  <1> QED BY <1>1, <1>2, <1>3

\* A block is known from its bank and its place in the bank.
LEMMA BankAndPlace ==
  ASSUME NEW n \in Nat \ {0}, NEW s \in Nat \ {0},
         NEW b \in 0..n*s-1, NEW c \in 0..n*s-1,
         b % n = c % n, (b \div n) % s = (c \div n) % s
  PROVE  b = c
  <1>1. b \div n = c \div n
    BY PlaceInBank
  <1>2. b = n * (b \div n) + (b % n) /\ c = n * (c \div n) + (c % n)
    BY Division
  <1> QED BY <1>1, <1>2

LEMMA SetIs ==
  ASSUME ExactLog, NEW c, c.bits = L2Bits, NEW b
  PROVE  SetOf(c, b) = (b \div NumL2Caches) % L2Sets
  <1> DEFINE k == MESI!Log2(NumL2Caches)
             x == CHOOSE y \in c.bits : TRUE
  <1>1. k \in Nat /\ 2^k = NumL2Caches
    BY DEF ExactLog
  <1> HIDE DEF k
  <1>2. c.bits = {LineBits + k}
    BY DEF L2Bits, k
  <1>3. x = LineBits + k
    BY <1>2
  <1> HIDE DEF x
  <1>4. x - LineBits = k
    BY <1>1, <1>3, RubyAssumption
  <1>5. SetOf(c, b) = (b \div 2^(x - LineBits)) % L2Sets
    BY DEF SetOf, x
  <1> QED BY <1>1, <1>4, <1>5

LEMMA SpreadMade == ExactLog /\ PartsSoFar => BanksSpread
  <1> SUFFICES ASSUME ExactLog, PartsSoFar,
                      NEW i \in OfKind(controllers, "L2Cache"),
                      NEW b \in 0..NumL2Caches*L2Sets-1, NEW c \in 0..NumL2Caches*L2Sets-1,
                      b % NumL2Caches = controllers[i].version,
                      c % NumL2Caches = controllers[i].version,
                      SetOf(controllers[i], b) = SetOf(controllers[i], c)
               PROVE  b = c
    BY DEF BanksSpread
  <1> DEFINE n == args.cpus
             d == Len(DmaPorts)
  <1>1. n \in Nat /\ d \in Nat /\ L2Count \in Nat
    BY RubyAssumption DEF PartsSoFar, Arguments, L2Count, ByProtocol, DmaPorts
  <1>2. InOrder(controllers, n, L2Count, d, VirtualNetworks, L2Bits)
    <2>1. controllers # << >>
      BY DEF OfKind
    <2> QED BY <2>1 DEF PartsSoFar
  <1> HIDE DEF n, d
  <1>3. KindsApart(controllers, n, L2Count, d)
    BY <1>1, <1>2, KindsAre
  <1>4. controllers[i].bits = L2Bits
    <2> DEFINE j == i - n
    <2>1. j \in 1..L2Count /\ n + j = i
      BY <1>1, <1>3 DEF KindsApart
    <2> HIDE DEF j
    <2>2. controllers[n + j].bits = L2Bits
      BY <1>2, <2>1 DEF InOrder
    <2> QED BY <2>1, <2>2
  <1>5. (b \div NumL2Caches) % L2Sets = (c \div NumL2Caches) % L2Sets
    BY <1>4, SetIs
  <1> QED BY <1>5, BankAndPlace, RubyAssumption

-----------------------------------------------------------------------------
(* The theorems.                                                           *)

RubyInv == NetworkSoFar /\ PartsSoFar /\ RouteSound

LEMMA RubyInvAlways == Spec => []RubyInv
  <1>1. Init => RubyInv
    BY NetworkInit, PartsInit, RouteInit DEF RubyInv
  <1>2. RubyInv /\ [Next]_vars => RubyInv'
    BY NetworkNext, PartsNext, RouteNext DEF RubyInv
  <1> QED BY <1>1, <1>2, PTL DEF Spec

\* Once the network is made, for any number of CPUs and banks and each protocol, one
\* link leads from every router to every other, and no two links share a number.
THEOREM NetworkIsComplete == Spec => []NetworkComplete
  <1>1. RubyInv => NetworkComplete
    BY NetworkSafe DEF RubyInv
  <1> QED BY RubyInvAlways, <1>1, PTL

\* No port is given two peers, for any number of CPUs and each protocol and ISA: the
\* disk controller's DMA goes to its sequencer and not to the I/O bus as well.
THEOREM NoPortTwice == Spec => []PortsBoundOnce
  <1>1. RubyInv => PortsBoundOnce
    BY PortsMade DEF RubyInv
  <1> QED BY RubyInvAlways, <1>1, PTL

\* For any number of CPUs and banks and each protocol, the controllers of a kind are
\* numbered without gaps, each sequencer stands before the controller of its number,
\* and no controller has more buffers than there are networks (setup, the pairing
\* loops of the three classes).
THEOREM PairsAreByNumber == Spec => []PairedByNumber
  <1>1. RubyInv => PairedByNumber
    BY PairedMade DEF RubyInv
  <1> QED BY RubyInvAlways, <1>1, PTL

\* For any number of CPUs, any size of the banks and any number of them that is a
\* power of two, no two of as many consecutive blocks as there is room for share a
\* set of a bank (start_index_bit of the two L2Cache classes).
THEOREM BlocksAreSpread ==
  ASSUME ExactLog PROVE Spec => []BanksSpread
  <1>1. RubyInv => BanksSpread
    BY SpreadMade DEF RubyInv
  <1> QED BY RubyInvAlways, <1>1, PTL

\* For any number of CPUs and banks and each protocol and ISA, a request that has
\* arrived is at the owner of its address, and a CPU's request for memory has passed
\* the L1 cache of that CPU.
THEOREM RequestsEndAtOwner == Spec => []EndsAtOwner
  <1>1. RubyInv => EndsAtOwner
    <2> SUFFICES ASSUME RubyInv, Arrived PROVE EndsAtOwner
      BY DEF EndsAtOwner
    <2> DEFINE p == Last(route)
    <2>1. /\ route # << >>
          /\ \/ p[1] \in {"mem_cntrl", "interrupts", "devices", "pci_host"}
             \/ p[1] = "proxy" /\ addr = Memory
      BY DEF Arrived
    <2>2. OnTheWay(p, addr) /\ Len(route) >= 2 /\ \E S : route \in Seq(S)
      BY <2>1 DEF RubyInv, RouteSound
    <2>3. Owner(p) \in OwnerOf(addr)
      BY <2>1, <2>2 DEF OnTheWay, IobusIn, Port
    <2>4. ASSUME route[1][1] = "cpu", addr = Memory PROVE PastL1(route)
      <3>1. route[2] = MI!SequencerIn(route[1][2])
        BY <2>1, <2>4 DEF RubyInv, RouteSound
      <3>2. Len(route) # 2
        <4> SUFFICES ASSUME Len(route) = 2 PROVE FALSE
          OBVIOUS
        <4>1. p = MI!SequencerIn(route[1][2])
          BY <3>1 DEF Last
        <4> QED BY <2>1, <4>1 DEF MI!SequencerIn, MI!Port
      <3>3. Len(route) > 2
        <4>1. PICK S : route \in Seq(S)
          BY <2>2
        <4> DEFINE k == Len(route)
        <4>2. k \in Nat /\ k >= 2 /\ k # 2
          BY <2>2, <3>2, <4>1
        <4> HIDE DEF k
        <4>3. k > 2
          BY <4>2
        <4> QED BY <4>3 DEF k
      <3> QED BY <2>1, <2>4, <3>3 DEF RubyInv, RouteSound
    <2> QED BY <2>3, <2>4 DEF EndsAtOwner, PastL1
  <1> QED BY RubyInvAlways, <1>1, PTL

-----------------------------------------------------------------------------
(* No request goes round, and none is stuck.                               *)

\* How far a request for address a still has to go.
Distance(p, a) ==
  CASE p[1] = "sequencer" /\ p[3] = "in_ports" -> IF a = Memory THEN 4 ELSE 6
    [] p[1] = "sequencer" /\ p[3] = "pio_response_port" -> 4
    [] p[1] = "iobus" -> 5
    [] p[1] = "controller" ->
         IF controllers[p[2]].kind = "L1Cache" THEN 3
         ELSE IF controllers[p[2]].kind = "Directory" THEN 1 ELSE 2
    [] OTHER -> 0

LEMMA DistanceIs ==
  ASSUME NEW p, NEW a
  PROVE  /\ Distance(p, a) \in Nat
         /\ p[1] = "sequencer" /\ p[3] = "in_ports" =>
              Distance(p, a) = IF a = Memory THEN 4 ELSE 6
         /\ p[1] = "sequencer" /\ p[3] = "pio_response_port" => Distance(p, a) = 4
         /\ p[1] = "iobus" => Distance(p, a) = 5
         /\ p[1] = "controller" /\ controllers[p[2]].kind = "L1Cache" => Distance(p, a) = 3
         /\ p[1] = "controller" /\ controllers[p[2]].kind \in {"L2Cache", "DMA"}
              => Distance(p, a) = 2
         /\ p[1] = "controller" /\ controllers[p[2]].kind = "Directory" => Distance(p, a) = 1
         /\ p[1] \in {"mem_cntrl", "interrupts", "devices", "pci_host"} => Distance(p, a) = 0
  BY DEF Distance

\* What is at hand once the system is made.
Arranged ==
  /\ args \in Arguments /\ links = AllLinks
  /\ KindsApart(controllers, args.cpus, L2Count, Len(DmaPorts))
  /\ Len(controllers) = args.cpus + L2Count + 1 + Len(DmaPorts)
  /\ \A i \in 1..L2Count : controllers[args.cpus+i].version = i - 1
  /\ \A i \in OfKind(controllers, "Directory") : controllers[i].version = 0

LEMMA ArrangedIs == PartsSoFar /\ step = "built" => Arranged
  <1> SUFFICES ASSUME PartsSoFar, step = "built" PROVE Arranged
    OBVIOUS
  <1> DEFINE n == args.cpus
             d == Len(DmaPorts)
  <1>1. n \in Nat /\ d \in Nat /\ L2Count \in Nat
    BY RubyAssumption DEF PartsSoFar, Arguments, L2Count, ByProtocol, DmaPorts
  <1>2. InOrder(controllers, n, L2Count, d, VirtualNetworks, L2Bits)
    BY DEF PartsSoFar, Early, Ended
  <1>3. links = AllLinks /\ args \in Arguments
    BY DEF PartsSoFar, RubyLinks, Early, Ended, After
  <1> HIDE DEF n, d
  <1>4. KindsApart(controllers, n, L2Count, d)
    BY <1>1, <1>2, KindsAre
  <1>5. /\ Len(controllers) = n + L2Count + 1 + d
        /\ \A i \in 1..L2Count : controllers[n+i].version = i - 1
        /\ controllers[n+L2Count+1].version = 0
    BY <1>2 DEF InOrder
  <1>6. \A i \in OfKind(controllers, "Directory") : controllers[i].version = 0
    BY <1>1, <1>4, <1>5 DEF KindsApart
  <1> QED BY <1>3, <1>4, <1>5, <1>6 DEF Arranged, n, d

\* A controller is of one of four kinds, and hands a request to another kind.
LEMMA KindsOfAll ==
  ASSUME Arranged, NEW i \in 1..Len(controllers)
  PROVE  /\ controllers[i].kind \in {"L1Cache", "L2Cache", "DMA", "Directory"}
         /\ \A k : i \in OfKind(controllers, k) <=> controllers[i].kind = k
  <1>1. args.cpus \in Nat /\ Len(DmaPorts) \in Nat /\ L2Count \in Nat
    BY RubyAssumption DEF Arranged, Arguments, L2Count, ByProtocol, DmaPorts
  <1>2. \A k : i \in OfKind(controllers, k) <=> controllers[i].kind = k
    BY DEF OfKind
  <1> DEFINE n == args.cpus
             m == L2Count
             d == Len(DmaPorts)
  <1>3. /\ OfKind(controllers, "L1Cache") = 1..n
        /\ OfKind(controllers, "L2Cache") = n+1..n+m
        /\ OfKind(controllers, "Directory") = n+m+1..n+m+1
        /\ OfKind(controllers, "DMA") = n+m+2..n+m+1+d
        /\ i \in 1..n+m+1+d
    BY DEF Arranged, KindsApart
  <1> HIDE DEF n, m, d
  <1>4. n \in Nat /\ m \in Nat /\ d \in Nat
    BY <1>1 DEF n, m, d
  <1>5. i \in 1..n \/ i \in n+1..n+m \/ i \in n+m+1..n+m+1 \/ i \in n+m+2..n+m+1+d
    BY <1>3, <1>4
  <1> QED BY <1>2, <1>3, <1>5

LEMMA NextIsCloser ==
  ASSUME Arranged, NEW i \in 1..Len(controllers), controllers[i].kind # "Directory",
         NEW j \in NextLevel(i)
  PROVE  /\ j \in 1..Len(controllers)
         /\ controllers[j].kind \in {"L2Cache", "Directory"}
         /\ controllers[j].kind = "L2Cache" => controllers[i].kind = "L1Cache"
  BY DEF NextLevel, Banks, OfKind

LEMMA HopIsCloser ==
  ASSUME PartsSoFar, step = "built", NEW a \in Addresses, NEW p, OnTheWay(p, a),
         p[1] \notin {"mem_cntrl", "interrupts", "devices", "pci_host"},
         p[1] = "proxy" => a # Memory, NEW q \in Hops(p, a)
  PROVE  Distance(q, a) < Distance(p, a)
  <1>0. Arranged
    BY ArrangedIs
  <1>1. links = AllLinks /\ args \in Arguments
    BY <1>0 DEF Arranged
  <1>2. CASE p[1] = "sequencer" /\ p[3] = "in_ports" /\ a = Memory
    <2>1. PICK i \in 1..Len(controllers) : q = ControllerPort(i)
      BY <1>2 DEF Hops, Owner
    <2>2. q[1] = "controller" /\ q[2] = i
      BY <2>1 DEF ControllerPort, Port
    <2>3. controllers[i].kind \in {"L1Cache", "L2Cache", "DMA", "Directory"}
      BY <1>0, KindsOfAll
    <2>4. Distance(q, a) \in {1, 2, 3}
      BY <2>2, <2>3, DistanceIs
    <2>5. Distance(p, a) = 4
      BY <1>2, DistanceIs
    <2> QED BY <2>4, <2>5
  <1>3. CASE p[1] = "sequencer" /\ p[3] = "in_ports" /\ a # Memory
    <2>1. PICK l \in links : /\ l[2] = q
                             /\ l[1] \in {<<p[1], p[2], "pio_request_port">>,
                                          <<p[1], p[2], "mem_request_port">>}
      BY <1>3 DEF Hops, Owner, Port
    <2>2. PcLink(l) \/ \E i \in Cpus : CpuLink(l, i)
      BY <1>1, LinkIs
    <2>3. q[1] = "iobus"
      BY <1>3, <2>1, <2>2 DEF PcLink, CpuLink, IsLink
    <2>4. Distance(q, a) = 5 /\ Distance(p, a) = 6
      BY <1>3, <2>3, DistanceIs
    <2> QED BY <2>4
  <1>4. CASE p[1] = "sequencer" /\ p[3] = "pio_response_port"
    <2>1. q \in Behind(<<p[1], p[2]>>, "interrupt_out_port", a)
      BY <1>4 DEF Hops, Owner
    <2>2. PICK l \in links : l[2] = q /\ l[1] = <<p[1], p[2], "interrupt_out_port">>
      BY <2>1 DEF Behind, Port
    <2>3. PcLink(l) \/ \E i \in Cpus : CpuLink(l, i)
      BY <1>1, LinkIs
    <2>4. q[1] = "interrupts"
      BY <2>2, <2>3 DEF PcLink, CpuLink, IsLink
    <2>5. Distance(q, a) = 0 /\ Distance(p, a) = 4
      BY <1>4, <2>4, DistanceIs
    <2> QED BY <2>5
  <1>5. CASE p[1] = "controller" /\ p[3] = "buffer" /\ p[2] \in 1..Len(controllers)
    <2> DEFINE i == p[2]
    <2>1. CASE controllers[i].kind # "Directory"
      <3>1. PICK j \in NextLevel(i) : q = ControllerPort(j)
        BY <1>5, <2>1 DEF Hops, Owner
      <3>2. q[1] = "controller" /\ q[2] = j
        BY <3>1 DEF ControllerPort, Port
      <3>3. /\ controllers[j].kind \in {"L2Cache", "Directory"}
            /\ controllers[j].kind = "L2Cache" => controllers[i].kind = "L1Cache"
        BY <1>0, <1>5, <2>1, <3>1, NextIsCloser
      <3>4. controllers[i].kind \in {"L1Cache", "L2Cache", "DMA"}
        BY <1>0, <1>5, <2>1, KindsOfAll
      <3>5. Distance(p, a) = 3 \/ (Distance(p, a) = 2 /\ controllers[i].kind # "L1Cache")
        BY <1>5, <3>4, DistanceIs
      <3>6. Distance(q, a) = 1 \/ (Distance(q, a) = 2 /\ controllers[j].kind = "L2Cache")
        BY <3>2, <3>3, DistanceIs
      <3> QED BY <3>3, <3>5, <3>6
    <2>2. CASE controllers[i].kind = "Directory"
      <3>1. PICK l \in links : l[2] = q /\ l[1][1] = "Directory"
        BY <1>5, <2>2 DEF Hops, Owner, Port
      <3>2. PcLink(l) \/ \E c \in Cpus : CpuLink(l, c)
        BY <1>1, LinkIs
      <3>3. q[1] = "mem_cntrl"
        BY <3>1, <3>2 DEF PcLink, CpuLink, IsLink
      <3>4. Distance(q, a) = 0 /\ Distance(p, a) = 1
        BY <1>5, <2>2, <3>3, DistanceIs
      <3> QED BY <3>4
    <2> QED BY <2>1, <2>2
  <1>6. CASE p = IobusIn
    <2>0. Distance(p, a) = 5
      BY <1>6, DistanceIs DEF IobusIn, Port
    <2>1. PICK l \in links : /\ l[2] = q /\ l[1][1] = "iobus"
                             /\ l[1][3] = "default" \/ IobusServes(q, a)
      BY <1>6 DEF Hops, IobusIn, Port, Owner
    <2>2. PcLink(l) \/ \E i \in Cpus : CpuLink(l, i)
      BY <1>1, LinkIs
    <2>3. \/ q[1] \in {"devices", "pci_host"}
          \/ q[1] = "sequencer" /\ q[3] = "pio_response_port"
          \/ q[1] = "sequencer" /\ q[3] = "in_ports" /\ IobusServes(q, a)
      BY <2>1, <2>2 DEF PcLink, CpuLink, IsLink
    <2>4. CASE q[1] = "sequencer" /\ q[3] = "in_ports" /\ IobusServes(q, a)
      <3>1. a = Memory
        BY <2>4 DEF IobusServes, DeviceServes
      <3>2. Distance(q, a) = 4
        BY <2>4, <3>1, DistanceIs
      <3> QED BY <2>0, <3>2
    <2>5. CASE q[1] = "sequencer" /\ q[3] = "pio_response_port"
      <3>1. Distance(q, a) = 4
        BY <2>5, DistanceIs
      <3> QED BY <2>0, <3>1
    <2>6. CASE q[1] \in {"devices", "pci_host"}
      <3>1. Distance(q, a) = 0
        BY <2>6, DistanceIs
      <3> QED BY <2>0, <3>1
    <2> QED BY <2>3, <2>4, <2>5, <2>6
  <1>7. CASE Owner(p) \in OwnerOf(a)
    BY <1>7 DEF Owner, OwnerOf
  <1> QED BY <1>2, <1>3, <1>4, <1>5, <1>6, <1>7 DEF OnTheWay

\* Each controller has a link to the router of its number, and the block asked for
\* is a number.
LinkedOut ==
  /\ block \in Nat
  /\ step \in {"rows"} \cup Done => network.ext_links = MI!ExtLinks(controllers)

LEMMA LinkedInit == Init => LinkedOut
  BY DEF Init, LinkedOut, Done

LEMMA LinkedNext == NetworkSoFar /\ LinkedOut /\ [Next]_vars => LinkedOut'
  <1> SUFFICES ASSUME NetworkSoFar, LinkedOut, [Next]_vars PROVE LinkedOut'
    OBVIOUS
  <1>1. block' \in Nat
    <2>1. CASE Issue
      <3>1. 0..NumL2Caches-1 \subseteq Nat
        BY RubyAssumption
      <3> QED BY <2>1, <3>1 DEF Issue
    <2>2. CASE ~Issue
      <3>1. block' = block
        BY <2>2 DEF Next, Build, InitFS, CreateCPU, ChooseCaches, CreateControllers,
             CreateSequencers, PairSequencers, ConnectControllers, ConnectRow, ConnectPorts,
             SetEventQueues, Make, Hop, Stop, vars
      <3> QED BY <3>1 DEF LinkedOut
    <2> QED BY <2>1, <2>2
  <1>2. ASSUME step' \in {"rows"} \cup Done
        PROVE  network'.ext_links = MI!ExtLinks(controllers')
    <2>1. CASE ConnectControllers
      <3>1. controllers' = controllers
        BY <2>1 DEF ConnectControllers
      <3>2. ByProtocol(MI!ControllerLinks(controllers), MESI!ControllerLinks(controllers),
                       MOESI!ControllerLinks(controllers)) = MI!ExtLinks(controllers)
        BY DEF ByProtocol, MI!ControllerLinks, MESI!ControllerLinks, MOESI!ControllerLinks,
               MI!ExtLinks, MESI!ExtLinks, MOESI!ExtLinks
      <3> DEFINE x == MI!ExtLinks(controllers)
      <3>3. network' = [network EXCEPT !.routers = Len(controllers), !.ext_links = x]
        BY <2>1, <3>2 DEF ConnectControllers
      <3> HIDE DEF x
      <3>4. network'.ext_links = x
        BY <3>3 DEF NetworkSoFar, IsNetwork
      <3> QED BY <3>1, <3>4 DEF x
    <2>2. CASE ConnectRow
      <3>1. controllers' = controllers /\ step = "rows"
        BY <2>2 DEF ConnectRow, Make
      <3> DEFINE x == network.int_links \cup
                        ByProtocol(MI!RouterLinks(network.routers, network.row, network.link_count),
                                   MESI!RouterLinks(network.routers, network.row, network.link_count),
                                   MOESI!RouterLinks(network.routers, network.row, network.link_count))
                 y == network.link_count + network.routers - 1
                 z == network.row + 1
      <3>2. network' = [network EXCEPT !.int_links = x, !.link_count = y, !.row = z]
        BY <2>2 DEF ConnectRow
      <3> HIDE DEF x, y, z
      <3>3. network'.ext_links = network.ext_links
        BY <3>2 DEF NetworkSoFar, IsNetwork
      <3> QED BY <3>1, <3>3 DEF LinkedOut
    <2>3. CASE InitFS \/ CreateCPU \/ ChooseCaches \/ CreateControllers \/ CreateSequencers
               \/ PairSequencers
      <3>1. step' \notin {"rows"} \cup Done
        BY <2>3 DEF InitFS, CreateCPU, ChooseCaches, CreateControllers, CreateSequencers,
                    PairSequencers, Make, Done
      <3> QED BY <1>2, <3>1
    <2>4. CASE ConnectPorts \/ SetEventQueues
      <3>1. step \in {"rows"} \cup Done /\ UNCHANGED <<network, controllers>>
        BY <2>4 DEF ConnectPorts, SetEventQueues, Make, Done
      <3> QED BY <3>1 DEF LinkedOut
    <2>5. CASE Issue \/ Hop \/ Stop \/ UNCHANGED vars
      <3>1. UNCHANGED <<step, network, controllers>>
        BY <2>5 DEF Issue, Hop, Stop, vars, buildVars
      <3> QED BY <1>2, <3>1 DEF LinkedOut
    <2> QED BY <2>1, <2>2, <2>3, <2>4, <2>5 DEF Next, Build
  <1> QED BY <1>1, <1>2 DEF LinkedOut

\* There is a way over the network between any two controllers.
LEMMA AllReached ==
  ASSUME NetworkSoFar, LinkedOut, step = "built",
         NEW i \in 1..Len(controllers), NEW j \in 1..Len(controllers), i # j
  PROVE  Reaches(i, j)
  <1> DEFINE k == Len(controllers)
  <1>1. k \in Nat /\ Full(network.int_links, k, k)
    BY DEF NetworkSoFar, NonEmptyList, Listed, Done, Rows
  <1>2. network.ext_links = {[id |-> x, node |-> x, router |-> x] : x \in 0..k-1}
    BY DEF LinkedOut, Done, MI!ExtLinks
  <1> HIDE DEF k
  <1>3. i \in 1..k /\ j \in 1..k
    BY DEF k
  <1>4. i - 1 \in 0..k-1 /\ j - 1 \in 0..k-1 /\ i - 1 # j - 1
    BY <1>1, <1>3
  <1> DEFINE e == [id |-> i - 1, node |-> i - 1, router |-> i - 1]
             f == [id |-> j - 1, node |-> j - 1, router |-> j - 1]
  <1>5. /\ e \in network.ext_links /\ f \in network.ext_links
        /\ e.node = i - 1 /\ f.node = j - 1 /\ e.router = i - 1 /\ f.router = j - 1
    BY <1>2, <1>4
  <1>6. PICK l \in network.int_links : l.src = i - 1 /\ l.dst = j - 1
    BY <1>1, <1>4 DEF Full
  <1> HIDE DEF e, f
  <1> QED BY <1>5, <1>6 DEF Reaches

\* Wherever there are banks, each block has one.
LEMMA ABank ==
  ASSUME Arranged, OfKind(controllers, "L2Cache") # {}, block \in Nat
  PROVE  Banks(block) # {}
  <1> DEFINE n == args.cpus
             k == 2^MESI!BankBits
             v == block % k
  <1>1. n \in Nat /\ L2Count \in Nat
    BY RubyAssumption DEF Arranged, Arguments, L2Count, ByProtocol
  <1>2. OfKind(controllers, "L2Cache") = n+1..n+L2Count
    BY DEF Arranged, KindsApart
  <1>3. CASE args.mem_sys # "MESI_Two_Level"
    BY <1>3 DEF Banks
  <1>4. CASE args.mem_sys = "MESI_Two_Level"
    <2>1. L2Count = NumL2Caches
      BY <1>4 DEF L2Count, ByProtocol
    <2>2. k \in 1..NumL2Caches /\ NumL2Caches \in Nat
      BY BanksAssumption, RubyAssumption
    <2>3. v = block % k
      OBVIOUS
    <2> HIDE DEF k, n
    <2>4. v \in 0..NumL2Caches-1
      <3>1. v \in 0..k-1
        BY <2>2
      <3> HIDE DEF v
      <3> QED BY <2>2, <3>1
    <2> HIDE DEF v
    <2> DEFINE w == v + 1
    <2>5. w \in 1..L2Count /\ w - 1 = v
      BY <2>1, <2>2, <2>4
    <2> HIDE DEF w
    <2>6. n + w \in n+1..n+L2Count
      BY <1>1, <2>5 DEF n
    <2>7. controllers[n + w].version = w - 1
      BY <2>5 DEF Arranged, n
    <2> DEFINE j == n + w
    <2>8. j \in OfKind(controllers, "L2Cache") /\ controllers[j].version = block % k
      BY <1>2, <2>3, <2>5, <2>6, <2>7 DEF n
    <2> HIDE DEF j
    <2> QED BY <2>8 DEF Banks, k
  <1> QED BY <1>3, <1>4

\* A sequencer stands before a controller.
LEMMA BehindSequencer ==
  ASSUME PartsSoFar, step = "built", NEW c \in 0..args.cpus+1
  PROVE  \E j \in 1..Len(controllers) : controllers[j].sequencer = c
  <1> DEFINE n == args.cpus
             d == Len(DmaPorts)
             s == c + 1
  <1>1. n \in Nat /\ d \in Nat /\ L2Count \in Nat /\ d = 2
    BY RubyAssumption DEF PartsSoFar, Arguments, L2Count, ByProtocol, DmaPorts
  <1>2. /\ InOrder(controllers, n, L2Count, d, VirtualNetworks, L2Bits)
        /\ Paired(controllers, n, d) /\ CoresThenDma(sequencers, n, d)
    BY DEF PartsSoFar, Early, Ended, After
  <1>3. s \in 1..Len(sequencers) /\ s - 1 = c
    BY <1>1, <1>2 DEF CoresThenDma
  <1> HIDE DEF n, d, s
  <1>4. HasItsController(controllers, sequencers, s)
    BY <1>1, <1>2, <1>3, EachHasItsSequencer
  <1>5. PICK i : {j \in 1..Len(controllers) : controllers[j].sequencer = s - 1} = {i}
    BY <1>4 DEF HasItsController
  <1> QED BY <1>3, <1>5

\* Each port but the owners of addresses has a port to go on to.
LEMMA AWayOn ==
  ASSUME NetworkSoFar, PartsSoFar, LinkedOut, step = "built",
         NEW a \in Addresses, NEW p, OnTheWay(p, a),
         p[1] \notin {"mem_cntrl", "interrupts", "devices", "pci_host"},
         p[1] = "proxy" => a # Memory
  PROVE  Hops(p, a) # {}
  <1>0. Arranged
    BY ArrangedIs
  <1>1. links = AllLinks /\ args \in Arguments
    BY <1>0 DEF Arranged
  <1>2. CASE p[1] = "sequencer" /\ p[3] = "in_ports" /\ a = Memory /\ p[2] \in 0..args.cpus+1
    <2>1. PICK j \in 1..Len(controllers) : controllers[j].sequencer = p[2]
      BY <1>2, BehindSequencer
    <2>2. ControllerPort(j) \in Hops(p, a)
      BY <1>2, <2>1 DEF Hops, Owner
    <2> QED BY <2>2
  <1>3. CASE p[1] = "sequencer" /\ p[3] = "in_ports" /\ a # Memory /\ p[2] \in Cpus
    <2>1. <<<<"sequencer", p[2], "pio_request_port">>, IobusIn>> \in links
      BY <1>1, <1>3, LinkIs DEF CpuLink, IsLink, IobusIn, Port
    <2>2. IobusIn \in Hops(p, a)
      BY <1>3, <2>1 DEF Hops, Owner, Port
    <2> QED BY <2>2
  <1>4. CASE /\ p[1] = "sequencer" /\ p[3] = "pio_response_port" /\ p[2] \in Cpus
             /\ a \in {Apic(p[2]), Lapic(p[2])}
    <2>1. args.isa = "x86"
      BY <1>4 DEF Addresses, LocalAddresses, Apic, Lapic, Memory, PciMemory, IoSpace, PciConfig
    <2> DEFINE line == <<"sequencer", p[2], "interrupt_out_port">>
    <2>2. /\ <<line, <<"interrupts", p[2], "pio">>>> \in links
          /\ <<line, <<"interrupts", p[2], "int_responder">>>> \in links
      BY <1>1, <1>4, <2>1, LinkIs DEF CpuLink, IsLink
    <2>3. \/ DeviceServes(<<"interrupts", p[2], "pio">>, a)
          \/ DeviceServes(<<"interrupts", p[2], "int_responder">>, a)
      BY <1>4 DEF DeviceServes
    <2>4. PICK x : <<line, x>> \in links /\ DeviceServes(x, a)
      BY <2>2, <2>3
    <2>5. x \in Hops(p, a)
      BY <1>4, <2>4 DEF Hops, Behind, Owner, Port
    <2> QED BY <2>5
  <1>5. CASE p[1] = "controller" /\ p[3] = "buffer" /\ p[2] \in 1..Len(controllers)
    <2> DEFINE i == p[2]
    <2>1. CASE controllers[i].kind # "Directory"
      <3>1. NextLevel(i) # {}
        <4>1. OfKind(controllers, "Directory") # {}
          <5> DEFINE n == args.cpus
                     m == L2Count
          <5>1. n \in Nat /\ m \in Nat
            BY RubyAssumption DEF PartsSoFar, Arguments, L2Count, ByProtocol
          <5>2. OfKind(controllers, "Directory") = n+m+1..n+m+1
            BY <1>0 DEF Arranged, KindsApart
          <5> HIDE DEF n, m
          <5> QED BY <5>1, <5>2
        <4> QED BY <1>0, <4>1, ABank DEF NextLevel, LinkedOut
      <3>2. PICK j \in NextLevel(i) : TRUE
        BY <3>1
      <3>3. /\ j \in 1..Len(controllers)
            /\ controllers[j].kind \in {"L2Cache", "Directory"}
            /\ controllers[j].kind = "L2Cache" => controllers[i].kind = "L1Cache"
        BY <1>0, <1>5, <2>1, <3>2, NextIsCloser
      <3>4. i # j
        BY <2>1, <3>3
      <3>5. Reaches(i, j)
        BY <1>5, <3>3, <3>4, AllReached
      <3>6. ControllerPort(j) \in Hops(p, a)
        BY <1>5, <2>1, <3>2, <3>5 DEF Hops, Owner
      <3> QED BY <3>6
    <2>2. CASE controllers[i].kind = "Directory"
      <3>1. controllers[i].version = 0
        BY <1>0, <1>5, <2>2, KindsOfAll DEF Arranged
      <3>2. <<<<"Directory", 0, "memory_out_port">>, <<"mem_cntrl", 0, "port">>>> \in links
        BY <1>1, LinkIs DEF PcLink, IsLink
      <3>3. <<"mem_cntrl", 0, "port">> \in Hops(p, a)
        BY <1>5, <2>2, <3>1, <3>2 DEF Hops, Owner, Port
      <3> QED BY <3>3
    <2> QED BY <2>1, <2>2
  <1>6. CASE p = IobusIn
    <2> DEFINE claims == {x \in {l[2] : l \in {m \in links :
                                   m[1] = <<"iobus", 0, "mem_side_ports">>}} : IobusServes(x, a)}
               default == {l[2] : l \in {m \in links : m[1] = <<"iobus", 0, "default">>}}
    <2>1. Hops(p, a) = IF claims # {} THEN claims ELSE default
      BY <1>6 DEF Hops, IobusIn, Port, Owner
    <2>2. <<<<"iobus", 0, "default">>, <<"pci_host", 0, "pio">>>> \in links
      BY <1>1, LinkIs DEF PcLink, IsLink
    <2>3. <<"pci_host", 0, "pio">> \in default
      BY <2>2
    <2> QED BY <2>1, <2>3
  <1>7. CASE Owner(p) \in OwnerOf(a)
    BY <1>7 DEF Owner, OwnerOf
  <1> QED BY <1>2, <1>3, <1>4, <1>5, <1>6, <1>7 DEF OnTheWay

\* Each port that a request has come to is closer to its end than those before.
Descending ==
  route # << >> =>
    \A i, j \in 2..Len(route) :
      i < j => Distance(route[j], addr) < Distance(route[i], addr)

LEMMA DescendingNext == RubyInv /\ Descending /\ [Next]_vars => Descending'
  <1> SUFFICES ASSUME RubyInv, Descending, [Next]_vars, (route # << >>)'
               PROVE  \A i, j \in 2..Len(route') :
                        i < j => Distance(route[j], addr)' < Distance(route[i], addr)'
    BY DEF Descending
  <1>a. UNCHANGED <<controllers, addr>> =>
          \A r : Distance(r, addr)' = Distance(r, addr)
    BY DEF Distance
  <1>1. CASE Build
    <2>1. step # "built" /\ UNCHANGED route
      BY <1>1 DEF Build, InitFS, CreateCPU, ChooseCaches, CreateControllers, CreateSequencers,
             PairSequencers, ConnectControllers, ConnectRow, ConnectPorts, SetEventQueues, Make
    <2> QED BY <2>1 DEF RubyInv, RouteSound
  <1>2. CASE Issue
    <2>1. PICK x, y : route' = <<x, y>>
      <3>1. CASE \E l \in links : \E a \in Sent(l[1]) : addr' = a /\ route' = l
        <4>1. PICK l \in links : \E a \in Sent(l[1]) : addr' = a /\ route' = l
          BY <3>1
        <4>2. PcLink(l) \/ \E i \in Cpus : CpuLink(l, i)
          <5>1. links = AllLinks /\ args \in Arguments
            BY <1>2, ArrangedIs DEF RubyInv, Issue, Arranged
          <5> QED BY <5>1, LinkIs
        <4>3. l = <<l[1], l[2]>>
          BY <4>2 DEF PcLink, CpuLink, IsLink
        <4> QED BY <4>1, <4>3
      <3> QED BY <1>2, <3>1 DEF Issue
    <2>2. Len(route') = 2
      BY <2>1
    <2> QED BY <2>2
  <1>3. CASE Hop
    <2> DEFINE n == Len(route)
               p == Last(route)
    <2>1. PICK q \in Hops(p, addr) : route' = Append(route, q)
      BY <1>3 DEF Hop
    <2>2. route # << >> /\ ~Arrived /\ UNCHANGED <<controllers, addr>>
      BY <1>3 DEF Hop, buildVars
    <2>3. PICK S : route \in Seq(S)
      BY <2>2 DEF RubyInv, RouteSound
    <2>4. /\ n \in Nat /\ n >= 2 /\ p = route[n]
          /\ Len(route') = n + 1 /\ route'[n + 1] = q
          /\ \A i \in 1..n : route'[i] = route[i]
      BY <2>1, <2>2, <2>3 DEF RubyInv, RouteSound, Last
    <2>5. Distance(q, addr) < Distance(p, addr)
      <3>1. /\ PartsSoFar /\ step = "built" /\ addr \in Addresses /\ OnTheWay(p, addr)
            /\ p[1] \notin {"mem_cntrl", "interrupts", "devices", "pci_host"}
            /\ p[1] = "proxy" => addr # Memory
        BY <2>2 DEF RubyInv, RouteSound, Arrived
      <3> HIDE DEF p
      <3> QED BY <2>1, <3>1, HopIsCloser
    <2> DEFINE D(r) == Distance(r, addr)
    <2>6. /\ \A i, j \in 2..n : i < j => D(route[j]) < D(route[i])
          /\ \A r : D(r) \in Nat
      BY <2>2, DistanceIs DEF Descending
    <2> SUFFICES ASSUME NEW i \in 2..n+1, NEW j \in 2..n+1, i < j
                 PROVE  D(route'[j]) < D(route'[i])
      <3>1. \A r : Distance(r, addr)' = D(r)
        BY <1>a, <2>2
      <3> HIDE DEF D, n
      <3> QED BY <2>4, <3>1
    <2>7. i \in 2..n /\ route'[i] = route[i]
      BY <2>4
    <2>8. CASE j \in 2..n
      BY <2>4, <2>6, <2>7, <2>8
    <2>9. CASE j = n + 1
      <3>1. D(route'[j]) < D(route[n]) /\ n \in 2..n
        BY <2>4, <2>5, <2>9
      <3>2. i = n \/ D(route[n]) < D(route[i])
        BY <2>4, <2>6, <2>7
      <3> HIDE DEF n, p, D
      <3> QED BY <2>6, <2>7, <3>1, <3>2
    <2> QED BY <2>4, <2>8, <2>9
  <1>4. CASE Stop \/ UNCHANGED vars
    <2>1. UNCHANGED <<controllers, addr, route>>
      BY <1>4 DEF Stop, vars, buildVars
    <2>2. \A r : Distance(r, addr)' = Distance(r, addr)
      BY <1>a, <2>1
    <2> QED BY <2>1, <2>2 DEF Descending
  <1> QED BY <1>1, <1>2, <1>3, <1>4 DEF Next

LEMMA DescendingAlways == Spec => [](RubyInv /\ LinkedOut /\ Descending)
  <1>1. Init => LinkedOut /\ Descending
    BY LinkedInit DEF Init, Descending
  <1>2. RubyInv /\ LinkedOut /\ Descending /\ [Next]_vars => LinkedOut' /\ Descending'
    BY LinkedNext, DescendingNext DEF RubyInv
  <1> QED BY <1>1, <1>2, RubyInvAlways, PTL DEF Spec

\* For any number of CPUs and banks and each protocol and ISA, no request comes back to
\* where it was, and one that has not arrived has a port to go on to: its sequencer has
\* a controller behind it, each block has a bank, and the network joins any two
\* controllers (setup, connectControllers).
THEOREM NeverRoundNorStuck == Spec => []KeepsGoing
  <1>1. ASSUME RubyInv, Descending, route # << >>,
               NEW i \in 2..Len(route), NEW j \in 2..Len(route), i # j
        PROVE  route[i] # route[j]
    <2>1. PICK S : route \in Seq(S)
      BY <1>1 DEF RubyInv, RouteSound
    <2>2. i < j \/ j < i
      BY <1>1, <2>1
    <2>3. \/ Distance(route[i], addr) < Distance(route[j], addr)
          \/ Distance(route[j], addr) < Distance(route[i], addr)
      BY <1>1, <2>2 DEF Descending
    <2> QED BY <2>3, DistanceIs
  <1>2. ASSUME RubyInv, LinkedOut, route # << >>, ~Arrived
        PROVE  Hops(Last(route), addr) # {}
    <2> DEFINE p == Last(route)
    <2>1. /\ step = "built" /\ addr \in Addresses /\ OnTheWay(p, addr)
          /\ p[1] \notin {"mem_cntrl", "interrupts", "devices", "pci_host"}
          /\ p[1] = "proxy" => addr # Memory
      BY <1>2 DEF RubyInv, RouteSound, Arrived
    <2>2. NetworkSoFar /\ PartsSoFar
      BY <1>2 DEF RubyInv
    <2> HIDE DEF p
    <2>3. Hops(p, addr) # {}
      BY <1>2, <2>1, <2>2, AWayOn
    <2> QED BY <2>3 DEF p
  <1>3. RubyInv /\ LinkedOut /\ Descending => KeepsGoing
    BY <1>1, <1>2 DEF KeepsGoing
  <1> QED BY <1>3, DescendingAlways, PTL
=============================================================================
