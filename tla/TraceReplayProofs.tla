------------------------- MODULE TraceReplayProofs --------------------------
(* What TLAPS proves about the three programs that replay a trace: the index *)
(* and the TLB of each are exact until every block has been used once, those *)
(* of test.py for ever.  test.cpp steps as the cache does, so that what is   *)
(* proved of the cache is proved of it; the Python programs link, choose and *)
(* evict in other orders, and have an invariant of their own.                *)
EXTENDS TraceReplay, FiniteSetTheorems, SequenceTheorems, TLAPS
-----------------------------------------------------------------------------

\* What is proved about the cache's index, of the one the programs keep.
Index == INSTANCE DbrcEvictionProofs
            WITH PTSize  <- L0Size + capacity,
                 Stores  <- {FALSE},
                 req     <- [block |-> addr, dirties |-> FALSE],
                 wb      <- -1,
                 strayed <- FALSE

LEMMA Sizes == Index!SizesAssumption /\ Index!PowersAssumption
BY ReplayAssumption DEF Index!SizesAssumption, Index!PowersAssumption

LEMMA Numbers ==
    /\ num_BTH \in Nat /\ num_BTH > 0
    /\ capacity \in Nat /\ capacity > 0
    /\ RMax \in Nat /\ RMax > 0
    /\ L0Size \in Nat /\ L0Size > 0
    /\ TLB_size \in Nat
    /\ MNA \in Nat /\ MNA > 0
    /\ Cache!Slots = 0 .. capacity - 1 /\ Cache!Slots \subseteq Nat
    /\ 0 \in Cache!Slots /\ -1 \notin Cache!Slots /\ End \notin Cache!Slots
    /\ Cache!Levels = 1 .. num_BTH /\ Cache!Levels \subseteq Nat
    /\ Cache!Blocks \subseteq Nat /\ 0 \in Cache!Blocks
<1>1. Index!Blocks \subseteq Nat /\ 0 \in Index!Blocks
  BY Sizes, Index!Numbers
<1>2. Cache!Blocks = Index!Blocks
  BY DEF Cache!Blocks, Index!Blocks
<1> QED BY <1>1, <1>2, ReplayAssumption DEF Cache!Slots, Cache!Levels, End

LEMMA SameSets ==
    /\ Cache!Slots = Index!Slots
    /\ Cache!Entries = Index!Entries
    /\ Cache!Levels = Index!Levels
    /\ Cache!Blocks = Index!Blocks
    /\ Cache!NullPointer = Index!NullPointer
    /\ Cache!EmptyTable = Index!EmptyTable
    /\ Cache!EmptyBlock = Index!EmptyBlock
BY DEF Cache!Slots, Index!Slots, Cache!Entries, Index!Entries, Cache!Levels, Index!Levels,
       Cache!Blocks, Index!Blocks, Cache!NullPointer, Index!NullPointer, Cache!EmptyTable,
       Index!EmptyTable, Cache!EmptyBlock, Index!EmptyBlock

LEMMA IndexTypes ==
    ASSUME NEW b \in Cache!Blocks
    PROVE  /\ Cache!L0TIndex(b) \in 0 .. L0Size - 1
           /\ \A l \in Cache!Levels : Cache!TableIndex(b, l) \in Cache!Entries
<1>1. /\ Index!L0TIndex(b) \in 0 .. L0Size - 1
      /\ \A l \in Index!Levels : Index!TableIndex(b, l) \in Index!Entries
  BY Sizes, SameSets, Index!IndexTypes
<1> QED BY <1>1, SameSets DEF Cache!L0TIndex, Index!L0TIndex, Cache!TableIndex, Index!TableIndex
-----------------------------------------------------------------------------
(* Types, for the three programs.                                            *)

PyPointer == [V : BOOLEAN, I : Indices]
PyBlock   == [V : BOOLEAN, D : BOOLEAN, PV : BOOLEAN, LF : 0 .. num_BTH, R : 0 .. RMax,
              TAG : Cache!Blocks, PT : Indices \cup (0 .. L0Size - 1),
              BTH : [Cache!Entries -> PyPointer]]
PyL0T   == [0 .. L0Size - 1 -> PyPointer]
PyArray == [Cache!Slots -> PyBlock]

\* The parent of a table's block is a slot, that of a first-level one an entry.
ParentOK(d) == /\ d.LF > 1 => d.PT \in Indices
               /\ d.LF = 1 => d.PT \in 0 .. L0Size - 1

ListOK ==
    /\ DOMAIN cache_TLB \subseteq Cache!Blocks
    /\ cache_TLB \in [DOMAIN cache_TLB -> Indices]
    /\ cache_TLB_order \in Seq(Cache!Blocks)
    /\ Range(cache_TLB_order) = DOMAIN cache_TLB
    /\ IsInjective(cache_TLB_order)

PlaceOK ==
    /\ script \in Scripts
    /\ VBIR \in Cache!Slots
    /\ phase \in Phases
    /\ addr \in Cache!Blocks
    /\ last_BTH \in Indices \cup {-1}
    /\ current_level \in 0 .. num_BTH + 1
    /\ phase = "insert" => /\ current_level > 0
                           /\ current_level > 1 => last_BTH \in Indices

Types ==
    /\ cache_L0T \in PyL0T
    /\ cache_DBA \in PyArray
    /\ \A s \in Cache!Slots : ParentOK(cache_DBA[s])
    /\ ListOK
    /\ PlaceOK

LEMMA TypesSound == Types => TypeOK
BY DEF Types, TypeOK, PyL0T, PyArray, PyBlock, PyPointer, ParentOK, ListOK, PlaceOK

LEMMA IndicesFacts ==
    /\ Cache!Slots \subseteq Indices
    /\ \A i \in Indices : i \in Int /\ At(i) \in Cache!Slots
    /\ \A i \in Cache!Slots : At(i) = i
    /\ script # Base => Indices = Cache!Slots
    /\ End \notin Indices
<1>1. \A i \in Int : i % capacity \in 0 .. capacity - 1
  BY Numbers
<1>2. \A i \in 0 .. capacity - 1 : i % capacity = i
  BY Numbers
<1> QED BY <1>1, <1>2, Numbers DEF Indices, At, End
-----------------------------------------------------------------------------
(* The search of the Python programs.                                        *)

LEMMA PyPathSteps ==
    ASSUME cache_L0T \in PyL0T, cache_DBA \in PyArray, NEW b \in Cache!Blocks,
           NEW path, path = PyPath(b)
    PROVE  \A l \in Cache!Levels :
              /\ path[l] = IF l = 1 THEN PyFollowed(cache_L0T[Cache!L0TIndex(b)])
                           ELSE IF path[l - 1] = End THEN End
                           ELSE PyFollowed(cache_DBA[At(path[l - 1])].BTH
                                                  [Cache!TableIndex(b, l)])
              /\ path[l] \in Indices \cup {End}
<1> DEFINE X == Indices \cup {End}
           top == PyFollowed(cache_L0T[Cache!L0TIndex(b)])
           next(x, l) == IF x = End THEN End
                         ELSE PyFollowed(cache_DBA[At(x)].BTH[Cache!TableIndex(b, l)])
           step == [x \in X |-> [l \in Cache!Levels |-> next(x, l)]]
<1>1. top \in X
  <2>1. cache_L0T[Cache!L0TIndex(b)] \in PyPointer
    BY IndexTypes DEF PyL0T
  <2> QED BY <2>1 DEF PyFollowed, PyPointer
<1>2. ASSUME NEW x \in X, NEW l \in Cache!Levels PROVE next(x, l) \in X
  <2>1. CASE x = End
    BY <2>1
  <2>2. CASE x \in Indices
    <3> DEFINE e == cache_DBA[At(x)].BTH[Cache!TableIndex(b, l)]
    <3>1. e \in PyPointer
      BY <2>2, IndicesFacts, IndexTypes DEF PyArray, PyBlock
    <3> HIDE DEF e
    <3>2. PyFollowed(e) \in X
      BY <3>1 DEF PyFollowed, PyPointer
    <3> QED BY <3>2 DEF e
  <2> QED BY <2>1, <2>2
<1> HIDE DEF top, next, X
<1>3. /\ step \in [X -> [Index!Levels -> X]]
      /\ \A x \in X, l \in Cache!Levels : step[x][l] = next(x, l)
  BY <1>2, SameSets
<1> HIDE DEF step
<1>4. PICK f \in [Index!Levels -> X] : Index!Descends(f, top, step)
  BY <1>1, <1>3, Sizes, Index!LevelRecursion
<1>13. \A l \in Cache!Levels : f[l] = IF l = 1 THEN top ELSE step[f[l - 1]][l]
  BY <1>4, SameSets DEF Index!Descends
<1>5. \A l \in Cache!Levels : l # 1 => l - 1 \in Cache!Levels
  BY Numbers
<1>6. f = [l \in Cache!Levels |-> IF l = 1 THEN top ELSE next(f[l - 1], l)]
  <2>1. f \in [Cache!Levels -> X]
    BY SameSets
  <2>2. \A l \in Cache!Levels : f[l] = IF l = 1 THEN top ELSE next(f[l - 1], l)
    BY <1>3, <1>5, <1>13, <2>1
  <2> QED BY <2>1, <2>2
<1>7. path = [l \in Cache!Levels |-> IF l = 1 THEN top ELSE next(path[l - 1], l)]
  BY <1>6 DEF PyPath, top, next
<1> DEFINE S == {k \in Nat : path[k] \in X}
<1>8. 1 \in S
  BY <1>1, <1>7, Numbers
<1>9. ASSUME NEW k \in 1 .. num_BTH - 1, k \in S PROVE k + 1 \in S
  <2>1. k + 1 \in Cache!Levels /\ k + 1 # 1 /\ (k + 1) - 1 = k /\ k + 1 \in Nat
    BY Numbers
  <2>2. path[k + 1] = next(path[k], k + 1)
    BY <1>7, <2>1
  <2> QED BY <1>2, <1>9, <2>1, <2>2
<1> HIDE DEF S
<1>10. 1 .. num_BTH \subseteq S
  BY <1>8, <1>9, Sizes, Numbers, Index!LevelInduction
<1>11. \A l \in Cache!Levels : path[l] \in X
  BY <1>10, Numbers DEF S
<1> QED BY <1>7, <1>11 DEF top, next, X
-----------------------------------------------------------------------------
(* The operators of the cache that the programs use.                         *)

LEMMA SameOps ==
    /\ \A f, x : Cache!Without(f, x) = Index!Without(f, x)
    /\ \A q, x : Cache!Erased(q, x) = Index!Erased(q, x)
    /\ \A b : Cache!L0TIndex(b) = Index!L0TIndex(b)
    /\ \A b, l : Cache!TableIndex(b, l) = Index!TableIndex(b, l)
    /\ \A b : Cache!Walk(b) = Index!Walk(b)
    /\ \A p, b : Cache!Found(p, b) <=> Index!Found(p, b)
    /\ \A s, b : Cache!Holds(s, b) <=> Index!Holds(s, b)
    /\ \A p : Cache!Touched(p) = Index!Touched(p)
    /\ \A k : Cache!Slot(k) = Index!Slot(k)
    /\ \A n : Cache!Scanned(n) = Index!Scanned(n)
    /\ \A n : Cache!ScanEnds(n) <=> Index!ScanEnds(n)
<1>1. /\ \A f, x : Cache!Without(f, x) = Index!Without(f, x)
      /\ \A q, x : Cache!Erased(q, x) = Index!Erased(q, x)
      /\ \A b : Cache!L0TIndex(b) = Index!L0TIndex(b)
      /\ \A b, l : Cache!TableIndex(b, l) = Index!TableIndex(b, l)
  BY DEF Cache!Without, Index!Without, Cache!Erased, Index!Erased, Cache!L0TIndex, Index!L0TIndex, Cache!TableIndex, Index!TableIndex,
     Cache!Restrict, Index!Restrict, Cache!RemoveAt, Index!RemoveAt
<1>2. \A b : Cache!Walk(b) = Index!Walk(b)
  BY SameSets DEF Cache!Walk, Index!Walk, Cache!Path, Index!Path, Cache!Tables, Index!Tables, Cache!L0TIndex, Index!L0TIndex, Cache!TableIndex, Index!TableIndex,
     Cache!Followed, Index!Followed, Cache!None, Index!None, Cache!Levels, Index!Levels, Cache!Slots, Index!Slots
<1>3. /\ \A p, b : Cache!Found(p, b) <=> Index!Found(p, b)
      /\ \A s, b : Cache!Holds(s, b) <=> Index!Holds(s, b)
  BY SameSets DEF Cache!Found, Index!Found, Cache!Holds, Index!Holds
<1>4.  \A p : Cache!Touched(p) = Index!Touched(p)
  BY SameSets DEF Cache!Touched, Index!Touched, Cache!Capped, Index!Capped, Cache!Reuse, Index!Reuse, Cache!Levels, Index!Levels, Cache!Slots, Index!Slots, Cache!Cardinality, Index!Cardinality
<1>5. \A k : Cache!Slot(k) = Index!Slot(k)
  BY DEF Cache!Slot, Index!Slot
<1>6. \A n : Cache!Scanned(n) = Index!Scanned(n)
  BY DEF Cache!Scanned, Index!Scanned, Cache!Slots, Index!Slots, Cache!Passed, Index!Passed, Cache!Slot, Index!Slot
<1>7.  \A n : Cache!ScanEnds(n) <=> Index!ScanEnds(n)
  BY DEF Cache!ScanEnds, Index!ScanEnds, Cache!Replaceable, Index!Replaceable, Cache!Slot, Index!Slot
<1> QED BY <1>1, <1>2, <1>3, <1>4, <1>5, <1>6, <1>7

LEMMA SameTurn ==
    /\ \A d, v : Cache!Evicted(d, v) <=> Index!Evicted(d, v)
    /\ \A n, d, v : Cache!Counter(n, d, v) = Index!Counter(n, d, v)
    /\ \A d, v : Cache!Children(d, v) = Index!Children(d, v)
    /\ \A d, b, l, w : Cache!Linked(d, b, l, w) = Index!Linked(d, b, l, w)
    /\ \A d, b, l, w : Cache!L0TLinked(d, b, l, w) = Index!L0TLinked(d, b, l, w)
    /\ \A d, b, l, w : Cache!Installed(d, b, l, w) = Index!Installed(d, b, l, w)
    /\ \A n, w : Cache!Turn(n, w) <=> Index!Turn(n, w)
<1>1. /\ \A d, v : Cache!Evicted(d, v) <=> Index!Evicted(d, v)
      /\ \A d, v : Cache!IsData(d, v) <=> Index!IsData(d, v)
      /\ \A d, v : Cache!Naming(d, v) = Index!Naming(d, v)
      /\ \A d, v : Cache!Children(d, v) = Index!Children(d, v)
  BY SameSets DEF Cache!Evicted, Index!Evicted, Cache!IsData, Index!IsData, Cache!Naming, Index!Naming,
     Cache!Children, Index!Children, Cache!Entries, Index!Entries
<1>2. \A d, v : Cache!ParentEntries(d, v) <=> Index!ParentEntries(d, v)
  BY <1>1 DEF Cache!ParentEntries, Index!ParentEntries
<1>3. \A x : Cache!Min(x) = Index!Min(x)
  BY DEF Cache!Min, Index!Min
<1>4. \A n, d, v : Cache!Counter(n, d, v) = Index!Counter(n, d, v)
  BY <1>1, <1>2, <1>3 DEF Cache!Counter, Index!Counter
<1>5. \A d, v : Cache!Unlinked(d, v) = Index!Unlinked(d, v)
  BY <1>1, <1>2, <1>3 DEF Cache!Unlinked, Index!Unlinked
<1>6. \A d, v : Cache!L0TUnlinked(d, v) = Index!L0TUnlinked(d, v)
  BY <1>1 DEF Cache!L0TUnlinked, Index!L0TUnlinked
<1>7. \A d, v : Cache!Vacated(d, v) = Index!Vacated(d, v)
  BY SameSets, <1>1 DEF Cache!Vacated, Index!Vacated
<1>8. \A d, v : Cache!WrittenBack(d, v) = Index!WrittenBack(d, v)
  BY <1>1, <1>7 DEF Cache!WrittenBack, Index!WrittenBack, Cache!None, Index!None
<1>9. \A d, v : Cache!TLBDrops(d, v) <=> Index!TLBDrops(d, v)
  BY <1>1 DEF Cache!TLBDrops, Index!TLBDrops
<1>10. \A d, b, l, w : Cache!Linked(d, b, l, w) = Index!Linked(d, b, l, w)
  BY SameOps DEF Cache!Linked, Index!Linked
<1>11. \A d, b, l, w : Cache!L0TLinked(d, b, l, w) = Index!L0TLinked(d, b, l, w)
  BY SameOps DEF Cache!L0TLinked, Index!L0TLinked
<1>12. \A d, b, l, w : Cache!Installed(d, b, l, w) = Index!Installed(d, b, l, w)
  BY SameOps, SameSets DEF Cache!Installed, Index!Installed
<1>13. \A n, w : Cache!Turn(n, w) <=> Index!Turn(n, w)
  BY SameOps, <1>5, <1>6, <1>7, <1>8, <1>9, <1>10, <1>11, <1>12 DEF Cache!Turn, Index!Turn, Cache!None, Index!None
<1> QED BY <1>1, <1>4, <1>10, <1>11, <1>12, <1>13

LEMMA SameSteps ==
    /\ \A b, store : Cache!Hit(b, store) <=> Index!Hit(b, store)
    /\ \A b, dirties : Cache!TimingMiss(b, dirties) <=> Index!TimingMiss(b, dirties)
    /\ Cache!InsertBegin <=> Index!InsertBegin
    /\ Cache!InsertEnd <=> Index!InsertEnd
<1>1. Cache!TLBFull <=> Index!TLBFull
  BY DEF Cache!TLBFull, Index!TLBFull, Cache!Cardinality, Index!Cardinality
<1>2. /\ \A b, s : Cache!TLBRecord(b, s) = Index!TLBRecord(b, s)
      /\ \A b : Cache!TLBRecordOrder(b) = Index!TLBRecordOrder(b)
      /\ \A d, s, store : Cache!Dirtied(d, s, store) = Index!Dirtied(d, s, store)
  BY <1>1, SameOps DEF Cache!TLBRecord, Index!TLBRecord, Cache!TLBRecordOrder, Index!TLBRecordOrder,
     Cache!Dirtied, Index!Dirtied
<1>3. /\ \A b, store : Cache!Hit(b, store) <=> Index!Hit(b, store)
  BY <1>2, SameOps DEF Cache!Hit, Index!Hit, Cache!HitTLB, Index!HitTLB, Cache!HitSearch, Index!HitSearch
<1>4. \A b : Cache!Miss(b) <=> Index!Miss(b)
  BY SameOps DEF Cache!Miss, Index!Miss
<1>5. \A b, dirties : Cache!TimingMiss(b, dirties) <=> Index!TimingMiss(b, dirties)
  BY <1>4 DEF Cache!TimingMiss, Index!TimingMiss, Cache!None, Index!None
<1>6. \A p, s : Cache!EndsAt(p, s) <=> Index!EndsAt(p, s)
  BY SameSets DEF Cache!EndsAt, Index!EndsAt, Cache!None, Index!None
<1>7. Cache!InsertBegin <=> Index!InsertBegin
  BY SameOps, SameSets, <1>6 DEF Cache!InsertBegin, Index!InsertBegin, Cache!None, Index!None
<1>8. Cache!InsertEnd <=> Index!InsertEnd
  BY <1>2 DEF Cache!InsertEnd, Index!InsertEnd, Cache!None, Index!None
<1> QED BY <1>3, <1>5, <1>7, <1>8

LEMMA SameProperties ==
    /\ Cache!Cold <=> Index!Cold
    /\ Cache!TLBCoherent <=> Index!TLBCoherent
    /\ Cache!PointersSound <=> Index!PointersSound
    /\ Cache!WalksExact <=> Index!WalksExact
    /\ Cache!ColdSound <=> Index!ColdSound
<1>1. Cache!Cold <=> Index!Cold
  BY SameSets DEF Cache!Cold, Index!Cold
<1>2. Cache!TLBCoherent <=> Index!TLBCoherent
  BY SameOps DEF Cache!TLBCoherent, Index!TLBCoherent
<1>3. Cache!PointersSound <=> Index!PointersSound
  BY SameSets DEF Cache!PointersSound, Index!PointersSound, Cache!Leads, Index!Leads
<1>4. Cache!WalksExact <=> Index!WalksExact
  BY SameOps, SameSets DEF Cache!WalksExact, Index!WalksExact, Cache!None, Index!None
<1>5. Cache!Reachable <=> Index!Reachable
  BY SameOps DEF Cache!Reachable, Index!Reachable
<1>6. Cache!FirstFill <=> Index!FirstFill
  BY <1>1, <1>3 DEF Cache!FirstFill, Index!FirstFill, Cache!None, Index!None
<1>7. Cache!ColdSound <=> Index!ColdSound
  BY <1>1, <1>2, <1>4, <1>5, <1>6 DEF Cache!ColdSound, Index!ColdSound
<1> QED BY <1>1, <1>2, <1>3, <1>4, <1>7
-----------------------------------------------------------------------------
(* test.cpp: the steps of the cache, but for the choice of a victim.         *)

\* PTSize is large enough for a parent of any kind.
ParentsFit == \A s \in Cache!Slots :
    /\ cache_DBA[s].LF > 1 => cache_DBA[s].PT \in Cache!Slots
    /\ cache_DBA[s].LF = 1 => cache_DBA[s].PT \in 0 .. L0Size - 1

CppInv ==
    /\ Index!IndexInv
    /\ Index!MissStaysMiss
    /\ Index!ColdInv
    /\ ParentsFit

LEMMA CppInvSound ==
    ASSUME script = Cpp, script \in Scripts, CppInv
    PROVE  TypeOK /\ ColdSound
<1>1. Index!RestTypeOK /\ Index!TLBInv
  BY Sizes, Index!IndexInvParts DEF CppInv
<1>2. Indices = Cache!Slots
  BY DEF Indices, Cpp, Base
<1>3. TypeOK
  BY <1>1, <1>2, SameSets DEF TypeOK, CppInv, ParentsFit, Index!RestTypeOK, Index!TLBInv, Index!TLBTypeOK, Index!TLBOrdered,
     Index!Array, Index!Block, Index!Pointer, Index!Phases, Cache!Phases, Phases, Index!Range, Range, Index!None, Cache!None, Cache!Crashes, Index!Crashes
<1>4. Index!ColdSound
  BY <1>1, Sizes, Index!ColdInvSound DEF CppInv, Index!RestTypeOK, Index!L0Table, Index!TLBInv
<1>5. phase # "error"
  BY <1>1 DEF Index!RestTypeOK, Index!Phases, Index!Crashes
<1> QED BY <1>3, <1>4, <1>5, SameProperties DEF ColdSound

LEMMA CppInvInit == Init => CppInv
<1> SUFFICES ASSUME Init PROVE CppInv
  OBVIOUS
<1>1. Index!Init
  BY SameSets DEF Init, Index!Init, Index!None
<1>2. Index!IndexInv /\ Index!ColdInv
  BY <1>1, Sizes, Index!IndexInvInit, Index!ColdInvInit
<1>3. Index!MissStaysMiss
  BY <1>1 DEF Index!Init, Index!MissStaysMiss
<1>4. ParentsFit
  BY SameSets DEF Init, ParentsFit, Cache!EmptyBlock
<1> QED BY <1>2, <1>3, <1>4 DEF CppInv

\* Every other step is one of the cache.
LEMMA CppStepNext ==
    ASSUME Index!Next, CppInv
    PROVE  Index!IndexInv' /\ Index!MissStaysMiss' /\ Index!ColdInv'
BY Sizes, Index!IndexInvNext, Index!MissStaysMissStep, Index!ColdInvNext DEF CppInv

LEMMA SameBlocksFit ==
    ASSUME ParentsFit, Index!SameBlocks(cache_DBA, cache_DBA')
    PROVE  ParentsFit'
BY SameSets DEF ParentsFit, Index!SameBlocks

LEMMA CppAccessKeeps ==
    ASSUME CppInv, NEW b \in Cache!Blocks, CppHit(b) \/ CppMiss(b)
    PROVE  CppInv'
<1>1. Index!RestTypeOK /\ Index!TLBInv
  BY Sizes, Index!IndexInvParts DEF CppInv
<1>2. b \in Index!Blocks
  BY SameSets
<1>3. Index!TimingHit(b, FALSE) \/ Index!TimingMiss(b, FALSE)
  BY SameSteps DEF CppHit, CppMiss, Index!TimingHit, Index!None
<1>4. Index!Next
  <2>1. Index!TimingHit(b, FALSE) \/ (\E upgraded \in BOOLEAN : Index!TimingMiss(b, FALSE /\ upgraded))
    BY <1>3
  <2>2. Index!Access
    BY <1>2, <2>1 DEF Index!Access
  <2> QED BY <2>2 DEF Index!Next
<1>5. Index!SameBlocks(cache_DBA, cache_DBA')
  <2>1. Index!Hit(b, FALSE) \/ Index!Miss(b)
    BY <1>3 DEF Index!TimingHit, Index!TimingMiss
  <2> QED BY <1>1, <1>2, <2>1, Sizes, Index!AccessBlocks
<1> QED BY <1>4, <1>5, CppStepNext, SameBlocksFit DEF CppInv

LEMMA CppInsertBeginKeeps ==
    ASSUME CppInv, CppInsertBegin
    PROVE  CppInv'
<1>1. Index!InsertBegin /\ Index!RestTypeOK
  BY Sizes, SameSteps, Index!IndexInvParts DEF CppInv, CppInsertBegin
<1>2. Index!SameBlocks(cache_DBA, cache_DBA')
  <2>1. cache_DBA' = Index!Touched(Index!Walk(addr))
    BY <1>1 DEF Index!InsertBegin
  <2>2. cache_DBA \in Index!Array
    BY <1>1 DEF Index!RestTypeOK
  <2> QED BY <2>1, <2>2, Sizes, Index!TouchedBlocks
<1> QED BY <1>1, <1>2, CppStepNext, SameBlocksFit DEF CppInv, Index!Next

LEMMA CppInsertEndKeeps ==
    ASSUME CppInv, CppInsertEnd
    PROVE  CppInv'
<1>1. Index!InsertEnd
  BY SameSteps DEF CppInsertEnd
<1>2. \A s \in Index!Slots : cache_DBA'[s].LF = cache_DBA[s].LF /\ cache_DBA'[s].PT = cache_DBA[s].PT
  BY <1>1, Sizes, Index!EndFields DEF CppInv
<1>3. ParentsFit'
  BY <1>2, SameSets DEF CppInv, ParentsFit
<1> QED BY <1>1, <1>3, CppStepNext DEF CppInv, Index!Next

LEMMA CppInstallKeeps ==
    ASSUME CppInv, CppInstall
    PROVE  CppInv'
<1>1. PICK n \in 0 .. MNA, w \in Index!Slots \cup {Index!None} :
         /\ Index!ScanEnds(n)
         /\ IF Index!Counter(n, Index!Scanned(n), Index!Slot(n)) = MNA
            THEN IsLastDrop(w, n) ELSE w = Index!Slot(n)
         /\ Index!Turn(n, w)
  BY SameOps, SameTurn, SameSets DEF CppInstall, Index!None
<1>2. /\ phase = "insert" /\ current_level \in 1 .. num_BTH
      /\ Index!RestTypeOK /\ Index!InsertState
  BY Sizes, Index!IndexInvParts, Numbers DEF CppInstall, CppInv, Index!RestTypeOK, Index!InsertState
<1>3. Index!IndexInv'
  BY <1>1, <1>2, Sizes, Index!TurnKeeps, Numbers DEF CppInv
<1>4. Index!MissStaysMiss'
  BY <1>1, <1>2 DEF Index!Turn, Index!MissStaysMiss
<1>5. Index!TakesPlace(w)
  BY <1>1, <1>2, Sizes, Index!TurnPlaces
<1>6. ParentsFit'
  <2>1. addr \in Cache!Blocks
    BY <1>2, SameSets DEF Index!RestTypeOK, Index!Requests
  <2>2. Index!L0TIndex(addr) \in 0 .. L0Size - 1
    BY <2>1, IndexTypes, SameOps
  <2>3. current_level > 1 => last_BTH \in 0 .. capacity - 1
    BY <1>2, SameSets, Numbers DEF Index!RestTypeOK, Index!InsertState, Index!None
  <2>4. \A i \in Nat : i < L0Size + capacity => i % (L0Size + capacity) = i
    BY Numbers
  <2>5. /\ current_level = 1 => Index!L0TIndex(addr) % (L0Size + capacity) \in 0 .. L0Size - 1
        /\ current_level > 1 => last_BTH % (L0Size + capacity) \in 0 .. capacity - 1
    BY <2>2, <2>3, <2>4, Numbers
  <2> SUFFICES ASSUME NEW s \in Cache!Slots
               PROVE  /\ cache_DBA'[s].LF > 1 => cache_DBA'[s].PT \in Cache!Slots
                      /\ cache_DBA'[s].LF = 1 => cache_DBA'[s].PT \in 0 .. L0Size - 1
    BY DEF ParentsFit
  <2>6. CASE s = w
    BY <1>2, <1>5, <2>5, <2>6, SameSets, Numbers DEF Index!TakesPlace
  <2>7. CASE s # w
    BY <1>5, <2>7, SameSets DEF Index!TakesPlace, CppInv, ParentsFit
  <2> QED BY <2>6, <2>7
<1>7. Index!ColdInv'
  <2> SUFFICES ASSUME Index!Cold' PROVE Index!ColdInv'
    BY DEF Index!ColdInv
  <2>1. Index!Cold /\ Index!HandSplits
    BY <1>5 DEF Index!Cold, Index!ColdInv, CppInv, Index!TakesPlace
  <2>2. Index!InstallLevel
    <3>1. VBIR \in Index!Slots /\ Index!Slot(0) = VBIR
      BY <1>2, SameSets, Numbers DEF Index!RestTypeOK, Index!Slot
    <3>2. ~cache_DBA[VBIR].V
      BY <2>1, <3>1, SameSets, Numbers DEF Index!Cold, Index!HandSplits
    <3>3. n = 0
      BY <1>1, <3>1, <3>2, Numbers DEF Index!ScanEnds, Index!Replaceable
    <3>4. Index!Counter(0, Index!Scanned(0), Index!Slot(0)) = 0
      <4>1. ~Index!Evicted(Index!Scanned(0), VBIR)
        BY <3>1, <3>2 DEF Index!Evicted, Index!Scanned, Index!Passed
      <4> QED BY <3>1, <4>1 DEF Index!Counter, Index!ParentEntries
    <3> QED BY <1>1, <1>2, <3>3, <3>4, Numbers DEF Index!InstallLevel
  <2> QED BY <2>2, Sizes, Index!InstallKeepsCold DEF CppInv
<1> QED BY <1>3, <1>4, <1>6, <1>7 DEF CppInv

LEMMA CppInvNext == CppInv /\ CppNext => CppInv'
<1> SUFFICES ASSUME CppInv, CppNext PROVE CppInv'
  OBVIOUS
<1> QED BY CppAccessKeeps, CppInsertBeginKeeps, CppInstallKeeps, CppInsertEndKeeps DEF CppNext

LEMMA CppInvStutter == CppInv /\ UNCHANGED vars => CppInv'
<1> SUFFICES ASSUME CppInv, UNCHANGED vars PROVE CppInv'
  OBVIOUS
<1>1. UNCHANGED Index!vars
  BY DEF vars, Index!vars, Index!index
<1>2. Index!IndexInv' /\ Index!MissStaysMiss' /\ Index!ColdInv'
  BY <1>1, Sizes, Index!IndexInvNext, Index!MissStaysMissStep, Index!ColdInvNext DEF CppInv
<1>3. ParentsFit'
  BY DEF vars, CppInv, ParentsFit
<1> QED BY <1>2, <1>3 DEF CppInv
-----------------------------------------------------------------------------
(* The TLB as a dictionary.                                                  *)

LEMMA SameRange ==
    /\ \A f : Index!Range(f) = Range(f)
    /\ \A f : Index!IsInjective(f) <=> IsInjective(f)
BY DEF Index!Range, Range, Index!IsInjective, IsInjective

\* A list of different blocks of memory, those of keys.
Lists(order, keys) ==
    /\ order \in Seq(Cache!Blocks)
    /\ IsInjective(order)
    /\ Range(order) = keys

LEMMA AppendLists ==
    ASSUME NEW order, NEW keys, Lists(order, keys), NEW b \in Cache!Blocks, b \notin keys
    PROVE  Lists(Append(order, b), keys \cup {b})
BY Index!AppendFacts, Sizes, SameRange DEF Lists

LEMMA EraseLists ==
    ASSUME NEW order, NEW keys, Lists(order, keys), NEW b \in keys
    PROVE  Lists(Cache!Erased(order, b), keys \ {b})
BY Index!ErasedFacts, Sizes, SameRange, SameOps DEF Lists

LEMMA MovedLists ==
    ASSUME ListOK, NEW b \in Cache!Blocks
    PROVE  Lists(MovedToEnd(b), DOMAIN cache_TLB)
<1>1. Lists(cache_TLB_order, DOMAIN cache_TLB)
  BY DEF ListOK, Lists
<1>2. CASE b \in DOMAIN cache_TLB
  <2>1. Lists(Cache!Erased(cache_TLB_order, b), DOMAIN cache_TLB \ {b})
    BY <1>1, <1>2, EraseLists
  <2>2. Lists(Append(Cache!Erased(cache_TLB_order, b), b), (DOMAIN cache_TLB \ {b}) \cup {b})
    BY <2>1, AppendLists
  <2>3. (DOMAIN cache_TLB \ {b}) \cup {b} = DOMAIN cache_TLB
    BY <1>2
  <2> QED BY <1>2, <2>2, <2>3 DEF MovedToEnd
<1> QED BY <1>1, <1>2 DEF MovedToEnd

LEMMA TrimmedLists ==
    ASSUME NEW order, NEW keys, Lists(order, keys)
    PROVE  \E left \in SUBSET keys : Lists(Trimmed(order), left)
<1>1. CASE Len(order) > TLB_size
  <2>1. order # << >>
    BY <1>1, Numbers
  <2>2. Lists(Tail(order), keys \ {Head(order)})
    BY <2>1, Index!TailFacts, Sizes, SameRange DEF Lists
  <2> QED BY <1>1, <2>2 DEF Trimmed
<1>2. CASE ~(Len(order) > TLB_size)
  BY <1>2 DEF Trimmed
<1> QED BY <1>1, <1>2

\* What the TLB has after an entry was set.
Sets(b, s) ==
    \A t \in DOMAIN cache_TLB' : IF t = b THEN cache_TLB'[t] = s
                                 ELSE t \in DOMAIN cache_TLB /\ cache_TLB'[t] = cache_TLB[t]

LEMMA SetsTLB ==
    ASSUME ListOK, NEW order, Lists(order, DOMAIN cache_TLB), UNCHANGED script,
           NEW b \in Cache!Blocks, NEW s \in Indices, PySetsTLB(order, b, s)
    PROVE  ListOK' /\ Sets(b, s)
<1>1. PICK left \in SUBSET DOMAIN cache_TLB : Lists(Trimmed(order), left)
  BY TrimmedLists
<1> DEFINE after == Listed(Trimmed(order), b)
<1>2. Lists(after, left \cup {b})
  <2>1. CASE b \in left
    <3>1. left \cup {b} = left
      BY <2>1
    <3> QED BY <1>1, <2>1, <3>1 DEF Listed, Lists
  <2>2. CASE b \notin left
    BY <1>1, <2>2, AppendLists DEF Listed, Lists
  <2> QED BY <2>1, <2>2
<1>3. /\ cache_TLB_order' = after
      /\ cache_TLB' = [t \in Range(after) |-> IF t = b THEN s ELSE cache_TLB[t]]
  BY DEF PySetsTLB
<1> HIDE DEF after
<1>4. Range(after) = left \cup {b} /\ Indices' = Indices
  BY <1>2 DEF Lists, Indices
<1>5. Sets(b, s)
  BY <1>1, <1>3, <1>4 DEF Sets
<1>6. DOMAIN cache_TLB' \subseteq Cache!Blocks /\ cache_TLB' \in [DOMAIN cache_TLB' -> Indices]
  BY <1>1, <1>3, <1>4 DEF ListOK
<1> QED BY <1>2, <1>3, <1>4, <1>5, <1>6 DEF ListOK, Lists

LEMMA DropsFromTLB ==
    ASSUME ListOK, UNCHANGED script, NEW key \in DOMAIN cache_TLB,
           cache_TLB' = Cache!Without(cache_TLB, key),
           cache_TLB_order' = Cache!Erased(cache_TLB_order, key)
    PROVE  /\ ListOK'
           /\ DOMAIN cache_TLB' = DOMAIN cache_TLB \ {key}
           /\ \A t \in DOMAIN cache_TLB' : cache_TLB'[t] = cache_TLB[t]
<1>1. cache_TLB' = [t \in DOMAIN cache_TLB \ {key} |-> cache_TLB[t]]
  BY DEF Cache!Without, Cache!Restrict
<1>2. Lists(cache_TLB_order', DOMAIN cache_TLB \ {key})
  BY EraseLists DEF ListOK, Lists
<1>3. Indices' = Indices
  BY DEF Indices
<1> QED BY <1>1, <1>2, <1>3 DEF ListOK, Lists
-----------------------------------------------------------------------------
(* The Python programs: the search and its touches.                          *)

LEMMA ReachedFacts ==
    ASSUME cache_L0T \in PyL0T, cache_DBA \in PyArray, NEW b \in Cache!Blocks,
           NEW path, path = PyPath(b)
    PROVE  \E k \in 0 .. num_BTH : /\ Reached(path) = 1 .. k
                                   /\ Cardinality(Reached(path)) = k
<1>1. \A l \in Cache!Levels : l # 1 /\ path[l - 1] = End => path[l] = End
  BY PyPathSteps
<1> DEFINE ends == {l \in Cache!Levels : path[l] = End}
<1>2. ASSUME ends # {} PROVE \E k \in 0 .. num_BTH : Reached(path) = 1 .. k
  <2>1. PICK m \in ends : \A j \in ends : m <= j
    <3>1. ends \in SUBSET Nat
      BY Numbers
    <3> QED BY <1>2, <3>1, Sizes, Index!LeastNatural
  <2> DEFINE S == {l \in Nat : l >= m => path[l] = End}
  <2>2. 1 \in S
    <3>1. m \in Nat /\ m >= 1 /\ path[m] = End
      BY <2>1, Numbers
    <3>2. 1 >= m => m = 1
      BY <3>1
    <3> QED BY <3>1, <3>2
  <2>3. ASSUME NEW l \in 1 .. num_BTH - 1, l \in S PROVE l + 1 \in S
    <3>1. l + 1 \in Cache!Levels /\ l + 1 # 1 /\ (l + 1) - 1 = l /\ l + 1 \in Nat
      BY Numbers
    <3>2. m \in Nat /\ path[m] = End
      BY <2>1, Numbers
    <3>3. CASE l >= m
      BY <1>1, <2>3, <3>1, <3>3
    <3>4. CASE ~(l >= m)
      <4>1. l + 1 >= m => l + 1 = m
        BY <3>2, <3>4
      <4> QED BY <3>1, <3>2, <4>1
    <3> QED BY <3>3, <3>4
  <2> HIDE DEF S
  <2>4. 1 .. num_BTH \subseteq S
    BY <2>2, <2>3, Sizes, Numbers, Index!LevelInduction
  <2>5. ASSUME NEW l \in Cache!Levels PROVE path[l] # End <=> l < m
    <3>1. l >= m => path[l] = End
      BY <2>4, Numbers DEF S
    <3>2. path[l] = End => l >= m
      BY <2>1, Numbers
    <3>3. l \in Nat /\ m \in Nat
      BY <2>1, Numbers
    <3> QED BY <3>1, <3>2, <3>3
  <2>6. m - 1 \in 0 .. num_BTH /\ Reached(path) = 1 .. m - 1
    BY <2>1, <2>5, Numbers DEF Reached
  <2> QED BY <2>6
<1>3. ASSUME ends = {} PROVE Reached(path) = 1 .. num_BTH
  BY <1>3, Numbers DEF Reached
<1>4. PICK k \in 0 .. num_BTH : Reached(path) = 1 .. k
  BY <1>2, <1>3, Numbers
<1>5. Cardinality(1 .. k) = k
  BY FS_Interval, Numbers
<1> QED BY <1>4, <1>5

\* The index returned, and the level it is of.
LEMMA EndsAtFacts ==
    ASSUME cache_L0T \in PyL0T, cache_DBA \in PyArray, NEW b \in Cache!Blocks,
           NEW path, path = PyPath(b), NEW s, s = PyEndsAt(path)
    PROVE  \/ path[1] = End /\ s = -1
           \/ \E l \in Cache!Levels : /\ s = path[l] /\ s \in Indices
                                      /\ l < num_BTH => path[l + 1] = End
<1>1. PICK k \in 0 .. num_BTH : Reached(path) = 1 .. k /\ Cardinality(Reached(path)) = k
  BY ReachedFacts
<1>2. \A l \in Cache!Levels : path[l] # End <=> l \in 1 .. k
  BY <1>1 DEF Reached
<1>3. CASE k = 0
  BY <1>1, <1>2, <1>3, Numbers DEF PyEndsAt
<1>4. CASE k # 0
  <2>1. k \in Cache!Levels /\ k \in 1 .. k
    BY <1>4, Numbers
  <2>2. s = path[k]
    BY <1>1, <2>1, Zenon DEF PyEndsAt
  <2>3. path[k] \in Indices
    BY <1>2, <2>1, PyPathSteps
  <2>4. k < num_BTH => path[k + 1] = End
    BY <1>2, Numbers
  <2> QED BY <2>1, <2>2, <2>3, <2>4
<1> QED BY <1>3, <1>4

LEMMA PyTouchedBlocks ==
    ASSUME cache_DBA \in PyArray, NEW path
    PROVE  /\ PyTouched(path) \in PyArray
           /\ Index!SameBlocks(cache_DBA, PyTouched(path))
<1> SUFFICES ASSUME NEW s \in Cache!Slots
             PROVE  /\ PyTouched(path)[s] \in PyBlock
                    /\ PyTouched(path)[s].BTH = cache_DBA[s].BTH
                    /\ PyTouched(path)[s].V = cache_DBA[s].V
                    /\ PyTouched(path)[s].PV = cache_DBA[s].PV
                    /\ PyTouched(path)[s].LF = cache_DBA[s].LF
                    /\ PyTouched(path)[s].PT = cache_DBA[s].PT
                    /\ PyTouched(path)[s].TAG = cache_DBA[s].TAG
  BY SameSets DEF PyTouched, PyArray, Index!SameBlocks
<1>1. cache_DBA[s] \in PyBlock
  BY DEF PyArray
<1> DEFINE hits == {l \in Reached(path) \ {1} : At(path[l]) = s}
           r == Cache!Capped(cache_DBA[s].R + Cardinality(hits))
<1>2. r \in 0 .. RMax
  <2>1. IsFiniteSet(1 .. num_BTH)
    BY FS_Interval, Numbers
  <2>2. hits \subseteq 1 .. num_BTH
    BY Numbers DEF Reached
  <2>3. Cardinality(hits) \in Nat
    BY <2>1, <2>2, FS_Subset, FS_CardinalityType
  <2> HIDE DEF hits
  <2>4. cache_DBA[s].R \in 0 .. RMax
    BY <1>1 DEF PyBlock
  <2> QED BY <2>3, <2>4, Numbers DEF Cache!Capped
<1>3. PyTouched(path)[s] = [cache_DBA[s] EXCEPT !.R = r]
  BY DEF PyTouched
<1> HIDE DEF r
<1> QED BY <1>1, <1>2, <1>3 DEF PyBlock
-----------------------------------------------------------------------------
(* The Python programs: types.                                               *)

\* An array whose parent fields are in place, for the program that runs.
ArrayOK(dba) == dba \in PyArray /\ \A s \in Cache!Slots : ParentOK(dba[s])

LEMMA TypesNext ==
    ASSUME UNCHANGED script, cache_L0T' \in PyL0T, ArrayOK(cache_DBA'), ListOK', PlaceOK'
    PROVE  Types'
<1>1. Indices' = Indices
  BY DEF Indices
<1> QED BY <1>1 DEF Types, PyL0T, PyArray, PyBlock, PyPointer, ParentOK, ArrayOK

LEMMA TouchedOK ==
    ASSUME ArrayOK(cache_DBA), NEW path
    PROVE  ArrayOK(PyTouched(path))
<1>1. PyTouched(path) \in PyArray /\ Index!SameBlocks(cache_DBA, PyTouched(path))
  BY PyTouchedBlocks DEF ArrayOK
<1> QED BY <1>1, SameSets DEF ArrayOK, ParentOK, Index!SameBlocks

LEMMA ScannedOK ==
    ASSUME ArrayOK(cache_DBA), NEW n
    PROVE  ArrayOK(Cache!Scanned(n))
<1> SUFFICES ASSUME NEW s \in Cache!Slots
             PROVE  Cache!Scanned(n)[s] \in PyBlock /\ ParentOK(Cache!Scanned(n)[s])
  BY DEF ArrayOK, PyArray, Cache!Scanned
<1>1. cache_DBA[s] \in PyBlock /\ ParentOK(cache_DBA[s])
  BY DEF ArrayOK, PyArray
<1>2. \/ Cache!Scanned(n)[s] = cache_DBA[s]
      \/ Cache!Scanned(n)[s] = [cache_DBA[s] EXCEPT !.R = 0]
  BY DEF Cache!Scanned
<1>3. [cache_DBA[s] EXCEPT !.R = 0] \in PyBlock /\ ParentOK([cache_DBA[s] EXCEPT !.R = 0])
  <2>1. 0 \in 0 .. RMax
    BY Numbers
  <2> QED BY <1>1, <2>1 DEF PyBlock, ParentOK
<1> QED BY <1>1, <1>2, <1>3

LEMMA LinkedOK ==
    ASSUME NEW dba, ArrayOK(dba), NEW v \in Indices
    PROVE  ArrayOK(PyLinked(dba, v))
<1> DEFINE i == Cache!TableIndex(addr, current_level)
           ptr == [V |-> TRUE, I |-> v]
<1>1. ptr \in PyPointer
  BY DEF PyPointer
<1>2. ASSUME NEW s \in Cache!Slots
      PROVE  LET d == [dba[s] EXCEPT !.BTH[i] = ptr]
             IN  d \in PyBlock /\ ParentOK(d)
  <2> DEFINE table == [dba[s].BTH EXCEPT ![i] = ptr]
  <2>1. dba[s] \in PyBlock /\ ParentOK(dba[s])
    BY DEF ArrayOK, PyArray
  <2>2. table \in [Cache!Entries -> PyPointer]
    BY <1>1, <2>1 DEF PyBlock
  <2> HIDE DEF table
  <2>3. [dba[s] EXCEPT !.BTH = table] \in PyBlock /\ ParentOK([dba[s] EXCEPT !.BTH = table])
    BY <2>1, <2>2 DEF PyBlock, ParentOK
  <2> QED BY <2>3 DEF table
<1> HIDE DEF i, ptr
<1>3. ASSUME current_level # 1, NEW s \in Cache!Slots
      PROVE  PyLinked(dba, v)[s] \in PyBlock /\ ParentOK(PyLinked(dba, v)[s])
  <2>1. PyLinked(dba, v)[s] = IF s = At(last_BTH) THEN [dba[s] EXCEPT !.BTH[i] = ptr] ELSE dba[s]
    BY <1>3 DEF PyLinked, i, ptr
  <2> QED BY <1>2, <2>1 DEF ArrayOK, PyArray
<1>4. current_level # 1 => PyLinked(dba, v) = [s \in Cache!Slots |-> PyLinked(dba, v)[s]]
  BY DEF PyLinked
<1>5. current_level = 1 => PyLinked(dba, v) = dba
  BY DEF PyLinked
<1> QED BY <1>3, <1>4, <1>5 DEF ArrayOK, PyArray

LEMMA UnlinkedOK ==
    ASSUME NEW dba, ArrayOK(dba), NEW v
    PROVE  ArrayOK(PyUnlinked(dba, v))
<1> DEFINE p == At(dba[At(v)].PT)
           cut == Severed(dba, v)
           table == [e \in Cache!Entries |-> [V |-> dba[p].BTH[e].V /\ e \notin cut,
                                              I |-> dba[p].BTH[e].I]]
<1>1. PyUnlinked(dba, v) = dba \/ PyUnlinked(dba, v) = [dba EXCEPT ![p].BTH = table]
  BY DEF PyUnlinked
<1>2. ASSUME p \in Cache!Slots PROVE table \in [Cache!Entries -> PyPointer]
  <2>1. ASSUME NEW e \in Cache!Entries
        PROVE  [V |-> dba[p].BTH[e].V /\ e \notin cut, I |-> dba[p].BTH[e].I] \in PyPointer
    <3>1. dba[p].BTH[e] \in PyPointer
      BY <1>2 DEF ArrayOK, PyArray, PyBlock
    <3> HIDE DEF p, cut
    <3> QED BY <3>1 DEF PyPointer
  <2> HIDE DEF p, cut
  <2> QED BY <2>1
<1> HIDE DEF p, cut, table
<1>3. ASSUME NEW s \in Cache!Slots, s = p
      PROVE  [dba[s] EXCEPT !.BTH = table] \in PyBlock /\ ParentOK([dba[s] EXCEPT !.BTH = table])
  <2>1. dba[s] \in PyBlock /\ ParentOK(dba[s]) /\ table \in [Cache!Entries -> PyPointer]
    BY <1>2, <1>3 DEF ArrayOK, PyArray
  <2> QED BY <2>1 DEF PyBlock, ParentOK
<1> QED BY <1>1, <1>3 DEF ArrayOK, PyArray

LEMMA VacatedOK ==
    ASSUME NEW dba, ArrayOK(dba), NEW v
    PROVE  ArrayOK(PyVacated(dba, v))
<1>1. ASSUME NEW s \in Cache!Slots
      PROVE  [dba[s] EXCEPT !.TAG = 0] \in PyBlock /\ ParentOK([dba[s] EXCEPT !.TAG = 0])
  BY Numbers DEF PyBlock, ParentOK, ArrayOK, PyArray
<1>2. ASSUME NEW s \in Cache!Slots, NEW pv \in BOOLEAN
      PROVE  [dba[s] EXCEPT !.PV = pv] \in PyBlock /\ ParentOK([dba[s] EXCEPT !.PV = pv])
  BY DEF PyBlock, ParentOK, ArrayOK, PyArray
<1> DEFINE children == {At(i) : i \in Cache!Children(dba, At(v))}
           p == At(v)
           orphaning == [s \in Cache!Slots |-> [dba[s] EXCEPT !.PV = @ /\ s \notin children]]
<1>3. \/ PyVacated(dba, v) = dba
      \/ PyVacated(dba, v) = [dba EXCEPT ![p].TAG = 0]
      \/ PyVacated(dba, v) = orphaning
  BY DEF PyVacated
<1> HIDE DEF children, p
<1>4. ASSUME NEW s \in Cache!Slots
      PROVE  orphaning[s] \in PyBlock /\ ParentOK(orphaning[s])
  <2> DEFINE pv == dba[s].PV /\ s \notin children
  <2>1. orphaning[s] = [dba[s] EXCEPT !.PV = pv] /\ pv \in BOOLEAN
    OBVIOUS
  <2> HIDE DEF pv, orphaning
  <2> QED BY <1>2, <2>1
<1>5. ArrayOK(orphaning)
  BY <1>4 DEF ArrayOK, PyArray
<1>6. ArrayOK([dba EXCEPT ![p].TAG = 0])
  BY <1>1 DEF ArrayOK, PyArray
<1> QED BY <1>3, <1>5, <1>6

LEMMA InstalledOK ==
    ASSUME NEW dba, ArrayOK(dba), NEW v, addr \in Cache!Blocks,
           current_level \in 1 .. num_BTH, current_level > 1 => last_BTH \in Indices
    PROVE  ArrayOK(PyInstalled(dba, v))
<1> DEFINE pt == IF current_level = 1 THEN Cache!L0TIndex(addr) ELSE last_BTH
           p == At(v)
           new == [dba[p] EXCEPT !.V = TRUE, !.PV = TRUE, !.LF = current_level, !.R = 1,
                                 !.PT = pt, !.BTH = Cache!EmptyTable]
<1>1. PyInstalled(dba, v) = [dba EXCEPT ![p] = new]
  BY DEF PyInstalled
<1>2. /\ current_level = 1 => pt \in 0 .. L0Size - 1
      /\ current_level > 1 => pt \in Indices
  BY IndexTypes, Numbers
<1>3. Cache!EmptyTable \in [Cache!Entries -> PyPointer]
  BY IndicesFacts, Numbers DEF Cache!EmptyTable, Cache!NullPointer, PyPointer
<1>4. ASSUME p \in Cache!Slots PROVE new \in PyBlock /\ ParentOK(new)
  <2>1. dba[p] \in PyBlock
    BY <1>4 DEF ArrayOK, PyArray
  <2> HIDE DEF p, pt
  <2>2. /\ new \in PyBlock /\ new.LF = current_level /\ new.PT = pt
    <3>1. pt \in Indices \cup (0 .. L0Size - 1) /\ current_level \in 0 .. num_BTH /\ 1 \in 0 .. RMax
      BY <1>2, Numbers
    <3> QED BY <1>3, <2>1, <3>1 DEF PyBlock
  <2> HIDE DEF new
  <2> QED BY <1>2, <2>2 DEF ParentOK
<1> HIDE DEF new, p
<1> QED BY <1>1, <1>4 DEF ArrayOK, PyArray

LEMMA TypesParts ==
    ASSUME Types
    PROVE  /\ cache_L0T \in PyL0T /\ cache_DBA \in PyArray /\ ArrayOK(cache_DBA)
           /\ ListOK /\ PlaceOK
BY DEF Types, ArrayOK

LEMMA RaiseTypes ==
    ASSUME Types, UNCHANGED script, Raise
    PROVE  Types'
<1>1. Indices' = Indices
  BY DEF Indices
<1>2. ListOK'
  BY <1>1 DEF Types, ListOK, Raise
<1>3. PlaceOK'
  BY <1>1 DEF Types, PlaceOK, Raise, Phases
<1> QED BY <1>2, <1>3, TypesNext, TypesParts DEF Raise

LEMMA PyLineTypes ==
    ASSUME Types, UNCHANGED script, NEW b \in Cache!Blocks, PyLine(b), ~Raise
    PROVE  Types'
<1> DEFINE path == PyPath(b)
<1>0. /\ cache_L0T \in PyL0T /\ cache_DBA \in PyArray /\ ArrayOK(cache_DBA)
      /\ ListOK /\ PlaceOK
  BY TypesParts
<1>1. /\ phase = "ready"
      /\ cache_DBA' = PyTouched(path)
      /\ IF script = Py THEN PyAccess(b) ELSE BaseAccess(b)
      /\ UNCHANGED <<cache_L0T, VBIR, last_BTH, current_level>>
  BY DEF PyLine
<1>2. path[num_BTH] = End \/ path[num_BTH] \in Indices
  BY <1>0, PyPathSteps, Numbers
<1>3. Indices' = Indices
  BY DEF Indices
<1>4. Lists(cache_TLB_order, DOMAIN cache_TLB) /\ Lists(MovedToEnd(b), DOMAIN cache_TLB)
  BY <1>0, MovedLists DEF Lists, ListOK
<1>5. ArrayOK(cache_DBA')
  BY <1>0, <1>1, TouchedOK
<1> HIDE DEF path
<1>6. CASE script = Py
  <2>1. CASE PyFound(path, b)
    <3> DEFINE s == IF b \in DOMAIN cache_TLB THEN cache_TLB[b] ELSE At(path[num_BTH])
    <3>1. PySetsTLB(MovedToEnd(b), b, s) /\ UNCHANGED <<phase, addr>>
      BY <1>1, <1>6, <2>1 DEF PyAccess, path
    <3>2. s \in Indices
      BY <1>0, <1>2, <2>1, IndicesFacts DEF ListOK, PyFound
    <3> HIDE DEF s
    <3>3. ListOK'
      BY <1>0, <1>4, <3>1, <3>2, SetsTLB
    <3>4. PlaceOK'
      BY <1>0, <1>1, <1>3, <3>1 DEF PlaceOK
    <3> QED BY <1>0, <1>1, <1>5, <3>3, <3>4, TypesNext
  <2>2. CASE ~PyFound(path, b)
    <3>1. /\ cache_TLB_order' = MovedToEnd(b) /\ phase' = "wait" /\ addr' = b
          /\ UNCHANGED cache_TLB
      BY <1>1, <1>6, <2>2 DEF PyAccess, path
    <3>2. ListOK'
      BY <1>0, <1>3, <1>4, <3>1 DEF ListOK, Lists
    <3>3. PlaceOK'
      BY <1>0, <1>1, <1>3, <3>1 DEF PlaceOK, Phases, Cache!Phases
    <3> QED BY <1>0, <1>1, <1>5, <3>2, <3>3, TypesNext
  <2> QED BY <2>1, <2>2
<1>7. CASE script # Py
  <2>1. CASE b \in DOMAIN cache_TLB
    <3>1. /\ phase' \in {phase, "error"}
          /\ UNCHANGED <<cache_TLB, cache_TLB_order, addr>>
      BY <1>1, <1>7, <2>1 DEF BaseAccess
    <3>2. ListOK'
      BY <1>0, <1>3, <3>1 DEF ListOK
    <3>3. PlaceOK'
      BY <1>0, <1>1, <1>3, <3>1 DEF PlaceOK, Phases, Cache!Phases
    <3> QED BY <1>0, <1>1, <1>5, <3>2, <3>3, TypesNext
  <2>2. CASE b \notin DOMAIN cache_TLB /\ PyFound(path, b)
    <3>1. PySetsTLB(cache_TLB_order, b, path[num_BTH]) /\ UNCHANGED <<phase, addr>>
      BY <1>1, <1>7, <2>2 DEF BaseAccess, path
    <3>2. path[num_BTH] \in Indices
      BY <1>2, <2>2 DEF PyFound
    <3>3. ListOK'
      BY <1>0, <1>4, <3>1, <3>2, SetsTLB
    <3>4. PlaceOK'
      BY <1>0, <1>1, <1>3, <3>1 DEF PlaceOK
    <3> QED BY <1>0, <1>1, <1>5, <3>3, <3>4, TypesNext
  <2>3. CASE b \notin DOMAIN cache_TLB /\ ~PyFound(path, b)
    <3>1. phase' = "wait" /\ addr' = b /\ UNCHANGED <<cache_TLB, cache_TLB_order>>
      BY <1>1, <1>7, <2>3 DEF BaseAccess, path
    <3>2. ListOK'
      BY <1>0, <1>3, <3>1 DEF ListOK
    <3>3. PlaceOK'
      BY <1>0, <1>1, <1>3, <3>1 DEF PlaceOK, Phases, Cache!Phases
    <3> QED BY <1>0, <1>1, <1>5, <3>2, <3>3, TypesNext
  <2> QED BY <2>1, <2>2, <2>3
<1> QED BY <1>6, <1>7

\* The array after the search of insert, whose L0T entry may lose its PV.
LEMMA PyInsertBeginTypes ==
    ASSUME Types, UNCHANGED script, PyInsertBegin
    PROVE  Types'
<1> DEFINE path == PyPath(addr)
           last == PyEndsAt(path)
           touched == PyTouched(path)
           i == At(cache_L0T[Cache!L0TIndex(addr)].I)
           pv == touched[i].PV /\ ~(last = -1 /\ cache_L0T[Cache!L0TIndex(addr)].V)
<1>0. /\ cache_L0T \in PyL0T /\ cache_DBA \in PyArray /\ ArrayOK(cache_DBA)
      /\ ListOK /\ PlaceOK /\ addr \in Cache!Blocks
  BY TypesParts DEF PlaceOK
<1>1. /\ phase' = "insert" /\ last_BTH' = last
      /\ cache_DBA' = [touched EXCEPT ![i].PV = pv]
      /\ current_level' = IF last = -1 THEN 1 ELSE cache_DBA[At(last)].LF + 1
      /\ UNCHANGED <<cache_L0T, cache_TLB, cache_TLB_order, VBIR, addr>>
  BY DEF PyInsertBegin
<1>2. ArrayOK(touched)
  BY <1>0, TouchedOK
<1>3. last \in Indices \cup {-1}
  BY <1>0, EndsAtFacts
<1>4. pv \in BOOLEAN
  OBVIOUS
<1> HIDE DEF path, last, touched, i, pv
<1>5. ArrayOK(cache_DBA')
  <2>1. ASSUME NEW s \in Cache!Slots
        PROVE  [touched[s] EXCEPT !.PV = pv] \in PyBlock /\ ParentOK([touched[s] EXCEPT !.PV = pv])
    BY <1>2, <1>4 DEF ArrayOK, PyArray, PyBlock, ParentOK
  <2> QED BY <1>1, <1>2, <2>1 DEF ArrayOK, PyArray
<1>6. Indices' = Indices
  BY DEF Indices
<1>7. ListOK'
  BY <1>0, <1>1, <1>6 DEF ListOK
<1>8. current_level' \in 1 .. num_BTH + 1 /\ (current_level' > 1 => last \in Indices)
  <2>1. CASE last = -1
    BY <1>1, <2>1, Numbers
  <2>2. CASE last # -1
    <3>1. At(last) \in Cache!Slots /\ last \in Indices
      BY <1>3, <2>2, IndicesFacts
    <3>2. cache_DBA[At(last)].LF \in 0 .. num_BTH
      BY <1>0, <3>1 DEF PyArray, PyBlock
    <3> QED BY <1>1, <2>2, <3>1, <3>2, Numbers
  <2> QED BY <2>1, <2>2
<1>9. PlaceOK'
  BY <1>0, <1>1, <1>3, <1>6, <1>8, Numbers DEF PlaceOK, Phases, Cache!Phases
<1> QED BY <1>0, <1>1, <1>5, <1>7, <1>9, TypesNext

LEMMA VictimOK ==
    ASSUME VBIR \in Cache!Slots, NEW n \in 0 .. MNA
    PROVE  /\ PyVictim(n) \in Indices \cup {-1}
           /\ script \in {Py, Base} => PyVictim(n) \in Indices
           /\ n < MNA => PyVictim(n) = Cache!Slot(n) /\ Cache!Slot(n) \in Cache!Slots
           /\ script = Py => PyVictim(n) \in Cache!Slots
<1>1. \A k \in Int : Cache!Slot(k) \in Cache!Slots
  BY Numbers DEF Cache!Slot
<1>2. n \in Int /\ n - 1 \in Int
  OBVIOUS
<1>3. Cache!Slots \subseteq Indices /\ (script = Base => -1 \in Indices)
  BY DEF Indices
<1> QED BY <1>1, <1>2, <1>3 DEF PyVictim

LEMMA PyInstallTypes ==
    ASSUME Types, UNCHANGED script, script \in {Py, Base}, PyInstall, ~Raise
    PROVE  Types'
<1>0. /\ cache_L0T \in PyL0T /\ cache_DBA \in PyArray /\ ArrayOK(cache_DBA)
      /\ ListOK /\ PlaceOK /\ addr \in Cache!Blocks /\ VBIR \in Cache!Slots
  BY TypesParts DEF PlaceOK
<1>1. PICK n \in 0 .. MNA :
         LET v    == PyVictim(n)
             dba  == IF script = Py THEN Cache!Scanned(n)
                     ELSE PyLinked(Cache!Scanned(n), v)
             vacated == PyVacated(PyUnlinked(dba, v), v)
         IN  /\ IF script = Py
                THEN /\ cache_DBA' = PyInstalled(PyLinked(vacated, v), v)
                     /\ cache_L0T' = PyL0TLinked(PyL0TUnlinked(cache_L0T, dba, v), v)
                ELSE /\ cache_DBA' = PyInstalled(vacated, v)
                     /\ cache_L0T' = PyL0TUnlinked(PyL0TLinked(cache_L0T, v), dba, v)
             /\ PyDropsFromTLB(dba, v)
             /\ VBIR' = At(v + 1)
             /\ last_BTH' = v
             /\ current_level' = current_level + 1
             /\ UNCHANGED <<phase, addr>>
  BY DEF PyInstall
<1> DEFINE v == PyVictim(n)
           scanned == Cache!Scanned(n)
           dba == IF script = Py THEN scanned ELSE PyLinked(scanned, v)
           unlinked == PyUnlinked(dba, v)
           vacated == PyVacated(unlinked, v)
<1>2. v \in Indices
  BY <1>0, VictimOK
<1>3. /\ current_level \in 1 .. num_BTH /\ phase = "insert"
      /\ current_level > 1 => last_BTH \in Indices
  BY <1>0, Numbers DEF PlaceOK, PyInstall
<1> HIDE DEF v
<1>4. ArrayOK(scanned)
  BY <1>0, ScannedOK
<1>5. ArrayOK(dba)
  BY <1>2, <1>4, LinkedOK
<1>6. cache_DBA' = IF script = Py THEN PyInstalled(PyLinked(vacated, v), v)
                   ELSE PyInstalled(vacated, v)
  BY <1>1 DEF v
<1>7. PyDropsFromTLB(dba, v)
  BY <1>1 DEF v
<1>8. cache_L0T' = IF script = Py THEN PyL0TLinked(PyL0TUnlinked(cache_L0T, dba, v), v)
                   ELSE PyL0TUnlinked(PyL0TLinked(cache_L0T, v), dba, v)
  BY <1>1 DEF v
<1> HIDE DEF dba, scanned
<1>9. ArrayOK(vacated) /\ ArrayOK(PyLinked(vacated, v))
  BY <1>2, <1>5, UnlinkedOK, VacatedOK, LinkedOK
<1> HIDE DEF vacated
<1>10. ArrayOK(cache_DBA')
  BY <1>0, <1>3, <1>6, <1>9, InstalledOK
<1>11. cache_L0T' \in PyL0T
  <2>1. ASSUME NEW l0t \in PyL0T PROVE PyL0TLinked(l0t, v) \in PyL0T /\ PyL0TUnlinked(l0t, dba, v) \in PyL0T
    <3>1. [V |-> TRUE, I |-> v] \in PyPointer
      BY <1>2 DEF PyPointer
    <3>2. PyL0TLinked(l0t, v) \in PyL0T
      BY <3>1 DEF PyL0TLinked, PyL0T
    <3>3. \A t \in 0 .. L0Size - 1 : [l0t[t] EXCEPT !.V = FALSE] \in PyPointer
      BY DEF PyL0T, PyPointer
    <3>4. PyL0TUnlinked(l0t, dba, v) \in PyL0T
      BY <3>3 DEF PyL0TUnlinked, PyL0T
    <3> QED BY <3>2, <3>4
  <2> QED BY <1>0, <1>8, <2>1
<1>12. Indices' = Indices
  BY DEF Indices
<1>13. ListOK'
  <2>1. CASE UNCHANGED <<cache_TLB, cache_TLB_order>>
    BY <1>0, <1>12, <2>1 DEF ListOK
  <2>2. CASE \E key \in DOMAIN cache_TLB : /\ cache_TLB' = Cache!Without(cache_TLB, key)
                                           /\ cache_TLB_order' = Cache!Erased(cache_TLB_order, key)
    BY <1>0, <2>2, DropsFromTLB
  <2> QED BY <1>7, <2>1, <2>2 DEF PyDropsFromTLB
<1>14. PlaceOK'
  <2>1. VBIR' = At(v + 1) /\ last_BTH' = v /\ current_level' = current_level + 1 /\ UNCHANGED <<phase, addr>>
    BY <1>1 DEF v
  <2>2. At(v + 1) \in Cache!Slots
    BY <1>2, IndicesFacts, Numbers DEF At
  <2> QED BY <1>0, <1>2, <1>3, <1>12, <2>1, <2>2, Numbers DEF PlaceOK
<1> QED BY <1>10, <1>11, <1>13, <1>14, TypesNext

LEMMA PyInsertEndTypes ==
    ASSUME Types, UNCHANGED script, PyInsertEnd
    PROVE  Types'
<1>0. /\ cache_L0T \in PyL0T /\ cache_DBA \in PyArray /\ ArrayOK(cache_DBA)
      /\ ListOK /\ PlaceOK /\ addr \in Cache!Blocks
  BY TypesParts DEF PlaceOK
<1>1. /\ phase = "insert" /\ current_level > num_BTH
      /\ cache_DBA' = [cache_DBA EXCEPT ![At(last_BTH)].TAG = addr]
      /\ PySetsTLB(cache_TLB_order, addr, last_BTH)
      /\ phase' \in {"ready", "check"}
      /\ UNCHANGED <<cache_L0T, VBIR, addr, last_BTH, current_level>>
  BY DEF PyInsertEnd
<1>2. last_BTH \in Indices
  BY <1>0, <1>1, Numbers DEF PlaceOK
<1>3. ArrayOK(cache_DBA')
  <2>1. ASSUME NEW s \in Cache!Slots
        PROVE  [cache_DBA[s] EXCEPT !.TAG = addr] \in PyBlock /\ ParentOK([cache_DBA[s] EXCEPT !.TAG = addr])
    BY <1>0 DEF ArrayOK, PyArray, PyBlock, ParentOK
  <2> QED BY <1>0, <1>1, <2>1 DEF ArrayOK, PyArray
<1>4. ListOK'
  <2>1. Lists(cache_TLB_order, DOMAIN cache_TLB)
    BY <1>0 DEF ListOK, Lists
  <2> QED BY <1>0, <1>1, <1>2, <2>1, SetsTLB
<1>5. Indices' = Indices
  BY DEF Indices
<1>6. PlaceOK'
  BY <1>0, <1>1, <1>5 DEF PlaceOK, Phases, Cache!Phases
<1> QED BY <1>0, <1>1, <1>3, <1>4, <1>6, TypesNext

LEMMA BaseReadBackTypes ==
    ASSUME Types, UNCHANGED script, BaseReadBack, ~Raise
    PROVE  Types'
<1>0. /\ cache_L0T \in PyL0T /\ cache_DBA \in PyArray /\ ArrayOK(cache_DBA)
      /\ ListOK /\ PlaceOK
  BY TypesParts
<1>1. /\ cache_DBA' = PyTouched(PyPath(addr)) /\ phase' = "ready"
      /\ UNCHANGED <<cache_L0T, cache_TLB, cache_TLB_order, VBIR, addr,
                     last_BTH, current_level>>
  BY DEF BaseReadBack
<1>2. ArrayOK(cache_DBA') /\ Indices' = Indices
  BY <1>0, <1>1, TouchedOK DEF Indices
<1>3. ListOK' /\ PlaceOK'
  BY <1>0, <1>1, <1>2 DEF ListOK, PlaceOK, Phases, Cache!Phases
<1> QED BY <1>0, <1>1, <1>2, <1>3, TypesNext

LEMMA PyTypesNext ==
    ASSUME Types, PyNext
    PROVE  Types'
BY RaiseTypes, PyLineTypes, PyInsertBeginTypes, PyInstallTypes, PyInsertEndTypes, BaseReadBackTypes DEF PyNext
-----------------------------------------------------------------------------
(* An index that is exact.  That of test.py is for ever, that of test_base.py *)
(* until every block has been used: then no index is -1.                     *)

Exact == script = Py \/ Index!Cold

SlotTypes ==
    /\ cache_L0T \in Index!L0Table
    /\ cache_DBA \in Index!Array
    /\ \A t \in DOMAIN cache_TLB : cache_TLB[t] \in Cache!Slots
    /\ last_BTH \in Cache!Slots \cup {-1}

\* The TLB agrees with the search, but for the block that insert fills.
Agreed ==
    \A t \in DOMAIN cache_TLB :
       LET s == Index!Walk(t)[num_BTH]
       IN  s = -1 \/ s = cache_TLB[t] \/ s \in Index!Filling

\* Nor does the search find that block before it is filled.
StillMissing ==
    phase \in {"wait", "insert"} =>
        Index!Walk(addr)[num_BTH] \in {-1} \cup Index!Filling

ExactInv ==
    /\ SlotTypes
    /\ Index!TLBExact
    /\ Index!InsertFillsGap
    /\ Agreed
    /\ StillMissing
    /\ Index!Cold => Index!HandSplits /\ phase # "error"
    /\ \E owner : Index!IndexOwned(owner) /\ (Index!Cold => Index!AllLinked(owner))

PyInv ==
    /\ Types
    /\ phase \in {"ready", "wait", "insert", "check", "error"}
    /\ Exact => ExactInv

LEMMA IndexArray ==
    ASSUME NEW dba \in PyArray,
           \A s \in Cache!Slots : /\ dba[s].BTH \in [Index!Entries -> Index!Pointer]
                                  /\ dba[s].PT \in 0 .. L0Size + capacity - 1
    PROVE  dba \in Index!Array
<1> SUFFICES ASSUME NEW s \in Index!Slots PROVE dba[s] \in Index!Block
  BY SameSets DEF PyArray, Index!Array
<1> DEFINE d == dba[s]
<1>1. /\ d \in PyBlock
      /\ d.BTH \in [Index!Entries -> Index!Pointer]
      /\ d.PT \in 0 .. L0Size + capacity - 1
  BY SameSets DEF PyArray
<1> HIDE DEF d
<1>2. Cache!Blocks = Index!Blocks /\ (0 .. L0Size + capacity - 1 = 0 .. (L0Size + capacity) - 1)
  BY SameSets, Numbers
<1>3. d \in Index!Block
  BY <1>1, <1>2 DEF PyBlock, Index!Block
<1> QED BY <1>3 DEF d

LEMMA PySlotTypes ==
    ASSUME Types, script = Py
    PROVE  SlotTypes
<1>1. Indices = Cache!Slots
  BY DEF Indices, Py, Base
<1>2. PyPointer = Index!Pointer
  BY <1>1, SameSets DEF PyPointer, Index!Pointer
<1>3. \A i \in Indices \cup (0 .. L0Size - 1) : i \in 0 .. L0Size + capacity - 1
  BY <1>1, Numbers
<1>4. cache_DBA \in Index!Array
  BY <1>2, <1>3, SameSets, IndexArray DEF Types, PyArray, PyBlock
<1> QED BY <1>1, <1>2, <1>4 DEF Types, SlotTypes, PyL0T, Index!L0Table, ListOK, PlaceOK

\* The Python search is that of the cache, with End for None.
LEMMA PathsAgree ==
    ASSUME Types, SlotTypes, NEW owner, NEW filling,
           Index!Owned(cache_L0T, cache_DBA, owner, filling),
           NEW b \in Cache!Blocks, NEW walk, walk = Index!Walk(b),
           NEW path, path = PyPath(b)
    PROVE  \A l \in Cache!Levels :
              IF walk[l] = -1 THEN path[l] = End
              ELSE /\ path[l] = walk[l] /\ walk[l] \in Cache!Slots
                   /\ cache_DBA[walk[l]].V /\ cache_DBA[walk[l]].LF = l
<1>1. \A l \in Cache!Levels :
         path[l] = IF l = 1 THEN PyFollowed(cache_L0T[Cache!L0TIndex(b)])
                   ELSE IF path[l - 1] = End THEN End
                   ELSE PyFollowed(cache_DBA[At(path[l - 1])].BTH[Cache!TableIndex(b, l)])
  BY PyPathSteps DEF Types
<1>2. \A l \in Cache!Levels :
         walk[l] = IF l = 1 THEN Index!Followed(cache_L0T[Index!L0TIndex(b)])
                   ELSE IF walk[l - 1] = -1 THEN -1
                   ELSE Index!Followed(Index!Tables[walk[l - 1]][Index!TableIndex(b, l)])
  BY Sizes, SameSets, Index!WalkSteps DEF Index!None
<1>3. \A l \in Cache!Levels : walk[l] # -1 =>
         /\ walk[l] \in Cache!Slots
         /\ cache_DBA[walk[l]].V /\ cache_DBA[walk[l]].LF = l
  <2>1. walk = Index!Path(cache_L0T, [s \in Index!Slots |-> cache_DBA[s].BTH], b)
    BY DEF Index!Walk, Index!Tables
  <2> QED BY <2>1, Sizes, SameSets, Index!WalkOwned DEF SlotTypes, Index!None
<1> DEFINE S == {l \in Nat : path[l] = IF walk[l] = -1 THEN End ELSE walk[l]}
<1>4. 1 \in S
  <2>1. 1 \in Cache!Levels
    BY Numbers
  <2>2. cache_L0T[Cache!L0TIndex(b)] \in Index!Pointer
    BY IndexTypes DEF SlotTypes, Index!L0Table
  <2>3. path[1] = PyFollowed(cache_L0T[Cache!L0TIndex(b)])
    BY <1>1, <2>1
  <2>4. walk[1] = Index!Followed(cache_L0T[Cache!L0TIndex(b)])
    BY <1>2, <2>1, SameOps
  <2> QED BY <2>2, <2>3, <2>4, SameSets, Numbers DEF PyFollowed, Index!Followed, Index!None, Index!Pointer
<1>5. ASSUME NEW k \in 1 .. num_BTH - 1, k \in S PROVE k + 1 \in S
  <2>1. k + 1 \in Cache!Levels /\ k \in Cache!Levels /\ k + 1 # 1 /\ (k + 1) - 1 = k /\ k + 1 \in Nat
    BY Numbers
  <2>2. CASE walk[k] = -1
    BY <1>1, <1>2, <1>5, <2>1, <2>2
  <2>3. CASE walk[k] # -1
    <3> DEFINE e == cache_DBA[walk[k]].BTH[Cache!TableIndex(b, k + 1)]
    <3>1. walk[k] \in Cache!Slots /\ path[k] = walk[k] /\ At(path[k]) = walk[k] /\ path[k] # End
      BY <1>3, <1>5, <2>1, <2>3, IndicesFacts, Numbers
    <3>2. path[k + 1] = PyFollowed(e)
      BY <1>1, <2>1, <3>1
    <3>3. walk[k + 1] = Index!Followed(e)
      BY <1>2, <2>1, <2>3, <3>1, SameOps, SameSets DEF Index!Tables
    <3>4. e \in Index!Pointer
      BY <2>1, <3>1, IndexTypes, SameSets DEF SlotTypes, Index!Array, Index!Block
    <3> HIDE DEF e
    <3> QED BY <2>1, <3>2, <3>3, <3>4, SameSets, Numbers DEF PyFollowed, Index!Followed, Index!None, Index!Pointer
  <2> QED BY <2>2, <2>3
<1> HIDE DEF S
<1>6. 1 .. num_BTH \subseteq S
  BY <1>4, <1>5, Sizes, Numbers, Index!LevelInduction
<1>7. \A l \in Cache!Levels : path[l] = IF walk[l] = -1 THEN End ELSE walk[l]
  BY <1>6, Numbers DEF S
<1> QED BY <1>3, <1>7

LEMMA SearchExact ==
    ASSUME Types, SlotTypes, NEW owner,
           Index!Owned(cache_L0T, cache_DBA, owner, {}),
           NEW b \in Cache!Blocks, NEW walk, walk = Index!Walk(b),
           NEW path, path = PyPath(b)
    PROVE  /\ ~SearchRaises(path)
           /\ PyFound(path, b) <=> walk[num_BTH] # -1
           /\ walk[num_BTH] # -1 => /\ path[num_BTH] = walk[num_BTH]
                                    /\ walk[num_BTH] \in Cache!Slots
                                    /\ Index!Holds(walk[num_BTH], b)
           /\ Index!EndsAt(walk, PyEndsAt(path))
           /\ PyEndsAt(path) \in Cache!Slots \cup {-1}
           /\ PyEndsAt(path) = -1 => ~cache_L0T[Cache!L0TIndex(b)].V
<1>1. \A l \in Cache!Levels :
         IF walk[l] = -1 THEN path[l] = End
         ELSE /\ path[l] = walk[l] /\ walk[l] \in Cache!Slots
              /\ cache_DBA[walk[l]].V /\ cache_DBA[walk[l]].LF = l
  BY PathsAgree
<1>2. num_BTH \in Cache!Levels /\ 1 \in Cache!Levels /\ -1 # End
  BY Numbers DEF End
<1>3. ~SearchRaises(path)
  <2> SUFFICES ASSUME NEW l \in Reached(path) \ {num_BTH} PROVE ~Cache!IsData(cache_DBA, At(path[l]))
    BY DEF SearchRaises
  <2>1. l \in Cache!Levels /\ path[l] # End
    BY DEF Reached
  <2>2. At(path[l]) = walk[l] /\ cache_DBA[walk[l]].LF = l
    BY <1>1, <2>1, IndicesFacts
  <2> QED BY <2>2 DEF Cache!IsData
<1>4. walk[num_BTH] # -1 => /\ path[num_BTH] = walk[num_BTH] /\ path[num_BTH] # End
                            /\ walk[num_BTH] \in Cache!Slots
                            /\ Index!Holds(walk[num_BTH], b)
  <2> SUFFICES ASSUME walk[num_BTH] # -1
               PROVE  /\ path[num_BTH] = walk[num_BTH] /\ path[num_BTH] # End
                      /\ walk[num_BTH] \in Cache!Slots
                      /\ Index!Holds(walk[num_BTH], b)
    OBVIOUS
  <2>1. Index!Found(walk, b)
    BY Sizes, SameSets, Index!OwnedWalksFind DEF SlotTypes, Index!None
  <2> QED BY <1>1, <1>2, <2>1, Numbers DEF Index!Found, Index!Holds
<1>5. PyFound(path, b) <=> walk[num_BTH] # -1
  BY <1>1, <1>2, <1>4, IndicesFacts, SameOps DEF PyFound
<1>6. \/ path[1] = End /\ PyEndsAt(path) = -1
      \/ \E l \in Cache!Levels : /\ PyEndsAt(path) = path[l] /\ PyEndsAt(path) \in Indices
                                 /\ l < num_BTH => path[l + 1] = End
  BY EndsAtFacts DEF Types
<1>7. CASE path[1] = End /\ PyEndsAt(path) = -1
  <2>1. walk[1] = -1
    BY <1>1, <1>2, <1>7, Numbers
  <2>2. path[1] = PyFollowed(cache_L0T[Cache!L0TIndex(b)])
    BY <1>2, PyPathSteps DEF Types
  <2>3. cache_L0T[Cache!L0TIndex(b)].I # End
    BY IndexTypes, SameSets, Numbers DEF SlotTypes, Index!L0Table, Index!Pointer
  <2>4. ~cache_L0T[Cache!L0TIndex(b)].V
    BY <1>7, <2>2, <2>3 DEF PyFollowed
  <2> QED BY <1>3, <1>4, <1>5, <1>7, <2>1, <2>4 DEF Index!EndsAt, Index!None
<1>8. ASSUME NEW l \in Cache!Levels, PyEndsAt(path) = path[l], PyEndsAt(path) \in Indices,
             l < num_BTH => path[l + 1] = End
      PROVE  Index!EndsAt(walk, PyEndsAt(path)) /\ PyEndsAt(path) \in Cache!Slots
  <2>1. walk[l] # -1 /\ path[l] = walk[l] /\ walk[l] \in Cache!Slots
    BY <1>1, <1>8, IndicesFacts
  <2>2. l < num_BTH => walk[l + 1] = -1
    <3>1. l < num_BTH => l + 1 \in Cache!Levels
      BY Numbers
    <3> QED BY <1>1, <1>8, <3>1, Numbers
  <2> QED BY <1>8, <2>1, <2>2, SameSets DEF Index!EndsAt, Index!None
<1>9. -1 \notin Cache!Slots
  BY Numbers
<1> QED BY <1>3, <1>4, <1>5, <1>6, <1>7, <1>8, <1>9

LEMMA ExactTypes ==
    ASSUME Types, SlotTypes
    PROVE  /\ cache_L0T \in Index!L0Table /\ cache_DBA \in Index!Array
           /\ Index!TLBTypeOK
           /\ addr \in Index!Blocks
           /\ DOMAIN cache_TLB \subseteq Cache!Blocks
<1>1. cache_TLB \in [DOMAIN cache_TLB -> Index!Slots]
  BY SameSets DEF Types, ListOK, SlotTypes
<1> QED BY <1>1, SameSets DEF Types, ListOK, PlaceOK, SlotTypes, Index!TLBTypeOK

LEMMA PyInvSound ==
    ASSUME script \in {Py, Base}, PyInv
    PROVE  TypeOK /\ ColdSound /\ PySound
<1>1. TypeOK
  BY TypesSound DEF PyInv
<1>2. ASSUME Exact
      PROVE  /\ Index!TLBCoherent /\ Index!PointersSound /\ Index!WalksExact
             /\ phase = "ready" => \A b \in DOMAIN cache_TLB :
                   PyFound(PyPath(b), b) => PyPath(b)[num_BTH] = cache_TLB[b]
             /\ Index!Cold => Index!Reachable /\ phase # "overrun" /\ phase # "error"
  <2>1. Types /\ ExactInv /\ SlotTypes
    BY <1>2 DEF PyInv, ExactInv
  <2>2. /\ cache_L0T \in Index!L0Table /\ cache_DBA \in Index!Array
        /\ Index!TLBTypeOK /\ DOMAIN cache_TLB \subseteq Cache!Blocks
    BY <2>1, ExactTypes
  <2>3. Index!TLBCoherent
    BY <2>1 DEF ExactInv, Index!TLBExact
  <2>4. PICK owner : Index!IndexOwned(owner) /\ (Index!Cold => Index!AllLinked(owner))
    BY <2>1 DEF ExactInv
  <2>5. Index!PointersSound /\ Index!WalksExact
    BY <2>2, <2>4, Sizes, Index!OwnedPointersSound, Index!OwnedWalksExact
  <2>6. Index!Cold => Index!Reachable /\ phase # "overrun" /\ phase # "error"
    BY <2>1, <2>2, <2>3, <2>4, Sizes, Index!LinkedReachable DEF ExactInv, PyInv
  <2>7. ASSUME phase = "ready", NEW b \in DOMAIN cache_TLB, PyFound(PyPath(b), b)
        PROVE  PyPath(b)[num_BTH] = cache_TLB[b]
    <3>1. Index!Filling = {}
      BY <2>7 DEF Index!Filling
    <3>2. Index!Owned(cache_L0T, cache_DBA, owner, {})
      BY <2>4, <3>1 DEF Index!IndexOwned
    <3>3. b \in Cache!Blocks
      BY <2>2
    <3>4. Index!Walk(b)[num_BTH] # -1 /\ PyPath(b)[num_BTH] = Index!Walk(b)[num_BTH]
      BY <2>1, <2>7, <3>2, <3>3, SearchExact
    <3> QED BY <2>1, <3>1, <3>4 DEF ExactInv, Agreed
  <2> QED BY <2>3, <2>5, <2>6, <2>7
<1>3. ColdSound
  BY <1>2, SameProperties DEF ColdSound, Exact, Index!ColdSound, Index!FirstFill, Index!None
<1>4. PySound
  BY <1>2, SameProperties DEF PySound, Exact
<1> QED BY <1>1, <1>3, <1>4

LEMMA PyInvInit ==
    ASSUME Init
    PROVE  PyInv
<1>1. /\ script \in Scripts /\ addr = 0
      /\ cache_L0T = [t \in 0 .. L0Size - 1 |-> Cache!NullPointer]
      /\ cache_DBA = [s \in Cache!Slots |-> Cache!EmptyBlock]
      /\ cache_TLB = << >> /\ cache_TLB_order = << >>
      /\ VBIR = 0 /\ phase = "ready" /\ last_BTH = -1 /\ current_level = 0
  BY DEF Init
<1>2. Index!NullPointer \in Index!Pointer /\ Cache!NullPointer \in PyPointer
  BY Numbers, IndicesFacts, SameSets DEF Cache!NullPointer, Index!NullPointer, Index!Pointer, PyPointer
<1>3. Cache!EmptyBlock \in Index!Block /\ Cache!EmptyBlock \in PyBlock
  BY <1>2, Numbers, IndicesFacts, SameSets
     DEF Cache!EmptyBlock, Cache!EmptyTable, Index!Block, PyBlock
<1>4. DOMAIN cache_TLB = {} /\ cache_TLB_order \in Seq(Cache!Blocks)
      /\ Range(cache_TLB_order) = {} /\ IsInjective(cache_TLB_order)
      /\ cache_TLB \in [DOMAIN cache_TLB -> Indices]
  BY <1>1 DEF Range, IsInjective
<1>5. ParentOK(Cache!EmptyBlock)
  BY DEF ParentOK, Cache!EmptyBlock
<1>6. Types
  BY <1>1, <1>2, <1>3, <1>4, <1>5, Numbers
     DEF Types, PyL0T, PyArray, ListOK, PlaceOK, Phases, Cache!Phases
<1>7. SlotTypes
  BY <1>1, <1>2, <1>3, <1>4, SameSets DEF SlotTypes, Index!L0Table, Index!Array
<1>8. /\ Index!TLBExact /\ Index!InsertFillsGap /\ Agreed
      /\ StillMissing
  BY <1>1, <1>4 DEF Index!TLBExact, Index!TLBCoherent, Index!FillingNotInTLB,
                    Index!InsertFillsGap, Agreed, StillMissing
<1>9. Index!ColdInv /\ Index!HandSplits
  <2>1. Index!Init
    BY SameSets, <1>1 DEF Index!Init, Index!None
  <2>2. Index!HandSplits
    BY <1>1, SameSets, Numbers DEF Index!HandSplits, Cache!EmptyBlock
  <2> QED BY <2>1, <2>2, Sizes, Index!ColdInvInit
<1>10. Index!Cold
  BY <1>1, SameSets, Numbers DEF Index!Cold, Cache!EmptyBlock
<1> QED BY <1>1, <1>6, <1>7, <1>8, <1>9, <1>10 DEF PyInv, ExactInv, Index!ColdInv
-----------------------------------------------------------------------------
(* Steps of the Python programs that leave the index as it is.               *)

\* Steps that leave the index as it is, but for reuse counts.
SameIndex ==
    /\ UNCHANGED <<script, cache_L0T, VBIR>>
    /\ Index!SameBlocks(cache_DBA, cache_DBA')

LEMMA SameTablesTypes ==
    ASSUME Types', SlotTypes, UNCHANGED script,
           \A s \in Cache!Slots : /\ cache_DBA'[s].BTH = cache_DBA[s].BTH
                                  /\ cache_DBA'[s].PT = cache_DBA[s].PT
    PROVE  cache_DBA' \in Index!Array
<1>1. cache_DBA' \in PyArray
  BY DEF Types, PyArray, PyBlock, PyPointer, Indices
<1>2. \A s \in Cache!Slots : /\ cache_DBA[s].BTH \in [Index!Entries -> Index!Pointer]
                             /\ cache_DBA[s].PT \in 0 .. L0Size + capacity - 1
  <2>1. \A s \in Index!Slots : cache_DBA[s] \in Index!Block
    BY DEF SlotTypes, Index!Array
  <2>2. 0 .. L0Size + capacity - 1 = 0 .. (L0Size + capacity) - 1
    BY Numbers
  <2> QED BY <2>1, <2>2, SameSets DEF Index!Block
<1> QED BY <1>1, <1>2, IndexArray

LEMMA SameIndexTypes ==
    ASSUME Types', SlotTypes, SameIndex
    PROVE  cache_L0T' \in Index!L0Table /\ cache_DBA' \in Index!Array
BY SameTablesTypes, SameSets DEF SlotTypes, SameIndex, Index!SameBlocks

LEMMA SameIndexShape ==
    ASSUME SameIndex
    PROVE  /\ Index!Cold' <=> Index!Cold
           /\ Index!HandSplits => Index!HandSplits'
           /\ \A owner : Index!AllLinked(owner) => Index!AllLinked(owner)'
           /\ \A b : Index!Walk(b)' = Index!Walk(b)
           /\ \A s \in Cache!Slots : \A b : Index!Holds(s, b)' <=> Index!Holds(s, b)
<1>1. \A s \in Index!Slots : /\ cache_DBA'[s].BTH = cache_DBA[s].BTH
                             /\ cache_DBA'[s].V = cache_DBA[s].V
                             /\ cache_DBA'[s].LF = cache_DBA[s].LF
                             /\ cache_DBA'[s].TAG = cache_DBA[s].TAG
  BY DEF SameIndex, Index!SameBlocks
<1>2. UNCHANGED <<cache_L0T, VBIR>>
  BY DEF SameIndex
<1>3. /\ Index!Cold' <=> Index!Cold
      /\ Index!HandSplits => Index!HandSplits'
      /\ \A owner : Index!AllLinked(owner) => Index!AllLinked(owner)'
  BY <1>1, <1>2, Sizes, Index!ShapeKeeps
<1>4. ASSUME NEW b PROVE Index!Walk(b)' = Index!Walk(b)
  <2>1. Index!SameSearch(cache_DBA')
    BY <1>1 DEF Index!SameSearch
  <2> QED BY <1>2, <2>1, Sizes, Index!SearchUnchanged
<1>5. \A s \in Cache!Slots : \A b : Index!Holds(s, b)' <=> Index!Holds(s, b)
  BY <1>1, SameSets DEF Index!Holds
<1> QED BY <1>3, <1>4, <1>5

\* What a step outside insert puts in the TLB comes from the search.
FromSearch ==
    \A t \in DOMAIN cache_TLB' :
       \/ t \in DOMAIN cache_TLB /\ cache_TLB'[t] = cache_TLB[t]
       \/ Index!Walk(t)[num_BTH] # -1 /\ cache_TLB'[t] = Index!Walk(t)[num_BTH]

LEMMA QuietExact ==
    ASSUME Types, Types', ExactInv, SameIndex, FromSearch,
           Index!Filling = {}, phase' # "insert", UNCHANGED last_BTH,
           phase' = "wait" => Index!Walk(addr')[num_BTH] = -1,
           phase' = "error" => ~Index!Cold
    PROVE  ExactInv'
<1>1. SlotTypes /\ Index!TLBCoherent /\ Agreed
  BY DEF ExactInv, Index!TLBExact
<1>2. Index!Filling = {} /\ Index!Filling' = {}
  BY DEF Index!Filling
<1>3. PICK owner : Index!IndexOwned(owner) /\ (Index!Cold => Index!AllLinked(owner))
  BY DEF ExactInv
<1>4. Index!Owned(cache_L0T, cache_DBA, owner, {})
  BY <1>2, <1>3 DEF Index!IndexOwned
<1>5. /\ cache_L0T \in Index!L0Table /\ cache_DBA \in Index!Array
      /\ DOMAIN cache_TLB' \subseteq Cache!Blocks
      /\ cache_L0T' \in Index!L0Table /\ cache_DBA' \in Index!Array
  BY <1>1, SameIndexTypes DEF SlotTypes, Types, ListOK
<1>6. /\ Index!Cold' <=> Index!Cold
      /\ Index!HandSplits => Index!HandSplits'
      /\ \A o : Index!AllLinked(o) => Index!AllLinked(o)'
      /\ \A b : Index!Walk(b)' = Index!Walk(b)
      /\ \A s \in Cache!Slots : \A b : Index!Holds(s, b)' <=> Index!Holds(s, b)
  BY SameIndexShape
<1>7. ASSUME NEW t \in DOMAIN cache_TLB', Index!Walk(t)[num_BTH] # -1
      PROVE  Index!Walk(t)[num_BTH] \in Cache!Slots /\ Index!Holds(Index!Walk(t)[num_BTH], t)
  BY <1>1, <1>4, <1>5, <1>7, SearchExact
<1>8. ASSUME NEW t \in DOMAIN cache_TLB'
      PROVE  /\ cache_TLB'[t] \in Cache!Slots
             /\ Index!Holds(cache_TLB'[t], t)
             /\ Index!Walk(t)[num_BTH] = -1 \/ Index!Walk(t)[num_BTH] = cache_TLB'[t]
  <2>1. CASE t \in DOMAIN cache_TLB /\ cache_TLB'[t] = cache_TLB[t]
    BY <1>1, <1>2, <2>1 DEF SlotTypes, Index!TLBCoherent, Agreed
  <2>2. CASE Index!Walk(t)[num_BTH] # -1 /\ cache_TLB'[t] = Index!Walk(t)[num_BTH]
    BY <1>7, <2>2
  <2> QED BY <2>1, <2>2 DEF FromSearch
<1>9. SlotTypes'
  BY <1>1, <1>5, <1>8 DEF SlotTypes, Cache!Slots
<1>10. Index!TLBExact' /\ Index!InsertFillsGap' /\ Agreed'
  <2>1. Index!TLBCoherent'
    BY <1>6, <1>8 DEF Index!TLBCoherent
  <2>2. Agreed'
    BY <1>6, <1>8 DEF Agreed
  <2> QED BY <1>2, <2>1, <2>2 DEF Index!TLBExact, Index!FillingNotInTLB, Index!InsertFillsGap
<1>11. Index!IndexOwned(owner)'
  <2>1. Index!Owned(cache_L0T', cache_DBA', owner, {})
    BY <1>4, <1>5, Sizes, Index!OwnedSame DEF SameIndex
  <2> QED BY <1>2, <2>1 DEF Index!IndexOwned
<1>12. StillMissing'
  <2>1. ASSUME NEW b, b = addr', phase' = "wait" PROVE (Index!Walk(addr)[num_BTH])' = -1
    <3>1. Index!Walk(b)[num_BTH] = -1
      BY <2>1
    <3>2. Index!Walk(b)' = Index!Walk(b)
      BY <1>6
    <3>3. Index!Walk(addr)' = Index!Walk(b)'
      BY <2>1 DEF Index!Walk
    <3> QED BY <3>1, <3>2, <3>3
  <2> QED BY <2>1 DEF StillMissing
<1>13. /\ Index!Cold' => Index!HandSplits' /\ phase' # "error"
       /\ Index!Cold' => Index!AllLinked(owner)'
  BY <1>3, <1>6 DEF ExactInv
<1> QED BY <1>9, <1>10, <1>11, <1>12, <1>13 DEF ExactInv

LEMMA RaiseIndex ==
    ASSUME Types, UNCHANGED script, Raise
    PROVE  SameIndex
BY DEF Raise, SameIndex, Index!SameBlocks

LEMMA TouchedIndex ==
    ASSUME Types, UNCHANGED <<script, cache_L0T, VBIR>>, NEW path,
           cache_DBA' = PyTouched(path)
    PROVE  SameIndex
BY PyTouchedBlocks DEF Types, SameIndex

LEMMA SameIndexExact ==
    ASSUME SameIndex
    PROVE  Exact' <=> Exact
BY SameIndexShape DEF Exact, SameIndex

\* Between insertions a search of an exact index is that of the cache.
LEMMA QuietSearch ==
    ASSUME Types, ExactInv, phase # "insert",
           NEW b \in Cache!Blocks, NEW walk, walk = Index!Walk(b),
           NEW path, path = PyPath(b)
    PROVE  /\ ~SearchRaises(path)
           /\ PyFound(path, b) <=> walk[num_BTH] # -1
           /\ walk[num_BTH] # -1 => /\ path[num_BTH] = walk[num_BTH]
                                    /\ walk[num_BTH] \in Cache!Slots
<1>1. PICK owner : Index!IndexOwned(owner)
  BY DEF ExactInv
<1>2. Index!Owned(cache_L0T, cache_DBA, owner, {}) /\ SlotTypes
  BY <1>1 DEF Index!IndexOwned, Index!Filling, ExactInv
<1> QED BY <1>2, SearchExact

LEMMA PyLineExact ==
    ASSUME PyInv, Types', UNCHANGED script, NEW b \in Cache!Blocks, PyLine(b)
    PROVE  PyInv'
<1>1. Types /\ phase = "ready" /\ ListOK
  BY DEF PyInv, PyLine, Types
<1>2. SameIndex
  BY <1>1, RaiseIndex, TouchedIndex DEF PyLine
<1>3. phase' \in {"ready", "wait", "error"}
  BY <1>1 DEF PyLine, Raise, PyAccess, BaseAccess
<1>4. ASSUME Exact, NEW walk, walk = Index!Walk(b) PROVE ExactInv'
  <2>1. ExactInv /\ SlotTypes
    BY <1>4 DEF PyInv, ExactInv
  <2>2. /\ ~SearchRaises(PyPath(b))
        /\ PyFound(PyPath(b), b) <=> walk[num_BTH] # -1
        /\ walk[num_BTH] # -1 => /\ PyPath(b)[num_BTH] = walk[num_BTH]
                                 /\ walk[num_BTH] \in Cache!Slots
    BY <1>1, <1>4, <2>1, QuietSearch
  <2>3. UNCHANGED last_BTH /\ (IF script = Py THEN PyAccess(b) ELSE BaseAccess(b))
    BY <2>2 DEF PyLine
  <2>4. phase' # "error"
    <3>1. ASSUME b \in DOMAIN cache_TLB PROVE Cache!IsData(cache_DBA, At(cache_TLB[b]))
      BY <2>1, <3>1, IndicesFacts DEF ExactInv, SlotTypes, Index!TLBExact, Index!TLBCoherent,
                                      Index!Holds, Cache!IsData
    <3> QED BY <1>1, <2>3, <3>1 DEF PyAccess, BaseAccess
  <2>5. phase' = "wait" => addr' = b /\ walk[num_BTH] = -1
    BY <1>1, <2>2, <2>3 DEF PyAccess, BaseAccess
  <2>6. FromSearch
    <3>1. CASE script = Py /\ PyFound(PyPath(b), b)
      <4>1. PICK s : s = IF b \in DOMAIN cache_TLB THEN cache_TLB[b]
                         ELSE At(PyPath(b)[num_BTH])
        OBVIOUS
      <4>2. PySetsTLB(MovedToEnd(b), b, s)
        BY <2>3, <3>1, <4>1 DEF PyAccess
      <4>3. Lists(MovedToEnd(b), DOMAIN cache_TLB)
        BY <1>1, MovedLists
      <4>4. s \in Cache!Slots /\ (b \notin DOMAIN cache_TLB => s = walk[num_BTH])
        BY <2>1, <2>2, <3>1, <4>1, IndicesFacts DEF SlotTypes
      <4>5. Sets(b, s)
        BY <1>1, <4>2, <4>3, <4>4, IndicesFacts, SetsTLB
      <4> QED BY <1>4, <2>2, <3>1, <4>1, <4>4, <4>5 DEF Sets, FromSearch
    <3>2. CASE script # Py /\ b \notin DOMAIN cache_TLB /\ PyFound(PyPath(b), b)
      <4>1. PySetsTLB(cache_TLB_order, b, walk[num_BTH])
        BY <2>2, <2>3, <3>2 DEF BaseAccess
      <4>2. Lists(cache_TLB_order, DOMAIN cache_TLB)
        BY <1>1 DEF ListOK, Lists
      <4>3. Sets(b, walk[num_BTH])
        BY <1>1, <2>2, <3>2, <4>1, <4>2, IndicesFacts, SetsTLB
      <4> QED BY <1>4, <2>2, <3>2, <4>3 DEF Sets, FromSearch
    <3>3. CASE UNCHANGED cache_TLB
      BY <3>3 DEF FromSearch
    <3> QED BY <2>3, <3>1, <3>2, <3>3 DEF PyAccess, BaseAccess
  <2>7. Index!Filling = {}
    BY <1>1 DEF Index!Filling
  <2> QED BY <1>1, <1>2, <1>3, <1>4, <2>1, <2>3, <2>4, <2>5, <2>6, <2>7, QuietExact
<1> QED BY <1>2, <1>3, <1>4, SameIndexExact DEF PyInv

LEMMA BaseReadBackExact ==
    ASSUME PyInv, Types', UNCHANGED script, BaseReadBack
    PROVE  PyInv'
<1>1. Types /\ phase = "check" /\ addr \in Cache!Blocks
  BY DEF PyInv, BaseReadBack, Types, PlaceOK
<1>2. SameIndex
  BY <1>1, RaiseIndex, TouchedIndex DEF BaseReadBack
<1>3. phase' \in {"ready", "error"} /\ UNCHANGED <<cache_TLB, last_BTH>>
  BY DEF BaseReadBack, Raise
<1>4. ASSUME Exact PROVE ExactInv'
  <2>1. ExactInv
    BY <1>4 DEF PyInv
  <2>2. ~SearchRaises(PyPath(addr))
    BY <1>1, <2>1, QuietSearch
  <2>3. phase' = "ready"
    BY <2>2 DEF BaseReadBack
  <2>4. FromSearch
    BY <1>3 DEF FromSearch
  <2>5. Index!Filling = {}
    BY <1>1 DEF Index!Filling
  <2> QED BY <1>1, <1>2, <1>3, <2>1, <2>3, <2>4, <2>5, QuietExact
<1> QED BY <1>2, <1>3, <1>4, SameIndexExact DEF PyInv
-----------------------------------------------------------------------------
(* The start and the end of an insertion.                                    *)

LEMMA PyInsertBeginShape ==
    ASSUME Types, UNCHANGED script, PyInsertBegin
    PROVE  /\ Exact' => Exact
           /\ \/ PyEndsAt(PyPath(addr)) = -1 /\ cache_L0T[Cache!L0TIndex(addr)].V
              \/ SameIndex
<1> DEFINE dba == PyTouched(PyPath(addr))
           l0 == cache_L0T[Cache!L0TIndex(addr)]
           keeps == ~(PyEndsAt(PyPath(addr)) = -1 /\ l0.V)
<1>1. cache_DBA' = [dba EXCEPT ![At(l0.I)].PV = @ /\ keeps] /\ UNCHANGED <<cache_L0T, VBIR>>
  BY DEF PyInsertBegin
<1>2. dba \in PyArray /\ Index!SameBlocks(cache_DBA, dba)
  BY PyTouchedBlocks DEF Types
<1> HIDE DEF dba, l0, keeps
<1>3. ASSUME NEW s \in Cache!Slots
      PROVE  /\ cache_DBA'[s].V = dba[s].V
             /\ keeps = TRUE => cache_DBA'[s] = dba[s]
  <2>1. dba[s] \in PyBlock
    BY <1>2 DEF PyArray
  <2>2. cache_DBA'[s] = IF s = At(l0.I) THEN [dba[s] EXCEPT !.PV = @ /\ keeps] ELSE dba[s]
    BY <1>1, <1>2 DEF PyArray
  <2>3. keeps = TRUE => [dba[s] EXCEPT !.PV = @ /\ keeps] = dba[s]
    BY <2>1 DEF PyBlock
  <2> QED BY <2>1, <2>2, <2>3 DEF PyBlock
<1>4. Index!Cold' <=> Index!Cold
  BY <1>2, <1>3, SameSets DEF Index!Cold, Index!SameBlocks
<1>5. ASSUME keeps = TRUE PROVE SameIndex
  BY <1>1, <1>2, <1>3, <1>5, SameSets DEF SameIndex, Index!SameBlocks
<1> QED BY <1>4, <1>5 DEF Exact, keeps, l0

LEMMA PyInsertBeginExact ==
    ASSUME PyInv, Types', UNCHANGED script, PyInsertBegin
    PROVE  PyInv'
<1>1. /\ Types /\ addr \in Cache!Blocks /\ phase = "wait" /\ phase' = "insert"
      /\ UNCHANGED <<addr, cache_TLB>>
  BY DEF PyInv, PyInsertBegin, Types, PlaceOK
<1>2. Exact' => Exact
  BY <1>1, PyInsertBeginShape
<1>3. ASSUME Exact, NEW walk, walk = Index!Walk(addr), NEW last, last = PyEndsAt(PyPath(addr))
      PROVE  ExactInv'
  <2>1. /\ ExactInv /\ SlotTypes /\ walk[num_BTH] = -1
        /\ Index!TLBCoherent /\ Agreed
    BY <1>1, <1>3 DEF PyInv, ExactInv, StillMissing, Index!TLBExact, Index!Filling
  <2>2. PICK owner : Index!IndexOwned(owner) /\ (Index!Cold => Index!AllLinked(owner))
    BY <2>1 DEF ExactInv
  <2>3. Index!Owned(cache_L0T, cache_DBA, owner, {}) /\ Index!Filling = {}
    BY <1>1, <2>2 DEF Index!IndexOwned, Index!Filling
  <2>4. /\ Index!EndsAt(walk, last) /\ last \in Cache!Slots \cup {-1}
        /\ last = -1 => ~cache_L0T[Cache!L0TIndex(addr)].V
    BY <1>1, <1>3, <2>1, <2>3, SearchExact
  <2>5. SameIndex
    BY <1>1, <1>3, <2>4, PyInsertBeginShape
  <2>6. PICK next : next = IF last = -1 THEN 1 ELSE cache_DBA[last].LF + 1
    OBVIOUS
  <2>7. last_BTH' = last /\ current_level' = next
    BY <1>3, <2>4, <2>6, IndicesFacts DEF PyInsertBegin
  <2>8. /\ next \in Index!Levels
        /\ Index!OnPath(cache_DBA, owner, addr, next, last)
        /\ Index!EntryFree(cache_L0T, cache_DBA, addr, next, last)
    BY <1>1, <1>3, <2>1, <2>3, <2>4, <2>6, Sizes, SameSets, Index!SearchEnds
       DEF SlotTypes, Index!None
  <2>9. cache_L0T' \in Index!L0Table /\ cache_DBA' \in Index!Array /\ SlotTypes'
    BY <1>1, <2>1, <2>4, <2>5, <2>7, SameIndexTypes DEF SlotTypes, Cache!Slots
  <2>10. /\ Index!Cold' <=> Index!Cold
         /\ Index!HandSplits => Index!HandSplits'
         /\ \A o : Index!AllLinked(o) => Index!AllLinked(o)'
         /\ \A b : Index!Walk(b)' = Index!Walk(b)
         /\ \A s \in Cache!Slots : \A b : Index!Holds(s, b)' <=> Index!Holds(s, b)
    BY <2>5, SameIndexShape
  <2>11. Index!Filling' = {}
    BY <2>7, <2>8, SameSets, Numbers DEF Index!Filling
  <2>12. Index!IndexOwned(owner)'
    <3>1. Index!Owned(cache_L0T', cache_DBA', owner, {})
      BY <2>1, <2>3, <2>5, Sizes, Index!OwnedSame DEF SameIndex, SlotTypes
    <3>2. Index!OnPath(cache_DBA', owner, addr, next, last)
      BY <2>5, <2>8 DEF Index!OnPath, SameIndex, Index!SameBlocks
    <3> QED BY <1>1, <2>7, <2>11, <3>1, <3>2 DEF Index!IndexOwned
  <2>13. Index!InsertFillsGap'
    <3>1. next > 1 => last \in Index!Slots
      BY <2>8 DEF Index!OnPath
    <3>2. next = 1 \/ next > 1
      BY <2>8, SameSets, Numbers
    <3>3. Index!EntryFree(cache_L0T', cache_DBA', addr, next, last)
      BY <2>5, <2>8, <3>1, <3>2 DEF Index!EntryFree, SameIndex, Index!SameBlocks
    <3> QED BY <1>1, <2>7, <3>3 DEF Index!InsertFillsGap
  <2>14. Index!TLBExact' /\ Agreed'
    <3>1. Index!TLBCoherent'
      BY <1>1, <2>1, <2>10 DEF Index!TLBCoherent, SlotTypes
    <3>2. Agreed'
      BY <1>1, <2>1, <2>3, <2>10 DEF Agreed
    <3> QED BY <2>11, <3>1, <3>2 DEF Index!TLBExact, Index!FillingNotInTLB
  <2>15. Index!Cold' => Index!HandSplits' /\ Index!AllLinked(owner)'
    BY <2>1, <2>2, <2>10 DEF ExactInv
  <2>16. StillMissing'
    BY <1>1, <1>3, <2>1, <2>10 DEF StillMissing, Index!Walk
  <2> QED BY <1>1, <2>9, <2>16, <2>12, <2>13, <2>14, <2>15 DEF ExactInv
<1> QED BY <1>1, <1>2, <1>3 DEF PyInv

LEMMA PyInsertEndExact ==
    ASSUME PyInv, Types', UNCHANGED script, PyInsertEnd
    PROVE  PyInv'
<1>1. /\ Types /\ ListOK /\ addr \in Cache!Blocks /\ phase = "insert"
      /\ phase' \in {"ready", "check"}
      /\ current_level = num_BTH + 1 /\ last_BTH \in Indices
      /\ UNCHANGED <<addr, last_BTH, cache_L0T, VBIR>>
  BY Numbers DEF PyInv, PyInsertEnd, Types, PlaceOK
<1>2. Index!Tagged(cache_DBA, cache_DBA', At(last_BTH), addr)
  <2>1. cache_DBA' = [cache_DBA EXCEPT ![At(last_BTH)].TAG = addr]
    BY DEF PyInsertEnd
  <2>2. \A s \in Index!Slots : cache_DBA[s] \in PyBlock
    BY <1>1, SameSets DEF Types, PyArray
  <2>3. ASSUME NEW s \in Index!Slots
        PROVE  cache_DBA'[s] = IF s = At(last_BTH) THEN [cache_DBA[s] EXCEPT !.TAG = addr]
                               ELSE cache_DBA[s]
    BY <1>1, <2>1, SameSets DEF Types, PyArray
  <2> QED BY <2>2, <2>3 DEF Index!Tagged, PyBlock
<1>3. (Index!Cold' <=> Index!Cold) /\ (Exact' => Exact)
  BY <1>2 DEF Exact, Index!Cold, Index!Tagged
<1>4. ASSUME Exact PROVE ExactInv'
  <2>1. /\ ExactInv /\ SlotTypes /\ Index!TLBCoherent /\ Index!FillingNotInTLB
        /\ Agreed /\ StillMissing
    BY <1>4 DEF PyInv, ExactInv, Index!TLBExact
  <2>2. PICK owner : Index!IndexOwned(owner) /\ (Index!Cold => Index!AllLinked(owner))
    BY <2>1 DEF ExactInv
  <2>3. PICK w : w = last_BTH
    OBVIOUS
  <2>4. Index!Filling = {w} /\ Index!Filling' = {}
    BY <1>1, <2>3, Numbers DEF Index!Filling
  <2>5. Index!OnPath(cache_DBA, owner, addr, num_BTH + 1, w)
    BY <1>1, <2>2, <2>3 DEF Index!IndexOwned
  <2>6. w \in Cache!Slots /\ At(w) = w
    BY <2>5, Numbers, SameSets, IndicesFacts DEF Index!OnPath
  <2>7. /\ Index!Owned(cache_L0T, cache_DBA, owner, {w})
        /\ cache_L0T \in Index!L0Table /\ cache_DBA \in Index!Array
        /\ DOMAIN cache_TLB \subseteq Cache!Blocks
        /\ DOMAIN cache_TLB' \subseteq Cache!Blocks
    BY <1>1, <2>1, <2>2, <2>4 DEF Index!IndexOwned, SlotTypes, Types, ListOK
  <2>8. Index!Tagged(cache_DBA, cache_DBA', w, addr)
    BY <1>2, <2>3, <2>6
  <2>9. /\ Index!Owned(cache_L0T, cache_DBA', owner, {})
        /\ owner[w] = addr /\ cache_DBA[w].V /\ cache_DBA[w].LF = num_BTH
    BY <1>1, <2>5, <2>6, <2>7, <2>8, Sizes, SameSets, Index!TagOwned
  <2>10. Sets(addr, w)
    <3>1. PySetsTLB(cache_TLB_order, addr, w) /\ Lists(cache_TLB_order, DOMAIN cache_TLB)
      BY <1>1, <2>3 DEF PyInsertEnd, ListOK, Lists
    <3> QED BY <1>1, <2>6, <3>1, IndicesFacts, SetsTLB
  <2>11. /\ Index!HandSplits => Index!HandSplits'
         /\ Index!AllLinked(owner) => Index!AllLinked(owner)'
         /\ \A b : Index!Walk(b)' = Index!Walk(b)
    <3>1. \A s \in Index!Slots : /\ cache_DBA'[s].BTH = cache_DBA[s].BTH
                                 /\ cache_DBA'[s].V = cache_DBA[s].V
                                 /\ cache_DBA'[s].LF = cache_DBA[s].LF
      BY <2>8 DEF Index!Tagged
    <3>2. /\ Index!HandSplits => Index!HandSplits'
          /\ \A o : Index!AllLinked(o) => Index!AllLinked(o)'
      BY <1>1, <3>1, Sizes, Index!ShapeKeeps
    <3>3. Index!Tables' = Index!Tables
      BY <3>1 DEF Index!Tables
    <3> QED BY <1>1, <3>2, <3>3 DEF Index!Walk
  <2>12. SlotTypes'
    <3>1. cache_DBA' \in Index!Array
      BY <2>1, <2>8, SameSets, SameTablesTypes DEF Index!Tagged
    <3>2. \A t \in DOMAIN cache_TLB' : cache_TLB'[t] \in Cache!Slots
      BY <2>1, <2>6, <2>10 DEF SlotTypes, Sets
    <3> QED BY <1>1, <2>1, <3>1, <3>2 DEF SlotTypes, Cache!Slots
  <2>13. Index!TLBCoherent'
    <3> SUFFICES ASSUME NEW t \in DOMAIN cache_TLB', NEW s, s = cache_TLB'[t]
                 PROVE  Index!Holds(s, t)'
      BY DEF Index!TLBCoherent, Index!Holds
    <3>1. CASE t = addr
      BY <2>6, <2>8, <2>9, <2>10, <3>1, SameSets DEF Sets, Index!Tagged, Index!Holds
    <3>2. CASE t # addr
      <4>1. t \in DOMAIN cache_TLB /\ cache_TLB'[t] = cache_TLB[t]
        BY <2>10, <3>2 DEF Sets
      <4>2. /\ cache_TLB[t] \in Index!Slots /\ cache_TLB[t] # w
            /\ Index!Holds(cache_TLB[t], t)
        BY <2>1, <2>4, <4>1, SameSets DEF SlotTypes, Index!TLBCoherent, Index!FillingNotInTLB
      <4> QED BY <2>8, <4>1, <4>2 DEF Index!Tagged, Index!Holds
    <3> QED BY <3>1, <3>2
  <2>14. Agreed'
    <3> SUFFICES ASSUME NEW t \in DOMAIN cache_TLB', NEW s, s = Index!Walk(t)[num_BTH], s # -1
                 PROVE  s = cache_TLB'[t]
      BY <2>11 DEF Agreed
    <3>1. CASE t = addr
      BY <1>1, <2>1, <2>4, <2>10, <3>1 DEF Sets, StillMissing
    <3>2. CASE t # addr
      <4>1. t \in DOMAIN cache_TLB /\ cache_TLB'[t] = cache_TLB[t] /\ t \in Index!Blocks
        BY <2>7, <2>10, <3>2, SameSets DEF Sets
      <4>2. s = cache_TLB[t] \/ s = w
        BY <2>1, <2>4, <4>1 DEF Agreed
      <4>3. s # w
        <5> SUFFICES ASSUME s = w PROVE FALSE
          OBVIOUS
        <5>1. PICK path : /\ path = Index!Path(cache_L0T, [x \in Index!Slots |-> cache_DBA[x].BTH], t)
                          /\ path[num_BTH] = w /\ path[num_BTH] # -1
          BY DEF Index!Walk, Index!Tables
        <5>2. num_BTH \in Index!Levels
          BY SameSets, Numbers
        <5>3. Index!Prefix(owner[w], num_BTH) = Index!Prefix(t, num_BTH)
          BY <2>7, <4>1, <5>1, <5>2, Sizes, Index!WalkOwned DEF Index!None
        <5>4. Index!Prefix(addr, num_BTH) = addr /\ Index!Prefix(t, num_BTH) = t
          BY <1>1, <4>1, Sizes, SameSets, Index!PrefixFacts
        <5> QED BY <2>9, <3>2, <5>3, <5>4
      <4> QED BY <4>1, <4>2, <4>3
    <3> QED BY <3>1, <3>2
  <2>15. /\ Index!TLBExact' /\ Index!InsertFillsGap' /\ StillMissing'
         /\ Index!IndexOwned(owner)'
    BY <1>1, <2>4, <2>9, <2>13 DEF Index!TLBExact, Index!FillingNotInTLB, Index!InsertFillsGap,
                                   StillMissing, Index!IndexOwned
  <2> QED BY <1>1, <1>3, <2>1, <2>2, <2>11, <2>12, <2>14, <2>15 DEF ExactInv
<1> QED BY <1>1, <1>3, <1>4 DEF PyInv
-----------------------------------------------------------------------------
(* What the parts of a turn of the insertion loop do to the array.           *)

LEMMA ScannedFields ==
    ASSUME ArrayOK(cache_DBA), NEW n
    PROVE  Index!SameBlocks(cache_DBA, Cache!Scanned(n))
<1> SUFFICES ASSUME NEW s \in Index!Slots, NEW d, d = Cache!Scanned(n)[s]
             PROVE  /\ d.BTH = cache_DBA[s].BTH
                    /\ d.V = cache_DBA[s].V /\ d.PV = cache_DBA[s].PV
                    /\ d.LF = cache_DBA[s].LF /\ d.PT = cache_DBA[s].PT
                    /\ d.TAG = cache_DBA[s].TAG
  BY DEF Index!SameBlocks
<1>1. cache_DBA[s] \in PyBlock
  BY SameSets DEF ArrayOK, PyArray
<1>2. d = cache_DBA[s] \/ d = [cache_DBA[s] EXCEPT !.R = 0]
  BY SameSets DEF Cache!Scanned
<1> QED BY <1>1, <1>2 DEF PyBlock

\* Unlinking a slot takes pointers away, and all of those that test.py finds.
Unlinks(dba, new, v) ==
    \A s \in Index!Slots :
       /\ new[s].V = dba[s].V /\ new[s].PV = dba[s].PV
       /\ new[s].LF = dba[s].LF /\ new[s].PT = dba[s].PT
       /\ new[s].TAG = dba[s].TAG
       /\ \A e \in Index!Entries, i \in Index!Slots : Index!Points(new, s, e, i) =>
             /\ Index!Points(dba, s, e, i)
             /\ script = Py /\ Cache!ParentEntries(dba, At(v)) /\ s = At(dba[At(v)].PT)
                  => i # v

LEMMA UnlinkedFields ==
    ASSUME NEW dba, ArrayOK(dba), NEW v
    PROVE  Unlinks(dba, PyUnlinked(dba, v), v)
<1> DEFINE p == At(dba[At(v)].PT)
           cut == Severed(dba, v)
           table == [e \in Cache!Entries |-> [V |-> dba[p].BTH[e].V /\ e \notin cut,
                                              I |-> dba[p].BTH[e].I]]
           new == PyUnlinked(dba, v)
<1>1. CASE ~Cache!ParentEntries(dba, At(v))
  <2>1. new = dba
    BY <1>1 DEF PyUnlinked
  <2> QED BY <1>1, <2>1 DEF Unlinks
<1>2. CASE Cache!ParentEntries(dba, At(v))
  <2>1. new = [dba EXCEPT ![p].BTH = table]
    BY <1>2 DEF PyUnlinked
  <2>2. script = Py => \A e \in Cache!Entries : dba[p].BTH[e].I = v => e \in cut
    BY DEF Severed
  <2> HIDE DEF cut, new, p
  <2>3. ASSUME NEW s \in Index!Slots
        PROVE  new[s] = IF s = p THEN [dba[s] EXCEPT !.BTH = table] ELSE dba[s]
    BY <2>1, SameSets DEF ArrayOK, PyArray
  <2>4. ASSUME NEW s \in Index!Slots
        PROVE  /\ new[s].V = dba[s].V /\ new[s].PV = dba[s].PV
               /\ new[s].LF = dba[s].LF /\ new[s].PT = dba[s].PT
               /\ new[s].TAG = dba[s].TAG
               /\ new[s].BTH = IF s = p THEN table ELSE dba[s].BTH
    <3>1. dba[s] \in PyBlock
      BY SameSets DEF ArrayOK, PyArray
    <3> HIDE DEF table
    <3> QED BY <2>3, <3>1 DEF PyBlock
  <2>5. ASSUME NEW s \in Index!Slots, NEW e \in Index!Entries, NEW i \in Index!Slots,
               Index!Points(new, s, e, i)
        PROVE  Index!Points(dba, s, e, i) /\ (script = Py /\ s = p => i # v)
    <3>1. CASE s = p
      <4>1. table[e].V /\ table[e].I = i
        BY <2>4, <2>5, <3>1 DEF Index!Points
      <4>2. dba[p].BTH[e].V /\ e \notin cut /\ dba[p].BTH[e].I = i
        BY <4>1, SameSets
      <4> QED BY <2>2, <3>1, <4>2, SameSets DEF Index!Points
    <3>2. CASE s # p
      BY <2>4, <2>5, <3>2 DEF Index!Points
    <3> QED BY <3>1, <3>2
  <2> HIDE DEF table
  <2>6. Unlinks(dba, new, v)
    BY <2>4, <2>5 DEF Unlinks, p
  <2> QED BY <2>6 DEF new
<1> QED BY <1>1, <1>2

\* Emptying a slot orphans the slots its table points to and clears its tag.
Empties(dba, new, v) ==
    \A s \in Index!Slots :
       /\ new[s].V = dba[s].V /\ new[s].LF = dba[s].LF /\ new[s].PT = dba[s].PT
       /\ new[s].BTH = dba[s].BTH
       /\ s # At(v) => new[s].TAG = dba[s].TAG
       /\ \/ new[s].PV = dba[s].PV
          \/ \E i \in Cache!Children(dba, At(v)) : At(i) = s

LEMMA VacatedFields ==
    ASSUME NEW dba, ArrayOK(dba), NEW v
    PROVE  Empties(dba, PyVacated(dba, v), v)
<1> DEFINE children == {At(i) : i \in Cache!Children(dba, At(v))}
           w == At(v)
           orphaning == [s \in Cache!Slots |-> [dba[s] EXCEPT !.PV = @ /\ s \notin children]]
           new == PyVacated(dba, v)
<1>1. new = dba \/ new = [dba EXCEPT ![w].TAG = 0] \/ new = orphaning
  BY DEF PyVacated
<1>2. \A s : s \in children <=> \E i \in Cache!Children(dba, At(v)) : At(i) = s
  OBVIOUS
<1> HIDE DEF children, new
<1> SUFFICES ASSUME NEW s \in Index!Slots, NEW d, d = new[s]
             PROVE  /\ d.V = dba[s].V /\ d.LF = dba[s].LF /\ d.PT = dba[s].PT
                    /\ d.BTH = dba[s].BTH
                    /\ s # w => d.TAG = dba[s].TAG
                    /\ d.PV = dba[s].PV \/ s \in children
  BY <1>2 DEF Empties, w, new
<1> HIDE DEF w
<1>3. dba[s] \in PyBlock /\ dba = [x \in Cache!Slots |-> dba[x]]
  BY SameSets DEF ArrayOK, PyArray
<1>4. \/ d = dba[s]
      \/ s = w /\ d = [dba[s] EXCEPT !.TAG = 0]
      \/ d = [dba[s] EXCEPT !.PV = @ /\ s \notin children]
  BY <1>1, <1>3, SameSets
<1>5. CASE d = [dba[s] EXCEPT !.PV = @ /\ s \notin children]
  <2> DEFINE pv == dba[s].PV /\ s \notin children
  <2>1. d = [dba[s] EXCEPT !.PV = pv] /\ (s \notin children => pv = dba[s].PV)
    BY <1>3, <1>5 DEF PyBlock
  <2> HIDE DEF pv
  <2> QED BY <1>3, <2>1 DEF PyBlock
<1> QED BY <1>3, <1>4, <1>5 DEF PyBlock
-----------------------------------------------------------------------------
(* A turn of the insertion loop that replaces a slot.                        *)

\* A slot in use stays in use.
InUse(dba, new) == \A s \in Cache!Slots : dba[s].V => new[s].V

LEMMA LinkedUse ==
    ASSUME NEW dba, ArrayOK(dba), NEW v
    PROVE  InUse(dba, PyLinked(dba, v))
<1> DEFINE i == Cache!TableIndex(addr, current_level)
           ptr == [V |-> TRUE, I |-> v]
<1> SUFFICES ASSUME NEW s \in Cache!Slots, dba[s].V, NEW d, d = PyLinked(dba, v)[s] PROVE d.V
  BY DEF InUse
<1>1. d = dba[s] \/ d = [dba[s] EXCEPT !.BTH[i] = ptr]
  BY DEF PyLinked, i, ptr
<1> HIDE DEF i, ptr
<1> DEFINE table == [dba[s].BTH EXCEPT ![i] = ptr]
<1>2. d = dba[s] \/ d = [dba[s] EXCEPT !.BTH = table]
  BY <1>1
<1>3. dba[s] \in PyBlock
  BY DEF ArrayOK, PyArray
<1> HIDE DEF table
<1> QED BY <1>2, <1>3 DEF PyBlock

LEMMA InstalledUse ==
    ASSUME NEW dba, ArrayOK(dba), NEW v
    PROVE  InUse(dba, PyInstalled(dba, v))
<1> DEFINE pt == IF current_level = 1 THEN Cache!L0TIndex(addr) ELSE last_BTH
           p == At(v)
           top == [dba[p] EXCEPT !.V = TRUE, !.PV = TRUE, !.LF = current_level, !.R = 1,
                                 !.PT = pt, !.BTH = Cache!EmptyTable]
<1>1. PyInstalled(dba, v) = [dba EXCEPT ![p] = top]
  BY DEF PyInstalled
<1>2. ASSUME p \in Cache!Slots PROVE top.V = TRUE
  <2>1. dba[p] \in PyBlock
    BY <1>2 DEF ArrayOK, PyArray
  <2> HIDE DEF pt, p
  <2> QED BY <2>1 DEF PyBlock
<1> HIDE DEF p, top
<1> QED BY <1>1, <1>2 DEF InUse, ArrayOK, PyArray

\* A turn that replaces slot v, after n attempts.
BeforeEviction(n, v) ==
    IF script = Py THEN Cache!Scanned(n) ELSE PyLinked(Cache!Scanned(n), v)
AfterEviction(n, v) ==
    PyVacated(PyUnlinked(BeforeEviction(n, v), v), v)
Replaces(n, v) ==
    LET dba == BeforeEviction(n, v)
    IN  /\ IF script = Py
           THEN /\ cache_DBA' = PyInstalled(PyLinked(AfterEviction(n, v), v), v)
                /\ cache_L0T' = PyL0TLinked(PyL0TUnlinked(cache_L0T, dba, v), v)
           ELSE /\ cache_DBA' = PyInstalled(AfterEviction(n, v), v)
                /\ cache_L0T' = PyL0TUnlinked(PyL0TLinked(cache_L0T, v), dba, v)
        /\ PyDropsFromTLB(dba, v)
        /\ VBIR' = At(v + 1)
        /\ last_BTH' = v
        /\ current_level' = current_level + 1
        /\ UNCHANGED <<phase, addr>>

LEMMA InstallCases ==
    ASSUME PyInstall
    PROVE  /\ phase = "insert" /\ current_level <= num_BTH
           /\ \E n \in 0 .. MNA : \E v :
                 /\ v = PyVictim(n)
                 /\ Cache!ScanEnds(n)
                 /\ \/ EvictionRaises(BeforeEviction(n, v), v) /\ Raise
                    \/ Replaces(n, v)
BY DEF PyInstall, Replaces, BeforeEviction, AfterEviction

LEMMA EvictionOK ==
    ASSUME Types, NEW n, NEW v \in Indices
    PROVE  /\ ArrayOK(Cache!Scanned(n)) /\ ArrayOK(BeforeEviction(n, v))
           /\ ArrayOK(PyUnlinked(BeforeEviction(n, v), v)) /\ ArrayOK(AfterEviction(n, v))
           /\ ArrayOK(PyLinked(AfterEviction(n, v), v))
<1>1. ArrayOK(Cache!Scanned(n))
  BY TypesParts, ScannedOK
<1>2. ArrayOK(BeforeEviction(n, v))
  BY <1>1, LinkedOK DEF BeforeEviction
<1>3. ArrayOK(PyUnlinked(BeforeEviction(n, v), v)) /\ ArrayOK(AfterEviction(n, v))
  BY <1>2, UnlinkedOK, VacatedOK DEF AfterEviction
<1> QED BY <1>1, <1>2, <1>3, LinkedOK

LEMMA InstallUse ==
    ASSUME Types, NEW n, NEW v \in Indices, Replaces(n, v)
    PROVE  InUse(cache_DBA, cache_DBA')
<1> DEFINE before == BeforeEviction(n, v)
           after == AfterEviction(n, v)
<1>0. /\ ArrayOK(cache_DBA) /\ ArrayOK(Cache!Scanned(n)) /\ ArrayOK(before)
      /\ ArrayOK(PyUnlinked(before, v)) /\ ArrayOK(after) /\ ArrayOK(PyLinked(after, v))
  BY EvictionOK, TypesParts
<1>1. InUse(cache_DBA, Cache!Scanned(n))
  BY <1>0, ScannedFields, SameSets DEF Index!SameBlocks, InUse
<1>2. InUse(Cache!Scanned(n), before)
  BY <1>0, LinkedUse DEF BeforeEviction, InUse
<1>3. InUse(before, PyUnlinked(before, v))
  BY <1>0, UnlinkedFields, SameSets DEF Unlinks, InUse
<1>4. InUse(PyUnlinked(before, v), after)
  BY <1>0, VacatedFields, SameSets DEF Empties, InUse, AfterEviction
<1>5. cache_DBA' = PyInstalled(IF script = Py THEN PyLinked(after, v) ELSE after, v)
  BY DEF Replaces
<1> HIDE DEF before, after
<1>6. InUse(after, PyLinked(after, v))
  BY <1>0, LinkedUse
<1>7. InUse(IF script = Py THEN PyLinked(after, v) ELSE after, cache_DBA')
  BY <1>0, <1>5, InstalledUse
<1> QED BY <1>1, <1>2, <1>3, <1>4, <1>6, <1>7 DEF InUse

LEMMA ParentFits ==
    \A j \in Nat : j < L0Size + capacity => j % (L0Size + capacity) = j
BY Numbers

\* Linking and installing are those of the cache.
LEMMA SameInstall ==
    ASSUME NEW dba, dba = [s \in Cache!Slots |-> dba[s]], NEW v \in Cache!Slots,
           addr \in Cache!Blocks, current_level \in Cache!Levels,
           current_level > 1 => last_BTH \in Cache!Slots,
           NEW l0t
    PROVE  /\ PyInstalled(PyLinked(dba, v), v)
                = Index!Installed(Index!Linked(dba, addr, current_level, v), addr, current_level, v)
           /\ PyL0TLinked(l0t, v) = Index!L0TLinked(l0t, addr, current_level, v)
<1> DEFINE i == Cache!TableIndex(addr, current_level)
           ptr == [V |-> TRUE, I |-> v]
           linked == PyLinked(dba, v)
           pt == IF current_level = 1 THEN Cache!L0TIndex(addr) ELSE last_BTH
<1>1. At(v) = v /\ (current_level > 1 => At(last_BTH) = last_BTH)
      /\ (current_level = 1 \/ current_level > 1)
  BY IndicesFacts, Numbers
<1>2. Cache!TableIndex(addr, current_level) = Index!TableIndex(addr, current_level)
      /\ Cache!L0TIndex(addr) = Index!L0TIndex(addr)
  BY SameOps
<1>3. linked = Index!Linked(dba, addr, current_level, v)
  <2>1. CASE current_level = 1
    BY <2>1 DEF PyLinked, Index!Linked
  <2>2. CASE current_level > 1
    <3>1. linked = [s \in Cache!Slots |-> IF s = last_BTH THEN [dba[s] EXCEPT !.BTH[i] = ptr]
                                          ELSE dba[s]]
      BY <1>1, <2>2, Numbers DEF PyLinked
    <3>2. Index!Linked(dba, addr, current_level, v) = [dba EXCEPT ![last_BTH].BTH[i] = ptr]
      BY <1>2, <2>2, Numbers DEF Index!Linked
    <3> HIDE DEF i, ptr, linked
    <3> QED BY <2>2, <3>1, <3>2
  <2> QED BY <1>1, <2>1, <2>2
<1>4. pt % (L0Size + capacity) = pt
  <2>1. pt \in 0 .. L0Size + capacity - 1
    <3>1. Cache!L0TIndex(addr) \in 0 .. L0Size - 1
      BY IndexTypes
    <3> QED BY <1>1, <3>1, Numbers
  <2> HIDE DEF pt
  <2>2. pt \in Nat /\ pt < L0Size + capacity
    BY <2>1, Numbers
  <2> QED BY <2>2, ParentFits
<1>5. PyL0TLinked(l0t, v) = Index!L0TLinked(l0t, addr, current_level, v)
  BY <1>2 DEF PyL0TLinked, Index!L0TLinked
<1>6. PyInstalled(linked, v) = Index!Installed(linked, addr, current_level, v)
  <2> HIDE DEF linked
  <2> QED BY <1>1, <1>2, <1>4, SameSets DEF PyInstalled, Index!Installed
<1> QED BY <1>3, <1>5, <1>6
-----------------------------------------------------------------------------
(* It is a turn of the cache's: while slots are free, and in test.py after.  *)

\* As long as a slot is free, the Python programs take the one under the hand.
LEMMA PyColdTurn ==
    ASSUME Types, SlotTypes, script \in {Py, Base}, PyInstall,
           Index!Cold, Index!HandSplits,
           current_level > 1 => last_BTH \in Cache!Slots
    PROVE  Index!TakesFree(VBIR) /\ UNCHANGED addr
<1>1. /\ VBIR \in Cache!Slots /\ ~cache_DBA[VBIR].V
      /\ addr \in Cache!Blocks /\ current_level \in Cache!Levels
      /\ ArrayOK(cache_DBA) /\ cache_DBA = [s \in Cache!Slots |-> cache_DBA[s]]
  <2>1. /\ VBIR \in Cache!Slots /\ addr \in Cache!Blocks
        /\ current_level \in Cache!Levels /\ ArrayOK(cache_DBA)
    BY TypesParts, Numbers DEF PyInstall, PlaceOK
  <2>2. ~cache_DBA[VBIR].V
    BY <2>1, SameSets, Numbers DEF Index!Cold, Index!HandSplits
  <2> QED BY <2>1, <2>2 DEF ArrayOK, PyArray
<1>2. PICK n \in 0 .. MNA : \E v :
         /\ v = PyVictim(n)
         /\ Cache!ScanEnds(n)
         /\ \/ EvictionRaises(BeforeEviction(n, v), v) /\ Raise
            \/ Replaces(n, v)
  BY InstallCases
<1>3. Cache!Slot(0) = VBIR
  <2>1. VBIR + 0 = VBIR /\ VBIR % capacity = VBIR
    BY <1>1, IndicesFacts, Numbers DEF At
  <2> QED BY <2>1 DEF Cache!Slot
<1>4. n = 0
  <2>1. Cache!Replaceable(Cache!Slot(0))
    BY <1>1, <1>3 DEF Cache!Replaceable
  <2> SUFFICES ASSUME n # 0 PROVE FALSE
    OBVIOUS
  <2>2. 0 \in 0 .. n - 1
    OBVIOUS
  <2> QED BY <1>2, <2>1, <2>2 DEF Cache!ScanEnds
<1>5. PyVictim(0) = VBIR
  BY <1>3, Numbers DEF PyVictim
<1>6. PICK v : v = VBIR
  OBVIOUS
<1>7. /\ EvictionRaises(BeforeEviction(0, v), v) \/ Replaces(0, v)
      /\ v \in Cache!Slots /\ At(v) = v
  BY <1>1, <1>2, <1>4, <1>5, <1>6, IndicesFacts
<1>8. Cache!Scanned(0) = cache_DBA
  <2>1. Cache!Passed(0) = {}
    BY DEF Cache!Passed
  <2> QED BY <1>1, <2>1 DEF Cache!Scanned
<1>9. PICK before : /\ before = BeforeEviction(0, v)
                    /\ before = IF script = Py THEN cache_DBA ELSE PyLinked(cache_DBA, v)
  BY <1>8 DEF BeforeEviction
<1>10. ~before[v].V
  <2>1. PyLinked(cache_DBA, v)[v].V = cache_DBA[v].V
    <3> DEFINE i == Cache!TableIndex(addr, current_level)
               ptr == [V |-> TRUE, I |-> v]
               table == [cache_DBA[v].BTH EXCEPT ![i] = ptr]
               d == PyLinked(cache_DBA, v)[v]
    <3>1. d = cache_DBA[v] \/ d = [cache_DBA[v] EXCEPT !.BTH = table]
      BY <1>7 DEF PyLinked
    <3>2. cache_DBA[v] \in PyBlock
      BY <1>1, <1>7 DEF ArrayOK, PyArray
    <3> HIDE DEF table, d
    <3>3. d.V = cache_DBA[v].V
      BY <3>1, <3>2 DEF PyBlock
    <3> QED BY <3>3 DEF d
  <2> QED BY <1>1, <1>6, <1>9, <2>1
<1>11. ~Cache!Evicted(before, At(v)) /\ ~Cache!ParentEntries(before, At(v))
  BY <1>7, <1>10 DEF Cache!Evicted, Cache!ParentEntries
<1>12. Replaces(0, v) /\ AfterEviction(0, v) = before /\ UNCHANGED <<cache_TLB, cache_TLB_order>>
  <2>1. Replaces(0, v)
    BY <1>7, <1>9, <1>11 DEF EvictionRaises
  <2> QED BY <1>9, <1>11, <2>1
             DEF Replaces, AfterEviction, PyUnlinked, PyVacated, PyDropsFromTLB
<1>13. /\ cache_DBA' = PyInstalled(PyLinked(cache_DBA, v), v)
       /\ cache_L0T' = PyL0TLinked(cache_L0T, v)
  <2>1. \A l0t : PyL0TUnlinked(l0t, before, v) = l0t
    BY <1>11 DEF PyL0TUnlinked
  <2> QED BY <1>9, <1>12, <2>1 DEF Replaces
<1>14. /\ cache_DBA' = Index!Installed(Index!Linked(cache_DBA, addr, current_level, v),
                                       addr, current_level, v)
       /\ cache_L0T' = Index!L0TLinked(cache_L0T, addr, current_level, v)
  BY <1>1, <1>7, <1>13, SameInstall
<1>15. /\ VBIR' = (v + 1) % capacity /\ last_BTH' = v
       /\ current_level' = current_level + 1 /\ UNCHANGED <<phase, addr>>
  BY <1>12 DEF Replaces, At
<1> QED BY <1>1, <1>6, <1>7, <1>12, <1>14, <1>15, SameSets DEF Index!TakesFree

\* What a turn of test.py does to an index that is exact.
LEMMA PyFullTurn ==
    ASSUME Types, SlotTypes, script = Py, NEW owner,
           Index!Owned(cache_L0T, cache_DBA, owner, {}),
           phase = "insert", current_level \in Cache!Levels,
           current_level > 1 => last_BTH \in Cache!Slots,
           NEW n, NEW v \in Cache!Slots, Replaces(n, v)
    PROVE  Index!Installs(cache_L0T, cache_DBA, cache_L0T', cache_DBA',
                          addr, current_level, v, last_BTH)
<1> DEFINE dba == Cache!Scanned(n)
           unlinked == PyUnlinked(dba, v)
           after == PyVacated(unlinked, v)
           l == current_level
           i == Index!TableIndex(addr, l)
           new == cache_DBA'
<1>1. /\ cache_DBA' = PyInstalled(PyLinked(after, v), v)
      /\ cache_L0T' = PyL0TLinked(PyL0TUnlinked(cache_L0T, dba, v), v)
  BY DEF Replaces, BeforeEviction, AfterEviction
<1>2. /\ v \in Index!Slots /\ v \in Indices /\ At(v) = v /\ addr \in Cache!Blocks
      /\ addr \in Index!Blocks /\ l \in Index!Levels
      /\ l # 1 => l > 1 /\ last_BTH \in Index!Slots
      /\ i \in Index!Entries
      /\ Indices = Index!Slots
  <2>1. v \in Indices /\ At(v) = v /\ addr \in Cache!Blocks /\ Indices = Cache!Slots
    BY IndicesFacts, TypesParts DEF PlaceOK, Py, Base
  <2>2. i \in Index!Entries
    BY <2>1, IndexTypes, SameOps, SameSets
  <2> QED BY <2>1, <2>2, SameSets, Numbers
<1>3. ArrayOK(dba) /\ ArrayOK(unlinked) /\ ArrayOK(after)
  BY <1>2, EvictionOK DEF BeforeEviction, AfterEviction
<1>4. Index!SameBlocks(cache_DBA, dba)
  BY TypesParts, ScannedFields
<1>5. Unlinks(dba, unlinked, v) /\ Empties(unlinked, after, v)
  BY <1>3, UnlinkedFields, VacatedFields
<1>6. after \in Index!Array /\ cache_DBA \in Index!Array /\ cache_L0T \in Index!L0Table
  <2>1. /\ after \in PyArray
        /\ \A s \in Cache!Slots : /\ after[s].BTH \in [Index!Entries -> Index!Pointer]
                                  /\ after[s].PT \in 0 .. L0Size + capacity - 1
    <3>1. after \in PyArray
      BY <1>3 DEF ArrayOK
    <3>2. PyPointer = Index!Pointer
      BY <1>2 DEF PyPointer, Index!Pointer
    <3>3. Indices \cup (0 .. L0Size - 1) \subseteq 0 .. L0Size + capacity - 1
      BY <1>2, SameSets, Numbers
    <3> QED BY <3>1, <3>2, <3>3, SameSets DEF PyArray, PyBlock
  <2> QED BY <2>1, IndexArray DEF SlotTypes
<1>7. /\ cache_DBA' = Index!Installed(Index!Linked(after, addr, l, v), addr, l, v)
      /\ cache_L0T' = Index!L0TLinked(PyL0TUnlinked(cache_L0T, dba, v), addr, l, v)
  <2>1. after = [s \in Cache!Slots |-> after[s]]
    BY <1>3 DEF ArrayOK, PyArray
  <2> HIDE DEF after, dba
  <2> QED BY <1>1, <1>2, <2>1, SameInstall
<1> HIDE DEF dba, unlinked, after, l, i, new
<1>8. /\ \A s \in Index!Slots \ {v} :
            /\ new[s].V = after[s].V /\ new[s].PV = after[s].PV
            /\ new[s].LF = after[s].LF /\ new[s].PT = after[s].PT
            /\ new[s].TAG = after[s].TAG /\ new[s].R = after[s].R
            /\ \A e \in Index!Entries :
                  new[s].BTH[e] = IF l # 1 /\ s = last_BTH /\ e = i
                                  THEN [V |-> TRUE, I |-> v] ELSE after[s].BTH[e]
      /\ new[v].V /\ new[v].PV /\ new[v].LF = l /\ new[v].R = 1
      /\ new[v].PT = (IF l = 1 THEN Index!L0TIndex(addr) ELSE last_BTH) % (L0Size + capacity)
      /\ new[v].BTH = Index!EmptyTable
  <2>1. l = 1 \/ (last_BTH \in Index!Slots /\ Index!TableIndex(addr, l) \in Index!Entries)
    BY <1>2 DEF i
  <2>2. new = Index!Installed(Index!Linked(after, addr, l, v), addr, l, v)
    BY <1>7 DEF new
  <2>3. after \in Index!Array /\ v \in Index!Slots /\ i = Index!TableIndex(addr, l)
    BY <1>2, <1>6 DEF i
  <2> QED BY <2>1, <2>2, <2>3, Sizes, Index!InstalledFields
<1>9. /\ Index!TablesOwned(cache_DBA, owner) /\ Index!RootsOwned(cache_L0T, cache_DBA, owner)
  BY DEF Index!Owned
\* An eviction cuts every pointer to the slot ...
<1>10. ASSUME NEW s \in Index!Slots, NEW e \in Index!Entries, NEW c \in Index!Slots,
              Index!Points(after, s, e, c)
       PROVE  Index!Points(cache_DBA, s, e, c) /\ c # v
  <2>1. Index!Points(unlinked, s, e, c)
    BY <1>5, <1>10 DEF Empties, Index!Points
  <2>2. Index!Points(dba, s, e, c)
    BY <1>5, <2>1 DEF Unlinks
  <2>3. Index!Points(cache_DBA, s, e, c)
    BY <1>4, <2>2 DEF Index!SameBlocks, Index!Points
  <2>4. ASSUME c = v PROVE FALSE
    <3>1. /\ cache_DBA[s].LF \in 1 .. num_BTH - 1
          /\ cache_DBA[v].V /\ cache_DBA[v].PV
          /\ cache_DBA[v].LF = cache_DBA[s].LF + 1
          /\ cache_DBA[v].PT = s % (L0Size + capacity)
      BY <1>2, <1>9, <2>3, <2>4 DEF Index!TablesOwned
    <3>2. s % (L0Size + capacity) = s /\ At(s) = s
      <4>1. s \in Cache!Slots /\ s \in Nat /\ s < L0Size + capacity
        BY SameSets, Numbers
      <4> QED BY <4>1, IndicesFacts, ParentFits
    <3>3. /\ dba[v].V /\ dba[v].PV /\ dba[v].LF > 1 /\ dba[v].LF > 0 /\ At(dba[v].PT) = s
      BY <1>2, <1>4, <3>1, <3>2, Numbers DEF Index!SameBlocks
    <3>4. Cache!ParentEntries(dba, At(v))
      BY <1>2, <3>3 DEF Cache!ParentEntries, Cache!Evicted
    <3> QED BY <1>2, <1>5, <2>1, <2>4, <3>3, <3>4 DEF Unlinks
  <2> QED BY <2>3, <2>4
<1>11. ASSUME NEW s \in Index!Slots \ {v}
       PROVE  /\ new[s].V = cache_DBA[s].V /\ new[s].LF = cache_DBA[s].LF
              /\ new[s].PT = cache_DBA[s].PT /\ new[s].TAG = cache_DBA[s].TAG
              /\ \/ new[s].PV = cache_DBA[s].PV
                 \/ \E e \in Index!Entries : Index!Points(cache_DBA, v, e, s)
  <2>1. /\ new[s].V = cache_DBA[s].V /\ new[s].LF = cache_DBA[s].LF
        /\ new[s].PT = cache_DBA[s].PT /\ new[s].TAG = cache_DBA[s].TAG
    BY <1>2, <1>4, <1>5, <1>8 DEF Index!SameBlocks, Unlinks, Empties
  <2>2. ASSUME new[s].PV # cache_DBA[s].PV
        PROVE  \E e \in Index!Entries : Index!Points(cache_DBA, v, e, s)
    <3>1. after[s].PV # unlinked[s].PV
      BY <1>4, <1>5, <1>8, <2>2 DEF Index!SameBlocks, Unlinks
    <3>2. PICK c \in Cache!Children(unlinked, v) : At(c) = s
      BY <1>2, <1>5, <3>1 DEF Empties
    <3>3. PICK e \in Index!Entries : unlinked[v].BTH[e].V /\ unlinked[v].BTH[e].I = c
      BY <3>2, SameSets DEF Cache!Children
    <3>4. c \in Index!Slots
      <4>1. unlinked[v].BTH[e] \in PyPointer
        BY <1>2, <1>3, SameSets DEF ArrayOK, PyArray, PyBlock
      <4> QED BY <1>2, <3>3, <4>1 DEF PyPointer
    <3>5. c = s
      BY <3>2, <3>4, SameSets, IndicesFacts
    <3>6. Index!Points(dba, v, e, s)
      BY <1>2, <1>5, <3>3, <3>5 DEF Unlinks, Index!Points
    <3>7. Index!Points(cache_DBA, v, e, s)
      BY <1>2, <1>4, <3>6 DEF Index!SameBlocks, Index!Points
    <3> QED BY <3>7
  <2> QED BY <2>1, <2>2
<1>12. ASSUME NEW s \in Index!Slots \ {v}, NEW e \in Index!Entries, NEW c \in Index!Slots,
              Index!Points(new, s, e, c)
       PROVE  \/ Index!Points(cache_DBA, s, e, c) /\ c # v
              \/ c = v /\ l > 1 /\ s = last_BTH /\ e = i
  <2>1. CASE l # 1 /\ s = last_BTH /\ e = i
    BY <1>2, <1>8, <1>12, <2>1 DEF Index!Points, l
  <2>2. CASE ~(l # 1 /\ s = last_BTH /\ e = i)
    <3>1. Index!Points(after, s, e, c)
      BY <1>8, <1>12, <2>2 DEF Index!Points
    <3> QED BY <1>10, <3>1
  <2> QED BY <2>1, <2>2
\* ... and its entry in L0T.
<1>13. ASSUME NEW t \in 0 .. L0Size - 1, cache_L0T'[t].V
       PROVE  \/ cache_L0T[t].V /\ cache_L0T'[t].I = cache_L0T[t].I /\ cache_L0T[t].I # v
              \/ l = 1 /\ t = Index!L0TIndex(addr) /\ cache_L0T'[t].I = v
  <2> DEFINE l0t == PyL0TUnlinked(cache_L0T, dba, v)
  <2>1. \/ l0t = cache_L0T /\ ~(Cache!Evicted(dba, v) /\ dba[v].PV /\ dba[v].LF = 1)
        \/ l0t = [cache_L0T EXCEPT ![dba[v].PT].V = FALSE]
    BY <1>2 DEF PyL0TUnlinked
  <2>2. cache_L0T' = Index!L0TLinked(l0t, addr, l, v)
    BY <1>7
  <2> HIDE DEF l0t
  <2>3. /\ l0t = [x \in 0 .. L0Size - 1 |-> l0t[x]]
        /\ cache_L0T[t] \in Index!Pointer
    BY <1>6, <2>1 DEF Index!L0Table
  <2>4. \/ cache_L0T'[t] = l0t[t]
        \/ l = 1 /\ t = Index!L0TIndex(addr) /\ cache_L0T'[t].I = v
    BY <2>2, <2>3 DEF Index!L0TLinked
  <2>5. ASSUME l0t[t].V
        PROVE  cache_L0T[t].V /\ l0t[t].I = cache_L0T[t].I /\ cache_L0T[t].I # v
    <3>1. l0t[t] = cache_L0T[t] \/ (t = dba[v].PT /\ l0t[t] = [cache_L0T[t] EXCEPT !.V = FALSE])
      BY <1>6, <2>1 DEF Index!L0Table
    <3>2. l0t[t] = cache_L0T[t]
      BY <2>3, <2>5, <3>1 DEF Index!Pointer
    <3>3. ASSUME cache_L0T[t].I = v PROVE FALSE
      <4>1. /\ cache_DBA[v].V /\ cache_DBA[v].PV /\ cache_DBA[v].LF = 1
            /\ cache_DBA[v].PT = t % (L0Size + capacity)
        BY <1>6, <1>9, <2>5, <3>2, <3>3 DEF Index!RootsOwned, Index!L0Table
      <4>2. t % (L0Size + capacity) = t
        BY Numbers, ParentFits
      <4>3. dba[v].V /\ dba[v].PV /\ dba[v].LF = 1 /\ dba[v].PT = t
        BY <1>2, <1>4, <4>1, <4>2 DEF Index!SameBlocks
      <4>4. Cache!Evicted(dba, v)
        BY <4>3 DEF Cache!Evicted
      <4>5. l0t = [cache_L0T EXCEPT ![t].V = FALSE]
        BY <2>1, <4>3, <4>4
      <4>6. l0t[t] = [cache_L0T[t] EXCEPT !.V = FALSE]
        BY <1>6, <4>5 DEF Index!L0Table
      <4> QED BY <2>3, <2>5, <4>6 DEF Index!Pointer
    <3> QED BY <2>5, <3>2, <3>3
  <2> QED BY <1>13, <2>4, <2>5
<1> QED BY <1>2, <1>8, <1>11, <1>12, <1>13 DEF Index!Installs, new, l, i
-----------------------------------------------------------------------------
(* What a turn does to the invariant.                                        *)

\* What a turn keeps of the TLB.
Kept(w) ==
    \A t \in DOMAIN cache_TLB' : /\ t \in DOMAIN cache_TLB
                                 /\ cache_TLB'[t] = cache_TLB[t]
                                 /\ cache_TLB[t] # w

\* The search after a turn finds what it found before, or the new slot.
LEMMA TurnAgrees ==
    ASSUME Types, Types', ExactInv, phase = "insert", current_level \in Cache!Levels,
           NEW w \in Cache!Slots, NEW own, own[w] = addr,
           Index!Installs(cache_L0T, cache_DBA, cache_L0T', cache_DBA',
                          addr, current_level, w, last_BTH),
           Index!IndexOwned(own)', cache_L0T' \in Index!L0Table, cache_DBA' \in Index!Array,
           last_BTH' = w, current_level' = current_level + 1, UNCHANGED <<phase, addr>>,
           Kept(w)
    PROVE  Agreed' /\ StillMissing'
<1>1. Index!Filling = {} /\ Index!Filling' = IF current_level = num_BTH THEN {w} ELSE {}
  BY Numbers DEF Index!Filling
<1>2. PICK filling : /\ filling = Index!Filling'
                     /\ Index!Owned(cache_L0T', cache_DBA', own, filling)
  BY DEF Index!IndexOwned
<1>3. ASSUME NEW c \in Cache!Blocks, NEW s, s = Index!Walk(c)'[num_BTH], s # -1
      PROVE  \/ s = Index!Walk(c)[num_BTH]
             \/ s = w /\ w \in Index!Filling' /\ c = addr
  <2>1. addr \in Index!Blocks /\ c \in Index!Blocks /\ w \in Index!Slots /\ s # Index!None
    BY <1>3, SameSets DEF Types, PlaceOK, Index!None
  <2>2. s = Index!Walk(c)[num_BTH] \/ (s = w /\ current_level = num_BTH /\ c = addr)
    BY <1>2, <1>3, <2>1, Sizes, Index!TurnKeepsSearch
  <2> QED BY <1>1, <2>2
<1>4. Agreed'
  <2> SUFFICES ASSUME NEW t \in DOMAIN cache_TLB', NEW s, s = Index!Walk(t)'[num_BTH], s # -1
               PROVE  s = cache_TLB'[t] \/ s \in Index!Filling'
    BY DEF Agreed
  <2>1. t \in DOMAIN cache_TLB /\ cache_TLB'[t] = cache_TLB[t] /\ t \in Cache!Blocks
    BY DEF Kept, Types, ListOK
  <2>2. CASE s = Index!Walk(t)[num_BTH]
    BY <1>1, <2>1, <2>2 DEF ExactInv, Agreed
  <2> QED BY <1>3, <2>1, <2>2
<1>5. StillMissing'
  <2> SUFFICES ASSUME NEW c, c = addr, NEW s, s = Index!Walk(c)'[num_BTH], s # -1
               PROVE  s \in Index!Filling'
    BY DEF StillMissing, Index!Walk
  <2>1. c \in Cache!Blocks
    BY DEF Types, PlaceOK
  <2>2. Index!Walk(c)[num_BTH] = -1
    BY <1>1 DEF ExactInv, StillMissing
  <2> QED BY <1>3, <2>1, <2>2
<1> QED BY <1>4, <1>5

\* test.py drops the entry of the data block it evicts: no other names the slot.
LEMMA PyDropKept ==
    ASSUME Types, UNCHANGED script, script = Py, SlotTypes, Index!TLBCoherent,
           NEW n, NEW v \in Cache!Slots, Replaces(n, v)
    PROVE  Kept(v)
<1> DEFINE dba == Cache!Scanned(n)
<1>1. PyDropsFromTLB(dba, v) /\ At(v) = v
  BY IndicesFacts DEF Replaces, BeforeEviction
<1>2. Index!SameBlocks(cache_DBA, dba)
  BY TypesParts, ScannedFields
<1>3. ASSUME NEW t \in DOMAIN cache_TLB, cache_TLB[t] = v
      PROVE  Cache!Evicted(dba, v) /\ Cache!IsData(dba, v) /\ dba[v].TAG = t
  <2>1. Index!Holds(v, t)
    BY <1>3 DEF Index!TLBCoherent
  <2>2. dba[v].V /\ dba[v].LF = num_BTH /\ dba[v].TAG = t
    BY <1>2, <2>1, SameSets DEF Index!Holds, Index!SameBlocks
  <2> QED BY <2>2, Numbers DEF Cache!Evicted, Cache!IsData
<1> HIDE DEF dba
<1>4. CASE Cache!Evicted(dba, v) /\ Cache!IsData(dba, v) /\ dba[v].TAG \in DOMAIN cache_TLB
  <2>1. /\ cache_TLB' = Cache!Without(cache_TLB, dba[v].TAG)
        /\ cache_TLB_order' = Cache!Erased(cache_TLB_order, dba[v].TAG)
    BY <1>1, <1>4 DEF PyDropsFromTLB
  <2>2. /\ DOMAIN cache_TLB' = DOMAIN cache_TLB \ {dba[v].TAG}
        /\ \A t \in DOMAIN cache_TLB' : cache_TLB'[t] = cache_TLB[t]
    BY <1>4, <2>1, DropsFromTLB DEF Types
  <2> QED BY <1>3, <2>2 DEF Kept
<1>5. CASE ~(Cache!Evicted(dba, v) /\ Cache!IsData(dba, v) /\ dba[v].TAG \in DOMAIN cache_TLB)
  <2>1. UNCHANGED cache_TLB
    BY <1>1, <1>5 DEF PyDropsFromTLB
  <2> QED BY <1>3, <1>5, <2>1 DEF Kept
<1> QED BY <1>4, <1>5

LEMMA PySlotTypesNext ==
    ASSUME Types', UNCHANGED script, script = Py
    PROVE  SlotTypes'
<1>1. Indices = Cache!Slots /\ Indices' = Cache!Slots
  BY DEF Indices, Py, Base
<1>2. cache_L0T' \in PyL0T /\ cache_DBA' \in PyArray
  BY <1>1 DEF Types, PyL0T, PyArray, PyBlock, PyPointer
<1>3. PyPointer = Index!Pointer
  BY <1>1, SameSets DEF PyPointer, Index!Pointer
<1>4. \A i \in Indices \cup (0 .. L0Size - 1) : i \in 0 .. L0Size + capacity - 1
  BY <1>1, Numbers
<1>5. cache_DBA' \in Index!Array
  BY <1>2, <1>3, <1>4, SameSets, IndexArray DEF PyArray, PyBlock
<1>6. /\ \A t \in DOMAIN cache_TLB' : cache_TLB'[t] \in Cache!Slots
      /\ last_BTH' \in Cache!Slots \cup {-1}
  BY <1>1 DEF Types, ListOK, PlaceOK
<1> QED BY <1>2, <1>3, <1>5, <1>6 DEF SlotTypes, PyL0T, Index!L0Table, Cache!Slots

\* While slots are free insert takes the next one, in both programs.
LEMMA PyFreeTurnExact ==
    ASSUME PyInv, Types', UNCHANGED script, script \in {Py, Base}, PyInstall, Index!Cold
    PROVE  ExactInv' /\ phase' # "error"
<1>1. /\ Types /\ phase = "insert" /\ current_level \in Cache!Levels
      /\ addr \in Cache!Blocks /\ VBIR \in Cache!Slots
  BY InstallCases, Numbers DEF PyInv, Types, PlaceOK
<1>2. ExactInv /\ SlotTypes /\ Index!TLBExact /\ Index!InsertFillsGap /\ Index!HandSplits
  BY DEF PyInv, Exact, ExactInv
<1>3. PICK owner : Index!IndexOwned(owner) /\ Index!AllLinked(owner)
  BY DEF PyInv, Exact, ExactInv
<1>4. current_level > 1 => last_BTH \in Cache!Slots
  BY <1>1, <1>3, SameSets DEF Index!IndexOwned, Index!OnPath
<1>5. PICK w : w = VBIR
  OBVIOUS
<1>6. Index!TakesFree(w) /\ UNCHANGED addr
  BY <1>1, <1>2, <1>4, <1>5, PyColdTurn
<1>7. /\ cache_L0T \in Index!L0Table /\ cache_DBA \in Index!Array /\ Index!TLBTypeOK
      /\ addr \in Index!Blocks
  BY <1>1, <1>2, ExactTypes
<1>8. /\ w \in Cache!Slots /\ last_BTH' = w /\ current_level' = current_level + 1
      /\ UNCHANGED <<phase, addr, cache_TLB>> /\ ~cache_DBA[w].V
  BY <1>1, <1>5, <1>6 DEF Index!TakesFree
<1>9. cache_L0T' \in Index!L0Table /\ cache_DBA' \in Index!Array
  <2>1. cache_DBA' = Index!Installed(Index!Linked(cache_DBA, addr, current_level, w),
                                     addr, current_level, w)
        /\ cache_L0T' = Index!L0TLinked(cache_L0T, addr, current_level, w)
    BY <1>6 DEF Index!TakesFree
  <2>2. Index!Linked(cache_DBA, addr, current_level, w) \in Index!Array
    BY <1>7, <1>8, Sizes, SameSets, Index!LinkedType
  <2>3. last_BTH \in Index!Slots \cup {Index!None}
    BY <1>2, SameSets DEF SlotTypes, Index!None
  <2>4. cache_DBA' \in Index!Array
    BY <1>1, <1>7, <1>8, <2>1, <2>2, <2>3, Sizes, SameSets, Index!InstalledType
  <2>5. cache_L0T' \in Index!L0Table
    BY <1>7, <1>8, <2>1, Sizes, SameSets, Index!L0TType DEF Index!L0TLinked, Index!L0Table
  <2> QED BY <2>4, <2>5
<1>10. PICK own : own = [owner EXCEPT ![w] = addr]
  OBVIOUS
<1>11. own[w] = addr
  BY <1>3, <1>8, <1>10, SameSets DEF Index!IndexOwned, Index!Owned
<1>12. /\ Index!Installs(cache_L0T, cache_DBA, cache_L0T', cache_DBA',
                         addr, current_level, w, last_BTH)
       /\ Index!IndexOwned(own)' /\ Index!AllLinked(own)'
       /\ Index!TLBExact' /\ Index!InsertFillsGap'
       /\ Index!Cold' => Index!HandSplits'
  BY <1>1, <1>2, <1>3, <1>6, <1>7, <1>9, <1>10, Sizes, SameSets, Index!FreeTurn
<1>13. Kept(w)
  BY <1>2, <1>8, SameSets DEF Kept, Index!TLBExact, Index!TLBCoherent, Index!Holds
<1>14. Agreed' /\ StillMissing'
  BY <1>1, <1>2, <1>8, <1>9, <1>11, <1>12, <1>13, TurnAgrees
<1>15. SlotTypes'
  BY <1>2, <1>8, <1>9 DEF SlotTypes
<1>16. Index!Cold' => Index!HandSplits' /\ phase' # "error"
  BY <1>1, <1>8, <1>12
<1>17. \E o : Index!IndexOwned(o)' /\ (Index!Cold' => Index!AllLinked(o)')
  BY <1>12
<1> QED BY <1>1, <1>8, <1>12, <1>14, <1>15, <1>16, <1>17 DEF ExactInv

\* Once all are used test.py evicts, and its index stays exact.
LEMMA PyFullTurnExact ==
    ASSUME PyInv, Types', UNCHANGED script, script = Py, ~Index!Cold,
           NEW n, NEW v \in Cache!Slots, Replaces(n, v), ~Index!Cold',
           phase = "insert", current_level \in Cache!Levels
    PROVE  ExactInv'
<1>1. Types /\ addr \in Cache!Blocks
  BY DEF PyInv, Types, PlaceOK
<1>2. ExactInv /\ SlotTypes /\ Index!TLBExact /\ Index!TLBCoherent
  BY DEF PyInv, Exact, ExactInv, Index!TLBExact
<1>3. PICK owner : Index!IndexOwned(owner)
  BY <1>2 DEF ExactInv
<1>4. current_level > 1 => last_BTH \in Cache!Slots
  BY <1>1, <1>3, SameSets DEF Index!IndexOwned, Index!OnPath
<1>5. Index!Owned(cache_L0T, cache_DBA, owner, {})
  <2>1. Index!Filling = {}
    BY Numbers DEF Index!Filling
  <2> QED BY <1>3, <2>1 DEF Index!IndexOwned
<1>6. Index!Installs(cache_L0T, cache_DBA, cache_L0T', cache_DBA',
                     addr, current_level, v, last_BTH)
  BY <1>1, <1>2, <1>4, <1>5, PyFullTurn
<1>7. Kept(v)
  BY <1>1, <1>2, PyDropKept
<1>8. SlotTypes' /\ cache_L0T' \in Index!L0Table /\ cache_DBA' \in Index!Array
  BY PySlotTypesNext DEF SlotTypes
<1>9. /\ cache_L0T \in Index!L0Table /\ cache_DBA \in Index!Array /\ Index!TLBTypeOK
      /\ addr \in Index!Blocks
  BY <1>1, <1>2, ExactTypes
<1>10. last_BTH' = v /\ current_level' = current_level + 1 /\ UNCHANGED <<phase, addr>>
  BY DEF Replaces
<1>11. PICK own : own = [owner EXCEPT ![v] = addr]
  OBVIOUS
<1>12. own[v] = addr
  BY <1>5, <1>11, SameSets DEF Index!Owned
<1>13. Index!IndexOwned(own)' /\ Index!InsertFillsGap' /\ Index!TLBExact'
  <2>1. \A t \in DOMAIN cache_TLB' :
           /\ t \in DOMAIN cache_TLB /\ cache_TLB'[t] = cache_TLB[t]
           /\ cache_TLB[t] # v
    BY <1>7 DEF Kept
  <2> QED BY <1>2, <1>3, <1>6, <1>8, <1>9, <1>10, <1>11, <2>1, Sizes, SameSets, Index!TurnOwned
<1>14. Agreed' /\ StillMissing'
  BY <1>1, <1>2, <1>6, <1>7, <1>8, <1>10, <1>12, <1>13, TurnAgrees
<1>15. \E o : Index!IndexOwned(o)' /\ (Index!Cold' => Index!AllLinked(o)')
  BY <1>13
<1> QED BY <1>8, <1>13, <1>14, <1>15 DEF ExactInv

LEMMA PyInstallExact ==
    ASSUME PyInv, Types', UNCHANGED script, script \in {Py, Base}, PyInstall
    PROVE  PyInv'
<1>1. /\ Types /\ phase = "insert" /\ current_level \in Cache!Levels /\ VBIR \in Cache!Slots
  BY InstallCases, Numbers DEF PyInv, Types, PlaceOK
<1>2. PICK n \in 0 .. MNA : \E v :
         /\ v = PyVictim(n)
         /\ \/ EvictionRaises(BeforeEviction(n, v), v) /\ Raise
            \/ Replaces(n, v)
  BY InstallCases
<1>3. PICK v : /\ v = PyVictim(n)
               /\ \/ EvictionRaises(BeforeEviction(n, v), v) /\ Raise
                  \/ Replaces(n, v)
  BY <1>2
<1>4. v \in Indices /\ (script = Py => v \in Cache!Slots)
  BY <1>1, <1>3, VictimOK
<1>5. Index!Cold' => Index!Cold
  <2>1. CASE Raise
    BY <1>1, <2>1, RaiseIndex, SameIndexShape
  <2>2. CASE Replaces(n, v)
    BY <1>1, <1>4, <2>2, InstallUse, SameSets DEF InUse, Index!Cold
  <2> QED BY <1>3, <2>1, <2>2
<1>6. phase' \in {"ready", "wait", "insert", "check", "error"}
  BY <1>1, <1>3 DEF Raise, Replaces
<1>7. ASSUME Exact PROVE ExactInv'
  <2>1. CASE Index!Cold
    BY <2>1, PyFreeTurnExact
  <2>2. CASE ~Index!Cold /\ Raise
    <3>1. SameIndex
      BY <1>1, <2>2, RaiseIndex
    <3>2. /\ phase' = "error" /\ UNCHANGED last_BTH
          /\ \A t \in DOMAIN cache_TLB' : t \in DOMAIN cache_TLB /\ cache_TLB'[t] = cache_TLB[t]
      BY <2>2 DEF Raise
    <3>3. FromSearch /\ Index!Filling = {}
      BY <1>1, <3>2, Numbers DEF FromSearch, Index!Filling
    <3> QED BY <1>1, <1>7, <2>2, <3>1, <3>2, <3>3, QuietExact DEF PyInv
  <2>3. CASE ~Index!Cold /\ Replaces(n, v)
    BY <1>1, <1>4, <1>5, <1>7, <2>3, PyFullTurnExact DEF Exact
  <2> QED BY <1>3, <2>1, <2>2, <2>3
<1> QED BY <1>5, <1>6, <1>7 DEF PyInv, Exact
-----------------------------------------------------------------------------
(* The invariant of the three programs, and the theorems.                    *)

LEMMA PyInvNext ==
    ASSUME PyInv, PyNext
    PROVE  PyInv'
<1>1. Types' /\ UNCHANGED script /\ script \in {Py, Base}
  BY PyTypesNext DEF PyInv, PyNext
<1>2. ASSUME NEW b \in Cache!Blocks, PyLine(b) PROVE PyInv'
  BY <1>1, <1>2, PyLineExact
<1>3. CASE PyInsertBegin
  BY <1>1, <1>3, PyInsertBeginExact
<1>4. CASE PyInstall
  BY <1>1, <1>4, PyInstallExact
<1>5. CASE PyInsertEnd
  BY <1>1, <1>5, PyInsertEndExact
<1>6. CASE BaseReadBack
  BY <1>1, <1>6, BaseReadBackExact
<1> QED BY <1>2, <1>3, <1>4, <1>5, <1>6 DEF PyNext

LEMMA PyInvStutter == PyInv /\ UNCHANGED vars => PyInv'
<1> SUFFICES ASSUME PyInv, UNCHANGED vars PROVE PyInv'
  OBVIOUS
<1>1. UNCHANGED <<script, cache_L0T, cache_DBA, cache_TLB, cache_TLB_order, VBIR,
                  phase, addr, last_BTH, current_level>>
  BY DEF vars
<1>2. Types'
  BY <1>1 DEF PyInv, Types, PyL0T, PyArray, PyBlock, PyPointer, ParentOK, ListOK, PlaceOK, Indices
<1>3. SlotTypes => SlotTypes'
  BY <1>1 DEF SlotTypes
<1>4. Index!TLBExact => Index!TLBExact'
  BY <1>1 DEF Index!TLBExact, Index!TLBCoherent, Index!FillingNotInTLB, Index!Holds, Index!Filling
<1>5. Index!InsertFillsGap => Index!InsertFillsGap'
  BY <1>1 DEF Index!InsertFillsGap
<1>6. /\ Index!Filling' = Index!Filling
      /\ \A b : Index!Walk(b)' = Index!Walk(b)
  BY <1>1 DEF Index!Filling, Index!Walk, Index!Tables
<1>7. (Agreed => Agreed') /\ (StillMissing => StillMissing')
  BY <1>1, <1>6 DEF Agreed, StillMissing
<1>8. /\ Index!Cold' <=> Index!Cold
      /\ Index!HandSplits => Index!HandSplits'
      /\ \A owner : Index!AllLinked(owner) => Index!AllLinked(owner)'
  BY <1>1 DEF Index!Cold, Index!HandSplits, Index!AllLinked
<1>9. \A owner : Index!IndexOwned(owner) => Index!IndexOwned(owner)'
  BY <1>1, <1>6 DEF Index!IndexOwned
<1>10. ExactInv => ExactInv'
  BY <1>1, <1>3, <1>4, <1>5, <1>7, <1>8, <1>9 DEF ExactInv
<1> QED BY <1>1, <1>2, <1>8, <1>10 DEF PyInv, Exact

\* One invariant for the three programs.
ReplayInv ==
    /\ script \in Scripts
    /\ script = Cpp => CppInv
    /\ script \in {Py, Base} => PyInv

LEMMA ReplayInvNext == ReplayInv /\ [Next]_vars => ReplayInv'
<1> SUFFICES ASSUME ReplayInv, [Next]_vars PROVE ReplayInv'
  OBVIOUS
<1>1. CASE CppNext
  BY <1>1, CppInvNext DEF ReplayInv, CppNext, Cpp, Py, Base
<1>2. CASE PyNext
  BY <1>2, PyInvNext DEF ReplayInv, PyNext, Cpp, Py, Base
<1>3. CASE UNCHANGED vars
  BY <1>3, CppInvStutter, PyInvStutter DEF ReplayInv, vars
<1> QED BY <1>1, <1>2, <1>3 DEF Next

LEMMA ReplayInvAlways == Spec => []ReplayInv
<1>1. Init => ReplayInv
  BY CppInvInit, PyInvInit DEF ReplayInv, Init
<1> QED BY <1>1, ReplayInvNext, PTL DEF Spec

LEMMA ReplayInvSound == ReplayInv => TypeOK /\ ColdSound /\ PySound
<1>1. script \in {Cpp, Py, Base} \/ script \notin Scripts
  BY ReplayAssumption
<1>2. CASE script = Cpp
  BY <1>2, CppInvSound DEF ReplayInv, PySound, Cpp, Py
<1>3. CASE script \in {Py, Base}
  BY <1>3, PyInvSound DEF ReplayInv
<1> QED BY <1>1, <1>2, <1>3 DEF ReplayInv

\* The state of each program stays well-formed: only test_base.py stores -1 as
\* an index (test.cpp:45-58, test.py:51-64, test_base.py:46-62).
THEOREM StateTyped == Spec => []TypeOK
BY ReplayInvAlways, ReplayInvSound, PTL

\* Until every block has been used once the index and the TLB of each of the
\* three programs are exact and none of them raises (test.cpp:207-342,
\* test.py:160-271, test_base.py:156-260).
THEOREM ReplaysColdSound == Spec => []ColdSound
BY ReplayInvAlways, ReplayInvSound, PTL

\* Those of test.py stay exact for ever, whatever the number of attempts: it
\* chooses before it evicts and unlinks the victim everywhere (test.py:182-245).
THEOREM PyStaysExact == Spec => []PySound
BY ReplayInvAlways, ReplayInvSound, PTL
=============================================================================
