---------------------------- MODULE TraceReplay ----------------------------
(* The three programs that replay a trace of addresses on an index like that *)
(* of the cache, to count its misses: test.cpp, test.py and test_base.py.    *)
(* There is no memory and no request in flight: a line of the trace that     *)
(* misses is inserted at once.                                               *)
(*                                                                           *)
(* test.cpp is the code of the cache but for the choice of the smallest      *)
(* reuse count, so that the operations of DbrcIndex are used for it.  The    *)
(* Python programs keep the table of a block and its data in one field,      *)
(* whose type changes with the level, and index lists with -1.               *)
EXTENDS Integers, FiniteSets, Sequences, SequencesExt

CONSTANTS
    Fanout, num_BTH, L0Size, capacity, TLB_size, MNA, RMax,  \* see DbrcIndex
    Scripts      \* the programs looked at, a subset of the three

Cpp  == "test.cpp"
Py   == "test.py"
Base == "test_base.py"

\* What DbrcIndex assumes of its constants.
ASSUME ReplayAssumption ==
    /\ {Fanout, num_BTH, L0Size, capacity, MNA, RMax} \subseteq Nat \ {0}
    /\ TLB_size \in Nat
    /\ Scripts \subseteq {Cpp, Py, Base}
    /\ Fanout ^ 0 = 1
    /\ \A k \in 0 .. num_BTH - 1 : /\ Fanout ^ k \in Nat \ {0}
                                  /\ Fanout ^ (k + 1) = Fanout * Fanout ^ k

VARIABLES
    script,           \* the program that runs, fixed at the start
    cache_L0T, cache_DBA, cache_TLB, cache_TLB_order, VBIR,  \* see DbrcIndex
    phase,            \* what the program is doing, see Phases
    addr,             \* the block of the trace line that missed
    last_BTH,         \* insert: the last table installed or found
    current_level     \* insert: the level installed next

vars == <<script, cache_L0T, cache_DBA, cache_TLB, cache_TLB_order, VBIR,
          phase, addr, last_BTH, current_level>>

\* The parent field is wide enough here, and nothing writes.
Cache == INSTANCE DbrcIndex
            WITH PTSize <- L0Size + capacity,
                 Stores <- {FALSE},
                 req    <- [block |-> addr, dirties |-> FALSE],
                 wb     <- -1

\* "ready": reading the trace.  "wait", "insert": in insert, before and in its
\* loop.  "check": about to read back.  "error": ended by a Python exception.
\* The others are the ends of DbrcIndex.
Phases == Cache!Phases \cup {"check", "error"}
-----------------------------------------------------------------------------
(* test.cpp.                                                                 *)

\* smallest_r is assigned for every block passed, its test has no braces: the
\* block kept is the last one with a smaller count than the one before it.
IsLastDrop(s, n) ==
    LET R(k) == cache_DBA[Cache!Slot(k)].R
        Drop(k) == k = 0 \/ R(k) < R(k - 1)
    IN  \/ n = 0 /\ s = -1
        \/ \E k \in 0 .. n - 1 :
              /\ s = Cache!Slot(k)
              /\ Drop(k)
              /\ \A j \in k + 1 .. n - 1 : ~Drop(j)

\* A line of the trace that hits, one that misses, and the insertion, in which
\* only the choice of the block differs from the cache.
CppHit(b) ==
    /\ phase = "ready"
    /\ Cache!Hit(b, FALSE)
    /\ UNCHANGED <<phase, addr, last_BTH, current_level>>
CppMiss(b)     == addr' = b /\ Cache!TimingMiss(b, FALSE)
CppInsertBegin == UNCHANGED addr /\ Cache!InsertBegin
CppInsertEnd   == UNCHANGED addr /\ Cache!InsertEnd

CppInstall ==
    /\ phase = "insert"
    /\ current_level <= num_BTH
    /\ \E n \in 0 .. MNA, w \in Cache!Slots \cup {-1} :
         /\ Cache!ScanEnds(n)
         /\ IF Cache!Counter(n, Cache!Scanned(n), Cache!Slot(n)) = MNA
            THEN IsLastDrop(w, n)
            ELSE w = Cache!Slot(n)
         /\ UNCHANGED addr
         /\ Cache!Turn(n, w)

\* The read-back after insert finds the block at the end of the TLB.
CppNext ==
    /\ script = Cpp
    /\ UNCHANGED script
    /\ \/ \E b \in Cache!Blocks : CppHit(b) \/ CppMiss(b)
       \/ CppInsertBegin
       \/ CppInstall
       \/ CppInsertEnd
-----------------------------------------------------------------------------
(* The Python programs: the search.                                          *)

\* A list indexed with -1 gives its last element.
At(i) == i % capacity

\* The index the search has after each level, End once an entry is not valid.
End == -2
PyFollowed_Unchecked(e) == e.I
PyFollowed(e) == IF e.V THEN e.I ELSE End
PyPath(b) ==
    LET path[l \in Cache!Levels] ==
          IF l = 1 THEN PyFollowed(cache_L0T[Cache!L0TIndex(b)])
          ELSE IF path[l - 1] = End THEN End
          ELSE LET entries == cache_DBA[At(path[l - 1])].BTH
               IN  PyFollowed(entries[Cache!TableIndex(b, l)])
    IN  path

Reached(path) == {l \in Cache!Levels : path[l] # End}

\* The index returned: -1 from L0T, else that of the last block reached.
PyEndsAt(path) ==
    IF Reached(path) = {} THEN -1 ELSE path[Cardinality(Reached(path))]

PyFound(path, b) == path[num_BTH] # End /\ Cache!Holds(At(path[num_BTH]), b)

\* Looking for V in the bytes of a data block raises AttributeError.
SearchRaises(path) ==
    \E l \in Reached(path) \ {num_BTH} : Cache!IsData(cache_DBA, At(path[l]))

PyTouched_Uncapped(path) ==
    [s \in Cache!Slots |->
        [cache_DBA[s] EXCEPT !.R =
            @ + Cardinality({l \in Reached(path) \ {1} : At(path[l]) = s})]]
PyTouched(path) ==
    [s \in Cache!Slots |->
        [cache_DBA[s] EXCEPT !.R = Cache!Capped(
            @ + Cardinality({l \in Reached(path) \ {1} : At(path[l]) = s}))]]

Raise ==
    /\ phase' = "error"
    /\ UNCHANGED <<cache_L0T, cache_DBA, cache_TLB, cache_TLB_order, VBIR,
                   addr, last_BTH, current_level>>
-----------------------------------------------------------------------------
(* The TLB is a dictionary that keeps the order of insertion.                *)

MovedToEnd(b) ==
    IF b \in DOMAIN cache_TLB THEN Append(Cache!Erased(cache_TLB_order, b), b)
    ELSE cache_TLB_order

Trimmed(order) == IF Len(order) > TLB_size THEN Tail(order) ELSE order

\* A key that is there keeps its place.
Listed(order, b) == IF b \in Range(order) THEN order ELSE Append(order, b)

PySetsTLB(order, b, s) ==
    LET after == Listed(Trimmed(order), b)
    IN  /\ cache_TLB_order' = after
        /\ cache_TLB' = [t \in Range(after) |->
                            IF t = b THEN s ELSE cache_TLB[t]]

\* test.py searches even if the TLB has the block, and believes the search
\* about the hit and the TLB about the place; what it reads there is data, as
\* PySound says.
PyAccess(b) ==
    IF PyFound(PyPath(b), b)
    THEN /\ PySetsTLB(MovedToEnd(b), b,
                      IF b \in DOMAIN cache_TLB THEN cache_TLB[b]
                      ELSE At(PyPath(b)[num_BTH]))
         /\ UNCHANGED <<phase, addr>>
    ELSE /\ cache_TLB_order' = MovedToEnd(b)
         /\ phase' = "wait"
         /\ addr' = b
         /\ UNCHANGED cache_TLB

\* test_base.py searches first too, but believes the TLB; the byte read may lie
\* behind the end of the shorter list when the TLB names a block that has
\* become a table.
BaseAccess(b) ==
    IF b \in DOMAIN cache_TLB
    THEN /\ \/ UNCHANGED phase
            \/ /\ ~Cache!IsData(cache_DBA, At(cache_TLB[b]))
               /\ phase' = "error"
         /\ UNCHANGED <<cache_TLB, cache_TLB_order, addr>>
    ELSE IF PyFound(PyPath(b), b)
    THEN /\ PySetsTLB(cache_TLB_order, b, PyPath(b)[num_BTH])
         /\ UNCHANGED <<phase, addr>>
    ELSE /\ phase' = "wait"
         /\ addr' = b
         /\ UNCHANGED <<cache_TLB, cache_TLB_order>>

PyLine(b) ==
    /\ phase = "ready"
    /\ \/ SearchRaises(PyPath(b)) /\ Raise
       \/ /\ ~SearchRaises(PyPath(b))
          /\ cache_DBA' = PyTouched(PyPath(b))
          /\ IF script = Py THEN PyAccess(b) ELSE BaseAccess(b)
          /\ UNCHANGED <<cache_L0T, VBIR, last_BTH, current_level>>
-----------------------------------------------------------------------------
(* The Python programs: insert.                                              *)

\* An index of -1 is taken for a miss in L0T, also when an entry holds -1.
PyInsertBegin ==
    /\ phase = "wait"
    /\ LET path == PyPath(addr)
           last == PyEndsAt(path)
           l0   == cache_L0T[Cache!L0TIndex(addr)]
       IN  /\ last_BTH' = last
           /\ cache_DBA' = [PyTouched(path) EXCEPT
                                ![At(l0.I)].PV = @ /\ ~(last = -1 /\ l0.V)]
           /\ current_level' = IF last = -1 THEN 1
                               ELSE cache_DBA[At(last)].LF + 1
    /\ phase' = "insert"
    /\ UNCHANGED <<cache_L0T, cache_TLB, cache_TLB_order, VBIR, addr>>

\* After MNA attempts test.py takes the last block passed, as smallest_r is
\* never assigned; test_base.py compares with -1 and never finds a smaller one.
PyVictim(n) ==
    IF n < MNA THEN Cache!Slot(n)
    ELSE IF script = Py THEN Cache!Slot(n - 1)
    ELSE -1

PyLinked(dba, v) ==
    IF current_level = 1 THEN dba
    ELSE [s \in Cache!Slots |->
            IF s = At(last_BTH)
            THEN [dba[s] EXCEPT !.BTH[Cache!TableIndex(addr, current_level)] =
                    [V |-> TRUE, I |-> v]]
            ELSE dba[s]]
PyL0TLinked(l0t, v) ==
    IF current_level = 1
    THEN [l0t EXCEPT ![Cache!L0TIndex(addr)] = [V |-> TRUE, I |-> v]]
    ELSE l0t

\* The entries of the parent's table that the eviction of v invalidates: the
\* loop of test_base.py ends at the first.
Severed_First(dba, v) ==
    LET named == {e \in Cache!Entries : dba[At(dba[At(v)].PT)].BTH[e].I = v}
    IN  {e \in named : \A f \in named : e <= f}
Severed(dba, v) ==
    LET named == {e \in Cache!Entries : dba[At(dba[At(v)].PT)].BTH[e].I = v}
    IN  IF script = Py THEN named ELSE {e \in named : \A f \in named : e <= f}

PyUnlinked(dba, v) ==
    IF Cache!ParentEntries(dba, At(v))
    THEN [dba EXCEPT ![At(dba[At(v)].PT)].BTH =
             [e \in Cache!Entries |-> [V |-> @[e].V /\ e \notin Severed(dba, v),
                                       I |-> @[e].I]]]
    ELSE dba
PyL0TUnlinked(l0t, dba, v) ==
    IF Cache!Evicted(dba, At(v)) /\ dba[At(v)].PV /\ dba[At(v)].LF = 1
    THEN [l0t EXCEPT ![dba[At(v)].PT].V = FALSE]
    ELSE l0t

PyVacated(dba, v) ==
    LET children == {At(i) : i \in Cache!Children(dba, At(v))}
    IN  IF ~Cache!Evicted(dba, At(v)) THEN dba
        ELSE IF Cache!IsData(dba, At(v)) THEN [dba EXCEPT ![At(v)].TAG = 0]
        ELSE [s \in Cache!Slots |->
                [dba[s] EXCEPT !.PV = @ /\ s \notin children]]

\* Looking for I in the bytes of a parent that holds data raises too.
EvictionRaises(dba, v) ==
    /\ Cache!ParentEntries(dba, At(v))
    /\ Cache!IsData(dba, At(dba[At(v)].PT))

\* test_base.py looks up the block it inserts instead of the one it evicts.
PyDropsFromTLB(dba, v) ==
    LET key == IF script = Py THEN dba[At(v)].TAG ELSE addr
    IN  IF /\ Cache!Evicted(dba, At(v)) /\ Cache!IsData(dba, At(v))
           /\ key \in DOMAIN cache_TLB
        THEN /\ cache_TLB' = Cache!Without(cache_TLB, key)
             /\ cache_TLB_order' = Cache!Erased(cache_TLB_order, key)
        ELSE UNCHANGED <<cache_TLB, cache_TLB_order>>

PyInstalled(dba, v) ==
    [dba EXCEPT ![At(v)] =
        [@ EXCEPT !.V = TRUE, !.PV = TRUE, !.LF = current_level, !.R = 1,
                  !.PT = IF current_level = 1 THEN Cache!L0TIndex(addr)
                         ELSE last_BTH,
                  !.BTH = Cache!EmptyTable]]

\* test.py evicts and then links, test_base.py links and then evicts.
PyInstall ==
    /\ phase = "insert"
    /\ current_level <= num_BTH
    /\ \E n \in 0 .. MNA :
         LET v    == PyVictim(n)
             dba  == IF script = Py THEN Cache!Scanned(n)
                     ELSE PyLinked(Cache!Scanned(n), v)
             vacated == PyVacated(PyUnlinked(dba, v), v)
         IN
         /\ Cache!ScanEnds(n)
         /\ \/ EvictionRaises(dba, v) /\ Raise
            \/ /\ ~EvictionRaises(dba, v)
               /\ IF script = Py
                  THEN /\ cache_DBA' = PyInstalled(PyLinked(vacated, v), v)
                       /\ cache_L0T' = PyL0TLinked(
                                          PyL0TUnlinked(cache_L0T, dba, v), v)
                  ELSE /\ cache_DBA' = PyInstalled(vacated, v)
                       /\ cache_L0T' = PyL0TUnlinked(
                                          PyL0TLinked(cache_L0T, v), dba, v)
               /\ PyDropsFromTLB(dba, v)
               /\ VBIR' = At(v + 1)
               /\ last_BTH' = v
               /\ current_level' = current_level + 1
               /\ UNCHANGED <<phase, addr>>

PyInsertEnd ==
    /\ phase = "insert"
    /\ current_level > num_BTH
    /\ cache_DBA' = [cache_DBA EXCEPT ![At(last_BTH)].TAG = addr]
    /\ PySetsTLB(cache_TLB_order, addr, last_BTH)
    /\ phase' = IF script = Py THEN "ready" ELSE "check"
    /\ UNCHANGED <<cache_L0T, VBIR, addr, last_BTH, current_level>>

\* test_base.py reads back through an access, which searches again.
BaseReadBack ==
    /\ phase = "check"
    /\ \/ SearchRaises(PyPath(addr)) /\ Raise
       \/ /\ ~SearchRaises(PyPath(addr))
          /\ cache_DBA' = PyTouched(PyPath(addr))
          /\ phase' = "ready"
          /\ UNCHANGED <<cache_L0T, cache_TLB, cache_TLB_order, VBIR, addr,
                         last_BTH, current_level>>

PyNext ==
    /\ script \in {Py, Base}
    /\ UNCHANGED script
    /\ \/ \E b \in Cache!Blocks : PyLine(b)
       \/ PyInsertBegin
       \/ PyInstall
       \/ PyInsertEnd
       \/ BaseReadBack
-----------------------------------------------------------------------------
Init ==
    /\ script \in Scripts
    /\ addr = 0
    /\ cache_L0T = [t \in 0 .. L0Size - 1 |-> Cache!NullPointer]
    /\ cache_DBA = [s \in Cache!Slots |-> Cache!EmptyBlock]
    /\ cache_TLB = << >>
    /\ cache_TLB_order = << >>
    /\ VBIR = 0
    /\ phase = "ready"
    /\ last_BTH = -1
    /\ current_level = 0

Next == CppNext \/ PyNext

Spec == Init /\ [][Next]_vars
-----------------------------------------------------------------------------
(* Properties.                                                               *)

\* Only test_base.py stores -1 as an index, in entries, in the TLB and in PT.
Indices == IF script = Base THEN Cache!Slots \cup {-1} ELSE Cache!Slots
TypeOK ==
    /\ script \in Scripts
    /\ \A t \in DOMAIN cache_L0T : cache_L0T[t].I \in Indices
    /\ \A s \in Cache!Slots :
          LET d == cache_DBA[s]
          IN  /\ d.R \in 0 .. RMax
              /\ d.LF \in 0 .. num_BTH
              /\ d.LF > 1 => d.PT \in Indices
              /\ d.LF = 1 => d.PT \in DOMAIN cache_L0T
              /\ \A e \in Cache!Entries : d.BTH[e].I \in Indices
    /\ DOMAIN cache_TLB = Range(cache_TLB_order)
    /\ DOMAIN cache_TLB \subseteq Cache!Blocks
    /\ \A b \in DOMAIN cache_TLB : cache_TLB[b] \in Indices
    /\ VBIR \in Cache!Slots
    /\ phase \in Phases
    /\ last_BTH \in Indices \cup {-1}
    /\ current_level \in 0 .. num_BTH + 1

\* Until every block has been used once the three programs keep an exact index
\* and an exact TLB, like the cache they stand for, whatever the order in which
\* each of them links, evicts and chooses, and none of them ends in an exception
\* (test.cpp:207-342, test.py:160-271, test_base.py:156-260).
ColdSound == Cache!ColdSound /\ (Cache!Cold => phase # "error")

\* test.py, which chooses before it evicts and invalidates every entry that
\* names the victim, keeps both exact for ever, with any number of attempts,
\* and its TLB agrees with the search (test.py:88-100, 182-245).
PySound ==
    script = Py =>
        /\ Cache!TLBCoherent
        /\ Cache!PointersSound
        /\ Cache!WalksExact
        /\ phase = "ready" => \A b \in DOMAIN cache_TLB :
              PyFound(PyPath(b), b) => PyPath(b)[num_BTH] = cache_TLB[b]
=============================================================================
