----------------------------- MODULE DbrcIndex -----------------------------
(* The index of the DBRC cache, dbrc_cache.cc: the first-level table         *)
(* cache_L0T, the block array cache_DBA whose blocks hold either data or a   *)
(* further table of pointers (BTH), the TLB that short-cuts the walk, and    *)
(* the second-chance hand VBIR.                                              *)
(*                                                                           *)
(* A block of memory is its block number (what the code calls TAG), a block  *)
(* of the cache its position in cache_DBA.  Block contents are not modelled  *)
(* here: the dirty bits and the writebacks are.                              *)
EXTENDS Integers, FiniteSets, Sequences, SequencesExt

CONSTANTS
    Fanout,     \* entries of a BTH table, blockSize / 2 in the code
    num_BTH,    \* levels of pointers above the data
    L0Size,     \* entries of cache_L0T
    capacity,   \* blocks of cache_DBA
    TLB_size,   \* the parameter of that name
    MNA,        \* Maximum Number of Attempts of the victim scan
    RMax,       \* ceiling of the reuse counter, 32 in the code
    PTSize,     \* values of tt.PT: 256, it is a uint8_t
    Stores      \* whether the requests are writes: a subset of BOOLEAN

ASSUME SizesAssumption ==
    /\ Fanout \in Nat \ {0}
    /\ num_BTH \in Nat \ {0}
    /\ L0Size \in Nat \ {0}
    /\ capacity \in Nat \ {0}
    /\ TLB_size \in Nat
    /\ MNA \in Nat \ {0}
    /\ RMax \in Nat \ {0}
    /\ PTSize \in Nat \ {0}
    /\ Stores \subseteq BOOLEAN
    \* Nothing but arithmetic, for provers that do not know powers.
    /\ \A k \in 0 .. num_BTH - 1 : Fanout ^ k \in Nat \ {0}

\* The same: what a power is.
ASSUME PowersAssumption ==
    /\ Fanout ^ 0 = 1
    /\ \A k \in 0 .. num_BTH - 1 : Fanout ^ (k + 1) = Fanout * Fanout ^ k

None    == -1
Slots   == 0 .. capacity - 1
Entries == 0 .. Fanout - 1
Levels  == 1 .. num_BTH
Blocks  == 0 .. L0Size * Fanout ^ (num_BTH - 1) - 1

BlockSize == 2 * Fanout

VARIABLES
    cache_L0T,        \* [V, I] of every first-level entry
    cache_DBA,        \* the blocks: DUT bits, tag, parent and table
    cache_TLB,        \* block number -> slot, for the blocks it holds
    cache_TLB_order,  \* the keys of cache_TLB, least recently used first
    VBIR,             \* the hand of the victim scan
    phase,            \* what the cache is doing, see Phases
    req,              \* the request that missed and waits for memory
    last_BTH,         \* insert: the last table installed or found
    current_level,    \* insert: the level installed next
    wb                \* address of the WritebackDirty the last step emitted

index == <<cache_L0T, cache_DBA, cache_TLB, cache_TLB_order, VBIR>>
vars  == <<index, phase, req, last_BTH, current_level, wb>>

\* "ready": the handlers may run.  "wait": a miss is outstanding.  "insert":
\* handleResponse is running.  The others are ends of the process: the two
\* assertions of insert and an access to cache_DBA[(uint32_t)-1].
Crashes == {"found", "in_TLB", "overrun"}
Phases  == {"ready", "wait", "insert"} \cup Crashes

Pointer  == [V : BOOLEAN, I : Slots]
Block    == [V : BOOLEAN, D : BOOLEAN, PV : BOOLEAN, LF : 0 .. num_BTH,
             R : 0 .. RMax, TAG : Blocks, PT : 0 .. PTSize - 1, BTH : [Entries -> Pointer]]
Requests == [block : Blocks, dirties : BOOLEAN]

NullPointer == [V |-> FALSE, I |-> 0]
EmptyTable  == [e \in Entries |-> NullPointer]
EmptyBlock  == [V |-> FALSE, D |-> FALSE, PV |-> FALSE, LF |-> 0, R |-> 0,
                TAG |-> 0, PT |-> 0, BTH |-> EmptyTable]
-----------------------------------------------------------------------------
(* The walk of CacheSearch.                                                  *)

\* block_addr / L0T_offset
L0TIndex(b) == b \div Fanout ^ (num_BTH - 1)

\* The entry of a level-(l-1) table that leads to b's level-l block.
TableIndex_SameAsL0T(b, l) == L0TIndex(b) % Fanout
TableIndex(b, l) == (b \div Fanout ^ (num_BTH - l)) % Fanout

Followed(e) == IF e.V THEN e.I ELSE None

\* The slot the search of b reaches at each level, None once an entry on the
\* way is not valid.  Of an entry only the V bit is looked at.
Path(l0t, tables, b) ==
    LET path[l \in Levels] ==
          IF l = 1 THEN Followed(l0t[L0TIndex(b)])
          ELSE IF path[l - 1] = None THEN None
          ELSE Followed(tables[path[l - 1]][TableIndex(b, l)])
    IN  path

Tables  == [s \in Slots |-> cache_DBA[s].BTH]
Walk(b) == Path(cache_L0T, Tables, b)

\* s is the index CacheSearch leaves behind: the last slot reached, if any.
EndsAt(path, s) ==
    \/ s = None /\ path[1] = None
    \/ \E l \in Levels : /\ s = path[l] /\ s # None
                         /\ l < num_BTH => path[l + 1] = None

Found(path, b) ==
    /\ path[num_BTH] \in Slots
    /\ LET d == cache_DBA[path[num_BTH]]
       IN  d.LF = num_BTH /\ d.V /\ d.TAG = b

Capped_Late(r) == IF r > RMax + 1 THEN RMax + 1 ELSE r
Capped(r) == IF r > RMax THEN RMax ELSE r

\* Every block reached through a BTH entry gains a reuse count.
Reuse(path, s) == Cardinality({l \in Levels \ {1} : path[l] = s})
Touched(path) ==
    [s \in Slots |->
        [cache_DBA[s] EXCEPT !.R = Capped(@ + Reuse(path, s))]]
-----------------------------------------------------------------------------
(* The TLB.                                                                  *)

Without(f, x) == Restrict(f, DOMAIN f \ {x})
Erased_NotFound(seq, x) == seq
Erased(seq, x) == RemoveAt(seq, CHOOSE k \in DOMAIN seq : seq[k] = x)

\* The oldest entry makes room only when the TLB already exceeds TLB_size.
TLBFull == Cardinality(DOMAIN cache_TLB) > TLB_size

TLBRecord(b, s) ==
    LET kept == IF TLBFull THEN Without(cache_TLB, Head(cache_TLB_order))
                ELSE cache_TLB
    IN  [t \in DOMAIN kept \cup {b} |-> IF t = b THEN s ELSE kept[t]]
TLBRecordOrder(b) ==
    Append(IF TLBFull THEN Tail(cache_TLB_order) ELSE cache_TLB_order, b)

\* A write that hits makes the block dirty.
Dirtied_Never(dba, s, store) == dba
Dirtied(dba, s, store) == [dba EXCEPT ![s].D = @ \/ store]
-----------------------------------------------------------------------------
(* accessFunctional: a hit in the TLB is taken on trust, a hit of the search *)
(* enters the TLB, a miss leaves only reuse counts behind.                   *)

HitTLB(b, store) ==
    /\ b \in DOMAIN cache_TLB
    /\ cache_TLB_order' = Append(Erased(cache_TLB_order, b), b)
    /\ cache_DBA' = Dirtied(cache_DBA, cache_TLB[b], store)
    /\ UNCHANGED <<cache_L0T, cache_TLB, VBIR>>

HitSearch(b, store) ==
    /\ b \notin DOMAIN cache_TLB
    /\ Found(Walk(b), b)
    /\ LET s == Walk(b)[num_BTH]
       IN  /\ cache_TLB' = TLBRecord(b, s)
           /\ cache_DBA' = Dirtied(Touched(Walk(b)), s, store)
    /\ cache_TLB_order' = TLBRecordOrder(b)
    /\ UNCHANGED <<cache_L0T, VBIR>>

Miss_EntersTLB(b) ==
    /\ b \notin DOMAIN cache_TLB
    /\ ~Found(Walk(b), b)
    /\ cache_DBA' = Touched(Walk(b))
    /\ cache_TLB' = TLBRecord(b, VBIR)
    /\ cache_TLB_order' = TLBRecordOrder(b)
    /\ UNCHANGED <<cache_L0T, VBIR>>
Miss(b) ==
    /\ b \notin DOMAIN cache_TLB
    /\ ~Found(Walk(b), b)
    /\ cache_DBA' = Touched(Walk(b))
    /\ UNCHANGED <<cache_L0T, cache_TLB, cache_TLB_order, VBIR>>

Hit(b, store) == HitTLB(b, store) \/ HitSearch(b, store)
-----------------------------------------------------------------------------
(* The victim scan of insert: from VBIR on, at most MNA blocks lose their    *)
(* reuse count; it ends early at a block that is free, orphaned or unused.   *)

Slot(k) == (VBIR + k) % capacity

Replaceable(s) ==
    LET b == cache_DBA[s] IN ~b.V \/ ~b.PV \/ b.R = 0

\* After a full turn the hand meets the block whose count it cleared first.
ScanEnds(n) ==
    /\ \A k \in 0 .. n - 1 : k < capacity /\ ~Replaceable(Slot(k))
    /\ \/ n = MNA
       \/ n = capacity
       \/ Replaceable(Slot(n))

Passed(n) == {Slot(k) : k \in 0 .. n - 1}
Scanned(n) ==
    [s \in Slots |-> IF s \in Passed(n) THEN [cache_DBA[s] EXCEPT !.R = 0]
                     ELSE cache_DBA[s]]

\* smallest_r_idx: the first block passed with the smallest count.
IsSmallest(s, n) ==
    \/ /\ n = 0
       /\ s = None
    \/ \E k \in 0 .. n - 1 :
          /\ s = Slot(k)
          /\ \A j \in 0 .. n - 1 :
                LET r == cache_DBA[s].R
                    q == cache_DBA[Slot(j)].R
                IN  r < q \/ (r = q /\ k <= j)
-----------------------------------------------------------------------------
(* The eviction of block v, on a block array dba.                            *)

IsData(dba, v)  == dba[v].LF = num_BTH
Evicted_Parented(dba, v) == dba[v].V /\ dba[v].LF > 0 /\ dba[v].PV
Evicted(dba, v) == dba[v].V /\ dba[v].LF > 0

\* The loop over the parent's table stops at the first entry whose I is v,
\* valid or not.
Naming(dba, v) == {e \in Entries : dba[dba[v].PT].BTH[e].I = v}

ParentEntries(dba, v) == Evicted(dba, v) /\ dba[v].PV /\ dba[v].LF > 1

L0TUnlinked_TablesOnly(dba, v) ==
    IF Evicted(dba, v) /\ ~IsData(dba, v) /\ dba[v].PV /\ dba[v].LF > 1
    THEN [cache_L0T EXCEPT ![dba[v].PT].V = FALSE]
    ELSE cache_L0T
L0TUnlinked(dba, v) ==
    IF Evicted(dba, v) /\ dba[v].PV /\ dba[v].LF = 1
    THEN [cache_L0T EXCEPT ![dba[v].PT].V = FALSE]
    ELSE cache_L0T

Unlinked(dba, v) ==
    IF ParentEntries(dba, v) /\ Naming(dba, v) # {}
    THEN [dba EXCEPT ![dba[v].PT].BTH[Min(Naming(dba, v))].V = FALSE]
    ELSE dba

Children(dba, v) == {dba[v].BTH[e].I : e \in {o \in Entries : dba[v].BTH[o].V}}

Vacated(dba, v) ==
    IF ~Evicted(dba, v) THEN dba
    ELSE IF IsData(dba, v) THEN [dba EXCEPT ![v].TAG = 0]
    ELSE [s \in Slots |-> IF s \in Children(dba, v)
                          THEN [dba[s] EXCEPT !.PV = FALSE] ELSE dba[s]]

\* The address of the writeback is read after TAG has been cleared.
WrittenBack(dba, v) ==
    IF Evicted(dba, v) /\ IsData(dba, v) /\ dba[v].D
    THEN Vacated(dba, v)[v].TAG
    ELSE None

TLBDrops_Parented(dba, v) ==
    /\ Evicted(dba, v) /\ IsData(dba, v) /\ dba[v].PV
    /\ dba[v].TAG \in DOMAIN cache_TLB
TLBDrops(dba, v) ==
    Evicted(dba, v) /\ IsData(dba, v) /\ dba[v].TAG \in DOMAIN cache_TLB

\* The loops over the parent's and the victim's tables share the scan's
\* counter i: its value when the scan's outcome is looked at.
Counter(n, dba, v) ==
    IF Evicted(dba, v) /\ ~IsData(dba, v) THEN Fanout
    ELSE IF ~ParentEntries(dba, v) THEN n
    ELSE IF Naming(dba, v) = {} THEN Fanout
    ELSE Min(Naming(dba, v))
-----------------------------------------------------------------------------
(* Installing block w at level l for memory block b.                         *)

Linked(dba, b, l, w) ==
    IF l = 1 THEN dba
    ELSE [dba EXCEPT ![last_BTH].BTH[TableIndex(b, l)] = [V |-> TRUE, I |-> w]]

L0TLinked(l0t, b, l, w) ==
    IF l = 1 THEN [l0t EXCEPT ![L0TIndex(b)] = [V |-> TRUE, I |-> w]] ELSE l0t

\* The dirty bit and the tag are those of the block's last occupant.
Installed_KeepsTable(dba, b, l, w) ==
    [dba EXCEPT ![w] = [@ EXCEPT !.V = TRUE, !.PV = TRUE, !.LF = l, !.R = 1,
                                 !.PT = (IF l = 1 THEN L0TIndex(b)
                                         ELSE last_BTH) % PTSize]]
Installed(dba, b, l, w) ==
    [dba EXCEPT ![w] = [@ EXCEPT !.V = TRUE, !.PV = TRUE, !.LF = l, !.R = 1,
                                 !.PT = (IF l = 1 THEN L0TIndex(b)
                                         ELSE last_BTH) % PTSize,
                                 !.BTH = EmptyTable]]
-----------------------------------------------------------------------------
Init ==
    /\ cache_L0T = [t \in 0 .. L0Size - 1 |-> NullPointer]
    /\ cache_DBA = [s \in Slots |-> EmptyBlock]
    /\ cache_TLB = << >>
    /\ cache_TLB_order = << >>
    /\ VBIR = 0
    /\ phase = "ready"
    /\ req = [block |-> 0, dirties |-> FALSE]
    /\ last_BTH = None
    /\ current_level = 0
    /\ wb = None

\* accessTiming, on a hit: the response leaves at once.
TimingHit(b, store) ==
    /\ phase = "ready"
    /\ Hit(b, store)
    /\ wb' = None
    /\ UNCHANGED <<phase, req, last_BTH, current_level>>

\* accessTiming, on a miss: a whole block is forwarded as it is, anything
\* smaller is upgraded to a read of the block and done once the block is there.
TimingMiss(b, dirties) ==
    /\ phase = "ready"
    /\ Miss(b)
    /\ phase' = "wait"
    /\ req' = [block |-> b, dirties |-> dirties]
    /\ wb' = None
    /\ UNCHANGED <<last_BTH, current_level>>

\* handleFunctional runs whatever is outstanding; a miss goes to memory.
Functional(b, store) ==
    /\ phase \in {"ready", "wait"}
    /\ Hit(b, store) \/ Miss(b)
    /\ wb' = None
    /\ UNCHANGED <<phase, req, last_BTH, current_level>>

\* handleResponse calls insert: its assertions, its search, and the level to
\* start from.  A search that fails at L0T met an entry that is not valid, so
\* the branch that clears PV there does nothing.
InsertBegin ==
    /\ phase = "wait"
    /\ cache_DBA' = Touched(Walk(req.block))
    /\ phase' = IF Found(Walk(req.block), req.block) THEN "found"
                ELSE IF req.block \in DOMAIN cache_TLB THEN "in_TLB"
                ELSE "insert"
    /\ \E s \in Slots \cup {None} :
          /\ EndsAt(Walk(req.block), s)
          /\ last_BTH' = s
          /\ current_level' = IF s = None THEN 1 ELSE cache_DBA[s].LF + 1
    /\ wb' = None
    /\ UNCHANGED <<cache_L0T, cache_TLB, cache_TLB_order, VBIR, req>>

\* One turn of insert's loop, with n attempts of the scan, that installs w:
\* the eviction of the block the scan stopped at, the link, the installation.
Turn(n, w) ==
    LET b == req.block
        v == Slot(n)
        scanned == Scanned(n)
        vacated == Vacated(Unlinked(scanned, v), v)
    IN
    /\ wb' = WrittenBack(scanned, v)
    /\ IF TLBDrops(scanned, v)
       THEN /\ cache_TLB' = Without(cache_TLB, scanned[v].TAG)
            /\ cache_TLB_order' = Erased(cache_TLB_order, scanned[v].TAG)
       ELSE UNCHANGED <<cache_TLB, cache_TLB_order>>
    /\ IF w = None
       THEN /\ phase' = "overrun"
            /\ cache_DBA' = vacated
            /\ cache_L0T' = L0TUnlinked(scanned, v)
            /\ UNCHANGED <<VBIR, last_BTH, current_level>>
       ELSE /\ cache_DBA' = Installed(Linked(vacated, b, current_level, w),
                                      b, current_level, w)
            /\ cache_L0T' = L0TLinked(L0TUnlinked(scanned, v),
                                      b, current_level, w)
            /\ VBIR' = (w + 1) % capacity
            /\ last_BTH' = w
            /\ current_level' = current_level + 1
            /\ UNCHANGED phase
    /\ UNCHANGED req

\* The block installed is the one the scan stopped at, or smallest_r_idx when
\* the counter equals MNA after the eviction.
InstallLevel ==
    /\ phase = "insert"
    /\ current_level <= num_BTH
    /\ \E n \in 0 .. MNA, w \in Slots \cup {None} :
         /\ ScanEnds(n)
         /\ IF Counter(n, Scanned(n), Slot(n)) = MNA THEN IsSmallest(w, n)
            ELSE w = Slot(n)
         /\ Turn(n, w)

\* The end of insert and of handleResponse: the tag, the TLB entry, and the
\* access of the packet that was upgraded, which finds the block in the TLB.
InsertEnd ==
    /\ phase = "insert"
    /\ current_level > num_BTH
    /\ cache_TLB' = TLBRecord(req.block, last_BTH)
    /\ cache_TLB_order' = TLBRecordOrder(req.block)
    /\ cache_DBA' = Dirtied([cache_DBA EXCEPT ![last_BTH].TAG = req.block],
                            last_BTH, req.dirties)
    /\ phase' = "ready"
    /\ wb' = None
    /\ UNCHANGED <<cache_L0T, VBIR, req, last_BTH, current_level>>

Access ==
    \E b \in Blocks, store \in Stores :
       \/ TimingHit(b, store)
       \/ \E upgraded \in BOOLEAN : TimingMiss(b, store /\ upgraded)

FunctionalAccess == \E b \in Blocks, store \in Stores : Functional(b, store)

Next == Access \/ FunctionalAccess \/ InsertBegin \/ InstallLevel \/ InsertEnd

\* A handler that has started runs to its end, and memory answers.
Fairness == WF_vars(InsertBegin) /\ WF_vars(InstallLevel) /\ WF_vars(InsertEnd)

Spec == Init /\ [][Next]_vars /\ Fairness
-----------------------------------------------------------------------------
(* Properties.                                                               *)

\* Every field keeps to its width and every index stays inside its array.
TypeOK ==
    /\ cache_L0T \in [0 .. L0Size - 1 -> Pointer]
    /\ cache_DBA \in [Slots -> Block]
    /\ DOMAIN cache_TLB \subseteq Blocks
    /\ cache_TLB \in [DOMAIN cache_TLB -> Slots]
    /\ cache_TLB_order \in Seq(Blocks)
    /\ VBIR \in Slots
    /\ phase \in Phases
    /\ req \in Requests
    /\ last_BTH \in Slots \cup {None}
    /\ current_level \in 0 .. num_BTH + 1
    /\ wb \in Int

\* The order vector lists every key of the TLB, and lists it once: the
\* assertions of accessFunctional and of insert that std::find succeeds, and
\* the entry erased to make room, depend on it (dbrc_cache.cc:411, 421, 560).
TLBOrdered ==
    /\ Range(cache_TLB_order) = DOMAIN cache_TLB
    /\ IsInjective(cache_TLB_order)

\* The TLB never holds more than TLB_size + 1 entries, whichever of its two
\* fills, after a search or after an insert, runs (dbrc_cache.cc:419, 647).
TLBBounded == Len(cache_TLB_order) <= TLB_size + 1

\* The two containers that make up the TLB stay in step and in bounds through
\* hits, fills and evictions, which update them by separate statements.
TLBInStep == TLBOrdered /\ TLBBounded

\* Whatever functional accesses do while memory answers, the missing block
\* stays out of the TLB and out of the search's reach, so that the assertions
\* at the head of insert hold (dbrc_cache.cc:473, 475).
MissStaysMiss ==
    /\ phase = "wait" => /\ req.block \notin DOMAIN cache_TLB
                         /\ ~Found(Walk(req.block), req.block)
    /\ phase \notin {"found", "in_TLB"}

\* A TLB hit is not checked against the block it names: every entry must name
\* a data block that holds the entry's own tag (dbrc_cache.cc:407-414).
Holds(s, b) ==
    cache_DBA[s].V /\ cache_DBA[s].LF = num_BTH /\ cache_DBA[s].TAG = b
TLBCoherent ==
    \A b \in DOMAIN cache_TLB : Holds(cache_TLB[b], b)

\* A valid entry of a level's table leads to a block in use at the next level
\* whose parent link leads back: what the walk, which checks neither, and the
\* eviction, which follows PT, take for granted (dbrc_cache.cc:364-382, 537-549).
Leads(e, l, parent) ==
    e.V => /\ cache_DBA[e.I].V
           /\ cache_DBA[e.I].LF = l
           /\ cache_DBA[e.I].PT = parent % PTSize
PointersSound ==
    /\ \A t \in DOMAIN cache_L0T : Leads(cache_L0T[t], 1, t)
    /\ \A s \in Slots : \A e \in Entries :
          Leads(cache_DBA[s].BTH[e], cache_DBA[s].LF + 1, s)

\* Between handlers a walk that goes all the way ends at the block searched.
WalksExact ==
    phase \in {"ready", "wait"} =>
        \A b \in Blocks : Walk(b)[num_BTH] # None => Found(Walk(b), b)

\* Between handlers the search finds every block that the TLB has, the one just
\* filled among them: the path to it has not been broken while it was made.
Reachable ==
    phase \in {"ready", "wait"} =>
        \A b \in DOMAIN cache_TLB : Found(Walk(b), b)

\* Until every block of the array has been used once, insert neither runs over
\* the array's end nor writes anything back, and every pointer leads to its
\* block and back (dbrc_cache.cc:596, 606-615).
Cold == \E s \in Slots : ~cache_DBA[s].V
FirstFill == Cold => PointersSound /\ phase # "overrun" /\ wb = None

\* ... and the TLB and the walks are exact and agree, for any fan-out, depth and
\* number of attempts: what goes wrong later (dbrc_cache.cc:563, 596, 608) takes
\* an array that is full.
ColdSound ==
    FirstFill /\ (Cold => TLBCoherent /\ WalksExact /\ Reachable)

\* A dirty block of data that insert installs another block over, orphaned or
\* not, is written back in that turn of the loop (dbrc_cache.cc:578-592, 595-597).
DirtyWrittenBack ==
    [][\A s \in Slots :
         /\ InstallLevel
         /\ last_BTH' = s
         /\ cache_DBA[s].D
         /\ Holds(s, cache_DBA[s].TAG)
         => wb' # None]_vars

\* Every writeback carries the address of a dirty block that was in the cache
\* (dbrc_cache.cc:581-591).
WritebackAddressed ==
    [][wb' # None =>
         \E s \in Slots : /\ cache_DBA[s].D
                          /\ Holds(s, wb' \div BlockSize)
                          /\ wb' % BlockSize = 0]_vars

\* The block just filled can be found again by a search, not only through the
\* TLB: the path leading to it is still there (dbrc_cache.cc:606-615).
FillReachable ==
    [][InsertEnd => Found(Walk(req.block), req.block)']_vars
=============================================================================
