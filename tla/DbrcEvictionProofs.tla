------------------------- MODULE DbrcEvictionProofs -------------------------
(* What TLAPS proves about the slots that insert takes.  While the array     *)
(* fills for the first time, for any number of attempts, they are free and   *)
(* nothing is evicted.  After that, as long as no turn has gone astray (see  *)
(* DbrcHistory), evictions keep the index and the TLB exact.                 *)
EXTENDS DbrcIndexProofs, DbrcHistory
-----------------------------------------------------------------------------
(* An array that has not been filled yet: the first turn of the hand takes   *)
(* the slots in order and evicts nothing.                                    *)

\* The slots in use are those the hand has passed.
HandSplits ==
    \A s \in Slots : /\ cache_DBA[s].V <=> s < VBIR
                     /\ ~cache_DBA[s].V => cache_DBA[s].LF = 0

\* The invariant.  ColdSound alone is not inductive: that the next slot is free,
\* so that nothing is evicted, depends on where the hand is; that a link leads
\* to the right block on whose table insert is about to link; and that nothing
\* is cut off on the entry it fills leading nowhere.
ColdInv ==
    Cold => /\ HandSplits
            /\ phase # "overrun"
            /\ wb = None
            /\ TLBExact
            /\ InsertFillsGap
            /\ \E owner : IndexOwned(owner) /\ AllLinked(owner)

LEMMA ColdInvSound ==
    ASSUME cache_L0T \in L0Table, cache_DBA \in Array, TLBTypeOK, ColdInv
    PROVE  ColdSound
<1>1. SUFFICES ASSUME Cold
               PROVE  /\ PointersSound /\ phase # "overrun" /\ wb = None
                      /\ TLBCoherent /\ WalksExact /\ Reachable
  BY DEF ColdSound, FirstFill
<1>2. PICK owner : IndexOwned(owner) /\ AllLinked(owner)
  BY <1>1 DEF ColdInv
<1>3. phase # "overrun" /\ wb = None /\ TLBCoherent
  BY <1>1 DEF ColdInv, TLBExact
<1> QED BY <1>2, <1>3, OwnedPointersSound, OwnedWalksExact, LinkedReachable

LEMMA ColdInvInit == Init => ColdInv
<1> SUFFICES ASSUME Init PROVE ColdInv
  OBVIOUS
<1>1. /\ \A s \in Slots : cache_DBA[s] = EmptyBlock
      /\ \A t \in DOMAIN cache_L0T : cache_L0T[t] = NullPointer
      /\ VBIR = 0 /\ phase = "ready" /\ wb = None /\ cache_TLB = << >>
  BY DEF Init
<1>2. HandSplits
  BY <1>1, Numbers DEF HandSplits, EmptyBlock, Slots
<1>3. TLBExact /\ InsertFillsGap
  <2>1. DOMAIN cache_TLB = {}
    BY <1>1
  <2> QED BY <1>1, <2>1 DEF TLBExact, TLBCoherent, FillingNotInTLB, InsertFillsGap
<1>4. PICK owner : Owned(cache_L0T, cache_DBA, owner, {})
  BY <1>1, OwnedInit
<1>5. IndexOwned(owner)
  BY <1>1, <1>4 DEF IndexOwned, Filling
<1>6. AllLinked(owner)
  BY <1>1 DEF AllLinked, EmptyBlock
<1> QED BY <1>1, <1>2, <1>3, <1>5, <1>6 DEF ColdInv

\* Handlers that access the array, and the two ends of insert.
LEMMA ShapeKeeps ==
    ASSUME \A s \in Slots : /\ cache_DBA'[s].BTH = cache_DBA[s].BTH
                            /\ cache_DBA'[s].V = cache_DBA[s].V
                            /\ cache_DBA'[s].LF = cache_DBA[s].LF,
           UNCHANGED <<cache_L0T, VBIR>>
    PROVE  /\ Cold' <=> Cold
           /\ HandSplits => HandSplits'
           /\ \A owner : AllLinked(owner) => AllLinked(owner)'
<1>1. (Cold' <=> Cold) /\ (HandSplits => HandSplits')
  BY DEF Cold, HandSplits
<1>2. ASSUME NEW owner, AllLinked(owner) PROVE AllLinked(owner)'
  BY <1>2 DEF AllLinked, Points
<1> QED BY <1>1, <1>2

LEMMA AccessKeepsCold ==
    ASSUME IndexInv, ColdInv, NEW b \in Blocks, NEW store \in BOOLEAN,
           Hit(b, store) \/ Miss(b), phase \in {"ready", "wait"},
           phase' \in {"ready", "wait"}, wb' = None
    PROVE  ColdInv'
<1>1. RestTypeOK /\ TLBInv
  BY IndexInvParts
<1>2. SameBlocks(cache_DBA, cache_DBA') /\ UNCHANGED <<cache_L0T, VBIR>>
  BY <1>1, AccessBlocks
<1>3. /\ Cold' <=> Cold
      /\ HandSplits => HandSplits'
      /\ \A owner : AllLinked(owner) => AllLinked(owner)'
  BY <1>2, ShapeKeeps DEF SameBlocks
<1>4. ASSUME Cold
      PROVE  /\ TLBExact' /\ InsertFillsGap'
             /\ \E owner : IndexOwned(owner)' /\ AllLinked(owner)'
  <2>1. PICK owner : IndexOwned(owner) /\ AllLinked(owner)
    BY <1>4 DEF ColdInv
  <2>2. IndexOwned(owner)' /\ InsertFillsGap' /\ TLBExact'
    BY <1>4, <2>1, AccessOwned DEF ColdInv
  <2> QED BY <1>3, <2>1, <2>2
<1> QED BY <1>3, <1>4 DEF ColdInv

LEMMA BeginKeepsCold ==
    ASSUME IndexInv, MissStaysMiss, ColdInv, InsertBegin
    PROVE  ColdInv'
<1>1. RestTypeOK
  BY IndexInvParts
<1>2. /\ cache_DBA' = Touched(Walk(req.block))
      /\ UNCHANGED <<cache_L0T, VBIR>>
      /\ wb' = None /\ phase' # "overrun"
  BY DEF InsertBegin
<1>3. SameBlocks(cache_DBA, cache_DBA')
  BY <1>1, <1>2, TouchedBlocks DEF RestTypeOK
<1>4. /\ Cold' <=> Cold
      /\ HandSplits => HandSplits'
      /\ \A owner : AllLinked(owner) => AllLinked(owner)'
  BY <1>2, <1>3, ShapeKeeps DEF SameBlocks
<1>5. ASSUME Cold
      PROVE  /\ TLBExact' /\ InsertFillsGap'
             /\ \E owner : IndexOwned(owner)' /\ AllLinked(owner)'
  <2>1. PICK owner : IndexOwned(owner) /\ AllLinked(owner)
    BY <1>5 DEF ColdInv
  <2>2. IndexOwned(owner)' /\ InsertFillsGap' /\ TLBExact'
    BY <1>5, <2>1, BeginOwned DEF ColdInv
  <2> QED BY <1>4, <2>1, <2>2
<1> QED BY <1>2, <1>4, <1>5 DEF ColdInv

LEMMA EndKeepsCold ==
    ASSUME IndexInv, ColdInv, InsertEnd
    PROVE  ColdInv'
<1>1. /\ phase' = "ready" /\ wb' = None
      /\ UNCHANGED <<cache_L0T, VBIR>>
  BY DEF InsertEnd
<1>2. /\ Cold' <=> Cold
      /\ HandSplits => HandSplits'
      /\ \A owner : AllLinked(owner) => AllLinked(owner)'
  BY <1>1, EndFields, ShapeKeeps
<1>3. ASSUME Cold
      PROVE  /\ TLBExact' /\ InsertFillsGap'
             /\ \E owner : IndexOwned(owner)' /\ AllLinked(owner)'
  <2>1. PICK owner : IndexOwned(owner) /\ AllLinked(owner)
    BY <1>3 DEF ColdInv
  <2>2. IndexOwned(owner)' /\ InsertFillsGap' /\ TLBExact'
    BY <1>3, <2>1, EndOwned DEF ColdInv
  <2> QED BY <1>2, <2>1, <2>2
<1> QED BY <1>1, <1>2, <1>3 DEF ColdInv
-----------------------------------------------------------------------------
(* A turn of insert's loop changes the place of the slot it installs only ...  *)

\* What says whether a slot is used, at which level and by whom.
SamePlaces(dba) ==
    \A s \in Slots : /\ dba[s].V = cache_DBA[s].V
                     /\ dba[s].LF = cache_DBA[s].LF
                     /\ dba[s].PT = cache_DBA[s].PT

\* Slot w is taken for the block and level of insert, and no other.
TakesPlace(w) ==
    \A s \in Slots :
       LET new == cache_DBA'[s]
       IN  IF s = w
           THEN /\ new.V /\ new.LF = current_level
                /\ new.PT = (IF current_level = 1 THEN L0TIndex(req.block)
                             ELSE last_BTH) % PTSize
           ELSE /\ new.V = cache_DBA[s].V /\ new.LF = cache_DBA[s].LF
                /\ new.PT = cache_DBA[s].PT

LEMMA TurnPlaces ==
    ASSUME RestTypeOK, NEW n \in 0 .. MNA, NEW w \in Slots \cup {None}, Turn(n, w)
    PROVE  TakesPlace(w)
<1> DEFINE v == Slot(n)
           unlinked == Unlinked(Scanned(n), v)
           vacated == Vacated(unlinked, v)
           linked == Linked(vacated, req.block, current_level, w)
           pt == (IF current_level = 1 THEN L0TIndex(req.block) ELSE last_BTH) % PTSize
<1>1. \/ w = None /\ cache_DBA' = vacated
      \/ w \in Slots /\ cache_DBA' = Installed(linked, req.block, current_level, w)
  BY DEF Turn
<1>2. v \in Slots
  BY Numbers DEF Slot, Slots, RestTypeOK
<1> HIDE DEF v
<1>3. Scanned(n) \in Array /\ unlinked \in Array /\ vacated \in Array
  BY <1>2, ScannedType, UnlinkedType, VacatedType DEF RestTypeOK
<1>4. SamePlaces(Scanned(n))
  <2>1. ASSUME NEW s \in Slots, NEW d, d = [cache_DBA[s] EXCEPT !.R = 0]
        PROVE  /\ d.V = cache_DBA[s].V /\ d.LF = cache_DBA[s].LF
               /\ d.PT = cache_DBA[s].PT
    <3>1. cache_DBA[s] \in Block
      BY DEF RestTypeOK, Array
    <3> QED BY <2>1, <3>1 DEF Block
  <2> QED BY <2>1 DEF SamePlaces, Scanned
<1>5. SamePlaces(unlinked)
  <2> DEFINE sc == Scanned(n)
             p == sc[v].PT
             i == Min(Naming(sc, v))
  <2>0. sc \in Array /\ SamePlaces(sc)
    BY <1>3, <1>4
  <2>1. unlinked = sc \/ unlinked = [sc EXCEPT ![p].BTH[i].V = FALSE]
    BY DEF Unlinked
  <2> HIDE DEF sc, p, i, unlinked
  <2>2. ASSUME NEW s \in Slots
        PROVE  /\ unlinked[s].V = sc[s].V /\ unlinked[s].LF = sc[s].LF
               /\ unlinked[s].PT = sc[s].PT
    <3>1. sc[s] \in Block
      BY <2>0 DEF Array
    <3> QED BY <2>0, <2>1, <3>1 DEF Array, Block
  <2> QED BY <2>0, <2>2 DEF SamePlaces
<1> HIDE DEF unlinked
<1>6. SamePlaces(vacated)
  <2>1. ASSUME NEW s \in Slots
        PROVE  /\ vacated[s].V = unlinked[s].V /\ vacated[s].LF = unlinked[s].LF
               /\ vacated[s].PT = unlinked[s].PT
    <3>1. unlinked[s] \in Block
      BY <1>3 DEF Array
    <3>2. \A d : d = [unlinked[s] EXCEPT !.PV = FALSE]
                 \/ d = [unlinked[s] EXCEPT !.TAG = 0]
                 => /\ d.V = unlinked[s].V /\ d.LF = unlinked[s].LF
                    /\ d.PT = unlinked[s].PT
      BY <3>1 DEF Block
    <3>3. \/ vacated[s] = unlinked[s]
          \/ vacated[s] = [unlinked[s] EXCEPT !.PV = FALSE]
          \/ vacated[s] = [unlinked[s] EXCEPT !.TAG = 0]
      BY <1>3 DEF Vacated, Array
    <3> QED BY <3>2, <3>3
  <2> QED BY <1>5, <2>1 DEF SamePlaces
<1> HIDE DEF vacated
<1>7. ASSUME w \in Slots PROVE SamePlaces(linked)
  <2> DEFINE i == TableIndex(req.block, current_level)
             ptr == [V |-> TRUE, I |-> w]
  <2>1. linked = vacated \/ linked = [vacated EXCEPT ![last_BTH].BTH[i] = ptr]
    BY DEF Linked
  <2> HIDE DEF i, ptr, linked
  <2>2. ASSUME NEW s \in Slots
        PROVE  /\ linked[s].V = vacated[s].V /\ linked[s].LF = vacated[s].LF
               /\ linked[s].PT = vacated[s].PT
    <3> DEFINE table == [vacated[s].BTH EXCEPT ![i] = ptr]
    <3>1. linked[s] = vacated[s] \/ linked[s] = [vacated[s] EXCEPT !.BTH = table]
      BY <1>3, <2>1 DEF Array
    <3> HIDE DEF table
    <3>2. vacated[s] \in Block
      BY <1>3 DEF Array
    <3> QED BY <3>1, <3>2 DEF Block
  <2> QED BY <1>6, <2>2 DEF SamePlaces
<1>8. ASSUME w \in Slots, NEW s \in Slots,
             cache_DBA' = Installed(linked, req.block, current_level, w)
      PROVE  LET new == cache_DBA'[s]
             IN  IF s = w THEN new.V /\ new.LF = current_level /\ new.PT = pt
                 ELSE new = linked[s]
  <2> DEFINE old == linked[w]
             top == [old EXCEPT !.V = TRUE, !.PV = TRUE, !.LF = current_level,
                                !.R = 1, !.PT = pt, !.BTH = EmptyTable]
  <2>1. linked \in Array
    BY <1>3, <1>8, LinkedType
  <2>2. cache_DBA' = [linked EXCEPT ![w] = top]
    BY <1>8 DEF Installed
  <2> HIDE DEF pt, linked
  <2>3. top.V = TRUE /\ top.LF = current_level /\ top.PT = pt
    <3>1. old \in Block
      BY <1>8, <2>1 DEF Array
    <3> HIDE DEF old
    <3> QED BY <3>1 DEF Block
  <2> HIDE DEF top
  <2> QED BY <1>8, <2>1, <2>2, <2>3 DEF Array
<1> HIDE DEF linked
<1> SUFFICES ASSUME NEW s \in Slots
             PROVE  LET new == cache_DBA'[s]
                    IN  IF s = w THEN new.V /\ new.LF = current_level /\ new.PT = pt
                        ELSE /\ new.V = cache_DBA[s].V /\ new.LF = cache_DBA[s].LF
                             /\ new.PT = cache_DBA[s].PT
  BY DEF TakesPlace
<1> HIDE DEF pt
<1>9. None \notin Slots
  BY Numbers
<1> QED BY <1>1, <1>6, <1>7, <1>8, <1>9 DEF SamePlaces

\* ... and as long as a slot is free, it takes the one under the hand and evicts
\* nothing.
TakesFree(w) ==
    /\ w = VBIR /\ w \in Slots /\ ~cache_DBA[w].V
    /\ cache_DBA' = Installed(Linked(cache_DBA, req.block, current_level, w),
                              req.block, current_level, w)
    /\ cache_L0T' = L0TLinked(cache_L0T, req.block, current_level, w)
    /\ VBIR' = (w + 1) % capacity
    /\ last_BTH' = w
    /\ current_level' = current_level + 1
    /\ UNCHANGED <<phase, req, cache_TLB>>

LEMMA ColdTurn ==
    ASSUME IndexInv, ColdInv, Cold, InstallLevel
    PROVE  wb' = None /\ TakesFree(VBIR)
<1>1. RestTypeOK /\ HandSplits
  BY IndexInvParts DEF ColdInv
<1>2. VBIR \in Slots /\ ~cache_DBA[VBIR].V /\ cache_DBA \in Array
  BY <1>1, Numbers DEF RestTypeOK, HandSplits, Slots
<1>3. Slot(0) = VBIR
  BY <1>2, Numbers DEF Slot, Slots
<1>4. PICK n \in 0 .. MNA, w \in Slots \cup {None} :
         /\ ScanEnds(n)
         /\ IF Counter(n, Scanned(n), Slot(n)) = MNA THEN IsSmallest(w, n)
            ELSE w = Slot(n)
         /\ Turn(n, w)
  BY DEF InstallLevel
<1>5. n = 0
  <2>1. Replaceable(Slot(0))
    BY <1>2, <1>3 DEF Replaceable
  <2> SUFFICES ASSUME n # 0 PROVE FALSE
    OBVIOUS
  <2>2. 0 \in 0 .. n - 1
    BY Numbers
  <2> QED BY <1>4, <2>1, <2>2 DEF ScanEnds
<1>6. Scanned(0) = cache_DBA
  <2>1. Passed(0) = {}
    BY DEF Passed
  <2> QED BY <1>2, <2>1 DEF Scanned, Array
<1>7. ~Evicted(cache_DBA, VBIR)
  BY <1>2 DEF Evicted
<1>8. /\ Unlinked(cache_DBA, VBIR) = cache_DBA
      /\ Vacated(cache_DBA, VBIR) = cache_DBA
      /\ L0TUnlinked(cache_DBA, VBIR) = cache_L0T
      /\ WrittenBack(cache_DBA, VBIR) = None
      /\ Counter(0, cache_DBA, VBIR) = 0
      /\ ~TLBDrops(cache_DBA, VBIR)
  BY <1>7 DEF Unlinked, ParentEntries, Vacated, L0TUnlinked, WrittenBack, Counter, TLBDrops
<1>9. w = VBIR /\ Turn(0, VBIR)
  <2>1. MNA # 0
    BY SizesAssumption
  <2> QED BY <1>3, <1>4, <1>5, <1>6, <1>8, <2>1
<1>10. VBIR # None
  BY <1>2, Numbers
<1> QED BY <1>2, <1>3, <1>6, <1>8, <1>9, <1>10 DEF Turn, TakesFree


\* Such a turn links the slot on the path of the block and breaks no other path.
LEMMA FreeTurn ==
    ASSUME cache_L0T \in L0Table, cache_DBA \in Array, cache_L0T' \in L0Table,
           cache_DBA' \in Array, req.block \in Blocks, TLBTypeOK,
           phase = "insert", current_level \in Levels,
           NEW owner, IndexOwned(owner), AllLinked(owner),
           TLBExact, InsertFillsGap, HandSplits,
           NEW w, TakesFree(w), NEW own, own = [owner EXCEPT ![w] = req.block]
    PROVE  /\ Installs(cache_L0T, cache_DBA, cache_L0T', cache_DBA',
                       req.block, current_level, w, last_BTH)
           /\ IndexOwned(own)' /\ AllLinked(own)'
           /\ TLBExact' /\ InsertFillsGap'
           /\ Cold' => HandSplits'
<1> DEFINE b == req.block
           l == current_level
           new == cache_DBA'
<1>1. w \in Slots /\ ~cache_DBA[w].V /\ w = VBIR /\ VBIR' = (w + 1) % capacity
  BY DEF TakesFree
<1>2. new = Installed(Linked(cache_DBA, b, l, w), b, l, w)
  BY DEF TakesFree
<1>3. UNCHANGED <<phase, req, cache_TLB>> /\ last_BTH' = w /\ current_level' = l + 1
  BY DEF TakesFree
<1>4. /\ cache_L0T' = L0TLinked(cache_L0T, b, l, w)
      /\ own = [owner EXCEPT ![w] = b]
  BY DEF TakesFree
<1>5. /\ l \in Levels /\ b \in Blocks
      /\ cache_DBA \in Array /\ cache_L0T \in L0Table
      /\ l = 1 \/ l > 1
  BY Numbers DEF Levels
<1>6. /\ Owned(cache_L0T, cache_DBA, owner, {})
      /\ OnPath(cache_DBA, owner, b, l, last_BTH)
  <2>1. Filling = {}
    BY <1>5, Numbers DEF Filling, Levels
  <2> QED BY <2>1 DEF IndexOwned
<1>7. /\ owner \in [Slots -> Blocks] /\ RootsOwned(cache_L0T, cache_DBA, owner)
      /\ TablesOwned(cache_DBA, owner)
  BY <1>6 DEF Owned
<1>8. TableIndex(b, l) \in Entries /\ L0TIndex(b) \in 0 .. L0Size - 1
  BY <1>5, IndexTypes
<1>9. /\ \A s \in Slots \ {w} :
            /\ new[s].V = cache_DBA[s].V /\ new[s].PV = cache_DBA[s].PV
            /\ new[s].LF = cache_DBA[s].LF /\ new[s].PT = cache_DBA[s].PT
            /\ new[s].TAG = cache_DBA[s].TAG /\ new[s].R = cache_DBA[s].R
            /\ \A e \in Entries :
                  new[s].BTH[e] = IF l # 1 /\ s = last_BTH /\ e = TableIndex(b, l)
                                  THEN [V |-> TRUE, I |-> w] ELSE cache_DBA[s].BTH[e]
      /\ new[w].V /\ new[w].PV /\ new[w].LF = l /\ new[w].R = 1
      /\ new[w].PT = (IF l = 1 THEN L0TIndex(b) ELSE last_BTH) % PTSize
      /\ new[w].BTH = EmptyTable
  <2>1. l = 1 \/ last_BTH \in Slots
    BY <1>5, <1>6 DEF OnPath
  <2> HIDE DEF b, l, new
  <2> QED BY <1>1, <1>2, <1>5, <1>8, <2>1, InstalledFields
<1>10. \A t \in 0 .. L0Size - 1 :
          cache_L0T'[t] = IF l = 1 /\ t = L0TIndex(b) THEN [V |-> TRUE, I |-> w]
                          ELSE cache_L0T[t]
  BY <1>4, <1>5 DEF L0TLinked, L0Table
<1> HIDE DEF b, l, new
\* Nothing led to the free slot, nor from it.
<1>11. /\ \A s \in Slots, e \in Entries : ~Points(cache_DBA, s, e, w)
       /\ \A e \in Entries, i \in Slots : ~Points(cache_DBA, w, e, i)
       /\ \A t \in 0 .. L0Size - 1 : cache_L0T[t].V => cache_L0T[t].I # w
  BY <1>1, <1>5, <1>7 DEF TablesOwned, RootsOwned, L0Table
<1>12. Installs(cache_L0T, cache_DBA, cache_L0T', new, b, l, w, last_BTH)
  <2>1. ASSUME NEW s \in Slots \ {w}, NEW e \in Entries, NEW i \in Slots,
               Points(new, s, e, i)
        PROVE  \/ Points(cache_DBA, s, e, i) /\ i # w
               \/ i = w /\ l > 1 /\ s = last_BTH /\ e = TableIndex(b, l)
    BY <1>5, <1>9, <1>11, <2>1 DEF Points
  <2>2. \A t \in 0 .. L0Size - 1 : cache_L0T'[t].V =>
           \/ cache_L0T[t].V /\ cache_L0T'[t].I = cache_L0T[t].I /\ cache_L0T[t].I # w
           \/ l = 1 /\ t = L0TIndex(b) /\ cache_L0T'[t].I = w
    BY <1>10, <1>11
  <2> QED BY <1>9, <2>1, <2>2 DEF Installs
<1>13. IndexOwned(own)' /\ InsertFillsGap' /\ TLBExact'
  <2>1. \A t \in DOMAIN cache_TLB : cache_TLB[t] # w
    BY <1>1 DEF TLBExact, TLBCoherent, Holds
  <2> QED BY <1>1, <1>3, <1>5, <1>12, <2>1, TurnOwned DEF b, l, new
<1>14. AllLinked(own)'
  <2> SUFFICES ASSUME NEW s \in Slots, new[s].V
               PROVE  /\ new[s].LF \in Levels
                      /\ IF new[s].LF = 1
                         THEN cache_L0T'[Prefix(own[s], 1)] = [V |-> TRUE, I |-> s]
                         ELSE \E p \in Slots :
                                 Points(new, p, TableIndex(own[s], new[s].LF), s)
    BY DEF AllLinked, new
  <2>0. own[s] = IF s = w THEN b ELSE owner[s]
    BY <1>4, <1>7
  <2>1. CASE s = w /\ l = 1
    <3>1. Prefix(b, 1) = L0TIndex(b)
      BY <1>5, PrefixFacts
    <3>2. cache_L0T'[Prefix(own[s], 1)] = [V |-> TRUE, I |-> s]
      BY <1>8, <1>10, <2>0, <2>1, <3>1
    <3> QED BY <1>5, <1>9, <2>1, <3>2
  <2>2. CASE s = w /\ l # 1
    <3>1. last_BTH \in Slots /\ last_BTH # w
      BY <1>1, <1>5, <1>6, <2>2 DEF OnPath
    <3>2. Points(new, last_BTH, TableIndex(b, l), w)
      BY <1>8, <1>9, <2>2, <3>1 DEF Points
    <3> QED BY <1>5, <1>9, <2>0, <2>2, <3>1, <3>2
  <2>3. CASE s # w
    <3>1. /\ cache_DBA[s].V /\ new[s].LF = cache_DBA[s].LF /\ own[s] = owner[s]
          /\ new[s].LF \in Levels /\ owner[s] \in Blocks
      BY <1>7, <1>9, <2>0, <2>3 DEF AllLinked, new
    <3>2. CASE new[s].LF = 1
      <4> DEFINE t == Prefix(owner[s], 1)
      <4>1. cache_L0T[t] = [V |-> TRUE, I |-> s]
        BY <3>1, <3>2 DEF AllLinked
      <4>2. t \in 0 .. L0Size - 1
        BY <3>1, PrefixFacts, IndexTypes
      <4>3. ~(l = 1 /\ t = L0TIndex(b))
        BY <1>5, <4>1 DEF InsertFillsGap, EntryFree, b, l
      <4> QED BY <1>10, <3>1, <3>2, <4>1, <4>2, <4>3
    <3>3. CASE new[s].LF # 1
      <4> DEFINE x == TableIndex(owner[s], new[s].LF)
      <4>1. PICK p \in Slots : Points(cache_DBA, p, x, s)
        BY <3>1, <3>3 DEF AllLinked
      <4>2. x \in Entries
        BY <3>1, IndexTypes
      <4> HIDE DEF x
      <4>3. p # w
        BY <1>11, <4>1, <4>2
      <4>4. ~(l # 1 /\ p = last_BTH /\ x = TableIndex(b, l))
        BY <1>5, <4>1 DEF InsertFillsGap, EntryFree, Points, b, l
      <4>5. Points(new, p, x, s)
        BY <1>9, <4>1, <4>2, <4>3, <4>4 DEF Points
      <4> QED BY <3>1, <3>3, <4>5 DEF x
    <3> QED BY <3>1, <3>2, <3>3
  <2> QED BY <2>1, <2>2, <2>3
<1>15. ASSUME Cold' PROVE HandSplits'
  <2>1. VBIR' = VBIR + 1
    <3>1. PICK s \in Slots : ~new[s].V
      BY <1>15 DEF Cold, new
    <3>2. s # w /\ ~(s < VBIR)
      BY <1>9, <3>1 DEF HandSplits
    <3> QED BY <1>1, <3>1, <3>2, Numbers DEF Slots
  <2>2. ASSUME NEW s \in Slots
        PROVE  (new[s].V <=> s < VBIR') /\ (~new[s].V => new[s].LF = 0)
    <3>1. CASE s = w
      BY <1>1, <1>9, <2>1, <3>1, Numbers DEF Slots
    <3>2. CASE s # w
      BY <1>1, <1>9, <2>1, <3>2, Numbers DEF HandSplits, Slots
    <3> QED BY <3>1, <3>2
  <2> QED BY <2>2 DEF HandSplits, new
<1> QED BY <1>12, <1>13, <1>14, <1>15 DEF b, l, new

LEMMA InstallKeepsCold ==
    ASSUME IndexInv, ColdInv, InstallLevel
    PROVE  ColdInv'
<1> SUFFICES ASSUME Cold'
             PROVE  /\ HandSplits'
                    /\ (phase # "overrun")'
                    /\ (wb = None)'
                    /\ TLBExact' /\ InsertFillsGap'
                    /\ \E owner : IndexOwned(owner)' /\ AllLinked(owner)'
  BY DEF ColdInv
<1>0. PICK w : w = VBIR
  OBVIOUS
<1>1. RestTypeOK /\ TLBInv
  BY IndexInvParts
<1>2. Cold
  <2>1. PICK n \in 0 .. MNA, v \in Slots \cup {None} : Turn(n, v)
    BY DEF InstallLevel
  <2>2. \A s \in Slots : cache_DBA[s].V => cache_DBA'[s].V
    BY <1>1, <2>1, TurnPlaces DEF TakesPlace
  <2> QED BY <2>2 DEF Cold
<1>3. /\ HandSplits /\ TLBExact /\ InsertFillsGap /\ phase = "insert"
      /\ current_level \in Levels /\ req.block \in Blocks
      /\ cache_L0T \in L0Table /\ cache_DBA \in Array
      /\ TLBTypeOK
  <2>1. InsertState
    BY IndexInvParts
  <2> QED BY <1>1, <1>2, <2>1, Numbers DEF ColdInv, InstallLevel, RestTypeOK, InsertState,
                                           Levels, L0Table, Requests, TLBInv
<1>4. PICK owner : IndexOwned(owner) /\ AllLinked(owner)
  BY <1>2 DEF ColdInv
<1>5. cache_L0T' \in L0Table /\ cache_DBA' \in Array
  BY IndexInvPartsNext, InstallLevelKeeps DEF RestTypeOK, L0Table
<1>6. TakesFree(w) /\ wb' = None
  BY <1>0, <1>2, ColdTurn
<1>7. PICK own : own = [owner EXCEPT ![w] = req.block]
  OBVIOUS
<1>8. /\ IndexOwned(own)' /\ AllLinked(own)'
      /\ TLBExact' /\ InsertFillsGap' /\ HandSplits'
  BY <1>0, <1>3, <1>4, <1>5, <1>6, <1>7, FreeTurn
<1> QED BY <1>3, <1>6, <1>8 DEF TakesFree
-----------------------------------------------------------------------------
LEMMA ColdInvNext == IndexInv /\ MissStaysMiss /\ ColdInv /\ [Next]_vars => ColdInv'
<1> SUFFICES ASSUME IndexInv, MissStaysMiss, ColdInv, [Next]_vars PROVE ColdInv'
  OBVIOUS
<1>1. CASE Access
  <2>1. PICK b \in Blocks, store \in Stores :
           \/ TimingHit(b, store)
           \/ \E upgraded \in BOOLEAN : TimingMiss(b, store /\ upgraded)
    BY <1>1 DEF Access
  <2>2. store \in BOOLEAN
    BY SizesAssumption
  <2>3. Hit(b, store) \/ Miss(b)
    BY <2>1 DEF TimingHit, TimingMiss
  <2>4. /\ phase \in {"ready", "wait"}
        /\ phase' \in {"ready", "wait"} /\ wb' = None
    BY <2>1 DEF TimingHit, TimingMiss
  <2> QED BY <2>2, <2>3, <2>4, AccessKeepsCold
<1>2. CASE FunctionalAccess
  <2>1. PICK b \in Blocks, store \in Stores : Functional(b, store)
    BY <1>2 DEF FunctionalAccess
  <2>2. /\ store \in BOOLEAN
        /\ Hit(b, store) \/ Miss(b)
        /\ phase \in {"ready", "wait"}
        /\ phase' \in {"ready", "wait"} /\ wb' = None
    BY <2>1, SizesAssumption DEF Functional
  <2> QED BY <2>2, AccessKeepsCold
<1>3. CASE InsertBegin
  BY <1>3, BeginKeepsCold
<1>4. CASE InstallLevel
  BY <1>4, InstallKeepsCold
<1>5. CASE InsertEnd
  BY <1>5, EndKeepsCold
<1>6. CASE UNCHANGED vars
  <2>1. UNCHANGED <<cache_L0T, cache_DBA, cache_TLB, VBIR, phase, req, last_BTH,
                    current_level, wb>>
    BY <1>6 DEF vars, index
  <2>2. /\ Cold' <=> Cold
        /\ HandSplits => HandSplits'
        /\ \A owner : AllLinked(owner) => AllLinked(owner)'
    BY <2>1, ShapeKeeps
  <2>3. /\ TLBExact => TLBExact'
        /\ InsertFillsGap => InsertFillsGap'
        /\ \A owner : IndexOwned(owner) => IndexOwned(owner)'
    BY <2>1 DEF TLBExact, TLBCoherent, Holds, FillingNotInTLB, Filling,
                InsertFillsGap, IndexOwned
  <2> QED BY <2>1, <2>2, <2>3 DEF ColdInv
<1> QED BY <1>1, <1>2, <1>3, <1>4, <1>5, <1>6 DEF Next

LEMMA ColdInvAlways == Spec => []ColdSound
<1>1. IndexInv /\ ColdInv => ColdSound
  <2> SUFFICES ASSUME IndexInv, ColdInv PROVE ColdSound
    OBVIOUS
  <2>1. RestTypeOK /\ TLBInv
    BY IndexInvParts
  <2> QED BY <2>1, ColdInvSound DEF RestTypeOK, L0Table, TLBInv
<1> QED BY <1>1, ColdInvInit, ColdInvNext, IndexInvAlways, InsertAssertionsHold,
           PTL DEF Spec

\* For every size of the cache and number of attempts and however narrow PT is,
\* until every block of the array has been used once, insert neither runs over
\* the array's end nor writes anything back, and every pointer leads to a block
\* of its level whose parent field leads back (dbrc_cache.cc:494-615).
THEOREM FirstFillIsSafe == Spec => []FirstFill
<1>1. ColdSound => FirstFill
  BY DEF ColdSound
<1> QED BY <1>1, ColdInvAlways, PTL

\* ... and until then the TLB names the right block for every entry, a search
\* that goes all the way finds its own block, and every block in the TLB is one
\* the search finds, however deep the index (dbrc_cache.cc:364-382, 407-420).
THEOREM FirstFillIsExact == Spec => []ColdSound
BY ColdInvAlways, PTL
-----------------------------------------------------------------------------
(* The eviction of a block: every entry that leads to it is cleared.         *)

LEMMA FirstNaming ==
    ASSUME NEW dba, NEW v, Naming(dba, v) # {}
    PROVE  Min(Naming(dba, v)) \in Naming(dba, v) /\ Naming(dba, v) \subseteq Entries
<1> DEFINE N == Naming(dba, v)
<1>1. N \subseteq Entries /\ N \in SUBSET Nat
  BY DEF Naming, Entries
<1> HIDE DEF N
<1>2. PICK k \in N : \A j \in N : k <= j
  BY <1>1, LeastNatural DEF N
<1>3. Min(N) \in N
  BY <1>2 DEF Min
<1> QED BY <1>1, <1>3 DEF N

LEMMA ScannedFields ==
    ASSUME cache_DBA \in Array, NEW n, NEW s \in Slots
    PROVE  LET new == Scanned(n)[s]
               old == cache_DBA[s]
           IN  /\ new.V = old.V /\ new.PV = old.PV /\ new.LF = old.LF
               /\ new.PT = old.PT /\ new.TAG = old.TAG /\ new.D = old.D
               /\ new.BTH = old.BTH
<1>1. cache_DBA[s] \in Block
  BY DEF Array
<1> QED BY <1>1 DEF Scanned, Block

\* The entry of a table that the loop over the parent's table stops at.
Cleared(dba, v, s, e) ==
    ParentEntries(dba, v) /\ Naming(dba, v) # {} /\ s = dba[v].PT /\ e = Min(Naming(dba, v))

LEMMA UnlinkedFields ==
    ASSUME NEW dba \in Array, NEW v \in Slots, NEW s \in Slots
    PROVE  LET new == Unlinked(dba, v)[s]
               old == dba[s]
           IN  /\ new.V = old.V /\ new.PV = old.PV /\ new.LF = old.LF
               /\ new.PT = old.PT /\ new.TAG = old.TAG
               /\ \A e \in Entries :
                     /\ new.BTH[e].I = old.BTH[e].I
                     /\ new.BTH[e].V => old.BTH[e].V /\ ~Cleared(dba, v, s, e)
<1> DEFINE p == dba[v].PT
           m == Min(Naming(dba, v))
           cut == [dba[s].BTH EXCEPT ![m].V = FALSE]
<1>1. dba[s] \in Block /\ dba[s].BTH \in [Entries -> Pointer]
  BY DEF Array, Block
<1>2. CASE ~(ParentEntries(dba, v) /\ Naming(dba, v) # {}) \/ s # p
  <2>1. Unlinked(dba, v)[s] = dba[s]
    BY <1>2 DEF Unlinked, Array
  <2>2. \A e \in Entries : ~Cleared(dba, v, s, e)
    BY <1>2 DEF Cleared
  <2> QED BY <2>1, <2>2
<1>3. CASE s = p /\ Naming(dba, v) # {} /\ ParentEntries(dba, v)
  <2>1. Unlinked(dba, v)[s] = [dba[s] EXCEPT !.BTH = cut]
    BY <1>3 DEF Unlinked, Array
  <2>2. \A e \in Entries : Cleared(dba, v, s, e) => e = m
    BY DEF Cleared
  <2> HIDE DEF p, m
  <2>3. \A e \in Entries : /\ cut[e].I = dba[s].BTH[e].I
                           /\ cut[e].V => dba[s].BTH[e].V /\ e # m
    BY <1>1 DEF Pointer
  <2> HIDE DEF cut
  <2> QED BY <1>1, <2>1, <2>2, <2>3 DEF Block
<1> QED BY <1>2, <1>3

LEMMA VacatedFields ==
    ASSUME NEW dba \in Array, NEW v \in Slots, NEW s \in Slots
    PROVE  LET new == Vacated(dba, v)[s]
               old == dba[s]
           IN  /\ new.V = old.V /\ new.LF = old.LF /\ new.PT = old.PT
               /\ new.BTH = old.BTH
               /\ s # v => new.TAG = old.TAG
               /\ new.PV = old.PV \/ s \in Children(dba, v)
<1>1. dba[s] \in Block
  BY DEF Array
<1>2. CASE ~Evicted(dba, v)
  BY <1>2 DEF Vacated
<1>3. CASE Evicted(dba, v) /\ IsData(dba, v)
  BY <1>1, <1>3 DEF Vacated, Block, Array
<1>4. CASE Evicted(dba, v) /\ ~IsData(dba, v)
  BY <1>1, <1>4 DEF Vacated, Block
<1> QED BY <1>2, <1>3, <1>4

\* Once severed, no table leads to the victim.
LEMMA SeveredTables ==
    ASSUME cache_DBA \in Array, NEW v \in Slots, Severs(v),
           NEW owner, TablesOwned(cache_DBA, owner),
           NEW dba, \A s \in Slots : /\ dba[s].V = cache_DBA[s].V
                                     /\ dba[s].PV = cache_DBA[s].PV
                                     /\ dba[s].LF = cache_DBA[s].LF
                                     /\ dba[s].PT = cache_DBA[s].PT
                                     /\ dba[s].BTH = cache_DBA[s].BTH,
           NEW s \in Slots, NEW e \in Entries, Points(cache_DBA, s, e, v)
    PROVE  Cleared(dba, v, s, e)
<1>1. s = cache_DBA[v].PT /\ e = Min(Naming(cache_DBA, v))
  BY DEF Severs, LeadsTo, Points
<1>2. Naming(dba, v) = Naming(cache_DBA, v)
  BY <1>1 DEF Naming
<1>3. e \in Naming(cache_DBA, v)
  BY <1>1 DEF Naming, Points
<1>4. /\ cache_DBA[v].V /\ cache_DBA[v].PV
      /\ cache_DBA[v].LF = cache_DBA[s].LF + 1 /\ cache_DBA[s].LF \in 1 .. num_BTH - 1
  BY DEF TablesOwned
<1>5. cache_DBA[v].LF > 0 /\ cache_DBA[v].LF > 1
  BY <1>4, Numbers
<1>6. dba[v].V /\ dba[v].PV
  BY <1>4, Zenon
<1>7. dba[v].LF > 0 /\ dba[v].LF > 1
  BY <1>5
<1>8. ParentEntries(dba, v)
  BY <1>6, <1>7, Zenon DEF ParentEntries, Evicted
<1> QED BY <1>1, <1>2, <1>3, <1>8 DEF Cleared

\* The array after the scan and the eviction.
LEMMA EvictedFields ==
    ASSUME cache_DBA \in Array, NEW n, NEW v \in Slots, Severs(v),
           NEW owner, TablesOwned(cache_DBA, owner)
    PROVE  LET left == Vacated(Unlinked(Scanned(n), v), v)
           IN  /\ left \in Array
               /\ \A s \in Slots :
                     /\ left[s].V = cache_DBA[s].V /\ left[s].LF = cache_DBA[s].LF
                     /\ left[s].PT = cache_DBA[s].PT
                     /\ s # v => left[s].TAG = cache_DBA[s].TAG
                     /\ \/ left[s].PV = cache_DBA[s].PV
                        \/ \E e \in Entries : Points(cache_DBA, v, e, s)
                     /\ \A e \in Entries : \A i : Points(left, s, e, i) =>
                           Points(cache_DBA, s, e, i) /\ i # v
<1> DEFINE scanned == Scanned(n)
           unlinked == Unlinked(scanned, v)
           left == Vacated(unlinked, v)
<1>1. scanned \in Array /\ unlinked \in Array /\ left \in Array
  BY ScannedType, UnlinkedType, VacatedType
<1>2. \A s \in Slots : /\ scanned[s].V = cache_DBA[s].V
                       /\ scanned[s].PV = cache_DBA[s].PV
                       /\ scanned[s].LF = cache_DBA[s].LF
                       /\ scanned[s].PT = cache_DBA[s].PT
                       /\ scanned[s].TAG = cache_DBA[s].TAG
                       /\ scanned[s].BTH = cache_DBA[s].BTH
  BY ScannedFields
<1> HIDE DEF scanned
<1>3. \A s \in Slots, e \in Entries :
         Points(cache_DBA, s, e, v) => Cleared(scanned, v, s, e)
  BY <1>2, SeveredTables
<1>4. \A s \in Slots : /\ unlinked[s].V = scanned[s].V
                       /\ unlinked[s].PV = scanned[s].PV
                       /\ unlinked[s].LF = scanned[s].LF
                       /\ unlinked[s].PT = scanned[s].PT
                       /\ unlinked[s].TAG = scanned[s].TAG
                       /\ \A e \in Entries :
                             /\ unlinked[s].BTH[e].I = scanned[s].BTH[e].I
                             /\ unlinked[s].BTH[e].V =>
                                   scanned[s].BTH[e].V /\ ~Cleared(scanned, v, s, e)
  BY <1>1, UnlinkedFields
<1> HIDE DEF unlinked
<1>5. \A s \in Slots :
             /\ left[s].V = unlinked[s].V /\ left[s].LF = unlinked[s].LF
             /\ left[s].PT = unlinked[s].PT
             /\ left[s].BTH = unlinked[s].BTH
             /\ s # v => left[s].TAG = unlinked[s].TAG
             /\ left[s].PV = unlinked[s].PV \/ s \in Children(unlinked, v)
  BY <1>1, VacatedFields
<1> HIDE DEF left
<1>6. ASSUME NEW s \in Slots, NEW e \in Entries, NEW i, Points(unlinked, s, e, i)
      PROVE  Points(cache_DBA, s, e, i) /\ i # v
  BY <1>2, <1>3, <1>4, <1>6 DEF Points
<1>7. ASSUME NEW s \in Slots
      PROVE  /\ left[s].V = cache_DBA[s].V /\ left[s].LF = cache_DBA[s].LF
             /\ left[s].PT = cache_DBA[s].PT
             /\ s # v => left[s].TAG = cache_DBA[s].TAG
             /\ \/ left[s].PV = cache_DBA[s].PV
                \/ \E e \in Entries : Points(cache_DBA, v, e, s)
             /\ \A e \in Entries : \A i : Points(left, s, e, i) =>
                   Points(cache_DBA, s, e, i) /\ i # v
  <2>1. s \in Children(unlinked, v) => \E e \in Entries : Points(cache_DBA, v, e, s)
    <3>1. s \in Children(unlinked, v) => \E e \in Entries : Points(unlinked, v, e, s)
      BY DEF Children, Points
    <3> QED BY <1>6, <3>1
  <2>2. \A e \in Entries : \A i : Points(left, s, e, i) => Points(unlinked, s, e, i)
    BY <1>5 DEF Points
  <2>3. /\ left[s].V = cache_DBA[s].V /\ left[s].LF = cache_DBA[s].LF
        /\ left[s].PT = cache_DBA[s].PT
        /\ s # v => left[s].TAG = cache_DBA[s].TAG
        /\ left[s].PV = cache_DBA[s].PV \/ s \in Children(unlinked, v)
    BY <1>2, <1>4, <1>5
  <2> QED BY <1>6, <2>1, <2>2, <2>3
<1> QED BY <1>1, <1>7 DEF left, unlinked, scanned

\* ... and no first-level entry does.
LEMMA RootUnlinked ==
    ASSUME cache_L0T \in L0Table, cache_DBA \in Array,
           NEW owner, RootsOwned(cache_L0T, cache_DBA, owner), NEW n, NEW w \in Slots,
           Severs(w),
           NEW t \in 0 .. L0Size - 1, L0TUnlinked(Scanned(n), w)[t].V
    PROVE  /\ cache_L0T[t].V /\ cache_L0T[t].I # w
           /\ L0TUnlinked(Scanned(n), w)[t].I = cache_L0T[t].I
<1> DEFINE sc == Scanned(n)[w]
           p == sc.PT
<1>1. cache_L0T[t] \in Pointer /\ t \in DOMAIN cache_L0T
  BY DEF L0Table
<1>2. /\ sc.V = cache_DBA[w].V /\ sc.PV = cache_DBA[w].PV
      /\ sc.LF = cache_DBA[w].LF /\ sc.PT = cache_DBA[w].PT
  BY ScannedFields
<1>3. L0TUnlinked(Scanned(n), w) =
         IF sc.V /\ sc.LF > 0 /\ sc.PV /\ sc.LF = 1
         THEN [cache_L0T EXCEPT ![p].V = FALSE] ELSE cache_L0T
  BY DEF L0TUnlinked, Evicted
<1> HIDE DEF sc
<1>4. /\ cache_L0T[t].V /\ L0TUnlinked(Scanned(n), w)[t].I = cache_L0T[t].I
      /\ sc.V /\ sc.LF > 0 /\ sc.PV /\ sc.LF = 1 => t # p
  BY <1>1, <1>3 DEF L0Table, Pointer
<1>5. ASSUME cache_L0T[t].I = w PROVE FALSE
  <2>1. /\ cache_DBA[w].V /\ cache_DBA[w].PV /\ cache_DBA[w].LF = 1
        /\ t = cache_DBA[w].PT
    BY <1>1, <1>4, <1>5 DEF RootsOwned, Severs, LeadsTo
  <2> QED BY <1>2, <1>4, <2>1
<1> QED BY <1>4, <1>5
-----------------------------------------------------------------------------
(* A turn of insert's loop that does not go astray.                          *)

\* What the turn does that installs the block w the scan stops at after n.
SweptTurn(n, w) ==
    /\ n \in 0 .. MNA /\ ScanEnds(n)
    /\ w = Slot(n)
    /\ wb' = WrittenBack(Scanned(n), w)
    /\ VBIR' = (w + 1) % capacity
    /\ last_BTH' = w
    /\ current_level' = current_level + 1
    /\ UNCHANGED <<phase, req>>
    /\ \A t \in DOMAIN cache_TLB' :
          /\ t \in DOMAIN cache_TLB /\ cache_TLB'[t] = cache_TLB[t]
          /\ cache_TLB[t] # w

LEMMA SweepTurn ==
    ASSUME IndexInv, NEW owner, IndexOwned(owner), TLBCoherent, InstallLevel, ~Strays
    PROVE  \E n \in 0 .. MNA, w \in Slots :
              /\ SweptTurn(n, w)
              /\ Installs(cache_L0T, cache_DBA, cache_L0T', cache_DBA',
                          req.block, current_level, w, last_BTH)
<1> DEFINE b == req.block
           l == current_level
<1>1. /\ RestTypeOK /\ TLBInv /\ InsertState
      /\ VBIR \in Slots /\ cache_DBA \in Array /\ cache_L0T \in L0Table
      /\ b \in Blocks /\ phase = "insert"
  BY IndexInvParts DEF RestTypeOK, L0Table, InstallLevel, Requests
<1>2. l \in Levels
  BY <1>1, Numbers DEF InstallLevel, RestTypeOK, InsertState, Levels
<1>3. /\ Owned(cache_L0T, cache_DBA, owner, {})
      /\ OnPath(cache_DBA, owner, b, l, last_BTH)
  <2>1. Filling = {}
    BY <1>2, Numbers DEF Filling, Levels
  <2> QED BY <1>1, <2>1 DEF IndexOwned
<1>4. RootsOwned(cache_L0T, cache_DBA, owner) /\ TablesOwned(cache_DBA, owner)
  BY <1>3 DEF Owned
<1>5. PICK n \in 0 .. MNA, w \in Slots \cup {None} :
         /\ ScanEnds(n)
         /\ IF Counter(n, Scanned(n), Slot(n)) = MNA THEN IsSmallest(w, n)
            ELSE w = Slot(n)
         /\ Turn(n, w)
  BY DEF InstallLevel
<1>6. TakesVictim(n) /\ Severs(Slot(n))
  BY <1>5 DEF Strays
<1>7. w = Slot(n) /\ w \in Slots
  <2>1. Slot(n) \in Slots
    BY <1>1, Numbers DEF Slot, Slots
  <2> QED BY <1>5, <1>6, <2>1 DEF TakesVictim
<1>8. Severs(w)
  BY <1>6, <1>7
<1>9. w # None
  BY <1>7, Numbers
<1> DEFINE left == Vacated(Unlinked(Scanned(n), w), w)
<1>10. /\ wb' = WrittenBack(Scanned(n), w)
       /\ IF TLBDrops(Scanned(n), w)
          THEN cache_TLB' = Without(cache_TLB, Scanned(n)[w].TAG)
          ELSE UNCHANGED cache_TLB
       /\ cache_DBA' = Installed(Linked(left, b, l, w), b, l, w)
       /\ cache_L0T' = L0TLinked(L0TUnlinked(Scanned(n), w), b, l, w)
       /\ VBIR' = (w + 1) % capacity
       /\ last_BTH' = w
       /\ current_level' = current_level + 1
       /\ UNCHANGED <<phase, req>>
  BY <1>5, <1>7, <1>9 DEF Turn
<1>11. SweptTurn(n, w)
  <2>1. ASSUME NEW t \in DOMAIN cache_TLB'
        PROVE  t \in DOMAIN cache_TLB /\ cache_TLB'[t] = cache_TLB[t]
    BY <1>10 DEF Without, Restrict
  <2>2. ASSUME NEW t \in DOMAIN cache_TLB', cache_TLB[t] = w PROVE FALSE
    <3>1. Holds(w, t)
      BY <2>1, <2>2 DEF TLBCoherent
    <3>2. Scanned(n)[w].V /\ Scanned(n)[w].LF = num_BTH /\ Scanned(n)[w].TAG = t
      BY <1>1, <1>7, <3>1, ScannedFields DEF Holds
    <3>3. TLBDrops(Scanned(n), w)
      BY <2>1, <3>2, Numbers DEF TLBDrops, Evicted, IsData
    <3>4. t \notin DOMAIN cache_TLB'
      BY <1>10, <3>2, <3>3 DEF Without, Restrict
    <3> QED BY <3>4
  <2> QED BY <1>5, <1>7, <1>10, <2>1, <2>2 DEF SweptTurn
<1>12. /\ left \in Array
       /\ \A s \in Slots :
             /\ left[s].V = cache_DBA[s].V /\ left[s].LF = cache_DBA[s].LF
             /\ left[s].PT = cache_DBA[s].PT
             /\ s # w => left[s].TAG = cache_DBA[s].TAG
             /\ \/ left[s].PV = cache_DBA[s].PV
                \/ \E e \in Entries : Points(cache_DBA, w, e, s)
             /\ \A e \in Entries : \A i : Points(left, s, e, i) =>
                   Points(cache_DBA, s, e, i) /\ i # w
  BY <1>1, <1>4, <1>7, <1>8, EvictedFields
<1> HIDE DEF left
<1>13. /\ l = 1 \/ (last_BTH \in Slots /\ TableIndex(b, l) \in Entries)
       /\ L0TIndex(b) \in 0 .. L0Size - 1
       /\ l = 1 \/ l > 1
  <2>1. l = 1 \/ l > 1
    BY <1>2 DEF Levels
  <2> QED BY <1>1, <1>2, <1>3, <2>1, IndexTypes DEF OnPath
<1>14. Installs(cache_L0T, cache_DBA, cache_L0T', cache_DBA', b, l, w, last_BTH)
  <2> HIDE DEF b, l
  <2> DEFINE new == Installed(Linked(left, b, l, w), b, l, w)
  <2>1. /\ \A s \in Slots \ {w} :
              /\ new[s].V = left[s].V /\ new[s].PV = left[s].PV
              /\ new[s].LF = left[s].LF /\ new[s].PT = left[s].PT
              /\ new[s].TAG = left[s].TAG
              /\ \A e \in Entries :
                    new[s].BTH[e] = IF l # 1 /\ s = last_BTH /\ e = TableIndex(b, l)
                                    THEN [V |-> TRUE, I |-> w] ELSE left[s].BTH[e]
        /\ new[w].V /\ new[w].PV /\ new[w].LF = l
        /\ new[w].PT = (IF l = 1 THEN L0TIndex(b) ELSE last_BTH) % PTSize
        /\ new[w].BTH = EmptyTable
    BY <1>7, <1>12, <1>13, InstalledFields
  <2>2. cache_DBA' = new
    BY <1>10
  <2> HIDE DEF new
  <2>3. ASSUME NEW s \in Slots \ {w}
        PROVE  /\ new[s].V = cache_DBA[s].V /\ new[s].LF = cache_DBA[s].LF
               /\ new[s].PT = cache_DBA[s].PT /\ new[s].TAG = cache_DBA[s].TAG
               /\ \/ new[s].PV = cache_DBA[s].PV
                  \/ \E e \in Entries : Points(cache_DBA, w, e, s)
               /\ \A e \in Entries, i \in Slots : Points(new, s, e, i) =>
                     \/ Points(cache_DBA, s, e, i) /\ i # w
                     \/ i = w /\ l > 1 /\ s = last_BTH /\ e = TableIndex(b, l)
    <3>1. ASSUME NEW e \in Entries, NEW i \in Slots, Points(new, s, e, i)
          PROVE  \/ Points(left, s, e, i)
                 \/ i = w /\ l > 1 /\ s = last_BTH /\ e = TableIndex(b, l)
      BY <1>13, <2>1, <3>1 DEF Points
    <3>2. \A e \in Entries, i \in Slots : Points(new, s, e, i) =>
             \/ Points(cache_DBA, s, e, i) /\ i # w
             \/ i = w /\ l > 1 /\ s = last_BTH /\ e = TableIndex(b, l)
      BY <1>12, <3>1
    <3>3. new[s].PV = left[s].PV
      BY <2>1
    <3>4. \/ new[s].PV = cache_DBA[s].PV
          \/ \E e \in Entries : Points(cache_DBA, w, e, s)
      BY <1>12, <3>3, Zenon
    <3>5. /\ new[s].V = cache_DBA[s].V /\ new[s].LF = cache_DBA[s].LF
          /\ new[s].PT = cache_DBA[s].PT /\ new[s].TAG = cache_DBA[s].TAG
      BY <1>12, <2>1
    <3> QED BY <3>2, <3>4, <3>5
  <2>4. ASSUME NEW t \in 0 .. L0Size - 1, cache_L0T'[t].V
        PROVE  \/ cache_L0T[t].V /\ cache_L0T'[t].I = cache_L0T[t].I /\ cache_L0T[t].I # w
               \/ l = 1 /\ t = L0TIndex(b) /\ cache_L0T'[t].I = w
    <3> DEFINE cut == L0TUnlinked(Scanned(n), w)
    <3>1. cut \in L0Table
      BY <1>1, L0TType DEF L0TUnlinked, L0Table
    <3>2. cut[t].V => /\ cache_L0T[t].V /\ cache_L0T[t].I # w
                      /\ cut[t].I = cache_L0T[t].I
      BY <1>1, <1>4, <1>7, <1>8, RootUnlinked
    <3>3. cache_L0T' = IF l = 1 THEN [cut EXCEPT ![L0TIndex(b)] = [V |-> TRUE, I |-> w]]
                       ELSE cut
      BY <1>10 DEF L0TLinked
    <3> HIDE DEF cut
    <3>4. CASE l = 1 /\ t = L0TIndex(b)
      BY <1>13, <3>1, <3>3, <3>4 DEF L0Table
    <3>5. CASE ~(l = 1 /\ t = L0TIndex(b))
      <4>1. cache_L0T'[t] = cut[t]
        BY <3>1, <3>3, <3>5 DEF L0Table
      <4> QED BY <2>4, <3>2, <4>1
    <3> QED BY <3>4, <3>5
  <2> QED BY <2>1, <2>2, <2>3, <2>4 DEF Installs
<1> QED BY <1>7, <1>11, <1>14
-----------------------------------------------------------------------------
(* The invariant.                                                            *)

SweepInv ==
    /\ phase # "overrun"
    /\ TLBExact
    /\ InsertFillsGap
    /\ \E owner : IndexOwned(owner)

LEMMA SweepInvInit == Init => SweepInv
<1> SUFFICES ASSUME Init PROVE SweepInv
  OBVIOUS
<1>1. /\ \A s \in Slots : cache_DBA[s] = EmptyBlock
      /\ \A t \in DOMAIN cache_L0T : cache_L0T[t] = NullPointer
      /\ phase = "ready" /\ cache_TLB = << >>
  BY DEF Init
<1>2. TLBExact /\ InsertFillsGap
  <2>1. DOMAIN cache_TLB = {}
    BY <1>1
  <2> QED BY <1>1, <2>1 DEF TLBExact, TLBCoherent, FillingNotInTLB, InsertFillsGap
<1>3. PICK owner : Owned(cache_L0T, cache_DBA, owner, {})
  BY <1>1, OwnedInit
<1>4. IndexOwned(owner)
  BY <1>1, <1>3 DEF IndexOwned, Filling
<1> QED BY <1>1, <1>2, <1>4 DEF SweepInv

LEMMA AccessKeepsSweep ==
    ASSUME IndexInv, SweepInv, NEW b \in Blocks, NEW store \in BOOLEAN,
           Hit(b, store) \/ Miss(b), phase \in {"ready", "wait"},
           phase' \in {"ready", "wait"}
    PROVE  SweepInv'
<1>1. PICK owner : IndexOwned(owner)
  BY DEF SweepInv
<1>2. IndexOwned(owner)' /\ InsertFillsGap' /\ TLBExact'
  BY <1>1, AccessOwned DEF SweepInv
<1> QED BY <1>2 DEF SweepInv

LEMMA InstallKeepsSweep ==
    ASSUME IndexInv, SweepInv, InstallLevel, ~Strays
    PROVE  SweepInv'
<1> DEFINE b == req.block
           l == current_level
<1>1. /\ RestTypeOK /\ InsertState /\ b \in Blocks /\ phase = "insert"
      /\ TLBExact /\ TLBCoherent
  BY IndexInvParts DEF RestTypeOK, Requests, InstallLevel, SweepInv, TLBExact
<1>2. l \in Levels
  BY <1>1, Numbers DEF InstallLevel, RestTypeOK, InsertState, Levels
<1>3. PICK owner : IndexOwned(owner)
  BY DEF SweepInv
<1>4. PICK n \in 0 .. MNA, w \in Slots :
         /\ SweptTurn(n, w)
         /\ Installs(cache_L0T, cache_DBA, cache_L0T', cache_DBA', b, l, w, last_BTH)
  BY <1>1, <1>3, SweepTurn
<1>5. PICK own : own = [owner EXCEPT ![w] = b]
  OBVIOUS
<1>6. cache_L0T' \in L0Table /\ cache_DBA' \in Array
  BY IndexInvPartsNext, InstallLevelKeeps DEF RestTypeOK, L0Table
<1>7. IndexOwned(own)' /\ InsertFillsGap' /\ TLBExact'
  <2>1. cache_L0T \in L0Table /\ cache_DBA \in Array /\ TLBTypeOK
    BY IndexInvParts DEF RestTypeOK, TLBInv, L0Table
  <2> QED BY <1>1, <1>2, <1>3, <1>4, <1>5, <1>6, <2>1, TurnOwned DEF SweptTurn
<1>8. phase' # "overrun"
  BY <1>1, <1>4 DEF SweptTurn
<1> QED BY <1>7, <1>8 DEF SweepInv

LEMMA SweepInvNext ==
    ASSUME IndexInv, MissStaysMiss, SweepInv, [Next]_vars, ~Strays \/ UNCHANGED vars
    PROVE  SweepInv'
<1>1. CASE Access
  <2>1. PICK b \in Blocks, store \in Stores :
           \/ TimingHit(b, store)
           \/ \E upgraded \in BOOLEAN : TimingMiss(b, store /\ upgraded)
    BY <1>1 DEF Access
  <2>2. /\ store \in BOOLEAN
        /\ Hit(b, store) \/ Miss(b)
        /\ phase \in {"ready", "wait"} /\ phase' \in {"ready", "wait"}
    BY <2>1, SizesAssumption DEF TimingHit, TimingMiss
  <2> QED BY <2>2, AccessKeepsSweep
<1>2. CASE FunctionalAccess
  <2>1. PICK b \in Blocks, store \in Stores : Functional(b, store)
    BY <1>2 DEF FunctionalAccess
  <2>2. /\ store \in BOOLEAN
        /\ Hit(b, store) \/ Miss(b)
        /\ phase \in {"ready", "wait"} /\ phase' \in {"ready", "wait"}
    BY <2>1, SizesAssumption DEF Functional
  <2> QED BY <2>2, AccessKeepsSweep
<1>3. CASE InsertBegin
  <2>1. PICK owner : IndexOwned(owner)
    BY DEF SweepInv
  <2>2. IndexOwned(owner)' /\ InsertFillsGap' /\ TLBExact'
    BY <1>3, <2>1, BeginOwned DEF SweepInv
  <2>3. phase' # "overrun"
    BY <1>3 DEF InsertBegin
  <2> QED BY <2>2, <2>3 DEF SweepInv
<1>4. CASE InstallLevel /\ ~Strays
  BY <1>4, InstallKeepsSweep
<1>5. CASE InsertEnd
  <2>1. PICK owner : IndexOwned(owner)
    BY DEF SweepInv
  <2>2. IndexOwned(owner)' /\ InsertFillsGap' /\ TLBExact'
    BY <1>5, <2>1, EndOwned DEF SweepInv
  <2>3. phase' # "overrun"
    BY <1>5 DEF InsertEnd
  <2> QED BY <2>2, <2>3 DEF SweepInv
<1>6. CASE UNCHANGED vars
  <2>1. UNCHANGED <<cache_L0T, cache_DBA, cache_TLB, phase, req, last_BTH, current_level>>
    BY <1>6 DEF vars, index
  <2>2. /\ TLBExact => TLBExact'
        /\ InsertFillsGap => InsertFillsGap'
        /\ \A owner : IndexOwned(owner) => IndexOwned(owner)'
    BY <2>1 DEF TLBExact, TLBCoherent, Holds, FillingNotInTLB, Filling,
                InsertFillsGap, IndexOwned
  <2> QED BY <2>1, <2>2 DEF SweepInv
<1> QED BY <1>1, <1>2, <1>3, <1>4, <1>5, <1>6 DEF Next

LEMMA SweepInvSound == IndexInv /\ SweepInv => TLBCoherent /\ PointersSound /\ WalksExact
<1> SUFFICES ASSUME IndexInv, SweepInv
             PROVE  TLBCoherent /\ PointersSound /\ WalksExact
  OBVIOUS
<1>1. cache_L0T \in L0Table /\ cache_DBA \in Array
  BY IndexInvParts DEF RestTypeOK, L0Table
<1>2. PICK owner : IndexOwned(owner)
  BY DEF SweepInv
<1> QED BY <1>1, <1>2, OwnedPointersSound, OwnedWalksExact DEF SweepInv, TLBExact
-----------------------------------------------------------------------------
(* A turn can go astray only when the array is full.                         *)

\* A slot once in use stays in use.
LEMMA ColdBefore ==
    ASSUME IndexInv, [Next]_vars, Cold'
    PROVE  Cold
<1> SUFFICES ASSUME NEW s \in Slots, cache_DBA[s].V PROVE cache_DBA'[s].V
  BY DEF Cold
<1>1. RestTypeOK /\ TLBInv /\ cache_DBA \in Array
  BY IndexInvParts DEF RestTypeOK
<1>2. CASE Access \/ FunctionalAccess
  <2>1. PICK b \in Blocks, store \in Stores : Hit(b, store) \/ Miss(b)
    BY <1>2 DEF Access, FunctionalAccess, TimingHit, TimingMiss, Functional
  <2>2. SameBlocks(cache_DBA, cache_DBA')
    BY <1>1, <2>1, AccessBlocks, SizesAssumption
  <2> QED BY <2>2, Zenon DEF SameBlocks
<1>3. CASE InsertBegin
  <2>1. PICK path : cache_DBA' = Touched(path)
    BY <1>3 DEF InsertBegin
  <2>2. SameBlocks(cache_DBA, Touched(path))
    BY <1>1, TouchedBlocks
  <2> QED BY <2>1, <2>2, Zenon DEF SameBlocks
<1>4. CASE InstallLevel
  <2>1. PICK n \in 0 .. MNA, w \in Slots \cup {None} : Turn(n, w)
    BY <1>4 DEF InstallLevel
  <2>2. TakesPlace(w)
    BY <1>1, <2>1, TurnPlaces
  <2> QED BY <2>2, Zenon DEF TakesPlace
<1>5. CASE InsertEnd
  <2>1. cache_DBA'[s].V = cache_DBA[s].V
    BY <1>1, <1>5, EndFields
  <2> QED BY <2>1, Zenon
<1>6. CASE UNCHANGED vars
  BY <1>6, Zenon DEF vars, index
<1> QED BY <1>2, <1>3, <1>4, <1>5, <1>6 DEF Next

LEMMA ColdNeverStrays ==
    ASSUME IndexInv, ColdInv, Cold
    PROVE  ~Strays
<1>1. RestTypeOK /\ HandSplits
  BY IndexInvParts DEF ColdInv
<1>2. VBIR \in Slots /\ ~cache_DBA[VBIR].V /\ cache_DBA \in Array /\ cache_L0T \in L0Table
  BY <1>1, Numbers DEF RestTypeOK, HandSplits, Slots, L0Table
<1>3. Slot(0) = VBIR
  BY <1>2, Numbers DEF Slot, Slots
<1>4. SUFFICES ASSUME NEW n \in 0 .. MNA, ScanEnds(n)
               PROVE  TakesVictim(n) /\ Severs(Slot(n))
  BY DEF Strays
<1>5. n = 0
  <2>1. Replaceable(Slot(0))
    BY <1>2, <1>3 DEF Replaceable
  <2> SUFFICES ASSUME n # 0 PROVE FALSE
    OBVIOUS
  <2>2. 0 \in 0 .. n - 1
    BY Numbers
  <2> QED BY <1>4, <2>1, <2>2 DEF ScanEnds
<1>6. Scanned(0) = cache_DBA
  <2>1. Passed(0) = {}
    BY DEF Passed
  <2> QED BY <1>2, <2>1 DEF Scanned, Array
<1>7. TakesVictim(0)
  <2>1. ~Evicted(cache_DBA, VBIR)
    BY <1>2 DEF Evicted
  <2>2. Counter(0, cache_DBA, VBIR) = 0
    BY <2>1 DEF Counter, ParentEntries
  <2>3. MNA # 0
    BY SizesAssumption
  <2> QED BY <1>3, <1>6, <2>2, <2>3 DEF TakesVictim
<1>8. Severs(VBIR)
  <2>1. PICK owner : RootsOwned(cache_L0T, cache_DBA, owner) /\ TablesOwned(cache_DBA, owner)
    BY DEF ColdInv, IndexOwned, Owned
  <2>2. \A t \in DOMAIN cache_L0T : ~LeadsTo(cache_L0T[t], VBIR)
    BY <1>2, <2>1 DEF RootsOwned, LeadsTo
  <2>3. \A s \in Slots, e \in Entries : ~LeadsTo(cache_DBA[s].BTH[e], VBIR)
    BY <1>2, <2>1 DEF TablesOwned, Points, LeadsTo
  <2> QED BY <2>2, <2>3 DEF Severs
<1> QED BY <1>3, <1>5, <1>7, <1>8
-----------------------------------------------------------------------------
(* The same of the specification with the history variable.                  *)

HistoryInv ==
    /\ IndexInv
    /\ MissStaysMiss
    /\ ColdInv
    /\ strayed \in BOOLEAN
    /\ Cold => ~strayed
    /\ ~strayed => SweepInv

LEMMA HistoryInvInit == HistoryInit => HistoryInv
<1> SUFFICES ASSUME HistoryInit PROVE HistoryInv
  OBVIOUS
<1>1. Init /\ strayed = FALSE
  BY DEF HistoryInit
<1>2. MissStaysMiss
  BY <1>1 DEF Init, MissStaysMiss
<1> QED BY <1>1, <1>2, IndexInvInit, ColdInvInit, SweepInvInit DEF HistoryInv

\* However the index steps, as long as a turn that goes astray is recorded.
LEMMA HistoryInvStep ==
    ASSUME HistoryInv, [Next]_vars, Recorded \/ UNCHANGED <<vars, strayed>>
    PROVE  HistoryInv'
<1>1. IndexInv /\ MissStaysMiss /\ ColdInv /\ strayed \in BOOLEAN
  BY DEF HistoryInv
<1>2. /\ strayed' \in BOOLEAN
      /\ ~strayed' => ~strayed /\ (~Strays \/ UNCHANGED vars)
      /\ ~strayed /\ ~Strays => ~strayed'
  <2>1. Strays \in BOOLEAN
    BY Zenon DEF Strays
  <2>2. CASE Recorded
    <3>1. PICK astray \in BOOLEAN : astray <=> Strays
      BY <2>1
    <3>2. strayed' = (strayed \/ astray)
      BY <2>2, <3>1, Zenon DEF Recorded
    <3> QED BY <1>1, <3>1, <3>2, Zenon
  <2>3. CASE UNCHANGED <<vars, strayed>>
    <3>1. UNCHANGED vars /\ strayed' = strayed
      BY <2>3
    <3> QED BY <1>1, <3>1
  <2> QED BY <2>2, <2>3
<1>3. IndexInv' /\ MissStaysMiss' /\ ColdInv'
  BY <1>1, IndexInvNext, MissStaysMissStep, ColdInvNext
<1>4. ASSUME Cold' PROVE ~strayed'
  <2>1. Cold
    BY <1>1, <1>4, ColdBefore
  <2>2. ~strayed
    BY <2>1 DEF HistoryInv
  <2>3. ~Strays
    BY <1>1, <2>1, ColdNeverStrays
  <2> QED BY <1>2, <2>2, <2>3
<1>5. ASSUME ~strayed' PROVE SweepInv'
  <2>1. ~strayed /\ (~Strays \/ UNCHANGED vars)
    BY <1>2, <1>5
  <2>2. SweepInv
    BY <2>1 DEF HistoryInv
  <2> QED BY <1>1, <2>1, <2>2, SweepInvNext
<1> QED BY <1>2, <1>3, <1>4, <1>5 DEF HistoryInv

LEMMA HistoryInvAlways == HistorySpec => []HistoryInv
<1>1. HistoryInv /\ [HistoryNext]_historyVars => HistoryInv'
  <2> SUFFICES ASSUME HistoryInv, [HistoryNext]_historyVars PROVE HistoryInv'
    OBVIOUS
  <2>1. CASE HistoryNext
    BY <2>1, HistoryInvStep DEF HistoryNext
  <2>2. CASE UNCHANGED historyVars
    BY <2>2, HistoryInvStep DEF historyVars
  <2> QED BY <2>1, <2>2
<1> QED BY <1>1, HistoryInvInit, PTL DEF HistorySpec

\* Until a turn has gone astray, and for every size of the cache, number of
\* attempts and width of PT, every valid pointer leads to a block in use of the
\* next level whose parent field leads back, so that evictions sever the entry
\* they mean (dbrc_cache.cc:534-549, 567-576).
THEOREM EvictionsKeepPointers == HistorySpec => []PointersKept
<1>1. HistoryInv => PointersKept
  BY SweepInvSound DEF HistoryInv, PointersKept
<1> QED BY <1>1, HistoryInvAlways, PTL

\* ... and every TLB entry names a data block that holds the entry's own tag,
\* which a TLB hit does not check (dbrc_cache.cc:407-414, 554-563).
THEOREM EvictionsKeepTLB == HistorySpec => []TLBKept
<1>1. HistoryInv => TLBKept
  BY SweepInvSound DEF HistoryInv, TLBKept
<1> QED BY <1>1, HistoryInvAlways, PTL

\* ... and between handlers a search that goes all the way ends at the block it
\* searched, at every depth of the index (dbrc_cache.cc:364-382).
THEOREM EvictionsKeepWalks == HistorySpec => []WalksKept
<1>1. HistoryInv => WalksKept
  BY SweepInvSound DEF HistoryInv, WalksKept
<1> QED BY <1>1, HistoryInvAlways, PTL

\* No turn goes astray before every block of the array is in use, whatever the
\* number of attempts and however narrow PT: the hand is under a free block, no
\* entry leads there, and the counter stays at nought (dbrc_cache.cc:504-549).
THEOREM FillingNeverStrays == HistorySpec => [](Cold => ~strayed)
<1>1. HistoryInv => (Cold => ~strayed)
  BY DEF HistoryInv
<1> QED BY <1>1, HistoryInvAlways, PTL
=============================================================================
