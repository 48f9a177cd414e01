------------------------- MODULE DbrcContentsProofs -------------------------
(* What TLAPS proves about the contents of the blocks: as long as no turn of *)
(* insert has gone astray (see DbrcHistory), a read gives the value last     *)
(* written and a block that is not dirty is the same in memory, whatever     *)
(* values are written and however many slots and levels there are.           *)
EXTENDS DbrcContents, DbrcEvictionProofs
-----------------------------------------------------------------------------
(* The index, as long as no turn has gone astray.                            *)

LEMMA ExactIndex ==
    ASSUME HistoryInv, ~strayed
    PROVE  /\ RestTypeOK /\ TLBInv /\ TLBTypeOK /\ InsertState
           /\ cache_L0T \in L0Table /\ cache_DBA \in Array /\ req.block \in Blocks
           /\ phase # "overrun"
           /\ TLBExact
           /\ \E owner : IndexOwned(owner)
<1>1. RestTypeOK /\ TLBInv /\ InsertState
  BY IndexInvParts DEF HistoryInv
<1> QED BY <1>1 DEF HistoryInv, SweepInv, RestTypeOK, TLBInv, L0Table, Requests
-----------------------------------------------------------------------------
(* The invariant.  ReadsLatest and CleanMatchesMemory are not inductive: they *)
(* say nothing while insert runs, of the slot it fills and of the block that *)
(* misses, or of the packet that will be written there.                      *)

\* The index has b in a block of data that is filled.
Cached(b) == b \in DOMAIN cache_TLB \/ Walk(b)[num_BTH] \notin {None} \cup Filling

\* The TLB and the search do not lead to different places.
Agreed == \A t \in DOMAIN cache_TLB : Walk(t)[num_BTH] \in {None, cache_TLB[t]}

StillMissing == phase \in {"wait", "insert"} => ~Cached(req.block)

InBlock(b) ==
    latest[b] # None /\ Cached(b) => Place(b) \in freed \/ data[Place(b)] = latest[b]
InMemory(b) ==
    latest[b] # None => memory[b] = latest[b] \/ (Cached(b) /\ cache_DBA[Place(b)].D)

\* The response has the latest word of its block; insert has a response; and what
\* is to be done to part of the block when it is there is a write.
InAnswer ==
    /\ answer # None => /\ phase \in {"wait", "insert"}
                        /\ latest[req.block] \in {None, answer}
    /\ phase = "insert" => answer # None
    /\ phase \in {"wait", "insert"} /\ pending.part => req.dirties /\ IsStore(pending.op)

Shapes ==
    /\ data = [s \in Slots |-> data[s]]
    /\ memory = [b \in Blocks |-> memory[b]]
    /\ latest = [b \in Blocks |-> latest[b]]

DataInv ==
    /\ Agreed
    /\ StillMissing
    /\ \A b \in Blocks : InBlock(b) /\ InMemory(b)
    /\ InAnswer
    /\ Shapes

ContentsInv == HistoryInv /\ (~strayed => DataInv)

\* A block that is cached is in a slot that holds it, and not in the one that
\* insert is filling.
LEMMA CachedHolds ==
    ASSUME cache_L0T \in L0Table, cache_DBA \in Array, TLBTypeOK, TLBExact,
           NEW owner, IndexOwned(owner), NEW b \in Blocks, Cached(b)
    PROVE  /\ Place(b) \in Slots \ Filling
           /\ Holds(Place(b), b)
<1>1. CASE b \in DOMAIN cache_TLB
  <2>1. Place(b) = cache_TLB[b]
    BY <1>1 DEF Place
  <2>2. cache_TLB[b] \in Slots
    BY <1>1 DEF TLBTypeOK
  <2> QED BY <1>1, <2>1, <2>2 DEF TLBExact, TLBCoherent, FillingNotInTLB
<1>2. CASE b \notin DOMAIN cache_TLB
  <2>1. PICK s : s = Walk(b)[num_BTH]
    OBVIOUS
  <2>2. Place(b) = s /\ s # None /\ s \notin Filling
    BY <1>2, <2>1 DEF Place, Cached
  <2>3. num_BTH \in Levels
    BY Numbers DEF Levels
  <2>4. PICK l0t, dba : l0t = cache_L0T /\ dba = cache_DBA
    OBVIOUS
  <2>5. PICK path : path = Path(l0t, [k \in Slots |-> dba[k].BTH], b)
    OBVIOUS
  <2>6. path = Walk(b)
    BY <2>4, <2>5 DEF Walk, Tables
  <2>7. Owned(l0t, dba, owner, Filling) /\ l0t \in L0Table /\ dba \in Array
    BY <2>4 DEF IndexOwned
  <2>8. path[num_BTH] # None /\ path[num_BTH] = s
    BY <2>1, <2>2, <2>6
  <2>9. /\ path[num_BTH] \in Slots
        /\ dba[path[num_BTH]].V /\ dba[path[num_BTH]].LF = num_BTH
        /\ Prefix(owner[path[num_BTH]], num_BTH) = Prefix(b, num_BTH)
    BY <2>3, <2>5, <2>7, <2>8, WalkOwned
  <2>10. s \in Slots /\ dba[s].V /\ dba[s].LF = num_BTH
         /\ Prefix(owner[s], num_BTH) = Prefix(b, num_BTH)
    BY <2>8, <2>9
  <2>11. owner[s] = b
    BY <2>7, <2>10, PrefixFacts DEF Owned
  <2>12. dba[s].TAG = owner[s]
    BY <2>2, <2>7, <2>10 DEF Owned, DataTagged
  <2> QED BY <2>2, <2>4, <2>10, <2>11, <2>12 DEF Holds
<1> QED BY <1>1, <1>2

\* Unless insert has just installed a block of data, what accessFunctional finds is
\* what is cached.
LEMMA CachedFound ==
    ASSUME cache_L0T \in L0Table, cache_DBA \in Array,
           NEW owner, IndexOwned(owner), Filling = {}, NEW b \in Blocks
    PROVE  /\ InCache(b) <=> Cached(b)
           /\ ~Cached(b) <=> b \notin DOMAIN cache_TLB /\ Walk(b)[num_BTH] = None
<1>1. Owned(cache_L0T, cache_DBA, owner, {})
  BY DEF IndexOwned
<1>2. Walk(b)[num_BTH] # None => Found(Walk(b), b)
  BY <1>1, OwnedWalksFind
<1>3. Found(Walk(b), b) => Walk(b)[num_BTH] # None
  BY Numbers DEF Found
<1> QED BY <1>2, <1>3 DEF InCache, Cached

\* All this in one formula, for the states before and after a step.
ExactState ==
    /\ RestTypeOK /\ TLBInv /\ TLBTypeOK /\ InsertState
    /\ cache_L0T \in L0Table /\ cache_DBA \in Array /\ req.block \in Blocks
    /\ TLBExact
    /\ \E owner : IndexOwned(owner)
    /\ \A b \in Blocks : Cached(b) => Place(b) \in Slots \ Filling /\ Holds(Place(b), b)
    /\ Filling = {} => \A b \in Blocks :
          /\ InCache(b) <=> Cached(b)
          /\ ~Cached(b) <=> b \notin DOMAIN cache_TLB /\ Walk(b)[num_BTH] = None

LEMMA StateExact == HistoryInv /\ ~strayed => ExactState
<1> SUFFICES ASSUME HistoryInv, ~strayed PROVE ExactState
  OBVIOUS
<1>1. /\ RestTypeOK /\ TLBInv /\ TLBTypeOK /\ InsertState
      /\ cache_L0T \in L0Table /\ cache_DBA \in Array /\ req.block \in Blocks
      /\ TLBExact
  BY ExactIndex
<1>2. PICK owner : IndexOwned(owner)
  BY ExactIndex
<1>3. \A b \in Blocks : Cached(b) => Place(b) \in Slots \ Filling /\ Holds(Place(b), b)
  BY <1>1, <1>2, CachedHolds
<1>4. Filling = {} => \A b \in Blocks :
         /\ InCache(b) <=> Cached(b)
         /\ ~Cached(b) <=> b \notin DOMAIN cache_TLB /\ Walk(b)[num_BTH] = None
  BY <1>1, <1>2, CachedFound
<1> QED BY <1>1, <1>2, <1>3, <1>4 DEF ExactState

LEMMA StateExactNext == HistoryInv' /\ ~strayed' => ExactState'
BY StateExact, PTL

LEMMA PlacesDiffer ==
    ASSUME NEW b, NEW c, Holds(Place(b), b), Holds(Place(c), c), Place(b) = Place(c)
    PROVE  b = c
BY DEF Holds

\* A step of the index moves no cached block, but for q, and those that it no longer
\* finds were clean or are given up.
StepKeeps(q) ==
    \A c \in Blocks \ q :
       /\ Cached(c)' => /\ Cached(c)
                        /\ Place(c)' = Place(c)
                        /\ cache_DBA[Place(c)].D => cache_DBA'[Place(c)].D
       /\ Cached(c) /\ ~Cached(c)' /\ cache_DBA[Place(c)].D => latest'[c] = None

\* So does its contents, but for q.
ContentsKept(q) ==
    /\ freed \subseteq freed'
    /\ \A c \in Blocks \ q : latest'[c] # None =>
          /\ latest'[c] = latest[c]
          /\ memory'[c] = memory[c]
          /\ Cached(c)' => data'[Place(c)] = data[Place(c)]

LEMMA DataStep ==
    ASSUME NEW q, StepKeeps(q), ContentsKept(q), NEW c \in Blocks \ q,
           InBlock(c), InMemory(c)
    PROVE  InBlock(c)' /\ InMemory(c)'
<1>1. /\ Cached(c)' => Cached(c) /\ Place(c)' = Place(c)
      /\ Cached(c) /\ ~Cached(c)' /\ cache_DBA[Place(c)].D => latest'[c] = None
  BY DEF StepKeeps
<1>2. Cached(c)' /\ cache_DBA[Place(c)].D => cache_DBA'[Place(c)].D
  BY Zenon DEF StepKeeps
<1>3. /\ freed \subseteq freed'
      /\ latest'[c] # None =>
            /\ latest'[c] = latest[c]
            /\ memory'[c] = memory[c]
            /\ Cached(c)' => data'[Place(c)] = data[Place(c)]
  BY DEF ContentsKept
<1> SUFFICES ASSUME latest'[c] # None PROVE InBlock(c)' /\ InMemory(c)'
  BY DEF InBlock, InMemory
<1>4. /\ latest[c] # None
      /\ Cached(c) => Place(c) \in freed \/ data[Place(c)] = latest[c]
      /\ memory[c] = latest[c] \/ (Cached(c) /\ cache_DBA[Place(c)].D)
  BY <1>3 DEF InBlock, InMemory
<1>5. InBlock(c)'
  BY <1>1, <1>3, <1>4 DEF InBlock
<1>6. CASE memory[c] = latest[c]
  BY <1>3, <1>5, <1>6 DEF InMemory
<1>7. CASE Cached(c) /\ cache_DBA[Place(c)].D
  <2>1. Cached(c)'
    BY <1>1, <1>7
  <2>2. cache_DBA'[Place(c)].D
    BY <1>2, <1>7, <2>1
  <2> QED BY <1>1, <1>5, <2>1, <2>2, Zenon DEF InMemory
<1> QED BY <1>4, <1>6, <1>7

\* What a search no longer finds in a dirty block is given up.
LEMMA LostGivenUp ==
    ASSUME NEW f, Follow(f), NEW c \in Blocks, NEW s \in Slots, ~InCache(c)',
           Holds(s, c)', cache_DBA'[s].D
    PROVE  latest'[c] = None
<1>1. c \in Lost'
  BY DEF Lost
<1> QED BY <1>1 DEF Follow

LEMMA FollowFacts ==
    ASSUME NEW f, Follow(f)
    PROVE  /\ latest' = [b \in Blocks |-> latest'[b]]
           /\ \A c \in Blocks : latest'[c] \in {None, f[c]}
<1>1. PICK lost : lost = Lost'
  OBVIOUS
<1>2. latest' = [b \in Blocks |-> IF b \in lost THEN None ELSE f[b]]
  BY <1>1 DEF Follow
<1> QED BY <1>2
-----------------------------------------------------------------------------
(* Accesses and the beginning of insert.                                     *)

LEMMA TouchedDirty ==
    ASSUME cache_DBA \in Array, NEW path, NEW s \in Slots, cache_DBA[s].D
    PROVE  Touched(path)[s].D
<1>1. PICK r \in Nat : r = Reuse(path, s)
  BY ReuseFacts
<1>2. Touched(path)[s].D = cache_DBA[s].D
  BY <1>1 DEF Touched, Array, Block
<1> QED BY <1>2, Zenon

LEMMA DirtiedDirty ==
    ASSUME NEW dba \in Array, NEW w \in Slots, NEW store \in BOOLEAN, NEW s \in Slots,
           dba[s].D \/ (store /\ s = w)
    PROVE  Dirtied(dba, w, store)[s].D
<1>1. dba = [k \in Slots |-> dba[k]] /\ dba[w] \in Block
  BY DEF Array
<1>2. CASE s = w
  <2>1. Dirtied(dba, w, store)[s].D = (dba[s].D \/ store)
    BY <1>1, <1>2 DEF Dirtied, Block
  <2> QED BY <1>2, <2>1, Zenon
<1>3. CASE s # w
  <2>1. Dirtied(dba, w, store)[s] = dba[s]
    BY <1>1, <1>3 DEF Dirtied
  <2> QED BY <1>3, <2>1, Zenon
<1> QED BY <1>2, <1>3

LEMMA AccessDirty ==
    ASSUME cache_DBA \in Array, TLBTypeOK, NEW b \in Blocks, NEW store \in BOOLEAN,
           Hit(b, store) \/ Miss(b), NEW s \in Slots,
           cache_DBA[s].D \/ (Hit(b, store) /\ store /\ s = Place(b))
    PROVE  cache_DBA'[s].D
<1>1. PICK path : path = Walk(b)
  OBVIOUS
<1>2. Touched(path) \in Array
  BY TouchedType
<1>3. cache_DBA[s].D => Touched(path)[s].D
  BY TouchedDirty
<1>4. CASE HitTLB(b, store)
  <2>1. cache_TLB[b] \in Slots /\ Place(b) = cache_TLB[b]
    BY <1>4 DEF HitTLB, TLBTypeOK, Place
  <2>2. cache_DBA' = Dirtied(cache_DBA, cache_TLB[b], store)
    BY <1>4 DEF HitTLB
  <2>3. cache_DBA[s].D \/ (store /\ s = cache_TLB[b])
    BY <2>1, Zenon
  <2> QED BY <2>1, <2>2, <2>3, DirtiedDirty
<1>5. CASE HitSearch(b, store)
  <2>1. PICK w \in Slots : w = path[num_BTH]
    BY <1>1, <1>5 DEF HitSearch, Found
  <2>2. Place(b) = w
    BY <1>1, <1>5, <2>1 DEF HitSearch, Place
  <2>3. cache_DBA' = Dirtied(Touched(path), w, store)
    BY <1>1, <1>5, <2>1 DEF HitSearch
  <2>4. Touched(path)[s].D \/ (store /\ s = w)
    BY <1>3, <2>2, Zenon
  <2> QED BY <1>2, <2>3, <2>4, DirtiedDirty
<1>6. CASE Miss(b)
  <2>1. cache_DBA' = Touched(path)
    BY <1>1, <1>6 DEF Miss
  <2>2. ~Hit(b, store)
    BY <1>6 DEF Miss, Hit, HitTLB, HitSearch
  <2>3. cache_DBA[s].D
    BY <2>2, Zenon
  <2> QED BY <1>3, <2>1, <2>3, Zenon
<1> QED BY <1>4, <1>5, <1>6 DEF Hit

LEMMA AccessEntries ==
    ASSUME NEW b, NEW store, Hit(b, store) \/ Miss(b), NEW t \in DOMAIN cache_TLB'
    PROVE  \/ t \in DOMAIN cache_TLB /\ cache_TLB'[t] = cache_TLB[t]
           \/ /\ t = b /\ b \notin DOMAIN cache_TLB
              /\ Found(Walk(b), b) /\ cache_TLB'[b] = Walk(b)[num_BTH]
<1>1. CASE HitTLB(b, store)
  BY <1>1 DEF HitTLB
<1>2. CASE HitSearch(b, store)
  <2>1. PICK s : s = Walk(b)[num_BTH]
    OBVIOUS
  <2>2. cache_TLB' = TLBRecord(b, s)
    BY <1>2, <2>1 DEF HitSearch
  <2> QED BY <1>2, <2>1, <2>2, TLBRecordEntries DEF HitSearch
<1>3. CASE Miss(b)
  BY <1>3 DEF Miss
<1> QED BY <1>1, <1>2, <1>3 DEF Hit

\* What an access leaves of the places of the blocks.
AccessedPlaces(b, store) ==
    /\ \A c \in Blocks :
          /\ Cached(c)' => Cached(c) /\ Place(c)' = Place(c)
          /\ Cached(c) => \E s \in Slots : s = Place(c) /\ Holds(s, c) /\ Holds(s, c)'
          /\ InCache(c)' <=> Cached(c)'
    /\ Agreed'
    /\ Miss(b) => ~Cached(b) /\ \A c \in Blocks : Cached(c)' <=> Cached(c)
    /\ Hit(b, store) => Cached(b) /\ Cached(b)'

LEMMA AccessPlaces ==
    ASSUME ExactState, ExactState', Agreed,
           NEW b \in Blocks, NEW store \in BOOLEAN, Hit(b, store) \/ Miss(b),
           phase \in {"ready", "wait"}, phase' \in {"ready", "wait"}
    PROVE  AccessedPlaces(b, store)
<1>1. /\ RestTypeOK /\ TLBInv /\ TLBTypeOK /\ cache_DBA \in Array
      /\ Filling = {} /\ Filling' = {}
  BY DEF ExactState, Filling
<1>2. \A c \in Blocks :
         /\ Cached(c) => Place(c) \in Slots /\ Holds(Place(c), c)
         /\ InCache(c) <=> Cached(c)
         /\ InCache(c)' <=> Cached(c)'
  BY <1>1 DEF ExactState
<1>3. SameBlocks(cache_DBA, cache_DBA')
  BY <1>1, AccessBlocks
<1>4. \A c : Walk(c)' = Walk(c)
  <2>1. SameSearch(cache_DBA') /\ UNCHANGED cache_L0T
    BY <1>1, HitSearchUnchanged, MissSearchUnchanged
  <2> QED BY <2>1, SearchUnchanged
<1>5. Miss(b) => ~Cached(b) /\ \A c \in Blocks : Cached(c)' <=> Cached(c)
  <2>1. Miss(b) => ~InCache(b)
    BY DEF Miss, InCache
  <2>2. Miss(b) => UNCHANGED cache_TLB
    BY DEF Miss
  <2>3. Miss(b) => \A c \in Blocks : Cached(c)' <=> Cached(c)
    BY <1>1, <1>4, <2>2 DEF Cached
  <2> QED BY <1>2, <2>1, <2>3
<1>6. Hit(b, store) => Cached(b) /\ b \in DOMAIN cache_TLB'
  <2>1. HitSearch(b, store) => b \in DOMAIN cache_TLB'
    BY DEF HitSearch, TLBRecord
  <2>2. HitTLB(b, store) => b \in DOMAIN cache_TLB'
    BY DEF HitTLB
  <2>3. Hit(b, store) => InCache(b)
    BY DEF Hit, HitTLB, HitSearch, InCache
  <2> QED BY <1>2, <2>1, <2>2, <2>3 DEF Hit
<1>7. ASSUME NEW c \in Blocks, Cached(c)'
      PROVE  Cached(c) /\ Place(c)' = Place(c)
  <2>1. CASE c \in DOMAIN cache_TLB' /\ c \in DOMAIN cache_TLB /\ cache_TLB'[c] = cache_TLB[c]
    BY <2>1 DEF Cached, Place
  <2>2. CASE /\ c \in DOMAIN cache_TLB' /\ c \notin DOMAIN cache_TLB
             /\ Found(Walk(c), c) /\ cache_TLB'[c] = Walk(c)[num_BTH]
    <3>1. InCache(c)
      BY <2>2 DEF InCache
    <3> QED BY <1>2, <2>2, <3>1 DEF Place
  <2>3. CASE c \notin DOMAIN cache_TLB'
    <3>1. Walk(c)[num_BTH] # None /\ Place(c)' = Walk(c)[num_BTH]
      BY <1>1, <1>4, <1>7, <2>3 DEF Cached, Place
    <3>2. Cached(c)
      BY <1>1, <3>1 DEF Cached
    <3>3. c \in DOMAIN cache_TLB => cache_TLB[c] = Walk(c)[num_BTH]
      BY <3>1 DEF Agreed
    <3> QED BY <3>1, <3>2, <3>3 DEF Place
  <2> QED BY <2>1, <2>2, <2>3, AccessEntries
<1>8. ASSUME NEW c \in Blocks, Cached(c)
      PROVE  \E s \in Slots : s = Place(c) /\ Holds(s, c) /\ Holds(s, c)'
  <2>1. PICK s \in Slots : s = Place(c) /\ Holds(s, c)
    BY <1>2, <1>8
  <2>2. PICK old : old = cache_DBA
    OBVIOUS
  <2>3. /\ cache_DBA'[s].V = old[s].V /\ cache_DBA'[s].LF = old[s].LF
        /\ cache_DBA'[s].TAG = old[s].TAG
    BY <1>3, <2>2 DEF SameBlocks
  <2>4. old[s].V /\ old[s].LF = num_BTH /\ old[s].TAG = c
    BY <2>1, <2>2 DEF Holds
  <2>5. cache_DBA'[s].V
    BY <2>3, <2>4, Zenon
  <2>6. Holds(s, c)'
    BY <2>3, <2>4, <2>5, Zenon DEF Holds
  <2> QED BY <2>1, <2>6
<1>9. Agreed'
  <2> SUFFICES ASSUME NEW t \in DOMAIN cache_TLB'
               PROVE  Walk(t)[num_BTH] \in {None, cache_TLB'[t]}
    BY <1>4 DEF Agreed
  <2> QED BY AccessEntries DEF Agreed
<1>10. Hit(b, store) => Cached(b)'
  BY <1>6 DEF Cached
<1> QED BY <1>2, <1>5, <1>6, <1>7, <1>8, <1>9, <1>10 DEF AccessedPlaces

\* An access of the index, with Follow for the blocks that fall out of the TLB and
\* of every search, keeps to StepKeeps.
LEMMA AccessStepKeeps ==
    ASSUME ExactState, NEW b \in Blocks, NEW store \in BOOLEAN,
           Hit(b, store) \/ Miss(b), AccessedPlaces(b, store),
           (\E f : Follow(f)) \/ Miss(b)
    PROVE  StepKeeps({})
<1>1. cache_DBA \in Array /\ TLBTypeOK
  BY DEF ExactState
<1>2. ASSUME NEW c \in Blocks, Cached(c)'
      PROVE  /\ Cached(c) /\ Place(c)' = Place(c)
             /\ cache_DBA[Place(c)].D => cache_DBA'[Place(c)].D
  <2>1. Cached(c) /\ Place(c)' = Place(c)
    BY <1>2 DEF AccessedPlaces
  <2>2. PICK s \in Slots : s = Place(c)
    BY <2>1 DEF AccessedPlaces
  <2>3. cache_DBA[s].D => cache_DBA'[s].D
    BY <1>1, AccessDirty
  <2> QED BY <2>1, <2>2, <2>3, Zenon
<1>3. ASSUME NEW c \in Blocks, Cached(c), ~Cached(c)', cache_DBA[Place(c)].D
      PROVE  latest'[c] = None
  <2>1. PICK s \in Slots : s = Place(c) /\ Holds(s, c)'
    BY <1>3 DEF AccessedPlaces
  <2>2. cache_DBA'[s].D
    BY <1>1, <1>3, <2>1, AccessDirty
  <2>3. ~InCache(c)'
    BY <1>3 DEF AccessedPlaces
  <2>4. ~Miss(b)
    BY <1>3 DEF AccessedPlaces
  <2>5. PICK f : Follow(f)
    BY <2>4
  <2> QED BY <2>1, <2>2, <2>3, <2>5, LostGivenUp
<1> QED BY <1>2, <1>3 DEF StepKeeps
-----------------------------------------------------------------------------
(* One lemma for each action on the contents.                                *)

\* A hit: the word is read or written in the slot that the access found.
LEMMA OperateKeeps ==
    ASSUME ExactState, ExactState', DataInv, NEW b \in Blocks, NEW op \in Operations,
           Hit(b, IsStore(op)), phase \in {"ready", "wait"},
           UNCHANGED <<phase, req, memory, pending, answer, freed>>,
           Operate(b, op, Place(b))
    PROVE  DataInv'
<1>1. IsStore(op) \in BOOLEAN
  BY DEF IsStore
<1>2. /\ Agreed /\ StillMissing /\ InAnswer /\ Shapes
      /\ \A c \in Blocks : InBlock(c) /\ InMemory(c)
      /\ cache_DBA \in Array /\ TLBTypeOK
      /\ req.block \in Blocks
  BY DEF DataInv, ExactState
<1>3. AccessedPlaces(b, IsStore(op))
  BY <1>1, <1>2, AccessPlaces
<1>4. PICK f : Follow(f) /\ f = (IF IsStore(op) THEN [latest EXCEPT ![b] = op] ELSE latest)
  BY DEF Operate, Written, Kept
<1>5. StepKeeps({})
  BY <1>1, <1>3, <1>4, AccessStepKeeps
<1>6. /\ latest' = [c \in Blocks |-> latest'[c]]
      /\ \A c \in Blocks : latest'[c] \in {None, f[c]}
  BY <1>4, FollowFacts
<1>7. PICK s \in Slots : s = Place(b) /\ Holds(s, b)
  BY <1>3 DEF AccessedPlaces
<1>8. /\ Cached(b) /\ Cached(b)' /\ Place(b)' = s
  BY <1>3, <1>7 DEF AccessedPlaces
<1>9. /\ data' = IF IsStore(op) THEN [data EXCEPT ![s] = op] ELSE data
      /\ freed' = freed /\ memory' = memory
  BY <1>7 DEF Operate
<1>10. /\ data' = [k \in Slots |-> data'[k]]
       /\ \A k \in Slots : k # s => data'[k] = data[k]
       /\ IsStore(op) => data'[s] = op
  BY <1>2, <1>9 DEF Shapes
<1>11. \A c \in Blocks : c # b \/ ~IsStore(op) => f[c] = latest[c]
  BY <1>2, <1>4 DEF Shapes
<1>12. CASE ~IsStore(op)
  <2>1. ContentsKept({})
    BY <1>6, <1>9, <1>11, <1>12 DEF ContentsKept
  <2>2. \A c \in Blocks : InBlock(c)' /\ InMemory(c)'
    BY <1>2, <1>5, <2>1, DataStep
  <2>3. StillMissing' /\ InAnswer'
    BY <1>2, <1>3, <1>6, <1>11, <1>12 DEF StillMissing, InAnswer, AccessedPlaces
  <2>4. Shapes'
    BY <1>2, <1>6, <1>9, <1>10 DEF Shapes
  <2> QED BY <1>3, <2>2, <2>3, <2>4 DEF DataInv, AccessedPlaces
<1>13. CASE IsStore(op)
  <2>1. StepKeeps({b})
    BY <1>5 DEF StepKeeps
  <2>2. ASSUME NEW c \in Blocks \ {b}, Cached(c)'
        PROVE  data'[Place(c)] = data[Place(c)]
    <3>1. PICK k \in Slots : k = Place(c) /\ Holds(k, c)
      BY <2>2, <1>3 DEF AccessedPlaces
    <3>2. k # s
      BY <1>7, <2>2, <3>1 DEF Holds
    <3> QED BY <1>10, <3>1, <3>2
  <2>3. ContentsKept({b})
    BY <1>6, <1>9, <1>11, <2>2 DEF ContentsKept
  <2>4. \A c \in Blocks \ {b} : InBlock(c)' /\ InMemory(c)'
    BY <1>2, <2>1, <2>3, DataStep
  <2>5. f[b] = op
    BY <1>2, <1>4, <1>13 DEF Shapes
  <2>6. InBlock(b)'
    BY <1>6, <1>8, <1>10, <1>13, <2>5 DEF InBlock
  <2>7. InMemory(b)'
    <3>1. cache_DBA'[s].D
      BY <1>1, <1>2, <1>7, <1>13, AccessDirty
    <3> QED BY <1>8, <3>1, Zenon DEF InMemory
  <2>8. StillMissing'
    BY <1>2, <1>3 DEF StillMissing, AccessedPlaces
  <2>9. phase = "wait" => req.block # b
    BY <1>2, <1>8 DEF StillMissing
  <2>10. InAnswer'
    BY <1>2, <1>6, <1>11, <2>9 DEF InAnswer
  <2>11. Shapes'
    BY <1>2, <1>6, <1>9, <1>10 DEF Shapes
  <2> QED BY <1>3, <2>4, <2>6, <2>7, <2>8, <2>10, <2>11 DEF DataInv, AccessedPlaces
<1> QED BY <1>12, <1>13

\* A miss leaves for memory: nothing is read or written yet.
LEMMA MissContentsKeeps ==
    ASSUME ExactState, ExactState', DataInv, NEW b \in Blocks, NEW op \in Operations,
           NEW part \in BOOLEAN, MissContents(b, op, part)
    PROVE  DataInv'
<1>1. /\ Miss(b) /\ phase = "ready" /\ phase' = "wait"
      /\ req' = [block |-> b, dirties |-> IsStore(op) /\ part]
      /\ pending' = [op |-> op, part |-> part] /\ (part => IsStore(op))
      /\ UNCHANGED <<data, memory, answer, freed, latest>>
  BY DEF MissContents, TimingMiss
<1>2. /\ Agreed /\ StillMissing /\ InAnswer /\ Shapes
      /\ \A c \in Blocks : InBlock(c) /\ InMemory(c)
  BY DEF DataInv
<1>3. AccessedPlaces(b, FALSE)
  BY <1>1, <1>2, AccessPlaces
<1>4. StepKeeps({})
  BY <1>1, <1>3, AccessStepKeeps
<1>5. ContentsKept({})
  BY <1>1, <1>3 DEF ContentsKept
<1>6. \A c \in Blocks : InBlock(c)' /\ InMemory(c)'
  BY <1>2, <1>4, <1>5, DataStep
<1>7. StillMissing'
  BY <1>1, <1>3 DEF StillMissing, AccessedPlaces
<1>8. InAnswer'
  <2>1. answer = None
    BY <1>1, <1>2 DEF InAnswer
  <2>2. req'.dirties = (IsStore(op) /\ part) /\ pending'.op = op /\ pending'.part = part
    BY <1>1
  <2>3. pending'.part => req'.dirties /\ IsStore(pending'.op)
    BY <1>1, <2>2, Zenon
  <2> QED BY <1>1, <2>1, <2>3, Zenon DEF InAnswer, IsStore
<1>9. Shapes'
  BY <1>1, <1>2 DEF Shapes
<1> QED BY <1>3, <1>6, <1>7, <1>8, <1>9 DEF DataInv, AccessedPlaces

\* A functional request that misses goes to memory.
LEMMA FunctionalMissKeeps ==
    ASSUME ExactState, ExactState', DataInv, NEW b \in Blocks, NEW op \in Operations,
           FunctionalMiss(b, op)
    PROVE  DataInv'
<1>1. /\ Miss(b) /\ phase \in {"ready", "wait"}
      /\ UNCHANGED <<phase, req, data, pending, freed>>
      /\ \/ ~IsStore(op) /\ UNCHANGED <<memory, answer, latest>>
         \/ /\ IsStore(op) /\ memory' = [memory EXCEPT ![b] = op]
            /\ \/ Overtakes(b) /\ answer' \in {answer, op} /\ Astray({b})
               \/ ~Overtakes(b) /\ UNCHANGED answer /\ Written(b, op)
  BY DEF FunctionalMiss, Functional
<1>2. /\ Agreed /\ StillMissing /\ InAnswer /\ Shapes
      /\ \A c \in Blocks : InBlock(c) /\ InMemory(c)
      /\ req.block \in Blocks
  BY DEF DataInv, ExactState
<1>3. AccessedPlaces(b, FALSE)
  BY <1>1, <1>2, AccessPlaces
<1>4. StepKeeps({})
  BY <1>1, <1>3, AccessStepKeeps
<1>5. ~Cached(b)' /\ (StillMissing' /\ Agreed')
  BY <1>1, <1>2, <1>3 DEF StillMissing, AccessedPlaces
<1>6. CASE ~IsStore(op)
  <2>1. UNCHANGED <<memory, answer, latest>>
    BY <1>1, <1>6
  <2>2. ContentsKept({})
    BY <1>1, <1>3, <2>1 DEF ContentsKept
  <2>3. \A c \in Blocks : InBlock(c)' /\ InMemory(c)'
    BY <1>2, <1>4, <2>2, DataStep
  <2>4. InAnswer' /\ Shapes'
    BY <1>1, <1>2, <2>1 DEF InAnswer, Shapes
  <2> QED BY <1>5, <2>3, <2>4 DEF DataInv
<1>7. CASE IsStore(op)
  <2>1. memory' = [memory EXCEPT ![b] = op]
    BY <1>1, <1>7
  <2>2. PICK f : /\ Follow(f) /\ \A c \in Blocks \ {b} : f[c] = latest[c]
                 /\ \/ Overtakes(b) /\ answer' \in {answer, op} /\ f[b] = None
                    \/ ~Overtakes(b) /\ UNCHANGED answer /\ f[b] = op
    <3>1. CASE Overtakes(b) /\ answer' \in {answer, op} /\ Astray({b})
      <4>1. PICK f : f = [c \in Blocks |-> IF c \in {b} THEN None ELSE latest[c]]
        OBVIOUS
      <4> QED BY <3>1, <4>1 DEF Astray
    <3>2. CASE ~Overtakes(b) /\ UNCHANGED answer /\ Written(b, op)
      <4>1. PICK f : f = [latest EXCEPT ![b] = op]
        OBVIOUS
      <4>2. f[b] = op /\ \A c \in Blocks \ {b} : f[c] = latest[c]
        BY <1>2, <4>1 DEF Shapes
      <4> QED BY <3>2, <4>1, <4>2 DEF Written
    <3> QED BY <1>1, <1>7, <3>1, <3>2
  <2>3. /\ latest' = [c \in Blocks |-> latest'[c]]
        /\ \A c \in Blocks : latest'[c] \in {None, f[c]}
    BY <2>2, FollowFacts
  <2>4. /\ memory' = [c \in Blocks |-> memory'[c]] /\ memory'[b] = op
        /\ \A c \in Blocks \ {b} : memory'[c] = memory[c]
    BY <1>2, <2>1 DEF Shapes
  <2>5. StepKeeps({b})
    BY <1>4 DEF StepKeeps
  <2>6. ContentsKept({b})
    BY <1>1, <1>3, <2>2, <2>3, <2>4 DEF ContentsKept, AccessedPlaces
  <2>7. \A c \in Blocks \ {b} : InBlock(c)' /\ InMemory(c)'
    BY <1>2, <2>5, <2>6, DataStep
  <2>8. InBlock(b)'
    BY <1>5 DEF InBlock
  <2>9. InMemory(b)'
    <3>1. latest'[b] # None => memory'[b] = latest'[b]
      BY <2>2, <2>3, <2>4
    <3> QED BY <3>1, Zenon DEF InMemory
  <2>10. InAnswer'
    <3>1. answer' # None => phase' = "wait" /\ latest'[req.block] \in {None, answer'}
      <4>1. SUFFICES ASSUME answer' # None
                     PROVE  phase' = "wait" /\ latest'[req.block] \in {None, answer'}
        OBVIOUS
      <4>2. answer # None /\ phase = "wait" /\ latest[req.block] \in {None, answer}
        BY <1>1, <1>2, <2>2, <4>1 DEF Overtakes, InAnswer
      <4>3. CASE req.block = b
        BY <1>1, <2>2, <2>3, <4>2, <4>3 DEF Overtakes
      <4>4. CASE req.block # b
        BY <1>1, <1>2, <2>2, <2>3, <4>2, <4>4 DEF Overtakes
      <4> QED BY <4>3, <4>4
    <3>2. phase' \in {"ready", "wait"} /\ req' = req /\ pending' = pending
      BY <1>1
    <3>3. phase = "wait" /\ pending.part => req.dirties /\ IsStore(pending.op)
      BY <1>2 DEF InAnswer
    <3> QED BY <1>1, <3>1, <3>2, <3>3 DEF InAnswer, IsStore
  <2>11. Shapes'
    BY <1>1, <1>2, <2>3, <2>4 DEF Shapes
  <2> QED BY <1>5, <2>7, <2>8, <2>9, <2>10, <2>11 DEF DataInv
<1> QED BY <1>6, <1>7

\* When the index stays as it is, so do the places of the blocks.
LEMMA SameIndex ==
    ASSUME UNCHANGED vars
    PROVE  /\ \A c : (Cached(c)' <=> Cached(c)) /\ Place(c)' = Place(c)
           /\ Agreed => Agreed'
           /\ StillMissing => StillMissing'
           /\ UNCHANGED <<cache_DBA, phase, req>>
           /\ StepKeeps({})
<1>1. UNCHANGED <<cache_L0T, cache_DBA, cache_TLB, phase, req, last_BTH, current_level>>
  BY DEF vars, index
<1>2. \A c : Walk(c)' = Walk(c)
  BY <1>1 DEF Walk, Tables
<1>3. Filling' = Filling
  BY <1>1 DEF Filling
<1>4. \A c : (Cached(c)' <=> Cached(c)) /\ Place(c)' = Place(c)
  BY <1>1, <1>2, <1>3 DEF Cached, Place
<1>5. Agreed => Agreed'
  BY <1>1, <1>2 DEF Agreed
<1>6. StillMissing => StillMissing'
  BY <1>1, <1>4 DEF StillMissing
<1>7. StepKeeps({})
  BY <1>1, <1>4 DEF StepKeeps
<1> QED BY <1>1, <1>4, <1>5, <1>6, <1>7

\* Memory performs the request that was forwarded: its answer is the latest word.
LEMMA MemoryAnswersKeeps ==
    ASSUME ExactState, DataInv, MemoryAnswers
    PROVE  DataInv'
<1>1. PICK b \in Blocks : b = req.block
  BY DEF ExactState
<1>2. PICK whole \in BOOLEAN : whole = (IsStore(pending.op) /\ ~pending.part)
  BY DEF IsStore
<1>3. /\ phase = "wait" /\ answer = None /\ UNCHANGED vars
      /\ UNCHANGED <<data, pending, freed>>
      /\ \/ /\ whole
            /\ memory' = [memory EXCEPT ![b] = pending.op]
            /\ answer' = pending.op
            /\ Written(b, pending.op)
         \/ /\ ~whole
            /\ answer' = memory[b]
            /\ UNCHANGED <<memory, latest>>
  BY <1>1, <1>2 DEF MemoryAnswers
<1>4. /\ Agreed /\ StillMissing /\ InAnswer /\ Shapes
      /\ \A c \in Blocks : InBlock(c) /\ InMemory(c)
  BY DEF DataInv
<1>5. /\ \A c : (Cached(c)' <=> Cached(c)) /\ Place(c)' = Place(c)
      /\ Agreed' /\ StillMissing'
      /\ UNCHANGED <<cache_DBA, phase, req>>
      /\ StepKeeps({})
  BY <1>3, <1>4, SameIndex
<1>6. ~Cached(b)
  BY <1>1, <1>3, <1>4 DEF StillMissing
<1>7. CASE ~whole
  <2>1. ContentsKept({})
    BY <1>3, <1>5, <1>7 DEF ContentsKept
  <2>2. \A c \in Blocks : InBlock(c)' /\ InMemory(c)'
    BY <1>4, <1>5, <2>1, DataStep
  <2>3. latest[b] \in {None, memory[b]}
    BY <1>4, <1>6 DEF InMemory
  <2>4. InAnswer' /\ Shapes'
    BY <1>1, <1>3, <1>4, <1>5, <1>7, <2>3 DEF InAnswer, Shapes
  <2> QED BY <1>5, <2>2, <2>4 DEF DataInv
<1>8. CASE whole
  <2>1. PICK f : f = [latest EXCEPT ![b] = pending.op]
    OBVIOUS
  <2>2. Follow(f) /\ f[b] = pending.op /\ \A c \in Blocks \ {b} : f[c] = latest[c]
    BY <1>3, <1>4, <1>8, <2>1 DEF Written, Shapes
  <2>3. /\ latest' = [c \in Blocks |-> latest'[c]]
        /\ \A c \in Blocks : latest'[c] \in {None, f[c]}
    BY <2>2, FollowFacts
  <2>4. /\ memory' = [c \in Blocks |-> memory'[c]] /\ memory'[b] = pending.op
        /\ \A c \in Blocks \ {b} : memory'[c] = memory[c]
    BY <1>3, <1>4, <1>8 DEF Shapes
  <2>5. StepKeeps({b}) /\ ContentsKept({b})
    BY <1>3, <1>5, <2>2, <2>3, <2>4 DEF StepKeeps, ContentsKept
  <2>6. \A c \in Blocks \ {b} : InBlock(c)' /\ InMemory(c)'
    BY <1>4, <2>5, DataStep
  <2>7. InBlock(b)'
    BY <1>5, <1>6 DEF InBlock
  <2>8. InMemory(b)'
    <3>1. latest'[b] # None => memory'[b] = latest'[b]
      BY <2>2, <2>3, <2>4
    <3> QED BY <3>1, Zenon DEF InMemory
  <2>9. InAnswer' /\ Shapes'
    BY <1>1, <1>3, <1>4, <1>5, <1>8, <2>2, <2>3, <2>4 DEF InAnswer, Shapes
  <2> QED BY <1>5, <2>6, <2>7, <2>8, <2>9 DEF DataInv
<1> QED BY <1>7, <1>8

\* A writeback that memory takes late: its block is given up.
LEMMA UnparkKeeps ==
    ASSUME ExactState, DataInv, UnparkContents
    PROVE  DataInv'
<1>1. PICK x, to : memory' = [memory EXCEPT ![to] = x] /\ Astray({to})
  BY DEF UnparkContents
<1>2. /\ UNCHANGED vars /\ UNCHANGED <<data, pending, answer>>
      /\ freed \subseteq freed' /\ req.block \in Blocks
  BY DEF UnparkContents, ExactState
<1>3. /\ Agreed /\ StillMissing /\ InAnswer /\ Shapes
      /\ \A c \in Blocks : InBlock(c) /\ InMemory(c)
  BY DEF DataInv
<1>4. /\ \A c : (Cached(c)' <=> Cached(c)) /\ Place(c)' = Place(c)
      /\ Agreed' /\ StillMissing'
      /\ UNCHANGED <<cache_DBA, phase, req>>
      /\ StepKeeps({})
  BY <1>2, <1>3, SameIndex
<1>5. PICK f : /\ Follow(f)
               /\ f = [c \in Blocks |-> IF c \in {to} THEN None ELSE latest[c]]
  BY <1>1 DEF Astray
<1>6. /\ latest' = [c \in Blocks |-> latest'[c]]
      /\ \A c \in Blocks : latest'[c] \in {None, f[c]}
  BY <1>5, FollowFacts
<1>7. /\ memory' = [c \in Blocks |-> memory'[c]]
      /\ \A c \in Blocks : c # to => memory'[c] = memory[c]
  BY <1>1, <1>3 DEF Shapes
<1>8. \A c \in Blocks : latest'[c] # None => c # to /\ latest'[c] = latest[c]
  BY <1>5, <1>6
<1>9. ContentsKept({})
  BY <1>2, <1>4, <1>7, <1>8 DEF ContentsKept
<1>10. \A c \in Blocks : InBlock(c)' /\ InMemory(c)'
  BY <1>3, <1>4, <1>9, DataStep
<1>11. InAnswer' /\ Shapes'
  BY <1>2, <1>3, <1>4, <1>6, <1>7, <1>8 DEF InAnswer, Shapes
<1> QED BY <1>4, <1>10, <1>11 DEF DataInv

\* handleResponse begins: nothing moves, and the slot to fill is not chosen yet.
LEMMA BeginContentsKeeps ==
    ASSUME ExactState, DataInv, BeginContents
    PROVE  DataInv'
<1>1. /\ Agreed /\ StillMissing /\ InAnswer /\ Shapes
      /\ \A c \in Blocks : InBlock(c) /\ InMemory(c)
      /\ RestTypeOK /\ cache_DBA \in Array /\ cache_L0T \in L0Table
      /\ req.block \in Blocks
  BY DEF DataInv, ExactState
<1>2. /\ InsertBegin /\ phase = "wait" /\ answer # None
      /\ UNCHANGED <<cache_L0T, cache_TLB, VBIR, req>>
      /\ UNCHANGED <<data, memory, pending, answer, freed, latest>>
      /\ cache_DBA' = Touched(Walk(req.block))
  BY DEF BeginContents, InsertBegin
<1>3. PICK owner : IndexOwned(owner)
  BY DEF ExactState
<1>4. Filling = {} /\ ~Cached(req.block)
  BY <1>1, <1>2 DEF StillMissing, Filling
<1>5. req.block \notin DOMAIN cache_TLB /\ Walk(req.block)[num_BTH] = None
  BY <1>1, <1>4 DEF ExactState
<1>6. phase' = "insert"
  BY <1>2, <1>5, Numbers DEF InsertBegin, Found
<1>7. current_level' \in Levels
  <2>1. PICK s \in Slots \cup {None} :
           /\ EndsAt(Walk(req.block), s)
           /\ current_level' = IF s = None THEN 1 ELSE cache_DBA[s].LF + 1
    BY <1>2 DEF InsertBegin
  <2>2. Owned(cache_L0T, cache_DBA, owner, {})
    BY <1>3, <1>4 DEF IndexOwned
  <2> QED BY <1>1, <1>5, <2>1, <2>2, SearchEnds
<1>8. Filling' = {}
  BY <1>7, Numbers DEF Filling, Levels
<1>9. \A c : Walk(c)' = Walk(c)
  BY <1>1, <1>2, TouchedSearch, SearchUnchanged
<1>10. \A c : (Cached(c)' <=> Cached(c)) /\ Place(c)' = Place(c)
  BY <1>2, <1>4, <1>8, <1>9 DEF Cached, Place
<1>11. Agreed' /\ StillMissing'
  BY <1>1, <1>2, <1>4, <1>9, <1>10 DEF Agreed, StillMissing
<1>12. ASSUME NEW c \in Blocks, Cached(c), cache_DBA[Place(c)].D
       PROVE  cache_DBA'[Place(c)].D
  <2>1. PICK s \in Slots : s = Place(c)
    BY <1>12 DEF ExactState
  <2> QED BY <1>1, <1>2, <1>12, <2>1, TouchedDirty
<1>13. StepKeeps({})
  BY <1>10, <1>12, Zenon DEF StepKeeps
<1>14. ContentsKept({})
  BY <1>2, <1>10 DEF ContentsKept
<1>15. \A c \in Blocks : InBlock(c)' /\ InMemory(c)'
  BY <1>1, <1>13, <1>14, DataStep
<1>16. InAnswer' /\ Shapes'
  BY <1>1, <1>2, <1>6 DEF InAnswer, Shapes
<1> QED BY <1>11, <1>15, <1>16 DEF DataInv
-----------------------------------------------------------------------------
(* The end of insert: the block that was filled.                             *)

\* The fill enters the TLB; nothing else moves.
FilledPlaces ==
    /\ last_BTH \in Slots
    /\ req.block \in DOMAIN cache_TLB' /\ cache_TLB'[req.block] = last_BTH
    /\ \A c \in Blocks \ {req.block} :
          /\ Cached(c)' => Cached(c) /\ Place(c)' = Place(c)
          /\ Cached(c) => \E s \in Slots \ {last_BTH} : s = Place(c) /\ Holds(s, c)'
          /\ InCache(c)' <=> Cached(c)'
    /\ \A s \in Slots : cache_DBA[s].D => cache_DBA'[s].D
    /\ req.dirties => cache_DBA'[last_BTH].D
    /\ Agreed'

LEMMA EndDirty ==
    ASSUME cache_DBA \in Array, req \in Requests, last_BTH \in Slots, InsertEnd,
           NEW s \in Slots, cache_DBA[s].D \/ (req.dirties /\ s = last_BTH)
    PROVE  cache_DBA'[s].D
<1>1. PICK tagged : tagged = [cache_DBA EXCEPT ![last_BTH].TAG = req.block]
  OBVIOUS
<1>2. req.block \in Blocks /\ req.dirties \in BOOLEAN
  BY DEF Requests
<1>3. tagged \in Array
  BY <1>1, <1>2 DEF Array, Block
<1>4. tagged[s].D = cache_DBA[s].D
  BY <1>1 DEF Array, Block
<1>5. tagged[s].D \/ (req.dirties /\ s = last_BTH)
  BY <1>4, Zenon
<1>6. cache_DBA' = Dirtied(tagged, last_BTH, req.dirties)
  BY <1>1 DEF InsertEnd
<1>7. PICK store \in BOOLEAN : store = req.dirties
  BY <1>2
<1>8. tagged[s].D \/ (store /\ s = last_BTH)
  BY <1>5, <1>7, Zenon
<1>9. Dirtied(tagged, last_BTH, store)[s].D
  BY <1>3, <1>8, DirtiedDirty
<1> QED BY <1>6, <1>7, <1>9, Zenon

LEMMA EndPlaces ==
    ASSUME IndexInv, ExactState, ExactState', Agreed, StillMissing, InsertEnd
    PROVE  FilledPlaces
<1>1. /\ RestTypeOK /\ TLBInv /\ TLBTypeOK /\ cache_DBA \in Array /\ cache_L0T \in L0Table
      /\ TLBExact /\ req.block \in Blocks
      /\ phase = "insert" /\ phase' = "ready" /\ UNCHANGED <<cache_L0T, req>>
      /\ current_level > num_BTH
      /\ cache_TLB' = TLBRecord(req.block, last_BTH)
  BY DEF ExactState, InsertEnd
<1>2. last_BTH \in Slots /\ Filling = {last_BTH} /\ Filling' = {}
  BY <1>1, EndFields DEF Filling
<1>3. PICK owner : IndexOwned(owner)
  BY DEF ExactState
<1>4. \A s \in Slots : LET new == cache_DBA'[s]
                          old == cache_DBA[s]
                      IN  /\ new.BTH = old.BTH /\ new.V = old.V /\ new.PV = old.PV
                          /\ new.LF = old.LF /\ new.PT = old.PT
                          /\ new.TAG = IF s = last_BTH THEN req.block ELSE old.TAG
  BY EndFields
<1>5. \A c : Walk(c)' = Walk(c)
  <2>1. Tables' = Tables
    BY <1>4 DEF Tables
  <2> QED BY <1>1, <2>1 DEF Walk
<1>6. owner[last_BTH] = req.block
  <2>1. Owned(cache_L0T, cache_DBA, owner, {last_BTH})
    BY <1>2, <1>3 DEF IndexOwned
  <2>2. OnPath(cache_DBA, owner, req.block, num_BTH + 1, last_BTH)
    <3>1. current_level = num_BTH + 1
      BY <1>1, Numbers DEF RestTypeOK
    <3> QED BY <1>1, <1>3, <3>1 DEF IndexOwned
  <2>3. PICK l0t, dba, new, b, w :
           /\ l0t = cache_L0T /\ dba = cache_DBA /\ new = cache_DBA'
           /\ b = req.block /\ w = last_BTH
    OBVIOUS
  <2>4. Tagged(dba, new, w, b)
    BY <1>4, <2>3 DEF Tagged
  <2>5. /\ Owned(l0t, dba, owner, {w}) /\ OnPath(dba, owner, b, num_BTH + 1, w)
        /\ l0t \in L0Table /\ w \in Slots /\ b \in Blocks
    BY <1>1, <1>2, <2>1, <2>2, <2>3
  <2>6. owner[w] = b
    BY <2>4, <2>5, TagOwned
  <2> QED BY <2>3, <2>6
<1>7. ASSUME NEW c \in Blocks, Walk(c)[num_BTH] = last_BTH PROVE c = req.block
  <2>1. PICK l0t, dba : l0t = cache_L0T /\ dba = cache_DBA
    OBVIOUS
  <2>2. PICK path : path = Path(l0t, [k \in Slots |-> dba[k].BTH], c)
    OBVIOUS
  <2>3. path = Walk(c)
    BY <2>1, <2>2 DEF Walk, Tables
  <2>4. Owned(l0t, dba, owner, Filling) /\ l0t \in L0Table /\ dba \in Array
    BY <1>1, <1>3, <2>1 DEF IndexOwned
  <2>5. num_BTH \in Levels /\ path[num_BTH] # None
    BY <1>2, <1>7, <2>3, Numbers DEF Levels
  <2>6. Prefix(owner[path[num_BTH]], num_BTH) = Prefix(c, num_BTH)
    BY <2>2, <2>4, <2>5, WalkOwned
  <2>7. Prefix(owner[last_BTH], num_BTH) = Prefix(c, num_BTH)
    BY <1>7, <2>3, <2>6
  <2> QED BY <1>1, <1>6, <2>7, PrefixFacts
<1>8. /\ req.block \in DOMAIN cache_TLB'
      /\ cache_TLB'[req.block] = last_BTH
  BY <1>1 DEF TLBRecord
<1>9. ASSUME NEW t \in DOMAIN cache_TLB', t # req.block
      PROVE  t \in DOMAIN cache_TLB /\ cache_TLB'[t] = cache_TLB[t]
  BY <1>1, <1>9, TLBRecordEntries
<1>10. ASSUME NEW c \in Blocks \ {req.block}, Cached(c)'
       PROVE  Cached(c) /\ Place(c)' = Place(c)
  <2>1. CASE c \in DOMAIN cache_TLB'
    BY <1>9, <2>1 DEF Cached, Place
  <2>2. CASE c \notin DOMAIN cache_TLB'
    <3>1. Walk(c)[num_BTH] # None /\ Place(c)' = Walk(c)[num_BTH]
      BY <1>2, <1>5, <1>10, <2>2 DEF Cached, Place
    <3>2. Walk(c)[num_BTH] # last_BTH
      BY <1>7
    <3>3. Cached(c)
      BY <1>2, <3>1, <3>2 DEF Cached
    <3>4. c \in DOMAIN cache_TLB => cache_TLB[c] = Walk(c)[num_BTH]
      BY <3>1 DEF Agreed
    <3> QED BY <3>1, <3>3, <3>4 DEF Place
  <2> QED BY <2>1, <2>2
<1>11. ASSUME NEW c \in Blocks \ {req.block}, Cached(c)
       PROVE  \E s \in Slots \ {last_BTH} : s = Place(c) /\ Holds(s, c)'
  <2>1. PICK s \in Slots \ {last_BTH} : s = Place(c) /\ Holds(s, c)
    BY <1>2, <1>11 DEF ExactState
  <2>2. PICK old : old = cache_DBA
    OBVIOUS
  <2>3. /\ cache_DBA'[s].V = old[s].V /\ cache_DBA'[s].LF = old[s].LF
        /\ cache_DBA'[s].TAG = old[s].TAG
    BY <1>4, <2>2
  <2>4. old[s].V /\ old[s].LF = num_BTH /\ old[s].TAG = c
    BY <2>1, <2>2 DEF Holds
  <2>5. Holds(s, c)'
    BY <2>3, <2>4, Zenon DEF Holds
  <2> QED BY <2>1, <2>5
<1>12. \A c \in Blocks : InCache(c)' <=> Cached(c)'
  BY <1>2 DEF ExactState
<1>13. /\ \A s \in Slots : cache_DBA[s].D => cache_DBA'[s].D
       /\ req.dirties => cache_DBA'[last_BTH].D
  BY <1>1, <1>2, EndDirty DEF RestTypeOK
<1>14. Agreed'
  <2> SUFFICES ASSUME NEW t \in DOMAIN cache_TLB'
               PROVE  Walk(t)[num_BTH] \in {None, cache_TLB'[t]}
    BY <1>5 DEF Agreed
  <2>1. CASE t = req.block
    BY <1>1, <1>2, <1>8, <2>1 DEF StillMissing, Cached
  <2>2. CASE t # req.block
    BY <1>9, <2>2 DEF Agreed
  <2> QED BY <2>1, <2>2
<1> QED BY <1>2, <1>8, <1>10, <1>11, <1>12, <1>13, <1>14 DEF FilledPlaces

LEMMA EndContentsKeeps ==
    ASSUME IndexInv, ExactState, ExactState', DataInv, EndContents
    PROVE  DataInv'
<1>1. PICK b, w : b = req.block /\ w = last_BTH /\ b \in Blocks
  BY DEF ExactState
<1>2. /\ Agreed /\ StillMissing /\ InAnswer /\ Shapes
      /\ \A c \in Blocks : InBlock(c) /\ InMemory(c)
  BY DEF DataInv
<1>3. /\ InsertEnd /\ phase = "insert" /\ phase' = "ready" /\ UNCHANGED req
      /\ answer' = None /\ UNCHANGED <<memory, freed>>
      /\ \/ /\ pending.part /\ data' = [data EXCEPT ![w] = pending.op]
            /\ Written(b, pending.op)
         \/ /\ ~pending.part /\ data' = [data EXCEPT ![w] = answer]
            /\ Kept
  BY <1>1 DEF EndContents, InsertEnd
<1>4. FilledPlaces
  BY <1>2, <1>3, EndPlaces
<1>5. w \in Slots /\ ~Cached(b) /\ answer # None
  BY <1>1, <1>2, <1>3, <1>4 DEF FilledPlaces, StillMissing, InAnswer
<1>6. PICK f : /\ Follow(f) /\ \A c \in Blocks \ {b} : f[c] = latest[c]
               /\ \/ /\ pending.part /\ f[b] = pending.op
                     /\ data' = [data EXCEPT ![w] = pending.op]
                  \/ /\ ~pending.part /\ f[b] = latest[b]
                     /\ data' = [data EXCEPT ![w] = answer]
  <2>1. CASE /\ pending.part /\ data' = [data EXCEPT ![w] = pending.op]
             /\ Written(b, pending.op)
    <3>1. PICK f : f = [latest EXCEPT ![b] = pending.op]
      OBVIOUS
    <3>2. f[b] = pending.op /\ \A c \in Blocks \ {b} : f[c] = latest[c]
      BY <1>1, <1>2, <3>1 DEF Shapes
    <3> QED BY <2>1, <3>1, <3>2 DEF Written
  <2>2. CASE /\ ~pending.part /\ data' = [data EXCEPT ![w] = answer]
             /\ Kept
    BY <2>2 DEF Kept
  <2> QED BY <1>3, <2>1, <2>2
<1>7. /\ latest' = [c \in Blocks |-> latest'[c]]
      /\ \A c \in Blocks : latest'[c] \in {None, f[c]}
  BY <1>6, FollowFacts
<1>8. /\ data' = [s \in Slots |-> data'[s]]
      /\ \A s \in Slots \ {w} : data'[s] = data[s]
      /\ data'[w] = IF pending.part THEN pending.op ELSE answer
  BY <1>2, <1>5, <1>6 DEF Shapes
<1>9. StepKeeps({b})
  <2> SUFFICES ASSUME NEW c \in Blocks \ {b}
               PROVE  /\ Cached(c)' => /\ Cached(c)
                                       /\ Place(c)' = Place(c)
                                       /\ cache_DBA[Place(c)].D => cache_DBA'[Place(c)].D
                      /\ Cached(c) /\ ~Cached(c)' /\ cache_DBA[Place(c)].D =>
                            latest'[c] = None
    BY DEF StepKeeps
  <2>1. Cached(c)' => Cached(c) /\ Place(c)' = Place(c)
    BY <1>1, <1>4 DEF FilledPlaces
  <2>2. Cached(c) => \E s \in Slots : s = Place(c) /\ Holds(s, c)'
    BY <1>1, <1>4 DEF FilledPlaces
  <2>3. \A s \in Slots : cache_DBA[s].D => cache_DBA'[s].D
    BY <1>4 DEF FilledPlaces
  <2>4. Cached(c) /\ cache_DBA[Place(c)].D => cache_DBA'[Place(c)].D
    BY <2>2, <2>3, Zenon
  <2>5. ASSUME Cached(c), ~Cached(c)', cache_DBA[Place(c)].D PROVE latest'[c] = None
    <3>1. PICK s \in Slots : s = Place(c) /\ Holds(s, c)'
      BY <2>2, <2>5
    <3>2. cache_DBA'[s].D
      BY <2>3, <2>5, <3>1, Zenon
    <3>3. ~InCache(c)'
      BY <1>1, <1>4, <2>5 DEF FilledPlaces
    <3> QED BY <1>6, <3>1, <3>2, <3>3, LostGivenUp
  <2> QED BY <2>1, <2>4, <2>5, Zenon
<1>10. ContentsKept({b})
  <2>1. ASSUME NEW c \in Blocks \ {b}, Cached(c)' PROVE data'[Place(c)] = data[Place(c)]
    BY <1>1, <1>4, <1>8, <2>1 DEF FilledPlaces
  <2> QED BY <1>3, <1>6, <1>7, <2>1 DEF ContentsKept
<1>11. \A c \in Blocks \ {b} : InBlock(c)' /\ InMemory(c)'
  BY <1>2, <1>9, <1>10, DataStep
<1>12. Cached(b)' /\ Place(b)' = w
  BY <1>1, <1>4 DEF FilledPlaces, Cached, Place
<1>13. latest[b] \in {None, answer} /\ (latest[b] # None => memory[b] = latest[b])
  BY <1>1, <1>2, <1>5 DEF InAnswer, InMemory
<1>14. InBlock(b)'
  BY <1>1, <1>6, <1>7, <1>8, <1>12, <1>13 DEF InBlock
<1>15. InMemory(b)'
  <2>1. CASE pending.part
    <3>1. req.dirties
      BY <1>2, <1>3, <2>1, Zenon DEF InAnswer
    <3>2. cache_DBA'[w].D
      BY <1>1, <1>4, <3>1 DEF FilledPlaces
    <3> QED BY <1>12, <3>2, Zenon DEF InMemory
  <2>2. CASE ~pending.part
    <3>1. latest'[b] # None => memory'[b] = latest'[b]
      BY <1>1, <1>3, <1>6, <1>7, <1>13, <2>2
    <3> QED BY <3>1, Zenon DEF InMemory
  <2> QED BY <2>1, <2>2
<1>16. StillMissing' /\ InAnswer'
  BY <1>3 DEF StillMissing, InAnswer
<1>17. Shapes'
  BY <1>2, <1>3, <1>7, <1>8 DEF Shapes
<1> QED BY <1>4, <1>11, <1>14, <1>15, <1>16, <1>17 DEF DataInv, FilledPlaces
-----------------------------------------------------------------------------
(* One turn of insert's loop.                                                *)

\* The eviction and the link leave the dirty bits alone.
LEMMA UnlinkedDirty ==
    ASSUME NEW dba \in Array, NEW v, NEW s \in Slots
    PROVE  Unlinked(dba, v)[s].D = dba[s].D
<1>1. PICK p, e : p = dba[v].PT /\ e = Min(Naming(dba, v))
  OBVIOUS
<1>2. CASE Unlinked(dba, v) = dba
  BY <1>2
<1>3. CASE Unlinked(dba, v) = [dba EXCEPT ![p].BTH[e].V = FALSE]
  BY <1>3 DEF Array, Block
<1> QED BY <1>1, <1>2, <1>3 DEF Unlinked

LEMMA VacatedDirty ==
    ASSUME NEW dba \in Array, NEW v, NEW s \in Slots
    PROVE  Vacated(dba, v)[s].D = dba[s].D
<1>1. CASE Vacated(dba, v) = dba
  BY <1>1
<1>2. CASE Vacated(dba, v) = [dba EXCEPT ![v].TAG = 0]
  BY <1>2 DEF Array, Block
<1>3. CASE Vacated(dba, v) = [k \in Slots |-> IF k \in Children(dba, v)
                                              THEN [dba[k] EXCEPT !.PV = FALSE] ELSE dba[k]]
  BY <1>3 DEF Array, Block
<1> QED BY <1>1, <1>2, <1>3 DEF Vacated

LEMMA InstalledDirty ==
    ASSUME NEW dba \in Array, NEW b, NEW l, NEW w, NEW s \in Slots, s # w
    PROVE  Installed(Linked(dba, b, l, w), b, l, w)[s].D = dba[s].D
<1>1. PICK linked : linked = Linked(dba, b, l, w)
  OBVIOUS
<1>2. linked[s].D = dba[s].D /\ linked = [k \in Slots |-> linked[k]]
  BY <1>1 DEF Linked, Array, Block
<1>3. Installed(linked, b, l, w)[s] = linked[s]
  BY <1>2 DEF Installed
<1> QED BY <1>1, <1>2, <1>3

LEMMA InstallDirty ==
    ASSUME RestTypeOK, InstallLevel, phase' # "overrun", NEW s \in Slots, s # last_BTH'
    PROVE  cache_DBA'[s].D = cache_DBA[s].D
<1>1. PICK n \in 0 .. MNA, w \in Slots \cup {None} : Turn(n, w)
  BY DEF InstallLevel
<1>2. PICK v : v = Slot(n)
  OBVIOUS
<1>3. PICK left : left = Vacated(Unlinked(Scanned(n), v), v)
  OBVIOUS
<1>4. w # None /\ last_BTH' = w
  BY <1>1 DEF Turn
<1>5. cache_DBA' = Installed(Linked(left, req.block, current_level, w),
                             req.block, current_level, w)
  BY <1>1, <1>2, <1>3, <1>4 DEF Turn
<1>6. v \in Slots /\ cache_DBA \in Array
  BY <1>2, Numbers DEF Slot, Slots, RestTypeOK
<1>7. Scanned(n) \in Array /\ Scanned(n)[s].D = cache_DBA[s].D
  BY <1>6, ScannedType, ScannedFields
<1>8. Unlinked(Scanned(n), v) \in Array /\ Unlinked(Scanned(n), v)[s].D = cache_DBA[s].D
  BY <1>6, <1>7, UnlinkedType, UnlinkedDirty
<1>9. left \in Array /\ left[s].D = cache_DBA[s].D
  BY <1>3, <1>6, <1>8, VacatedType, VacatedDirty
<1> QED BY <1>4, <1>5, <1>9, InstalledDirty

\* Where the scan ends is where it ends first.
LEMMA ScanEndsOnce ==
    ASSUME NEW n \in 0 .. MNA, NEW m \in 0 .. MNA, ScanEnds(n), ScanEnds(m)
    PROVE  n = m
<1>1. ASSUME NEW j \in 0 .. MNA, NEW k \in 0 .. MNA, ScanEnds(j), ScanEnds(k), j < k
      PROVE  FALSE
  <2>1. j \in 0 .. k - 1 /\ j # MNA
    BY <1>1, Numbers
  <2>2. j < capacity /\ ~Replaceable(Slot(j))
    BY <1>1, <2>1 DEF ScanEnds
  <2> QED BY <1>1, <2>1, <2>2, Numbers DEF ScanEnds
<1>2. ~(n < m) /\ ~(m < n)
  BY <1>1
<1> QED BY <1>2, Numbers

LEMMA VictimIs ==
    ASSUME NEW n \in 0 .. MNA, ScanEnds(n), Slot(n) \in Slots
    PROVE  Victim = Slot(n)
<1>1. \A s \in Slots : (\E m \in 0 .. MNA : ScanEnds(m) /\ s = Slot(m)) => s = Slot(n)
  BY ScanEndsOnce
<1> QED BY <1>1 DEF Victim

\* The turn, as the blocks see it: w is taken from a block that is written back if
\* it is dirty, and nothing else is lost on the way but what no search finds any more.
InstallsFor(own, w) ==
    /\ w \in Slots /\ last_BTH' = w /\ current_level \in Levels
    /\ current_level' = current_level + 1 /\ UNCHANGED <<phase, req>>
    /\ own[w] = req.block
    /\ IndexOwned(own)'
    /\ Installs(cache_L0T, cache_DBA, cache_L0T', cache_DBA',
                req.block, current_level, w, last_BTH)
    /\ \A t \in DOMAIN cache_TLB' :
          /\ t \in DOMAIN cache_TLB /\ cache_TLB'[t] = cache_TLB[t]
          /\ cache_TLB[t] # w
    /\ \A s \in Slots \ {w} : cache_DBA[s].D => cache_DBA'[s].D
    /\ \A c : Holds(w, c) /\ cache_DBA[w].D => wb' # None /\ Victim = w

\* A dirty block that insert installs another one over is written back.
LEMMA DirtyVictimWrittenBack ==
    ASSUME cache_DBA \in Array, NEW n, NEW w \in Slots, wb' = WrittenBack(Scanned(n), w),
           NEW c, Holds(w, c), cache_DBA[w].D
    PROVE  wb' # None
<1>1. /\ Scanned(n)[w].V /\ Scanned(n)[w].LF = num_BTH
      /\ Scanned(n)[w].D = cache_DBA[w].D
  BY ScannedFields DEF Holds
<1>2. Scanned(n)[w].D
  BY <1>1, Zenon
<1>3. wb' = Vacated(Scanned(n), w)[w].TAG
  BY <1>1, <1>2, Numbers DEF WrittenBack, Evicted, IsData
<1>4. Vacated(Scanned(n), w)[w].TAG \in Blocks
  BY ScannedType, VacatedType DEF Array, Block
<1> QED BY <1>3, <1>4, Numbers DEF None

LEMMA SweepInstall ==
    ASSUME HistoryInv, ~strayed, ~Strays, InstallLevel
    PROVE  \E own, w : InstallsFor(own, w)
<1>1. /\ IndexInv /\ SweepInv /\ RestTypeOK /\ TLBInv /\ InsertState /\ phase = "insert"
      /\ TLBExact /\ TLBCoherent
      /\ cache_L0T \in L0Table /\ cache_DBA \in Array /\ TLBTypeOK /\ req.block \in Blocks
  <2>1. IndexInv /\ SweepInv /\ phase = "insert"
    BY DEF HistoryInv, InstallLevel
  <2> QED BY <2>1, IndexInvParts DEF SweepInv, RestTypeOK, TLBInv, L0Table, Requests, TLBExact
<1>2. current_level \in Levels
  BY <1>1, Numbers DEF InstallLevel, RestTypeOK, InsertState, Levels
<1>3. PICK owner : IndexOwned(owner)
  BY <1>1 DEF SweepInv
<1>4. PICK n \in 0 .. MNA, w \in Slots :
         /\ SweptTurn(n, w)
         /\ Installs(cache_L0T, cache_DBA, cache_L0T', cache_DBA',
                     req.block, current_level, w, last_BTH)
  BY <1>1, <1>3, SweepTurn
<1>5. PICK own : own = [owner EXCEPT ![w] = req.block]
  OBVIOUS
<1>6. cache_L0T' \in L0Table /\ cache_DBA' \in Array
  BY <1>1, IndexInvPartsNext, InstallLevelKeeps DEF RestTypeOK, L0Table
<1>7. /\ last_BTH' = w /\ current_level' = current_level + 1 /\ UNCHANGED <<phase, req>>
      /\ \A t \in DOMAIN cache_TLB' :
            /\ t \in DOMAIN cache_TLB /\ cache_TLB'[t] = cache_TLB[t]
            /\ cache_TLB[t] # w
  BY <1>4 DEF SweptTurn
<1>8. IndexOwned(own)'
  BY <1>1, <1>2, <1>3, <1>4, <1>5, <1>6, <1>7, TurnOwned
<1>9. own[w] = req.block
  BY <1>3, <1>5 DEF IndexOwned, Owned
<1>10. \A s \in Slots \ {w} : cache_DBA[s].D => cache_DBA'[s].D
  BY <1>1, <1>7, InstallDirty, Zenon
<1>11. Victim = w
  BY <1>4, VictimIs DEF SweptTurn
<1>12. \A c : Holds(w, c) /\ cache_DBA[w].D => wb' # None
  BY <1>1, <1>4, DirtyVictimWrittenBack DEF SweptTurn
<1> QED BY <1>2, <1>4, <1>7, <1>8, <1>9, <1>10, <1>11, <1>12 DEF InstallsFor

\* A search after the turn that ends in the slot just installed is for the block
\* that is being filled.
LEMMA InstalledSearch ==
    ASSUME ExactState', NEW own, NEW w, InstallsFor(own, w), NEW c \in Blocks,
           Walk(c)'[num_BTH] = w
    PROVE  c = req.block
<1>1. PICK l0t, dba, fill : l0t = cache_L0T' /\ dba = cache_DBA' /\ fill = Filling'
  OBVIOUS
<1>2. PICK path : path = Path(l0t, [k \in Slots |-> dba[k].BTH], c)
  OBVIOUS
<1>3. path = Walk(c)'
  BY <1>1, <1>2 DEF Walk, Tables
<1>4. /\ Owned(l0t, dba, own, fill) /\ l0t \in L0Table /\ dba \in Array
      /\ w \in Slots /\ own[w] = req.block /\ req' = req /\ req'.block \in Blocks
  BY <1>1 DEF IndexOwned, InstallsFor, ExactState
<1>5. num_BTH \in Levels /\ path[num_BTH] # None
  BY <1>3, <1>4, Numbers DEF Levels
<1>6. Prefix(own[path[num_BTH]], num_BTH) = Prefix(c, num_BTH)
  BY <1>2, <1>4, <1>5, WalkOwned
<1>7. Prefix(own[w], num_BTH) = Prefix(c, num_BTH)
  BY <1>3, <1>6
<1> QED BY <1>4, <1>7, PrefixFacts

\* What the turn leaves of the places of the blocks.
TurnedPlaces(w) ==
    /\ \A c \in Blocks :
          /\ Cached(c)' => Cached(c) /\ Place(c)' = Place(c) /\ Place(c) # w
          /\ Cached(c) => \E s \in Slots : /\ s = Place(c) /\ Holds(s, c)
                                           /\ s # w => Holds(s, c)'
          /\ Cached(c) /\ ~Cached(c)' => ~InCache(c)'
    /\ Agreed' /\ StillMissing'

LEMMA InstallPlaces ==
    ASSUME ExactState, ExactState', Agreed, StillMissing, phase = "insert",
           NEW own, NEW w, InstallsFor(own, w)
    PROVE  TurnedPlaces(w)
<1>1. PICK b, l : b = req.block /\ l = current_level
  OBVIOUS
<1>2. /\ w \in Slots /\ last_BTH' = w /\ l \in Levels
      /\ current_level' = l + 1 /\ UNCHANGED <<phase, req>>
      /\ Installs(cache_L0T, cache_DBA, cache_L0T', cache_DBA', b, l, w, last_BTH)
      /\ \A t \in DOMAIN cache_TLB' :
            /\ t \in DOMAIN cache_TLB /\ cache_TLB'[t] = cache_TLB[t]
            /\ cache_TLB[t] # w
  BY <1>1 DEF InstallsFor
<1>3. Filling = {}
  BY <1>1, <1>2, Numbers DEF Filling, Levels
<1>4. Filling' = IF l = num_BTH THEN {w} ELSE {}
  BY <1>2, Numbers DEF Filling, Levels
<1>5. /\ b \in Blocks /\ ~Cached(b)
      /\ \A c \in Blocks : Cached(c) => Place(c) \in Slots /\ Holds(Place(c), c)
  BY <1>1 DEF ExactState, StillMissing
<1>6. ASSUME NEW c \in Blocks, NEW s, s = Walk(c)'[num_BTH], s # None
      PROVE  s = Walk(c)[num_BTH] \/ (s = w /\ l = num_BTH /\ c = b)
  <2>1. PICK fill : fill = Filling'
    OBVIOUS
  <2>2. Owned(cache_L0T', cache_DBA', own, fill) /\ own[w] = b
    BY <1>1, <2>1 DEF InstallsFor, IndexOwned
  <2>3. cache_L0T' \in L0Table /\ cache_DBA' \in Array
    BY DEF ExactState
  <2> QED BY <1>2, <1>5, <1>6, <2>2, <2>3, TurnKeepsSearch
<1>7. ASSUME NEW c \in Blocks, Cached(c)' PROVE Cached(c) /\ Place(c)' = Place(c)
  <2>1. CASE c \in DOMAIN cache_TLB'
    BY <1>2, <2>1 DEF Cached, Place
  <2>2. CASE c \notin DOMAIN cache_TLB'
    <3>1. PICK s : s = Walk(c)'[num_BTH]
      OBVIOUS
    <3>2. s # None /\ s \notin Filling' /\ Place(c)' = s
      BY <1>7, <2>2, <3>1 DEF Cached, Place
    <3>3. s = Walk(c)[num_BTH]
      BY <1>4, <1>6, <3>1, <3>2
    <3>4. Cached(c)
      BY <1>3, <3>2, <3>3 DEF Cached
    <3>5. c \in DOMAIN cache_TLB => cache_TLB[c] = s
      BY <3>2, <3>3 DEF Agreed
    <3> QED BY <3>2, <3>3, <3>4, <3>5 DEF Place
  <2> QED BY <2>1, <2>2
<1>8. ASSUME NEW c \in Blocks, Cached(c)' PROVE Place(c) # w
  <2>1. PICK s, fill : s = Place(c)' /\ fill = Filling'
    OBVIOUS
  <2>2. s \in Slots \ fill /\ Holds(s, c)'
    BY <1>8, <2>1 DEF ExactState
  <2>3. cache_DBA'[s].LF = num_BTH
    BY <2>2 DEF Holds
  <2>4. cache_DBA'[w].LF = l
    BY <1>2 DEF Installs
  <2> QED BY <1>4, <1>7, <1>8, <2>1, <2>2, <2>3, <2>4
<1>9. ASSUME NEW c \in Blocks, Cached(c)
      PROVE  \E s \in Slots : /\ s = Place(c) /\ Holds(s, c)
                              /\ s # w => Holds(s, c)'
  <2>1. PICK s \in Slots : s = Place(c) /\ Holds(s, c)
    BY <1>5, <1>9
  <2>2. PICK old : old = cache_DBA
    OBVIOUS
  <2>3. s # w => /\ cache_DBA'[s].V = old[s].V /\ cache_DBA'[s].LF = old[s].LF
                 /\ cache_DBA'[s].TAG = old[s].TAG
    BY <1>2, <2>2 DEF Installs
  <2>4. old[s].V /\ old[s].LF = num_BTH /\ old[s].TAG = c
    BY <2>1, <2>2 DEF Holds
  <2>5. s # w => Holds(s, c)'
    BY <2>3, <2>4, Zenon DEF Holds
  <2> QED BY <2>1, <2>5
<1>10. ASSUME NEW c \in Blocks, Cached(c), ~Cached(c)', InCache(c)' PROVE FALSE
  <2>1. PICK s : s = Walk(c)'[num_BTH]
    OBVIOUS
  <2>2. s \in Slots
    BY <1>10, <2>1 DEF InCache, Found, Cached
  <2>3. s = w
    BY <1>4, <1>10, <2>1, <2>2, Numbers DEF Cached
  <2>4. c = b
    BY <1>1, <2>1, <2>3, InstalledSearch
  <2> QED BY <1>5, <1>10, <2>4
<1>11. Agreed'
  <2> SUFFICES ASSUME NEW t \in DOMAIN cache_TLB', NEW s, s = Walk(t)'[num_BTH], s # None
               PROVE  s = cache_TLB'[t]
    BY DEF Agreed
  <2>1. t \in DOMAIN cache_TLB /\ cache_TLB'[t] = cache_TLB[t] /\ t \in Blocks
    BY <1>2 DEF ExactState, TLBTypeOK
  <2>2. t # b
    BY <1>5, <2>1 DEF Cached
  <2>3. s = Walk(t)[num_BTH]
    BY <1>6, <2>1, <2>2
  <2> QED BY <2>1, <2>3 DEF Agreed
<1>12. StillMissing'
  BY <1>1, <1>2, <1>5, <1>7 DEF StillMissing
<1> QED BY <1>7, <1>8, <1>9, <1>10, <1>11, <1>12 DEF TurnedPlaces

LEMMA InstallContentsKeeps ==
    ASSUME ExactState, ExactState', DataInv, InstallContents,
           NEW own, NEW w, InstallsFor(own, w)
    PROVE  DataInv'
<1>1. /\ InstallLevel /\ phase = "insert" /\ phase' = "insert" /\ last_BTH' = w
      /\ w \in Slots /\ UNCHANGED <<req, pending, answer>>
      /\ \A s \in Slots \ {w} : cache_DBA[s].D => cache_DBA'[s].D
      /\ \A c : Holds(w, c) /\ cache_DBA[w].D => wb' # None /\ Victim = w
  BY DEF InstallContents, InstallLevel, InstallsFor
<1>2. /\ Agreed /\ StillMissing /\ InAnswer /\ Shapes
      /\ \A c \in Blocks : InBlock(c) /\ InMemory(c)
      /\ req.block \in Blocks
  BY DEF DataInv, ExactState
<1>3. TurnedPlaces(w)
  BY <1>1, <1>2, InstallPlaces
<1>4. data' = [data EXCEPT ![w] = 0]
  BY <1>1 DEF InstallContents
<1>5. /\ data' = [s \in Slots |-> data'[s]]
      /\ \A s \in Slots : s # w => data'[s] = data[s]
  BY <1>1, <1>2, <1>4 DEF Shapes
<1>6. PICK f : /\ Follow(f)
               /\ freed \subseteq freed'
               /\ memory' = [c \in Blocks |-> memory'[c]]
               /\ \A c \in Blocks : /\ f[c] \in {None, latest[c]}
                                    /\ f[c] # None => memory'[c] = memory[c]
               /\ wb' # None => \A c \in Blocks : c = cache_DBA[Victim].TAG => f[c] = None
  <2>1. CASE wb' = None
    <3>1. UNCHANGED <<memory, freed>> /\ Follow(latest)
      BY <2>1 DEF InstallContents, Kept
    <3> QED BY <1>2, <2>1, <3>1 DEF Shapes
  <2>2. CASE wb' # None
    <3>1. PICK old, to, bs : old = cache_DBA[Victim] /\ to = wb' \div BlockSize
                             /\ bs = {old.TAG, to}
      OBVIOUS
    <3>2. /\ Astray(bs)
          /\ freed \subseteq freed'
          /\ (\E x : memory' = [memory EXCEPT ![to] = x]) \/ UNCHANGED memory
      BY <2>2, <3>1 DEF InstallContents, WritesBack
    <3>3. /\ memory' = [c \in Blocks |-> memory'[c]]
          /\ \A c \in Blocks : c # to => memory'[c] = memory[c]
      BY <1>2, <3>2 DEF Shapes
    <3>4. PICK f : f = [c \in Blocks |-> IF c \in bs THEN None ELSE latest[c]]
      OBVIOUS
    <3>5. Follow(f)
      BY <3>2, <3>4 DEF Astray
    <3>6. \A c \in Blocks : /\ f[c] \in {None, latest[c]}
                            /\ f[c] # None => memory'[c] = memory[c]
                            /\ c = old.TAG => f[c] = None
      BY <3>1, <3>3, <3>4
    <3> QED BY <3>1, <3>2, <3>3, <3>5, <3>6
  <2> QED BY <2>1, <2>2
<1>7. /\ latest' = [c \in Blocks |-> latest'[c]]
      /\ \A c \in Blocks : latest'[c] \in {None, f[c]}
  BY <1>6, FollowFacts
<1>8. \A c \in Blocks : latest'[c] # None =>
         latest'[c] = latest[c] /\ memory'[c] = memory[c]
  BY <1>6, <1>7
<1>9. StepKeeps({})
  <2> SUFFICES ASSUME NEW c \in Blocks
               PROVE  /\ Cached(c)' => /\ Cached(c)
                                       /\ Place(c)' = Place(c)
                                       /\ cache_DBA[Place(c)].D => cache_DBA'[Place(c)].D
                      /\ Cached(c) /\ ~Cached(c)' /\ cache_DBA[Place(c)].D =>
                            latest'[c] = None
    BY DEF StepKeeps
  <2>1. Cached(c)' => Cached(c) /\ Place(c)' = Place(c) /\ Place(c) # w
    BY <1>3 DEF TurnedPlaces
  <2>2. Cached(c) => \E s \in Slots : /\ s = Place(c) /\ Holds(s, c)
                                      /\ s # w => Holds(s, c)'
    BY <1>3 DEF TurnedPlaces
  <2>3. Cached(c)' /\ cache_DBA[Place(c)].D => cache_DBA'[Place(c)].D
    BY <1>1, <2>1, <2>2, Zenon
  <2>4. ASSUME Cached(c), ~Cached(c)', cache_DBA[Place(c)].D PROVE latest'[c] = None
    <3>1. PICK s \in Slots : s = Place(c) /\ Holds(s, c) /\ (s # w => Holds(s, c)')
      BY <2>2, <2>4
    <3>2. cache_DBA[s].D
      BY <2>4, <3>1
    <3>3. CASE s = w
      <4>1. wb' # None /\ Victim = w
        BY <1>1, <3>1, <3>2, <3>3, Zenon
      <4>2. c = cache_DBA[w].TAG
        BY <3>1, <3>3 DEF Holds
      <4> QED BY <1>6, <1>7, <4>1, <4>2
    <3>4. CASE s # w
      <4>1. cache_DBA'[s].D
        BY <1>1, <3>2, <3>4, Zenon
      <4>2. ~InCache(c)'
        BY <1>3, <2>4 DEF TurnedPlaces
      <4> QED BY <1>6, <3>1, <3>4, <4>1, <4>2, LostGivenUp
    <3> QED BY <3>3, <3>4
  <2> QED BY <2>1, <2>3, <2>4, Zenon
<1>10. ContentsKept({})
  <2>1. ASSUME NEW c \in Blocks, Cached(c)' PROVE data'[Place(c)] = data[Place(c)]
    BY <1>3, <1>5, <2>1 DEF TurnedPlaces
  <2> QED BY <1>6, <1>8, <2>1 DEF ContentsKept
<1>11. \A c \in Blocks : InBlock(c)' /\ InMemory(c)'
  BY <1>2, <1>9, <1>10, DataStep
<1>12. InAnswer' /\ Shapes'
  <2>1. InAnswer'
    BY <1>1, <1>2, <1>8 DEF InAnswer
  <2> QED BY <1>2, <1>5, <1>6, <1>7, <2>1 DEF Shapes
<1> QED BY <1>3, <1>11, <1>12 DEF DataInv, TurnedPlaces
-----------------------------------------------------------------------------
(* The invariant is one.                                                     *)

LEMMA ContentsInvInit == ContentsInit => ContentsInv
<1> SUFFICES ASSUME ContentsInit PROVE ContentsInv
  OBVIOUS
<1>1. HistoryInv
  BY HistoryInvInit DEF ContentsInit
<1>2. ASSUME ~strayed PROVE DataInv
  <2>1. ExactState
    BY <1>1, <1>2, StateExact
  <2>2. /\ \A s \in Slots : ~cache_DBA[s].V
        /\ DOMAIN cache_TLB = {} /\ phase = "ready"
    BY DEF ContentsInit, HistoryInit, Init, EmptyBlock
  <2>3. \A b \in Blocks : ~Cached(b)
    BY <2>1, <2>2, Zenon DEF ExactState, Holds
  <2>4. Agreed /\ StillMissing
    BY <2>2 DEF Agreed, StillMissing
  <2>5. \A b \in Blocks : InBlock(b) /\ InMemory(b)
    BY <2>3 DEF InBlock, InMemory, ContentsInit
  <2>6. InAnswer /\ Shapes
    BY <2>2 DEF InAnswer, Shapes, ContentsInit
  <2> QED BY <2>4, <2>5, <2>6 DEF DataInv
<1> QED BY <1>1, <1>2 DEF ContentsInv

\* What the contents do is on top of a step of the index, or beside it.
LEMMA StepOfIndex ==
    [ContentsNext]_allvars => [Next]_vars /\ (Recorded \/ UNCHANGED <<vars, strayed>>)
<1>0. ASSUME [ContentsNext]_allvars PROVE Recorded \/ UNCHANGED <<vars, strayed>>
  BY <1>0 DEF ContentsNext, allvars, historyVars
<1> SUFFICES ASSUME [ContentsNext]_allvars PROVE [Next]_vars
  BY <1>0
<1>1. \A op : IsStore(op) \in Stores
  BY ContentsAssumption DEF IsStore
<1>2. CASE Request
  <2>1. PICK b \in Blocks, op \in Operations :
           \/ HitContents(b, op)
           \/ \E part \in BOOLEAN : MissContents(b, op, part)
           \/ FunctionalHit(b, op)
           \/ FunctionalMiss(b, op)
    BY <1>2 DEF Request
  <2>2. CASE HitContents(b, op)
    BY <1>1, <2>2 DEF HitContents, Next, Access
  <2>3. CASE \E part \in BOOLEAN : MissContents(b, op, part)
    BY <1>1, <2>3 DEF MissContents, Next, Access
  <2>4. CASE FunctionalHit(b, op) \/ FunctionalMiss(b, op)
    BY <1>1, <2>4 DEF FunctionalHit, FunctionalMiss, Next, FunctionalAccess
  <2> QED BY <2>1, <2>2, <2>3, <2>4
<1>3. CASE MemoryAnswers \/ UnparkContents
  BY <1>3 DEF MemoryAnswers, UnparkContents
<1>4. CASE BeginContents \/ InstallContents \/ EndContents
  BY <1>4 DEF BeginContents, InstallContents, EndContents, Next
<1>5. CASE UNCHANGED allvars
  BY <1>5 DEF allvars, historyVars
<1> QED BY <1>2, <1>3, <1>4, <1>5 DEF ContentsNext, ContentsStep

LEMMA ContentsInvNext == ContentsInv /\ [ContentsNext]_allvars => ContentsInv'
<1> SUFFICES ASSUME ContentsInv, [ContentsNext]_allvars PROVE ContentsInv'
  OBVIOUS
<1>1. HistoryInv /\ HistoryInv' /\ IndexInv
  BY StepOfIndex, HistoryInvStep DEF ContentsInv, HistoryInv
<1> SUFFICES ASSUME ~strayed' PROVE DataInv'
  BY <1>1 DEF ContentsInv
<1>2. ~strayed /\ ((ContentsStep /\ ~Strays) \/ UNCHANGED allvars)
  <2>1. CASE ContentsNext
    BY <2>1, Zenon DEF ContentsNext, Recorded
  <2>2. CASE UNCHANGED allvars
    BY <2>2 DEF allvars, historyVars
  <2> QED BY <2>1, <2>2
<1>3. ExactState /\ ExactState' /\ DataInv
  BY <1>1, <1>2, StateExact, StateExactNext DEF ContentsInv
<1>4. CASE Request
  <2>1. PICK b \in Blocks, op \in Operations :
           \/ HitContents(b, op)
           \/ \E part \in BOOLEAN : MissContents(b, op, part)
           \/ FunctionalHit(b, op)
           \/ FunctionalMiss(b, op)
    BY <1>4 DEF Request
  <2>2. CASE HitContents(b, op) \/ FunctionalHit(b, op)
    <3>1. /\ Hit(b, IsStore(op)) /\ phase \in {"ready", "wait"}
          /\ UNCHANGED <<phase, req, memory, pending, answer, freed>>
          /\ Operate(b, op, Place(b))
      BY <2>2 DEF HitContents, TimingHit, FunctionalHit, Functional
    <3> QED BY <1>3, <3>1, OperateKeeps
  <2>3. CASE \E part \in BOOLEAN : MissContents(b, op, part)
    BY <1>3, <2>3, MissContentsKeeps
  <2>4. CASE FunctionalMiss(b, op)
    BY <1>3, <2>4, FunctionalMissKeeps
  <2> QED BY <2>1, <2>2, <2>3, <2>4
<1>5. CASE MemoryAnswers
  BY <1>3, <1>5, MemoryAnswersKeeps
<1>6. CASE BeginContents
  BY <1>3, <1>6, BeginContentsKeeps
<1>7. CASE InstallContents /\ ~Strays
  <2>1. \E own, w : InstallsFor(own, w)
    BY <1>1, <1>2, <1>7, SweepInstall DEF InstallContents
  <2> QED BY <1>3, <1>7, <2>1, InstallContentsKeeps
<1>8. CASE UnparkContents
  BY <1>3, <1>8, UnparkKeeps
<1>9. CASE EndContents
  BY <1>1, <1>3, <1>9, EndContentsKeeps
<1>10. CASE UNCHANGED allvars
  <2>1. UNCHANGED vars /\ UNCHANGED <<data, memory, pending, answer, freed, latest>>
    BY <1>10 DEF allvars, historyVars, contents
  <2>2. /\ Agreed /\ StillMissing /\ InAnswer /\ Shapes
        /\ \A c \in Blocks : InBlock(c) /\ InMemory(c)
    BY <1>3 DEF DataInv
  <2>3. /\ \A c : (Cached(c)' <=> Cached(c)) /\ Place(c)' = Place(c)
        /\ Agreed' /\ StillMissing'
        /\ UNCHANGED <<cache_DBA, phase, req>>
        /\ StepKeeps({})
    BY <2>1, <2>2, SameIndex
  <2>4. ContentsKept({})
    BY <2>1, <2>3 DEF ContentsKept
  <2>5. \A c \in Blocks : InBlock(c)' /\ InMemory(c)'
    BY <2>2, <2>3, <2>4, DataStep
  <2>6. InAnswer' /\ Shapes'
    BY <2>1, <2>2, <2>3 DEF InAnswer, Shapes
  <2> QED BY <2>3, <2>5, <2>6 DEF DataInv
<1> QED BY <1>2, <1>4, <1>5, <1>6, <1>7, <1>8, <1>9, <1>10 DEF ContentsStep

LEMMA ContentsInvAlways == ContentsSpec => []ContentsInv
BY ContentsInvInit, ContentsInvNext, PTL DEF ContentsSpec

\* The properties follow from it.
LEMMA ContentsSound == ContentsInv => ReadsLatest /\ CleanMatchesMemory
<1> SUFFICES ASSUME ContentsInv, ~strayed PROVE ReadsLatest /\ CleanMatchesMemory
  BY DEF ReadsLatest, CleanMatchesMemory
<1>1. ExactState /\ DataInv
  BY StateExact DEF ContentsInv
<1> SUFFICES ASSUME phase # "insert" PROVE ReadsLatest /\ CleanMatchesMemory
  BY DEF ReadsLatest, CleanMatchesMemory
<1>2. \A b \in Blocks : InCache(b) <=> Cached(b)
  BY <1>1 DEF ExactState, Filling
<1>3. \A b \in Blocks : InBlock(b) /\ InMemory(b)
  BY <1>1 DEF DataInv
<1>4. ReadsLatest
  <2> SUFFICES ASSUME NEW b \in Blocks, latest[b] # None
               PROVE  /\ InCache(b) => Place(b) \in freed \/ data[Place(b)] = latest[b]
                      /\ ~InCache(b) => memory[b] = latest[b]
                      /\ answer # None /\ b = req.block => answer = latest[b]
    BY DEF ReadsLatest
  <2>1. InCache(b) => Place(b) \in freed \/ data[Place(b)] = latest[b]
    BY <1>2, <1>3 DEF InBlock
  <2>2. ~InCache(b) => memory[b] = latest[b]
    BY <1>2, <1>3 DEF InMemory
  <2>3. answer # None /\ b = req.block => answer = latest[b]
    BY <1>1 DEF DataInv, InAnswer
  <2> QED BY <2>1, <2>2, <2>3
<1>5. CleanMatchesMemory
  <2> SUFFICES ASSUME NEW b \in Blocks, InCache(b), ~cache_DBA[Place(b)].D
               PROVE  \/ data[Place(b)] = memory[b]
                      \/ latest[b] = None
                      \/ Place(b) \in freed
    BY DEF CleanMatchesMemory
  <2>1. latest[b] # None => memory[b] = latest[b]
    BY <1>3, Zenon DEF InMemory
  <2>2. latest[b] # None => Place(b) \in freed \/ data[Place(b)] = latest[b]
    BY <1>2, <1>3 DEF InBlock
  <2> QED BY <2>1, <2>2
<1> QED BY <1>4, <1>5

\* As long as no turn has gone astray, whatever the sizes and the number of attempts
\* and whatever is written, read, evicted and refused, what a read gives is the value
\* last written: from the block if it is in the cache, from memory if it is not, or
\* from the response on its way; but for blocks whose writeback went elsewhere, that a
\* functional write overtook, or that were dirty below an evicted table
\* (dbrc_cache.cc:265, 296, 439-447, 574, 587, 654).
THEOREM ReadsGiveLatest == ContentsSpec => []ReadsLatest
<1>1. ContentsInv => ReadsLatest
  BY ContentsSound
<1> QED BY <1>1, ContentsInvAlways, PTL

\* ... and a block found that is not marked dirty is the same in memory, although an
\* installation does not reset D, but for the same blocks and those whose buffer a
\* writeback has taken along (dbrc_cache.cc:442, 574, 578, 587, 617).
THEOREM CleanStaysClean == ContentsSpec => []CleanMatchesMemory
<1>1. ContentsInv => CleanMatchesMemory
  BY ContentsSound
<1> QED BY <1>1, ContentsInvAlways, PTL
=============================================================================
