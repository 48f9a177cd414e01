---------------------------- MODULE DbrcContents ----------------------------
(* What the blocks of the DBRC cache contain, over the index of DbrcIndex:   *)
(* the data of every block of cache_DBA, the memory behind the cache, the    *)
(* packet a miss waits for, and the buffer a writeback carries off.  Of each *)
(* block of memory one word is followed; a request for part of a block may   *)
(* be for that word.                                                         *)
EXTENDS DbrcHistory

CONSTANTS
    Values      \* contents of a word; 0 is what calloc and memset leave

\* Requests read and write.
ASSUME ContentsAssumption ==
    /\ 0 \in Values
    /\ Values \subseteq Nat
    /\ Stores = BOOLEAN

VARIABLES
    data,       \* cache_DBA[s].data, for every slot
    memory,     \* the memory behind the cache
    pending,    \* the request that waits: what it does, and its value
    answer,     \* the word in the response, None until memory has answered
    parked,     \* a writeback refused by memory, None without one: its
                \* address; the slot whose buffer it carries
    freed,      \* the slots whose buffer was deleted with a writeback
    latest      \* the value last written to every block; None once a writeback
                \* or a race has gone astray for it, or no search finds it

contents == <<data, memory, pending, answer, parked, freed, latest>>
allvars  == <<historyVars, contents>>

\* What a request does: it reads, or writes a value that was not there at first.
Read == None
Operations == (Values \ {0}) \cup {Read}
IsStore(op) == op # Read

Idle      == [op |-> Read, part |-> FALSE]
NotParked == [to |-> None, slot |-> None]

ContentsInit ==
    /\ HistoryInit
    /\ data = [s \in Slots |-> 0]
    /\ memory = [b \in Blocks |-> 0]
    /\ pending = Idle
    /\ answer = None
    /\ parked = NotParked
    /\ freed = {}
    /\ latest = [b \in Blocks |-> 0]
-----------------------------------------------------------------------------
\* Where accessFunctional finds b: the TLB comes first.
Place(b) == IF b \in DOMAIN cache_TLB THEN cache_TLB[b] ELSE Walk(b)[num_BTH]

\* A deleted buffer may hold anything.
Readable(s) == IF s \in freed THEN Values ELSE {data[s]}

InCache(b) == b \in DOMAIN cache_TLB \/ Found(Walk(b), b)

\* Blocks of memory that are dirty in the array and that nothing finds there: the
\* table over them was evicted, and they wait for the hand to write them back.
\* Until then memory answers for them, with an old value.
Lost ==
    {b \in Blocks : ~InCache(b) /\ \E s \in Slots : Holds(s, b) /\ cache_DBA[s].D}

\* What becomes of latest in a step that gives the value f[b] to every block b.
Follow(f) == latest' = [b \in Blocks |-> IF b \in Lost' THEN None ELSE f[b]]
Kept == Follow(latest)
Written(b, v) == Follow([latest EXCEPT ![b] = v])
Astray(bs) == Follow([b \in Blocks |-> IF b \in bs THEN None ELSE latest[b]])

\* The operation on a block that accessFunctional has found in slot s.
Operate(b, op, s) ==
    IF IsStore(op) THEN Written(b, op) /\ data' = [data EXCEPT ![s] = op]
    ELSE UNCHANGED data /\ Kept

HitContents(b, op) ==
    /\ TimingHit(b, IsStore(op))
    /\ Operate(b, op, Place(b))
    /\ UNCHANGED <<memory, pending, answer, parked, freed>>

\* A miss goes to the memory side, whose port must be free (otherwise a panic,
\* see DbrcPorts).  A write to part of a block waits in originalPacket; a read is
\* answered from the response's words in either case.
MissContents(b, op, part) ==
    /\ parked = NotParked
    /\ TimingMiss(b, IsStore(op) /\ part)
    /\ part => IsStore(op)
    /\ pending' = [op |-> op, part |-> part]
    /\ UNCHANGED <<data, memory, answer, parked, freed, latest>>

\* Memory performs the request that was forwarded: a write of a whole block, or
\* a read of the block.
MemoryAnswers ==
    /\ phase = "wait"
    /\ answer = None
    /\ UNCHANGED vars
    /\ IF IsStore(pending.op) /\ ~pending.part
       THEN /\ memory' = [memory EXCEPT ![req.block] = pending.op]
            /\ answer' = pending.op
            /\ Written(req.block, pending.op)
       ELSE /\ answer' = memory[req.block]
            /\ UNCHANGED <<memory, latest>>
    /\ UNCHANGED <<data, pending, parked, freed>>

\* handleFunctional: in the cache on a hit, in memory on a miss.  Whether a write
\* to memory also reaches a response on its way is up to the memory system.  (When
\* the cache is ready, a functional hit is the same step as a timing hit.)
FunctionalHit(b, op) ==
    /\ phase = "wait"
    /\ Functional(b, IsStore(op))
    /\ Hit(b, IsStore(op))
    /\ Operate(b, op, Place(b))
    /\ UNCHANGED <<memory, pending, answer, parked, freed>>

Overtakes(b) == phase = "wait" /\ req.block = b /\ answer # None

FunctionalMiss(b, op) ==
    /\ Functional(b, IsStore(op))
    /\ Miss(b)
    /\ IF ~IsStore(op) THEN UNCHANGED <<memory, answer, latest>>
       ELSE /\ memory' = [memory EXCEPT ![b] = op]
            /\ IF Overtakes(b) THEN answer' \in {answer, op} /\ Astray({b})
               ELSE UNCHANGED answer /\ Written(b, op)
    /\ UNCHANGED <<data, pending, parked, freed>>
-----------------------------------------------------------------------------
(* handleResponse and insert.                                                *)

BeginContents ==
    /\ answer # None
    /\ InsertBegin
    /\ UNCHANGED <<data, memory, pending, answer, parked, freed, latest>>

\* The slot that InstallLevel evicts.
Victim == CHOOSE s \in Slots : \E n \in 0 .. MNA : ScanEnds(n) /\ s = Slot(n)

\* A writeback carries the buffer of the slot itself: memory reads it at once, or
\* later if it refuses the packet, and deletes it in the end.
WritesBack(old) ==
    LET to == wb' \div BlockSize IN
    /\ Astray({old.TAG, to})
    /\ \/ /\ \E x \in Readable(Victim) : memory' = [memory EXCEPT ![to] = x]
          /\ freed' = freed \cup {Victim}
          /\ UNCHANGED parked
       \/ /\ parked' = [to |-> to, slot |-> Victim]
          /\ UNCHANGED <<memory, freed>>

InstallContents ==
    /\ InstallLevel
    /\ data' = IF phase' = "overrun" THEN data ELSE [data EXCEPT ![last_BTH'] = 0]
    /\ IF wb' = None THEN UNCHANGED <<memory, freed, parked>> /\ Kept
       ELSE WritesBack(cache_DBA[Victim])
    /\ UNCHANGED <<pending, answer>>

\* recvReqRetry: the memory side takes the writeback after all.
UnparkContents ==
    /\ parked # NotParked
    /\ UNCHANGED vars
    /\ \E x \in Readable(parked.slot) : memory' = [memory EXCEPT ![parked.to] = x]
    /\ Astray({parked.to})
    /\ freed' = freed \cup {parked.slot}
    /\ parked' = NotParked
    /\ UNCHANGED <<data, pending, answer>>

\* insert copies the response into the block; then the part of a block that was
\* asked for is read or written there.
EndContents_AccessFirst ==
    /\ InsertEnd
    /\ data' = [data EXCEPT ![last_BTH] = answer]
    /\ IF pending.part THEN Written(req.block, pending.op) ELSE Kept
    /\ pending' = Idle
    /\ answer' = None
    /\ UNCHANGED <<memory, parked, freed>>
EndContents ==
    /\ InsertEnd
    /\ IF pending.part
       THEN /\ data' = [data EXCEPT ![last_BTH] = pending.op]
            /\ Written(req.block, pending.op)
       ELSE /\ data' = [data EXCEPT ![last_BTH] = answer]
            /\ Kept
    /\ pending' = Idle
    /\ answer' = None
    /\ UNCHANGED <<memory, parked, freed>>

Request ==
    \E b \in Blocks, op \in Operations :
       \/ HitContents(b, op)
       \/ \E part \in BOOLEAN : MissContents(b, op, part)
       \/ FunctionalHit(b, op)
       \/ FunctionalMiss(b, op)

ContentsStep ==
    Request \/ MemoryAnswers \/ BeginContents \/ InstallContents \/ UnparkContents
      \/ EndContents

ContentsNext == ContentsStep /\ Recorded

ContentsSpec == ContentsInit /\ [][ContentsNext]_allvars
-----------------------------------------------------------------------------
(* Properties.                                                               *)

\* Until a turn of insert has gone astray (see DbrcHistory), what a read gives is the
\* value last written, by whichever path the request and the writes went (hit,
\* upgraded, whole block, functional): the block in the cache if it is there, the one
\* in memory otherwise, the response on its way.  Only a writeback, a functional
\* write that overtook that response, or the eviction of the table over a dirty block
\* stands between: the table's other children, clean ones and those still in the TLB,
\* may be read as before (dbrc_cache.cc:265, 296, 439-447, 574, 587, 654).
ReadsLatest ==
    ~strayed /\ phase # "insert" =>
        \A b \in {c \in Blocks : latest[c] # None} :
            /\ IF InCache(b) THEN Place(b) \in freed \/ data[Place(b)] = latest[b]
               ELSE memory[b] = latest[b]
            /\ answer # None /\ b = req.block => answer = latest[b]

\* Until then a block that is found and not marked dirty is the same in the cache and in
\* memory, so that it may be dropped without a writeback, or orphaned: D, which an
\* installation does not reset, errs on the other side only
\* (dbrc_cache.cc:442, 574, 578, 617).
CleanMatchesMemory ==
    ~strayed /\ phase # "insert" =>
        \A b \in {c \in Blocks : InCache(c)} :
            ~cache_DBA[Place(b)].D =>
                \/ data[Place(b)] = memory[b]
                \/ latest[b] = None
                \/ Place(b) \in freed
=============================================================================
