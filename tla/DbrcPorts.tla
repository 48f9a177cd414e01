----------------------------- MODULE DbrcPorts -----------------------------
(* The ports of the DBRC cache and its blocking protocol, dbrc_cache.cc      *)
(* 81-356: one request at a time, kept until the memory side has answered,   *)
(* refused requests that wait for a retry, refused responses and forwarded   *)
(* requests that wait in the port.                                           *)
(*                                                                           *)
(* A call of gem5 is synchronous: a peer that is handed a response or told   *)
(* to retry may send requests before it returns.  pc and cur are the cache's *)
(* side of that call chain; while they are not idle, no other event of the   *)
(* simulator runs.  Whether an access hits and how many writebacks an insert *)
(* emits is left open: DbrcIndex decides both.                               *)
EXTENDS Integers, FiniteSets

CONSTANTS
    NPorts,     \* connections of the vector port cpu_side
    Kinds,      \* the packets the peers send, see AllKinds
    Writebacks, \* most writebacks one insert emits
    Refusable   \* the packets the memory side may refuse at first

\* "part": smaller than a block.  "line": a whole block that needs a response.
\* "evict": a whole block that needs none, the writeback of a cache above.
AllKinds == {"part", "line", "evict"}

ASSUME PortsAssumption ==
    /\ NPorts \in Nat \ {0}
    /\ Kinds \subseteq AllKinds
    /\ Writebacks \in Nat
    /\ Refusable \subseteq {"request", "writeback"}

Ports == 0 .. NPorts - 1
None  == -1

\* "fill" is the read of a block that stands in for a "part", "writeback" the
\* WritebackDirty of insert.  from is the peer the work is done for: the code
\* routes by waitingPortId alone.
Packets  == [from : Ports, kind : AllKinds \cup {"fill", "writeback"}]
NoPacket == [from |-> None, kind |-> "none"]

VARIABLES
    blocked,        \* DbrcCache::blocked
    waitingPortId,  \* DbrcCache::waitingPortId
    accessEvent,    \* the packet of the access that is scheduled
    originalPacket, \* DbrcCache::originalPacket
    needRetry,      \* CPUSidePort::needRetry of every port
    cpuBlocked,     \* CPUSidePort::blockedPacket of every port
    memBlocked,     \* MemSidePort::blockedPacket
    memory,         \* the request the memory side has accepted
    pc,             \* where the cache is, see below
    cur,            \* the CPU-side port it is dealing with
    sweep,          \* whether every port is offered a retry afterwards
    response,       \* the packet being handed to the port cur
    owed            \* requests of each port accepted and not yet answered

cache == <<blocked, waitingPortId, accessEvent, originalPacket>>
ports == <<needRetry, cpuBlocked>>
mem   == <<memBlocked, memory>>
chain == <<pc, cur, sweep, response>>
vars  == <<cache, ports, mem, chain, owed>>

\* "idle": in the event loop.  "send": sendPacket of port cur.  "taken": inside
\* the peer, which has accepted the response.  "try": trySendRetry of cur.
\* "retry": inside the peer that was told to retry.  "panic": a panic_if or an
\* assertion has ended the process.
PCs == {"idle", "send", "taken", "try", "retry", "panic"}

Held(pkt) == pkt # NoPacket
-----------------------------------------------------------------------------
Init ==
    /\ blocked = FALSE
    /\ waitingPortId = None
    /\ accessEvent = NoPacket
    /\ originalPacket = NoPacket
    /\ needRetry = [p \in Ports |-> FALSE]
    /\ cpuBlocked = [p \in Ports |-> NoPacket]
    /\ memBlocked = NoPacket
    /\ memory = NoPacket
    /\ pc = "idle"
    /\ cur = None
    /\ sweep = FALSE
    /\ response = NoPacket
    /\ owed = [p \in Ports |-> 0]

\* The process ends where it stands.
Panic == pc' = "panic" /\ UNCHANGED <<cache, ports, mem, cur, sweep, response, owed>>

-----------------------------------------------------------------------------
(* CPUSidePort::recvTimingReq and handleRequest.  A peer calls it from the   *)
(* event loop or from within a call the cache makes.                         *)

PeerRuns == pc \in {"idle", "taken", "retry"}

\* The port is not free, or the cache is busy with an earlier request.
Refuses_WhileBlocked(p) == Held(cpuBlocked[p]) \/ needRetry[p]
Refuses(p) == Held(cpuBlocked[p]) \/ needRetry[p] \/ blocked

RefuseRequest(p) ==
    /\ PeerRuns
    /\ Refuses(p)
    /\ needRetry' = [needRetry EXCEPT ![p] = TRUE]
    /\ UNCHANGED <<cache, cpuBlocked, mem, chain, owed>>

AcceptRequest(p, kind) ==
    /\ PeerRuns
    /\ ~Refuses(p)
    /\ IF waitingPortId # None THEN Panic
       ELSE /\ blocked' = TRUE
            /\ waitingPortId' = p
            /\ accessEvent' = [from |-> p, kind |-> kind]
            /\ owed' = [owed EXCEPT ![p] = @ + 1]
            /\ UNCHANGED <<originalPacket, ports, mem, chain>>
-----------------------------------------------------------------------------
(* sendResponse, CPUSidePort::sendPacket and trySendRetry.                   *)

\* The cache is free before the peer sees the response.
SendResponse_FirstPort(pkt) ==
    /\ blocked' = FALSE
    /\ waitingPortId' = None
    /\ pc' = "send"
    /\ cur' = 0
    /\ sweep' = TRUE
    /\ response' = pkt
SendResponse(pkt) ==
    /\ blocked' = FALSE
    /\ waitingPortId' = None
    /\ pc' = "send"
    /\ cur' = waitingPortId
    /\ sweep' = TRUE
    /\ response' = pkt

\* sendResponse offers every port a retry, recvRespRetry only its own.
Afterwards_NoRetry ==
    /\ IF sweep THEN pc' = "try" /\ cur' = 0 /\ UNCHANGED sweep
       ELSE pc' = "idle" /\ cur' = None /\ sweep' = FALSE
    /\ response' = NoPacket
Afterwards ==
    /\ pc' = "try"
    /\ cur' = IF sweep THEN 0 ELSE cur
    /\ response' = NoPacket
    /\ UNCHANGED sweep

PeerTakes ==
    /\ pc' = "taken"
    /\ owed' = [owed EXCEPT ![response.from] = @ - 1]
    /\ UNCHANGED <<cache, ports, mem, cur, sweep, response>>

\* A peer that refuses a response does nothing else in that call.
PeerRefuses ==
    /\ cpuBlocked' = [cpuBlocked EXCEPT ![cur] = response]
    /\ Afterwards
    /\ UNCHANGED <<cache, needRetry, mem, owed>>

SendPacket ==
    /\ pc = "send"
    /\ IF Held(cpuBlocked[cur]) THEN Panic ELSE PeerTakes \/ PeerRefuses

PeerReturns ==
    /\ pc = "taken"
    /\ Afterwards
    /\ UNCHANGED <<cache, ports, mem, owed>>

\* The next port of the loop, or back to the event loop.
NextPort_PastTheEnd ==
    /\ IF sweep /\ cur < NPorts
       THEN /\ pc' = "try"
            /\ cur' = cur + 1
            /\ UNCHANGED sweep
       ELSE /\ pc' = "idle"
            /\ cur' = None
            /\ sweep' = FALSE
    /\ UNCHANGED response
NextPort ==
    /\ IF sweep /\ cur < NPorts - 1
       THEN /\ pc' = "try"
            /\ cur' = cur + 1
            /\ UNCHANGED sweep
       ELSE /\ pc' = "idle"
            /\ cur' = None
            /\ sweep' = FALSE
    /\ UNCHANGED response

Offered_WhenFree(p) == needRetry[p] /\ ~Held(cpuBlocked[p]) /\ ~blocked
Offered(p) == needRetry[p] /\ ~Held(cpuBlocked[p])

SendRetry ==
    /\ pc = "try"
    /\ Offered(cur)
    /\ needRetry' = [needRetry EXCEPT ![cur] = FALSE]
    /\ pc' = "retry"
    /\ UNCHANGED <<cache, cpuBlocked, mem, cur, sweep, response, owed>>

SkipRetry ==
    /\ pc = "try"
    /\ ~Offered(cur)
    /\ NextPort
    /\ UNCHANGED <<cache, ports, mem, owed>>

RetryReturns ==
    /\ pc = "retry"
    /\ NextPort
    /\ UNCHANGED <<cache, ports, mem, owed>>

\* CPUSidePort::recvRespRetry: the peer asks for the response it refused.
RecvRespRetry_DropsPacket(p) ==
    /\ pc = "idle"
    /\ Held(cpuBlocked[p])
    /\ cpuBlocked' = [cpuBlocked EXCEPT ![p] = NoPacket]
    /\ pc' = "try"
    /\ cur' = p
    /\ sweep' = FALSE
    /\ UNCHANGED <<cache, needRetry, mem, response, owed>>
RecvRespRetry(p) ==
    /\ pc = "idle"
    /\ Held(cpuBlocked[p])
    /\ cpuBlocked' = [cpuBlocked EXCEPT ![p] = NoPacket]
    /\ pc' = "send"
    /\ cur' = p
    /\ sweep' = FALSE
    /\ response' = cpuBlocked[p]
    /\ UNCHANGED <<cache, needRetry, mem, owed>>
-----------------------------------------------------------------------------
(* MemSidePort::sendPacket and recvReqRetry.                                 *)

MayRefuse(pkt) ==
    IF pkt.kind = "writeback" THEN "writeback" \in Refusable
    ELSE "request" \in Refusable

Answerable(pkt) == pkt.kind \in {"line", "fill"}

MemoryTakes_KeepsPacket(pkt) ==
    /\ memory' = IF Answerable(pkt) THEN pkt ELSE memory
    /\ UNCHANGED memBlocked
MemoryTakes(pkt) ==
    /\ memory' = IF Answerable(pkt) THEN pkt ELSE memory
    /\ memBlocked' = NoPacket

MemoryRefuses(pkt) ==
    /\ MayRefuse(pkt)
    /\ memBlocked' = pkt
    /\ UNCHANGED memory

MemRetryTaken ==
    /\ pc = "idle"
    /\ Held(memBlocked)
    /\ MemoryTakes(memBlocked)
    /\ UNCHANGED <<cache, ports, chain, owed>>

MemRetryRefused ==
    /\ pc = "idle"
    /\ Held(memBlocked)
    /\ MemoryRefuses(memBlocked)
    /\ UNCHANGED <<cache, ports, chain, owed>>
-----------------------------------------------------------------------------
(* accessTiming, when the scheduled access runs.                             *)

\* makeResponse asserts that the packet needs a response.
AccessHit ==
    /\ pc = "idle"
    /\ Held(accessEvent)
    /\ IF accessEvent.kind = "evict" \/ ~blocked THEN Panic
       ELSE /\ SendResponse(accessEvent)
            /\ accessEvent' = NoPacket
            /\ UNCHANGED <<originalPacket, ports, mem, owed>>

\* A whole block goes on as it is, anything less becomes a read of the block.
Forwarded ==
    IF accessEvent.kind = "part" THEN [accessEvent EXCEPT !.kind = "fill"]
    ELSE accessEvent

AccessMiss ==
    /\ pc = "idle"
    /\ Held(accessEvent)
    /\ IF Held(memBlocked) THEN Panic
       ELSE /\ MemoryTakes(Forwarded) \/ MemoryRefuses(Forwarded)
            /\ originalPacket' = IF accessEvent.kind = "part" THEN accessEvent
                                 ELSE originalPacket
            /\ accessEvent' = NoPacket
            /\ UNCHANGED <<blocked, waitingPortId, ports, chain, owed>>
-----------------------------------------------------------------------------
(* MemSidePort::recvTimingResp and handleResponse.                           *)

\* insert sends n writebacks, the r-th is the first one refused (0: none).  A
\* writeback that finds the port holding a packet is a panic.
WritebacksPanic(n, r) == n > 0 /\ (Held(memBlocked) \/ (r > 0 /\ r < n))

HandleResponse(n, r) ==
    IF ~blocked \/ WritebacksPanic(n, r) THEN Panic
    ELSE /\ SendResponse(IF Held(originalPacket) THEN originalPacket ELSE memory)
         /\ originalPacket' = NoPacket
         /\ memory' = NoPacket
         /\ memBlocked' = IF r = 0 THEN memBlocked
                          ELSE [from |-> waitingPortId, kind |-> "writeback"]
         /\ UNCHANGED <<accessEvent, ports, owed>>

RecvTimingResp ==
    /\ pc = "idle"
    /\ Held(memory)
    /\ \E n \in 0 .. Writebacks : \E r \in 0 .. n :
          /\ r > 0 => "writeback" \in Refusable
          /\ HandleResponse(n, r)
-----------------------------------------------------------------------------
PeerAction ==
    \E p \in Ports :
       \/ RefuseRequest(p)
       \/ \E kind \in Kinds : AcceptRequest(p, kind)
       \/ RecvRespRetry(p)

Next ==
    \/ PeerAction
    \/ SendPacket \/ PeerReturns
    \/ SendRetry \/ SkipRetry \/ RetryReturns
    \/ MemRetryTaken \/ MemRetryRefused
    \/ AccessHit \/ AccessMiss
    \/ RecvTimingResp

\* A call returns (weak fairness: nothing else runs meanwhile).  A scheduled
\* event runs in the end, though other handlers run before it (strong fairness,
\* because it is not enabled while they do): the access, the memory side's
\* answer, a peer's wish to see again the response it refused.  The memory side
\* and the peers take in the end what they keep being offered.
Fairness ==
    /\ WF_vars(SendPacket) /\ WF_vars(PeerReturns)
    /\ WF_vars(SendRetry \/ SkipRetry) /\ WF_vars(RetryReturns)
    /\ SF_vars(AccessHit \/ AccessMiss)
    /\ SF_vars(RecvTimingResp)
    /\ SF_vars(MemRetryTaken)
    /\ \A p \in Ports : /\ SF_vars(RecvRespRetry(p))
                         /\ SF_vars(SendPacket /\ cur = p /\ pc' = "taken")

Spec == Init /\ [][Next]_vars /\ Fairness
-----------------------------------------------------------------------------
(* Properties.                                                               *)

Optional(S) == S \cup {NoPacket}

TypeOK ==
    /\ blocked \in BOOLEAN
    /\ waitingPortId \in Ports \cup {None}
    /\ accessEvent \in Optional(Packets)
    /\ originalPacket \in Optional(Packets)
    /\ needRetry \in [Ports -> BOOLEAN]
    /\ cpuBlocked \in [Ports -> Optional(Packets)]
    /\ memBlocked \in Optional(Packets)
    /\ memory \in Optional(Packets)
    /\ pc \in PCs
    /\ cur \in Ports \cup {None}
    /\ sweep \in BOOLEAN
    /\ response \in Optional(Packets)
    /\ owed \in [Ports -> Int]

\* No interleaving of peers, memory and retries reaches one of the panics or
\* assertions of the ports (dbrc_cache.cc:86, 166, 218, 232, 262).
NoPanic == pc # "panic"

\* The request that blocks the cache is in exactly one place: scheduled, taken
\* by the memory side or refused by it.  It is the request of the port that
\* waits, and so is the packet kept for an upgraded one.
Count(x) == IF x THEN 1 ELSE 0
AtMemPort == Held(memBlocked) /\ memBlocked.kind # "writeback"
RequestInOnePlace ==
    /\ blocked <=> waitingPortId # None
    /\ Count(Held(accessEvent)) + Count(Held(memory)) + Count(AtMemPort)
         = Count(blocked)
    /\ Held(originalPacket) => Held(memory) \/ AtMemPort
    /\ Held(accessEvent) => accessEvent.from = waitingPortId
    /\ Held(memory) => memory.from = waitingPortId
    /\ AtMemPort => memBlocked.from = waitingPortId
    /\ Held(originalPacket) => originalPacket.from = waitingPortId

\* A response goes to the port its request came from, also when the peer has
\* refused it at first: the code routes by waitingPortId alone.
ResponseToSender ==
    /\ pc = "send" => response.from = cur
    /\ \A p \in Ports : Held(cpuBlocked[p]) => cpuBlocked[p].from = p

\* Each accepted request is answered once: a port is owed the request in the
\* cache, the response it has refused and the one in hand, and nothing else.
AnsweredOnce ==
    \A p \in Ports :
       owed[p] = Count(waitingPortId = p) + Count(Held(cpuBlocked[p]))
                   + Count(pc = "send" /\ cur = p)

\* A refused peer is never forgotten: in the event loop, a port that still owes
\* a retry is waiting for the cache to free up or for its own response to leave,
\* and both of these send the retry.
NoLostRetry ==
    \A p \in Ports :
       pc = "idle" /\ needRetry[p] => blocked \/ Held(cpuBlocked[p])

\* Seen from its peers the cache is a blocking server: the memory side, the kept
\* packets and the order of the calls are its own affair.
Server ==
    INSTANCE BlockingServer WITH
        Peers <- Ports, Nobody <- None,
        serving <- waitingPortId,
        ready <- {p \in Ports : Held(cpuBlocked[p]) \/ (pc = "send" /\ cur = p)},
        owed <- {p \in Ports : owed[p] # 0},
        waiting <- {p \in Ports : needRetry[p]}
ServesOneByOne == Server!BSpec

\* Every accepted request is answered (the cache is not blocked for ever), also
\* when the memory side and the peer refuse what they are sent at first.
RequestAnswered ==
    \A p \in Ports : waitingPortId = p ~> pc = "taken" /\ cur = p

\* Every refused peer is told to retry.
RetryComes ==
    \A p \in Ports : needRetry[p] ~> pc = "retry" /\ cur = p
=============================================================================
