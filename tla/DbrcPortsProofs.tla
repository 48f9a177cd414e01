-------------------------- MODULE DbrcPortsProofs --------------------------
(* Proofs about DbrcPorts, for any number of ports and of writebacks.        *)
EXTENDS DbrcPorts, TLAPS

\* The surroundings the protocol is written for: every request needs a
\* response, and the memory side takes every writeback at once.  The run
\* refused_writeback shows what happens without the latter.
Surroundings == "evict" \notin Kinds /\ "writeback" \notin Refusable

\* Only requests are on their way, and only requests that will be answered.
OnlyAnswerable ==
    /\ Held(accessEvent) => accessEvent.kind \in {"part", "line"}
    /\ Held(memBlocked) => Answerable(memBlocked)

\* The port that waits, or is handed its response, keeps none back already:
\* why sendPacket never finds the CPU-side port occupied.
PortFree ==
    /\ \A p \in Ports : waitingPortId = p => ~Held(cpuBlocked[p])
    /\ pc = "send" => ~Held(cpuBlocked[cur]) /\ waitingPortId # cur

\* Inside a call the cache deals with one of its ports.
InCall == pc # "idle" => cur \in Ports

\* A retry that is owed will be offered: now that the call chain is on its way
\* to the port, or when the cache frees up, or when the port's response leaves.
OnTheWay(p) ==
    \/ pc \in {"send", "taken"} /\ (sweep \/ cur = p)
    \/ pc = "try" /\ (cur = p \/ (sweep /\ cur < p))
    \/ pc = "retry" /\ sweep /\ cur < p
RetryKept ==
    \A p \in Ports :
       needRetry[p] => blocked \/ Held(cpuBlocked[p]) \/ OnTheWay(p)

Inv ==
    /\ TypeOK
    /\ NoPanic
    /\ RequestInOnePlace
    /\ ResponseToSender
    /\ AnsweredOnce
    /\ OnlyAnswerable
    /\ PortFree
    /\ InCall
    /\ RetryKept

USE DEF Optional, Held, AllKinds

LEMMA PacketFacts ==
    /\ NoPacket \notin Packets
    /\ NoPacket.kind = "none"
    /\ NoPacket.from = None /\ None \notin Ports
    /\ \A pkt \in Packets :
         /\ pkt.from \in Ports
         /\ pkt.kind \in AllKinds \cup {"fill", "writeback"}
    /\ \A p \in Ports, k \in AllKinds \cup {"fill", "writeback"} :
         /\ [from |-> p, kind |-> k] \in Packets
         /\ [from |-> p, kind |-> k].from = p
         /\ [from |-> p, kind |-> k].kind = k
  BY DEF NoPacket, Packets, Ports, None

LEMMA InvInit == Init => Inv
<1> SUFFICES ASSUME Init PROVE Inv
  OBVIOUS
<1>1. TypeOK
  <2>1. /\ blocked \in BOOLEAN
        /\ waitingPortId \in Ports \cup {None}
        /\ accessEvent \in Optional(Packets)
        /\ originalPacket \in Optional(Packets)
        /\ memBlocked \in Optional(Packets)
        /\ memory \in Optional(Packets)
        /\ response \in Optional(Packets)
    BY DEF Init
  <2>2. /\ needRetry \in [Ports -> BOOLEAN]
        /\ cpuBlocked \in [Ports -> Optional(Packets)]
        /\ owed \in [Ports -> Int]
    BY DEF Init
  <2>3. pc \in PCs /\ cur \in Ports \cup {None} /\ sweep \in BOOLEAN
    BY DEF Init, PCs
  <2> QED
    BY <2>1, <2>2, <2>3 DEF TypeOK
<1>2. RequestInOnePlace
  BY DEF Init, RequestInOnePlace, Count, AtMemPort, Ports, None
<1>3. ResponseToSender /\ AnsweredOnce /\ PortFree /\ RetryKept /\ InCall
  BY DEF Init, ResponseToSender, AnsweredOnce, PortFree, RetryKept, InCall,
         Count, Ports, None
<1>4. OnlyAnswerable /\ NoPanic
  BY PacketFacts DEF Init, OnlyAnswerable, NoPanic
<1> QED
  BY <1>1, <1>2, <1>3, <1>4 DEF Inv

LEMMA RefuseKeeps ==
    ASSUME Inv, NEW p \in Ports, RefuseRequest(p)
    PROVE  Inv'
<1> USE DEF Inv, RefuseRequest, Refuses, PeerRuns, cache, mem, chain
<1>1. TypeOK'
  BY DEF TypeOK
<1>2. RequestInOnePlace' /\ ResponseToSender' /\ AnsweredOnce' /\ OnlyAnswerable'
      /\ PortFree' /\ InCall' /\ NoPanic'
  BY DEF RequestInOnePlace, ResponseToSender, AnsweredOnce, OnlyAnswerable,
         PortFree, InCall, NoPanic, AtMemPort
<1>3. RetryKept'
  BY DEF TypeOK, RetryKept, OnTheWay
<1> QED
  BY <1>1, <1>2, <1>3

LEMMA AcceptKeeps ==
    ASSUME Inv, Surroundings, NEW p \in Ports, NEW kind \in Kinds, AcceptRequest(p, kind)
    PROVE  Inv'
<1> USE DEF Inv, PeerRuns, ports, mem, chain
<1>1. /\ ~blocked /\ ~needRetry[p] /\ ~Held(cpuBlocked[p])
      /\ waitingPortId = None
      /\ blocked' /\ waitingPortId' = p
      /\ accessEvent' = [from |-> p, kind |-> kind]
      /\ owed' = [owed EXCEPT ![p] = @ + 1]
      /\ UNCHANGED <<originalPacket, ports, mem, chain>>
      /\ PeerRuns
  BY DEF AcceptRequest, Refuses, RequestInOnePlace, TypeOK, Panic
<1>2. accessEvent' \in Packets /\ accessEvent'.from = p /\ accessEvent'.kind = kind
      /\ Held(accessEvent')
  BY <1>1, PacketFacts, PortsAssumption
<1>3. TypeOK'
  BY <1>1, <1>2 DEF TypeOK
<1>4. RequestInOnePlace'
  BY <1>1, <1>2 DEF RequestInOnePlace, TypeOK, Count, AtMemPort, Ports, None
<1>5. AnsweredOnce'
  BY <1>1 DEF AnsweredOnce, TypeOK, Count, Ports, None
<1>6. ResponseToSender' /\ InCall' /\ NoPanic'
  BY <1>1 DEF ResponseToSender, InCall, NoPanic
<1>7. OnlyAnswerable'
  BY <1>1, <1>2, PortsAssumption DEF OnlyAnswerable, Surroundings, Answerable
<1>8. PortFree'
  BY <1>1 DEF PortFree, TypeOK
<1>9. RetryKept'
  BY <1>1 DEF RetryKept
<1> QED
  BY <1>3, <1>4, <1>5, <1>6, <1>7, <1>8, <1>9

LEMMA RespRetryKeeps ==
    ASSUME Inv, NEW p \in Ports, RecvRespRetry(p)
    PROVE  Inv'
<1> USE DEF Inv, RecvRespRetry, cache, mem
<1>1. cpuBlocked[p] \in Packets /\ cpuBlocked[p].from = p
  BY PacketFacts DEF TypeOK, ResponseToSender
<1>2. TypeOK'
  BY <1>1 DEF TypeOK, PCs
<1>3. RequestInOnePlace' /\ OnlyAnswerable' /\ NoPanic' /\ InCall'
  BY DEF RequestInOnePlace, OnlyAnswerable, NoPanic, InCall, AtMemPort
<1>4. ResponseToSender'
  BY <1>1 DEF ResponseToSender, TypeOK
<1>5. PortFree'
  BY DEF PortFree, TypeOK
<1>6. AnsweredOnce'
  BY DEF AnsweredOnce, TypeOK, Count
<1>7. RetryKept'
  BY DEF RetryKept, OnTheWay, TypeOK
<1> QED
  BY <1>2, <1>3, <1>4, <1>5, <1>6, <1>7

LEMMA SendPacketKeeps ==
    ASSUME Inv, SendPacket
    PROVE  Inv'
<1> USE DEF Inv, cache, ports, mem
<1>1. /\ pc = "send" /\ cur \in Ports /\ ~Held(cpuBlocked[cur])
      /\ waitingPortId # cur
      /\ response \in Packets /\ response.from = cur
      /\ PeerTakes \/ PeerRefuses
  BY PacketFacts DEF SendPacket, PortFree, InCall, ResponseToSender, TypeOK
<1>2. CASE PeerTakes
  <2> USE DEF PeerTakes
  <2>1. TypeOK'
    BY <1>1, <1>2 DEF TypeOK, PCs
  <2>2. RequestInOnePlace' /\ OnlyAnswerable' /\ NoPanic' /\ InCall'
        /\ ResponseToSender' /\ PortFree'
    BY <1>1, <1>2 DEF RequestInOnePlace, OnlyAnswerable, NoPanic, InCall,
                      AtMemPort, ResponseToSender, PortFree
  <2>3. AnsweredOnce'
    BY <1>1, <1>2 DEF AnsweredOnce, TypeOK, Count
  <2>4. RetryKept'
    BY <1>1, <1>2 DEF RetryKept, OnTheWay
  <2> QED
    BY <2>1, <2>2, <2>3, <2>4
<1>3. CASE PeerRefuses
  <2> USE DEF PeerRefuses, Afterwards
  <2>1. cur' \in Ports /\ (sweep => cur' = 0) /\ (~sweep => cur' = cur)
    BY <1>1, <1>3, PortsAssumption DEF Ports
  <2>2. TypeOK'
    BY <1>1, <1>3, <2>1 DEF TypeOK, PCs
  <2>3. RequestInOnePlace' /\ OnlyAnswerable' /\ NoPanic' /\ InCall'
    BY <1>1, <1>3, <2>1 DEF RequestInOnePlace, OnlyAnswerable, NoPanic, InCall,
                            AtMemPort
  <2>4. ResponseToSender' /\ PortFree'
    BY <1>1, <1>3, PacketFacts DEF ResponseToSender, PortFree, TypeOK
  <2>5. AnsweredOnce'
    BY <1>1, <1>3, PacketFacts DEF AnsweredOnce, TypeOK, Count
  <2>6. RetryKept'
    BY <1>1, <1>3, <2>1, PacketFacts DEF RetryKept, OnTheWay, TypeOK, Ports
  <2> QED
    BY <2>2, <2>3, <2>4, <2>5, <2>6
<1> QED
  BY <1>1, <1>2, <1>3

LEMMA PeerReturnsKeeps ==
    ASSUME Inv, PeerReturns
    PROVE  Inv'
<1> USE DEF Inv, PeerReturns, Afterwards, cache, ports, mem
<1>0. cur \in Ports
  BY DEF InCall
<1>1. cur' \in Ports /\ (sweep => cur' = 0) /\ (~sweep => cur' = cur)
  BY <1>0, PortsAssumption DEF Ports
<1>2. TypeOK'
  BY <1>1 DEF TypeOK, PCs
<1>3. RequestInOnePlace' /\ OnlyAnswerable' /\ NoPanic' /\ InCall'
      /\ ResponseToSender' /\ PortFree'
  BY <1>1 DEF RequestInOnePlace, OnlyAnswerable, NoPanic, InCall, AtMemPort,
              ResponseToSender, PortFree
<1>4. AnsweredOnce'
  BY DEF AnsweredOnce, Count
<1>5. RetryKept'
  BY <1>1 DEF RetryKept, OnTheWay, Ports
<1> QED
  BY <1>2, <1>3, <1>4, <1>5

LEMMA SendRetryKeeps ==
    ASSUME Inv, SendRetry
    PROVE  Inv'
<1> USE DEF Inv, SendRetry, Offered, cache, mem
<1>1. TypeOK'
  BY DEF TypeOK, PCs
<1>2. RequestInOnePlace' /\ OnlyAnswerable' /\ NoPanic' /\ InCall'
      /\ ResponseToSender' /\ PortFree'
  BY DEF RequestInOnePlace, OnlyAnswerable, NoPanic, InCall, AtMemPort,
         ResponseToSender, PortFree
<1>3. AnsweredOnce'
  BY DEF AnsweredOnce, Count
<1>4. RetryKept'
  BY DEF RetryKept, OnTheWay, TypeOK, InCall
<1> QED
  BY <1>1, <1>2, <1>3, <1>4

\* The loop over the ports moves on, past a port that has nothing to be offered.
LEMMA NextPortKeeps ==
    ASSUME Inv, pc \in {"try", "retry"},
           needRetry[cur] => blocked \/ Held(cpuBlocked[cur]),
           NextPort, UNCHANGED <<cache, ports, mem, owed>>
    PROVE  Inv'
<1> USE DEF Inv, NextPort, cache, ports, mem
<1>1. cur \in Ports
  BY DEF InCall
<1>2. \/ pc' = "try" /\ sweep /\ cur' = cur + 1 /\ cur' \in Ports /\ sweep'
      \/ pc' = "idle" /\ cur' = None /\ (sweep => cur = NPorts - 1)
  BY <1>1, PortsAssumption DEF Ports, TypeOK
<1>3. TypeOK'
  BY <1>2 DEF TypeOK, PCs
<1>4. RequestInOnePlace' /\ OnlyAnswerable' /\ NoPanic' /\ InCall'
      /\ ResponseToSender' /\ PortFree'
  BY <1>2 DEF RequestInOnePlace, OnlyAnswerable, NoPanic, InCall, AtMemPort,
              ResponseToSender, PortFree
<1>5. AnsweredOnce'
  BY <1>2 DEF AnsweredOnce, Count
<1>6. RetryKept'
  BY <1>1, <1>2, PortsAssumption DEF RetryKept, OnTheWay, Ports
<1> QED
  BY <1>3, <1>4, <1>5, <1>6

LEMMA LoopKeeps ==
    ASSUME Inv, SkipRetry \/ RetryReturns
    PROVE  Inv'
<1>1. cur \in Ports
  BY DEF Inv, InCall, SkipRetry, RetryReturns
<1>2. needRetry[cur] => blocked \/ Held(cpuBlocked[cur])
  <2>1. CASE SkipRetry
    BY <2>1 DEF SkipRetry, Offered
  <2>2. CASE RetryReturns
    BY <1>1, <2>2 DEF RetryReturns, Inv, RetryKept, OnTheWay, Ports
  <2> QED
    BY <2>1, <2>2
<1> QED
  BY <1>2, NextPortKeeps DEF SkipRetry, RetryReturns

LEMMA MemRetryKeeps ==
    ASSUME Inv, Surroundings, MemRetryTaken \/ MemRetryRefused
    PROVE  Inv'
<1> USE DEF Inv, cache, ports, chain
<1>1. Answerable(memBlocked) /\ AtMemPort /\ memBlocked \in Packets
  BY DEF MemRetryTaken, MemRetryRefused, OnlyAnswerable, Answerable, AtMemPort,
         TypeOK
<1>2. \/ memory' = memBlocked /\ memBlocked' = NoPacket
      \/ UNCHANGED <<memory, memBlocked>>
  BY <1>1 DEF MemRetryTaken, MemRetryRefused, MemoryTakes, MemoryRefuses
<1>3. UNCHANGED <<cache, ports, chain, owed>>
  BY DEF MemRetryTaken, MemRetryRefused
<1>4. TypeOK'
  BY <1>1, <1>2, <1>3 DEF TypeOK
<1>5. RequestInOnePlace'
  BY <1>1, <1>2, <1>3, PacketFacts DEF RequestInOnePlace, AtMemPort, Count
<1>6. ResponseToSender' /\ AnsweredOnce' /\ PortFree' /\ InCall' /\ NoPanic'
      /\ OnlyAnswerable'
  BY <1>2, <1>3 DEF ResponseToSender, AnsweredOnce, PortFree, InCall, NoPanic,
                    OnlyAnswerable, Answerable
<1>7. RetryKept'
  BY <1>3 DEF RetryKept, OnTheWay
<1> QED
  BY <1>4, <1>5, <1>6, <1>7

\* Both ways to a response free the cache and set out to offer every port a
\* retry.
LEMMA ResponseKeeps ==
    ASSUME Inv, NEW pkt \in Packets, pkt.from = waitingPortId, blocked,
           SendResponse(pkt), pc = "idle",
           accessEvent' = NoPacket, originalPacket' = NoPacket,
           memory' = NoPacket, memBlocked' = NoPacket,
           UNCHANGED <<ports, owed>>
    PROVE  Inv'
<1> USE DEF Inv, SendResponse, ports
<1>1. waitingPortId \in Ports /\ ~Held(cpuBlocked[waitingPortId])
  BY DEF RequestInOnePlace, TypeOK, PortFree
<1>2. TypeOK'
  BY <1>1 DEF TypeOK, PCs
<1>3. RequestInOnePlace'
  BY DEF RequestInOnePlace, AtMemPort, Count
<1>4. ResponseToSender' /\ InCall' /\ NoPanic'
  BY <1>1 DEF ResponseToSender, InCall, NoPanic
<1>5. PortFree' /\ OnlyAnswerable'
  BY <1>1, PacketFacts DEF PortFree, OnlyAnswerable
<1>6. AnsweredOnce'
  BY <1>1, PacketFacts DEF AnsweredOnce, Count, TypeOK
<1>7. RetryKept'
  BY DEF RetryKept, OnTheWay
<1> QED
  BY <1>2, <1>3, <1>4, <1>5, <1>6, <1>7

LEMMA AccessHitKeeps ==
    ASSUME Inv, AccessHit
    PROVE  Inv'
<1> USE DEF Inv
<1>1. /\ blocked /\ accessEvent \in Packets /\ accessEvent.from = waitingPortId
      /\ memory = NoPacket /\ memBlocked = NoPacket /\ originalPacket = NoPacket
  BY DEF AccessHit, RequestInOnePlace, Count, AtMemPort, TypeOK, OnlyAnswerable,
         Answerable
<1>2. /\ SendResponse(accessEvent) /\ accessEvent' = NoPacket /\ pc = "idle"
      /\ UNCHANGED <<originalPacket, ports, mem, owed>>
  BY <1>1 DEF AccessHit, OnlyAnswerable
<1> QED
  BY <1>1, <1>2, ResponseKeeps DEF mem

LEMMA RecvTimingRespKeeps ==
    ASSUME Inv, Surroundings, RecvTimingResp
    PROVE  Inv'
<1> USE DEF Inv
<1>1. /\ blocked /\ memory \in Packets /\ memory.from = waitingPortId
      /\ accessEvent = NoPacket /\ memBlocked = NoPacket
      /\ Held(originalPacket) => /\ originalPacket \in Packets
                                 /\ originalPacket.from = waitingPortId
  BY DEF RecvTimingResp, RequestInOnePlace, Count, AtMemPort, TypeOK,
         OnlyAnswerable, Answerable
<1>2. PICK n \in 0 .. Writebacks : \E r \in 0 .. n :
          /\ r > 0 => "writeback" \in Refusable
          /\ HandleResponse(n, r)
  BY DEF RecvTimingResp
<1>3. PICK r \in 0 .. n : /\ r > 0 => "writeback" \in Refusable
                          /\ HandleResponse(n, r)
  BY <1>2
<1>4. r = 0 /\ ~WritebacksPanic(n, r)
  BY <1>1, <1>3 DEF Surroundings, WritebacksPanic
<1>5. /\ SendResponse(IF Held(originalPacket) THEN originalPacket ELSE memory)
      /\ originalPacket' = NoPacket /\ memory' = NoPacket
      /\ memBlocked' = memBlocked
      /\ UNCHANGED <<accessEvent, ports, owed>>
  BY <1>1, <1>3, <1>4 DEF HandleResponse
<1>6. pc = "idle"
  BY DEF RecvTimingResp
<1>7. CASE Held(originalPacket)
  BY <1>1, <1>5, <1>6, <1>7, ResponseKeeps
<1>8. CASE ~Held(originalPacket)
  BY <1>1, <1>5, <1>6, <1>8, ResponseKeeps
<1> QED
  BY <1>7, <1>8

LEMMA AccessMissKeeps ==
    ASSUME Inv, Surroundings, AccessMiss
    PROVE  Inv'
<1> USE DEF Inv
<1> DEFINE pkt == Forwarded
<1>1. /\ blocked /\ accessEvent \in Packets /\ accessEvent.from = waitingPortId
      /\ accessEvent.kind \in {"part", "line"}
      /\ memory = NoPacket /\ memBlocked = NoPacket /\ originalPacket = NoPacket
  BY DEF AccessMiss, RequestInOnePlace, Count, AtMemPort, TypeOK, OnlyAnswerable,
         Answerable
<1>2. /\ MemoryTakes(pkt) \/ MemoryRefuses(pkt)
      /\ originalPacket' \in {accessEvent, NoPacket}
      /\ accessEvent' = NoPacket
      /\ UNCHANGED <<blocked, waitingPortId, ports, chain, owed>>
  BY <1>1 DEF AccessMiss
<1>3. pkt \in Packets /\ pkt.from = waitingPortId /\ Answerable(pkt) /\ Held(pkt)
  <2>1. CASE accessEvent.kind = "part"
    BY <1>1, <2>1 DEF Forwarded, Packets, Answerable, NoPacket
  <2>2. CASE accessEvent.kind = "line"
    BY <1>1, <2>2, PacketFacts DEF Forwarded, Answerable
  <2> QED
    BY <1>1, <2>1, <2>2
<1> HIDE DEF pkt
<1>4. \/ memory' = pkt /\ memBlocked' = NoPacket
      \/ memory' = NoPacket /\ memBlocked' = pkt
  BY <1>1, <1>2, <1>3 DEF MemoryTakes, MemoryRefuses
<1>5. TypeOK'
  BY <1>1, <1>2, <1>3, <1>4 DEF TypeOK, ports, chain
<1>6. RequestInOnePlace'
  BY <1>1, <1>2, <1>3, <1>4, PacketFacts
     DEF RequestInOnePlace, AtMemPort, Count, Answerable
<1>7. OnlyAnswerable'
  BY <1>2, <1>3, <1>4 DEF OnlyAnswerable
<1>8. ResponseToSender' /\ AnsweredOnce' /\ PortFree' /\ InCall' /\ NoPanic'
  BY <1>2 DEF ResponseToSender, AnsweredOnce, PortFree, InCall, NoPanic,
              ports, chain
<1>9. RetryKept'
  BY <1>2 DEF RetryKept, OnTheWay, ports, chain
<1> QED
  BY <1>5, <1>6, <1>7, <1>8, <1>9

LEMMA InvNext ==
    ASSUME Inv, Surroundings, [Next]_vars
    PROVE  Inv'
<1>1. CASE UNCHANGED vars
  BY <1>1 DEF vars, cache, ports, mem, chain, Inv, TypeOK, NoPanic,
     RequestInOnePlace, ResponseToSender, AnsweredOnce, OnlyAnswerable, PortFree,
     InCall, RetryKept, OnTheWay, AtMemPort, Answerable
<1>2. CASE PeerAction
  BY <1>2, RefuseKeeps, AcceptKeeps, RespRetryKeeps DEF PeerAction
<1>3. CASE SendPacket \/ PeerReturns \/ SendRetry \/ SkipRetry \/ RetryReturns
  BY <1>3, SendPacketKeeps, PeerReturnsKeeps, SendRetryKeeps, LoopKeeps
<1>4. CASE MemRetryTaken \/ MemRetryRefused \/ AccessHit \/ AccessMiss
           \/ RecvTimingResp
  BY <1>4, MemRetryKeeps, AccessHitKeeps, AccessMissKeeps, RecvTimingRespKeeps
<1> QED
  BY <1>1, <1>2, <1>3, <1>4 DEF Next

LEMMA InvAlways == ASSUME Surroundings PROVE Spec => []Inv
<1>1. Inv /\ [Next]_vars => Inv'
  BY InvNext
<1> QED
  BY InvInit, <1>1, PTL DEF Spec

\* The fields of the cache and of its ports hold what they are declared to.
THEOREM PortsKeepTheirTypes == ASSUME Surroundings PROVE Spec => []TypeOK
  BY InvAlways, PTL DEF Inv

\* None of the panics and assertions of the ports is reached, whatever the
\* number of ports, the interleaving of their peers, and the writebacks.
THEOREM PortsNeverPanic == ASSUME Surroundings PROVE Spec => []NoPanic
  BY InvAlways, PTL DEF Inv

\* The request that blocks the cache is in one place only, and no place holds a
\* request of another port.
THEOREM OneRequestAtATime == ASSUME Surroundings PROVE Spec => []RequestInOnePlace
  BY InvAlways, PTL DEF Inv

\* A response reaches the port its request came from.
THEOREM AnswersReachTheirSender == ASSUME Surroundings PROVE Spec => []ResponseToSender
  BY InvAlways, PTL DEF Inv

\* A port is owed one answer for each request accepted from it, and no more:
\* neither a refusal nor a retry loses or doubles one.
THEOREM EachRequestIsOwedOnce == ASSUME Surroundings PROVE Spec => []AnsweredOnce
  BY InvAlways, PTL DEF Inv

\* In the event loop a port that owes a retry waits for something that sends it.
THEOREM RetriesAreNotLost == ASSUME Surroundings PROVE Spec => []NoLostRetry
<1>1. Inv => NoLostRetry
  BY DEF Inv, RetryKept, OnTheWay, NoLostRetry
<1> QED
  BY <1>1, InvAlways, PTL

-----------------------------------------------------------------------------
(* The cache as a blocking server: each step is one of the server's, or none *)
(* that a peer could see.                                                    *)

Ready   == {p \in Ports : Held(cpuBlocked[p]) \/ (pc = "send" /\ cur = p)}
Owed    == {p \in Ports : owed[p] # 0}
Waiting == {p \in Ports : needRetry[p]}

\* A port is owed an answer while its request is worked on and while the answer is
\* at hand, and these are never the case at once.
LEMMA OwedOnce ==
    ASSUME Inv, NEW p \in Ports
    PROVE  /\ p \in Owed <=> waitingPortId = p \/ p \in Ready
           /\ waitingPortId = p => p \notin Ready
           /\ p \in Owed => owed[p] = 1
<1>1. owed[p] = Count(waitingPortId = p) + Count(Held(cpuBlocked[p]))
                  + Count(pc = "send" /\ cur = p)
  BY DEF Inv, AnsweredOnce
<1>2. /\ waitingPortId = p => ~Held(cpuBlocked[p])
      /\ pc = "send" => ~Held(cpuBlocked[cur]) /\ waitingPortId # cur
  BY DEF Inv, PortFree
<1> QED
  BY <1>1, <1>2 DEF Count, Owed, Ready

LEMMA ServerInit == Init => Server!BInit
  BY DEF Init, Server!BInit, Ports, None

\* What the peers see of a step, in the terms of the server.
Unseen == UNCHANGED <<waitingPortId, Ready, Owed, Waiting>>
Served ==
    \/ Unseen
    \/ /\ waitingPortId # None /\ waitingPortId' = None
       /\ Ready' = Ready \cup {waitingPortId} /\ UNCHANGED <<Owed, Waiting>>
    \/ \E p \in Ports :
         \/ /\ waitingPortId = None /\ p \notin Owed \cup Waiting
            /\ waitingPortId' = p /\ Owed' = Owed \cup {p}
            /\ UNCHANGED <<Ready, Waiting>>
         \/ /\ waitingPortId # None \/ p \in Ready \cup Waiting
            /\ Waiting' = Waiting \cup {p} /\ UNCHANGED <<waitingPortId, Ready, Owed>>
         \/ /\ p \in Ready /\ Ready' = Ready \ {p} /\ Owed' = Owed \ {p}
            /\ UNCHANGED <<waitingPortId, Waiting>>
         \/ /\ p \in Waiting \ Ready /\ Waiting' = Waiting \ {p}
            /\ UNCHANGED <<waitingPortId, Ready, Owed>>

LEMMA ServedIs == Served => [Server!BNext]_(Server!bvars)
<1> SUFFICES ASSUME Served PROVE Server!BNext \/ UNCHANGED Server!bvars
  OBVIOUS
<1>1. CASE Unseen
  BY <1>1 DEF Unseen, Server!bvars, Ready, Owed, Waiting
<1>2. CASE /\ waitingPortId # None /\ waitingPortId' = None
           /\ Ready' = Ready \cup {waitingPortId} /\ UNCHANGED <<Owed, Waiting>>
  <2>1. Server!Finish
    BY <1>2 DEF Server!Finish, Ready, Owed, Waiting
  <2> QED
    BY <2>1 DEF Server!BNext
<1>3. ASSUME NEW p \in Ports,
             /\ waitingPortId = None /\ p \notin Owed \cup Waiting
             /\ waitingPortId' = p /\ Owed' = Owed \cup {p}
             /\ UNCHANGED <<Ready, Waiting>>
      PROVE  Server!BNext
  <2>1. Server!Accept(p)
    BY <1>3 DEF Server!Accept, Ready, Owed, Waiting
  <2> QED
    BY <2>1 DEF Server!BNext
<1>4. ASSUME NEW p \in Ports,
             /\ waitingPortId # None \/ p \in Ready \cup Waiting
             /\ Waiting' = Waiting \cup {p} /\ UNCHANGED <<waitingPortId, Ready, Owed>>
      PROVE  Server!BNext
  <2>1. Server!Refuse(p)
    BY <1>4 DEF Server!Refuse, Ready, Owed, Waiting
  <2> QED
    BY <2>1 DEF Server!BNext
<1>5. ASSUME NEW p \in Ports,
             /\ p \in Ready /\ Ready' = Ready \ {p} /\ Owed' = Owed \ {p}
             /\ UNCHANGED <<waitingPortId, Waiting>>
      PROVE  Server!BNext
  <2>1. Server!Deliver(p)
    BY <1>5 DEF Server!Deliver, Ready, Owed, Waiting
  <2> QED
    BY <2>1 DEF Server!BNext
<1>6. ASSUME NEW p \in Ports,
             /\ p \in Waiting \ Ready /\ Waiting' = Waiting \ {p}
             /\ UNCHANGED <<waitingPortId, Ready, Owed>>
      PROVE  Server!BNext
  <2>1. Server!TellRetry(p)
    BY <1>6 DEF Server!TellRetry, Ready, Owed, Waiting
  <2> QED
    BY <2>1 DEF Server!BNext
<1> QED
  BY <1>1, <1>2, <1>3, <1>4, <1>5, <1>6 DEF Served

LEMMA ServerNext ==
    ASSUME Inv, Inv', Surroundings, [Next]_vars
    PROVE  Served
<1> USE DEF cache, ports, mem, chain
<1>1. blocked <=> waitingPortId # None
  BY DEF Inv, RequestInOnePlace
<1>2. TypeOK
  BY DEF Inv
<1>3. ASSUME NEW p \in Ports, RefuseRequest(p) PROVE Served
  <2>1. Waiting' = Waiting \cup {p}
    BY <1>2, <1>3 DEF RefuseRequest, Waiting, TypeOK
  <2>2. UNCHANGED <<waitingPortId, Ready, Owed>>
    BY <1>3 DEF RefuseRequest, Ready, Owed
  <2>3. waitingPortId # None \/ p \in Ready \cup Waiting
    BY <1>1, <1>3 DEF RefuseRequest, Refuses, Ready, Waiting
  <2> QED
    BY <2>1, <2>2, <2>3 DEF Served
<1>4. ASSUME NEW p \in Ports, NEW kind \in Kinds, AcceptRequest(p, kind) PROVE Served
  <2>1. /\ waitingPortId = None /\ ~needRetry[p] /\ ~Held(cpuBlocked[p]) /\ PeerRuns
        /\ waitingPortId' = p /\ owed' = [owed EXCEPT ![p] = @ + 1]
        /\ UNCHANGED <<ports, pc, cur>>
    BY <1>1, <1>4 DEF AcceptRequest, Refuses
  <2>2. UNCHANGED <<Ready, Waiting>>
    BY <2>1 DEF Ready, Waiting
  <2>3. p \notin Ready /\ p \notin Waiting
    BY <2>1 DEF Ready, Waiting, PeerRuns
  <2>4. p \notin Owed
    BY <2>1, <2>3, OwedOnce DEF Ports, None
  <2>5. Owed' = Owed \cup {p}
    BY <1>2, <2>1, <2>4 DEF Owed, TypeOK
  <2> QED
    BY <2>1, <2>2, <2>3, <2>4, <2>5 DEF Served
<1>5. ASSUME NEW p \in Ports, RecvRespRetry(p) PROVE Served
  <2>1. UNCHANGED Ready
    BY <1>2, <1>5 DEF RecvRespRetry, Ready, TypeOK
  <2> QED
    BY <1>5, <2>1 DEF RecvRespRetry, Served, Unseen, Owed, Waiting
<1>6. CASE SendPacket
  <2>1. /\ pc = "send" /\ cur \in Ports /\ ~Held(cpuBlocked[cur])
        /\ response \in Packets /\ response.from = cur /\ waitingPortId # cur
        /\ PeerTakes \/ PeerRefuses
    BY <1>6, PacketFacts DEF SendPacket, Inv, PortFree, InCall, ResponseToSender, TypeOK
  <2>2. CASE PeerTakes
    <3>1. Ready' = Ready \ {cur} /\ cur \in Ready
      BY <2>1, <2>2 DEF PeerTakes, Ready
    <3>2. owed[cur] = 1 /\ owed' = [owed EXCEPT ![cur] = @ - 1]
      BY <2>1, <2>2, <3>1, OwedOnce DEF PeerTakes
    <3>3. Owed' = Owed \ {cur}
      BY <1>2, <2>1, <3>2 DEF Owed, TypeOK
    <3>4. UNCHANGED <<waitingPortId, Waiting>>
      BY <2>2 DEF PeerTakes, Waiting
    <3> QED
      BY <2>1, <3>1, <3>3, <3>4 DEF Served
  <2>3. CASE PeerRefuses
    <3>1. Ready' = Ready
      BY <1>2, <2>1, <2>3, PacketFacts DEF PeerRefuses, Afterwards, Ready, TypeOK
    <3> QED
      BY <2>3, <3>1 DEF PeerRefuses, Served, Unseen, Owed, Waiting
  <2> QED
    BY <2>1, <2>2, <2>3
<1>7. CASE SendRetry
  <2>1. cur \in Ports
    BY <1>7 DEF SendRetry, Inv, InCall
  <2>2. cur \in Waiting \ Ready /\ Waiting' = Waiting \ {cur}
    BY <1>2, <1>7, <2>1 DEF SendRetry, Offered, Waiting, Ready, TypeOK
  <2>3. UNCHANGED <<waitingPortId, Ready, Owed>>
    BY <1>7 DEF SendRetry, Ready, Owed
  <2> QED
    BY <2>1, <2>2, <2>3 DEF Served
<1>8. CASE PeerReturns \/ SkipRetry \/ RetryReturns
  BY <1>8 DEF PeerReturns, Afterwards, SkipRetry, RetryReturns, NextPort, Served, Unseen,
              Ready, Owed, Waiting
<1>9. CASE MemRetryTaken \/ MemRetryRefused
  BY <1>9 DEF MemRetryTaken, MemRetryRefused, Served, Unseen, Ready, Owed, Waiting
<1>10. CASE AccessMiss
  <2>1. ~Held(memBlocked)
    BY <1>10 DEF AccessMiss, Inv, RequestInOnePlace, Count, AtMemPort, TypeOK,
                 OnlyAnswerable, Answerable
  <2> QED
    BY <1>10, <2>1 DEF AccessMiss, Served, Unseen, Ready, Owed, Waiting
<1>11. ASSUME NEW pkt, SendResponse(pkt), pc = "idle", blocked, UNCHANGED <<ports, owed>>
       PROVE  Served
  <2>1. waitingPortId \in Ports /\ waitingPortId # None /\ waitingPortId' = None
    BY <1>1, <1>2, <1>11 DEF SendResponse, TypeOK
  <2>2. Ready' = Ready \cup {waitingPortId}
    BY <1>11, <2>1 DEF SendResponse, Ready
  <2>3. UNCHANGED <<Owed, Waiting>>
    BY <1>11 DEF Owed, Waiting
  <2> QED
    BY <2>1, <2>2, <2>3 DEF Served
<1>12. CASE AccessHit
  <2>1. blocked /\ accessEvent.kind # "evict"
    BY <1>12 DEF AccessHit, Inv, RequestInOnePlace, Count, AtMemPort, OnlyAnswerable
  <2> QED
    BY <1>11, <1>12, <2>1 DEF AccessHit
<1>13. CASE RecvTimingResp
  <2>1. pc' # "panic"
    BY DEF Inv, NoPanic
  <2>2. PICK n \in 0 .. Writebacks : \E r \in 0 .. n : HandleResponse(n, r)
    BY <1>13 DEF RecvTimingResp
  <2>3. PICK r \in 0 .. n : HandleResponse(n, r)
    BY <2>2
  <2>4. blocked /\ ~WritebacksPanic(n, r)
    BY <2>1, <2>3 DEF HandleResponse, Panic
  <2>5. /\ SendResponse(IF Held(originalPacket) THEN originalPacket ELSE memory)
        /\ UNCHANGED <<ports, owed>>
    BY <2>3, <2>4 DEF HandleResponse
  <2> QED
    BY <1>11, <1>13, <2>4, <2>5 DEF RecvTimingResp
<1>14. CASE UNCHANGED vars
  BY <1>14 DEF vars, Served, Unseen, Ready, Owed, Waiting
<1> QED
  BY <1>3, <1>4, <1>5, <1>6, <1>7, <1>8, <1>9, <1>10, <1>12, <1>13, <1>14
  DEF Next, PeerAction

\* Whatever the number of ports, the interleaving of their peers and the memory side:
\* to the peers the cache is a server that works on one request at a time, refuses only
\* while it must, and neither loses nor doubles an answer or a retry.
THEOREM CacheIsBlockingServer == ASSUME Surroundings PROVE Spec => ServesOneByOne
<1>1. Inv /\ Inv' /\ [Next]_vars => [Server!BNext]_(Server!bvars)
  BY ServerNext, ServedIs
<1> QED
  BY ServerInit, InvAlways, <1>1, PTL DEF Spec, ServesOneByOne, Server!BSpec
=============================================================================
