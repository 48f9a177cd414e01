----------------------------- MODULE DbrcHistory -----------------------------
(* DbrcIndex with a history variable: whether a turn of insert's loop has    *)
(* yet gone astray, in one of the three ways the code leaves open.           *)
(*   - It installs a block other than the one it has evicted, because the    *)
(*     scan has used up its attempts or the counter that it shares with the  *)
(*     loops over the tables says so (dbrc_cache.cc:541, 553, 567, 596).     *)
(*   - It clears the wrong first-level entry, because PT is too narrow for   *)
(*     the right one (dbrc_cache.cc:622, dbrc_cache.hh:30).                  *)
(*   - It stops in the parent's table at an entry that is not valid but      *)
(*     still has the victim's index, as every unused one has that of block 0 *)
(*     (dbrc_cache.cc:543).                                                  *)
(* With 5 attempts on 256 blocks and 65536 first-level entries all of them   *)
(* come in time; the properties below are about everything before, whatever  *)
(* the sizes, and so say that nothing else damages the index.                *)
EXTENDS DbrcIndex

VARIABLE strayed

historyVars == <<vars, strayed>>

\* After n attempts the turn installs the block it evicts: not smallest_r_idx.
TakesVictim(n) == Counter(n, Scanned(n), Slot(n)) # MNA

LeadsTo(entry, v) == entry.V /\ entry.I = v

\* The entry that leads to v, if there is one, is the entry that the eviction
\* of v clears: it stands where PT says, and in a table no other entry with the
\* index of v stands before it.
Severs(v) ==
    /\ \A t \in DOMAIN cache_L0T :
          LeadsTo(cache_L0T[t], v) => t = cache_DBA[v].PT
    /\ \A s \in Slots : \A e \in Entries :
          LeadsTo(cache_DBA[s].BTH[e], v) =>
              s = cache_DBA[v].PT /\ e = Min(Naming(cache_DBA, v))

Strays ==
    /\ InstallLevel
    /\ \E n \in 0 .. MNA : ScanEnds(n) /\ ~(TakesVictim(n) /\ Severs(Slot(n)))

Recorded == strayed' = (strayed \/ Strays)

HistoryInit == Init /\ strayed = FALSE
HistoryNext == Next /\ Recorded
HistorySpec == HistoryInit /\ [][HistoryNext]_historyVars
-----------------------------------------------------------------------------
(* Properties.                                                               *)

\* Until a turn has gone astray every valid pointer leads to a block in use at
\* the next level whose parent link leads back: neither the victims' parents nor
\* their children, reused in any order, leave a pointer that dangles
\* (dbrc_cache.cc:534-549, 567-576).
PointersKept == ~strayed => PointersSound

\* ... every TLB entry names a data block that holds the entry's own tag, which
\* a hit does not look at: evictions drop it by a tag that a slot keeps from its
\* last occupant until insert ends (dbrc_cache.cc:407-414, 554-563).
TLBKept == ~strayed => TLBCoherent

\* ... and between handlers a walk that goes all the way, checking neither level
\* nor tag on its way, ends at the block searched (dbrc_cache.cc:364-382).
WalksKept == ~strayed => WalksExact
=============================================================================
