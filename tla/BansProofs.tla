----------------------------- MODULE BansProofs -----------------------------
(***************************************************************************)
(* Bans never get shorter while the process runs, and a ban that was saved *)
(* survives crashes and restarts, for any number of connections, goroutines*)
(* that ban, addresses and durations.                                      *)
(***************************************************************************)
EXTENDS Bans, TLAPS

BanMap == [Addr -> Nat]

BansTypeOK ==
    /\ now \in Nat
    /\ up \in BOOLEAN
    /\ manualBan \in Nat
    /\ bans \in BanMap
    /\ conn \in [Conn -> {"off", "checked", "peer", "stopped"}]
    /\ banner \in [Banner -> SUBSET Conn]
    /\ writing \in BOOLEAN
    /\ cache \in [bans : BanMap, peers : SUBSET Endpoint]
    /\ file \in [whole : BOOLEAN, bans : BanMap, peers : SUBSET Endpoint, time : Nat]
    /\ durable \in BanMap

\* m has every ban of an ip in n that still runs, and for as long.
Covers(m, n) == \A a \in IP : now < n[a] => n[a] <= m[a]

\* What makes DurableBans inductive: what was saved is in memory while the process
\* runs; it is also in the cache that is being written, which memory has caught up
\* with, or else in a complete file.
SavedInMemory == up => Covers(bans, durable)

SavedInCache == writing => up /\ Covers(cache.bans, durable) /\ Covers(bans, cache.bans)

SavedInFile ==
    ~writing => \A a \in IP : now < durable[a] => file.whole /\ durable[a] <= file.bans[a]

BansInv == BansTypeOK /\ SavedInMemory /\ SavedInCache /\ SavedInFile

-----------------------------------------------------------------------------
LEMMA Addresses ==
    /\ \A c \in Conn : IpOf[c] \in IP /\ EpOf[c] \in Endpoint
    /\ \A a \in IP : a \in Addr /\ a \notin Endpoint
    /\ \A a \in Endpoint : a \in Addr
    /\ NoBans \in BanMap
    /\ \A a \in Addr : NoBans[a] = 0
  BY BansAssumption DEF Addr, NoBans, BanMap

LEMMA InitInv == Init => BansInv
  <1> SUFFICES ASSUME Init PROVE BansInv
    OBVIOUS
  <1>1. BansTypeOK
    BY Addresses, BansAssumption DEF Init, BansTypeOK
  <1>2. SavedInMemory /\ SavedInCache /\ SavedInFile
    BY Addresses DEF Init, SavedInMemory, SavedInCache, SavedInFile, Covers
  <1> QED
    BY <1>1, <1>2 DEF BansInv

(* A step that leaves the file, the cache and what was saved alone, and lets   *)
(* no ban of an ip get shorter.                                                *)
LEMMA LongerKeeps ==
    ASSUME BansInv, BansTypeOK', UNCHANGED <<up, writing, cache, file, durable>>,
           now <= now', \A a \in IP : bans[a] <= bans'[a]
    PROVE  BansInv'
  <1> USE DEF BansInv, BansTypeOK, BanMap
  <1>0. \A a \in IP : a \in Addr
    BY Addresses
  <1>1. SavedInMemory'
    BY <1>0 DEF SavedInMemory, Covers
  <1>2. SavedInCache'
    BY <1>0 DEF SavedInCache, Covers
  <1>3. SavedInFile'
    BY <1>0 DEF SavedInFile
  <1> QED
    BY <1>1, <1>2, <1>3

LEMMA ConnectionsKeep ==
    ASSUME BansInv,
           \/ Tick
           \/ \E c \in Conn : Check(c) \/ Join(c) \/ Leave(c)
           \/ \E c \in Conn, b \in Banner : BanGet(b, c)
           \/ UNCHANGED vars
    PROVE  BansInv' /\ UNCHANGED bans
  <1>1. UNCHANGED <<up, writing, cache, file, durable, bans>> /\ now <= now'
    BY DEF BansInv, BansTypeOK, Tick, Check, Join, Leave, BanGet, vars
  <1>2. BansTypeOK'
    BY <1>1 DEF BansInv, BansTypeOK, Tick, Check, Join, Leave, BanGet, vars
  <1>3. \A a \in IP : bans[a] <= bans'[a]
    BY <1>1, Addresses DEF BansInv, BansTypeOK, BanMap
  <1> QED
    BY <1>1, <1>2, <1>3, LongerKeeps

LEMMA JoinSelfKeeps ==
    ASSUME BansInv, NEW c \in Conn, JoinSelf(c)
    PROVE  BansInv' /\ \A a \in IP : bans[a] <= bans'[a]
  <1>1. UNCHANGED <<up, writing, cache, file, durable, now>>
    BY DEF JoinSelf
  <1>2. BansTypeOK'
    BY Addresses, BansAssumption DEF BansInv, BansTypeOK, BanMap, JoinSelf
  <1>3. \A a \in IP : bans[a] <= bans'[a]
    BY Addresses DEF BansInv, BansTypeOK, BanMap, JoinSelf
  <1> QED
    BY <1>1, <1>2, <1>3, LongerKeeps DEF BansInv, BansTypeOK

LEMMA BanApplyKeeps ==
    ASSUME BansInv, NEW c \in Conn, NEW b \in Banner, BanApply(b, c)
    PROVE  BansInv' /\ \A a \in IP : bans[a] <= bans'[a]
  <1> DEFINE end == Max2(now + manualBan, bans[IpOf[c]])
  <1>1. UNCHANGED <<up, writing, cache, file, durable, now>>
    BY DEF BanApply
  <1>2. end \in Nat /\ bans[IpOf[c]] <= end
    BY Addresses DEF BansInv, BansTypeOK, BanMap, Max2
  <1>3. bans' = [bans EXCEPT ![IpOf[c]] = end, ![EpOf[c]] = end]
    BY DEF BanApply
  <1> HIDE DEF end
  <1>4. BansTypeOK'
    <2>1. bans' \in BanMap
      BY <1>2, <1>3 DEF BansInv, BansTypeOK, BanMap
    <2>2. conn' \in [Conn -> {"off", "checked", "peer", "stopped"}]
      BY DEF BansInv, BansTypeOK, BanApply
    <2>3. banner' \in [Banner -> SUBSET Conn]
      BY DEF BansInv, BansTypeOK, BanApply
    <2> QED
      BY <1>1, <2>1, <2>2, <2>3 DEF BansInv, BansTypeOK, BanApply
  <1>5. \A a \in IP : bans[a] <= bans'[a]
    BY <1>2, <1>3, Addresses DEF BansInv, BansTypeOK, BanMap
  <1> QED
    BY <1>1, <1>4, <1>5, LongerKeeps DEF BansInv, BansTypeOK

-----------------------------------------------------------------------------
(* The peer file. *)

LEMMA CacheBeginKeeps ==
    ASSUME BansInv, CacheBegin
    PROVE  BansInv' /\ \A a \in IP : now < bans[a] => bans[a] <= bans'[a]
  <1> DEFINE live == Ongoing
  <1>1. live \in BanMap /\ \A a \in Addr : live[a] = IF bans[a] < now THEN 0 ELSE bans[a]
    BY DEF BansInv, BansTypeOK, BanMap, Ongoing
  <1>2. /\ UNCHANGED <<now, up, manualBan, conn, banner, durable>>
        /\ bans' = live /\ cache'.bans = live
        /\ up /\ writing' = TRUE
    BY DEF CacheBegin
  <1>3. BansTypeOK'
    <2>1. {EpOf[c] : c \in {d \in Conn : Stored(d)}} \in SUBSET Endpoint
      BY Addresses
    <2>2. cache' \in [bans : BanMap, peers : SUBSET Endpoint]
      BY <1>1, <2>1 DEF CacheBegin
    <2>3. file' \in [whole : BOOLEAN, bans : BanMap, peers : SUBSET Endpoint, time : Nat]
      BY DEF CacheBegin, BansInv, BansTypeOK
    <2> QED
      BY <1>1, <1>2, <2>2, <2>3 DEF BansInv, BansTypeOK
  <1> HIDE DEF live
  <1>4. \A a \in IP : now < bans[a] => bans[a] = live[a]
    BY <1>1, Addresses DEF BansInv, BansTypeOK, BanMap
  <1>5. Covers(live, durable)
    BY <1>2, <1>4, Addresses DEF BansInv, BansTypeOK, BanMap, SavedInMemory, Covers
  <1>6. SavedInMemory' /\ SavedInCache' /\ SavedInFile'
    BY <1>1, <1>2, <1>5, Addresses DEF SavedInMemory, SavedInCache, SavedInFile, Covers, BanMap
  <1>7. \A a \in IP : now < bans[a] => bans[a] <= bans'[a]
    BY <1>2, <1>4, Addresses DEF BansInv, BansTypeOK, BanMap
  <1> QED
    BY <1>3, <1>6, <1>7 DEF BansInv

LEMMA CacheEndKeeps == ASSUME BansInv, CacheEnd PROVE BansInv' /\ UNCHANGED bans
  <1>1. /\ UNCHANGED <<now, up, manualBan, bans, conn, banner>>
        /\ writing /\ writing' = FALSE
        /\ file'.whole = TRUE /\ file'.bans = cache.bans
        /\ durable' = [a \in Addr |-> Max2(durable[a], cache.bans[a])]
    BY DEF CacheEnd
  <1>2. \A a \in IP : /\ cache.bans[a] \in Nat /\ durable[a] \in Nat /\ bans[a] \in Nat
                      /\ durable'[a] = Max2(durable[a], cache.bans[a])
    BY <1>1, Addresses DEF BansInv, BansTypeOK, BanMap
  <1>3. BansTypeOK'
    <2>1. durable' \in BanMap
      BY <1>1 DEF BansInv, BansTypeOK, BanMap, Max2
    <2> QED
      BY <1>1, <2>1, Addresses DEF BansInv, BansTypeOK, CacheEnd
  <1>4. SavedInMemory'
    BY <1>1, <1>2 DEF BansInv, BansTypeOK, SavedInMemory, SavedInCache, Covers, Max2
  <1>5. SavedInFile'
    BY <1>1, <1>2 DEF BansInv, BansTypeOK, SavedInFile, SavedInCache, Covers, Max2
  <1>6. SavedInCache'
    BY <1>1 DEF SavedInCache
  <1> QED
    BY <1>1, <1>3, <1>4, <1>5, <1>6 DEF BansInv

LEMMA CacheUnopenedKeeps ==
    ASSUME BansInv, CacheUnopened
    PROVE  BansInv' /\ \A a \in IP : now < bans[a] => bans[a] <= bans'[a]
  <1>1. /\ UNCHANGED <<now, up, manualBan, conn, banner, writing, cache, file, durable>>
        /\ ~writing
    BY DEF CacheUnopened
  <1>2. /\ bans' \in BanMap
        /\ \A a \in Addr : bans'[a] = IF bans[a] < now THEN 0 ELSE bans[a]
    BY DEF CacheUnopened, Ongoing, BansInv, BansTypeOK, BanMap
  <1>3. \A a \in IP : now < bans[a] => bans[a] <= bans'[a]
    BY <1>2, Addresses DEF BansInv, BansTypeOK, BanMap
  <1>4. BansTypeOK'
    BY <1>1, <1>2 DEF BansInv, BansTypeOK
  <1>5. SavedInMemory'
    BY <1>1, <1>2, Addresses
       DEF BansInv, BansTypeOK, BanMap, SavedInMemory, Covers
  <1>6. SavedInCache' /\ SavedInFile'
    BY <1>1 DEF BansInv, SavedInCache, SavedInFile
  <1> QED
    BY <1>3, <1>4, <1>5, <1>6 DEF BansInv

LEMMA CacheCutOffKeeps == ASSUME BansInv, CacheCutOff PROVE BansInv' /\ UNCHANGED bans
  <1>1. /\ UNCHANGED <<now, up, manualBan, bans, conn, banner, file>>
        /\ writing' = FALSE
        /\ durable' = NoBans
        /\ cache' = [bans |-> NoBans, peers |-> {}]
    BY DEF CacheCutOff
  <1>2. BansTypeOK'
    BY <1>1, Addresses DEF BansInv, BansTypeOK
  <1>3. SavedInMemory' /\ SavedInFile'
    BY <1>1, Addresses DEF BansInv, BansTypeOK, SavedInMemory, SavedInFile, Covers
  <1>4. SavedInCache'
    BY <1>1 DEF SavedInCache
  <1> QED
    BY <1>1, <1>2, <1>3, <1>4 DEF BansInv

LEMMA CrashKeeps == ASSUME BansInv, Crash PROVE BansInv' /\ ~up'
  <1>1. /\ UNCHANGED <<now, manualBan, file>>
        /\ up' = FALSE /\ writing' = FALSE
        /\ durable' = IF writing THEN NoBans ELSE durable
        /\ bans' = NoBans
    BY DEF Crash
  <1>2. BansTypeOK'
    <2>1. /\ conn' \in [Conn -> {"off", "checked", "peer", "stopped"}]
          /\ banner' \in [Banner -> SUBSET Conn]
          /\ cache' \in [bans : BanMap, peers : SUBSET Endpoint]
      BY Addresses DEF Crash
    <2> QED
      BY <1>1, <2>1, Addresses DEF BansInv, BansTypeOK
  <1>3. SavedInFile'
    BY <1>1, Addresses DEF BansInv, BansTypeOK, SavedInFile
  <1> QED
    BY <1>1, <1>2, <1>3 DEF BansInv, SavedInMemory, SavedInCache

LEMMA RestartKeeps == ASSUME BansInv, Restart PROVE BansInv' /\ ~up
  <1>1. /\ UNCHANGED <<now, conn, banner, writing, cache, file, durable>>
        /\ ~up /\ up' = TRUE
        /\ manualBan' \in Nat
    BY BansAssumption DEF Restart
  <1>2. ~writing
    BY <1>1 DEF BansInv, SavedInCache
  <1>3. bans' \in BanMap /\ Covers(bans', durable)
    <2>1. CASE file.whole
      <3>1. bans' = [a \in Addr |-> IF file.bans[a] < now THEN 0 ELSE file.bans[a]]
        BY <2>1 DEF Restart
      <3> QED
        BY <1>2, <2>1, <3>1, Addresses
           DEF BansInv, BansTypeOK, BanMap, SavedInFile, Covers
    <2>2. CASE ~file.whole
      <3>1. bans' = NoBans
        BY <2>2 DEF Restart
      <3> QED
        BY <1>2, <2>2, <3>1, Addresses DEF BansInv, SavedInFile, Covers
    <2> QED
      BY <2>1, <2>2
  <1>4. BansTypeOK'
    BY <1>1, <1>3 DEF BansInv, BansTypeOK
  <1>5. SavedInMemory' /\ SavedInCache' /\ SavedInFile'
    BY <1>1, <1>2, <1>3 DEF BansInv, SavedInMemory, SavedInCache, SavedInFile, Covers
  <1> QED
    BY <1>1, <1>4, <1>5 DEF BansInv

-----------------------------------------------------------------------------
LEMMA NextInv ==
    BansInv /\ [Next]_vars =>
        /\ BansInv'
        /\ \A a \in IP : up /\ up' /\ now < bans[a] => bans'[a] >= bans[a]
  <1> SUFFICES ASSUME BansInv, [Next]_vars
               PROVE  /\ BansInv'
                      /\ \A a \in IP : up /\ up' /\ now < bans[a] => bans[a] <= bans'[a]
    <2>1. BansInv /\ BansInv' => \A a \in IP : bans[a] \in Nat /\ bans'[a] \in Nat
      BY Addresses DEF BansInv, BansTypeOK, BanMap
    <2> QED
      BY <2>1
  <1>0. \A a \in IP : bans[a] \in Nat /\ bans[a] <= bans[a]
    BY Addresses DEF BansInv, BansTypeOK, BanMap
  <1>1. CASE \/ Tick
             \/ \E c \in Conn : Check(c) \/ Join(c) \/ Leave(c)
             \/ \E c \in Conn, b \in Banner : BanGet(b, c)
             \/ UNCHANGED vars
    BY <1>0, <1>1, ConnectionsKeep
  <1>2. CASE \E c \in Conn : JoinSelf(c)
    BY <1>2, JoinSelfKeeps
  <1>3. CASE \E c \in Conn, b \in Banner : BanApply(b, c)
    BY <1>3, BanApplyKeeps
  <1>4. CASE CacheBegin
    BY <1>4, CacheBeginKeeps
  <1>5. CASE CacheEnd
    BY <1>0, <1>5, CacheEndKeeps
  <1>6. CASE Crash
    BY <1>6, CrashKeeps
  <1>7. CASE Restart
    BY <1>7, RestartKeeps
  <1>8. CASE CacheUnopened
    BY <1>8, CacheUnopenedKeeps
  <1>9. CASE CacheCutOff
    BY <1>0, <1>9, CacheCutOffKeeps
  <1> QED
    BY <1>1, <1>2, <1>3, <1>4, <1>5, <1>6, <1>7, <1>8, <1>9 DEF Next

\* While the process runs, no step makes the ban of an ip end earlier, however many
\* goroutines ban peers of that ip with the cat round in between (controller.go,
\* ban).
THEOREM BansAlwaysHold == Spec => BansHold
  <1>1. BansInv /\ [Next]_vars =>
            [\A a \in IP : up /\ up' /\ now < bans[a] => bans'[a] >= bans[a]]_vars
    BY NextInv
  <1> QED
    BY <1>1, InitInv, NextInv, PTL DEF Spec, BansHold

\* A saved ban is in force after every crash and restart, unless a later write of the
\* file was cut off, by a crash or by an error, once the file was truncated
\* (controller_persistence.go).
THEOREM BansAlwaysDurable == Spec => []DurableBans
  <1>1. BansInv => DurableBans
    BY Addresses
       DEF BansInv, BansTypeOK, BanMap, SavedInMemory, Covers, DurableBans, Banned
  <1> QED
    BY <1>1, InitInv, NextInv, PTL DEF Spec

=============================================================================
