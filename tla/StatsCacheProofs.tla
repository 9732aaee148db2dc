-------------------------- MODULE StatsCacheProofs --------------------------
(* The /stats cache for any number of clients, any TTL and any chain: what is  *)
(* served is never older than the TTL and one refresh, and its numbers fit.    *)
EXTENDS StatsCache, FiniteSetTheorems, TLAPS

(* A refresh under way is no older than the longest one, and an entry was no   *)
(* older when it was written.                                                  *)
AgeInv ==
    /\ \A c \in Refreshing : stats[c].taken <= now /\ now - stats[c].taken <= MaxRefresh
    /\ \A entry \in cache : /\ entry.at <= now /\ entry.stats.taken <= entry.at
                            /\ entry.at - entry.stats.taken <= MaxRefresh

(* The node counts an output before it executes it, and knows the committee of *)
(* every epoch it has entered.                                                 *)
NodeInv ==
    /\ EpochOfBlock[tip] <= epoch
    /\ epoch > 0 => 1..epoch \subseteq known

(* What a refresh has read so far fits together.                               *)
ReadInv ==
    \A c \in Clients :
      /\ pc[c] \in {"txs", "epoch", "committee", "write"} => stats[c].latest_block <= tip
      /\ pc[c] \in {"epoch", "committee", "write"} =>
           stats[c].total_txs >= TxsUpTo[stats[c].latest_block]
      /\ pc[c] \in {"committee", "write"} =>
           /\ stats[c].epoch_number >= EpochOfBlock[stats[c].latest_block]
           /\ stats[c].epoch_number <= epoch
      /\ pc[c] = "write" => Coherent(stats[c])

(* The inductive invariant.                                                    *)
IInv ==
    /\ TypeOK
    /\ AgeInv
    /\ NodeInv
    /\ ReadInv
    /\ StatsCoherent
    /\ \A entry \in cache : Coherent(entry.stats)

-----------------------------------------------------------------------------
(* Initially nothing is cached and nothing is asked.                           *)
LEMMA InitIInv == Init => IInv
<1> SUFFICES ASSUME Init PROVE IInv
  OBVIOUS
<1> USE DEF Init
<1>1. NoStats \in StatsType
  BY StatsAssumption DEF NoStats, StatsType
<1>2. TypeOK
  <2>1. Cardinality(cache) <= 1
    BY FS_EmptySet
  <2>2. EpochOfBlock[MaxTip] \in Nat
    BY StatsAssumption
  <2> QED BY <1>1, <2>1, <2>2, StatsAssumption DEF TypeOK
<1>3. AgeInv
  BY DEF AgeInv, Refreshing
<1>4. NodeInv
  BY StatsAssumption DEF NodeInv
<1>5. ReadInv /\ StatsCoherent
  BY DEF ReadInv, StatsCoherent
<1> QED BY <1>2, <1>3, <1>4, <1>5 DEF IInv

(* The node moves: what was read stays true of the earlier node.               *)
LEMMA NodeKeeps == ASSUME IInv, Commit \/ NextEpoch PROVE IInv'
<1>1. UNCHANGED <<now, cache, pc, stats>> /\ tip' >= tip /\ epoch' >= epoch
  BY DEF Commit, NextEpoch, IInv, TypeOK
<1>2. TypeOK'
  <2>1. tip' \in 0..MaxTip /\ epoch' \in 0..EpochOfBlock[MaxTip] /\ known' \subseteq 0..epoch'
    <3>1. tip \in 0..MaxTip /\ epoch \in 0..EpochOfBlock[MaxTip] /\ known \subseteq 0..epoch
      BY DEF IInv, TypeOK
    <3>2. MaxTip \in Nat /\ EpochOfBlock[MaxTip] \in Nat
      BY StatsAssumption
    <3>3. CASE Commit
      BY <3>1, <3>2, <3>3 DEF Commit
    <3>4. CASE NextEpoch
      BY <3>1, <3>2, <3>4 DEF NextEpoch
    <3> QED BY <3>3, <3>4
  <2> QED BY <1>1, <2>1 DEF IInv, TypeOK
<1>3. AgeInv'
  BY <1>1 DEF IInv, AgeInv, Refreshing
<1>4. NodeInv'
  <2>1. CASE Commit
    BY <2>1, StatsAssumption DEF Commit, IInv, TypeOK, NodeInv
  <2>2. CASE NextEpoch
    BY <2>2, StatsAssumption DEF NextEpoch, IInv, TypeOK, NodeInv
  <2> QED BY <2>1, <2>2
<1>5. ReadInv'
  <2>1. tip \in Nat /\ tip' \in Nat /\ epoch \in Nat /\ epoch' \in Nat
    BY <1>2, StatsAssumption DEF IInv, TypeOK
  <2> QED BY <1>1, <2>1 DEF IInv, TypeOK, StatsType, ReadInv, Coherent
<1>6. StatsCoherent' /\ (\A entry \in cache : Coherent(entry.stats))'
  BY <1>1 DEF IInv, StatsCoherent, Coherent
<1> QED BY <1>2, <1>3, <1>4, <1>5, <1>6 DEF IInv

(* Time passes, but not over the longest refresh.                              *)
LEMMA TickKeeps == ASSUME IInv, Tick PROVE IInv'
<1> USE DEF Tick
<1>1. now \in Nat /\ now' = now + 1 /\ now' \in 0..MaxTime
  BY StatsAssumption DEF IInv, TypeOK
<1>2. TypeOK'
  <2>1. \A entry \in cache : entry.at \in 0..now'
    BY <1>1 DEF IInv, TypeOK
  <2> QED BY <1>1, <2>1 DEF IInv, TypeOK
<1>3. AgeInv'
  <2>1. \A c \in Refreshing : stats[c].taken \in Nat /\ now - stats[c].taken < MaxRefresh
    BY DEF IInv, TypeOK, StatsType, Refreshing
  <2>2. \A entry \in cache : entry.at \in Nat
    BY <1>1 DEF IInv, TypeOK
  <2>3. MaxRefresh \in Nat
    BY StatsAssumption
  <2>4. Refreshing' = Refreshing
    BY DEF Refreshing
  <2> QED BY <1>1, <2>1, <2>2, <2>3, <2>4 DEF IInv, AgeInv
<1>4. NodeInv' /\ ReadInv' /\ StatsCoherent' /\ (\A entry \in cache : Coherent(entry.stats))'
  BY DEF IInv, NodeInv, ReadInv, StatsCoherent, Coherent
<1> QED BY <1>2, <1>3, <1>4 DEF IInv

-----------------------------------------------------------------------------
(* A step of client c's request that leaves node and cache alone.              *)
LEMMA RequestKeeps ==
    ASSUME IInv, NEW c \in Clients, UNCHANGED <<node, cache>>,
           NEW p \in {"idle", "block", "txs", "epoch", "committee", "write", "served"},
           NEW s \in StatsType,
           pc' = [pc EXCEPT ![c] = p], stats' = [stats EXCEPT ![c] = s],
           p \notin {"idle", "served"} => s.taken <= now /\ now - s.taken <= MaxRefresh,
           p \in {"txs", "epoch", "committee", "write"} => s.latest_block <= tip,
           p \in {"epoch", "committee", "write"} => s.total_txs >= TxsUpTo[s.latest_block],
           p \in {"committee", "write"} => /\ s.epoch_number >= EpochOfBlock[s.latest_block]
                                          /\ s.epoch_number <= epoch,
           p \in {"write", "served"} => Coherent(s)
    PROVE  IInv'
<1>1. UNCHANGED <<now, tip, epoch, known, cache>>
  BY DEF node
<1>2. /\ pc \in [Clients -> {"idle", "block", "txs", "epoch", "committee", "write", "served"}]
      /\ stats \in [Clients -> StatsType]
  BY DEF IInv, TypeOK
<1>3. /\ pc'[c] = p /\ stats'[c] = s
      /\ \A d \in Clients \ {c} : pc'[d] = pc[d] /\ stats'[d] = stats[d]
  BY <1>2
<1>4. TypeOK'
  BY <1>1, <1>2 DEF IInv, TypeOK
<1>5. AgeInv'
  <2>1. ASSUME NEW d \in Clients, pc'[d] \in {"block", "txs", "epoch", "committee", "write"}
        PROVE  stats'[d].taken <= now /\ now - stats'[d].taken <= MaxRefresh
    BY <1>3, <2>1 DEF IInv, AgeInv, Refreshing
  <2> QED BY <1>1, <2>1 DEF IInv, AgeInv, Refreshing
<1>6. NodeInv'
  BY <1>1 DEF IInv, NodeInv
<1>7. ReadInv'
  <2>1. \A d \in Clients \ {c} : Coherent(stats'[d]) <=> Coherent(stats[d])
    BY <1>3
  <2>2. Coherent(stats'[c]) <=> Coherent(s)
    BY <1>3
  <2> QED BY <1>1, <1>3, <2>1, <2>2 DEF IInv, ReadInv, Coherent
<1>8. StatsCoherent'
  BY <1>1, <1>3 DEF IInv, StatsCoherent, Coherent
<1>9. (\A entry \in cache : Coherent(entry.stats))'
  BY <1>1 DEF IInv, Coherent
<1> QED BY <1>4, <1>5, <1>6, <1>7, <1>8, <1>9 DEF IInv

(* A client is served from the cache, or starts a refresh.                     *)
LEMMA CheckCacheKeeps == ASSUME IInv, NEW c \in Clients, CheckCache(c) PROVE IInv'
<1>1. now \in Nat /\ now \in 0..MaxTime /\ MaxRefresh \in Nat
  BY StatsAssumption DEF IInv, TypeOK
<1>2. CASE \E entry \in cache :
             /\ stats' = [stats EXCEPT ![c] = entry.stats]
             /\ pc' = [pc EXCEPT ![c] = "served"]
  <2>1. PICK entry \in cache : /\ stats' = [stats EXCEPT ![c] = entry.stats]
                               /\ pc' = [pc EXCEPT ![c] = "served"]
    BY <1>2
  <2>2. entry.stats \in StatsType /\ Coherent(entry.stats)
    BY DEF IInv, TypeOK
  <2> DEFINE s == entry.stats
  <2>3. s \in StatsType /\ Coherent(s) /\ stats' = [stats EXCEPT ![c] = s]
    BY <2>1, <2>2
  <2> HIDE DEF s
  <2>4. UNCHANGED <<node, cache>>
    BY DEF CheckCache
  <2> QED BY <2>1, <2>3, <2>4, RequestKeeps
<1>3. CASE /\ stats' = [stats EXCEPT ![c] = [NoStats EXCEPT !.taken = now]]
           /\ pc' = [pc EXCEPT ![c] = "block"]
  <2> DEFINE s == [NoStats EXCEPT !.taken = now]
  <2>1. s \in StatsType /\ s.taken <= now /\ now - s.taken <= MaxRefresh
    <3>1. 0 \in 0..MaxTip
      BY StatsAssumption
    <3>2. s = [taken |-> now, latest_block |-> 0, total_txs |-> 0, epoch_number |-> 0,
               validator_count |-> 0]
      BY DEF NoStats
    <3>3. s \in StatsType
      BY <1>1, <3>1, <3>2 DEF StatsType
    <3>4. s.taken = now
      BY <3>2
    <3> QED BY <1>1, <3>3, <3>4
  <2>2. UNCHANGED <<node, cache>> /\ stats' = [stats EXCEPT ![c] = s]
    BY <1>3 DEF CheckCache
  <2> HIDE DEF s
  <2> QED BY <1>1, <1>3, <2>1, <2>2, RequestKeeps
<1> QED BY <1>2, <1>3 DEF CheckCache

(* The snapshot reads the tip.                                                 *)
LEMMA ReadBlockKeeps == ASSUME IInv, NEW c \in Clients, ReadBlock(c) PROVE IInv'
<1> DEFINE s == [stats[c] EXCEPT !.latest_block = tip]
<1>1. /\ stats \in [Clients -> StatsType] /\ stats[c] \in StatsType
      /\ tip \in 0..MaxTip /\ tip \in Nat
  BY StatsAssumption DEF IInv, TypeOK
<1>2. /\ pc[c] = "block" /\ pc' = [pc EXCEPT ![c] = "txs"] /\ UNCHANGED <<node, cache>>
      /\ stats' = [stats EXCEPT ![c] = s]
  BY DEF ReadBlock
<1>3. s \in StatsType /\ s.taken = stats[c].taken /\ s.latest_block = tip
  BY <1>1 DEF StatsType
<1>4. s.taken <= now /\ now - s.taken <= MaxRefresh
  BY <1>2, <1>3 DEF IInv, AgeInv, Refreshing
<1>5. s.latest_block <= tip
  BY <1>1, <1>3
<1> HIDE DEF s
<1> QED BY <1>5, <1>1, <1>2, <1>3, <1>4, RequestKeeps

(* The transactions are counted at a tip not below the one shown.              *)
LEMMA ReadTotalKeeps == ASSUME IInv, NEW c \in Clients, ReadTotal(c) PROVE IInv'
<1> DEFINE s == [stats[c] EXCEPT !.total_txs = TxsUpTo[tip]]
<1>1. /\ stats \in [Clients -> StatsType] /\ stats[c] \in StatsType
      /\ tip \in 0..MaxTip /\ TxsUpTo[tip] \in Nat
  BY StatsAssumption DEF IInv, TypeOK
<1>2. /\ pc[c] = "txs" /\ pc' = [pc EXCEPT ![c] = "epoch"] /\ UNCHANGED <<node, cache>>
      /\ stats' = [stats EXCEPT ![c] = s]
  BY DEF ReadTotal
<1>3. /\ s \in StatsType /\ s.taken = stats[c].taken
      /\ s.latest_block = stats[c].latest_block /\ s.total_txs = TxsUpTo[tip]
  BY <1>1 DEF StatsType
<1>4. stats[c].taken <= now /\ now - stats[c].taken <= MaxRefresh
  BY <1>2 DEF IInv, AgeInv, Refreshing
<1>5. stats[c].latest_block \in 0..MaxTip /\ stats[c].latest_block <= tip
  BY <1>1, <1>2 DEF IInv, ReadInv, StatsType
<1>6. TxsUpTo[stats[c].latest_block] <= TxsUpTo[tip] /\ TxsUpTo[stats[c].latest_block] \in Nat
  BY <1>1, <1>5, StatsAssumption
<1> HIDE DEF s
<1> QED BY <1>1, <1>2, <1>3, <1>4, <1>5, <1>6, RequestKeeps

(* The epoch counter is not behind any committed block.                        *)
LEMMA ReadEpochKeeps == ASSUME IInv, NEW c \in Clients, ReadEpoch(c) PROVE IInv'
<1> DEFINE s == [stats[c] EXCEPT !.epoch_number = epoch]
<1>1. /\ stats \in [Clients -> StatsType] /\ stats[c] \in StatsType
      /\ tip \in 0..MaxTip /\ epoch \in Nat
  BY StatsAssumption DEF IInv, TypeOK
<1>2. /\ pc[c] = "epoch" /\ pc' = [pc EXCEPT ![c] = "committee"] /\ UNCHANGED <<node, cache>>
      /\ stats' = [stats EXCEPT ![c] = s]
  BY DEF ReadEpoch
<1>3. /\ s \in StatsType /\ s.taken = stats[c].taken /\ s.total_txs = stats[c].total_txs
      /\ s.latest_block = stats[c].latest_block /\ s.epoch_number = epoch
  BY <1>1 DEF StatsType
<1>4. s.taken <= now /\ now - s.taken <= MaxRefresh
  BY <1>2, <1>3 DEF IInv, AgeInv, Refreshing
<1>5. /\ s.latest_block \in 0..MaxTip /\ s.latest_block <= tip
      /\ s.total_txs >= TxsUpTo[s.latest_block]
  BY <1>1, <1>2, <1>3 DEF IInv, ReadInv, StatsType
<1>6. s.epoch_number >= EpochOfBlock[s.latest_block] /\ s.epoch_number <= epoch
  <2>1. /\ EpochOfBlock[s.latest_block] <= EpochOfBlock[tip]
        /\ EpochOfBlock[s.latest_block] \in Nat /\ EpochOfBlock[tip] \in Nat
    BY <1>1, <1>5, StatsAssumption
  <2>2. EpochOfBlock[tip] <= epoch
    BY DEF IInv, NodeInv
  <2> QED BY <1>1, <1>3, <2>1, <2>2
<1> HIDE DEF s
<1> QED BY <1>2, <1>3, <1>4, <1>5, <1>6, RequestKeeps

(* The committee of an epoch entered is known, but for the very first.         *)
LEMMA ReadCommitteeKeeps == ASSUME IInv, NEW c \in Clients, ReadCommittee(c) PROVE IInv'
<1> DEFINE e == stats[c].epoch_number
           v == IF e \in known THEN CommitteeSize[e] ELSE RegistrySize[tip]
           s == [stats[c] EXCEPT !.validator_count = v]
<1>1. /\ stats \in [Clients -> StatsType] /\ stats[c] \in StatsType
      /\ tip \in 0..MaxTip /\ epoch \in Nat /\ epoch \in 0..EpochOfBlock[MaxTip]
      /\ known \subseteq 0..epoch /\ EpochOfBlock[MaxTip] \in Nat
  BY StatsAssumption DEF IInv, TypeOK
<1>2. /\ pc[c] = "committee" /\ pc' = [pc EXCEPT ![c] = "write"] /\ UNCHANGED <<node, cache>>
      /\ stats' = [stats EXCEPT ![c] = s]
  BY DEF ReadCommittee
<1>3. v \in Nat
  <2>1. CASE e \in known
    <3>1. e \in 0..EpochOfBlock[MaxTip]
      <4>1. known \subseteq 0..epoch
        BY <1>1
      <4>2. e \in 0..epoch
        BY <2>1, <4>1, Zenon
      <4>3. epoch <= EpochOfBlock[MaxTip] /\ epoch \in Nat /\ EpochOfBlock[MaxTip] \in Nat
        BY <1>1
      <4> HIDE DEF e
      <4> QED BY <4>2, <4>3
    <3> QED BY <2>1, <3>1, StatsAssumption
  <2>2. CASE e \notin known
    BY <1>1, <2>2, StatsAssumption
  <2> QED BY <2>1, <2>2
<1>4. e \in Nat /\ e <= epoch
  BY <1>1, <1>2 DEF IInv, ReadInv, StatsType
<1>5. e > 0 => v = CommitteeSize[e]
  <2>1. e > 0 => e \in known
    BY <1>1, <1>4 DEF IInv, NodeInv
  <2> QED BY <2>1
<1> HIDE DEF v
<1>6. /\ s \in StatsType /\ s.taken = stats[c].taken /\ s.total_txs = stats[c].total_txs
      /\ s.latest_block = stats[c].latest_block /\ s.epoch_number = e
      /\ s.validator_count = v
  BY <1>1, <1>3 DEF StatsType
<1>7. s.taken <= now /\ now - s.taken <= MaxRefresh
  BY <1>2, <1>6 DEF IInv, AgeInv, Refreshing
<1>8. /\ s.latest_block <= tip
      /\ s.total_txs >= TxsUpTo[s.latest_block]
      /\ s.epoch_number >= EpochOfBlock[s.latest_block] /\ s.epoch_number <= epoch
  BY <1>2, <1>6 DEF IInv, ReadInv
<1>9. Coherent(s)
  BY <1>5, <1>6, <1>8 DEF Coherent
<1> HIDE DEF s
<1> QED BY <1>2, <1>6, <1>7, <1>8, <1>9, RequestKeeps

(* A request ends, well or badly.                                              *)
LEMMA EndKeeps == ASSUME IInv, NEW c \in Clients, ReadFails(c) \/ Respond(c) PROVE IInv'
<1>1. /\ pc' = [pc EXCEPT ![c] = "idle"] /\ stats' = [stats EXCEPT ![c] = NoStats]
      /\ UNCHANGED <<node, cache>>
  BY DEF ReadFails, Respond
<1>2. NoStats \in StatsType
  BY StatsAssumption DEF NoStats, StatsType
<1> QED BY <1>1, <1>2, RequestKeeps

(* A refresh replaces the entry, which is then as old as the refresh was long. *)
LEMMA WriteBackKeeps == ASSUME IInv, NEW c \in Clients, WriteBack(c) PROVE IInv'
<1> DEFINE entry == [at |-> now, stats |-> stats[c]]
<1>1. /\ pc[c] = "write" /\ cache' = {entry} /\ pc' = [pc EXCEPT ![c] = "served"]
      /\ UNCHANGED <<now, tip, epoch, known, stats>>
  BY DEF WriteBack, node
<1>2. /\ pc \in [Clients -> {"idle", "block", "txs", "epoch", "committee", "write", "served"}]
      /\ stats \in [Clients -> StatsType] /\ now \in Nat
  BY StatsAssumption DEF IInv, TypeOK
<1>3. entry.at = now /\ entry.stats = stats[c]
  OBVIOUS
<1>4. Coherent(stats[c]) /\ stats[c].taken <= now /\ now - stats[c].taken <= MaxRefresh
  BY <1>1 DEF IInv, ReadInv, AgeInv, Refreshing
<1> HIDE DEF entry
<1>5. pc'[c] = "served" /\ \A d \in Clients \ {c} : pc'[d] = pc[d]
  BY <1>1, <1>2
<1>6. TypeOK'
  <2>1. Cardinality(cache') <= 1
    <3>1. Cardinality({entry}) = 1
      BY FS_Singleton
    <3> QED BY <1>1, <3>1
  <2> QED BY <1>1, <1>2, <1>3, <2>1 DEF IInv, TypeOK
<1>7. AgeInv'
  <2>1. Refreshing' \subseteq Refreshing
    BY <1>5 DEF Refreshing
  <2> QED BY <1>1, <1>2, <1>3, <1>4, <2>1 DEF IInv, AgeInv
<1>8. NodeInv'
  BY <1>1 DEF IInv, NodeInv
<1>9. ReadInv' /\ StatsCoherent'
  BY <1>1, <1>4, <1>5 DEF IInv, ReadInv, StatsCoherent, Coherent
<1>10. (\A x \in cache : Coherent(x.stats))'
  BY <1>1, <1>3, <1>4 DEF Coherent
<1> QED BY <1>6, <1>7, <1>8, <1>9, <1>10 DEF IInv

(* Every step, or none, keeps the invariant.                                   *)
LEMMA NextIInv == IInv /\ [Next]_vars => IInv'
<1> SUFFICES ASSUME IInv, [Next]_vars PROVE IInv'
  OBVIOUS
<1>1. CASE Commit \/ NextEpoch \/ Tick
  BY <1>1, NodeKeeps, TickKeeps
<1>2. CASE \E c \in Clients :
             \/ CheckCache(c) \/ ReadBlock(c) \/ ReadTotal(c) \/ ReadEpoch(c)
             \/ ReadCommittee(c) \/ ReadFails(c) \/ WriteBack(c) \/ Respond(c)
  BY <1>2, CheckCacheKeeps, ReadBlockKeeps, ReadTotalKeeps, ReadEpochKeeps, ReadCommitteeKeeps,
     EndKeeps, WriteBackKeeps
<1>3. CASE UNCHANGED vars
  <2>1. UNCHANGED <<now, tip, epoch, known, cache, pc, stats>>
    BY <1>3 DEF vars
  <2>2. TypeOK' /\ AgeInv' /\ NodeInv'
    BY <2>1 DEF IInv, TypeOK, AgeInv, Refreshing, NodeInv
  <2>3. ReadInv' /\ StatsCoherent' /\ (\A entry \in cache : Coherent(entry.stats))'
    BY <2>1 DEF IInv, ReadInv, StatsCoherent, Coherent
  <2> QED BY <2>2, <2>3 DEF IInv
<1> QED BY <1>1, <1>2, <1>3 DEF Next

(* The invariant holds throughout.                                             *)
LEMMA AlwaysIInv == Spec => []IInv
BY InitIInv, NextIInv, PTL DEF Spec

(* Type correctness of the stats cache.                                        *)
THEOREM TypeCorrect == Spec => []TypeOK
<1>1. IInv => TypeOK
  BY DEF IInv
<1> QED BY <1>1, AlwaysIInv, PTL

(* One answer: from the cache it is younger than the TTL and as old as the     *)
(* refresh that wrote it, a refreshed one is as old as its own refresh.        *)
LEMMA AnswerIsYoung ==
    ASSUME IInv, [Next]_vars, NEW c \in Clients, pc[c] # "served", pc'[c] = "served"
    PROVE  now - stats'[c].taken < STATS_TTL + MaxRefresh
<1>1. now \in Int /\ STATS_TTL \in Nat \ {0} /\ MaxRefresh \in Int
  BY StatsAssumption DEF IInv, TypeOK
<1>2. pc \in [Clients -> {"idle", "block", "txs", "epoch", "committee", "write", "served"}]
      /\ stats \in [Clients -> StatsType]
  BY DEF IInv, TypeOK
<1>3. CASE CheckCache(c)
  <2>1. PICK entry \in cache : Fresh(entry) /\ stats' = [stats EXCEPT ![c] = entry.stats]
    BY <1>2, <1>3 DEF CheckCache
  <2>2. stats'[c] = entry.stats
    BY <1>2, <2>1
  <2>3. entry.at \in Int /\ entry.stats.taken \in Int
    BY <2>1 DEF IInv, TypeOK, StatsType
  <2>4. now - entry.at < STATS_TTL /\ entry.at - entry.stats.taken <= MaxRefresh
    BY <2>1 DEF Fresh, IInv, AgeInv
  <2> QED BY <1>1, <2>2, <2>3, <2>4
<1>4. CASE WriteBack(c)
  <2>1. stats' = stats /\ c \in Refreshing
    BY <1>4 DEF WriteBack, Refreshing
  <2>2. now - stats[c].taken <= MaxRefresh
    BY <2>1 DEF IInv, AgeInv
  <2>3. stats[c].taken \in Int
    BY <1>2 DEF StatsType
  <2> QED BY <1>1, <2>1, <2>2, <2>3
<1>5. CheckCache(c) \/ WriteBack(c)
  <2>1. ASSUME NEW d \in Clients,
               \/ ReadBlock(d) \/ ReadTotal(d) \/ ReadEpoch(d) \/ ReadCommittee(d)
               \/ ReadFails(d) \/ Respond(d)
        PROVE  FALSE
    BY <1>2, <2>1 DEF ReadBlock, ReadTotal, ReadEpoch, ReadCommittee, ReadFails, Respond
  <2>2. \A d \in Clients \ {c} : CheckCache(d) \/ WriteBack(d) => pc'[c] = pc[c]
    BY <1>2 DEF CheckCache, WriteBack
  <2>3. ~(Commit \/ NextEpoch \/ Tick \/ UNCHANGED vars)
    BY DEF Commit, NextEpoch, Tick, vars
  <2> QED BY <2>1, <2>2, <2>3 DEF Next
<1> QED BY <1>3, <1>4, <1>5

(* Whatever refreshes overlap and overwrite each other, no answer is as old as *)
(* the TTL and the longest refresh together when it is given (stats).          *)
THEOREM StalenessAlwaysBounded == Spec => StalenessBound
<1>1. ASSUME IInv, [Next]_vars
      PROVE  [\A c \in Clients : pc[c] # "served" /\ pc'[c] = "served"
                => now - stats'[c].taken < STATS_TTL + MaxRefresh]_vars
  BY <1>1, AnswerIsYoung
<1> QED BY <1>1, AlwaysIInv, PTL DEF Spec, StalenessBound

(* The numbers of an answer fit together for every chain and every interleaving*)
(* of commits, epochs and other clients' refreshes (stats_snapshot, stats).    *)
THEOREM StatsAlwaysCoherent == Spec => []StatsCoherent
<1>1. IInv => StatsCoherent
  BY DEF IInv
<1> QED BY <1>1, AlwaysIInv, PTL
=============================================================================
