----------------------------- MODULE StatsCache -----------------------------
(* GET /stats (src/api.rs) and its cache: every client polls it, and one that  *)
(* finds the cache expired takes a snapshot of the node by several reads and   *)
(* writes it back. Nothing keeps two clients from refreshing at once, or the   *)
(* slower from overwriting the faster one's snapshot.                          *)
EXTENDS Integers, FiniteSets

CONSTANTS
    Clients,
    STATS_TTL,       \* how long a cached answer is served (5 s in the code)
    MaxRefresh,      \* the longest a refresh takes, from its first read to the write
    TxsUpTo,         \* height -> transactions in blocks 0..height
    EpochOfBlock,    \* height -> epoch whose output produced the block
    CommitteeSize,   \* epoch -> validators seated
    RegistrySize,    \* height -> validators in the registry at that block
    MaxTip, MaxTime  \* bounds: blocks committed, clock ticks

ASSUME StatsAssumption ==
    /\ STATS_TTL \in Nat \ {0} /\ MaxRefresh \in Nat
    /\ MaxTip \in Nat /\ MaxTime \in Nat
    /\ TxsUpTo \in [0..MaxTip -> Nat]
    /\ EpochOfBlock \in [0..MaxTip -> Nat]
    /\ RegistrySize \in [0..MaxTip -> Nat]
    /\ CommitteeSize \in [0..EpochOfBlock[MaxTip] -> Nat]
    /\ EpochOfBlock[0] = 0
    /\ \A m, n \in 0..MaxTip : m <= n => /\ TxsUpTo[m] <= TxsUpTo[n]
                                        /\ EpochOfBlock[m] <= EpochOfBlock[n]

VARIABLES
    now,     \* the clock
    tip,     \* the node's last committed block
    epoch,   \* latest_consensus_epoch()
    known,   \* epochs whose committee the record store knows
    cache,   \* Option of [at, stats]
    pc,      \* client -> where its request is
    stats    \* client -> what its request has read, or was served

vars == <<now, tip, epoch, known, cache, pc, stats>>
node == <<now, tip, epoch, known>>

-----------------------------------------------------------------------------
(* taken is the moment the snapshot began: it is not part of the answer.       *)
NoStats == [taken |-> 0, latest_block |-> 0, total_txs |-> 0, epoch_number |-> 0,
            validator_count |-> 0]

Refreshing == {c \in Clients : pc[c] \in {"block", "txs", "epoch", "committee", "write"}}

Init ==
    /\ now = 0 /\ tip = 0 /\ epoch = 0 /\ known \in {{}, {0}}
    /\ cache = {}
    /\ pc = [c \in Clients |-> "idle"] /\ stats = [c \in Clients |-> NoStats]

(* The node: a block is executed after its output is counted, and the          *)
(* committee of an epoch is known when its first output is.                    *)
Commit ==
    /\ tip < MaxTip /\ EpochOfBlock[tip + 1] <= epoch /\ tip' = tip + 1
    /\ UNCHANGED <<now, epoch, known, cache, pc, stats>>

NextEpoch ==
    /\ epoch < EpochOfBlock[MaxTip] /\ EpochOfBlock[tip] = epoch
    /\ epoch' = epoch + 1 /\ known' = known \cup {epoch, epoch + 1}
    /\ UNCHANGED <<now, tip, cache, pc, stats>>

(* Time passes, and no refresh takes longer than MaxRefresh.                   *)
Tick ==
    /\ now < MaxTime
    /\ \A c \in Refreshing : now - stats[c].taken < MaxRefresh
    /\ now' = now + 1
    /\ UNCHANGED <<tip, epoch, known, cache, pc, stats>>

-----------------------------------------------------------------------------
(* Mutant of Fresh: an entry whose age is the TTL is still served.             *)
FreshAtTTL(entry) == now - entry.at <= STATS_TTL

(* refreshed_at.elapsed() < STATS_TTL                                          *)
Fresh(entry) == now - entry.at < STATS_TTL

CheckCache(c) ==
    /\ pc[c] = "idle"
    /\ \/ \E entry \in cache :
            /\ Fresh(entry)
            /\ stats' = [stats EXCEPT ![c] = entry.stats]
            /\ pc' = [pc EXCEPT ![c] = "served"]
       \/ /\ \A entry \in cache : ~Fresh(entry)
          /\ stats' = [stats EXCEPT ![c] = [NoStats EXCEPT !.taken = now]]
          /\ pc' = [pc EXCEPT ![c] = "block"]
    /\ UNCHANGED <<node, cache>>

(* stats_snapshot: one closure, but each read sees the database of its moment. *)
ReadBlock(c) ==
    /\ pc[c] = "block"
    /\ stats' = [stats EXCEPT ![c].latest_block = tip]
    /\ pc' = [pc EXCEPT ![c] = "txs"]
    /\ UNCHANGED <<node, cache>>

ReadTotal(c) ==
    /\ pc[c] = "txs"
    /\ stats' = [stats EXCEPT ![c].total_txs = TxsUpTo[tip]]
    /\ pc' = [pc EXCEPT ![c] = "epoch"]
    /\ UNCHANGED <<node, cache>>

(* Mutant of ReadEpoch: the block shown is read here, after the total.         *)
ReadEpochAndBlock(c) ==
    /\ pc[c] = "epoch"
    /\ stats' = [stats EXCEPT ![c].epoch_number = epoch, ![c].latest_block = tip]
    /\ pc' = [pc EXCEPT ![c] = "committee"]
    /\ UNCHANGED <<node, cache>>

ReadEpoch(c) ==
    /\ pc[c] = "epoch"
    /\ stats' = [stats EXCEPT ![c].epoch_number = epoch]
    /\ pc' = [pc EXCEPT ![c] = "committee"]
    /\ UNCHANGED <<node, cache>>

(* The committee of the epoch read a moment ago; the registry at the tip when  *)
(* the record store knows none.                                                *)
ReadCommittee(c) ==
    /\ pc[c] = "committee"
    /\ stats' = [stats EXCEPT ![c].validator_count =
                   IF stats[c].epoch_number \in known THEN CommitteeSize[stats[c].epoch_number]
                   ELSE RegistrySize[tip]]
    /\ pc' = [pc EXCEPT ![c] = "write"]
    /\ UNCHANGED <<node, cache>>

(* A failed read is a 500 and leaves the cache alone.                          *)
ReadFails(c) ==
    /\ \/ pc[c] \in {"block", "txs"}
       \/ pc[c] = "committee" /\ stats[c].epoch_number \notin known
    /\ pc' = [pc EXCEPT ![c] = "idle"] /\ stats' = [stats EXCEPT ![c] = NoStats]
    /\ UNCHANGED <<node, cache>>

(* The entry is stamped with the time of the write, whatever it overwrites.    *)
WriteBack(c) ==
    /\ pc[c] = "write"
    /\ cache' = {[at |-> now, stats |-> stats[c]]}
    /\ pc' = [pc EXCEPT ![c] = "served"]
    /\ UNCHANGED <<node, stats>>

Respond(c) ==
    /\ pc[c] = "served"
    /\ pc' = [pc EXCEPT ![c] = "idle"] /\ stats' = [stats EXCEPT ![c] = NoStats]
    /\ UNCHANGED <<node, cache>>

Next ==
    \/ Commit \/ NextEpoch \/ Tick
    \/ \E c \in Clients :
         \/ CheckCache(c) \/ ReadBlock(c) \/ ReadTotal(c) \/ ReadEpoch(c) \/ ReadCommittee(c)
         \/ ReadFails(c) \/ WriteBack(c) \/ Respond(c)

Spec == Init /\ [][Next]_vars

-----------------------------------------------------------------------------
StatsType ==
    [taken : 0..MaxTime, latest_block : 0..MaxTip, total_txs : Nat, epoch_number : Nat,
     validator_count : Nat]

TypeOK ==
    /\ now \in 0..MaxTime /\ tip \in 0..MaxTip /\ epoch \in 0..EpochOfBlock[MaxTip]
    /\ known \subseteq 0..epoch
    /\ Cardinality(cache) <= 1
    /\ \A entry \in cache : entry.at \in 0..now /\ entry.stats \in StatsType
    /\ pc \in [Clients -> {"idle", "block", "txs", "epoch", "committee", "write", "served"}]
    /\ stats \in [Clients -> StatsType]

(* However the refreshes of several clients overlap and overwrite each other,  *)
(* no answer, cached or fresh, describes the node as it was TTL + MaxRefresh   *)
(* ago or earlier at the moment it is given (stats).                           *)
StalenessBound ==
    [][\A c \in Clients :
         pc[c] # "served" /\ pc'[c] = "served"
           => now - stats'[c].taken < STATS_TTL + MaxRefresh]_vars

(* What the numbers of one answer have to do with each other.                  *)
Coherent(s) ==
    /\ s.total_txs >= TxsUpTo[s.latest_block]
    /\ s.epoch_number >= EpochOfBlock[s.latest_block]
    /\ s.epoch_number > 0 => s.validator_count = CommitteeSize[s.epoch_number]

(* The numbers of one answer are read one after another, cached or not they    *)
(* fit together: the total counts every transaction up to the block shown, the *)
(* epoch is not behind that block, and the committee is that epoch's           *)
(* (stats_snapshot, stats).                                                    *)
StatsCoherent == \A c \in Clients : pc[c] = "served" => Coherent(stats[c])
=============================================================================
