------------------------------ MODULE ChainRef ------------------------------
(* The chain the index is derived from, and what each of its blocks has to     *)
(* contribute: the reference the index is judged by, stated independently of   *)
(* how extraction and storage compute it.                                      *)
EXTENDS Extract, FiniteSets

CONSTANTS
    Chain,       \* height -> block: the one chain (no reorgs), as far as modelled
    MaxHeight    \* bound: the last height the node executes

ASSUME ChainAssumption ==
    /\ MaxHeight \in Nat
    /\ DOMAIN Chain = 0..MaxHeight
    /\ \A n \in 0..MaxHeight :
         /\ Chain[n].header.number = n
         /\ Chain[n].header.difficulty \in Nat
         /\ IsFiniteSet(DOMAIN Chain[n].txs)

Heights == 0..MaxHeight

-----------------------------------------------------------------------------
Participants(tx) ==
    {tx.sender} \cup (IF tx.to = NONE THEN {create(tx.sender, tx.nonce)} ELSE {tx.to})

IsTransfer(log) ==
    Len(log.topics) = 3 /\ log.topics[1] = TRANSFER_TOPIC /\ log.data_len = 32

(* The participation pointers of block n.                                      *)
ChainAddressTxs(n) ==
    UNION {{[address |-> a, block_number |-> n, tx_index |-> i - 1,
             tx_type |-> Chain[n].txs[i].ty] : a \in Participants(Chain[n].txs[i])}
           : i \in DOMAIN Chain[n].txs}

ChainTxTypes(n) ==
    {[tx_type |-> Chain[n].txs[i].ty, block_number |-> n, tx_index |-> i - 1]
     : i \in DOMAIN Chain[n].txs}

ChainTransfers(n) ==
    UNION {LET logs == Chain[n].receipts[i] IN
           {[block_number |-> n, tx_index |-> i - 1, log_index |-> j - 1,
             token |-> logs[j].address, from |-> logs[j].topics[2],
             to |-> logs[j].topics[3], value |-> logs[j].value]
            : j \in {k \in DOMAIN logs : IsTransfer(logs[k])}}
           : i \in DOMAIN Chain[n].txs \cap DOMAIN Chain[n].receipts}

(* Block n names an output: every block but genesis.                           *)
NamesOutput(n, digest) ==
    /\ n > 0
    /\ Chain[n].header.parent_beacon_block_root # NONE
    /\ Chain[n].header.difficulty <= U64_MAX
    /\ digest = Chain[n].header.parent_beacon_block_root

(* External (engine): the batches of one consensus output are executed as      *)
(* consecutive blocks, each naming the output's digest.                        *)
ASSUME ContiguousOutputs ==
    \A m, n, k \in Heights :
       LET digest == Chain[m].header.parent_beacon_block_root IN
       m < n /\ n < k /\ NamesOutput(m, digest) /\ NamesOutput(k, digest)
         => NamesOutput(n, digest)

OutputBlocks(digest, upTo) == {n \in 0..upTo : NamesOutput(n, digest)}
=============================================================================
