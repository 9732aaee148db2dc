------------------------------- MODULE Extract -------------------------------
(* Per-block extraction (src/extract.rs): what one executed block and its      *)
(* receipts contribute to the derived index. Pure operators, no state.         *)
(*                                                                             *)
(* A block is a record                                                         *)
(*   header   : [number, parent_beacon_block_root, nonce, difficulty, extra]   *)
(*   txs      : sequence of [sender, to, nonce, ty]; to = NONE is a creation   *)
(*   receipts : sequence of sequences of logs [address, topics, data_len,      *)
(*              value]; it may be shorter than txs                             *)
(* Addresses, digests and amounts are opaque values. The vectors of the code   *)
(* are sets of rows here: each row carries its own position, and everything    *)
(* downstream inserts them keyed by that position.                             *)
EXTENDS Integers, Sequences

CONSTANTS
    NONE,            \* the absent value (Option::None)
    TRANSFER_TOPIC,  \* keccak256("Transfer(address,address,uint256)")
    U64_MAX,         \* largest difficulty that converts to u64
    ROUND_SPAN,      \* 2^32 in the code: rounds occupy the low half of a nonce
    WORKER_SPAN      \* 2^16 in the code: worker ids are the low difficulty bits

ASSUME WidthAssumption ==
    /\ U64_MAX \in Nat
    /\ ROUND_SPAN \in Nat \ {0}
    /\ WORKER_SPAN \in Nat \ {0}

(* External (alloy): the address a creation deploys to, `sender.create(nonce)`.*)
(* Injective, and different from every account address.                        *)
create(sender, nonce) == <<sender, nonce>>

-----------------------------------------------------------------------------
(* Header provenance. Genesis is told apart by its number only, since its      *)
(* parent_beacon_block_root is present (zero).                                 *)
decode_consensus_fields(header) ==
    IF \/ header.number = 0
       \/ header.parent_beacon_block_root = NONE
       \/ header.difficulty > U64_MAX
    THEN {}
    ELSE {[digest       |-> header.parent_beacon_block_root,
           epoch        |-> header.nonce \div ROUND_SPAN,
           round        |-> header.nonce % ROUND_SPAN,
           batch_index  |-> header.difficulty \div WORKER_SPAN,
           worker_id    |-> header.difficulty % WORKER_SPAN,
           closes_epoch |-> header.extra # NONE]}

(* The strict ERC-20 rule: exactly three topics, the Transfer topic first, and *)
(* 32 bytes of data. The result is the empty set or one row.                   *)
decode_transfer_log(log, number, tx_index, log_index) ==
    IF \/ Len(log.topics) # 3
       \/ log.topics[1] # TRANSFER_TOPIC
       \/ log.data_len # 32
    THEN {}
    ELSE {[block_number |-> number,
           tx_index     |-> tx_index,
           log_index    |-> log_index,
           token        |-> log.address,
           from         |-> log.topics[2],
           to           |-> log.topics[3],
           value        |-> log.value]}

-----------------------------------------------------------------------------
AddressRow(address, number, tx_index, tx_type) ==
    [address |-> address, block_number |-> number,
     tx_index |-> tx_index, tx_type |-> tx_type]

TxTypeRow(tx_type, number, tx_index) ==
    [tx_type |-> tx_type, block_number |-> number, tx_index |-> tx_index]

(* Mutant of AddressRows: a creation has no second participant.                *)
AddressRowsWithoutCreated(block) ==
    UNION {LET tx == block.txs[i] IN
           {AddressRow(a, block.header.number, i - 1, tx.ty) : a \in {tx.sender, tx.to} \ {NONE}}
           : i \in DOMAIN block.txs}

(* Sender row, then the row of `to` or of the created contract. A self-send    *)
(* yields one row: the two equal pushes collapse onto one primary key.         *)
AddressRows(block) ==
    UNION {LET tx == block.txs[i] IN
           {AddressRow(tx.sender, block.header.number, i - 1, tx.ty),
            AddressRow(IF tx.to # NONE THEN tx.to
                                       ELSE create(tx.sender, tx.nonce),
                       block.header.number, i - 1, tx.ty)}
           : i \in DOMAIN block.txs}

(* Mutant of TxTypeRows: positions counted from one.                           *)
TxTypeRowsFromOne(block) ==
    {TxTypeRow(block.txs[i].ty, block.header.number, i) : i \in DOMAIN block.txs}

TxTypeRows(block) ==
    {TxTypeRow(block.txs[i].ty, block.header.number, i - 1) : i \in DOMAIN block.txs}

(* Only transactions that have a receipt contribute (`receipts.get(i)`).       *)
TransferRows(block) ==
    UNION {UNION {decode_transfer_log(block.receipts[i][j],
                                      block.header.number, i - 1, j - 1)
                  : j \in DOMAIN block.receipts[i]}
           : i \in DOMAIN block.txs \cap DOMAIN block.receipts}

ConsensusRows(block) ==
    {[digest |-> f.digest, epoch |-> f.epoch, round |-> f.round,
      block_number |-> block.header.number]
     : f \in decode_consensus_fields(block.header)}

(* Everything persisted for one block. `consensus` has at most one element.    *)
extract_block(block) ==
    LET transfers == TransferRows(block) IN
    [number           |-> block.header.number,
     address_rows     |-> AddressRows(block),
     tx_types         |-> TxTypeRows(block),
     transfers        |-> transfers,
     token_candidates |-> {row.token : row \in transfers},
     consensus        |-> ConsensusRows(block)]
=============================================================================
