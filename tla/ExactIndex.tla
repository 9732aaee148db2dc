----------------------------- MODULE ExactIndex -----------------------------
(* When a content of the SQLite file is right: each table compared with what   *)
(* the chain up to the file's own cursor says (ChainRef).                      *)
EXTENDS Storage, ChainRef

(* Every table holds exactly what blocks 0..cursor contribute: no hole, no     *)
(* half-indexed block, nothing twice, nothing from beyond the cursor, whatever *)
(* the replay/live overlap, lag, errors and crashes did (index_block,          *)
(* catch_up, index_chain).                                                     *)
PrefixExact(d) ==
    /\ d.address_txs = UNION {ChainAddressTxs(n) : n \in 0..d.last_indexed}
    /\ d.tx_types = UNION {ChainTxTypes(n) : n \in 0..d.last_indexed}
    /\ d.token_transfers = UNION {ChainTransfers(n) : n \in 0..d.last_indexed}

(* tx_type_counts equals COUNT of the type's rows without ever scanning them   *)
(* (apply_block's counter upsert, count_tx_type).                              *)
CountsExactIn(d) ==
    \A ty \in DOMAIN d.tx_type_counts \cup {r.tx_type : r \in d.tx_types} :
       count_tx_type(d, ty) = Cardinality({r \in d.tx_types : r.tx_type = ty})

(* The stored range of an output is exactly its indexed blocks: a partly       *)
(* indexed output lags at its end but never covers a block of another output   *)
(* (apply_block's consensus upsert).                                           *)
RangesExactIn(d) ==
    /\ \A n \in 0..d.last_indexed :
         LET g == Chain[n].header.parent_beacon_block_root IN
         NamesOutput(n, g) => g \in DOMAIN d.consensus_blocks
    /\ \A g \in DOMAIN d.consensus_blocks :
         /\ OutputBlocks(g, d.last_indexed) # {}
         /\ OutputBlocks(g, d.last_indexed)
              = d.consensus_blocks[g].first_block .. d.consensus_blocks[g].last_block

(* A token has a metadata row exactly when one of its transfers is indexed, so *)
(* a transfer page never joins to a missing token row (token_fetch_states,     *)
(* the fetch loop and the token upsert commit with the rows).                  *)
TokensExactIn(d) == DOMAIN d.tokens = {r.token : r \in d.token_transfers}

(* The bounds that make the above inductive: a cursor within the chain, ranges *)
(* of heights, finitely many pointers.                                         *)
WellFormed(d) ==
    /\ d.last_indexed \in Heights \cup {NoCursor}
    /\ IsFiniteSet(d.tx_types)
    /\ \A g \in DOMAIN d.consensus_blocks :
         /\ d.consensus_blocks[g].first_block \in Heights
         /\ d.consensus_blocks[g].last_block \in Heights

Exact(d) ==
    /\ WellFormed(d)
    /\ PrefixExact(d)
    /\ CountsExactIn(d)
    /\ RangesExactIn(d)
    /\ TokensExactIn(d)
=============================================================================
