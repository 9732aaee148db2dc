---------------------------- MODULE DerivedIndex ----------------------------
(* What the indexer promises its readers: at every moment the pointer and      *)
(* transfer tables are exactly the rows of blocks 0..last_indexed of the node's*)
(* own chain. The index grows by one whole block, in order; a restart may lose *)
(* its newest blocks, whole. It never runs ahead of the chain.                 *)
EXTENDS ChainRef

VARIABLES
    tip,   \* highest height of the node's chain
    view   \* last_indexed and the tables the API reads

ViewOf(cursor) ==
    [last_indexed    |-> cursor,
     address_txs     |-> UNION {ChainAddressTxs(n) : n \in 0..cursor},
     tx_types        |-> UNION {ChainTxTypes(n) : n \in 0..cursor},
     token_transfers |-> UNION {ChainTransfers(n) : n \in 0..cursor}]

Init ==
    /\ tip = 0
    /\ view = ViewOf(-1)

Grow ==
    /\ tip < MaxHeight
    /\ tip' = tip + 1
    /\ UNCHANGED view

Index ==
    /\ view.last_indexed < tip
    /\ view' = ViewOf(view.last_indexed + 1)
    /\ UNCHANGED tip

Lose ==
    /\ \E cursor \in -1..view.last_indexed : view' = ViewOf(cursor)
    /\ UNCHANGED tip

Next == Grow \/ Index \/ Lose

Spec == Init /\ [][Next]_<<tip, view>>
=============================================================================
