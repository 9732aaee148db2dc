------------------------------ MODULE SampleChain -----------------------------
(* A concrete chain for the model-checking runs. Block 0 is genesis; blocks 1  *)
(* and 2 are the two batches of output D1; block 3 is the only batch of D2.    *)
(* Token T1 transfers in every block, so its metadata can fail, be retried and *)
(* become terminal; T2 first appears together with T1.                         *)
EXTENDS ChainRef

CONSTANTS A, B, T1, T2, D1, D2, ZeroRoot, OtherTopic

Transfer(token, from, to) ==
    [address |-> token, topics |-> <<TRANSFER_TOPIC, from, to>>, data_len |-> 32, value |-> 1]
Nft(token, from, to) ==
    [address |-> token, topics |-> <<TRANSFER_TOPIC, from, to, A>>, data_len |-> 0, value |-> 0]
Short(token, from, to) ==
    [address |-> token, topics |-> <<TRANSFER_TOPIC, from, to>>, data_len |-> 31, value |-> 0]
Approval(token, from, to) ==
    [address |-> token, topics |-> <<OtherTopic, from, to>>, data_len |-> 32, value |-> 1]

Header(n, root, epoch, round, batch_index, worker_id) ==
    [number |-> n, parent_beacon_block_root |-> root,
     nonce |-> epoch * ROUND_SPAN + round,
     difficulty |-> batch_index * WORKER_SPAN + worker_id, extra |-> NONE]

Sample ==
    [n \in Heights |->
       CASE n = 0 -> [header |-> Header(0, ZeroRoot, 0, 0, 0, 0), txs |-> <<>>, receipts |-> <<>>]
         [] n = 1 -> [header |-> Header(1, D1, 0, 1, 0, 0),
                      txs |-> <<[sender |-> A, to |-> A, nonce |-> 0, ty |-> 0],
                                [sender |-> A, to |-> T1, nonce |-> 1, ty |-> 2]>>,
                      receipts |-> <<<<>>, <<Nft(T2, A, B), Transfer(T1, A, B)>>>>]
         [] n = 2 -> [header |-> Header(2, D1, 0, 1, 1, 0),
                      txs |-> <<[sender |-> B, to |-> NONE, nonce |-> 0, ty |-> 2],
                                [sender |-> B, to |-> T1, nonce |-> 1, ty |-> 2]>>,
                      receipts |-> <<<<Transfer(T2, B, A), Short(T2, B, A)>>,
                                     <<Approval(T1, B, A), Transfer(T1, B, A),
                                       Transfer(T2, B, B)>>>>]
         [] OTHER -> [header |-> Header(n, D2, 0, 2, 0, 1),
                      txs |-> <<[sender |-> B, to |-> A, nonce |-> 2, ty |-> 0],
                                [sender |-> A, to |-> B, nonce |-> 2, ty |-> 0]>>,
                      receipts |-> <<<<Transfer(T1, B, A)>>, <<>>>>]]
=============================================================================
