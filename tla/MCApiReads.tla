----------------------------- MODULE MCApiReads -----------------------------
(* ApiReads on the sample chain, with one list request of every kind.          *)
EXTENDS ApiReads, SampleChain

MCSelections ==
    {AddressTxs(A), AddressTxsByType(B, 2), TxsByType(2),
     TokenTransfers(T2), AddressTransfers(B)}
=============================================================================
