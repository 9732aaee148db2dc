------------------------------ MODULE MCIndexer ------------------------------
(* Indexer on the sample chain.                                                *)
EXTENDS Indexer, SampleChain
=============================================================================
