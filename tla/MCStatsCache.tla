---------------------------- MODULE MCStatsCache ----------------------------
(* Three blocks after genesis in two epochs, with committees of other sizes.   *)
EXTENDS StatsCache, TLC

MCTxsUpTo == [n \in 0..3 |-> <<0, 2, 2, 5>>[n + 1]]
MCEpochOfBlock == [n \in 0..3 |-> <<0, 0, 0, 1>>[n + 1]]
MCCommitteeSize == [e \in 0..1 |-> 4 + e]
MCRegistrySize == [n \in 0..3 |-> <<4, 3, 5, 5>>[n + 1]]
Interchangeable == Permutations(Clients)
=============================================================================
