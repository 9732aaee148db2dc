---------------------------- MODULE MCEpochReads ----------------------------
(* Three epochs of two outputs each, one output without blocks, and a burn in  *)
(* the middle of epoch 1. The observer starts at genesis or in epoch 1.        *)
EXTENDS EpochReads

MCEpochOf == <<0, 0, 1, 1, 2, 2>>
MCClosing == [e \in {0, 1} |-> 2 * e + 2]
MCLastBlock == [o \in 0..6 |-> <<0, 1, 3, 4, 5, 5, 6>>[o + 1]]
MCKeys == [e \in 0..3 |-> {<<"key", e>>}]
MCSeated == [e \in 0..2 |-> <<{1, 2}, {1, 2}, {2, 3}>>[e + 1]]
MCBurns == {[block |-> 4, validator |-> 1]}
MCPages == {0, 1}
MCPageSizes == {{2}}
=============================================================================
