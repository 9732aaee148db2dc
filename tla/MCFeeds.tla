------------------------------ MODULE MCFeeds ------------------------------
(* Four blocks with five transactions, two of them in a block that pages of    *)
(* two split; 64 bits stand for 6, so that a page number can overflow.         *)
EXTENDS Feeds

MCBodies ==
    [n \in 0..3 |->
       CASE n = 0 -> [beneficiary |-> 0, gas |-> <<>>, cumulative |-> <<>>]
         [] n = 1 -> [beneficiary |-> 2, gas |-> <<3, 5>>, cumulative |-> <<3, 8>>]
         [] n = 2 -> [beneficiary |-> 1, gas |-> <<4>>, cumulative |-> <<4>>]
         [] OTHER -> [beneficiary |-> 2, gas |-> <<7, 2>>, cumulative |-> <<7, 9>>]]

MCFirstTx == [n \in 0..4 |-> IF n < 2 THEN 0 ELSE n + (IF n = 4 THEN 1 ELSE 0)]

MCPages == {0, 1, 2, 16, 32, 63}
MCPageSizes == {{}, {0}, {2}, {63}}
MCWindows == {{}, {0}, {2}, {63}}
=============================================================================
