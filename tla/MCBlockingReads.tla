-------------------------- MODULE MCBlockingReads --------------------------
(* Instances of BlockingReads. Connections, closures and browsers are          *)
(* interchangeable: the safety run takes one of each permuted class.           *)
EXTENDS BlockingReads, TLC

Interchangeable == Permutations(Conns) \cup Permutations(Jobs) \cup Permutations(Browsers)
=============================================================================
