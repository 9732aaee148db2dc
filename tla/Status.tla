------------------------------- MODULE Status -------------------------------
(* The shared health of src/status.rs: two monotonic maxima and a flag. The    *)
(* stored last_indexed_plus_one is last_indexed here, with -1 for "nothing     *)
(* indexed yet".                                                               *)
EXTENDS Integers

Larger(a, b) == IF a >= b THEN a ELSE b

set_last_indexed(s, block) == [s EXCEPT !.last_indexed = Larger(@, block)]
set_node_tip(s, block) == [s EXCEPT !.node_tip = Larger(@, block)]
set_live(s, live) == [s EXCEPT !.live = live]

InitialStatus == [last_indexed |-> -1, node_tip |-> 0, live |-> FALSE]

(* last_indexed().unwrap_or(0), as /health and /txs/{hash} read it.            *)
LastIndexedOr0(s) == Larger(s.last_indexed, 0)

(* Blocks between the observed tip and the cursor, saturating at 0.            *)
lag(s) == Larger(s.node_tip - LastIndexedOr0(s), 0)
=============================================================================
