--------------------------- MODULE MCContractReads --------------------------
(* Contracts of the kinds that emit Transfer logs: an ERC-20, one with 32-byte *)
(* names, one whose every answer is the zero word but which halts on decimals, *)
(* one that is no token at all, and a proxy that halts until it is upgraded.   *)
EXTENDS ContractReads

Returns(len, string, word, integer) ==
    [outcome |-> "returns",
     bytes |-> {[len |-> len, string |-> string, word |-> word, integer |-> integer]}]
Nothing(outcome) == [outcome |-> outcome, bytes |-> {}]

Text(s) == Returns(96, {s}, {}, {})
Word32(s) == Returns(32, {}, {s}, {})
Integer(n) == Returns(32, {}, {}, {n})
ZeroWord == Returns(32, {""}, {""}, {0})

Three(name, symbol, decimals) == [name |-> name, symbol |-> symbol, decimals |-> decimals]

MCAnswer ==
    [erc20    |-> <<Three(Text("Token"), Text("TKN"), Integer(18)),
                    Three(Text("Token 2"), Nothing("revert"), Integer(300))>>,
     maker    |-> <<Three(Word32("Maker"), Word32("MKR"), Nothing("revert"))>>,
     zeros    |-> <<Three(ZeroWord, ZeroWord, Nothing("halt"))>>,
     nontoken |-> <<Three(Nothing("revert"), Nothing("halt"), Integer(300))>>,
     proxy    |-> <<Three(Nothing("halt"), Nothing("halt"), Nothing("halt")),
                    Three(Text("Proxy"), Text("PRX"), Integer(6))>>]

MCCandidates == << {"erc20", "nontoken"}, {"maker", "proxy"}, {"zeros", "nontoken", "proxy"} >>
=============================================================================
