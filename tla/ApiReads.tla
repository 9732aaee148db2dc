------------------------------ MODULE ApiReads ------------------------------
(* The SQLite-backed API routes (src/api.rs over the read side of              *)
(* src/storage.rs and the hydration of src/node_reads.rs), running beside the  *)
(* writer. A handler is several reads: each SQL statement sees the content     *)
(* committed at its own moment (no read transaction spans them), the status    *)
(* and the node's database are read at yet other moments.                      *)
(*                                                                             *)
(* One client issues one request at a time; for a list it asks for page after  *)
(* page until an empty one, as a "load more" list does. The pages are the      *)
(* client's: its walk goes on over restarts of the process, even those in which*)
(* a power loss takes indexed blocks back.                                     *)
EXTENDS IndexWriter

CONSTANTS
    PerPage,       \* the page size asked for (after the clamp)
    MAX_PER_PAGE,  \* the clamp's upper end, and the size of the transfer page
                   \* embedded in /txs/{hash} (100 in the code)
    Selections,    \* the list requests the client may make
    MaxLost        \* bound: how often a walk sees a row taken back

VARIABLE req

-----------------------------------------------------------------------------
(* What a request selects.                                                     *)

TxTransfers(number, tx_index) ==
    [kind |-> "tx", block_number |-> number, tx_index |-> tx_index]
AddressTxs(address) == [kind |-> "address_txs", address |-> address]
AddressTxsByType(address, ty) ==
    [kind |-> "address_txs_by_type", address |-> address, tx_type |-> ty]
TxsByType(ty) == [kind |-> "tx_types", tx_type |-> ty]
TokenTransfers(token) == [kind |-> "token_transfers", token |-> token]
AddressTransfers(address) == [kind |-> "address_transfers", address |-> address]

TxTransferFeed(number, tx_index) ==
    [kind |-> "tx_transfers", block_number |-> number, tx_index |-> tx_index]
ConsensusOutput(digest) == [kind |-> "output", digest |-> digest]
ConsensusPage(digests) == [kind |-> "outputs", digests |-> digests]
TokenInfo(token) == [kind |-> "token", token |-> token]

PointerKinds == {"address_txs", "address_txs_by_type", "tx_types"}
TransferKinds == {"token_transfers", "address_transfers"}

(* The routes that answer one object, and those that answer a page.            *)
DetailKinds == {"tx", "output", "outputs", "token"}

ASSUME PageAssumption ==
    /\ MAX_PER_PAGE \in Nat \ {0}
    /\ PerPage \in 1..MAX_PER_PAGE
    /\ MaxLost \in Nat
    /\ \A sel \in Selections : sel.kind \in PointerKinds \cup TransferKinds

(* External (reth): transactions, receipts and logs are sequences, a stored    *)
(* block has one receipt per transaction, and genesis has no transaction.      *)
ASSUME NodeAssumption ==
    /\ Chain[0].txs = <<>>
    /\ \A n \in Heights :
         /\ Len(Chain[n].txs) \in Nat
         /\ DOMAIN Chain[n].txs = 1..Len(Chain[n].txs)
         /\ DOMAIN Chain[n].receipts = DOMAIN Chain[n].txs
         /\ \A i \in DOMAIN Chain[n].receipts :
              /\ Len(Chain[n].receipts[i]) \in Nat
              /\ DOMAIN Chain[n].receipts[i] = 1..Len(Chain[n].receipts[i])

(* External (engine): the batches of an output are executed in order, so a     *)
(* block's batch index is its distance from the output's first block.          *)
ASSUME BatchesInOrder ==
    \A m, n \in Heights :
       LET digest == Chain[m].header.parent_beacon_block_root IN
       m <= n /\ NamesOutput(m, digest) /\ NamesOutput(n, digest) /\ ~NamesOutput(m - 1, digest)
         => Chain[n].header.difficulty \div WORKER_SPAN = n - m

(* The WHERE clauses. The UNION of the two arms of an address's transfers      *)
(* counts a self-transfer once.                                                *)
Matching(d, sel) ==
    CASE sel.kind \in {"tx", "tx_transfers"} ->
           {r \in d.token_transfers : /\ r.block_number = sel.block_number
                                      /\ r.tx_index = sel.tx_index}
      [] sel.kind = "address_txs" -> {r \in d.address_txs : r.address = sel.address}
      [] sel.kind = "address_txs_by_type" ->
           {r \in d.address_txs : r.address = sel.address /\ r.tx_type = sel.tx_type}
      [] sel.kind = "tx_types" -> {r \in d.tx_types : r.tx_type = sel.tx_type}
      [] sel.kind = "token_transfers" -> {r \in d.token_transfers : r.token = sel.token}
      [] sel.kind = "address_transfers" ->
           {r \in d.token_transfers : r.from = sel.address}
             \cup {r \in d.token_transfers : r.to = sel.address}

(* The ORDER BY clauses: r comes before q. Feeds are newest first, the         *)
(* transfers of one transaction are in emission order.                         *)
PointerBefore(r, q) ==
    \/ r.block_number > q.block_number
    \/ r.block_number = q.block_number /\ r.tx_index > q.tx_index

TransferBefore(r, q) ==
    \/ PointerBefore(r, q)
    \/ /\ r.block_number = q.block_number /\ r.tx_index = q.tx_index
       /\ r.log_index > q.log_index

Before(sel, r, q) ==
    CASE sel.kind \in {"tx", "tx_transfers"} -> r.log_index < q.log_index
      [] sel.kind \in PointerKinds -> PointerBefore(r, q)
      [] OTHER -> TransferBefore(r, q)

(* LIMIT limit OFFSET offset over the ordered matches.                         *)
Window(rows, sel, limit, offset) ==
    {r \in rows : Cardinality({q \in rows : Before(sel, q, r)}) \in offset..(offset + limit - 1)}

(* Mutant of Offset: page sizes one larger than the pages served.              *)
OffsetTooFar(page) == page * (PerPage + 1)

(* page_params: the row offset of a page.                                      *)
Offset(page) == page * PerPage

PageRows(d, sel, page) ==
    IF sel.kind = "tx" THEN Window(Matching(d, sel), sel, MAX_PER_PAGE, 0)
    ELSE Window(Matching(d, sel), sel, PerPage, Offset(page))

(* The `total` of a page: the counter for a whole type, COUNT elsewhere.       *)
Total(d, sel) ==
    IF sel.kind = "tx_types" THEN count_tx_type(d, sel.tx_type)
    ELSE Cardinality(Matching(d, sel))

(* replay_block_as_chain finds the block, and it has the transaction and its   *)
(* receipt.                                                                    *)
Hydrates(r) ==
    /\ r.block_number <= tip
    /\ r.tx_index + 1 \in DOMAIN Chain[r.block_number].txs
    /\ r.tx_index + 1 \in DOMAIN Chain[r.block_number].receipts

(* External (consensus store): how many batches an output has. The engine      *)
(* executes each as one block, in order.                                       *)
batch_count(digest) == Cardinality(OutputBlocks(digest, MaxHeight))

(* consensus_range_by_digest: the stored range, if there is a row.             *)
consensus_range_by_digest(d, digest) ==
    {d.consensus_blocks[g] : g \in DOMAIN d.consensus_blocks \cap {digest}}

(* Mutant of exec_block_number: the end of the indexed range is not checked.   *)
UnboundedBlockNumber(range, index) == {r.first_block + index : r \in range}

(* The block a batch became: by position from the start of the range, as far   *)
(* as the range is indexed.                                                    *)
exec_block_number(range, index) ==
    {n \in {r.first_block + index : r \in range} : \A r \in range : n <= r.last_block}

(* External (consensus store): outputs are numbered in the order they execute. *)
Outputs == {Chain[n].header.parent_beacon_block_root :
              n \in {k \in Heights : NamesOutput(k, Chain[k].header.parent_beacon_block_root)}}
NewerOutput(g, h) == \A n \in OutputBlocks(g, MaxHeight) : \A k \in OutputBlocks(h, MaxHeight) : n > k

(* Mutant of NextLookup: the oldest output of the page first.                  *)
OldestLookup(todo) == {g \in todo : \A h \in todo \ {g} : NewerOutput(h, g)}

(* consensus_ranges_by_digests walks the page as it is listed: newest first.   *)
NextLookup(todo) == {g \in todo : \A h \in todo \ {g} : NewerOutput(g, h)}

(* token_row: the cached metadata row, whatever its status, if there is one.   *)
token_row(d, token) == {d.tokens[t] : t \in DOMAIN d.tokens \cap {token}}

-----------------------------------------------------------------------------
NoSelection == [kind |-> "none"]

Idle == [pc |-> "idle", sel |-> NoSelection, page |-> 0, rows |-> {}, total |-> 0,
         tokens |-> {}, indexed |-> FALSE, owed |-> {}, seen |-> {}, numbers |-> <<>>,
         ranges |-> EmptyTable, claimed |-> NoCursor, fetched |-> FALSE, lost |-> 0]

ApiInit == Init /\ req = Idle

(* GET /txs/{hash}: the node's database knows the transaction.                 *)
TxByHash ==
    /\ up /\ req.pc = "idle"
    /\ \E n \in 0..tip : \E i \in DOMAIN Chain[n].txs :
         req' = [Idle EXCEPT !.pc = "check", !.sel = TxTransfers(n, i - 1)]
    /\ UNCHANGED writerVars

(* Mutant of CheckIndexed: the check is made against the node's tip.           *)
CheckExecuted ==
    /\ req.pc = "check"
    /\ req' = IF req.sel.block_number <= tip
              THEN [req EXCEPT !.pc = "rows", !.indexed = TRUE]
              ELSE [req EXCEPT !.pc = "done"]
    /\ UNCHANGED writerVars

(* data.block_number <= status.last_indexed().unwrap_or(0): else the transfer  *)
(* fields stay absent.                                                         *)
CheckIndexed ==
    /\ req.pc = "check"
    /\ req' = IF req.sel.block_number <= Larger(published, 0)
              THEN [req EXCEPT !.pc = "rows", !.indexed = TRUE]
              ELSE [req EXCEPT !.pc = "done"]
    /\ UNCHANGED writerVars

(* A list route: page 0. owed is what matches when the client starts, claimed  *)
(* the height /health reports when a page is asked for.                        *)
List ==
    /\ up /\ req.pc = "idle"
    /\ \E sel \in Selections :
         req' = [Idle EXCEPT !.pc = "rows", !.sel = sel, !.owed = Matching(db, sel),
                             !.claimed = published]
    /\ UNCHANGED writerVars

(* GET /txs/{hash}/transfers: any transaction of the node, indexed or not.     *)
TxTransferList ==
    /\ up /\ req.pc = "idle"
    /\ \E n \in 0..tip : \E i \in DOMAIN Chain[n].txs :
         LET sel == TxTransferFeed(n, i - 1) IN
         req' = [Idle EXCEPT !.pc = "rows", !.sel = sel, !.owed = Matching(db, sel),
                             !.claimed = published]
    /\ UNCHANGED writerVars

(* GET /address/{addr}: the account from the node, the number of its pointers  *)
(* from SQLite.                                                                *)
AddressSummary ==
    /\ up /\ req.pc = "idle"
    /\ \E sel \in Selections :
         /\ sel.kind = "address_txs"
         /\ req' = [Idle EXCEPT !.pc = "summary", !.sel = sel, !.claimed = published]
    /\ UNCHANGED writerVars

CountAddressTxs ==
    /\ req.pc = "summary"
    /\ req' = [req EXCEPT !.pc = "done", !.total = Total(db, req.sel)]
    /\ UNCHANGED writerVars

ReadRows ==
    /\ req.pc = "rows"
    /\ req' = [req EXCEPT !.pc = "count", !.rows = PageRows(db, req.sel, req.page)]
    /\ UNCHANGED writerVars

ReadCount ==
    /\ req.pc = "count"
    /\ req' = [req EXCEPT !.total = Total(db, req.sel),
                          !.pc = IF req.sel.kind \in PointerKinds THEN "hydrate" ELSE "tokens"]
    /\ UNCHANGED writerVars

(* page_tokens: the cached metadata row of every token in the page. One lookup *)
(* per token, taken as one: no lookup can un-find a row another commit adds.   *)
ReadTokens ==
    /\ req.pc = "tokens"
    /\ req' = [req EXCEPT !.tokens = {r.token : r \in req.rows} \cap DOMAIN db.tokens,
                          !.pc = IF req.sel.kind \in {"tx", "tx_transfers"} THEN "done"
                                 ELSE "hydrate"]
    /\ UNCHANGED writerVars

(* hydrate_pointers: a pointer the node cannot follow is a 500.                *)
Hydrate ==
    /\ req.pc = "hydrate"
    /\ req' = [req EXCEPT !.pc = IF \A r \in req.rows : Hydrates(r) THEN "done" ELSE "error"]
    /\ UNCHANGED writerVars

(* The client asks for the page after the one it was answered.                 *)
NextPage ==
    /\ up /\ req.pc = "done"
    /\ req.sel.kind \notin DetailKinds /\ req.rows # {}
    /\ req' = [req EXCEPT !.pc = "rows", !.page = @ + 1, !.seen = @ \cup req.rows,
                          !.rows = {}, !.total = 0, !.tokens = {}, !.claimed = published]
    /\ UNCHANGED writerVars

Finish ==
    /\ req.pc \in {"done", "error", "failed"}
    /\ req.sel.kind \in DetailKinds \/ req.rows = {} \/ req.pc = "error"
    /\ req' = Idle
    /\ UNCHANGED writerVars

(* GET /consensus/blocks/{number} and its batches: the consensus store knows   *)
(* an output before, while and after its blocks are executed and indexed.      *)
ConsensusBlock ==
    /\ up /\ req.pc = "idle"
    /\ \E n \in Heights :
         LET digest == Chain[n].header.parent_beacon_block_root IN
         /\ NamesOutput(n, digest)
         /\ req' = [Idle EXCEPT !.pc = "range", !.sel = ConsensusOutput(digest)]
    /\ UNCHANGED writerVars

(* consensus_exec_range, then build_consensus_batches numbers every batch.     *)
ReadRange ==
    /\ req.pc = "range"
    /\ LET range == consensus_range_by_digest(db, req.sel.digest) IN
       req' = [req EXCEPT !.pc = "done",
                          !.numbers = [i \in 1..batch_count(req.sel.digest) |->
                                         exec_block_number(range, i - 1)]]
    /\ UNCHANGED writerVars

(* GET /consensus/blocks: a page of headers, those this node lacks left out.   *)
ConsensusBlocks ==
    /\ up /\ req.pc = "idle"
    /\ \E page \in SUBSET Outputs :
         /\ page # {}
         /\ req' = [Idle EXCEPT !.pc = "ranges", !.sel = ConsensusPage(page)]
    /\ UNCHANGED writerVars

(* One lookup of consensus_ranges_by_digests.                                  *)
LookupRange ==
    /\ req.pc = "ranges"
    /\ \E g \in NextLookup(req.sel.digests \ DOMAIN req.ranges) :
         req' = [req EXCEPT !.ranges = [h \in DOMAIN @ \cup {g} |->
                                         IF h = g THEN consensus_range_by_digest(db, g) ELSE @[h]]]
    /\ UNCHANGED writerVars

RangesDone ==
    /\ req.pc = "ranges" /\ DOMAIN req.ranges = req.sel.digests
    /\ req' = [req EXCEPT !.pc = "done"]
    /\ UNCHANGED writerVars

(* GET /tokens/{addr}. owed: the token's transfers indexed when it is asked.   *)
AskToken ==
    /\ up /\ req.pc = "idle"
    /\ \E sel \in Selections :
         /\ sel.kind = "token_transfers"
         /\ req' = [Idle EXCEPT !.pc = "token", !.sel = TokenInfo(sel.token),
                                !.owed = Matching(db, sel)]
    /\ UNCHANGED writerVars

ReadTokenRow ==
    /\ req.pc = "token"
    /\ req' = [req EXCEPT !.pc = "supply", !.tokens = token_row(db, req.sel.token)]
    /\ UNCHANGED writerVars

(* A cached row is served with the live supply; a miss fetches the metadata    *)
(* live as well and writes nothing back. The node read may fail.               *)
ReadSupply ==
    /\ req.pc = "supply"
    /\ \/ /\ req.tokens # {}
          /\ req' = [req EXCEPT !.pc = "done"]
       \/ /\ req.tokens = {}
          /\ \E status \in {TokenOk, TokenRetryPending} :
               req' = [req EXCEPT !.pc = "done", !.tokens = {status}, !.fetched = TRUE]
       \/ req' = [req EXCEPT !.pc = "failed"]
    /\ UNCHANGED writerVars

(* The connection broke before the answer: the client asks for the same page   *)
(* again, once the process serves.                                             *)
Retry ==
    /\ up /\ req.pc = "retry"
    /\ req' = [req EXCEPT !.pc = "rows", !.claimed = published]
    /\ UNCHANGED writerVars

(* A list the client is in the middle of: not yet answered with an empty page. *)
Walking ==
    /\ req.sel.kind \notin DetailKinds \cup {"none"} /\ req.pc \notin {"summary", "error"}
    /\ req.pc = "done" => req.rows # {}

(* The rows of the list that are gone: a power loss takes back the newest.     *)
TakenBack == Matching(db, req.sel) \ Matching(db', req.sel)

(* What the client has left of a request when the process goes away: of a walk *)
(* the pages it was answered, of any other request nothing.                    *)
Interrupted ==
    IF ~Walking THEN Idle
    ELSE LET left == IF req.pc = "done" THEN req
                     ELSE [req EXCEPT !.pc = "retry", !.rows = {}, !.total = 0, !.tokens = {}]
         IN  [left EXCEPT !.lost = @ + Cardinality(TakenBack)]

(* The writer moves underneath, and the process may go away; only then can rows*)
(* be taken back (Restart).                                                    *)
Underneath ==
    /\ Next
    /\ req' = IF up' THEN req ELSE Interrupted
    /\ req'.lost <= MaxLost

ApiNext ==
    \/ TxByHash \/ CheckIndexed \/ List
    \/ ReadRows \/ ReadCount \/ ReadTokens \/ Hydrate
    \/ NextPage \/ Retry \/ Finish
    \/ TxTransferList \/ AddressSummary \/ CountAddressTxs
    \/ ConsensusBlock \/ ReadRange
    \/ ConsensusBlocks \/ LookupRange \/ RangesDone
    \/ AskToken \/ ReadTokenRow \/ ReadSupply
    \/ Underneath

ApiSpec == ApiInit /\ [][ApiNext]_<<writerVars, req>>

-----------------------------------------------------------------------------
Answered == req.pc = "done" /\ req.sel.kind \notin DetailKinds

(* /txs/{hash}: when the transfer fields are present they are the whole truth, *)
(* never a page read before the block's rows were committed. Status is         *)
(* published after the commit and read before the rows (tx_by_hash).           *)
TxDetailExact ==
    req.pc = "done" /\ req.sel.kind = "tx" /\ req.indexed =>
      LET truth == {r \in ChainTransfers(req.sel.block_number) :
                      r.tx_index = req.sel.tx_index}
      IN  /\ req.total = Cardinality(truth)
          /\ req.rows = Window(truth, req.sel, MAX_PER_PAGE, 0)

(* A total covers what it stands beside, though rows, count and /health are    *)
(* read under different commits: the rows of the page lie within it (the page  *)
(* is read first and the index only grows), and so does every matching row of  *)
(* the blocks up to the last_indexed the client had read before it asked,      *)
(* whichever statement counts them (Total, IndexerStatus::last_indexed).       *)
TotalCoversAnswer ==
    Answered =>
      LET blocks == 0..req.claimed
          truth  == [address_txs     |-> UNION {ChainAddressTxs(n) : n \in blocks},
                     tx_types        |-> UNION {ChainTxTypes(n) : n \in blocks},
                     token_transfers |-> UNION {ChainTransfers(n) : n \in blocks}]
      IN  /\ req.rows # {} => Offset(req.page) + Cardinality(req.rows) <= req.total
          /\ Cardinality(Matching(truth, req.sel)) <= req.total

(* Where a transfer is shown its token is known: every transfer on a page is   *)
(* joined to a metadata row, though the metadata is read after the page        *)
(* (page_tokens), and /tokens/{addr} does not fetch live, with a status of its *)
(* own, a token that had an indexed transfer when it was asked for             *)
(* (token_info). Transfers and token rows commit together.                     *)
TokensFromCache ==
    /\ req.pc \in {"hydrate", "done"} /\ req.sel.kind \notin PointerKinds \cup {"token"}
         => req.tokens = {r.token : r \in req.rows}
    /\ req.pc = "done" /\ req.sel.kind = "token" /\ req.fetched => req.owed = {}

(* R11: an index pointer the node cannot follow never reaches hydration.       *)
NoDanglingPointer == req.pc # "error"

(* A client that reads newest-first OFFSET pages to the empty one, while blocks *)
(* are indexed and the process restarts between them, has missed at most as    *)
(* many of the rows it was owed as power losses took back from the list since  *)
(* it began: without a loss it has seen them all (page_params, ORDER BY).      *)
WalkMissesAtMostLost ==
    Answered /\ req.rows = {} => Cardinality(req.owed \ req.seen) <= req.lost

(* A batch is numbered with a committed block of the same output whose own     *)
(* header says it executed that very batch, though the stored range may stop   *)
(* in the middle of the output (build_consensus_batches).                      *)
BatchNumbering ==
    req.pc = "done" /\ req.sel.kind = "output" =>
      \A i \in DOMAIN req.numbers : \A n \in req.numbers[i] :
         /\ n <= db.last_indexed
         /\ \E f \in decode_consensus_fields(Chain[n].header) :
              f.digest = req.sel.digest /\ f.batch_index = i - 1

(* The ranges of one page are looked up one by one while blocks are indexed,   *)
(* and still show no hole: when an output has a range, every older output of   *)
(* the page has its whole range (consensus_ranges_by_digests, newest first).   *)
NoHoleInPage ==
    req.pc = "done" /\ req.sel.kind = "outputs" =>
      \A g, h \in req.sel.digests :
        NewerOutput(g, h) /\ req.ranges[g] # {} =>
          \E r \in req.ranges[h] : r.first_block..r.last_block = OutputBlocks(h, MaxHeight)
=============================================================================
