-------------------------------- MODULE Feeds --------------------------------
(* The paged feeds and the leader board: /blocks, /txs and /validators/leaders *)
(* read straight from the node's database (src/node_reads.rs), and /txs?type=  *)
(* from the SQLite pointers, hydrated. The node commits blocks, and the index  *)
(* follows, between any two reads a request makes, and between two pages of a  *)
(* client that walks a feed.                                                   *)
EXTENDS Paging, FiniteSets

CONSTANTS
    Bodies,             \* height -> [beneficiary, gas and cumulative gas per transaction]
    FirstTx,            \* height -> the number of its first transaction
    MaxTip,             \* bound: the last height the node commits
    Windows,            \* the ?window= values (Options)
    DEFAULT_LEADER_WINDOW, MAX_LEADER_WINDOW

ASSUME FeedAssumption ==
    /\ MaxTip \in Nat /\ MaxTip < MAX_U64
    /\ Windows \subseteq SUBSET Nat
    /\ DEFAULT_LEADER_WINDOW \in Nat /\ MAX_LEADER_WINDOW \in Nat \ {0}

(* External (reth): transactions are numbered through the chain, in 64 bits,   *)
(* and a receipt's cumulative gas adds its own to that of the one before it.   *)
ASSUME TablesInOrder ==
    /\ FirstTx \in [0..(MaxTip + 1) -> 0..MAX_U64] /\ FirstTx[0] = 0
    /\ \A m, n \in 0..(MaxTip + 1) : m <= n => FirstTx[m] <= FirstTx[n]
    /\ \A n \in 0..MaxTip :
         /\ DOMAIN Bodies[n].gas = 1..(FirstTx[n + 1] - FirstTx[n])
         /\ DOMAIN Bodies[n].cumulative = DOMAIN Bodies[n].gas
         /\ \A i \in DOMAIN Bodies[n].gas :
              /\ Bodies[n].gas[i] \in Nat /\ Bodies[n].cumulative[i] \in Nat
              /\ Bodies[n].cumulative[i]
                   = Bodies[n].gas[i] + (IF i > 1 THEN Bodies[n].cumulative[i - 1] ELSE 0)

VARIABLES
    tip,       \* the node's last committed block
    indexed,   \* the SQLite cursor
    fetch      \* the client's request

feedVars == <<tip, indexed, fetch>>

-----------------------------------------------------------------------------
(* The node's tables (external), which only grow.                              *)

TxCount(upTo) == FirstTx[upTo + 1]

(* Transaction number t: where it is.                                          *)
TxAt(t) ==
    LET n == CHOOSE b \in 0..MaxTip : FirstTx[b] <= t /\ t < FirstTx[b + 1]
    IN  [block_number |-> n, tx_index |-> t - FirstTx[n]]

TxTable(upTo) == [i \in 1..TxCount(upTo) |-> TxAt(i - 1)]

receipts_by_block(n) ==
    [i \in DOMAIN Bodies[n].cumulative |-> [cumulative_gas_used |-> Bodies[n].cumulative[i]]]

-----------------------------------------------------------------------------
(* LIMIT limit OFFSET offset over total rows.                                  *)
limit_offset(rows, total, limit, offset) ==
    [i \in 1..clamp(total - offset, 0, limit) |-> rows[offset + i]]

(* The rows of one type, ORDER BY block_number DESC, tx_index DESC.            *)
TypedRows(upTo) == [i \in 1..TxCount(upTo) |-> TxAt(TxCount(upTo) - i)]

(* A receipt's own gas: the difference to the receipt before it.               *)
own_gas_used(receipts, index) ==
    LET gas(i) == IF i + 1 \in DOMAIN receipts THEN receipts[i + 1].cumulative_gas_used ELSE 0
    IN  IF index > 0 THEN saturating_sub(gas(index), gas(index - 1)) ELSE gas(index)

TxData(pointer, receipts) ==
    [block_number |-> pointer.block_number, tx_index |-> pointer.tx_index,
     gas_used |-> own_gas_used(receipts, pointer.tx_index)]

(* The blocks a page of pointers needs: they fill a map, so a set of them.     *)
distinct_blocks(pointers) == {pointers[i].block_number : i \in DOMAIN pointers}

(* One replay per distinct block, then one row per pointer, in pointer order.  *)
HydrateAll(pointers) ==
    LET blocks == [n \in distinct_blocks(pointers) |-> receipts_by_block(n)]
    IN  [i \in DOMAIN pointers |-> TxData(pointers[i], blocks[pointers[i].block_number])]

(* *counts.entry(who).or_default() += 1                                        *)
AddOne(counts, who) ==
    [a \in DOMAIN counts \cup {who} |->
       (IF a \in DOMAIN counts THEN counts[a] ELSE 0) + (IF a = who THEN 1 ELSE 0)]

(* counts.sort_by: by blocks descending, then by address.                      *)
RanksBefore(x, y) ==
    \/ x.blocks > y.blocks
    \/ x.blocks = y.blocks /\ x.address < y.address

SortedEntries(counts) ==
    LET entries == {[address |-> a, blocks |-> counts[a]] : a \in DOMAIN counts}
        size == Cardinality(DOMAIN counts)
    IN  {s \in [1..size -> entries] :
           /\ {s[i] : i \in 1..size} = entries
           /\ \A i, j \in 1..size : i < j => RanksBefore(s[i], s[j])}

(* Mutant of WindowStart: the window reaches one block too far.                *)
WindowStartEarly(to, window) == saturating_sub(to, window)

WindowStart(to, window) == saturating_sub(to, saturating_sub(window, 1))

-----------------------------------------------------------------------------
NoFetch == [pc |-> "idle", feed |-> "none", page |-> 0, per_page |-> 1, total |-> 0,
            pointers |-> <<>>, items |-> <<>>, owed |-> {}, seen |-> {},
            window |-> 0, to |-> 0, at |-> 0, counts |-> <<>>]

FeedInit == tip = 0 /\ indexed = 0 /\ fetch = NoFetch

Commit == tip < MaxTip /\ tip' = tip + 1 /\ UNCHANGED <<indexed, fetch>>
Index == indexed < tip /\ indexed' = indexed + 1 /\ UNCHANGED <<tip, fetch>>

(* What a feed holds now, oldest first, identified as its rows are.            *)
Size(feed) ==
    CASE feed = "blocks" -> tip + 1
      [] feed = "txs" -> TxCount(tip)
      [] feed = "typed" -> TxCount(indexed)

Item(feed, k) == IF feed = "blocks" THEN k ELSE TxAt(k)

Contents(feed) == {Item(feed, k) : k \in 0..(Size(feed) - 1)}

Key(feed, item) ==
    IF feed = "blocks" THEN item
    ELSE [block_number |-> item.block_number, tx_index |-> item.tx_index]

(* A list request. owed is what a client that starts at page 0 will be shown   *)
(* if it walks on to the empty page.                                           *)
List(feed) ==
    /\ fetch.pc = "idle"
    /\ \E page \in Pages, requested \in PageSizes :
         fetch' = [NoFetch EXCEPT !.pc = IF feed = "typed" THEN "page" ELSE "total", !.feed = feed,
                                  !.page = page, !.per_page = clamp_per_page(requested),
                                  !.owed = IF page = 0 THEN Contents(feed) ELSE {}]
    /\ UNCHANGED <<tip, indexed>>

(* blocks_page, latest_txs_page: the total first.                              *)
ReadTotal ==
    /\ fetch.pc = "total"
    /\ fetch' = [fetch EXCEPT !.pc = "items", !.total = Size(fetch.feed)]
    /\ UNCHANGED <<tip, indexed>>

(* Then the items of the page, which the arithmetic names. A height that is    *)
(* not there is an error.                                                      *)
ReadBlocks ==
    /\ fetch.pc = "items" /\ fetch.feed = "blocks"
    /\ LET numbers == desc_page_items(fetch.total, fetch.page, fetch.per_page) IN
       fetch' = IF \E i \in DOMAIN numbers : numbers[i] > tip
                THEN [fetch EXCEPT !.pc = "error"]
                ELSE [fetch EXCEPT !.pc = "done", !.items = numbers]
    /\ UNCHANGED <<tip, indexed>>

(* Receipts, or a replay, of a block the node does not have: an error.         *)
Hydrate(pointers) ==
    fetch' = IF \E n \in distinct_blocks(pointers) : n > tip
             THEN [fetch EXCEPT !.pc = "error"]
             ELSE [fetch EXCEPT !.pc = "done", !.items = HydrateAll(pointers)]

(* The range low..=high of the transaction table, newest first.                *)
ReadTxs ==
    /\ fetch.pc = "items" /\ fetch.feed = "txs"
    /\ LET numbers == desc_page_items(fetch.total, fetch.page, fetch.per_page)
       IN  Hydrate([i \in DOMAIN numbers |-> TxTable(tip)[numbers[i] + 1]])
    /\ UNCHANGED <<tip, indexed>>

(* tx_type_page: LIMIT per_page OFFSET offset. The offset has to be bound.     *)
ReadTypedPage ==
    /\ fetch.pc = "page"
    /\ LET offset == page_offset(fetch.page, fetch.per_page) IN
       fetch' = IF Bindable(offset)
                THEN [fetch EXCEPT !.pc = "count",
                                   !.pointers = limit_offset(TypedRows(indexed), TxCount(indexed),
                                                             fetch.per_page, offset)]
                ELSE [fetch EXCEPT !.pc = "error"]
    /\ UNCHANGED <<tip, indexed>>

ReadTypedCount ==
    /\ fetch.pc = "count"
    /\ fetch' = [fetch EXCEPT !.pc = "hydrate", !.total = TxCount(indexed)]
    /\ UNCHANGED <<tip, indexed>>

HydratePage ==
    /\ fetch.pc = "hydrate"
    /\ Hydrate(fetch.pointers)
    /\ UNCHANGED <<tip, indexed>>

(* The window of the leader board.                                             *)
Leaders ==
    /\ fetch.pc = "idle"
    /\ \E requested \in Windows :
         fetch' = [NoFetch EXCEPT !.pc = "tip", !.feed = "leaders",
                                  !.window = clamp(unwrap_or(requested, DEFAULT_LEADER_WINDOW),
                                                   1, MAX_LEADER_WINDOW)]
    /\ UNCHANGED <<tip, indexed>>

(* leader_counts: the tip, then the headers of the window one after the other. *)
ReadLeaderTip ==
    /\ fetch.pc = "tip"
    /\ fetch' = [fetch EXCEPT !.pc = "headers", !.to = tip, !.at = WindowStart(tip, fetch.window)]
    /\ UNCHANGED <<tip, indexed>>

CountHeader ==
    /\ fetch.pc = "headers" /\ fetch.at <= fetch.to
    /\ fetch' = [fetch EXCEPT !.at = @ + 1, !.counts = AddOne(@, Bodies[fetch.at].beneficiary)]
    /\ UNCHANGED <<tip, indexed>>

SortLeaders ==
    /\ fetch.pc = "headers" /\ fetch.at > fetch.to
    /\ \E s \in SortedEntries(fetch.counts) :
         fetch' = [fetch EXCEPT !.pc = "done", !.items = s]
    /\ UNCHANGED <<tip, indexed>>

NextPage ==
    /\ fetch.pc = "done" /\ fetch.feed # "leaders" /\ fetch.items # <<>>
    /\ fetch' = [fetch EXCEPT !.pc = IF fetch.feed = "typed" THEN "page" ELSE "total",
                     !.page = @ + 1, !.total = 0, !.pointers = <<>>, !.items = <<>>,
                     !.seen = @ \cup {Key(fetch.feed, fetch.items[i]) : i \in DOMAIN fetch.items}]
    /\ UNCHANGED <<tip, indexed>>

FinishFetch ==
    /\ \/ fetch.pc = "error"
       \/ fetch.pc = "done" /\ (fetch.feed = "leaders" \/ fetch.items = <<>>)
    /\ fetch' = NoFetch
    /\ UNCHANGED <<tip, indexed>>

FeedNext ==
    \/ Commit \/ Index
    \/ \E feed \in {"blocks", "txs", "typed"} : List(feed)
    \/ ReadTotal \/ ReadBlocks \/ ReadTxs
    \/ ReadTypedPage \/ ReadTypedCount \/ HydratePage
    \/ Leaders \/ ReadLeaderTip \/ CountHeader \/ SortLeaders
    \/ NextPage \/ FinishFetch

FeedSpec == FeedInit /\ [][FeedNext]_feedVars

-----------------------------------------------------------------------------
Answered(feed) == fetch.pc = "done" /\ fetch.feed = feed

(* The items 0..total - 1, newest first, cut into pages: what a list endpoint  *)
(* promises for any page, the ones whose offset leaves 64 bits included.       *)
Slice(total, page, per_page) ==
    limit_offset([i \in 1..total |-> total - i], total, per_page, page * per_page)

(* /blocks and /txs serve exactly the slice of the feed their own total        *)
(* describes, though the chain grows between the total and the rows, and pages *)
(* are computed, not scanned (desc_page_bounds). A row's gas is what its own   *)
(* transaction used, however the rows of its block are split over the pages    *)
(* (hydrate_pointers, own_gas_used).                                           *)
PageIsSlice ==
    LET slice == Slice(fetch.total, fetch.page, fetch.per_page) IN
    /\ Answered("blocks") => fetch.items = slice
    /\ Answered("txs") =>
         [i \in DOMAIN fetch.items |-> Key("txs", fetch.items[i])]
           = [i \in DOMAIN slice |-> TxTable(tip)[slice[i] + 1]]
    /\ Answered("txs") \/ Answered("typed") =>
         \A i \in DOMAIN fetch.items :
            LET row == fetch.items[i]
            IN  row.gas_used = Bodies[row.block_number].gas[row.tx_index + 1]

(* A client that pages to the empty page has been shown every item the feed    *)
(* had when it began, though items move to later pages as the feed grows. The  *)
(* walk ends in an error only where SQLite cannot bind the offset: a height,   *)
(* and a block an index pointer names, is always at or below the node's tip    *)
(* (blocks_page: "heights are dense", hydrate_pointers: "dangling").           *)
FeedWalkMissesNothing ==
    /\ \A feed \in {"blocks", "txs", "typed"} :
         Answered(feed) /\ fetch.items = <<>> => fetch.owed \subseteq fetch.seen
    /\ fetch.pc = "error" =>
         fetch.feed = "typed" /\ ~Bindable(page_offset(fetch.page, fetch.per_page))

(* A board of the last `asked` blocks up to `to`, or of all there are.         *)
BoardExact(board, to, asked) ==
    LET size == IF asked > to + 1 THEN to + 1 ELSE asked
        window == {n \in 0..to : n + size > to}
    IN  /\ {board[i].address : i \in DOMAIN board} = {Bodies[n].beneficiary : n \in window}
        /\ \A i \in DOMAIN board :
             /\ board[i].blocks
                  = Cardinality({n \in window : Bodies[n].beneficiary = board[i].address})
             /\ \A j \in DOMAIN board : i < j => RanksBefore(board[i], board[j])

(* The leader board accounts for each of the last `window` blocks up to its    *)
(* own tip once, though the chain grows while it counts them: all of them when *)
(* the chain is shorter than the window (leader_counts).                       *)
LeadersExact == Answered("leaders") => BoardExact(fetch.items, fetch.to, fetch.window)
=============================================================================
