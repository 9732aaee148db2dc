------------------------------- MODULE Indexer -------------------------------
(* The indexing loop of src/exex.rs with its status (src/status.rs), its       *)
(* SQLite file (module Storage), the node that feeds it, and crashes.          *)
(*                                                                             *)
(* The node is external (tn_exex, reth) and modelled from how the loop uses    *)
(* it: it commits blocks one height at a time and never rewinds, broadcasts    *)
(* each committed height afterwards as part of a ChainExecuted segment, drops  *)
(* the oldest undelivered segments of a slow receiver and then reports Lagged, *)
(* and replays the inclusive range from a start to its tip at the call.        *)
EXTENDS ExactIndex, Status

VARIABLES
    tip,        \* node: highest committed height
    notified,   \* node: highest height broadcast as ChainExecuted
    delivered,  \* channel: highest height received by the loop or dropped
    lagged,     \* channel: the next receive reports Lagged
    closed,     \* channel: the node is shutting down
    db,         \* the SQLite content readers see (committed)
    wal,        \* the committed contents a power loss may fall back to
    status,     \* IndexerStatus: last_indexed (-1 = none), node_tip, live
    pc,         \* control point of indexer_exex
    next, hi,   \* index_chain: the block in hand, the last of the segment
    need,       \* tokens of the block still to be fetched
    token_rows, \* tokens of the block already fetched
    finished    \* last height given to report_finished_height

nodeVars  == <<tip, notified, delivered, lagged, closed>>
diskVars  == <<db, wal>>
blockVars == <<next, hi, need, token_rows>>
vars == <<nodeVars, diskVars, status, pc, blockVars, finished>>

Cursor == db.last_indexed

(* Where an error return (or a panic) of the loop is possible.                 *)
FalliblePCs == {"catch_up", "replay_from", "segment", "fetch"}
(* Where a block of a segment is in hand or about to be.                       *)
SegmentPCs == {"segment", "fetch", "set_last_indexed", "set_node_tip"}
(* The loop is running: LiveGuard exists.                                      *)
LoopPCs == {"catch_up", "replay_from", "live"} \cup SegmentPCs
PCs == {"down", "failed", "api_up", "dead", "stopped"} \cup LoopPCs
(* The API answers: spawned before catch-up, outlives a dead loop.             *)
ApiPCs == {"api_up", "dead"} \cup LoopPCs

-----------------------------------------------------------------------------
Init ==
    /\ tip = 0 /\ notified = 0 /\ delivered = 0
    /\ lagged = FALSE /\ closed = FALSE
    /\ db = EmptyDb /\ wal = {EmptyDb}
    /\ status = InitialStatus
    /\ pc = "down"
    /\ next = 0 /\ hi = 0 /\ need = {} /\ token_rows = EmptyTable
    /\ finished = NoCursor

-----------------------------------------------------------------------------
(* The node.                                                                   *)

(* The engine commits the next block.                                          *)
Execute ==
    /\ ~closed
    /\ tip < MaxHeight
    /\ tip' = tip + 1
    /\ UNCHANGED <<notified, delivered, lagged, closed, diskVars, status, pc,
                   blockVars, finished>>

(* A ChainExecuted with the committed blocks not yet announced is broadcast.   *)
Notify ==
    /\ ~closed
    /\ notified < tip
    /\ \E n \in (notified + 1)..tip : notified' = n
    /\ UNCHANGED <<tip, delivered, lagged, closed, diskVars, status, pc,
                   blockVars, finished>>

(* The channel overflows: the oldest undelivered notifications are dropped and *)
(* the receiver will see Lagged first. The lost ones may all be of the kinds   *)
(* the loop ignores (certificates, consensus outputs): then no block is lost.  *)
Overflow ==
    /\ pc \in {"api_up"} \cup LoopPCs
    /\ ~lagged
    /\ \E d \in delivered..notified : delivered' = d
    /\ lagged' = TRUE
    /\ UNCHANGED <<tip, notified, closed, diskVars, status, pc, blockVars, finished>>

(* The node begins an orderly shutdown: no more blocks, the channel closes     *)
(* behind what it still holds.                                                 *)
Shutdown ==
    /\ pc \in {"api_up"} \cup LoopPCs
    /\ ~closed
    /\ closed' = TRUE
    /\ UNCHANGED <<tip, notified, delivered, lagged, diskVars, status, pc,
                   blockVars, finished>>

-----------------------------------------------------------------------------
(* The loop: start.                                                            *)

(* Mutant of Start: the durable cursor is not loaded into the status.          *)
StartWithoutCursor ==
    /\ pc = "down"
    /\ \E s \in delivered..notified : delivered' = s
    /\ status' = InitialStatus
    /\ pc' = "api_up"
    /\ UNCHANGED <<tip, notified, lagged, closed, diskVars, blockVars, finished>>

(* Writer::open, ReadPool::open and the cursor load succeed, the API task is   *)
(* spawned. The channel was subscribed some time before, not later.            *)
Start ==
    /\ pc = "down"
    /\ \E s \in delivered..notified : delivered' = s
    /\ status' = IF Cursor = NoCursor THEN InitialStatus
                 ELSE set_last_indexed(InitialStatus, Cursor)
    /\ pc' = "api_up"
    /\ UNCHANGED <<tip, notified, lagged, closed, diskVars, blockVars, finished>>

(* One of them errors: the ExEx returns before there is an API.                *)
OpenFails ==
    /\ pc = "down"
    /\ pc' = "failed"
    /\ UNCHANGED <<nodeVars, diskVars, status, blockVars, finished>>

(* LiveGuard::new, then catch_up is called.                                    *)
GoLive ==
    /\ pc = "api_up"
    /\ status' = set_live(status, TRUE)
    /\ pc' = "catch_up"
    /\ UNCHANGED <<nodeVars, diskVars, blockVars, finished>>

(* catch_up reads the durable cursor and the node's tip.                       *)
CatchUp ==
    /\ pc = "catch_up"
    /\ next' = Cursor + 1
    /\ status' = set_node_tip(status, tip)
    /\ pc' = "replay_from"
    /\ UNCHANGED <<nodeVars, diskVars, hi, need, token_rows, finished>>

(* replay_from(start): the range ends at the tip of THIS call.                 *)
ReplayFrom ==
    /\ pc = "replay_from"
    /\ hi' = tip
    /\ pc' = "segment"
    /\ UNCHANGED <<nodeVars, diskVars, status, next, need, token_rows, finished>>

-----------------------------------------------------------------------------
(* The loop: index_chain, for a replayed block range or a live segment.        *)

(* extract_block and token_fetch_states for the next block.                    *)
BeginBlock ==
    /\ pc = "segment"
    /\ next <= hi
    /\ need' = token_fetch_states(db, extract_block(Chain[next]).token_candidates)
    /\ token_rows' = EmptyTable
    /\ pc' = "fetch"
    /\ UNCHANGED <<nodeVars, diskVars, status, next, hi, finished>>

(* Mutant of FetchOutcomes: the loop escalates to the terminal status itself.  *)
FetchOutcomesTerminal == {TokenOk, TokenRetryPending, TokenFailed}

(* The status of a fetched row, u8::from(!ok): something decoded, or nothing.  *)
FetchOutcomes == {TokenOk, TokenRetryPending}

(* reader.token_metadata(t) for one of the tokens still needed.                *)
FetchToken ==
    /\ pc = "fetch"
    /\ \E t \in need, s \in FetchOutcomes :
         /\ need' = need \ {t}
         /\ token_rows' = [k \in DOMAIN token_rows \cup {t} |->
                             IF k = t THEN s ELSE token_rows[k]]
    /\ UNCHANGED <<nodeVars, diskVars, status, pc, next, hi, finished>>

(* index_block: one transaction, committed or (at or below the cursor) skipped.*)
IndexBlock ==
    /\ pc = "fetch"
    /\ need = {}
    /\ db' = apply_block(db, extract_block(Chain[next]), token_rows)
    /\ wal' = wal \cup {db'}
    /\ pc' = IF AtOrBelowCursor(db, next) THEN "set_node_tip" ELSE "set_last_indexed"
    /\ UNCHANGED <<nodeVars, status, blockVars, finished>>

(* Mutant of SetLastIndexed: publishes the segment's last height.              *)
SetLastIndexedToSegmentEnd ==
    /\ pc = "set_last_indexed"
    /\ status' = set_last_indexed(status, hi)
    /\ pc' = "set_node_tip"
    /\ UNCHANGED <<nodeVars, diskVars, blockVars, finished>>

SetLastIndexed ==
    /\ pc = "set_last_indexed"
    /\ status' = set_last_indexed(status, next)
    /\ pc' = "set_node_tip"
    /\ UNCHANGED <<nodeVars, diskVars, blockVars, finished>>

SetNodeTip ==
    /\ pc = "set_node_tip"
    /\ status' = set_node_tip(status, next)
    /\ next' = next + 1
    /\ need' = {} /\ token_rows' = EmptyTable
    /\ pc' = "segment"
    /\ UNCHANGED <<nodeVars, diskVars, hi, finished>>

(* The replay stream or the segment is exhausted: report_progress, then wait   *)
(* for a notification.                                                         *)
ReportProgress ==
    /\ pc = "segment"
    /\ next > hi
    /\ finished' = IF status.last_indexed = NoCursor THEN finished
                                                     ELSE status.last_indexed
    /\ pc' = "live"
    /\ UNCHANGED <<nodeVars, diskVars, status, blockVars>>

-----------------------------------------------------------------------------
(* The loop: next_notification.                                                *)

ChainExecuted ==
    /\ pc = "live"
    /\ ~lagged
    /\ delivered < notified
    /\ next' = delivered + 1
    /\ \E h \in (delivered + 1)..notified :
         /\ hi' = h
         /\ delivered' = h
    /\ pc' = "segment"
    /\ UNCHANGED <<tip, notified, lagged, closed, diskVars, status, need,
                   token_rows, finished>>

(* Mutant of Lagged: logged and otherwise ignored, no re-replay.               *)
LaggedIgnored ==
    /\ pc = "live"
    /\ lagged
    /\ lagged' = FALSE
    /\ UNCHANGED <<tip, notified, delivered, closed, diskVars, status, pc, blockVars,
                   finished>>

Lagged ==
    /\ pc = "live"
    /\ lagged
    /\ lagged' = FALSE
    /\ pc' = "catch_up"
    /\ UNCHANGED <<tip, notified, delivered, closed, diskVars, status, blockVars,
                   finished>>

(* None: the channel is closed and drained. The API is cancelled and awaited,  *)
(* the guard drops.                                                            *)
ChannelClosed ==
    /\ pc = "live"
    /\ closed /\ ~lagged /\ delivered = notified
    /\ status' = set_live(status, FALSE)
    /\ pc' = "stopped"
    /\ UNCHANGED <<nodeVars, diskVars, blockVars, finished>>

(* An error return or a panic: the guard drops, the API task stays up. A block *)
(* transaction that was open is rolled back.                                   *)
LoopDies ==
    /\ pc \in FalliblePCs
    /\ status' = set_live(status, FALSE)
    /\ pc' = "dead"
    /\ UNCHANGED <<nodeVars, diskVars, blockVars, finished>>

-----------------------------------------------------------------------------
(* Durability: WAL with synchronous = NORMAL syncs at checkpoints only.        *)

Checkpoint ==
    /\ pc \notin {"down", "failed"}
    /\ wal # {db}
    /\ wal' = {db}
    /\ UNCHANGED <<nodeVars, db, status, pc, blockVars, finished>>

(* The node process ends (kill -9, power loss, exit after shutdown) and boots  *)
(* again: the file holds some committed content since the last checkpoint,     *)
(* everything in memory is gone, the channel is new.                           *)
Crash ==
    /\ pc # "down"
    /\ \E d \in wal :
         /\ db' = d
         /\ wal' = {e \in wal : e.last_indexed <= d.last_indexed}
    /\ notified' = tip /\ delivered' = tip
    /\ lagged' = FALSE /\ closed' = FALSE
    /\ status' = InitialStatus
    /\ pc' = "down"
    /\ next' = 0 /\ hi' = 0 /\ need' = {} /\ token_rows' = EmptyTable
    /\ finished' = NoCursor
    /\ UNCHANGED tip

-----------------------------------------------------------------------------
LoopStep ==
    \/ GoLive \/ CatchUp \/ ReplayFrom
    \/ BeginBlock \/ FetchToken \/ IndexBlock \/ SetLastIndexed \/ SetNodeTip
    \/ ReportProgress
    \/ ChainExecuted \/ Lagged \/ ChannelClosed

Next ==
    \/ Execute \/ Notify \/ Overflow \/ Shutdown
    \/ Start \/ OpenFails
    \/ LoopStep
    \/ LoopDies
    \/ Checkpoint \/ Crash

Spec == Init /\ [][Next]_vars

(* A restarted loop is scheduled again and again as long as it can run (tokio  *)
(* polls a ready task), and the node keeps announcing what it commits.         *)
FairSpec == Spec /\ WF_vars(LoopStep) /\ WF_vars(Notify)

-----------------------------------------------------------------------------
(* Type invariant.                                                             *)
StatusType == [last_indexed : Heights \cup {NoCursor}, node_tip : Heights, live : BOOLEAN]

TypeOK ==
    /\ tip \in Heights /\ notified \in Heights /\ delivered \in Heights
    /\ lagged \in BOOLEAN /\ closed \in BOOLEAN
    /\ db.last_indexed \in Heights \cup {NoCursor}
    /\ db \in wal
    /\ status \in StatusType
    /\ pc \in PCs
    /\ next \in 0..(MaxHeight + 1) /\ hi \in Heights
    /\ token_rows \in [DOMAIN token_rows -> {TokenOk, TokenRetryPending}]
    /\ finished \in Heights \cup {NoCursor}

(* The committed index is exact at every moment (see ExactIndex): no hole, no  *)
(* half-indexed block, whatever the replay/live overlap, a lagging channel,    *)
(* errors and crashes did (index_block, catch_up, index_chain).                *)
IndexIsPrefix == PrefixExact(db)

(* tx_type_counts stays equal to COUNT of the type's rows across replays,      *)
(* skips and crashes (apply_block's counter upsert, count_tx_type).            *)
CountsExact == CountsExactIn(db)

(* The stored range of an output is exactly its indexed blocks (apply_block's  *)
(* consensus upsert).                                                          *)
RangesExact == RangesExactIn(db)

(* A token has a metadata row exactly when one of its transfers is indexed     *)
(* (token_fetch_states, the fetch loop and the token upsert).                  *)
TokensExact == TokensExactIn(db)

(* No pointer dangles: the index never runs ahead of the chain the node can    *)
(* hydrate from, status never runs ahead of the committed index, and the node  *)
(* is never told a height is finished that is not indexed (report_progress).   *)
NeverAhead ==
    /\ Cursor <= tip
    /\ status.last_indexed <= Cursor
    /\ finished <= Cursor

(* A live segment or replay never starts above cursor + 1: the cursor guard    *)
(* only rejects blocks at or below the cursor, so contiguity rests on catch_up *)
(* covering every dropped notification.                                        *)
NoGap ==
    pc \in {"segment", "fetch"} => next <= Cursor + 1

(* The cursor only moves forward, one block at a time, except when a crash     *)
(* falls back to an earlier commit.                                            *)
CursorStepwise == [][pc' = "down" \/ Cursor' \in {Cursor, Cursor + 1}]_vars

(* Token status machine: decoded and terminal rows are never touched again,    *)
(* and a failure is terminal only after an earlier recorded failure.           *)
TokenStatusMachine ==
    [][pc' = "down" \/
       \A t \in DOMAIN db'.tokens :
          IF t \notin DOMAIN db.tokens
          THEN db'.tokens[t] \in {TokenOk, TokenRetryPending}
          ELSE \/ db'.tokens[t] = db.tokens[t]
               \/ db.tokens[t] = TokenRetryPending /\ db'.tokens[t] \in {TokenOk, TokenFailed}]_vars

(* Every executed block is eventually indexed as long as the loop runs.        *)
LoopGone == pc \notin {"api_up"} \cup LoopPCs

EventuallyIndexed ==
    \A h \in Heights : (tip >= h) ~> (Cursor >= h \/ LoopGone \/ closed)

-----------------------------------------------------------------------------
(* Refinement: what the SQLite-backed routes observe (the committed index, the *)
(* published height, the chain) changes as module IndexWriter says. Replay,    *)
(* live segments, skips, lag and retries are stuttering or its Index step.     *)
Writer == INSTANCE IndexWriter WITH
    published <- status.last_indexed,
    up        <- pc \in ApiPCs

ImplementsIndexWriter == Writer!Spec

(* Refinement, one level up: whatever the loop goes through, readers see the   *)
(* rows of a whole prefix of the chain. A committed block is the abstract      *)
(* Index step and a crash at most Lose.                                        *)
Derived == INSTANCE DerivedIndex WITH
    view <- [last_indexed    |-> db.last_indexed,
             address_txs     |-> db.address_txs,
             tx_types        |-> db.tx_types,
             token_transfers |-> db.token_transfers]

ImplementsDerivedIndex == Derived!Spec

-----------------------------------------------------------------------------
(* What the documentation says of /health, and the code does not do.           *)

(* "if this loop errors or panics, the API task stays up and degrades honestly *)
(* - LiveGuard flips indexing_live to false and /health.lag grows": a dead     *)
(* loop that has fallen behind the chain eventually shows a lag.               *)
DeadLoopShowsLag ==
    (pc = "dead" /\ tip > LastIndexedOr0(status)) ~> (lag(status) > 0 \/ pc # "dead")
=============================================================================
