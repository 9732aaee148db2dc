---------------------------- MODULE IndexWriter -----------------------------
(* The single writer as the SQLite-backed routes see it: the committed content *)
(* and the published height, with the loop's control abstracted away. Each     *)
(* step is one observable effect of src/exex.rs; module Indexer implements     *)
(* this one.                                                                   *)
EXTENDS ExactIndex, Status

VARIABLES
    tip,        \* highest height of the node's chain
    db,         \* committed SQLite content
    wal,        \* committed contents a power loss may fall back to
    published,  \* IndexerStatus::last_indexed (-1 = none)
    up          \* the API task is serving

writerVars == <<tip, db, wal, published, up>>

Init ==
    /\ tip = 0
    /\ db = EmptyDb /\ wal = {EmptyDb}
    /\ published = NoCursor
    /\ up = FALSE

Execute ==
    /\ tip < MaxHeight
    /\ tip' = tip + 1
    /\ UNCHANGED <<db, wal, published, up>>

(* Writer::open and the cursor load, then the API is spawned.                  *)
Open ==
    /\ ~up
    /\ up' = TRUE
    /\ published' = db.last_indexed
    /\ UNCHANGED <<tip, db, wal>>

(* One block transaction: the block after the cursor, with a fetch outcome for *)
(* each token that needed one.                                                 *)
Index ==
    /\ up
    /\ db.last_indexed < tip
    /\ LET extracted == extract_block(Chain[db.last_indexed + 1])
           fetched   == token_fetch_states(db, extracted.token_candidates)
       IN  \E rows \in [fetched -> {TokenOk, TokenRetryPending}] :
             db' = apply_block(db, extracted, rows)
    /\ wal' = wal \cup {db'}
    /\ UNCHANGED <<tip, published, up>>

(* Mutant of PublishIndexed: the tip is published before its commit.           *)
PublishTip ==
    /\ up
    /\ published' = Larger(published, tip)
    /\ UNCHANGED <<tip, db, wal, up>>

(* status.set_last_indexed, only after the commit.                             *)
PublishIndexed ==
    /\ up
    /\ published' = Larger(published, db.last_indexed)
    /\ UNCHANGED <<tip, db, wal, up>>

(* Orderly shutdown: the API task is cancelled and awaited.                    *)
Close ==
    /\ up
    /\ up' = FALSE
    /\ UNCHANGED <<tip, db, wal, published>>

Checkpoint ==
    /\ wal' = {db}
    /\ UNCHANGED <<tip, db, published, up>>

Restart ==
    /\ \E d \in wal :
         /\ db' = d
         /\ wal' = {e \in wal : e.last_indexed <= d.last_indexed}
    /\ published' = NoCursor
    /\ up' = FALSE
    /\ UNCHANGED tip

Next == Execute \/ Open \/ Index \/ PublishIndexed \/ Close \/ Checkpoint \/ Restart

Spec == Init /\ [][Next]_writerVars
=============================================================================
