------------------------------- MODULE Storage -------------------------------
(* The SQLite file of src/storage.rs as a value, and the per-block write as an *)
(* operator on it. A table with a payload is a function whose DOMAIN is the    *)
(* set of keys present; a table of pointers is a set of rows.                  *)
EXTENDS Extract, FiniteSets

NoCursor == -1                     \* meta.last_indexed is absent

TokenOk == 0
TokenRetryPending == 1
TokenFailed == 2

EmptyTable == [k \in {} |-> 0]

(* A freshly created schema: no row in any table, no cursor.                   *)
EmptyDb ==
    [last_indexed     |-> NoCursor,
     address_txs      |-> {},
     tx_types         |-> {},
     tx_type_counts   |-> EmptyTable,
     consensus_blocks |-> EmptyTable,
     token_transfers  |-> {},
     tokens           |-> EmptyTable]

-----------------------------------------------------------------------------
(* Mutant of token_fetch_states: only rows already there are considered.       *)
FetchOnlyRetries(db, candidates) ==
    {t \in candidates \cap DOMAIN db.tokens : db.tokens[t] = TokenRetryPending}

(* Mutant of token_fetch_states: terminal failures are fetched again.          *)
FetchAllFailed(db, candidates) ==
    {t \in candidates : t \notin DOMAIN db.tokens \/ db.tokens[t] # TokenOk}

(* Which candidates need a metadata (re)fetch: unseen or retry pending.        *)
token_fetch_states(db, candidates) ==
    {t \in candidates : \/ t \notin DOMAIN db.tokens
                        \/ db.tokens[t] = TokenRetryPending}

(* The stored per-type total; a type never seen has no row and counts as 0.    *)
count_tx_type(db, ty) ==
    IF ty \in DOMAIN db.tx_type_counts THEN db.tx_type_counts[ty] ELSE 0

-----------------------------------------------------------------------------
(* INSERT OR IGNORE on PRIMARY KEY (address, block_number, tx_index).          *)
InsertAddressTxs(table, rows) ==
    table \cup {r \in rows :
                  \A q \in table : \/ q.address # r.address
                                   \/ q.block_number # r.block_number
                                   \/ q.tx_index # r.tx_index}

(* INSERT OR IGNORE on PRIMARY KEY (block_number, tx_index, log_index).        *)
InsertTransfers(table, rows) ==
    table \cup {r \in rows :
                  \A q \in table : \/ q.block_number # r.block_number
                                   \/ q.tx_index # r.tx_index
                                   \/ q.log_index # r.log_index}

(* Mutant of AddTypeCounts: the upsert overwrites instead of adding.           *)
OverwriteTypeCounts(db, rows) ==
    [ty \in DOMAIN db.tx_type_counts \cup {r.tx_type : r \in rows} |->
       IF ty \in {r.tx_type : r \in rows}
       THEN Cardinality({r \in rows : r.tx_type = ty})
       ELSE count_tx_type(db, ty)]

(* ON CONFLICT(tx_type) DO UPDATE SET count = count + excluded.count, where    *)
(* excluded.count is the number of rows the INSERT really stored.              *)
AddTypeCounts(db, rows) ==
    LET inserted(ty) == Cardinality({r \in rows \ db.tx_types : r.tx_type = ty})
    IN  [ty \in DOMAIN db.tx_type_counts \cup {r.tx_type : r \in rows} |->
           count_tx_type(db, ty) + inserted(ty)]

(* Mutant of WidenRange: the upsert forgets last_block = max(...).             *)
WidenFirstOnly(table, row) ==
    [d \in DOMAIN table \cup {row.digest} |->
       IF d # row.digest THEN table[d]
       ELSE IF d \notin DOMAIN table
       THEN [epoch |-> row.epoch, round |-> row.round,
             first_block |-> row.block_number, last_block |-> row.block_number]
       ELSE [table[d] EXCEPT !.first_block = IF row.block_number < @
                                             THEN row.block_number ELSE @]]

(* One row per output digest; its range widens by min/max.                     *)
WidenRange(table, row) ==
    [d \in DOMAIN table \cup {row.digest} |->
       IF d # row.digest THEN table[d]
       ELSE IF d \notin DOMAIN table
       THEN [epoch |-> row.epoch, round |-> row.round,
             first_block |-> row.block_number, last_block |-> row.block_number]
       ELSE [epoch       |-> table[d].epoch,
             round       |-> table[d].round,
             first_block |-> IF row.block_number < table[d].first_block
                             THEN row.block_number ELSE table[d].first_block,
             last_block  |-> IF row.block_number > table[d].last_block
                             THEN row.block_number ELSE table[d].last_block]]

UpsertConsensus(table, consensus) ==
    IF consensus = {} THEN table
    ELSE WidenRange(table, CHOOSE row \in consensus : TRUE)

(* Mutant of UpsertTokens: an UPDATE, which stores no new row.                 *)
UpdateTokens(table, token_rows) ==
    [t \in DOMAIN table |->
       IF t \notin DOMAIN token_rows THEN table[t]
       ELSE IF token_rows[t] # TokenOk /\ table[t] # TokenOk
       THEN TokenFailed
       ELSE token_rows[t]]

(* token_rows maps each fetched token to 0 (decoded) or 1 (failed). A failure  *)
(* over a row that already failed escalates to the terminal status.            *)
UpsertTokens(table, token_rows) ==
    [t \in DOMAIN table \cup DOMAIN token_rows |->
       IF t \notin DOMAIN token_rows THEN table[t]
       ELSE IF t \in DOMAIN table /\ token_rows[t] # TokenOk /\ table[t] # TokenOk
       THEN TokenFailed
       ELSE token_rows[t]]

(* Mutant of AtOrBelowCursor: no guard, every block is written.                *)
NeverAtOrBelowCursor(db, number) == FALSE

(* The in-transaction cursor guard.                                            *)
AtOrBelowCursor(db, number) == number <= db.last_indexed

(* Every statement of the per-block transaction, the cursor included.          *)
WriteBlock(db, extracted, token_rows) ==
    [last_indexed     |-> extracted.number,
     address_txs      |-> InsertAddressTxs(db.address_txs, extracted.address_rows),
     tx_types         |-> db.tx_types \cup extracted.tx_types,
     tx_type_counts   |-> AddTypeCounts(db, extracted.tx_types),
     consensus_blocks |-> UpsertConsensus(db.consensus_blocks, extracted.consensus),
     token_transfers  |-> InsertTransfers(db.token_transfers, extracted.transfers),
     tokens           |-> UpsertTokens(db.tokens, token_rows)]

(* index_block commits what apply_block wrote, or rolls back on a skip.        *)
apply_block(db, extracted, token_rows) ==
    IF AtOrBelowCursor(db, extracted.number)
    THEN db
    ELSE WriteBlock(db, extracted, token_rows)
=============================================================================
