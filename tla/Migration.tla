----------------------------- MODULE Migration ------------------------------
(* Opening the SQLite file (Writer::open, configure, migrate in                *)
(* src/storage.rs): inspect, drop an outdated schema, create the current one,  *)
(* stamp the version, check the chain id. The statements run outside any       *)
(* transaction, so the process can die between any two of them and the next    *)
(* start finds whatever was there.                                             *)
EXTENDS Integers, Sequences

CONSTANTS
    NONE,        \* no such row
    Chains,      \* chain ids of the networks a node may run
    MaxRestarts  \* bound: how often the process is killed or restarted

SCHEMA_VERSION == 3

ASSUME MigrationAssumption ==
    /\ NONE \notin Chains \cup 1..SCHEMA_VERSION
    /\ MaxRestarts \in Nat

(* The derived tables in the order both lists name them.                       *)
DerivedOrder == <<"address_txs", "tx_types", "tx_type_counts", "consensus_blocks",
                  "token_transfers", "tokens">>
DerivedTables == {DerivedOrder[i] : i \in DOMAIN DerivedOrder}

(* Mutant of DropOrder: meta goes first, so an interrupted drop looks fresh.   *)
DropMetaFirst == <<"meta">> \o DerivedOrder \o <<"blocks", "transactions">>

(* Mutant of DropOrder: meta is kept, with its cursor.                         *)
DropKeepsMeta == DerivedOrder \o <<"blocks", "transactions">>

(* The DROP batch and the DDL batch, statement by statement.                   *)
DropOrder == DerivedOrder \o <<"meta", "blocks", "transactions">>
CreateOrder == <<"meta">> \o DerivedOrder

V3Tables == {"meta"} \cup DerivedTables

VARIABLES
    shape,    \* table present -> the schema generation that created it
    meta,     \* rows of the meta table: schema_version, chain_id, cursor
    filled,   \* derived tables that hold rows
    owner,    \* the chain those rows were indexed from (not stored: for the properties)
    node,     \* chain id of the node that is opening the file
    declared, \* chain_id the file stated when this open began (for the properties)
    pc, step, \* control point, and the next statement of a batch
    restarts

vars == <<shape, meta, filled, owner, node, declared, pc, step, restarts>>

NoMeta == [schema_version |-> NONE, chain_id |-> NONE, last_indexed |-> FALSE]

-----------------------------------------------------------------------------
(* Files a first start may find: none, a file of the previous schema, a file   *)
(* of the first schema with or without its meta table.                         *)
Fresh ==
    /\ shape = [t \in {} |-> 0] /\ meta = NoMeta /\ filled = {} /\ owner = NONE

V2File ==
    \E c \in Chains :
      /\ shape = [t \in {"meta", "address_txs", "token_transfers", "tokens"} |-> 2]
      /\ meta = [schema_version |-> 2, chain_id |-> c, last_indexed |-> TRUE]
      /\ filled = {"address_txs", "token_transfers", "tokens"}
      /\ owner = c

V1File ==
    \E c \in Chains, tables \in {{"blocks", "transactions"},
                                 {"meta", "address_txs", "blocks", "transactions"}} :
      /\ shape = [t \in tables |-> 1]
      /\ meta = IF "meta" \in tables
                THEN [schema_version |-> 1, chain_id |-> c, last_indexed |-> TRUE]
                ELSE NoMeta
      /\ filled = tables \cap DerivedTables
      /\ owner = c

Init ==
    /\ Fresh \/ V2File \/ V1File
    /\ node = NONE /\ declared = NONE
    /\ pc = "down" /\ step = 0 /\ restarts = 0

-----------------------------------------------------------------------------
(* A node of some network opens the file.                                      *)
Open ==
    /\ pc = "down"
    /\ node' \in Chains
    /\ declared' = meta.chain_id
    /\ pc' = "inspect"
    /\ UNCHANGED <<shape, meta, filled, owner, step, restarts>>

(* A meta table with another (or no) version, or any table only v1 had.        *)
Outdated ==
    \/ "meta" \in DOMAIN shape /\ meta.schema_version # SCHEMA_VERSION
    \/ DOMAIN shape \cap {"blocks", "transactions"} # {}

Inspect ==
    /\ pc = "inspect"
    /\ pc' = IF Outdated THEN "drop" ELSE "create"
    /\ step' = 1
    /\ UNCHANGED <<shape, meta, filled, owner, node, declared, restarts>>

(* DROP TABLE IF EXISTS: the table's rows go with it.                          *)
DropTable ==
    /\ pc = "drop"
    /\ LET t == DropOrder[step] IN
         /\ shape' = [x \in DOMAIN shape \ {t} |-> shape[x]]
         /\ filled' = filled \ {t}
         /\ meta' = IF t = "meta" THEN NoMeta ELSE meta
    /\ IF step < Len(DropOrder) THEN step' = step + 1 /\ pc' = pc
                                ELSE step' = 1 /\ pc' = "create"
    /\ UNCHANGED <<owner, node, declared, restarts>>

(* CREATE TABLE IF NOT EXISTS: a table that is there keeps its shape.          *)
CreateTable ==
    /\ pc = "create"
    /\ LET t == CreateOrder[step] IN
         shape' = [x \in DOMAIN shape \cup {t} |->
                     IF x \in DOMAIN shape THEN shape[x] ELSE SCHEMA_VERSION]
    /\ IF step < Len(CreateOrder) THEN step' = step + 1 /\ pc' = pc
                                  ELSE step' = 0 /\ pc' = "stamp"
    /\ UNCHANGED <<meta, filled, owner, node, declared, restarts>>

(* INSERT OR IGNORE schema_version.                                            *)
StampVersion ==
    /\ pc = "stamp"
    /\ meta' = IF meta.schema_version = NONE
               THEN [meta EXCEPT !.schema_version = SCHEMA_VERSION] ELSE meta
    /\ pc' = "chain_id"
    /\ UNCHANGED <<shape, filled, owner, node, declared, step, restarts>>

(* Mutant of CheckChainId: a mismatch is not an error.                         *)
AdoptChainId ==
    /\ pc = "chain_id"
    /\ meta' = [meta EXCEPT !.chain_id = node]
    /\ pc' = "open"
    /\ UNCHANGED <<shape, filled, owner, node, declared, step, restarts>>

(* No chain id: store the node's. Another chain's: bail.                       *)
CheckChainId ==
    /\ pc = "chain_id"
    /\ meta' = IF meta.chain_id = NONE THEN [meta EXCEPT !.chain_id = node] ELSE meta
    /\ pc' = IF meta.chain_id \in {NONE, node} THEN "open" ELSE "bailed"
    /\ UNCHANGED <<shape, filled, owner, node, declared, step, restarts>>

(* The open file is indexed: rows and cursor in one transaction.               *)
IndexBlock ==
    /\ pc = "open" /\ ~meta.last_indexed
    /\ filled' = DerivedTables
    /\ meta' = [meta EXCEPT !.last_indexed = TRUE]
    /\ owner' = node
    /\ UNCHANGED <<shape, node, declared, pc, step, restarts>>

(* A statement fails (disk full, a lock held past the busy timeout, a chain id *)
(* that does not parse): the open errors out, and what ran before it stays.    *)
StatementFails ==
    /\ pc \in {"inspect", "drop", "create", "stamp", "chain_id"}
    /\ pc' = "failed"
    /\ UNCHANGED <<shape, meta, filled, owner, node, declared, step, restarts>>

(* The process is killed, or stops; the file stays as the statements left it.  *)
Restart ==
    /\ pc # "down"
    /\ restarts < MaxRestarts
    /\ restarts' = restarts + 1
    /\ pc' = "down" /\ step' = 0
    /\ node' = NONE /\ declared' = NONE
    /\ UNCHANGED <<shape, meta, filled, owner>>

MigrateStep == Inspect \/ DropTable \/ CreateTable \/ StampVersion \/ CheckChainId

Next == Open \/ MigrateStep \/ StatementFails \/ IndexBlock \/ Restart

Spec == Init /\ [][Next]_vars

-----------------------------------------------------------------------------
(* However often a migration was interrupted, an open file has exactly the     *)
(* current tables, all created by the current DDL, and the current version: a  *)
(* CREATE IF NOT EXISTS never adopts a table of an older shape.                *)
OpenMeansCurrentSchema ==
    pc = "open" => /\ DOMAIN shape = V3Tables
                   /\ \A t \in DerivedTables : shape[t] = SCHEMA_VERSION
                   /\ meta.schema_version = SCHEMA_VERSION

(* An open file has a cursor together with all the rows below it, or neither:  *)
(* no interrupted drop leaves a cursor whose rows are gone, nor rows that a    *)
(* replay from 0 would meet again.                                             *)
CursorMatchesRows ==
    pc = "open" => filled = IF meta.last_indexed THEN DerivedTables ELSE {}

(* The rows an open file serves were indexed from the node's own network.      *)
OpenRowsAreOurs ==
    pc = "open" => /\ meta.chain_id = node
                   /\ filled # {} => owner = node

(* The chain id guard refuses only a file that named another network before    *)
(* the open touched it, never one that an interrupted migration left without a *)
(* name, and a refusal does no harm: the file still names that network, and    *)
(* its tables, its rows and its cursor are whole, so its own node goes on      *)
(* (migrate: "belongs to chain").                                              *)
RefusalHarmless ==
    pc = "bailed" =>
      /\ declared \notin {NONE, node} /\ meta.chain_id = declared
      /\ \A t \in V3Tables : t \in DOMAIN shape /\ shape[t] = SCHEMA_VERSION
      /\ filled = IF meta.last_indexed THEN DerivedTables ELSE {}
      /\ filled # {} => owner = declared

(* "A stored chain id that differs from the node's chainspec is a hard error": *)
(* a file that states another network is never opened.                         *)
ForeignFileRefused == pc = "open" => declared \in {NONE, node}
=============================================================================
