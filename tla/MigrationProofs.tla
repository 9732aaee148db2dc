--------------------------- MODULE MigrationProofs ---------------------------
(* Opening the file for every set of networks and any number of kills between  *)
(* any two statements of the migration: what is opened has the current schema, *)
(* a cursor that matches its rows, and rows of the node's own network.         *)
EXTENDS Migration, TLAPS

V1Tables == {"blocks", "transactions"}
Tables == V3Tables \cup V1Tables

(* What the columns of the file may hold, whoever wrote it.                    *)
TypeOK ==
    /\ DOMAIN shape \subseteq Tables
    /\ shape = [t \in DOMAIN shape |-> shape[t]]
    /\ meta \in [schema_version : 1..SCHEMA_VERSION \cup {NONE},
                 chain_id : Chains \cup {NONE}, last_indexed : BOOLEAN]
    /\ filled \subseteq DerivedTables \cap DOMAIN shape
    /\ node \in Chains \cup {NONE}
    /\ pc \in {"down", "inspect", "drop", "create", "stamp", "chain_id", "open", "bailed",
           "failed"}
    /\ step \in Nat
    /\ pc = "down" \/ node \in Chains

(* Every table of the current schema, made by the current DDL, and no other.   *)
Complete == shape = [t \in V3Tables |-> SCHEMA_VERSION]

(* The version row vouches for the whole file: it is written after the last    *)
(* CREATE, and no statement of a drop runs on a file that has it.              *)
StampVouches ==
    meta.schema_version = SCHEMA_VERSION =>
      /\ Complete
      /\ filled = IF meta.last_indexed THEN DerivedTables ELSE {}
      /\ filled # {} => owner = meta.chain_id /\ meta.chain_id \in Chains

(* The meta table outlives the derived tables in a drop and precedes them in a *)
(* create: without it the file has nothing a CREATE IF NOT EXISTS could adopt. *)
MetaIsLastAndFirst ==
    "meta" \notin DOMAIN shape => meta = NoMeta /\ DOMAIN shape \subseteq V1Tables

(* A drop has removed the tables before the statement it is at, and only runs  *)
(* on a file the current version does not vouch for.                           *)
DropProgress ==
    pc = "drop" =>
      /\ step \in 1..Len(DropOrder)
      /\ meta.schema_version # SCHEMA_VERSION
      /\ \A i \in 1..(step - 1) : DropOrder[i] \notin DOMAIN shape

(* A create either has nothing to do or has made exactly the tables before the *)
(* statement it is at, all empty and unstamped.                                *)
CreateProgress ==
    pc = "create" =>
      /\ step \in 1..Len(CreateOrder)
      /\ \/ meta.schema_version = SCHEMA_VERSION
         \/ /\ shape = [t \in {CreateOrder[i] : i \in 1..(step - 1)} |-> SCHEMA_VERSION]
            /\ meta = NoMeta /\ filled = {}

StampProgress ==
    /\ pc = "stamp" => \/ meta.schema_version = SCHEMA_VERSION
                       \/ Complete /\ meta = NoMeta /\ filled = {}
    /\ pc \in {"chain_id", "open", "bailed"} => meta.schema_version = SCHEMA_VERSION
    /\ pc = "open" => meta.chain_id = node
    /\ pc = "bailed" => meta.chain_id \notin {NONE, node}

(* The inductive invariant: the file's part holds at every crash point, the    *)
(* rest says how far the running open has got.                                 *)
IInv ==
    /\ TypeOK
    /\ StampVouches
    /\ MetaIsLastAndFirst
    /\ DropProgress
    /\ CreateProgress
    /\ StampProgress

-----------------------------------------------------------------------------
(* The two batches, written out.                                               *)
LEMMA Orders ==
    /\ Len(DropOrder) = 9
    /\ DropOrder[1] = "address_txs" /\ DropOrder[2] = "tx_types"
    /\ DropOrder[3] = "tx_type_counts" /\ DropOrder[4] = "consensus_blocks"
    /\ DropOrder[5] = "token_transfers" /\ DropOrder[6] = "tokens"
    /\ DropOrder[7] = "meta" /\ DropOrder[8] = "blocks" /\ DropOrder[9] = "transactions"
    /\ Len(CreateOrder) = 7
    /\ CreateOrder[1] = "meta"
    /\ CreateOrder[2] = "address_txs" /\ CreateOrder[3] = "tx_types"
    /\ CreateOrder[4] = "tx_type_counts" /\ CreateOrder[5] = "consensus_blocks"
    /\ CreateOrder[6] = "token_transfers" /\ CreateOrder[7] = "tokens"
BY DEF DropOrder, CreateOrder, DerivedOrder

LEMMA DerivedNames ==
    DerivedTables = {"address_txs", "tx_types", "tx_type_counts", "consensus_blocks",
                     "token_transfers", "tokens"}
<1>1. DOMAIN DerivedOrder = 1..6
  BY DEF DerivedOrder
<1>2. /\ DerivedOrder[1] = "address_txs" /\ DerivedOrder[2] = "tx_types"
      /\ DerivedOrder[3] = "tx_type_counts" /\ DerivedOrder[4] = "consensus_blocks"
      /\ DerivedOrder[5] = "token_transfers" /\ DerivedOrder[6] = "tokens"
  BY DEF DerivedOrder
<1> QED BY <1>1, <1>2 DEF DerivedTables

(* Dropping everything the batch names leaves no table.                        *)
LEMMA DropNamesAll ==
    ASSUME NEW t \in Tables
    PROVE  \E i \in 1..9 : DropOrder[i] = t
BY Orders, DerivedNames DEF Tables, V3Tables, V1Tables

(* Creating everything the batch names makes the current schema.               *)
LEMMA CreateNamesAll == {CreateOrder[i] : i \in 1..7} = V3Tables
BY Orders, DerivedNames DEF V3Tables

-----------------------------------------------------------------------------
(* Every file a first start may find.                                          *)
LEMMA InitIInv == Init => IInv
<1> SUFFICES ASSUME Init PROVE IInv
  OBVIOUS
<1> USE MigrationAssumption
<1>1. /\ node = NONE /\ pc = "down" /\ step = 0
  BY DEF Init
<1>2. CASE Fresh
  BY <1>1, <1>2 DEF Fresh, IInv, TypeOK, StampVouches, MetaIsLastAndFirst, DropProgress,
                    CreateProgress, StampProgress, NoMeta, SCHEMA_VERSION
<1>3. CASE V2File
  <2> PICK c \in Chains :
        /\ shape = [t \in {"meta", "address_txs", "token_transfers", "tokens"} |-> 2]
        /\ meta = [schema_version |-> 2, chain_id |-> c, last_indexed |-> TRUE]
        /\ filled = {"address_txs", "token_transfers", "tokens"}
    BY <1>3 DEF V2File
  <2> QED BY <1>1, DerivedNames DEF IInv, TypeOK, StampVouches, MetaIsLastAndFirst, DropProgress,
                CreateProgress, StampProgress, SCHEMA_VERSION, Tables, V3Tables
<1>4. CASE V1File
  <2> PICK c \in Chains, tables \in {{"blocks", "transactions"},
                                     {"meta", "address_txs", "blocks", "transactions"}} :
        /\ shape = [t \in tables |-> 1]
        /\ meta = IF "meta" \in tables
                  THEN [schema_version |-> 1, chain_id |-> c, last_indexed |-> TRUE]
                  ELSE NoMeta
        /\ filled = tables \cap DerivedTables
    BY <1>4 DEF V1File
  <2> QED BY <1>1, DerivedNames DEF IInv, TypeOK, StampVouches, MetaIsLastAndFirst, DropProgress,
                CreateProgress, StampProgress, SCHEMA_VERSION, NoMeta, Tables, V3Tables, V1Tables
<1> QED BY <1>2, <1>3, <1>4 DEF Init

(* Opening, failing and restarting leave the file alone, and the file's part of the     *)
(* invariant does not depend on where the process stood.                       *)
LEMMA OpenStep == IInv /\ (Open \/ Restart \/ StatementFails) => IInv'
BY DEF Open, Restart, StatementFails, IInv, TypeOK, StampVouches, Complete, MetaIsLastAndFirst, DropProgress,
       CreateProgress, StampProgress

(* What the invariant says of the file alone.                                  *)
LEMMA FileKept ==
    ASSUME IInv, UNCHANGED <<shape, meta, filled, owner, node>>
    PROVE  /\ StampVouches' /\ MetaIsLastAndFirst'
           /\ /\ pc' \in {"inspect", "drop", "create", "stamp", "chain_id", "open", "bailed"}
              /\ step' \in Nat /\ node \in Chains
              => TypeOK'
BY DEF IInv, TypeOK, StampVouches, Complete, MetaIsLastAndFirst

(* The inspection drops nothing that is current and keeps nothing that is not. *)
LEMMA InspectStep == IInv /\ Inspect => IInv'
<1> SUFFICES ASSUME IInv, Inspect PROVE IInv'
  OBVIOUS
<1> USE MigrationAssumption
<1>0. node \in Chains /\ 1 \in Nat
  BY DEF IInv, TypeOK, Inspect
<1>1. UNCHANGED <<shape, meta, filled, owner, node>> /\ step' = 1
  BY DEF Inspect
<1>2. CASE Outdated
  <2>1. meta.schema_version # SCHEMA_VERSION
    BY <1>2, DerivedNames DEF Outdated, IInv, StampVouches, Complete, V3Tables
  <2>2. pc' = "drop"
    BY <1>2 DEF Inspect
  <2>3. DropProgress'
    BY <1>1, <2>1, <2>2, Orders DEF DropProgress
  <2> QED BY <1>0, <1>1, <2>2, <2>3, FileKept DEF IInv, CreateProgress, StampProgress
<1>3. CASE ~Outdated
  <2>1. meta.schema_version # SCHEMA_VERSION => DOMAIN shape = {} /\ meta = NoMeta /\ filled = {}
    BY <1>3 DEF Outdated, IInv, TypeOK, MetaIsLastAndFirst, V1Tables
  <2>2. pc' = "create"
    BY <1>3 DEF Inspect
  <2>3. DOMAIN shape = {} => shape = [t \in {CreateOrder[i] : i \in 1..(1 - 1)} |-> SCHEMA_VERSION]
    BY DEF IInv, TypeOK
  <2>4. CreateProgress'
    BY <1>1, <2>1, <2>2, <2>3, Orders DEF CreateProgress
  <2> QED BY <1>0, <1>1, <2>2, <2>4, FileKept DEF IInv, DropProgress, StampProgress
<1> QED BY <1>2, <1>3

(* One DROP: the version row goes before the v1 tables and after all others.   *)
LEMMA DropStep == IInv /\ DropTable => IInv'
<1> SUFFICES ASSUME IInv, DropTable PROVE IInv'
  OBVIOUS
<1> USE MigrationAssumption
<1> DEFINE t == DropOrder[step]
<1>1. /\ pc = "drop" /\ step \in 1..9
      /\ meta.schema_version # SCHEMA_VERSION
      /\ \A i \in 1..(step - 1) : DropOrder[i] \notin DOMAIN shape
  BY Orders DEF DropTable, IInv, DropProgress
<1>2. /\ DOMAIN shape' = DOMAIN shape \ {t}
      /\ shape' = [x \in DOMAIN shape \ {t} |-> shape[x]]
      /\ filled' = filled \ {t}
      /\ meta' = IF t = "meta" THEN NoMeta ELSE meta
      /\ node' = node
  BY DEF DropTable
<1>3. meta'.schema_version # SCHEMA_VERSION
  BY <1>1, <1>2 DEF NoMeta, SCHEMA_VERSION
<1>4. \A i \in 1..step : DropOrder[i] \notin DOMAIN shape'
  BY <1>1, <1>2
<1>5. MetaIsLastAndFirst'
  <2>1. CASE "meta" \in DOMAIN shape
    <3>1. step \in 7..9 => DOMAIN shape' \subseteq {"meta"} \cup V1Tables
      BY <1>1, <1>4, Orders, DerivedNames, <1>2 DEF IInv, TypeOK, Tables, V3Tables, V1Tables
    <3>2. "meta" \notin DOMAIN shape' => t = "meta"
      BY <1>2, <2>1
    <3>3. t = "meta" => step = 7
      BY <1>1, Orders
    <3> HIDE DEF t
    <3> QED BY <1>2, <3>1, <3>2, <3>3 DEF MetaIsLastAndFirst
  <2>2. CASE "meta" \notin DOMAIN shape
    BY <1>2, <2>2 DEF IInv, MetaIsLastAndFirst
  <2> QED BY <2>1, <2>2
<1>6. /\ DOMAIN shape' \subseteq Tables
      /\ shape' = [x \in DOMAIN shape' |-> shape'[x]]
      /\ filled' \subseteq DerivedTables \cap DOMAIN shape'
      /\ node' \in Chains
  BY <1>1, <1>2 DEF IInv, TypeOK
<1>7. meta' \in [schema_version : 1..SCHEMA_VERSION \cup {NONE},
                 chain_id : Chains \cup {NONE}, last_indexed : BOOLEAN]
  BY <1>2 DEF IInv, TypeOK, NoMeta
<1> HIDE DEF t
<1>8. CASE step < 9
  <2>1. step' = step + 1 /\ pc' = "drop"
    BY <1>1, <1>8, Orders DEF DropTable
  <2>2. DropProgress'
    BY <1>1, <1>3, <1>4, <1>8, <2>1, Orders DEF DropProgress
  <2> QED BY <1>1, <1>3, <1>5, <1>6, <1>7, <2>1, <2>2
          DEF IInv, TypeOK, StampVouches, CreateProgress, StampProgress
<1>9. CASE step = 9
  <2>1. step' = 1 /\ pc' = "create"
    BY <1>1, <1>9, Orders DEF DropTable
  <2>2. ASSUME NEW x \in DOMAIN shape' PROVE FALSE
    <3>1. PICK i \in 1..9 : DropOrder[i] = x
      BY <1>6, DropNamesAll
    <3> QED BY <1>4, <1>9, <3>1
  <2>3. meta' = NoMeta /\ filled' = {}
    BY <1>5, <1>6, <2>2 DEF MetaIsLastAndFirst
  <2>4. CreateProgress'
    BY <1>6, <2>1, <2>2, <2>3, Orders DEF CreateProgress
  <2> QED BY <1>1, <1>3, <1>5, <1>6, <1>7, <2>1, <2>4
          DEF IInv, TypeOK, StampVouches, DropProgress, StampProgress
<1> QED BY <1>1, <1>8, <1>9

(* One CREATE IF NOT EXISTS: a no-op on a complete file, and on an emptied one *)
(* the next table in the order of the batch.                                   *)
LEMMA CreateStep == IInv /\ CreateTable => IInv'
<1> SUFFICES ASSUME IInv, CreateTable PROVE IInv'
  OBVIOUS
<1> USE MigrationAssumption
<1> DEFINE t == CreateOrder[step]
           made(k) == [x \in {CreateOrder[i] : i \in 1..k} |-> SCHEMA_VERSION]
<1>1. /\ pc = "create" /\ step \in 1..7
      /\ \/ meta.schema_version = SCHEMA_VERSION
         \/ shape = made(step - 1) /\ meta = NoMeta /\ filled = {}
  BY Orders DEF CreateTable, IInv, CreateProgress
<1>2. /\ shape' = [x \in DOMAIN shape \cup {t} |->
                     IF x \in DOMAIN shape THEN shape[x] ELSE SCHEMA_VERSION]
      /\ UNCHANGED <<meta, filled, owner, node>>
  BY DEF CreateTable
<1>3. t \in V3Tables
  BY <1>1, CreateNamesAll
<1>4. /\ step < 7 => step' = step + 1 /\ pc' = "create"
      /\ step = 7 => step' = 0 /\ pc' = "stamp"
  BY <1>1, Orders DEF CreateTable
<1>5. node \in Chains
  BY <1>1 DEF IInv, TypeOK
<1>6. CASE meta.schema_version = SCHEMA_VERSION
  <2>1. shape' = shape
    <3>1. Complete
      BY <1>6 DEF IInv, StampVouches
    <3> QED BY <1>2, <1>3, <3>1 DEF Complete
  <2>2. StampVouches' /\ MetaIsLastAndFirst' /\ TypeOK'
    BY <1>1, <1>2, <1>4, <1>5, <2>1, FileKept
  <2>3. CreateProgress' /\ DropProgress' /\ StampProgress'
    BY <1>1, <1>2, <1>4, <1>6, Orders DEF CreateProgress, DropProgress, StampProgress
  <2> QED BY <2>2, <2>3 DEF IInv
<1>7. CASE shape = made(step - 1) /\ meta = NoMeta /\ filled = {}
  <2>1. shape' = made(step)
    <3>1. DOMAIN shape = {CreateOrder[i] : i \in 1..(step - 1)}
      BY <1>7
    <3>2. DOMAIN shape \cup {t} = {CreateOrder[i] : i \in 1..step}
      <4>1. 1..step = 1..(step - 1) \cup {step}
        BY <1>1
      <4> QED BY <3>1, <4>1
    <3>3. \A x \in DOMAIN shape : shape[x] = SCHEMA_VERSION
      BY <1>7
    <3> QED BY <1>2, <3>2, <3>3
  <2>2. meta' = NoMeta /\ filled' = {} /\ meta'.schema_version # SCHEMA_VERSION
    BY <1>2, <1>7 DEF NoMeta, SCHEMA_VERSION
  <2>3. DOMAIN shape' \subseteq Tables /\ "meta" \in DOMAIN shape'
    <3>1. DOMAIN shape' = {CreateOrder[i] : i \in 1..step}
      BY <2>1
    <3>2. {CreateOrder[i] : i \in 1..step} \subseteq V3Tables
      BY <1>1, CreateNamesAll
    <3>3. CreateOrder[1] = "meta" /\ 1 \in 1..step
      BY <1>1, Orders
    <3> QED BY <3>1, <3>2, <3>3 DEF Tables
  <2>4. TypeOK'
    BY <1>1, <1>2, <1>4, <1>5, <2>2, <2>3 DEF TypeOK, IInv
  <2>5. StampVouches' /\ MetaIsLastAndFirst' /\ DropProgress'
    BY <1>1, <1>4, <2>2, <2>3 DEF StampVouches, MetaIsLastAndFirst, DropProgress
  <2>6. CASE step < 7
    <3>1. CreateProgress'
      BY <1>1, <1>4, <2>1, <2>2, <2>6, Orders DEF CreateProgress
    <3> QED BY <1>4, <2>4, <2>5, <2>6, <3>1 DEF IInv, StampProgress
  <2>7. CASE step = 7
    <3>1. Complete'
      BY <2>1, <2>7, CreateNamesAll DEF Complete
    <3> QED BY <1>4, <2>2, <2>4, <2>5, <2>7, <3>1 DEF IInv, StampProgress, CreateProgress
  <2> QED BY <1>1, <2>6, <2>7
<1> QED BY <1>1, <1>6, <1>7

(* The stamp is the last statement of the schema; a stamped file keeps it.     *)
LEMMA StampStep == IInv /\ StampVersion => IInv'
<1> SUFFICES ASSUME IInv, StampVersion PROVE IInv'
  OBVIOUS
<1> USE MigrationAssumption
<1>1. /\ pc = "stamp" /\ pc' = "chain_id"
      /\ UNCHANGED <<shape, filled, owner, node, step>>
      /\ node \in Chains /\ step \in Nat
  BY DEF StampVersion, IInv, TypeOK
<1>2. CASE meta.schema_version = SCHEMA_VERSION
  <2>1. meta' = meta
    BY <1>2 DEF StampVersion, SCHEMA_VERSION
  <2> QED BY <1>1, <1>2, <2>1, FileKept
          DEF IInv, DropProgress, CreateProgress, StampProgress
<1>3. CASE Complete /\ meta = NoMeta /\ filled = {}
  <2>1. meta' = [schema_version |-> SCHEMA_VERSION, chain_id |-> NONE, last_indexed |-> FALSE]
    BY <1>3 DEF StampVersion, NoMeta
  <2>2. TypeOK'
    BY <1>1, <1>3, <2>1 DEF IInv, TypeOK, SCHEMA_VERSION
  <2>3. StampVouches' /\ MetaIsLastAndFirst'
    BY <1>1, <1>3, <2>1 DEF StampVouches, MetaIsLastAndFirst, Complete, V3Tables
  <2> QED BY <1>1, <2>1, <2>2, <2>3 DEF IInv, DropProgress, CreateProgress, StampProgress
<1> QED BY <1>1, <1>2, <1>3 DEF IInv, StampProgress

(* A chain id is only written where there are no rows yet.                     *)
LEMMA ChainIdStep == IInv /\ CheckChainId => IInv'
<1> SUFFICES ASSUME IInv, CheckChainId PROVE IInv'
  OBVIOUS
<1> USE MigrationAssumption
<1>1. /\ pc = "chain_id" /\ pc' = IF meta.chain_id \in {NONE, node} THEN "open" ELSE "bailed"
      /\ UNCHANGED <<shape, filled, owner, node, step>>
      /\ meta.schema_version = SCHEMA_VERSION
      /\ node \in Chains /\ step \in Nat
  BY DEF CheckChainId, IInv, TypeOK, StampProgress
<1>2. CASE meta.chain_id # NONE
  <2>1. meta' = meta
    BY <1>2 DEF CheckChainId
  <2> QED BY <1>1, <1>2, <2>1, FileKept
          DEF IInv, DropProgress, CreateProgress, StampProgress
<1>3. CASE meta.chain_id = NONE
  <2>1. meta' = [meta EXCEPT !.chain_id = node] /\ pc' = "open"
    BY <1>1, <1>3 DEF CheckChainId
  <2>2. /\ meta'.schema_version = SCHEMA_VERSION /\ meta'.chain_id = node
        /\ meta'.last_indexed = meta.last_indexed
    BY <1>1, <2>1 DEF IInv, TypeOK
  <2>3. Complete /\ filled = {} /\ filled = IF meta.last_indexed THEN DerivedTables ELSE {}
    BY <1>1, <1>3 DEF IInv, StampVouches
  <2>4. TypeOK'
    BY <1>1, <2>1 DEF IInv, TypeOK
  <2>5. StampVouches' /\ MetaIsLastAndFirst'
    BY <1>1, <2>2, <2>3 DEF StampVouches, MetaIsLastAndFirst, Complete, V3Tables
  <2> QED BY <1>1, <2>1, <2>2, <2>4, <2>5 DEF IInv, DropProgress, CreateProgress, StampProgress
<1> QED BY <1>2, <1>3

(* Rows and cursor appear together, in a file stamped with the node's chain.   *)
LEMMA IndexStep == IInv /\ IndexBlock => IInv'
<1> SUFFICES ASSUME IInv, IndexBlock PROVE IInv'
  OBVIOUS
<1>1. /\ pc = "open" /\ meta.schema_version = SCHEMA_VERSION
      /\ meta.chain_id = node /\ node \in Chains /\ Complete
      /\ UNCHANGED <<shape, node, pc, step>> /\ filled' = DerivedTables /\ owner' = node
  BY DEF IndexBlock, IInv, StampProgress, StampVouches, TypeOK
<1>2. /\ meta' = [meta EXCEPT !.last_indexed = TRUE]
      /\ meta'.schema_version = SCHEMA_VERSION /\ meta'.chain_id = node /\ meta'.last_indexed
  BY <1>1 DEF IndexBlock, IInv, TypeOK
<1>3. TypeOK'
  <2>1. DerivedTables \subseteq DOMAIN shape
    BY <1>1 DEF Complete, V3Tables
  <2> QED BY <1>1, <1>2, <2>1 DEF IInv, TypeOK
<1>4. StampVouches' /\ MetaIsLastAndFirst'
  BY <1>1, <1>2 DEF StampVouches, MetaIsLastAndFirst, Complete, V3Tables
<1> QED BY <1>1, <1>2, <1>3, <1>4 DEF IInv, DropProgress, CreateProgress, StampProgress

LEMMA NextIInv == IInv /\ [Next]_vars => IInv'
<1> SUFFICES ASSUME IInv, [Next]_vars PROVE IInv'
  OBVIOUS
<1>1. CASE UNCHANGED vars
  BY <1>1 DEF vars, IInv, TypeOK, StampVouches, Complete, MetaIsLastAndFirst, DropProgress,
              CreateProgress, StampProgress
<1> QED BY <1>1, OpenStep, InspectStep, DropStep, CreateStep, StampStep, ChainIdStep, IndexStep
        DEF Next, MigrateStep

(* Until the chain id is stored, the file names the network it named when the  *)
(* open began, or none.                                                        *)
NameKept ==
    pc \in {"inspect", "drop", "create", "stamp", "chain_id", "bailed"} =>
      meta.chain_id \in {NONE, declared}

LEMMA NameStep == NameKept /\ [Next]_vars => NameKept'
<1> SUFFICES ASSUME NameKept, [Next]_vars PROVE NameKept'
  OBVIOUS
<1>1. CASE Open \/ Restart \/ StatementFails \/ IndexBlock \/ UNCHANGED vars
  BY <1>1 DEF Open, Restart, StatementFails, IndexBlock, vars, NameKept
<1>2. CASE Inspect \/ CreateTable \/ DropTable
  BY <1>2 DEF Inspect, CreateTable, DropTable, NameKept, NoMeta
<1>3. CASE StampVersion
  <2>1. meta'.chain_id = meta.chain_id
    BY <1>3 DEF StampVersion
  <2> QED BY <1>3, <2>1 DEF StampVersion, NameKept
<1>4. CASE CheckChainId
  BY <1>4 DEF CheckChainId, NameKept
<1> QED BY <1>1, <1>2, <1>3, <1>4 DEF Next, MigrateStep

LEMMA NameAlwaysKept == Spec => []NameKept
<1>1. Init => NameKept
  BY DEF Init, NameKept
<1> QED BY <1>1, NameStep, PTL DEF Spec

THEOREM Invariance == Spec => []IInv
BY InitIInv, NextIInv, PTL DEF Spec

-----------------------------------------------------------------------------
(* However often and wherever the migration was killed, the file Writer::open  *)
(* returns has the current tables, made by the current DDL, and version 3.     *)
THEOREM OpenIsCurrent == Spec => []OpenMeansCurrentSchema
<1>1. IInv => OpenMeansCurrentSchema
  <2> SUFFICES ASSUME IInv, pc = "open" PROVE OpenMeansCurrentSchema
    BY DEF OpenMeansCurrentSchema
  <2>1. Complete /\ meta.schema_version = SCHEMA_VERSION
    BY DEF IInv, StampProgress, StampVouches
  <2> QED BY <2>1 DEF OpenMeansCurrentSchema, Complete, V3Tables
<1> QED BY <1>1, Invariance, PTL

(* The open file has a cursor and all the rows below it, or neither: an        *)
(* interrupted drop never leaves a cursor without its rows, or rows that the   *)
(* replay from block 0 would count a second time.                              *)
THEOREM OpenCursorMatches == Spec => []CursorMatchesRows
<1>1. IInv => CursorMatchesRows
  BY DEF IInv, StampProgress, StampVouches, CursorMatchesRows
<1> QED BY <1>1, Invariance, PTL

(* The chain id guard: an open file is served only to the network its rows     *)
(* were indexed from, whichever nodes opened it before.                        *)
THEOREM OpenServesOwnChain == Spec => []OpenRowsAreOurs
<1>1. IInv => OpenRowsAreOurs
  BY DEF IInv, StampProgress, StampVouches, OpenRowsAreOurs
<1> QED BY <1>1, Invariance, PTL

(* The chain id guard refuses only a file that named another network before    *)
(* the open, and leaves it whole for that network: "belongs to chain" is never *)
(* the end of a migration that dropped something.                              *)
THEOREM RefusalsAreHarmless == Spec => []RefusalHarmless
<1>1. IInv /\ NameKept => RefusalHarmless
  <2> SUFFICES ASSUME IInv, NameKept, pc = "bailed" PROVE RefusalHarmless
    BY DEF RefusalHarmless
  <2>1. /\ meta.schema_version = SCHEMA_VERSION /\ meta.chain_id \notin {NONE, node}
        /\ meta.chain_id = declared
    BY DEF IInv, StampProgress, NameKept
  <2>2. Complete /\ filled = (IF meta.last_indexed THEN DerivedTables ELSE {})
        /\ (filled # {} => owner = meta.chain_id)
    BY <2>1 DEF IInv, StampVouches
  <2> QED BY <2>1, <2>2 DEF RefusalHarmless, Complete
<1> QED BY <1>1, Invariance, NameAlwaysKept, PTL
=============================================================================
