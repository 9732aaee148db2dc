---------------------------- MODULE StorageProofs ----------------------------
(* One block transaction keeps every table exact, for every chain: the facts   *)
(* about extraction and storage that the proofs about the loop rest on.        *)
EXTENDS ExactIndex, FiniteSetTheorems, TLAPS

(* extract_block numbers its rows with the block's own height.                 *)
LEMMA ExtractedNumber ==
    ASSUME NEW n \in Heights
    PROVE  extract_block(Chain[n]).number = n
BY ChainAssumption DEF extract_block, Heights

(* The address rows of extract_block are the participation pointers of the     *)
(* block: sender, recipient, created contract.                                 *)
LEMMA AddressRowsExact ==
    ASSUME NEW n \in Heights
    PROVE  AddressRows(Chain[n]) = ChainAddressTxs(n)
<1> DEFINE tx(i) == Chain[n].txs[i]
           rows(i) == {AddressRow(tx(i).sender, n, i - 1, tx(i).ty),
                       AddressRow(IF tx(i).to # NONE THEN tx(i).to
                                                     ELSE create(tx(i).sender, tx(i).nonce),
                                  n, i - 1, tx(i).ty)}
           ref(i) == {[address |-> a, block_number |-> n, tx_index |-> i - 1,
                       tx_type |-> tx(i).ty] : a \in Participants(tx(i))}
<1>1. Chain[n].header.number = n
  BY ChainAssumption DEF Heights
<1>2. \A i \in DOMAIN Chain[n].txs : rows(i) = ref(i)
  BY DEF AddressRow, Participants
<1>3. AddressRows(Chain[n]) = UNION {rows(i) : i \in DOMAIN Chain[n].txs}
  BY <1>1 DEF AddressRows
<1>4. ChainAddressTxs(n) = UNION {ref(i) : i \in DOMAIN Chain[n].txs}
  BY DEF ChainAddressTxs
<1> HIDE DEF rows, ref
<1>5. QED
  BY <1>2, <1>3, <1>4

(* One tx_types row per transaction.                                           *)
LEMMA TxTypeRowsExact ==
    ASSUME NEW n \in Heights
    PROVE  TxTypeRows(Chain[n]) = ChainTxTypes(n)
BY ChainAssumption DEF Heights, TxTypeRows, TxTypeRow, ChainTxTypes

(* decode_transfer_log keeps exactly the conforming logs.                      *)
LEMMA TransferRowsExact ==
    ASSUME NEW n \in Heights
    PROVE  TransferRows(Chain[n]) = ChainTransfers(n)
<1> DEFINE logs(i) == Chain[n].receipts[i]
           rows(i) == UNION {decode_transfer_log(logs(i)[j], n, i - 1, j - 1) : j \in DOMAIN logs(i)}
           ref(i) == {[block_number |-> n, tx_index |-> i - 1, log_index |-> j - 1,
                       token |-> logs(i)[j].address, from |-> logs(i)[j].topics[2],
                       to |-> logs(i)[j].topics[3], value |-> logs(i)[j].value]
                      : j \in {k \in DOMAIN logs(i) : IsTransfer(logs(i)[k])}}
           D == DOMAIN Chain[n].txs \cap DOMAIN Chain[n].receipts
<1>1. Chain[n].header.number = n
  BY ChainAssumption DEF Heights
<1>2. ASSUME NEW i \in D PROVE rows(i) = ref(i)
  <2> DEFINE Row(j) == [block_number |-> n, tx_index |-> i - 1, log_index |-> j - 1,
                        token |-> logs(i)[j].address, from |-> logs(i)[j].topics[2],
                        to |-> logs(i)[j].topics[3], value |-> logs(i)[j].value]
             Decoded(j) == decode_transfer_log(logs(i)[j], n, i - 1, j - 1)
             Ours(j) == IsTransfer(logs(i)[j])
  <2>1. \A j \in DOMAIN logs(i) : Decoded(j) = IF Ours(j) THEN {Row(j)} ELSE {}
    BY DEF decode_transfer_log, IsTransfer
  <2>2. rows(i) = UNION {Decoded(j) : j \in DOMAIN logs(i)}
    OBVIOUS
  <2>3. ref(i) = {Row(j) : j \in {k \in DOMAIN logs(i) : Ours(k)}}
    OBVIOUS
  <2> HIDE DEF Row, Decoded, Ours, rows, ref, logs
  <2> QED BY <2>1, <2>2, <2>3
<1>3. TransferRows(Chain[n]) = UNION {rows(i) : i \in D}
  BY <1>1 DEF TransferRows
<1>4. ChainTransfers(n) = UNION {ref(i) : i \in D}
  BY DEF ChainTransfers
<1> HIDE DEF rows, ref, D
<1>5. QED
  BY <1>2, <1>3, <1>4

(* The consensus row of extract_block: none for a block that names no output,  *)
(* else one row with the output's digest and the block's height.               *)
ConsensusRowOf(n) ==
    [digest |-> Chain[n].header.parent_beacon_block_root,
     epoch |-> Chain[n].header.nonce \div ROUND_SPAN,
     round |-> Chain[n].header.nonce % ROUND_SPAN,
     block_number |-> n]

LEMMA ConsensusRowExact ==
    ASSUME NEW n \in Heights
    PROVE  extract_block(Chain[n]).consensus =
             IF NamesOutput(n, Chain[n].header.parent_beacon_block_root)
             THEN {ConsensusRowOf(n)} ELSE {}
<1> DEFINE header == Chain[n].header
           fields == [digest       |-> header.parent_beacon_block_root,
                      epoch        |-> header.nonce \div ROUND_SPAN,
                      round        |-> header.nonce % ROUND_SPAN,
                      batch_index  |-> header.difficulty \div WORKER_SPAN,
                      worker_id    |-> header.difficulty % WORKER_SPAN,
                      closes_epoch |-> header.extra # NONE]
<1>1. header.number = n /\ header.difficulty \in Nat /\ n \in Nat
  BY ChainAssumption DEF Heights
<1>2. U64_MAX \in Nat
  BY WidthAssumption
<1>3. CASE ~NamesOutput(n, header.parent_beacon_block_root)
  <2>1. decode_consensus_fields(header) = {}
    BY <1>1, <1>2, <1>3 DEF NamesOutput, decode_consensus_fields
  <2>2. QED
    BY <2>1, <1>3 DEF extract_block, ConsensusRows
<1>4. CASE NamesOutput(n, header.parent_beacon_block_root)
  <2>1. ~(header.number = 0 \/ header.parent_beacon_block_root = NONE \/ header.difficulty > U64_MAX)
    BY <1>1, <1>2, <1>4 DEF NamesOutput
  <2>2. decode_consensus_fields(header) = {fields}
    BY <2>1, Zenon DEF decode_consensus_fields
  <2>3. fields.digest = ConsensusRowOf(n).digest /\ fields.epoch = ConsensusRowOf(n).epoch
        /\ fields.round = ConsensusRowOf(n).round
    BY DEF ConsensusRowOf
  <2> HIDE DEF fields
  <2>4. ConsensusRows(Chain[n])
          = {[digest |-> fields.digest, epoch |-> fields.epoch, round |-> fields.round,
              block_number |-> n]}
    BY <2>2, <1>1 DEF ConsensusRows
  <2>5. ConsensusRows(Chain[n]) = {ConsensusRowOf(n)}
    BY <2>3, <2>4 DEF ConsensusRowOf
  <2>6. QED
    BY <2>5, <1>4 DEF extract_block
<1>5. QED
  BY <1>3, <1>4

(* Indexing block n extends the union of the blocks below it by its own rows.  *)
LEMMA PrefixStep ==
    ASSUME NEW n \in Nat
    PROVE  0..n = (0..(n - 1)) \cup {n}
OBVIOUS

(* Only block n can have rows with block_number n: the primary keys of a new   *)
(* block never collide with stored ones, so nothing is ignored.                *)
LEMMA NewRowsAllInserted ==
    ASSUME NEW n \in Heights, NEW d, PrefixExact(d), d.last_indexed = n - 1
    PROVE  /\ InsertAddressTxs(d.address_txs, ChainAddressTxs(n))
                = d.address_txs \cup ChainAddressTxs(n)
           /\ InsertTransfers(d.token_transfers, ChainTransfers(n))
                = d.token_transfers \cup ChainTransfers(n)
<1>1. \A m : \A r \in ChainAddressTxs(m) : r.block_number = m
  BY DEF ChainAddressTxs
<1>2. \A m : \A r \in ChainTransfers(m) : r.block_number = m
  BY DEF ChainTransfers
<1>3. n \in Nat
  BY ChainAssumption DEF Heights
<1>4. \A r \in d.address_txs : r.block_number # n
  BY <1>1, <1>3 DEF PrefixExact
<1>5. \A r \in d.token_transfers : r.block_number # n
  BY <1>2, <1>3 DEF PrefixExact
<1>6. InsertAddressTxs(d.address_txs, ChainAddressTxs(n))
        = d.address_txs \cup ChainAddressTxs(n)
  BY <1>1, <1>4 DEF InsertAddressTxs
<1>7. InsertTransfers(d.token_transfers, ChainTransfers(n))
        = d.token_transfers \cup ChainTransfers(n)
  BY <1>2, <1>5 DEF InsertTransfers
<1>8. QED
  BY <1>6, <1>7

(* A block has finitely many transactions, hence type rows.                    *)
LEMMA TxTypesFinite ==
    ASSUME NEW n \in Heights
    PROVE  IsFiniteSet(ChainTxTypes(n))
<1> DEFINE S == DOMAIN Chain[n].txs
           f == [i \in S |-> [tx_type |-> Chain[n].txs[i].ty, block_number |-> n,
                              tx_index |-> i - 1]]
<1>1. IsFiniteSet(S)
  BY ChainAssumption DEF Heights
<1>2. f \in Surjection(S, ChainTxTypes(n))
  BY DEF Surjection, ChainTxTypes
<1> HIDE DEF f, S
<1>3. QED
  BY <1>1, <1>2, FS_Surjection

-----------------------------------------------------------------------------
(* The counter of a type is the size of its rows even where it has no row.     *)
LEMMA CountOfAnyType ==
    ASSUME NEW d, CountsExactIn(d), NEW ty
    PROVE  count_tx_type(d, ty) = Cardinality({r \in d.tx_types : r.tx_type = ty})
<1>1. CASE ty \in DOMAIN d.tx_type_counts \cup {r.tx_type : r \in d.tx_types}
  BY <1>1 DEF CountsExactIn
<1>2. CASE ty \notin DOMAIN d.tx_type_counts \cup {r.tx_type : r \in d.tx_types}
  <2>1. {r \in d.tx_types : r.tx_type = ty} = {}
    BY <1>2
  <2>2. count_tx_type(d, ty) = 0
    BY <1>2 DEF count_tx_type
  <2>3. QED
    BY <2>1, <2>2, FS_EmptySet
<1>3. QED
  BY <1>1, <1>2

(* Adding the number of rows really inserted keeps every counter equal to the  *)
(* number of stored rows (apply_block's tx_type_counts upsert).                *)
LEMMA CountsStep ==
    ASSUME NEW d, NEW rows, NEW e,
           IsFiniteSet(d.tx_types), IsFiniteSet(rows), CountsExactIn(d),
           e.tx_types = d.tx_types \cup rows,
           e.tx_type_counts = AddTypeCounts(d, rows)
    PROVE  CountsExactIn(e)
<1> DEFINE old(ty) == {r \in d.tx_types : r.tx_type = ty}
           new(ty) == {r \in rows \ d.tx_types : r.tx_type = ty}
           all(ty) == {r \in e.tx_types : r.tx_type = ty}
<1> SUFFICES ASSUME NEW ty \in DOMAIN e.tx_type_counts \cup {r.tx_type : r \in e.tx_types}
             PROVE  count_tx_type(e, ty) = Cardinality(all(ty))
  BY DEF CountsExactIn
<1>1. all(ty) = old(ty) \cup new(ty) /\ old(ty) \cap new(ty) = {}
  OBVIOUS
<1>2. IsFiniteSet(old(ty)) /\ IsFiniteSet(new(ty))
  <2>1. old(ty) \subseteq d.tx_types /\ new(ty) \subseteq rows
    OBVIOUS
  <2> HIDE DEF old, new
  <2>2. QED
    BY <2>1, FS_Subset
<1>3. Cardinality(all(ty)) = Cardinality(old(ty)) + Cardinality(new(ty))
  <2> HIDE DEF old, new, all
  <2>1. Cardinality(old(ty) \cup new(ty))
          = Cardinality(old(ty)) + Cardinality(new(ty)) - Cardinality(old(ty) \cap new(ty))
    BY <1>2, FS_Union
  <2>2. Cardinality(old(ty) \cap new(ty)) = 0
    BY <1>1, FS_EmptySet
  <2>3. Cardinality(old(ty)) \in Nat /\ Cardinality(new(ty)) \in Nat
    BY <1>2, FS_CardinalityType
  <2>4. QED
    BY <1>1, <2>1, <2>2, <2>3
<1>4. count_tx_type(d, ty) = Cardinality(old(ty))
  BY CountOfAnyType
<1>5. DOMAIN e.tx_type_counts = DOMAIN d.tx_type_counts \cup {r.tx_type : r \in rows}
  BY DEF AddTypeCounts
<1>6. CASE ty \in DOMAIN e.tx_type_counts
  <2>1. count_tx_type(e, ty) = count_tx_type(d, ty) + Cardinality(new(ty))
    BY <1>5, <1>6 DEF AddTypeCounts, count_tx_type
  <2>2. QED
    BY <2>1, <1>3, <1>4
<1>7. CASE ty \notin DOMAIN e.tx_type_counts
  <2>1. new(ty) = {}
    BY <1>5, <1>7
  <2>2. count_tx_type(e, ty) = 0 /\ count_tx_type(d, ty) = 0
    BY <1>5, <1>7 DEF count_tx_type
  <2>3. all(ty) = old(ty)
    BY <1>1, <2>1
  <2>4. QED
    BY <2>2, <2>3, <1>4
<1>8. QED
  BY <1>6, <1>7

-----------------------------------------------------------------------------
(* The indexed blocks of an output after block n: those before, and n if it    *)
(* names the output.                                                           *)
LEMMA OutputBlocksStep ==
    ASSUME NEW n \in Nat, NEW g
    PROVE  OutputBlocks(g, n) = IF NamesOutput(n, g) THEN OutputBlocks(g, n - 1) \cup {n}
                                                     ELSE OutputBlocks(g, n - 1)
<1>1. CASE NamesOutput(n, g)
  BY <1>1, PrefixStep DEF OutputBlocks
<1>2. CASE ~NamesOutput(n, g)
  BY <1>2, PrefixStep DEF OutputBlocks
<1>3. QED
  BY <1>1, <1>2

(* Between two blocks of an output every block is of that output.              *)
LEMMA BetweenOutputs ==
    ASSUME NEW a \in Heights, NEW b \in Heights, NEW c \in Heights, NEW g,
           a < b, b < c, NamesOutput(a, g), NamesOutput(c, g)
    PROVE  NamesOutput(b, g)
<1>1. g = Chain[a].header.parent_beacon_block_root
  BY DEF NamesOutput
<1>2. QED
  BY <1>1, ContiguousOutputs

(* Widening by min/max keeps each range equal to the output's indexed blocks   *)
(* (apply_block's consensus upsert). The contiguity of outputs is what makes a *)
(* range say it all: a stored output the new block continues ended at n - 1.   *)
RangeBounds(table) ==
    \A g \in DOMAIN table : table[g].first_block \in Heights /\ table[g].last_block \in Heights

LEMMA RangesStep ==
    ASSUME NEW n \in Heights, NEW d, NEW e,
           RangesExactIn(d), RangeBounds(d.consensus_blocks),
           d.last_indexed = n - 1, e.last_indexed = n,
           e.consensus_blocks = UpsertConsensus(d.consensus_blocks,
                                                extract_block(Chain[n]).consensus)
    PROVE  RangesExactIn(e) /\ RangeBounds(e.consensus_blocks)
<1> DEFINE root(m) == Chain[m].header.parent_beacon_block_root
           g == root(n)
           old == d.consensus_blocks
           new == e.consensus_blocks
<1>1. n \in Nat /\ MaxHeight \in Nat /\ n <= MaxHeight
  BY ChainAssumption DEF Heights
<1>2. \A m, x : NamesOutput(m, x) => x = root(m)
  BY DEF NamesOutput
<1>3. \A x \in DOMAIN old : /\ OutputBlocks(x, n - 1) # {}
                           /\ OutputBlocks(x, n - 1) = old[x].first_block .. old[x].last_block
                           /\ old[x].first_block \in Heights
                           /\ old[x].last_block \in Heights
  BY DEF RangesExactIn, RangeBounds
<1>4. \A m \in 0..(n - 1) : NamesOutput(m, root(m)) => root(m) \in DOMAIN old
  BY DEF RangesExactIn
<1>5. \A x : x # g => OutputBlocks(x, n) = OutputBlocks(x, n - 1)
  BY <1>1, <1>2, OutputBlocksStep
<1>6. SUFFICES /\ NamesOutput(n, g) => g \in DOMAIN new
               /\ DOMAIN old \subseteq DOMAIN new
               /\ \A x \in DOMAIN new : /\ OutputBlocks(x, n) # {}
                                       /\ OutputBlocks(x, n) = new[x].first_block .. new[x].last_block
                                       /\ new[x].first_block \in Heights
                                       /\ new[x].last_block \in Heights
  BY <1>1, <1>4, PrefixStep DEF RangesExactIn, RangeBounds
<1>7. CASE ~NamesOutput(n, g)
  <2>1. new = old
    BY <1>7, ConsensusRowExact DEF UpsertConsensus
  <2>2. OutputBlocks(g, n) = OutputBlocks(g, n - 1)
    BY <1>1, <1>7, OutputBlocksStep
  <2>3. QED
    BY <2>1, <2>2, <1>3, <1>5, <1>7
<1>8. CASE NamesOutput(n, g)
  <2> DEFINE row == ConsensusRowOf(n)
  <2>1. row.digest = g /\ row.block_number = n
    BY DEF ConsensusRowOf
  <2>2. new = WidenRange(old, row)
    <3>1. extract_block(Chain[n]).consensus = {row}
      BY <1>8, ConsensusRowExact
    <3> HIDE DEF row
    <3>2. QED
      BY <3>1 DEF UpsertConsensus
  <2> HIDE DEF row
  <2>3. DOMAIN new = DOMAIN old \cup {g}
    BY <2>1, <2>2 DEF WidenRange
  <2>4. \A x \in DOMAIN old : x # g => new[x] = old[x]
    BY <2>1, <2>2 DEF WidenRange
  <2>5. OutputBlocks(g, n) = OutputBlocks(g, n - 1) \cup {n}
    BY <1>1, <1>8, OutputBlocksStep
  <2>6. /\ OutputBlocks(g, n) = new[g].first_block .. new[g].last_block
        /\ new[g].first_block \in Heights /\ new[g].last_block \in Heights
    <3>1. CASE g \notin DOMAIN old
      <4>1. OutputBlocks(g, n - 1) = {}
        BY <1>2, <1>4, <3>1 DEF OutputBlocks
      <4>2. new[g].first_block = n /\ new[g].last_block = n
        BY <2>1, <2>2, <3>1 DEF WidenRange
      <4>3. n..n = {n}
        BY <1>1
      <4>4. QED
        BY <4>1, <4>2, <4>3, <2>5
    <3>2. CASE g \in DOMAIN old
      <4> DEFINE f == old[g].first_block
                 l == old[g].last_block
      <4>1. f \in Nat /\ l \in Nat /\ l \in Heights /\ f <= l /\ OutputBlocks(g, n - 1) = f..l
        BY <1>1, <1>3, <3>2 DEF Heights
      <4>2. l \in 0..(n - 1) /\ NamesOutput(l, g)
        BY <4>1 DEF OutputBlocks
      <4>3. l = n - 1
        <5>1. SUFFICES ASSUME l < n - 1 PROVE FALSE
          <6> HIDE DEF f, l, g, old, new, root
          <6> QED BY <4>2, <1>1
        <5>2. n - 1 \in Heights
          BY <5>1, <1>1, <4>1 DEF Heights
        <5>3. n - 1 < n
          BY <1>1
        <5> HIDE DEF f, l, g, old, new, root
        <5>4. NamesOutput(n - 1, g)
          BY <5>1, <5>2, <5>3, <4>1, <4>2, <1>8, BetweenOutputs
        <5>5. n - 1 \in OutputBlocks(g, n - 1)
          BY <5>1, <5>4, <4>1, <1>1 DEF OutputBlocks
        <5>6. QED
          BY <5>1, <5>5, <4>1, <1>1
      <4>4. new[g].first_block = f /\ new[g].last_block = n
        <5> HIDE DEF g, old, new, root
        <5>1. /\ new[g].first_block = IF n < f THEN n ELSE f
              /\ new[g].last_block = IF n > l THEN n ELSE l
          BY <2>1, <2>2, <3>2 DEF WidenRange
        <5> HIDE DEF f, l
        <5> QED BY <4>1, <4>3, <5>1, <1>1
      <4>5. (f..l) \cup {n} = f..n
        <5> HIDE DEF f, l, g, old, new, root
        <5> QED BY <4>1, <4>3, <1>1
      <4>6. QED
        BY <4>1, <4>4, <4>5, <2>5, <1>1, <1>3, <3>2
    <3>3. QED
      BY <3>1, <3>2
  <2>7. QED
    BY <2>3, <2>4, <2>5, <2>6, <1>3, <1>5
<1>9. QED
  BY <1>7, <1>8

-----------------------------------------------------------------------------
(* A file nothing was written to is exact: no cursor, no rows.                 *)
LEMMA EmptyDbExact == Exact(EmptyDb)
<1>1. 0..NoCursor = {}
  BY DEF NoCursor
<1>2. WellFormed(EmptyDb)
  BY FS_EmptySet DEF WellFormed, EmptyDb, EmptyTable
<1>3. PrefixExact(EmptyDb)
  BY <1>1 DEF PrefixExact, EmptyDb
<1>4. CountsExactIn(EmptyDb)
  BY DEF CountsExactIn, EmptyDb, EmptyTable
<1>5. RangesExactIn(EmptyDb)
  BY <1>1 DEF RangesExactIn, EmptyDb, EmptyTable
<1>6. TokensExactIn(EmptyDb)
  BY DEF TokensExactIn, EmptyDb, EmptyTable
<1>7. QED
  BY <1>2, <1>3, <1>4, <1>5, <1>6 DEF Exact

(* The candidates a block's transfers name (extract_block), whose metadata is  *)
(* fetched first unless it is stored (token_fetch_states).                     *)
Fetched(d, n) == token_fetch_states(d, extract_block(Chain[n]).token_candidates)

(* The block transaction for the block after the cursor, with a row for every  *)
(* token that needed a fetch, takes an exact file to an exact file.            *)
LEMMA WriteBlockExact ==
    ASSUME NEW d, NEW n \in Heights, NEW rows,
           Exact(d), d.last_indexed = n - 1, DOMAIN rows = Fetched(d, n)
    PROVE  Exact(WriteBlock(d, extract_block(Chain[n]), rows))
<1> DEFINE x == extract_block(Chain[n])
           e == WriteBlock(d, x, rows)
<1>1. /\ x.number = n
      /\ x.address_rows = ChainAddressTxs(n)
      /\ x.tx_types = ChainTxTypes(n)
      /\ x.transfers = ChainTransfers(n)
      /\ x.token_candidates = {r.token : r \in ChainTransfers(n)}
  BY ExtractedNumber, AddressRowsExact, TxTypeRowsExact, TransferRowsExact DEF extract_block
<1>2. /\ WellFormed(d) /\ PrefixExact(d) /\ CountsExactIn(d)
      /\ RangesExactIn(d) /\ TokensExactIn(d)
  BY DEF Exact
<1>3. n \in Nat
  BY ChainAssumption DEF Heights
<1> HIDE DEF x
<1>4. /\ e.last_indexed = n
      /\ e.address_txs = d.address_txs \cup ChainAddressTxs(n)
      /\ e.tx_types = d.tx_types \cup ChainTxTypes(n)
      /\ e.tx_type_counts = AddTypeCounts(d, ChainTxTypes(n))
      /\ e.consensus_blocks = UpsertConsensus(d.consensus_blocks, x.consensus)
      /\ e.token_transfers = d.token_transfers \cup ChainTransfers(n)
      /\ e.tokens = UpsertTokens(d.tokens, rows)
  BY <1>1, <1>2, NewRowsAllInserted DEF WriteBlock
<1> HIDE DEF e
<1>5. PrefixExact(e)
  BY <1>2, <1>3, <1>4, PrefixStep DEF PrefixExact
<1>6. CountsExactIn(e)
  BY <1>2, <1>4, TxTypesFinite, CountsStep DEF WellFormed
<1>7. RangesExactIn(e) /\ RangeBounds(e.consensus_blocks)
  BY <1>2, <1>4, RangesStep DEF WellFormed, RangeBounds, x
<1>8. WellFormed(e)
  <2>1. IsFiniteSet(e.tx_types)
    <3>1. IsFiniteSet(d.tx_types) /\ IsFiniteSet(ChainTxTypes(n))
      BY <1>2, TxTypesFinite DEF WellFormed
    <3>2. IsFiniteSet(d.tx_types \cup ChainTxTypes(n))
      BY <3>1, FS_Union
    <3>3. QED
      BY <3>2, <1>4
  <2>2. QED
    BY <2>1, <1>4, <1>7 DEF WellFormed, RangeBounds
<1>9. TokensExactIn(e)
  <2>1. DOMAIN e.tokens = DOMAIN d.tokens \cup DOMAIN rows
    BY <1>4 DEF UpsertTokens
  <2>2. DOMAIN rows \subseteq x.token_candidates
    BY DEF Fetched, token_fetch_states, x
  <2>3. x.token_candidates \subseteq DOMAIN d.tokens \cup DOMAIN rows
    BY DEF Fetched, token_fetch_states, x
  <2>4. DOMAIN e.tokens = DOMAIN d.tokens \cup x.token_candidates
    BY <2>1, <2>2, <2>3
  <2>5. QED
    BY <2>4, <1>1, <1>2, <1>4 DEF TokensExactIn
<1>10. QED
  BY <1>5, <1>6, <1>7, <1>8, <1>9 DEF Exact, e, x
=============================================================================
