--------------------------- MODULE ApiReadsProofs ---------------------------
(* The SQLite-backed routes for every chain, page size and request, with a     *)
(* commit between any two statements of a handler: no page, total, pointer,    *)
(* token or range it puts together from several reads contradicts the chain.   *)
EXTENDS ApiReads, StorageProofs, FunctionTheorems

-----------------------------------------------------------------------------
(* Places in an ordered result.                                                *)

(* ORDER BY is a strict total order of the rows.                               *)
Ordered(rows, sel) ==
    /\ IsFiniteSet(rows)
    /\ \A r \in rows : ~Before(sel, r, r)
    /\ \A r, q \in rows : r = q \/ Before(sel, r, q) \/ Before(sel, q, r)
    /\ \A r, q, s \in rows : Before(sel, r, q) /\ Before(sel, q, s) => Before(sel, r, s)

Ahead(rows, sel, r) == {q \in rows : Before(sel, q, r)}
Place(rows, sel, r) == Cardinality(Ahead(rows, sel, r))

(* Places are 0, 1, 2, ... without gap or repetition.                          *)
LEMMA Places ==
    ASSUME NEW rows, NEW sel, Ordered(rows, sel)
    PROVE  /\ Cardinality(rows) \in Nat
           /\ \A r \in rows : Place(rows, sel, r) \in 0..(Cardinality(rows) - 1)
           /\ \A r, q \in rows : Place(rows, sel, r) = Place(rows, sel, q) => r = q
           /\ \A k \in 0..(Cardinality(rows) - 1) : \E r \in rows : Place(rows, sel, r) = k
<1> DEFINE place == [r \in rows |-> Place(rows, sel, r)]
           places == 0..(Cardinality(rows) - 1)
<1>1. IsFiniteSet(rows) /\ Cardinality(rows) \in Nat
  BY FS_CardinalityType DEF Ordered
<1>2. ASSUME NEW r \in rows PROVE Place(rows, sel, r) \in places
  <2>1. Ahead(rows, sel, r) \in SUBSET (rows \ {r})
    BY DEF Ahead, Ordered
  <2>2. IsFiniteSet(rows \ {r}) /\ Cardinality(rows \ {r}) = Cardinality(rows) - 1
    BY <1>1, FS_RemoveElement
  <2>3. IsFiniteSet(Ahead(rows, sel, r)) /\ Cardinality(Ahead(rows, sel, r)) <= Cardinality(rows) - 1
    BY <2>1, <2>2, FS_Subset
  <2>4. Cardinality(Ahead(rows, sel, r)) \in Nat
    BY <2>3, FS_CardinalityType
  <2> QED BY <1>1, <2>3, <2>4 DEF Place
<1>3. ASSUME NEW r \in rows, NEW q \in rows, Before(sel, r, q)
      PROVE  Place(rows, sel, r) # Place(rows, sel, q)
  <2>1. Ahead(rows, sel, r) \in SUBSET Ahead(rows, sel, q)
    BY <1>3 DEF Ahead, Ordered
  <2>2. r \in Ahead(rows, sel, q) /\ r \notin Ahead(rows, sel, r)
    BY <1>3 DEF Ahead, Ordered
  <2>3. IsFiniteSet(Ahead(rows, sel, q))
    <3>1. Ahead(rows, sel, q) \in SUBSET rows
      BY DEF Ahead
    <3> QED BY <1>1, <3>1, FS_Subset
  <2> QED BY <2>1, <2>2, <2>3, FS_Subset DEF Place
<1>4. place \in [rows -> places]
  BY <1>2
<1>5. \A r, q \in rows : place[r] = place[q] => r = q
  <2> SUFFICES ASSUME NEW r \in rows, NEW q \in rows, place[r] = place[q] PROVE r = q
    OBVIOUS
  <2>1. Place(rows, sel, r) = Place(rows, sel, q)
    OBVIOUS
  <2>2. ~Before(sel, r, q) /\ ~Before(sel, q, r)
    BY <1>3, <2>1
  <2> QED BY <2>2 DEF Ordered
<1>6. place \in Injection(rows, places)
  BY <1>4, <1>5, Fun_IsInj
<1>7. IsFiniteSet(places) /\ Cardinality(places) = Cardinality(rows)
  <2>1. 0 \in Int /\ Cardinality(rows) - 1 \in Int
    BY <1>1
  <2>2. IsFiniteSet(places) /\ Cardinality(places) = IF 0 > Cardinality(rows) - 1 THEN 0
                                                     ELSE Cardinality(rows) - 1 - 0 + 1
    BY <2>1, FS_Interval
  <2> QED BY <1>1, <2>2
<1> HIDE DEF place, places
<1>8. place \in Surjection(rows, places)
  BY <1>6, <1>7, FS_Injection
<1>9. \A k \in places : \E r \in rows : place[r] = k
  BY <1>8, Fun_SurjectionProperties
<1> QED BY <1>1, <1>2, <1>5, <1>9 DEF place, places

(* A page that is not empty lies within the result.                            *)
LEMMA WindowFits ==
    ASSUME NEW rows, NEW sel, Ordered(rows, sel), NEW limit \in Nat, NEW offset \in Nat,
           Window(rows, sel, limit, offset) # {}
    PROVE  offset + Cardinality(Window(rows, sel, limit, offset)) <= Cardinality(rows)
<1> DEFINE page == Window(rows, sel, limit, offset)
           place == [r \in page |-> Place(rows, sel, r)]
           N == Cardinality(rows)
           span == offset..(N - 1)
<1>1. N \in Nat
  BY Places
<1>2. \A r \in page : r \in rows /\ Place(rows, sel, r) \in offset..(offset + limit - 1)
  BY DEF Window, Place, Ahead
<1>3. \A r \in page : Place(rows, sel, r) \in 0..(N - 1)
  BY <1>2, Places
<1> HIDE DEF page, N
<1>4. \A r \in page : Place(rows, sel, r) \in span
  BY <1>1, <1>2, <1>3
<1>5. place \in [page -> span]
  BY <1>4
<1>6. \A r, q \in page : place[r] = place[q] => r = q
  BY <1>2, Places
<1>7. place \in Injection(page, span)
  BY <1>5, <1>6, Fun_IsInj
<1>8. offset <= N - 1
  <2>1. PICK r : r \in page
    BY DEF page
  <2> QED BY <1>1, <1>4, <2>1
<1>9. IsFiniteSet(span) /\ Cardinality(span) = N - offset
  <2>1. N - 1 \in Int /\ offset \in Int
    BY <1>1
  <2>2. IsFiniteSet(span) /\ Cardinality(span) = IF offset > N - 1 THEN 0 ELSE (N - 1) - offset + 1
    BY <2>1, FS_Interval
  <2> QED BY <1>1, <1>8, <2>2
<1> HIDE DEF place, span
<1>10. IsFiniteSet(page) /\ Cardinality(page) <= N - offset
  BY <1>7, <1>9, FS_Injection
<1>11. Cardinality(page) \in Nat
  BY <1>10, FS_CardinalityType
<1>12. offset + Cardinality(page) <= N
  BY <1>1, <1>10, <1>11
<1> QED BY <1>12 DEF page, N

(* As long as a row is at or past the offset the page is not empty.            *)
LEMMA WindowReaches ==
    ASSUME NEW rows, NEW sel, Ordered(rows, sel), NEW limit \in Nat \ {0}, NEW offset \in Nat,
           NEW r \in rows, offset <= Place(rows, sel, r)
    PROVE  Window(rows, sel, limit, offset) # {}
<1> DEFINE N == Cardinality(rows)
<1>1. N \in Nat /\ Place(rows, sel, r) \in 0..(N - 1)
  BY Places
<1> HIDE DEF N
<1>2. offset \in 0..(N - 1)
  BY <1>1
<1>3. PICK q \in rows : Place(rows, sel, q) = offset
  BY <1>2, Places DEF N
<1>4. Place(rows, sel, q) \in offset..(offset + limit - 1)
  BY <1>3
<1> QED BY <1>4 DEF Window, Place, Ahead

(* Rows that join a result only push the others further down.                  *)
LEMMA PlaceGrows ==
    ASSUME NEW rows, NEW more, IsFiniteSet(more), rows \subseteq more, NEW sel, NEW r
    PROVE  /\ Place(rows, sel, r) \in Nat /\ Place(more, sel, r) \in Nat
           /\ Place(rows, sel, r) <= Place(more, sel, r)
<1>1. Ahead(more, sel, r) \in SUBSET more /\ Ahead(rows, sel, r) \in SUBSET Ahead(more, sel, r)
  BY DEF Ahead
<1>2. IsFiniteSet(Ahead(more, sel, r))
  BY <1>1, FS_Subset
<1>3. /\ IsFiniteSet(Ahead(rows, sel, r))
      /\ Cardinality(Ahead(rows, sel, r)) <= Cardinality(Ahead(more, sel, r))
  BY <1>1, <1>2, FS_Subset
<1> QED BY <1>2, <1>3, FS_CardinalityType DEF Place

-----------------------------------------------------------------------------
(* What the rows of an exact index are.                                        *)

(* The pointers of a block are at positions of its transactions.               *)
PointsInto(r, n) ==
    /\ r.block_number = n
    /\ r.tx_index \in Nat /\ r.tx_index + 1 \in DOMAIN Chain[n].txs

LEMMA ChainRows ==
    ASSUME NEW n \in Heights
    PROVE  /\ \A r \in ChainAddressTxs(n) : /\ PointsInto(r, n)
                /\ r = [address |-> r.address, block_number |-> n, tx_index |-> r.tx_index,
                        tx_type |-> Chain[n].txs[r.tx_index + 1].ty]
           /\ \A r \in ChainTxTypes(n) : /\ PointsInto(r, n)
                /\ r = [tx_type |-> Chain[n].txs[r.tx_index + 1].ty, block_number |-> n,
                        tx_index |-> r.tx_index]
           /\ \A r \in ChainTransfers(n) : /\ PointsInto(r, n) /\ r.log_index \in Nat
                /\ LET log == Chain[n].receipts[r.tx_index + 1][r.log_index + 1] IN
                   r = [block_number |-> n, tx_index |-> r.tx_index, log_index |-> r.log_index,
                        token |-> log.address, from |-> log.topics[2], to |-> log.topics[3],
                        value |-> log.value]
<1>1. /\ DOMAIN Chain[n].txs \subseteq Nat \ {0}
      /\ DOMAIN Chain[n].receipts = DOMAIN Chain[n].txs
      /\ \A i \in DOMAIN Chain[n].receipts : DOMAIN Chain[n].receipts[i] \subseteq Nat \ {0}
  BY NodeAssumption
<1>2. \A i \in Nat \ {0} : i - 1 \in Nat /\ (i - 1) + 1 = i
  OBVIOUS
<1>3. ASSUME NEW r \in ChainAddressTxs(n)
      PROVE  /\ PointsInto(r, n)
             /\ r = [address |-> r.address, block_number |-> n, tx_index |-> r.tx_index,
                     tx_type |-> Chain[n].txs[r.tx_index + 1].ty]
  <2>0. PICK i \in DOMAIN Chain[n].txs :
          \E a \in Participants(Chain[n].txs[i]) :
            r = [address |-> a, block_number |-> n, tx_index |-> i - 1,
                 tx_type |-> Chain[n].txs[i].ty]
    BY DEF ChainAddressTxs
  <2>1. PICK a \in Participants(Chain[n].txs[i]) :
          r = [address |-> a, block_number |-> n, tx_index |-> i - 1,
               tx_type |-> Chain[n].txs[i].ty]
    BY <2>0
  <2>2. r.address = a /\ r.block_number = n /\ r.tx_index = i - 1
    BY <2>1
  <2>3. i - 1 \in Nat /\ r.tx_index + 1 = i
    BY <1>1, <1>2, <2>2
  <2> QED BY <2>1, <2>2, <2>3 DEF PointsInto
<1>4. ASSUME NEW r \in ChainTxTypes(n)
      PROVE  /\ PointsInto(r, n)
             /\ r = [tx_type |-> Chain[n].txs[r.tx_index + 1].ty, block_number |-> n,
                     tx_index |-> r.tx_index]
  <2>1. PICK i \in DOMAIN Chain[n].txs :
          r = [tx_type |-> Chain[n].txs[i].ty, block_number |-> n, tx_index |-> i - 1]
    BY DEF ChainTxTypes
  <2>2. r.block_number = n /\ r.tx_index = i - 1
    BY <2>1
  <2>3. i - 1 \in Nat /\ r.tx_index + 1 = i
    BY <1>1, <1>2, <2>2
  <2> QED BY <2>1, <2>2, <2>3 DEF PointsInto
<1>5. ASSUME NEW r \in ChainTransfers(n)
      PROVE  /\ PointsInto(r, n) /\ r.log_index \in Nat
             /\ LET log == Chain[n].receipts[r.tx_index + 1][r.log_index + 1] IN
                r = [block_number |-> n, tx_index |-> r.tx_index, log_index |-> r.log_index,
                     token |-> log.address, from |-> log.topics[2], to |-> log.topics[3],
                     value |-> log.value]
  <2>0. PICK i \in DOMAIN Chain[n].txs \cap DOMAIN Chain[n].receipts :
          \E j \in DOMAIN Chain[n].receipts[i] :
            r = [block_number |-> n, tx_index |-> i - 1, log_index |-> j - 1,
                 token |-> Chain[n].receipts[i][j].address,
                 from |-> Chain[n].receipts[i][j].topics[2],
                 to |-> Chain[n].receipts[i][j].topics[3],
                 value |-> Chain[n].receipts[i][j].value]
    BY DEF ChainTransfers
  <2>1. PICK j \in DOMAIN Chain[n].receipts[i] :
          r = [block_number |-> n, tx_index |-> i - 1, log_index |-> j - 1,
               token |-> Chain[n].receipts[i][j].address,
               from |-> Chain[n].receipts[i][j].topics[2],
               to |-> Chain[n].receipts[i][j].topics[3],
               value |-> Chain[n].receipts[i][j].value]
    BY <2>0
  <2>2. r.block_number = n /\ r.tx_index = i - 1 /\ r.log_index = j - 1
    BY <2>1
  <2>3. i - 1 \in Nat /\ r.tx_index + 1 = i /\ j - 1 \in Nat /\ r.log_index + 1 = j
    BY <1>1, <1>2, <2>2
  <2> QED BY <2>1, <2>2, <2>3 DEF PointsInto
<1> QED BY <1>3, <1>4, <1>5

(* The tables are keyed: a position names one row, of a block below the cursor.*)
LEMMA TablesKeyed ==
    ASSUME NEW d, Exact(d)
    PROVE  /\ \A r \in d.address_txs \cup d.tx_types \cup d.token_transfers :
                r.block_number \in 0..d.last_indexed /\ PointsInto(r, r.block_number)
           /\ \A r \in d.token_transfers : r.log_index \in Nat
           /\ \A r, q \in d.address_txs :
                r.address = q.address /\ r.block_number = q.block_number /\ r.tx_index = q.tx_index
                  => r = q
           /\ \A r, q \in d.tx_types :
                r.block_number = q.block_number /\ r.tx_index = q.tx_index => r = q
           /\ \A r, q \in d.token_transfers :
                r.block_number = q.block_number /\ r.tx_index = q.tx_index
                  /\ r.log_index = q.log_index => r = q
<1>1. 0..d.last_indexed \subseteq Heights
  BY ChainAssumption DEF Exact, WellFormed, Heights, NoCursor
<1>2. /\ \A r \in d.address_txs : \E n \in 0..d.last_indexed : r \in ChainAddressTxs(n)
      /\ \A r \in d.tx_types : \E n \in 0..d.last_indexed : r \in ChainTxTypes(n)
      /\ \A r \in d.token_transfers : \E n \in 0..d.last_indexed : r \in ChainTransfers(n)
  BY DEF Exact, PrefixExact
<1>3. ASSUME NEW r \in d.address_txs
      PROVE  /\ r.block_number \in 0..d.last_indexed /\ PointsInto(r, r.block_number)
             /\ r = [address |-> r.address, block_number |-> r.block_number,
                     tx_index |-> r.tx_index,
                     tx_type |-> Chain[r.block_number].txs[r.tx_index + 1].ty]
  <2>1. PICK n \in 0..d.last_indexed : r \in ChainAddressTxs(n)
    BY <1>2
  <2>2. r.block_number = n
    BY <1>1, <2>1, ChainRows DEF PointsInto
  <2> QED BY <1>1, <2>1, <2>2, ChainRows
<1>4. ASSUME NEW r \in d.tx_types
      PROVE  /\ r.block_number \in 0..d.last_indexed /\ PointsInto(r, r.block_number)
             /\ r = [tx_type |-> Chain[r.block_number].txs[r.tx_index + 1].ty,
                     block_number |-> r.block_number, tx_index |-> r.tx_index]
  <2>1. PICK n \in 0..d.last_indexed : r \in ChainTxTypes(n)
    BY <1>2
  <2>2. r.block_number = n
    BY <1>1, <2>1, ChainRows DEF PointsInto
  <2> QED BY <1>1, <2>1, <2>2, ChainRows
<1>5. ASSUME NEW r \in d.token_transfers
      PROVE  /\ r.block_number \in 0..d.last_indexed /\ PointsInto(r, r.block_number)
             /\ r.log_index \in Nat
             /\ LET log == Chain[r.block_number].receipts[r.tx_index + 1][r.log_index + 1] IN
                r = [block_number |-> r.block_number, tx_index |-> r.tx_index,
                     log_index |-> r.log_index,
                     token |-> log.address, from |-> log.topics[2], to |-> log.topics[3],
                     value |-> log.value]
  <2>1. PICK n \in 0..d.last_indexed : r \in ChainTransfers(n)
    BY <1>2
  <2>2. r.block_number = n
    BY <1>1, <2>1, ChainRows DEF PointsInto
  <2> QED BY <1>1, <2>1, <2>2, ChainRows
<1>6. \A r, q \in d.address_txs :
        r.address = q.address /\ r.block_number = q.block_number /\ r.tx_index = q.tx_index => r = q
  BY <1>3
<1>7. \A r, q \in d.tx_types :
        r.block_number = q.block_number /\ r.tx_index = q.tx_index => r = q
  BY <1>4
<1>8. \A r, q \in d.token_transfers :
        r.block_number = q.block_number /\ r.tx_index = q.tx_index
          /\ r.log_index = q.log_index => r = q
  BY <1>5
<1> QED BY <1>3, <1>4, <1>5, <1>6, <1>7, <1>8

LEMMA FiniteImage ==
    ASSUME NEW S, IsFiniteSet(S), NEW f PROVE IsFiniteSet({f[x] : x \in S})
<1> DEFINE g == [x \in S |-> f[x]]
           T == {f[x] : x \in S}
<1>1. g \in [S -> T] /\ \A t \in T : \E x \in S : g[x] = t
  OBVIOUS
<1>2. g \in Surjection(S, T)
  BY <1>1, Fun_IsSurj
<1> HIDE DEF g, T
<1>3. IsFiniteSet(T)
  BY <1>2, FS_Surjection
<1> QED BY <1>3 DEF T

LEMMA FiniteUnion ==
    ASSUME NEW S, IsFiniteSet(S), NEW f, \A x \in S : IsFiniteSet(f[x])
    PROVE  IsFiniteSet(UNION {f[x] : x \in S})
<1> DEFINE T == {f[x] : x \in S}
<1>1. IsFiniteSet(T)
  BY FiniteImage
<1>2. \A t \in T : IsFiniteSet(t)
  OBVIOUS
<1> HIDE DEF T
<1>3. IsFiniteSet(UNION T)
  BY <1>1, <1>2, FS_UNION
<1> QED BY <1>3 DEF T

(* Blocks are finite, so what is indexed up to a cursor is.                    *)
LEMMA ChainRowsFinite ==
    ASSUME NEW n \in Heights
    PROVE  IsFiniteSet(ChainAddressTxs(n)) /\ IsFiniteSet(ChainTransfers(n))
<1> DEFINE txs == Chain[n].txs
           receipts == Chain[n].receipts
<1>1. IsFiniteSet(DOMAIN txs) /\ DOMAIN receipts = DOMAIN txs
      /\ \A i \in DOMAIN receipts : IsFiniteSet(DOMAIN receipts[i])
  <2>1. IsFiniteSet(DOMAIN txs) /\ DOMAIN receipts = DOMAIN txs
    BY ChainAssumption, NodeAssumption DEF Heights
  <2>2. ASSUME NEW i \in DOMAIN receipts PROVE IsFiniteSet(DOMAIN receipts[i])
    <3>1. Len(receipts[i]) \in Int /\ DOMAIN receipts[i] = 1..Len(receipts[i])
      BY NodeAssumption
    <3> DEFINE k == Len(receipts[i])
    <3> HIDE DEF k
    <3>2. 1 \in Int /\ k \in Int /\ DOMAIN receipts[i] = 1..k
      BY <3>1 DEF k
    <3>3. IsFiniteSet(1..k)
      BY <3>2, FS_Interval
    <3> QED BY <3>2, <3>3
  <2> QED BY <2>1, <2>2
<1>2. IsFiniteSet(ChainAddressTxs(n))
  <2> DEFINE row(i) == [a \in Participants(txs[i]) |->
                         [address |-> a, block_number |-> n, tx_index |-> i - 1,
                          tx_type |-> txs[i].ty]]
             ref(i) == {[address |-> a, block_number |-> n, tx_index |-> i - 1,
                         tx_type |-> txs[i].ty] : a \in Participants(txs[i])}
             S == DOMAIN txs
             rows == [i \in S |-> ref(i)]
  <2>1. ASSUME NEW i \in S PROVE IsFiniteSet(ref(i))
    <3>1. IsFiniteSet(Participants(txs[i]))
      <4>1. IsFiniteSet({txs[i].sender})
            /\ IsFiniteSet({txs[i].to}) /\ IsFiniteSet({create(txs[i].sender, txs[i].nonce)})
        BY FS_Singleton
      <4> QED BY <4>1, FS_Union DEF Participants
    <3>2. IsFiniteSet({row(i)[a] : a \in Participants(txs[i])})
      BY <3>1, FiniteImage
    <3>3. {row(i)[a] : a \in Participants(txs[i])} = ref(i)
      OBVIOUS
    <3> QED BY <3>2, <3>3
  <2>2. ChainAddressTxs(n) = UNION {ref(i) : i \in S}
    BY DEF ChainAddressTxs
  <2> HIDE DEF ref, S
  <2>3. \A i \in S : IsFiniteSet(rows[i])
    BY <2>1
  <2>4. UNION {ref(i) : i \in S} = UNION {rows[i] : i \in S}
    OBVIOUS
  <2>5. IsFiniteSet(S)
    BY <1>1 DEF S
  <2> HIDE DEF rows
  <2>6. IsFiniteSet(UNION {rows[i] : i \in S})
    BY <2>3, <2>5, FiniteUnion
  <2> QED BY <2>2, <2>4, <2>6
<1>3. IsFiniteSet(ChainTransfers(n))
  <2> DEFINE logs(i) == receipts[i]
             kept(i) == {k \in DOMAIN logs(i) : IsTransfer(logs(i)[k])}
             row(i) == [j \in kept(i) |->
                         [block_number |-> n, tx_index |-> i - 1, log_index |-> j - 1,
                          token |-> logs(i)[j].address, from |-> logs(i)[j].topics[2],
                          to |-> logs(i)[j].topics[3], value |-> logs(i)[j].value]]
             ref(i) == {[block_number |-> n, tx_index |-> i - 1, log_index |-> j - 1,
                         token |-> logs(i)[j].address, from |-> logs(i)[j].topics[2],
                         to |-> logs(i)[j].topics[3], value |-> logs(i)[j].value] : j \in kept(i)}
             S == DOMAIN txs \cap DOMAIN receipts
             rows == [i \in S |-> ref(i)]
  <2>1. ASSUME NEW i \in S PROVE IsFiniteSet(ref(i))
    <3>1. kept(i) \in SUBSET DOMAIN receipts[i]
      OBVIOUS
    <3>2. IsFiniteSet(kept(i))
      BY <1>1, <3>1, FS_Subset
    <3>3. IsFiniteSet({row(i)[j] : j \in kept(i)})
      BY <3>2, FiniteImage
    <3>4. {row(i)[j] : j \in kept(i)} = ref(i)
      OBVIOUS
    <3> QED BY <3>3, <3>4
  <2>2. ChainTransfers(n) = UNION {ref(i) : i \in S}
    BY DEF ChainTransfers
  <2>3. IsFiniteSet(S)
    BY <1>1
  <2> HIDE DEF ref, S
  <2>4. \A i \in S : IsFiniteSet(rows[i])
    BY <2>1
  <2>5. UNION {ref(i) : i \in S} = UNION {rows[i] : i \in S}
    OBVIOUS
  <2> HIDE DEF rows
  <2>6. IsFiniteSet(UNION {rows[i] : i \in S})
    BY <2>3, <2>4, FiniteUnion
  <2> QED BY <2>2, <2>5, <2>6
<1> QED BY <1>2, <1>3

LEMMA TablesFinite ==
    ASSUME NEW d, Exact(d)
    PROVE  IsFiniteSet(d.address_txs) /\ IsFiniteSet(d.tx_types) /\ IsFiniteSet(d.token_transfers)
<1> DEFINE blocks == 0..d.last_indexed
           addresses == [n \in blocks |-> ChainAddressTxs(n)]
           transfers == [n \in blocks |-> ChainTransfers(n)]
<1>1. d.last_indexed \in Int /\ blocks \subseteq Heights
  BY ChainAssumption DEF Exact, WellFormed, Heights, NoCursor
<1>2. IsFiniteSet(blocks)
  BY <1>1, FS_Interval
<1>3. d.address_txs = UNION {addresses[n] : n \in blocks}
      /\ d.token_transfers = UNION {transfers[n] : n \in blocks}
  BY DEF Exact, PrefixExact
<1>4. \A n \in blocks : IsFiniteSet(addresses[n]) /\ IsFiniteSet(transfers[n])
  BY <1>1, ChainRowsFinite
<1> HIDE DEF addresses, transfers, blocks
<1>5. IsFiniteSet(d.address_txs) /\ IsFiniteSet(d.token_transfers)
  BY <1>2, <1>3, <1>4, FiniteUnion
<1> QED BY <1>5 DEF Exact, WellFormed

RowKinds == PointerKinds \cup TransferKinds \cup {"tx", "tx_transfers"}

(* The list routes.                                                            *)
FeedKinds == RowKinds \ {"tx"}

LEMMA FeedsAreLists == \A kind \in RowKinds : kind \in FeedKinds <=> kind \notin DetailKinds
BY DEF FeedKinds, RowKinds, DetailKinds, PointerKinds, TransferKinds

(* What each kind of request matches, and which way it is ordered.             *)
LEMMA MatchingByKind ==
    ASSUME NEW d, NEW sel
    PROVE  /\ sel.kind \in {"tx", "tx_transfers"} =>
                /\ Matching(d, sel) = {r \in d.token_transfers :
                                         r.block_number = sel.block_number /\ r.tx_index = sel.tx_index}
                /\ \A r, q : Before(sel, r, q) <=> r.log_index < q.log_index
           /\ sel.kind \in TransferKinds =>
                /\ Matching(d, sel) \subseteq d.token_transfers
                /\ \A r, q : Before(sel, r, q) <=> TransferBefore(r, q)
           /\ sel.kind \in {"address_txs", "address_txs_by_type"} =>
                /\ Matching(d, sel) \subseteq {r \in d.address_txs : r.address = sel.address}
                /\ \A r, q : Before(sel, r, q) <=> PointerBefore(r, q)
           /\ sel.kind = "tx_types" =>
                /\ Matching(d, sel) = {r \in d.tx_types : r.tx_type = sel.tx_type}
                /\ \A r, q : Before(sel, r, q) <=> PointerBefore(r, q)
BY DEF Matching, Before, PointerKinds, TransferKinds

(* Every ORDER BY is a strict total order of what its WHERE selects: the       *)
(* columns it compares are a key there.                                        *)
LEMMA MatchingOrdered ==
    ASSUME NEW d, Exact(d), NEW sel, sel.kind \in RowKinds
    PROVE  Ordered(Matching(d, sel), sel)
<1> DEFINE rows == Matching(d, sel)
<1>1. CASE sel.kind \in {"tx", "tx_transfers"}
  <2>1. /\ rows \in SUBSET d.token_transfers
        /\ \A r, q \in rows : r.block_number = q.block_number /\ r.tx_index = q.tx_index
        /\ \A r, q : Before(sel, r, q) <=> r.log_index < q.log_index
    BY <1>1, MatchingByKind
  <2>2. IsFiniteSet(rows)
    BY <2>1, TablesFinite, FS_Subset
  <2>3. \A r \in rows : r.log_index \in Nat
    BY <2>1, TablesKeyed
  <2>4. \A r, q \in rows : r.log_index = q.log_index => r = q
    BY <2>1, TablesKeyed
  <2> HIDE DEF rows
  <2>5. Ordered(rows, sel)
    BY <2>1, <2>2, <2>3, <2>4 DEF Ordered
  <2> QED BY <2>5 DEF rows
<1>2. CASE sel.kind \in TransferKinds
  <2>1. /\ rows \in SUBSET d.token_transfers
        /\ \A r, q : Before(sel, r, q) <=> TransferBefore(r, q)
    BY <1>2, MatchingByKind
  <2>2. IsFiniteSet(rows)
    BY <2>1, TablesFinite, FS_Subset
  <2>3. \A r \in rows : r.log_index \in Nat /\ r.tx_index \in Nat /\ r.block_number \in Int
    BY <2>1, TablesKeyed DEF PointsInto
  <2>4. \A r, q \in rows : r.block_number = q.block_number /\ r.tx_index = q.tx_index
                             /\ r.log_index = q.log_index => r = q
    BY <2>1, TablesKeyed
  <2> HIDE DEF rows
  <2>5. Ordered(rows, sel)
    BY <2>1, <2>2, <2>3, <2>4 DEF Ordered, TransferBefore, PointerBefore
  <2> QED BY <2>5 DEF rows
<1>3. CASE sel.kind \in PointerKinds
  <2>1. /\ \A r, q : Before(sel, r, q) <=> PointerBefore(r, q)
        /\ \/ /\ rows \in SUBSET d.address_txs
              /\ \A r \in rows : r.address = sel.address
           \/ rows \in SUBSET d.tx_types
    BY <1>3, MatchingByKind DEF PointerKinds
  <2>2. IsFiniteSet(rows)
    BY <2>1, TablesFinite, FS_Subset
  <2>3. \A r \in rows : r.tx_index \in Nat /\ r.block_number \in Int
    BY <2>1, TablesKeyed DEF PointsInto
  <2>4. \A r, q \in rows : r.block_number = q.block_number /\ r.tx_index = q.tx_index => r = q
    BY <2>1, TablesKeyed
  <2> HIDE DEF rows
  <2>5. Ordered(rows, sel)
    BY <2>1, <2>2, <2>3, <2>4 DEF Ordered, PointerBefore
  <2> QED BY <2>5 DEF rows
<1> QED BY <1>1, <1>2, <1>3 DEF RowKinds

(* What blocks up to a lower cursor contribute is still there at a higher one. *)
LEMMA TablesGrow ==
    ASSUME NEW d, NEW e, Exact(d), Exact(e), d.last_indexed <= e.last_indexed
    PROVE  /\ d.address_txs \subseteq e.address_txs /\ d.tx_types \subseteq e.tx_types
           /\ d.token_transfers \subseteq e.token_transfers
           /\ DOMAIN d.tokens \subseteq DOMAIN e.tokens
<1>1. 0..d.last_indexed \subseteq 0..e.last_indexed
  BY ChainAssumption DEF Exact, WellFormed, Heights, NoCursor
<1>2. /\ d.address_txs \subseteq e.address_txs /\ d.tx_types \subseteq e.tx_types
      /\ d.token_transfers \subseteq e.token_transfers
  BY <1>1 DEF Exact, PrefixExact
<1> QED BY <1>2 DEF Exact, TokensExactIn

LEMMA MatchingGrows ==
    ASSUME NEW d, NEW e, NEW sel, sel.kind \in RowKinds,
           d.address_txs \subseteq e.address_txs, d.tx_types \subseteq e.tx_types,
           d.token_transfers \subseteq e.token_transfers
    PROVE  Matching(d, sel) \subseteq Matching(e, sel)
BY DEF Matching, RowKinds, PointerKinds, TransferKinds

(* Either way of counting a result counts it.                                  *)
LEMMA TotalCounts ==
    ASSUME NEW d, Exact(d), NEW sel, sel.kind \in RowKinds
    PROVE  Total(d, sel) = Cardinality(Matching(d, sel))
<1>1. CASE sel.kind = "tx_types"
  <2>1. count_tx_type(d, sel.tx_type) = Cardinality({r \in d.tx_types : r.tx_type = sel.tx_type})
    BY CountOfAnyType DEF Exact
  <2> QED BY <1>1, <2>1, MatchingByKind DEF Total
<1> QED BY <1>1 DEF Total

-----------------------------------------------------------------------------
(* The writer underneath: every content the file may hold is exact, the cursor *)
(* is within the executed chain, and no height is published before its commit. *)
WriterInv ==
    /\ tip \in Heights
    /\ db \in wal
    /\ \A d \in wal : Exact(d) /\ d.last_indexed <= db.last_indexed
    /\ db.last_indexed <= tip
    /\ published \in Int /\ published <= db.last_indexed

LEMMA WriterFacts ==
    ASSUME WriterInv
    PROVE  /\ Exact(db) /\ db.last_indexed \in Int /\ NoCursor <= db.last_indexed
           /\ tip \in Int /\ 0..tip \subseteq Heights /\ MaxHeight \in Nat
BY ChainAssumption DEF WriterInv, Exact, WellFormed, Heights, NoCursor

LEMMA InitWriter == Init => WriterInv
<1> SUFFICES ASSUME Init PROVE WriterInv
  OBVIOUS
<1>1. EmptyDb.last_indexed = NoCursor /\ NoCursor \in Int /\ NoCursor <= 0 /\ NoCursor <= NoCursor
  BY DEF EmptyDb, NoCursor
<1>2. 0 \in Heights
  BY ChainAssumption DEF Heights
<1> QED BY <1>1, <1>2, EmptyDbExact DEF Init, WriterInv

(* The writer only adds, unless the process goes away.                         *)
LEMMA WriterStep ==
    ASSUME WriterInv, Next
    PROVE  /\ WriterInv'
           /\ up' => /\ db.last_indexed <= db'.last_indexed
                     /\ published <= published' /\ tip <= tip'
<1>0. /\ Exact(db) /\ db.last_indexed \in Int /\ NoCursor <= db.last_indexed
      /\ tip \in Int /\ MaxHeight \in Nat /\ published \in Int
  BY WriterFacts DEF WriterInv
<1>1. CASE Execute
  BY <1>0, <1>1 DEF Execute, WriterInv, Heights
<1>2. CASE Open
  BY <1>0, <1>2 DEF Open, WriterInv
<1>3. CASE Index
  <2> DEFINE n == db.last_indexed + 1
             x == extract_block(Chain[n])
  <2>1. n \in Heights /\ n <= tip /\ db.last_indexed = n - 1
    BY <1>0, <1>3 DEF Index, WriterInv, Heights, NoCursor
  <2>2. PICK rows \in [token_fetch_states(db, x.token_candidates) -> {TokenOk, TokenRetryPending}] :
          db' = apply_block(db, x, rows)
    BY <1>3 DEF Index
  <2>3. DOMAIN rows = Fetched(db, n)
    BY <2>2 DEF Fetched
  <2>4. x.number = n
    BY <2>1, ExtractedNumber
  <2>5. db' = WriteBlock(db, x, rows)
    BY <1>0, <2>1, <2>2, <2>4 DEF apply_block, AtOrBelowCursor
  <2>6. Exact(db')
    BY <1>0, <2>1, <2>3, <2>5, WriteBlockExact
  <2>7. db'.last_indexed = n
    BY <2>4, <2>5 DEF WriteBlock
  <2>8. wal' = wal \cup {db'} /\ UNCHANGED <<tip, published, up>>
    BY <1>3 DEF Index
  <2> HIDE DEF n, x
  <2>9. \A d \in wal' : Exact(d) /\ d.last_indexed <= db'.last_indexed
    <3> SUFFICES ASSUME NEW d \in wal' PROVE Exact(d) /\ d.last_indexed <= db'.last_indexed
      OBVIOUS
    <3>1. CASE d = db'
      BY <2>6, <2>7, <3>1, <2>1 DEF Heights
    <3>2. CASE d \in wal
      <4>1. Exact(d) /\ d.last_indexed <= db.last_indexed
        BY <3>2 DEF WriterInv
      <4>2. d.last_indexed \in Int
        BY <4>1, ChainAssumption DEF Exact, WellFormed, Heights, NoCursor
      <4> QED BY <1>0, <2>1, <2>7, <4>1, <4>2 DEF Heights
    <3> QED BY <2>8, <3>1, <3>2
  <2> QED BY <1>0, <2>1, <2>7, <2>8, <2>9 DEF WriterInv, Heights
<1>4. CASE PublishIndexed
  BY <1>0, <1>4 DEF PublishIndexed, WriterInv, Larger
<1>5. CASE Close
  BY <1>0, <1>5 DEF Close, WriterInv
<1>6. CASE Checkpoint
  BY <1>0, <1>6 DEF Checkpoint, WriterInv
<1>7. CASE Restart
  <2>1. PICK d \in wal : /\ db' = d
                         /\ wal' = {e \in wal : e.last_indexed <= d.last_indexed}
                         /\ published' = NoCursor /\ up' = FALSE /\ tip' = tip
    BY <1>7 DEF Restart
  <2>2. Exact(d) /\ d.last_indexed <= db.last_indexed
    BY <2>1 DEF WriterInv
  <2>3. d.last_indexed \in Int /\ NoCursor <= d.last_indexed /\ NoCursor \in Int
    BY <2>2, ChainAssumption DEF Exact, WellFormed, Heights, NoCursor
  <2> QED BY <1>0, <2>1, <2>2, <2>3 DEF WriterInv
<1> QED BY <1>1, <1>2, <1>3, <1>4, <1>5, <1>6, <1>7 DEF Next

-----------------------------------------------------------------------------
(* Which request is where, and which fields are still empty there.             *)
Fields == {"pc", "sel", "page", "rows", "total", "tokens", "indexed", "owed", "seen", "numbers",
           "ranges", "claimed", "fetched", "lost"}

ShapeInv ==
    /\ DOMAIN req = Fields
    /\ up \/ req = Idle \/ req.pc \in {"retry", "done"}
    /\ req.page \in Nat /\ req.lost \in Nat
    /\ req.pc = "idle" => req = Idle
    /\ req.pc = "check" => req.sel.kind = "tx"
    /\ req.pc \in {"rows", "count"} => req.sel.kind \in RowKinds
    /\ req.pc = "retry" => req.sel.kind \in FeedKinds
    /\ req.pc = "tokens" => req.sel.kind \in RowKinds \ PointerKinds
    /\ req.pc = "hydrate" => req.sel.kind \in PointerKinds \cup TransferKinds
    /\ req.pc = "summary" => req.sel.kind = "address_txs"
    /\ req.pc = "range" => req.sel.kind = "output"
    /\ req.pc = "ranges" => req.sel.kind = "outputs"
    /\ req.pc \in {"token", "supply", "failed"} => req.sel.kind = "token"
    /\ req.pc = "done" => req.sel.kind \in RowKinds \cup {"output", "outputs", "token"}
    /\ req.pc \in {"idle", "check", "rows", "count", "tokens", "hydrate", "summary", "range",
                   "ranges", "token", "supply", "failed", "done", "error", "retry"}
    /\ req.pc \in {"check", "rows", "summary", "range", "ranges", "retry"}
         \/ req.sel.kind \in {"output", "outputs"}
         => req.rows = {} /\ req.tokens = {}

LEMMA IdleShape ==
    /\ DOMAIN Idle = Fields /\ Idle.pc = "idle" /\ Idle.sel = NoSelection /\ Idle.page = 0
    /\ Idle.rows = {} /\ Idle.tokens = {} /\ Idle.owed = {} /\ Idle.seen = {}
    /\ Idle.indexed = FALSE /\ Idle.fetched = FALSE /\ Idle.ranges = EmptyTable
    /\ Idle.sel.kind = "none" /\ Idle.claimed = NoCursor /\ Idle.numbers = <<>>
    /\ Idle.lost = 0
BY DEF Idle, Fields, NoSelection

(* Every request starts from an empty answer.                                  *)
Start == \/ TxByHash \/ List \/ TxTransferList \/ AddressSummary
         \/ ConsensusBlock \/ ConsensusBlocks \/ AskToken

LEMMA StartShape ==
    ASSUME Start
    PROVE  /\ up /\ UNCHANGED writerVars
           /\ DOMAIN req' = Fields /\ req'.page = 0 /\ req'.rows = {} /\ req'.tokens = {}
           /\ req'.seen = {} /\ req'.indexed = FALSE /\ req'.fetched = FALSE
           /\ req'.ranges = EmptyTable /\ req'.lost = 0
           /\ \/ /\ req'.pc = "check"
                 /\ \E n \in 0..tip : \E i \in DOMAIN Chain[n].txs : req'.sel = TxTransfers(n, i - 1)
              \/ /\ req'.pc = "rows" /\ req'.owed = Matching(db, req'.sel) /\ req'.claimed = published
                 /\ \/ req'.sel \in Selections
                    \/ \E n \in 0..tip : \E i \in DOMAIN Chain[n].txs :
                         req'.sel = TxTransferFeed(n, i - 1)
              \/ /\ req'.pc = "summary" /\ req'.owed = {} /\ req'.claimed = published
                 /\ req'.sel \in Selections /\ req'.sel.kind = "address_txs"
              \/ /\ req'.pc = "range"
                 /\ \E n \in Heights :
                      LET digest == Chain[n].header.parent_beacon_block_root IN
                      NamesOutput(n, digest) /\ req'.sel = ConsensusOutput(digest)
              \/ /\ req'.pc = "ranges"
                 /\ \E page \in SUBSET Outputs : req'.sel = ConsensusPage(page)
              \/ /\ req'.pc = "token"
                 /\ \E sel \in Selections :
                      /\ sel.kind = "token_transfers"
                      /\ req'.sel = TokenInfo(sel.token) /\ req'.owed = Matching(db, sel)
<1> USE IdleShape
<1>1. CASE TxByHash
  BY <1>1 DEF TxByHash, Fields
<1>2. CASE List
  BY <1>2 DEF List, Fields
<1>3. CASE TxTransferList
  BY <1>3 DEF TxTransferList, Fields
<1>4. CASE AddressSummary
  BY <1>4 DEF AddressSummary, Fields
<1>5. CASE ConsensusBlock
  BY <1>5 DEF ConsensusBlock, Fields
<1>6. CASE ConsensusBlocks
  BY <1>6 DEF ConsensusBlocks, Fields
<1>7. CASE AskToken
  BY <1>7 DEF AskToken, Fields
<1> QED BY <1>1, <1>2, <1>3, <1>4, <1>5, <1>6, <1>7 DEF Start

(* What a started request is for.                                              *)
LEMMA StartKind ==
    ASSUME Start
    PROVE  /\ req'.pc = "check" => req'.sel.kind = "tx"
           /\ req'.pc = "rows" => req'.sel.kind \in RowKinds \ {"tx"}
           /\ req'.pc = "range" => req'.sel.kind = "output"
           /\ req'.pc = "ranges" => req'.sel.kind = "outputs"
           /\ req'.pc = "token" => req'.sel.kind = "token"
           /\ req'.pc \in {"check", "rows", "summary", "range", "ranges", "token"}
<1>1. /\ \A n, i : TxTransfers(n, i).kind = "tx" /\ TxTransferFeed(n, i).kind = "tx_transfers"
      /\ \A x : ConsensusOutput(x).kind = "output" /\ ConsensusPage(x).kind = "outputs"
                  /\ TokenInfo(x).kind = "token"
  BY DEF TxTransfers, TxTransferFeed, ConsensusOutput, ConsensusPage, TokenInfo
<1>2. \A sel \in Selections : sel.kind \in RowKinds \ {"tx"}
  BY PageAssumption DEF RowKinds, PointerKinds, TransferKinds
<1>3. "tx_transfers" \in RowKinds \ {"tx"}
  BY DEF RowKinds
<1> QED BY StartShape, <1>1, <1>2, <1>3

(* The steps of a running request.                                             *)
Read == \/ CheckIndexed \/ ReadRows \/ ReadCount \/ ReadTokens \/ Hydrate \/ NextPage \/ Retry
        \/ CountAddressTxs \/ ReadRange \/ LookupRange \/ RangesDone \/ ReadTokenRow \/ ReadSupply

(* The supply of a token: every outcome ends the request.                      *)
LEMMA SupplyRead ==
    ASSUME ReadSupply, DOMAIN req = Fields
    PROVE  /\ req.pc = "supply" /\ UNCHANGED writerVars
           /\ req'.pc \in {"done", "failed"} /\ DOMAIN req' = Fields
           /\ req'.sel = req.sel /\ req'.owed = req.owed /\ req'.lost = req.lost
           /\ req'.claimed = req.claimed /\ req'.page = req.page
<1>1. CASE \E pc \in {"done", "failed"} : req' = [req EXCEPT !.pc = pc]
  BY <1>1 DEF Fields, ReadSupply
<1>2. CASE \E status : req' = [req EXCEPT !.pc = "done", !.tokens = {status}, !.fetched = TRUE]
  BY <1>2 DEF Fields, ReadSupply
<1> QED BY <1>1, <1>2 DEF ReadSupply

(* A read moves one request on, leaves the writer alone and never changes what *)
(* the request is for or what it was owed.                                     *)
LEMMA ReadShape ==
    ASSUME ShapeInv, Read
    PROVE  /\ UNCHANGED writerVars /\ up /\ DOMAIN req' = Fields
           /\ req'.sel = req.sel /\ req'.owed = req.owed /\ req'.lost = req.lost
           /\ req'.claimed = IF req.pc \in {"done", "retry"} THEN published ELSE req.claimed
           /\ req.pc # "idle" /\ req'.pc \notin {"idle", "retry"}
<1>1. DOMAIN req = Fields /\ (up \/ req.pc \in {"idle", "retry", "done"})
  BY IdleShape DEF ShapeInv
<1> USE <1>1
<1>2. CASE CheckIndexed
  BY <1>2 DEF CheckIndexed, Fields
<1>3. CASE ReadRows
  BY <1>3 DEF ReadRows, Fields
<1>4. CASE ReadCount
  BY <1>4 DEF ReadCount, Fields
<1>5. CASE ReadTokens
  BY <1>5 DEF ReadTokens, Fields
<1>6. CASE Hydrate
  BY <1>6 DEF Hydrate, Fields
<1>7. CASE NextPage
  BY <1>7 DEF NextPage, Fields
<1>8. CASE CountAddressTxs
  BY <1>8 DEF CountAddressTxs, Fields
<1>9. CASE ReadRange
  BY <1>9 DEF ReadRange, Fields
<1>10. CASE LookupRange
  BY <1>10 DEF LookupRange, Fields
<1>11. CASE RangesDone
  BY <1>11 DEF RangesDone, Fields
<1>12. CASE ReadTokenRow
  BY <1>12 DEF ReadTokenRow, Fields
<1>13. CASE ReadSupply
  BY <1>13, SupplyRead
<1>14. CASE Retry
  BY <1>14 DEF Retry, Fields
<1> QED BY <1>2, <1>3, <1>4, <1>5, <1>6, <1>7, <1>8, <1>9, <1>10, <1>11, <1>12, <1>13, <1>14 DEF Read

(* A walk the client is in the middle of is of a list route.                   *)
LEMMA WalksAreLists ==
    ASSUME ShapeInv, Walking
    PROVE  /\ req.sel.kind \in FeedKinds
           /\ req.pc \in {"rows", "count", "tokens", "hydrate", "retry", "done"}
<1>1. req.sel.kind \notin DetailKinds \cup {"none"} /\ req.pc \notin {"summary", "error"}
  BY DEF Walking
<1>2. req.pc # "idle"
  BY <1>1, IdleShape DEF ShapeInv
<1> QED BY <1>1, <1>2 DEF ShapeInv, FeedKinds, RowKinds, PointerKinds, TransferKinds, DetailKinds

(* The process went away under a walk: the answer it was waiting for is to be  *)
(* asked for again, an answer it had stays, and the rows taken back are counted.*)
Broken ==
    /\ req.sel.kind \in FeedKinds /\ DOMAIN req' = Fields
    /\ req'.sel = req.sel /\ req'.page = req.page /\ req'.owed = req.owed /\ req'.seen = req.seen
    /\ req'.claimed = req.claimed /\ req'.fetched = req.fetched
    /\ \/ /\ req.pc \in {"rows", "count", "tokens", "hydrate", "retry"}
          /\ req'.pc = "retry" /\ req'.rows = {} /\ req'.tokens = {}
       \/ /\ req.pc = "done" /\ req'.pc = "done"
          /\ req'.rows = req.rows /\ req'.total = req.total /\ req'.tokens = req.tokens
    /\ req'.lost = req.lost + Cardinality(TakenBack)

LEMMA InterruptedShape ==
    ASSUME ShapeInv, req' = Interrupted PROVE req' = Idle \/ Broken
<1>1. CASE ~Walking
  BY <1>1 DEF Interrupted
<1>2. CASE Walking
  <2>1. DOMAIN req = Fields
    BY DEF ShapeInv
  <2> DEFINE left == IF req.pc = "done" THEN req
                     ELSE [req EXCEPT !.pc = "retry", !.rows = {}, !.total = 0, !.tokens = {}]
  <2>2. /\ DOMAIN left = Fields
        /\ left.sel = req.sel /\ left.page = req.page /\ left.owed = req.owed
        /\ left.seen = req.seen /\ left.claimed = req.claimed /\ left.fetched = req.fetched
        /\ left.lost = req.lost
        /\ \/ req.pc # "done" /\ left.pc = "retry" /\ left.rows = {} /\ left.tokens = {}
           \/ /\ req.pc = "done" /\ left.pc = "done"
              /\ left.rows = req.rows /\ left.total = req.total /\ left.tokens = req.tokens
    BY <2>1 DEF Fields
  <2>3. req' = [left EXCEPT !.lost = @ + Cardinality(TakenBack)]
    BY <1>2 DEF Interrupted
  <2> HIDE DEF left
  <2> QED BY <1>2, <2>2, <2>3, WalksAreLists DEF Broken, Fields
<1> QED BY <1>1, <1>2

(* A commit, a restart or an idle step of the node between two reads: the      *)
(* request is gone, or untouched while the index grew, or a walk to resume.    *)
LEMMA BetweenReads ==
    ASSUME WriterInv, ShapeInv, Underneath
    PROVE  /\ WriterInv'
           /\ \/ req' = Idle
              \/ /\ req' = req /\ up'
                 /\ db.last_indexed <= db'.last_indexed
                 /\ published <= published' /\ tip <= tip'
                 /\ db.address_txs \subseteq db'.address_txs /\ db.tx_types \subseteq db'.tx_types
                 /\ db.token_transfers \subseteq db'.token_transfers
                 /\ \A sel : sel.kind \in RowKinds => Matching(db, sel) \subseteq Matching(db', sel)
              \/ Broken
<1>1. Next /\ req' = IF up' THEN req ELSE Interrupted
  BY DEF Underneath
<1>2. WriterInv' /\ (up' => /\ db.last_indexed <= db'.last_indexed
                            /\ published <= published' /\ tip <= tip')
  BY <1>1, WriterStep
<1>3. CASE ~up'
  BY <1>1, <1>2, <1>3, InterruptedShape
<1>4. CASE up'
  <2>1. Exact(db) /\ Exact(db')
    BY <1>2 DEF WriterInv
  <2>2. /\ db.address_txs \subseteq db'.address_txs /\ db.tx_types \subseteq db'.tx_types
        /\ db.token_transfers \subseteq db'.token_transfers
    BY <1>2, <1>4, <2>1, TablesGrow
  <2>3. \A sel : sel.kind \in RowKinds => Matching(db, sel) \subseteq Matching(db', sel)
    BY <2>2, MatchingGrows
  <2> QED BY <1>1, <1>2, <1>4, <2>2, <2>3
<1> QED BY <1>3, <1>4

(* What a walk loses is a number.                                              *)
LEMMA LossCounts ==
    ASSUME WriterInv, ShapeInv, req.sel.kind \in FeedKinds
    PROVE  IsFiniteSet(TakenBack) /\ Cardinality(TakenBack) \in Nat /\ req.lost \in Nat
<1>1. IsFiniteSet(Matching(db, req.sel))
  BY WriterFacts, MatchingOrdered DEF Ordered, FeedKinds
<1>2. TakenBack \in SUBSET Matching(db, req.sel)
  BY DEF TakenBack
<1> QED BY <1>1, <1>2, FS_Subset, FS_CardinalityType DEF ShapeInv

(* Every step is one of these.                                                 *)
LEMMA StepKinds ==
    ASSUME [ApiNext]_<<writerVars, req>>
    PROVE  \/ Start \/ Read \/ Underneath
           \/ UNCHANGED <<writerVars, req>>
           \/ req' = Idle /\ UNCHANGED writerVars
BY DEF ApiNext, Start, Read, Finish

LEMMA IdleKeepsShape ==
    ASSUME req' = Idle PROVE ShapeInv'
BY IdleShape DEF ShapeInv, NoSelection

LEMMA ShapeStep ==
    ASSUME WriterInv, ShapeInv, [ApiNext]_<<writerVars, req>> PROVE ShapeInv'
<1>1. CASE Start
  <2>1. up' = up /\ up
    BY <1>1, StartShape DEF writerVars
  <2>2. req'.pc = "summary" => req'.sel.kind = "address_txs"
    BY <1>1, StartShape
  <2> QED BY <1>1, <2>1, <2>2, StartShape, StartKind DEF ShapeInv
<1>2. CASE Read
  <2>0. /\ DOMAIN req = Fields /\ up' /\ DOMAIN req' = Fields /\ req'.sel = req.sel
        /\ req'.pc \notin {"idle", "retry"} /\ req.page \in Nat /\ req'.lost \in Nat
    BY <1>2, ReadShape DEF ShapeInv, writerVars
  <2> USE <2>0
  <2>1. CASE CheckIndexed
    BY <2>1 DEF CheckIndexed, ShapeInv, Fields, RowKinds
  <2>2. CASE ReadRows
    BY <2>2 DEF ReadRows, ShapeInv, Fields, RowKinds, PointerKinds, TransferKinds
  <2>3. CASE ReadCount
    BY <2>3 DEF ReadCount, ShapeInv, Fields, RowKinds, PointerKinds, TransferKinds
  <2>4. CASE ReadTokens
    BY <2>4 DEF ReadTokens, ShapeInv, Fields, RowKinds, PointerKinds, TransferKinds
  <2>5. CASE Hydrate
    BY <2>5 DEF Hydrate, ShapeInv, Fields, RowKinds, PointerKinds, TransferKinds
  <2>6. CASE NextPage
    <3>1. req.sel.kind \in RowKinds \ {"tx"}
      BY <2>6 DEF NextPage, ShapeInv, DetailKinds
    <3>2. /\ req'.pc = "rows" /\ req'.page = req.page + 1 /\ req'.rows = {} /\ req'.tokens = {}
      BY <2>6 DEF NextPage, Fields
    <3> QED BY <3>1, <3>2 DEF ShapeInv, RowKinds, PointerKinds, TransferKinds
  <2>7. CASE CountAddressTxs
    BY <2>7 DEF CountAddressTxs, ShapeInv, Fields, RowKinds, PointerKinds
  <2>8. CASE ReadRange
    BY <2>8 DEF ReadRange, ShapeInv, Fields
  <2>9. CASE LookupRange
    BY <2>9 DEF LookupRange, ShapeInv, Fields
  <2>10. CASE RangesDone
    BY <2>10 DEF RangesDone, ShapeInv, Fields
  <2>11. CASE ReadTokenRow
    BY <2>11 DEF ReadTokenRow, ShapeInv, Fields
  <2>12. CASE ReadSupply
    <3>1. req.sel.kind = "token" /\ req'.pc \in {"done", "failed"} /\ req'.page = req.page
      BY <2>12, SupplyRead DEF ShapeInv
    <3> QED BY <3>1 DEF ShapeInv
  <2>13. CASE Retry
    BY <2>13 DEF Retry, ShapeInv, Fields, FeedKinds
  <2> QED BY <1>2, <2>1, <2>2, <2>3, <2>4, <2>5, <2>6, <2>7, <2>8, <2>9, <2>10, <2>11, <2>12, <2>13
          DEF Read
<1>3. CASE Underneath
  <2>1. CASE Broken
    <3>1. req'.lost \in Nat
      BY <2>1, LossCounts DEF Broken
    <3>2. req'.page \in Nat /\ req'.sel.kind \in FeedKinds /\ req'.sel.kind \in RowKinds
          /\ req'.sel.kind \notin {"output", "outputs"}
      BY <2>1, FeedsAreLists DEF Broken, ShapeInv, FeedKinds, DetailKinds
    <3> QED BY <2>1, <3>1, <3>2 DEF Broken, ShapeInv
  <2>2. CASE ~Broken
    BY <1>3, <2>2, BetweenReads, IdleKeepsShape DEF ShapeInv
  <2> QED BY <2>1, <2>2
<1>4. CASE UNCHANGED <<writerVars, req>>
  BY <1>4 DEF ShapeInv, writerVars
<1> QED BY <1>1, <1>2, <1>3, <1>4, StepKinds, IdleKeepsShape

-----------------------------------------------------------------------------
(* The rows of a page match the index as long as its answer is put together:   *)
(* until then it only grows, or the page is asked for again.                   *)
RowsInv ==
    req.sel.kind \in RowKinds /\ req.pc # "done" => req.rows \subseteq Matching(db, req.sel)

LEMMA RowsStep ==
    ASSUME WriterInv, ShapeInv, RowsInv, [ApiNext]_<<writerVars, req>> PROVE RowsInv'
<1>1. CASE Start
  BY <1>1, StartShape DEF RowsInv
<1>2. CASE Read
  <2>0. DOMAIN req = Fields /\ db' = db /\ req'.sel = req.sel
    BY <1>2, ReadShape DEF ShapeInv, writerVars
  <2>1. \/ req'.rows \in {{}, PageRows(db, req.sel, req.page)}
        \/ req'.rows = req.rows /\ req.pc # "done"
    BY <1>2, <2>0 DEF Read, CheckIndexed, ReadRows, ReadCount, ReadTokens, Hydrate, NextPage, Retry,
         CountAddressTxs, ReadRange, LookupRange, RangesDone, ReadTokenRow, ReadSupply, Fields
  <2>2. PageRows(db, req.sel, req.page) \subseteq Matching(db, req.sel)
    BY DEF PageRows, Window
  <2> QED BY <2>0, <2>1, <2>2 DEF RowsInv
<1>3. CASE Underneath
  BY <1>3, BetweenReads, IdleShape DEF RowsInv, Broken
<1>4. CASE UNCHANGED <<writerVars, req>>
  BY <1>4 DEF RowsInv, writerVars
<1>5. CASE req' = Idle
  BY <1>5, IdleShape DEF RowsInv
<1> QED BY <1>1, <1>2, <1>3, <1>4, <1>5, StepKinds

(* A row of an exact index can be followed in the node's database.             *)
LEMMA RowsHydrate ==
    ASSUME WriterInv, NEW sel, sel.kind \in RowKinds, NEW r \in Matching(db, sel)
    PROVE  Hydrates(r)
<1>1. r \in db.address_txs \cup db.tx_types \cup db.token_transfers
  BY MatchingByKind DEF RowKinds, PointerKinds
<1>2. r.block_number \in 0..db.last_indexed /\ PointsInto(r, r.block_number)
  BY <1>1, WriterFacts, TablesKeyed
<1>3. r.block_number \in Heights /\ r.block_number <= tip
  BY <1>2, WriterFacts DEF WriterInv, Heights
<1> QED BY <1>2, <1>3, NodeAssumption DEF Hydrates, PointsInto

LEMMA DanglingStep ==
    ASSUME WriterInv, ShapeInv, RowsInv, NoDanglingPointer, [ApiNext]_<<writerVars, req>>
    PROVE  NoDanglingPointer'
<1>1. CASE Start
  BY <1>1, StartKind DEF NoDanglingPointer
<1>2. CASE Read
  <2>0. DOMAIN req = Fields
    BY DEF ShapeInv
  <2>1. CASE Hydrate
    <3>1. req.sel.kind \in RowKinds
      BY <2>1 DEF Hydrate, ShapeInv, RowKinds
    <3>2. \A r \in req.rows : Hydrates(r)
      BY <2>1, <3>1, RowsHydrate DEF RowsInv, Hydrate
    <3> QED BY <2>0, <2>1, <3>2 DEF Hydrate, Fields, NoDanglingPointer
  <2>2. CASE ~Hydrate
    BY <1>2, <2>0, <2>2 DEF Read, CheckIndexed, ReadRows, ReadCount, ReadTokens, NextPage, Retry,
         CountAddressTxs, ReadRange, LookupRange, RangesDone, ReadTokenRow, ReadSupply, Fields,
         NoDanglingPointer
  <2> QED BY <2>1, <2>2
<1>3. CASE Underneath
  BY <1>3, BetweenReads, IdleShape DEF NoDanglingPointer, Broken
<1>4. CASE UNCHANGED <<writerVars, req>>
  BY <1>4 DEF NoDanglingPointer
<1>5. CASE req' = Idle
  BY <1>5, IdleShape DEF NoDanglingPointer
<1> QED BY <1>1, <1>2, <1>3, <1>4, <1>5, StepKinds

-----------------------------------------------------------------------------
(* The token route: what the token was owed is still indexed, so a miss of the *)
(* metadata row means there was nothing.                                       *)
TokenInv ==
    req.sel.kind = "token" =>
      /\ \A r \in req.owed : r \in db.token_transfers /\ r.token = req.sel.token
      /\ req.pc = "token" => ~req.fetched
      /\ req.pc = "supply" => ~req.fetched /\ (req.tokens = {} => req.owed = {})
      /\ req.fetched => req.owed = {}

LEMMA TokenStep ==
    ASSUME WriterInv, ShapeInv, TokenInv, [ApiNext]_<<writerVars, req>> PROVE TokenInv'
<1>1. CASE Start
  <2> SUFFICES ASSUME req'.sel.kind = "token" PROVE TokenInv'
    BY DEF TokenInv
  <2>1. req'.pc = "token"
    <3>1. req'.pc \in {"check", "rows", "summary", "range", "ranges", "token"}
      BY <1>1, StartKind
    <3>2. req'.pc = "summary" => req'.sel.kind = "address_txs"
      BY <1>1, StartShape
    <3> QED BY <1>1, <3>1, <3>2, StartKind DEF RowKinds, PointerKinds, TransferKinds
  <2>2. PICK sel \in Selections : /\ sel.kind = "token_transfers"
                                  /\ req'.sel = TokenInfo(sel.token) /\ req'.owed = Matching(db, sel)
    BY <1>1, <2>1, StartShape
  <2>3. req'.owed = {r \in db.token_transfers : r.token = req'.sel.token}
    BY <2>2 DEF Matching, TokenInfo
  <2>4. db' = db /\ req'.fetched = FALSE
    BY <1>1, StartShape DEF writerVars
  <2> QED BY <2>1, <2>3, <2>4 DEF TokenInv
<1>2. CASE Read
  <2>0. DOMAIN req = Fields /\ db' = db /\ req'.sel = req.sel /\ req'.owed = req.owed
    BY <1>2, ReadShape DEF ShapeInv, writerVars
  <2> SUFFICES ASSUME req.sel.kind = "token" PROVE TokenInv'
    BY <2>0 DEF TokenInv
  <2>1. req.pc \in {"token", "supply", "done", "error", "failed"}
    BY <1>2, ReadShape DEF ShapeInv, FeedKinds, RowKinds, PointerKinds, TransferKinds
  <2>2. CASE ReadTokenRow
    <3>1. req.owed # {} => req.sel.token \in DOMAIN db.tokens
      BY WriterFacts DEF TokenInv, Exact, TokensExactIn
    <3>2. token_row(db, req.sel.token) = {} => req.owed = {}
      BY <3>1 DEF token_row
    <3> QED BY <2>0, <2>2, <3>2 DEF ReadTokenRow, TokenInv, Fields
  <2>3. CASE ReadSupply
    BY <2>0, <2>3 DEF ReadSupply, TokenInv, Fields
  <2>4. ReadTokenRow \/ ReadSupply
    BY <1>2, <2>1 DEF Read, CheckIndexed, ReadRows, ReadCount, ReadTokens, Hydrate, NextPage, Retry,
         CountAddressTxs, ReadRange, LookupRange, RangesDone, DetailKinds
  <2> QED BY <2>2, <2>3, <2>4
<1>3. CASE Underneath
  BY <1>3, BetweenReads, IdleShape DEF TokenInv, Broken, FeedKinds, RowKinds, PointerKinds,
     TransferKinds
<1>4. CASE UNCHANGED <<writerVars, req>>
  BY <1>4 DEF TokenInv, writerVars
<1>5. CASE req' = Idle
  BY <1>5, IdleShape DEF TokenInv
<1> QED BY <1>1, <1>2, <1>3, <1>4, <1>5, StepKinds

(* A page's metadata is read after its rows, from an index that has them.      *)
PageTokensInv ==
    req.pc \in {"hydrate", "done"} /\ req.sel.kind \notin PointerKinds \cup {"token"}
      => req.tokens = {r.token : r \in req.rows}

LEMMA PageTokensStep ==
    ASSUME WriterInv, ShapeInv, RowsInv, PageTokensInv, [ApiNext]_<<writerVars, req>>
    PROVE  PageTokensInv'
<1>1. CASE Start
  BY <1>1, StartKind DEF PageTokensInv
<1>2. CASE Read
  <2>0. DOMAIN req = Fields /\ db' = db /\ req'.sel = req.sel
    BY <1>2, ReadShape DEF ShapeInv, writerVars
  <2>1. CASE ReadTokens
    <3>1. req.sel.kind \in TransferKinds \cup {"tx", "tx_transfers"}
      BY <2>1 DEF ReadTokens, ShapeInv, RowKinds
    <3>2. req.rows \subseteq db.token_transfers
      <4>1. req.rows \subseteq Matching(db, req.sel)
        BY <2>1, <3>1 DEF RowsInv, RowKinds, ReadTokens
      <4>2. Matching(db, req.sel) \subseteq db.token_transfers
        BY <3>1, MatchingByKind
      <4> QED BY <4>1, <4>2
    <3>3. {r.token : r \in req.rows} \subseteq DOMAIN db.tokens
      BY <3>2, WriterFacts DEF Exact, TokensExactIn
    <3> QED BY <2>0, <2>1, <3>3 DEF ReadTokens, PageTokensInv, Fields
  <2>2. CASE CheckIndexed \/ RangesDone \/ ReadRange
    <3>1. req'.rows = {} /\ req'.tokens = {}
      BY <2>0, <2>2 DEF ShapeInv, CheckIndexed, RangesDone, ReadRange, Fields
    <3> QED BY <3>1 DEF PageTokensInv
  <2>3. CASE Hydrate
    BY <2>0, <2>3 DEF Hydrate, PageTokensInv, Fields
  <2>4. CASE ReadRows \/ NextPage \/ Retry \/ LookupRange \/ ReadTokenRow
    BY <2>0, <2>4 DEF ReadRows, NextPage, Retry, LookupRange, ReadTokenRow, PageTokensInv, Fields
  <2>5. CASE ReadCount
    BY <2>0, <2>5 DEF ReadCount, PageTokensInv, Fields
  <2>6. CASE CountAddressTxs \/ ReadSupply
    <3>1. req.sel.kind \in PointerKinds \cup {"token"}
      BY <2>6 DEF CountAddressTxs, ReadSupply, ShapeInv, PointerKinds
    <3> QED BY <2>0, <3>1 DEF PageTokensInv
  <2> QED BY <1>2, <2>1, <2>2, <2>3, <2>4, <2>5, <2>6 DEF Read
<1>3. CASE Underneath
  BY <1>3, BetweenReads, IdleShape DEF PageTokensInv, Broken
<1>4. CASE UNCHANGED <<writerVars, req>>
  BY <1>4 DEF PageTokensInv
<1>5. CASE req' = Idle
  BY <1>5, IdleShape DEF PageTokensInv
<1> QED BY <1>1, <1>2, <1>3, <1>4, <1>5, StepKinds

-----------------------------------------------------------------------------
(* The transfers a transaction really made.                                    *)
TransfersOf(sel) == {r \in ChainTransfers(sel.block_number) : r.tx_index = sel.tx_index}

LEMMA MatchingIsTruth ==
    ASSUME WriterInv, NEW sel, sel.kind = "tx",
           sel.block_number \in Nat, sel.block_number <= db.last_indexed
    PROVE  Matching(db, sel) = TransfersOf(sel)
<1>1. db.token_transfers = UNION {ChainTransfers(n) : n \in 0..db.last_indexed}
  BY WriterFacts DEF Exact, PrefixExact
<1>2. 0..db.last_indexed \subseteq Heights /\ sel.block_number \in 0..db.last_indexed
  BY WriterFacts, ChainAssumption DEF WriterInv, Exact, WellFormed, Heights, NoCursor
<1>3. \A n \in 0..db.last_indexed : \A r \in ChainTransfers(n) : r.block_number = n
  BY <1>2, ChainRows DEF PointsInto
<1>4. Matching(db, sel) = {r \in db.token_transfers :
                             r.block_number = sel.block_number /\ r.tx_index = sel.tx_index}
  BY MatchingByKind
<1> QED BY <1>1, <1>2, <1>3, <1>4 DEF TransfersOf

(* Once the block counted as indexed it stays so, and whatever is read after   *)
(* that is the transaction's whole truth.                                      *)
TxInv ==
    req.sel.kind = "tx" =>
      /\ req.sel.block_number \in Nat \ {0}
      /\ req.pc = "check" => req.indexed = FALSE
      /\ req.indexed => req.sel.block_number <= db.last_indexed
      /\ req.indexed /\ req.pc \in {"count", "tokens", "done"}
           => req.rows = Window(TransfersOf(req.sel), req.sel, MAX_PER_PAGE, 0)
      /\ req.indexed /\ req.pc \in {"tokens", "done"}
           => req.total = Cardinality(TransfersOf(req.sel))

LEMMA TxStep ==
    ASSUME WriterInv, ShapeInv, TxInv, [ApiNext]_<<writerVars, req>> PROVE TxInv'
<1>1. CASE Start
  <2> SUFFICES ASSUME req'.sel.kind = "tx" PROVE TxInv'
    BY DEF TxInv
  <2>1. req'.pc = "check"
    <3>1. req'.pc \in {"check", "rows", "summary", "range", "ranges", "token"}
      BY <1>1, StartKind
    <3>2. req'.pc = "summary" => req'.sel.kind = "address_txs"
      BY <1>1, StartShape
    <3> QED BY <1>1, <3>1, <3>2, StartKind
  <2>2. PICK n \in 0..tip : \E i \in DOMAIN Chain[n].txs : req'.sel = TxTransfers(n, i - 1)
    BY <1>1, <2>1, StartShape
  <2>3. req'.sel.block_number = n
    BY <2>2 DEF TxTransfers
  <2>4. DOMAIN Chain[0].txs = {}
    BY NodeAssumption
  <2>5. n \in Nat \ {0}
    BY <2>2, <2>4, WriterFacts
  <2>6. req'.indexed = FALSE
    BY <1>1, StartShape
  <2> QED BY <2>1, <2>3, <2>5, <2>6 DEF TxInv
<1>2. CASE Read
  <2>0. DOMAIN req = Fields /\ db' = db /\ req'.sel = req.sel
    BY <1>2, ReadShape DEF ShapeInv, writerVars
  <2> SUFFICES ASSUME req.sel.kind = "tx" PROVE TxInv'
    BY <2>0 DEF TxInv
  <2>1. req.pc \in {"check", "rows", "count", "tokens", "done", "error"}
    BY <1>2, ReadShape DEF ShapeInv, FeedKinds, RowKinds, PointerKinds, TransferKinds
  <2>2. CASE CheckIndexed
    <3>1. req.sel.block_number <= Larger(published, 0) => req.sel.block_number <= db.last_indexed
      BY WriterFacts DEF WriterInv, TxInv, Larger
    <3>2. \/ req'.pc = "rows" /\ req.sel.block_number <= db.last_indexed
          \/ req'.pc = "done" /\ req'.indexed = FALSE
      BY <2>0, <2>2, <3>1 DEF CheckIndexed, Fields, TxInv
    <3> QED BY <2>0, <3>2 DEF TxInv
  <2>3. CASE ReadRows
    <3>1. req.indexed => req'.rows = Window(TransfersOf(req.sel), req.sel, MAX_PER_PAGE, 0)
      BY <2>0, <2>3, MatchingIsTruth DEF ReadRows, Fields, PageRows, TxInv
    <3> QED BY <2>0, <2>3, <3>1 DEF ReadRows, Fields, TxInv
  <2>4. CASE ReadCount
    <3>1. req.indexed => Total(db, req.sel) = Cardinality(TransfersOf(req.sel))
      BY MatchingIsTruth DEF Total, TxInv
    <3> QED BY <2>0, <2>4, <3>1 DEF ReadCount, Fields, TxInv, PointerKinds
  <2>5. CASE ReadTokens
    BY <2>0, <2>5 DEF ReadTokens, Fields, TxInv
  <2>6. CheckIndexed \/ ReadRows \/ ReadCount \/ ReadTokens
    BY <1>2, <2>1 DEF Read, Hydrate, NextPage, Retry, CountAddressTxs, ReadRange, LookupRange,
         RangesDone, ReadTokenRow, ReadSupply, DetailKinds
  <2> QED BY <2>2, <2>3, <2>4, <2>5, <2>6
<1>3. CASE Underneath
  <2>1. CASE req' = Idle
    BY <2>1, IdleShape DEF TxInv
  <2>2. CASE req' = req /\ db.last_indexed <= db'.last_indexed
    <3>1. db.last_indexed \in Int /\ db'.last_indexed \in Int
      BY <1>3, BetweenReads, WriterFacts DEF WriterInv, Exact, WellFormed, Heights, NoCursor
    <3> QED BY <2>2, <3>1 DEF TxInv
  <2>3. CASE Broken
    BY <2>3 DEF TxInv, Broken, FeedKinds, RowKinds, PointerKinds, TransferKinds
  <2> QED BY <1>3, <2>1, <2>2, <2>3, BetweenReads
<1>4. CASE UNCHANGED <<writerVars, req>>
  BY <1>4 DEF TxInv, writerVars
<1>5. CASE req' = Idle
  BY <1>5, IdleShape DEF TxInv
<1> QED BY <1>1, <1>2, <1>3, <1>4, <1>5, StepKinds

-----------------------------------------------------------------------------
(* Paging.                                                                     *)
LEMMA Offsets ==
    ASSUME NEW page \in Nat
    PROVE  /\ Offset(page) \in Nat /\ PerPage \in Nat \ {0}
           /\ Offset(page + 1) = Offset(page) + PerPage /\ Offset(0) = 0
BY PageAssumption DEF Offset

(* What the blocks up to a height have to contribute.                          *)
TruthUpTo(height) ==
    LET blocks == 0..height IN
    [address_txs     |-> UNION {ChainAddressTxs(n) : n \in blocks},
     tx_types        |-> UNION {ChainTxTypes(n) : n \in blocks},
     token_transfers |-> UNION {ChainTransfers(n) : n \in blocks}]

(* The answer of a list route: its page and the height claimed lie within the  *)
(* total.                                                                      *)
Covered ==
    /\ req.rows # {} => Offset(req.page) + Cardinality(req.rows) <= req.total
    /\ Cardinality(Matching(TruthUpTo(req.claimed), req.sel)) <= req.total

TotalInv ==
    req.sel.kind \in FeedKinds =>
      /\ req.claimed \in Int
      /\ req.pc \notin {"retry", "done"} => req.claimed <= db.last_indexed
      /\ req.pc = "count" /\ req.rows # {}
           => Offset(req.page) + Cardinality(req.rows) <= Cardinality(Matching(db, req.sel))
      /\ req.pc \in {"tokens", "hydrate", "done"} => Covered

(* What was claimed is below the cursor, so its rows are counted.              *)
LEMMA ClaimCounted ==
    ASSUME WriterInv, NEW sel, sel.kind \in RowKinds, NEW claimed \in Int,
           claimed <= db.last_indexed
    PROVE  Cardinality(Matching(TruthUpTo(claimed), sel)) <= Total(db, sel)
<1> DEFINE truth == TruthUpTo(claimed)
<1>1. Exact(db) /\ db.last_indexed \in Int
  BY WriterFacts
<1>2. 0..claimed \subseteq 0..db.last_indexed
  BY <1>1
<1>3. /\ truth.address_txs \subseteq db.address_txs /\ truth.tx_types \subseteq db.tx_types
      /\ truth.token_transfers \subseteq db.token_transfers
  BY <1>1, <1>2 DEF TruthUpTo, Exact, PrefixExact
<1> HIDE DEF truth
<1>4. Matching(truth, sel) \in SUBSET Matching(db, sel)
  BY <1>3, MatchingGrows
<1>5. IsFiniteSet(Matching(db, sel))
  BY <1>1, MatchingOrdered DEF Ordered
<1>6. Cardinality(Matching(truth, sel)) <= Cardinality(Matching(db, sel))
  BY <1>4, <1>5, FS_Subset
<1> QED BY <1>1, <1>6, TotalCounts DEF truth

LEMMA TotalStep ==
    ASSUME WriterInv, ShapeInv, RowsInv, TotalInv, [ApiNext]_<<writerVars, req>> PROVE TotalInv'
<1>0. Exact(db) /\ db.last_indexed \in Int /\ published \in Int /\ published <= db.last_indexed
  BY WriterFacts DEF WriterInv
<1>1. CASE Start
  <2> SUFFICES ASSUME req'.sel.kind \in FeedKinds PROVE TotalInv'
    BY DEF TotalInv
  <2>1. req'.pc \in {"rows", "summary"}
    BY <1>1, StartKind DEF FeedKinds, RowKinds, PointerKinds, TransferKinds
  <2>2. req'.claimed = published /\ db' = db
    BY <1>1, <2>1, StartShape DEF writerVars
  <2> QED BY <1>0, <2>1, <2>2 DEF TotalInv
<1>2. CASE Read
  <2>0. DOMAIN req = Fields /\ db' = db /\ req'.sel = req.sel /\ req.page \in Nat
        /\ req'.claimed = IF req.pc \in {"done", "retry"} THEN published ELSE req.claimed
    BY <1>2, ReadShape DEF ShapeInv, writerVars
  <2> SUFFICES ASSUME req.sel.kind \in FeedKinds PROVE TotalInv'
    BY <2>0 DEF TotalInv
  <2>1. /\ req.sel.kind \in RowKinds \ {"tx"} /\ req'.claimed \in Int
        /\ req'.claimed <= db.last_indexed
        /\ req.pc \notin {"done", "retry"} => req'.claimed = req.claimed
    BY <1>0, <2>0 DEF FeedKinds, TotalInv
  <2>2. CASE ReadRows
    <3>1. /\ req'.pc = "count" /\ req'.page = req.page
          /\ req'.rows = Window(Matching(db, req.sel), req.sel, PerPage, Offset(req.page))
      BY <2>0, <2>1, <2>2 DEF ReadRows, PageRows, Fields
    <3>2. Ordered(Matching(db, req.sel), req.sel)
      BY <1>0, <2>1, MatchingOrdered
    <3>3. req'.rows # {} => Offset(req.page) + Cardinality(req'.rows)
                              <= Cardinality(Matching(db, req.sel))
      BY <2>0, <3>1, <3>2, WindowFits, Offsets
    <3> QED BY <2>0, <2>1, <3>1, <3>3 DEF TotalInv
  <2>3. CASE ReadCount
    <3>1. /\ req'.page = req.page /\ req'.rows = req.rows /\ req'.total = Total(db, req.sel)
          /\ req'.pc \in {"tokens", "hydrate"} /\ req.pc = "count"
      BY <2>0, <2>3 DEF ReadCount, Fields
    <3>2. Covered'
      BY <1>0, <2>0, <2>1, <3>1, ClaimCounted, TotalCounts DEF TotalInv, Covered
    <3> QED BY <2>0, <2>1, <3>1, <3>2 DEF TotalInv
  <2>4. CASE CountAddressTxs
    <3>1. /\ req'.page = req.page /\ req'.rows = {} /\ req'.total = Total(db, req.sel)
          /\ req'.pc = "done"
      BY <2>0, <2>4 DEF CountAddressTxs, Fields, ShapeInv
    <3>2. Covered'
      BY <2>0, <2>1, <3>1, ClaimCounted DEF Covered, FeedKinds
    <3> QED BY <2>0, <2>1, <3>1, <3>2 DEF TotalInv
  <2>5. CASE ReadTokens \/ Hydrate
    <3>1. /\ req'.page = req.page /\ req'.rows = req.rows /\ req'.total = req.total
          /\ req'.pc \in {"hydrate", "done", "error"} /\ req.pc \in {"tokens", "hydrate"}
      BY <2>0, <2>5 DEF ReadTokens, Hydrate, Fields
    <3>2. Covered'
      BY <2>0, <3>1 DEF TotalInv, Covered
    <3> QED BY <2>0, <2>1, <3>1, <3>2 DEF TotalInv
  <2>6. CASE NextPage \/ Retry
    <3>1. req'.pc = "rows"
      BY <2>0, <2>6 DEF NextPage, Retry, Fields
    <3> QED BY <2>0, <2>1, <3>1 DEF TotalInv
  <2>7. ReadRows \/ ReadCount \/ CountAddressTxs \/ ReadTokens \/ Hydrate \/ NextPage \/ Retry
    BY <1>2, <2>1 DEF Read, CheckIndexed, ReadRange, LookupRange, RangesDone, ReadTokenRow,
         ReadSupply, ShapeInv, RowKinds, PointerKinds, TransferKinds
  <2> QED BY <2>2, <2>3, <2>4, <2>5, <2>6, <2>7
<1>3. CASE Underneath
  <2>1. CASE req' = Idle
    BY <2>1, IdleShape DEF TotalInv, FeedKinds, RowKinds, PointerKinds, TransferKinds
  <2>2. CASE /\ req' = req /\ db.last_indexed <= db'.last_indexed
             /\ \A sel : sel.kind \in RowKinds => Matching(db, sel) \subseteq Matching(db', sel)
    <3> SUFFICES ASSUME req.sel.kind \in FeedKinds PROVE TotalInv'
      BY <2>2 DEF TotalInv
    <3>1. WriterInv' /\ Exact(db') /\ db'.last_indexed \in Int
      BY <1>3, BetweenReads DEF WriterInv, Exact, WellFormed, Heights, NoCursor
    <3>2. req.sel.kind \in RowKinds
      BY DEF FeedKinds
    <3>3. IsFiniteSet(Matching(db', req.sel)) /\ Matching(db, req.sel) \in SUBSET Matching(db', req.sel)
      BY <2>2, <3>1, <3>2, MatchingOrdered DEF Ordered
    <3>4. IsFiniteSet(Matching(db, req.sel))
          /\ Cardinality(Matching(db, req.sel)) <= Cardinality(Matching(db', req.sel))
      BY <3>3, FS_Subset
    <3>5. req.pc = "count" => IsFiniteSet(req.rows)
      BY <3>2, <3>4, FS_Subset DEF RowsInv
    <3>6. /\ Cardinality(Matching(db, req.sel)) \in Nat /\ Cardinality(Matching(db', req.sel)) \in Nat
          /\ (req.pc = "count" => Cardinality(req.rows) \in Nat) /\ Offset(req.page) \in Nat
      BY <3>3, <3>4, <3>5, FS_CardinalityType, Offsets DEF ShapeInv
    <3>7. req.pc = "count" /\ req.rows # {}
            => Offset(req.page) + Cardinality(req.rows) <= Cardinality(Matching(db', req.sel))
      BY <3>4, <3>6 DEF TotalInv
    <3>8. /\ req.claimed \in Int
          /\ req.pc \notin {"retry", "done"} => req.claimed <= db'.last_indexed
      BY <1>0, <2>2, <3>1 DEF TotalInv
    <3>9. Covered => Covered'
      BY <2>2 DEF Covered
    <3> QED BY <2>2, <3>7, <3>8, <3>9 DEF TotalInv
  <2>3. CASE Broken
    BY <2>3 DEF Broken, TotalInv, Covered
  <2> QED BY <1>3, <2>1, <2>2, <2>3, BetweenReads
<1>4. CASE UNCHANGED <<writerVars, req>>
  BY <1>4 DEF TotalInv, Covered, writerVars
<1>5. CASE req' = Idle
  BY <1>5, IdleShape DEF TotalInv, FeedKinds, RowKinds, PointerKinds, TransferKinds
<1> QED BY <1>1, <1>2, <1>3, <1>4, <1>5, StepKinds

-----------------------------------------------------------------------------
(* Walking a list page after page. A row the client is owed and has not seen   *)
(* slips when it is taken back, or when losses before it shift it below the    *)
(* offset asked for next: there is no other way to miss it, since a row's      *)
(* place only grows while the index does, and each row taken back lets at most *)
(* one row slip.                                                               *)
Slipped(d, sel, left, offset) ==
    {r \in left : r \notin Matching(d, sel) \/ Place(Matching(d, sel), sel, r) < offset}

LEMMA SubsetBound ==
    ASSUME NEW S, IsFiniteSet(S), NEW T, T \subseteq S
    PROVE  /\ IsFiniteSet(T) /\ Cardinality(T) <= Cardinality(S)
           /\ Cardinality(T) \in Nat /\ Cardinality(S) \in Nat
<1>1. T \in SUBSET S
  OBVIOUS
<1> QED BY <1>1, FS_Subset, FS_CardinalityType

LEMMA UnionBound ==
    ASSUME NEW S, IsFiniteSet(S), NEW T, IsFiniteSet(T)
    PROVE  /\ IsFiniteSet(S \cup T)
           /\ Cardinality(S \cup T) <= Cardinality(S) + Cardinality(T)
           /\ Cardinality(S) \in Nat /\ Cardinality(T) \in Nat /\ Cardinality(S \cup T) \in Nat
<1>1. IsFiniteSet(S \cup T) /\ Cardinality(S \cup T) = Cardinality(S) + Cardinality(T)
                                                         - Cardinality(S \cap T)
  BY FS_Union
<1>2. Cardinality(S \cap T) \in Nat
  BY SubsetBound
<1>3. Cardinality(S) \in Nat /\ Cardinality(T) \in Nat /\ Cardinality(S \cup T) \in Nat
  BY <1>1, FS_CardinalityType
<1> QED BY <1>1, <1>2, <1>3

(* Between two exact contents, a row is kept exactly if its block is.          *)
LEMMA KeptByBlock ==
    ASSUME NEW d, NEW e, Exact(d), Exact(e), NEW sel, sel.kind \in RowKinds,
           NEW r \in Matching(d, sel)
    PROVE  /\ r.block_number \in Nat
           /\ r \in Matching(e, sel) <=> r.block_number \in 0..e.last_indexed
<1>1. 0..d.last_indexed \subseteq Heights
  BY ChainAssumption DEF Exact, WellFormed, Heights, NoCursor
<1>2. /\ \A n \in Heights : \A x \in ChainAddressTxs(n) \cup ChainTxTypes(n) \cup ChainTransfers(n) :
           x.block_number = n
  BY ChainRows DEF PointsInto
<1>3. /\ d.address_txs = UNION {ChainAddressTxs(n) : n \in 0..d.last_indexed}
      /\ d.tx_types = UNION {ChainTxTypes(n) : n \in 0..d.last_indexed}
      /\ d.token_transfers = UNION {ChainTransfers(n) : n \in 0..d.last_indexed}
      /\ e.address_txs = UNION {ChainAddressTxs(n) : n \in 0..e.last_indexed}
      /\ e.tx_types = UNION {ChainTxTypes(n) : n \in 0..e.last_indexed}
      /\ e.token_transfers = UNION {ChainTransfers(n) : n \in 0..e.last_indexed}
  BY DEF Exact, PrefixExact
<1>4. /\ r \in d.address_txs => r \in ChainAddressTxs(r.block_number)
      /\ r \in d.tx_types => r \in ChainTxTypes(r.block_number)
      /\ r \in d.token_transfers => r \in ChainTransfers(r.block_number)
  BY <1>1, <1>2, <1>3
<1>5. /\ \A x \in e.address_txs \cup e.tx_types \cup e.token_transfers :
           x.block_number \in 0..e.last_indexed
      /\ \A x \in d.address_txs \cup d.tx_types \cup d.token_transfers :
           x.block_number \in 0..d.last_indexed
  BY TablesKeyed
<1> DEFINE kept == r.block_number \in 0..e.last_indexed
<1>6. /\ r \in d.address_txs => (r \in e.address_txs <=> kept)
      /\ r \in d.tx_types => (r \in e.tx_types <=> kept)
      /\ r \in d.token_transfers => (r \in e.token_transfers <=> kept)
  BY <1>3, <1>4, <1>5
<1> HIDE DEF kept
<1>7. r \in Matching(e, sel) <=> kept
  BY <1>6 DEF Matching, RowKinds, PointerKinds, TransferKinds
<1>8. r \in d.address_txs \cup d.tx_types \cup d.token_transfers
  BY MatchingByKind DEF RowKinds, PointerKinds
<1> QED BY <1>1, <1>5, <1>7, <1>8 DEF kept, Heights

(* Lists are newest first, and the feed of one transaction is of one block.    *)
LEMMA NewestFirst ==
    ASSUME NEW d, Exact(d), NEW sel, sel.kind \in RowKinds,
           NEW r \in Matching(d, sel), NEW q \in Matching(d, sel), Before(sel, q, r)
    PROVE  r.block_number <= q.block_number
<1>1. r.block_number \in Nat /\ q.block_number \in Nat
  BY KeptByBlock
<1>2. CASE sel.kind \in {"tx", "tx_transfers"}
  BY <1>1, <1>2, MatchingByKind
<1>3. CASE sel.kind \in PointerKinds
  BY <1>1, <1>3 DEF Before, PointerBefore, PointerKinds
<1>4. CASE sel.kind \in TransferKinds
  BY <1>1, <1>4 DEF Before, TransferBefore, PointerBefore, PointerKinds, TransferKinds
<1> QED BY <1>2, <1>3, <1>4 DEF RowKinds

(* What is taken back was ahead of everything that is not: a row moves up by   *)
(* no more places than rows were taken back, and one that is taken back itself *)
(* was among the first.                                                        *)
LEMMA ShiftBounded ==
    ASSUME NEW d, NEW e, Exact(d), Exact(e), NEW sel, sel.kind \in RowKinds,
           NEW r \in Matching(d, sel), NEW offset \in Nat,
           r \notin Matching(e, sel) \/ Place(Matching(e, sel), sel, r) < offset
    PROVE  LET gone == Matching(d, sel) \ Matching(e, sel) IN
           Place(Matching(d, sel), sel, r) < offset + Cardinality(gone)
<1> DEFINE rows == Matching(d, sel)
           left == Matching(e, sel)
           gone == rows \ left
<1>1. IsFiniteSet(rows) /\ IsFiniteSet(left) /\ ~Before(sel, r, r)
  BY MatchingOrdered DEF Ordered
<1>2. IsFiniteSet(gone) /\ Cardinality(gone) \in Nat
  BY <1>1, SubsetBound
<1>3. Place(rows, sel, r) \in Nat
  BY <1>1, PlaceGrows
<1>4. CASE r \in left
  <2>1. Place(left, sel, r) < offset /\ Place(left, sel, r) \in Nat
    BY <1>1, <1>4, PlaceGrows
  <2>2. Ahead(rows, sel, r) \subseteq Ahead(left, sel, r) \cup gone
    BY DEF Ahead
  <2>3. IsFiniteSet(Ahead(left, sel, r))
    BY <1>1, SubsetBound DEF Ahead
  <2> HIDE DEF gone, rows, left
  <2>4. /\ IsFiniteSet(Ahead(left, sel, r) \cup gone)
        /\ Cardinality(Ahead(left, sel, r) \cup gone)
             <= Cardinality(Ahead(left, sel, r)) + Cardinality(gone)
        /\ Cardinality(Ahead(left, sel, r) \cup gone) \in Nat
    BY <1>2, <2>3, UnionBound
  <2>5. Cardinality(Ahead(rows, sel, r)) <= Cardinality(Ahead(left, sel, r) \cup gone)
    BY <2>2, <2>4, SubsetBound
  <2> QED BY <1>2, <1>3, <2>1, <2>4, <2>5 DEF Place, gone, rows, left
<1>5. CASE r \notin left
  <2>1. r.block_number \in Nat /\ r.block_number \notin 0..e.last_indexed
    BY <1>5, KeptByBlock
  <2>2. ASSUME NEW q \in Ahead(rows, sel, r) PROVE q \in gone \ {r}
    <3>1. q \in rows /\ Before(sel, q, r)
      BY DEF Ahead
    <3>2. r.block_number <= q.block_number /\ q.block_number \in Nat
      BY <3>1, NewestFirst, KeptByBlock
    <3>3. e.last_indexed \in Int
      BY ChainAssumption DEF Exact, WellFormed, Heights, NoCursor
    <3>4. q.block_number \notin 0..e.last_indexed
      BY <2>1, <3>2, <3>3
    <3> QED BY <1>1, <3>1, <3>4, KeptByBlock
  <2>3. r \in gone
    BY <1>5
  <2> HIDE DEF gone, rows, left
  <2>4. IsFiniteSet(gone \ {r}) /\ Cardinality(gone \ {r}) = Cardinality(gone) - 1
    BY <1>2, <2>3, FS_RemoveElement
  <2>5. Cardinality(Ahead(rows, sel, r)) <= Cardinality(gone \ {r})
    BY <2>2, <2>4, SubsetBound
  <2> QED BY <1>2, <1>3, <2>4, <2>5 DEF Place, gone, rows, left
<1> QED BY <1>4, <1>5

(* Each row taken back lets at most one more row slip; growth lets none.       *)
LEMMA Slippage ==
    ASSUME NEW d, NEW e, Exact(d), Exact(e), NEW sel, sel.kind \in RowKinds,
           NEW left, IsFiniteSet(left), NEW offset \in Nat
    PROVE  LET gone == Matching(d, sel) \ Matching(e, sel) IN
           /\ Cardinality(Slipped(e, sel, left, offset))
                <= Cardinality(Slipped(d, sel, left, offset)) + Cardinality(gone)
           /\ Cardinality(Slipped(d, sel, left, offset)) \in Nat
           /\ Cardinality(Slipped(e, sel, left, offset)) \in Nat
<1> DEFINE rows == Matching(d, sel)
           gone == rows \ Matching(e, sel)
           old == Slipped(d, sel, left, offset)
           new == Slipped(e, sel, left, offset)
           more == new \ old
           k == Cardinality(gone)
           span == offset..(offset + k - 1)
           place == [r \in more |-> Place(rows, sel, r)]
<1>1. Ordered(rows, sel)
  BY MatchingOrdered
<1>2. k \in Nat
  BY <1>1, SubsetBound DEF Ordered
<1>3. /\ IsFiniteSet(old) /\ IsFiniteSet(new)
      /\ Cardinality(old) \in Nat /\ Cardinality(new) \in Nat
  BY SubsetBound DEF Slipped
<1>4. ASSUME NEW r \in more PROVE r \in rows /\ Place(rows, sel, r) \in span
  <2>1. r \in rows /\ ~(Place(rows, sel, r) < offset)
    BY DEF Slipped
  <2>2. r \notin Matching(e, sel) \/ Place(Matching(e, sel), sel, r) < offset
    BY DEF Slipped
  <2>3. Place(rows, sel, r) < offset + k
    BY <2>1, <2>2, ShiftBounded
  <2>4. Place(rows, sel, r) \in Nat
    BY <1>1, PlaceGrows DEF Ordered
  <2> QED BY <1>2, <2>1, <2>3, <2>4
<1>5. IsFiniteSet(span) /\ Cardinality(span) = k
  <2> HIDE DEF k
  <2>1. offset \in Int /\ offset + k - 1 \in Int
    BY <1>2
  <2>2. IsFiniteSet(span) /\ Cardinality(span) = IF offset > offset + k - 1 THEN 0
                                                 ELSE (offset + k - 1) - offset + 1
    BY <2>1, FS_Interval
  <2> QED BY <1>2, <2>2
<1> HIDE DEF rows, more, span, k
<1>6. place \in [more -> span]
  BY <1>4
<1>7. \A r, q \in more : place[r] = place[q] => r = q
  BY <1>1, <1>4, Places
<1>8. place \in Injection(more, span)
  BY <1>6, <1>7, Fun_IsInj
<1> HIDE DEF place
<1>9. IsFiniteSet(more) /\ Cardinality(more) <= k
  BY <1>5, <1>8, FS_Injection
<1>10. new \subseteq old \cup more
  BY DEF more
<1> HIDE DEF old, new
<1>11. /\ IsFiniteSet(old \cup more)
       /\ Cardinality(old \cup more) <= Cardinality(old) + Cardinality(more)
       /\ Cardinality(more) \in Nat /\ Cardinality(old \cup more) \in Nat
  BY <1>3, <1>9, UnionBound
<1>12. Cardinality(new) <= Cardinality(old \cup more)
  BY <1>10, <1>11, SubsetBound
<1> QED BY <1>2, <1>3, <1>9, <1>11, <1>12 DEF old, new, k, rows

(* At every page the client has let slip at most as many rows as were taken    *)
(* back, and an empty page leaves it nothing else to ask for.                  *)
WalkInv ==
    req.sel.kind \in FeedKinds =>
      /\ IsFiniteSet(req.owed)
      /\ req.pc = "summary" => req.owed = {}
      /\ req.pc \in {"retry", "rows", "count", "tokens", "hydrate"} =>
           Cardinality(Slipped(db, req.sel, req.owed \ req.seen, Offset(req.page))) <= req.lost
      /\ req.pc \in {"count", "tokens", "hydrate", "done"} =>
           /\ Cardinality(Slipped(db, req.sel, req.owed \ (req.seen \cup req.rows),
                                  Offset(req.page + 1))) <= req.lost
           /\ req.rows = {} => Cardinality(req.owed \ req.seen) <= req.lost

LEMMA WalkStep ==
    ASSUME WriterInv, ShapeInv, WalkInv, [ApiNext]_<<writerVars, req>> PROVE WalkInv'
<1>0. Exact(db) /\ req.lost \in Nat /\ req.page \in Nat
  BY WriterFacts DEF ShapeInv
<1>1. CASE Start
  <2> SUFFICES ASSUME req'.sel.kind \in FeedKinds PROVE WalkInv'
    BY DEF WalkInv
  <2> DEFINE sel == req'.sel
  <2>1. req'.pc \in {"rows", "summary"} /\ db' = db /\ req'.lost = 0
    BY <1>1, StartKind, StartShape DEF FeedKinds, RowKinds, PointerKinds, TransferKinds, writerVars
  <2>2. req'.pc = "summary" => req'.owed = {}
    BY <1>1, StartShape
  <2>3. CASE req'.pc = "rows"
    <3>1. req'.page = 0 /\ req'.owed = Matching(db, sel) /\ req'.seen = {}
      BY <1>1, <2>3, StartShape
    <3>2. sel.kind \in RowKinds
      BY DEF FeedKinds
    <3>3. IsFiniteSet(Matching(db, sel))
      BY <1>0, <3>2, MatchingOrdered DEF Ordered
    <3>4. \A r : Place(Matching(db, sel), sel, r) \in Nat
      BY <3>3, PlaceGrows
    <3>5. Slipped(db, sel, Matching(db, sel), Offset(0)) = {}
      BY <3>4, Offsets DEF Slipped
    <3> QED BY <2>1, <2>3, <3>1, <3>3, <3>5, FS_EmptySet DEF WalkInv
  <2> QED BY <2>1, <2>2, <2>3, FS_EmptySet DEF WalkInv
<1>2. CASE Read
  <2>0. DOMAIN req = Fields /\ db' = db /\ req'.sel = req.sel /\ req'.owed = req.owed
        /\ req'.lost = req.lost
    BY <1>2, ReadShape DEF ShapeInv, writerVars
  <2> SUFFICES ASSUME req.sel.kind \in FeedKinds PROVE WalkInv'
    BY <2>0 DEF WalkInv
  <2> DEFINE rows == Matching(db, req.sel)
  <2>1. req.sel.kind \in RowKinds \ {"tx"} /\ IsFiniteSet(req.owed)
    BY DEF FeedKinds, WalkInv
  <2>2. CASE ReadRows
    <3> DEFINE left == req.owed \ req.seen
               page == Window(rows, req.sel, PerPage, Offset(req.page))
               slipped == Slipped(db, req.sel, left, Offset(req.page))
               next == Slipped(db, req.sel, req.owed \ (req.seen \cup page), Offset(req.page + 1))
    <3>1. /\ req'.pc = "count" /\ req'.page = req.page /\ req'.seen = req.seen
          /\ req'.rows = page /\ req.pc = "rows"
      BY <2>0, <2>1, <2>2 DEF ReadRows, PageRows, Fields
    <3>2. Ordered(rows, req.sel)
      BY <1>0, <2>1, MatchingOrdered
    <3>3. /\ Offset(req.page) \in Nat /\ PerPage \in Nat \ {0}
          /\ Offset(req.page + 1) = Offset(req.page) + PerPage
      BY <1>0, Offsets
    <3>4. \A r : Place(rows, req.sel, r) \in Nat
      BY <3>2, PlaceGrows DEF Ordered
    <3>5. IsFiniteSet(slipped) /\ Cardinality(slipped) <= req.lost
      BY <2>1, <3>1, SubsetBound DEF WalkInv, Slipped
    <3>6. ASSUME NEW r \in next PROVE r \in slipped
      <4>1. r \in left /\ r \notin page
            /\ (r \in rows => Place(rows, req.sel, r) < Offset(req.page + 1))
        BY DEF Slipped
      <4>2. r \in rows => Place(rows, req.sel, r) \notin Offset(req.page)..(Offset(req.page) + PerPage - 1)
        BY <4>1 DEF Window, Place, Ahead
      <4>3. r \in rows => Place(rows, req.sel, r) < Offset(req.page)
        BY <3>3, <3>4, <4>1, <4>2
      <4> QED BY <4>1, <4>3 DEF Slipped
    <3>7. ASSUME page = {}, NEW r \in left PROVE r \in slipped
      <4>1. ~(r \in rows /\ Offset(req.page) <= Place(rows, req.sel, r))
        BY <3>2, <3>3, <3>7, WindowReaches
      <4>2. r \notin rows \/ Place(rows, req.sel, r) < Offset(req.page)
        BY <3>3, <3>4, <4>1
      <4> QED BY <4>2 DEF Slipped
    <3> HIDE DEF slipped, next, page, left
    <3>8. Cardinality(next) <= Cardinality(slipped) /\ Cardinality(next) \in Nat
          /\ Cardinality(slipped) \in Nat
      BY <3>5, <3>6, SubsetBound
    <3>9. page = {} => Cardinality(left) <= Cardinality(slipped) /\ Cardinality(left) \in Nat
      BY <3>5, <3>7, SubsetBound
    <3>10. Cardinality(next) <= req.lost /\ (page = {} => Cardinality(left) <= req.lost)
      BY <1>0, <3>5, <3>8, <3>9
    <3> QED BY <2>0, <2>1, <3>1, <3>5, <3>10 DEF WalkInv, slipped, next, left
  <2>3. CASE ReadCount \/ ReadTokens \/ Hydrate
    <3>1. /\ req'.page = req.page /\ req'.rows = req.rows /\ req'.seen = req.seen
          /\ req'.pc \in {"tokens", "hydrate", "done", "error"}
          /\ req.pc \in {"count", "tokens", "hydrate"}
      BY <2>0, <2>3 DEF ReadCount, ReadTokens, Hydrate, Fields
    <3> QED BY <2>0, <3>1 DEF WalkInv
  <2>4. CASE CountAddressTxs
    <3>1. req.owed = {} /\ req'.pc = "done"
      BY <2>0, <2>4 DEF CountAddressTxs, WalkInv, Fields
    <3>2. \A left, offset : left = {} => Slipped(db, req.sel, left, offset) = {}
      BY DEF Slipped
    <3>3. /\ req'.owed \ (req'.seen \cup req'.rows) = {} /\ req'.owed \ req'.seen = {}
      BY <2>0, <3>1
    <3> QED BY <1>0, <2>0, <2>1, <3>1, <3>2, <3>3, FS_EmptySet DEF WalkInv
  <2>5. CASE NextPage
    <3>1. /\ req'.pc = "rows" /\ req'.page = req.page + 1 /\ req'.seen = req.seen \cup req.rows
          /\ req.pc = "done"
      BY <2>0, <2>5 DEF NextPage, Fields
    <3> QED BY <2>0, <3>1 DEF WalkInv
  <2>6. CASE Retry
    <3>1. req'.pc = "rows" /\ req'.page = req.page /\ req'.seen = req.seen /\ req.pc = "retry"
      BY <2>0, <2>6 DEF Retry, Fields
    <3> QED BY <2>0, <3>1 DEF WalkInv
  <2>7. ReadRows \/ ReadCount \/ CountAddressTxs \/ ReadTokens \/ Hydrate \/ NextPage \/ Retry
    BY <1>2, <2>1 DEF Read, CheckIndexed, ReadRange, LookupRange, RangesDone, ReadTokenRow,
         ReadSupply, ShapeInv, RowKinds, PointerKinds, TransferKinds
  <2> QED BY <2>2, <2>3, <2>4, <2>5, <2>6, <2>7
<1>3. CASE Underneath
  <2>1. CASE req' = Idle
    BY <2>1, IdleShape DEF WalkInv, FeedKinds, RowKinds, PointerKinds, TransferKinds
  <2>2. ASSUME req.sel.kind \in FeedKinds, NEW left, IsFiniteSet(left), NEW page \in Nat
        PROVE  /\ Cardinality(Slipped(db', req.sel, left, Offset(page)))
                    <= Cardinality(Slipped(db, req.sel, left, Offset(page))) + Cardinality(TakenBack)
               /\ Cardinality(Slipped(db, req.sel, left, Offset(page))) \in Nat
               /\ Cardinality(Slipped(db', req.sel, left, Offset(page))) \in Nat
    <3>1. Exact(db')
      BY <1>3, BetweenReads DEF WriterInv
    <3> QED BY <1>0, <2>2, <3>1, Slippage, Offsets DEF TakenBack, FeedKinds
  <2>3. /\ req.page + 1 \in Nat
        /\ req.sel.kind \in FeedKinds =>
             /\ IsFiniteSet(req.owed \ req.seen)
             /\ IsFiniteSet(req.owed \ (req.seen \cup req.rows))
             /\ Cardinality(req.owed \ req.seen) \in Nat
    BY <1>0, SubsetBound DEF WalkInv
  <2>4. CASE /\ req' = req
             /\ \A sel : sel.kind \in RowKinds => Matching(db, sel) \subseteq Matching(db', sel)
    <3> SUFFICES ASSUME req.sel.kind \in FeedKinds PROVE WalkInv'
      BY <2>4 DEF WalkInv
    <3>1. TakenBack = {}
      BY <2>4 DEF TakenBack, FeedKinds
    <3>2. Cardinality(TakenBack) = 0
      BY <3>1, FS_EmptySet
    <3>3. \A left, page : IsFiniteSet(left) /\ page \in Nat /\
             Cardinality(Slipped(db, req.sel, left, Offset(page))) <= req.lost
            => Cardinality(Slipped(db', req.sel, left, Offset(page))) <= req.lost
      BY <1>0, <2>2, <3>2
    <3> QED BY <1>0, <2>3, <2>4, <3>3 DEF WalkInv
  <2>5. CASE Broken
    <3> SUFFICES ASSUME req.sel.kind \in FeedKinds PROVE WalkInv'
      BY <2>5 DEF WalkInv, Broken
    <3>1. req'.lost = req.lost + Cardinality(TakenBack) /\ Cardinality(TakenBack) \in Nat
      BY <2>5, LossCounts DEF Broken
    <3>2. \A left, page : IsFiniteSet(left) /\ page \in Nat /\
             Cardinality(Slipped(db, req.sel, left, Offset(page))) <= req.lost
            => Cardinality(Slipped(db', req.sel, left, Offset(page))) <= req'.lost
      BY <1>0, <2>2, <3>1
    <3>3. Cardinality(req.owed \ req.seen) <= req.lost => Cardinality(req.owed \ req.seen) <= req'.lost
      BY <1>0, <2>3, <3>1
    <3> QED BY <1>0, <2>3, <2>5, <3>2, <3>3 DEF WalkInv, Broken
  <2> QED BY <1>3, <2>1, <2>4, <2>5, BetweenReads
<1>4. CASE UNCHANGED <<writerVars, req>>
  BY <1>4 DEF WalkInv, writerVars
<1>5. CASE req' = Idle
  BY <1>5, IdleShape DEF WalkInv, FeedKinds, RowKinds, PointerKinds, TransferKinds
<1> QED BY <1>1, <1>2, <1>3, <1>4, <1>5, StepKinds

-----------------------------------------------------------------------------
(* Outputs and their blocks.                                                   *)

(* The range of an output, if it has one, is its indexed blocks.               *)
LEMMA RangeIsIndexed ==
    ASSUME WriterInv, NEW g, NEW r \in consensus_range_by_digest(db, g)
    PROVE  /\ r.first_block \in Nat /\ r.last_block \in Nat
           /\ r.first_block..r.last_block = OutputBlocks(g, db.last_indexed)
           /\ OutputBlocks(g, db.last_indexed) # {}
<1>1. g \in DOMAIN db.consensus_blocks /\ r = db.consensus_blocks[g]
  BY DEF consensus_range_by_digest
<1> QED BY <1>1, WriterFacts DEF Exact, RangesExactIn, WellFormed, Heights

(* A batch position within the range is the block whose header has it.         *)
LEMMA PositionIsBatch ==
    ASSUME WriterInv, NEW g, NEW i \in Int, i >= 1,
           NEW n \in exec_block_number(consensus_range_by_digest(db, g), i - 1)
    PROVE  /\ n \in Int /\ n <= db.last_indexed
           /\ \E f \in decode_consensus_fields(Chain[n].header) :
                f.digest = g /\ f.batch_index = i - 1
<1>1. PICK r \in consensus_range_by_digest(db, g) : n = r.first_block + (i - 1)
  BY DEF exec_block_number
<1>2. n <= r.last_block
  BY <1>1 DEF exec_block_number
<1> DEFINE m == r.first_block
<1>3. /\ m \in Nat /\ r.last_block \in Nat
      /\ m..r.last_block = OutputBlocks(g, db.last_indexed)
  BY <1>1, RangeIsIndexed
<1>4. n = m + (i - 1) /\ n \in Int /\ m <= n /\ n \in m..r.last_block /\ m \in m..r.last_block
  BY <1>1, <1>2, <1>3
<1>5. n \in OutputBlocks(g, db.last_indexed) /\ m \in OutputBlocks(g, db.last_indexed)
  BY <1>3, <1>4
<1>6. /\ NamesOutput(n, g) /\ NamesOutput(m, g)
      /\ n <= db.last_indexed /\ n \in Heights /\ m \in Heights
  BY <1>5, WriterFacts, ChainAssumption DEF OutputBlocks, Exact, WellFormed, Heights, NoCursor
<1>7. ~NamesOutput(m - 1, g)
  <2> SUFFICES ASSUME NamesOutput(m - 1, g) PROVE FALSE
    OBVIOUS
  <2>1. m - 1 > 0
    BY DEF NamesOutput
  <2>2. m - 1 \in 0..db.last_indexed
    BY <1>3, <1>4, <1>6, <2>1, WriterFacts
  <2>3. m - 1 \in m..r.last_block
    BY <1>3, <2>2 DEF OutputBlocks
  <2> QED BY <1>3, <2>3
<1>8. g = Chain[m].header.parent_beacon_block_root /\ g = Chain[n].header.parent_beacon_block_root
  BY <1>6 DEF NamesOutput
<1>9. Chain[n].header.difficulty \div WORKER_SPAN = n - m
  BY <1>4, <1>6, <1>7, <1>8, BatchesInOrder
<1>10. /\ Chain[n].header.number = n /\ n # 0
       /\ Chain[n].header.parent_beacon_block_root # NONE
       /\ ~(Chain[n].header.difficulty > U64_MAX)
  BY <1>6, ChainAssumption, WidthAssumption DEF NamesOutput, Heights
<1> DEFINE header == Chain[n].header
           fields == [digest       |-> header.parent_beacon_block_root,
                      epoch        |-> header.nonce \div ROUND_SPAN,
                      round        |-> header.nonce % ROUND_SPAN,
                      batch_index  |-> header.difficulty \div WORKER_SPAN,
                      worker_id    |-> header.difficulty % WORKER_SPAN,
                      closes_epoch |-> header.extra # NONE]
<1>11. decode_consensus_fields(Chain[n].header) = {fields}
  BY <1>10 DEF decode_consensus_fields
<1>12. fields.digest = g /\ fields.batch_index = n - m
  BY <1>8, <1>9
<1>13. n - m = i - 1
  BY <1>3, <1>4
<1> HIDE DEF fields
<1> QED BY <1>4, <1>6, <1>11, <1>12, <1>13

NumbersInv ==
    req.pc = "done" /\ req.sel.kind = "output" =>
      \A i \in DOMAIN req.numbers : \A n \in req.numbers[i] :
         /\ n \in Int /\ n <= db.last_indexed
         /\ \E f \in decode_consensus_fields(Chain[n].header) :
              f.digest = req.sel.digest /\ f.batch_index = i - 1

LEMMA NumbersStep ==
    ASSUME WriterInv, ShapeInv, NumbersInv, [ApiNext]_<<writerVars, req>> PROVE NumbersInv'
<1>1. CASE Start
  BY <1>1, StartKind DEF NumbersInv
<1>2. CASE Read
  <2>0. DOMAIN req = Fields /\ db' = db /\ req'.sel = req.sel
    BY <1>2, ReadShape DEF ShapeInv, writerVars
  <2> SUFFICES ASSUME req.sel.kind = "output" PROVE NumbersInv'
    BY <2>0 DEF NumbersInv
  <2>1. ReadRange
    BY <1>2 DEF Read, CheckIndexed, ReadRows, ReadCount, ReadTokens, Hydrate, NextPage,
         Retry, CountAddressTxs, LookupRange, RangesDone, ReadTokenRow, ReadSupply, DetailKinds,
         ShapeInv, FeedKinds,
         RowKinds, PointerKinds, TransferKinds
  <2> DEFINE g == req.sel.digest
             range == consensus_range_by_digest(db, g)
  <2>2. req'.numbers = [i \in 1..batch_count(g) |-> exec_block_number(range, i - 1)]
    BY <2>0, <2>1 DEF ReadRange, Fields
  <2>3. ASSUME NEW i \in DOMAIN req'.numbers, NEW n \in req'.numbers[i]
        PROVE  /\ n \in Int /\ n <= db.last_indexed
               /\ \E f \in decode_consensus_fields(Chain[n].header) :
                    f.digest = g /\ f.batch_index = i - 1
    <3>1. i \in Int /\ i >= 1 /\ n \in exec_block_number(range, i - 1)
      BY <2>2
    <3> QED BY <3>1, PositionIsBatch
  <2> QED BY <2>0, <2>3 DEF NumbersInv
<1>3. CASE Underneath
  <2>1. CASE req' = Idle
    BY <2>1, IdleShape DEF NumbersInv
  <2>2. CASE req' = req /\ db.last_indexed <= db'.last_indexed
    <3>1. db.last_indexed \in Int /\ db'.last_indexed \in Int
      BY <1>3, BetweenReads, WriterFacts DEF WriterInv, Exact, WellFormed, Heights, NoCursor
    <3> QED BY <2>2, <3>1 DEF NumbersInv
  <2>3. CASE Broken
    BY <2>3 DEF NumbersInv, Broken, FeedKinds, RowKinds, PointerKinds, TransferKinds
  <2> QED BY <1>3, <2>1, <2>2, <2>3, BetweenReads
<1>4. CASE UNCHANGED <<writerVars, req>>
  BY <1>4 DEF NumbersInv, writerVars
<1>5. CASE req' = Idle
  BY <1>5, IdleShape DEF NumbersInv
<1> QED BY <1>1, <1>2, <1>3, <1>4, <1>5, StepKinds

-----------------------------------------------------------------------------
(* Every output has a block, so of two outputs at most one is the newer.       *)
LEMMA OutputsHaveBlocks ==
    ASSUME NEW g \in Outputs
    PROVE  \E n \in Heights : NamesOutput(n, g) /\ n \in OutputBlocks(g, MaxHeight)
<1>1. PICK n \in Heights : NamesOutput(n, g)
  BY DEF Outputs
<1> QED BY <1>1 DEF OutputBlocks, Heights

LEMMA NewerIsStrict ==
    ASSUME NEW g \in Outputs, NEW h \in Outputs, NewerOutput(g, h) PROVE ~NewerOutput(h, g)
<1>1. PICK n \in Heights : n \in OutputBlocks(g, MaxHeight)
  BY OutputsHaveBlocks
<1>2. PICK k \in Heights : k \in OutputBlocks(h, MaxHeight)
  BY OutputsHaveBlocks
<1> QED BY <1>1, <1>2, ChainAssumption DEF NewerOutput, Heights

(* Once a newer output is reached by the index, the older is wholly in it.     *)
LEMMA OlderIsWhole ==
    ASSUME WriterInv, NEW g \in Outputs, NEW h \in Outputs, NewerOutput(g, h),
           OutputBlocks(g, db.last_indexed) # {}
    PROVE  \E r \in consensus_range_by_digest(db, h) :
             r.first_block..r.last_block = OutputBlocks(h, MaxHeight)
<1> DEFINE last == db.last_indexed
<1>1. last \in Int /\ last <= MaxHeight /\ MaxHeight \in Nat
  BY WriterFacts, ChainAssumption DEF WriterInv, Heights
<1>2. PICK b \in OutputBlocks(g, last) : TRUE
  OBVIOUS
<1>3. b \in Int /\ b <= last /\ b \in OutputBlocks(g, MaxHeight)
  BY <1>1, <1>2 DEF OutputBlocks
<1>4. \A k \in OutputBlocks(h, MaxHeight) : k \in 0..last
  BY <1>1, <1>3 DEF NewerOutput, OutputBlocks
<1>5. OutputBlocks(h, MaxHeight) = OutputBlocks(h, last)
  BY <1>1, <1>4 DEF OutputBlocks
<1>6. PICK n \in Heights : NamesOutput(n, h) /\ n \in OutputBlocks(h, MaxHeight)
  BY OutputsHaveBlocks
<1>7. n \in 0..last /\ h = Chain[n].header.parent_beacon_block_root
  BY <1>4, <1>6 DEF NamesOutput
<1>8. h \in DOMAIN db.consensus_blocks
  BY <1>6, <1>7, WriterFacts DEF Exact, RangesExactIn
<1>9. db.consensus_blocks[h] \in consensus_range_by_digest(db, h)
  BY <1>8 DEF consensus_range_by_digest
<1> QED BY <1>5, <1>9, RangeIsIndexed

(* Lookups go from the newest output to the oldest, and an output with a range *)
(* was reached by the index when it was looked up: the older ones found after  *)
(* it are whole.                                                               *)
PageRangesInv ==
    req.sel.kind = "outputs" =>
      /\ req.sel.digests \subseteq Outputs
      /\ DOMAIN req.ranges \subseteq req.sel.digests
      /\ req.pc = "done" => DOMAIN req.ranges = req.sel.digests
      /\ \A g \in DOMAIN req.ranges : req.ranges[g] # {} => OutputBlocks(g, db.last_indexed) # {}
      /\ \A g \in DOMAIN req.ranges : \A h \in req.sel.digests \ DOMAIN req.ranges : NewerOutput(g, h)
      /\ \A g, h \in DOMAIN req.ranges :
           NewerOutput(g, h) /\ req.ranges[g] # {} =>
             \E r \in req.ranges[h] : r.first_block..r.last_block = OutputBlocks(h, MaxHeight)

LEMMA PageRangesStep ==
    ASSUME WriterInv, ShapeInv, PageRangesInv, [ApiNext]_<<writerVars, req>> PROVE PageRangesInv'
<1>1. CASE Start
  <2> SUFFICES ASSUME req'.sel.kind = "outputs" PROVE PageRangesInv'
    BY DEF PageRangesInv
  <2>1. req'.pc = "ranges" /\ req'.ranges = EmptyTable
    <3>1. \A sel \in Selections : sel.kind # "outputs"
      BY PageAssumption DEF PointerKinds, TransferKinds
    <3>2. /\ \A n, i : TxTransfers(n, i).kind # "outputs" /\ TxTransferFeed(n, i).kind # "outputs"
          /\ \A x : ConsensusOutput(x).kind # "outputs" /\ TokenInfo(x).kind # "outputs"
      BY DEF TxTransfers, TxTransferFeed, ConsensusOutput, TokenInfo
    <3> QED BY <1>1, <3>1, <3>2, StartShape
  <2>2. DOMAIN EmptyTable = {}
    BY DEF EmptyTable
  <2>3. req'.sel.digests \subseteq Outputs
    <3>1. \E page \in SUBSET Outputs : req'.sel = ConsensusPage(page)
      BY <1>1, <2>1, StartShape
    <3> QED BY <3>1 DEF ConsensusPage
  <2> QED BY <2>1, <2>2, <2>3 DEF PageRangesInv
<1>2. CASE Read
  <2>0. DOMAIN req = Fields /\ db' = db /\ req'.sel = req.sel
    BY <1>2, ReadShape DEF ShapeInv, writerVars
  <2> SUFFICES ASSUME req.sel.kind = "outputs" PROVE PageRangesInv'
    BY <2>0 DEF PageRangesInv
  <2>1. LookupRange \/ RangesDone
    BY <1>2 DEF Read, CheckIndexed, ReadRows, ReadCount, ReadTokens, Hydrate, NextPage,
         Retry, CountAddressTxs, ReadRange, ReadTokenRow, ReadSupply, DetailKinds, ShapeInv, FeedKinds,
         RowKinds, PointerKinds, TransferKinds
  <2>2. CASE RangesDone
    <3>1. req'.pc = "done" /\ req'.ranges = req.ranges /\ DOMAIN req.ranges = req.sel.digests
      BY <2>0, <2>2 DEF RangesDone, Fields
    <3> QED BY <2>0, <3>1 DEF PageRangesInv
  <2>3. CASE LookupRange
    <3> DEFINE old == req.ranges
               page == req.sel.digests
               Extended(x) == [h \in DOMAIN old \cup {x} |->
                                 IF h = x THEN consensus_range_by_digest(db, x) ELSE old[h]]
    <3>1. \E x \in NextLookup(page \ DOMAIN old) : req'.ranges = Extended(x)
      BY <2>0, <2>3 DEF LookupRange, Fields
    <3>2. req'.pc = "ranges"
      BY <2>0, <2>3 DEF LookupRange, Fields
    <3> SUFFICES ASSUME NEW x \in NextLookup(page \ DOMAIN old), req'.ranges = Extended(x)
                 PROVE  PageRangesInv'
      BY <3>1
    <3> DEFINE new == Extended(x)
    <3>3. x \in page \ DOMAIN old /\ \A h \in page \ (DOMAIN old \cup {x}) : NewerOutput(x, h)
      BY DEF NextLookup
    <3>4. /\ DOMAIN new = DOMAIN old \cup {x}
          /\ new[x] = consensus_range_by_digest(db, x)
          /\ \A g \in DOMAIN old : g # x /\ new[g] = old[g]
      BY <3>3
    <3>5. /\ page \subseteq Outputs /\ DOMAIN old \subseteq page
          /\ \A g \in DOMAIN old : old[g] # {} => OutputBlocks(g, db.last_indexed) # {}
          /\ \A g \in DOMAIN old : \A h \in page \ DOMAIN old : NewerOutput(g, h)
          /\ \A g, h \in DOMAIN old : NewerOutput(g, h) /\ old[g] # {} =>
             \E r \in old[h] : r.first_block..r.last_block = OutputBlocks(h, MaxHeight)
      BY DEF PageRangesInv
    <3>0. req'.ranges = new
      OBVIOUS
    <3> HIDE DEF new, old, page
    <3>6. \A g \in DOMAIN new : new[g] # {} => OutputBlocks(g, db.last_indexed) # {}
      <4>1. new[x] # {} => OutputBlocks(x, db.last_indexed) # {}
        BY <3>4, RangeIsIndexed
      <4> QED BY <3>4, <3>5, <4>1
    <3>7. \A g \in DOMAIN new : \A h \in page \ DOMAIN new : NewerOutput(g, h)
      BY <3>3, <3>4, <3>5
    <3>8. ASSUME NEW g \in DOMAIN new, NEW h \in DOMAIN new, NewerOutput(g, h), new[g] # {}
          PROVE  \E r \in new[h] : r.first_block..r.last_block = OutputBlocks(h, MaxHeight)
      <4>1. g \in Outputs /\ h \in Outputs
        BY <3>3, <3>4, <3>5
      <4>2. CASE h = x
        BY <3>4, <3>6, <3>8, <4>1, <4>2, OlderIsWhole
      <4>3. CASE h # x /\ g = x
        <5>1. NewerOutput(h, g)
          BY <3>3, <3>4, <3>5, <4>3
        <5> QED BY <3>8, <4>1, <5>1, NewerIsStrict
      <4>4. CASE h # x /\ g # x
        BY <3>4, <3>5, <3>8, <4>4
      <4> QED BY <4>2, <4>3, <4>4
    <3>9. DOMAIN new \subseteq page
      BY <3>3, <3>4, <3>5
    <3>10. \A g, h \in DOMAIN new : NewerOutput(g, h) /\ new[g] # {} =>
             \E r \in new[h] : r.first_block..r.last_block = OutputBlocks(h, MaxHeight)
      BY <3>8
    <3>11. req'.sel.digests = page
      BY <2>0, <3>0 DEF page
    <3>12. db' = db /\ page \subseteq Outputs /\ req'.pc # "done"
      BY <2>0, <3>2, <3>5
    <3> QED BY ONLY <3>0, <3>6, <3>7, <3>9, <3>10, <3>11, <3>12 DEF PageRangesInv
  <2> QED BY <2>1, <2>2, <2>3
<1>3. CASE Underneath
  <2>1. CASE req' = Idle
    BY <2>1, IdleShape DEF PageRangesInv
  <2>2. CASE req' = req /\ db.last_indexed <= db'.last_indexed
    <3>1. db.last_indexed \in Int /\ db'.last_indexed \in Int
      BY <1>3, BetweenReads, WriterFacts DEF WriterInv, Exact, WellFormed, Heights, NoCursor
    <3>2. \A g : OutputBlocks(g, db.last_indexed) \subseteq OutputBlocks(g, db'.last_indexed)
      BY <2>2, <3>1 DEF OutputBlocks
    <3> QED BY <2>2, <3>2 DEF PageRangesInv
  <2>3. CASE Broken
    BY <2>3 DEF PageRangesInv, Broken, FeedKinds, RowKinds, PointerKinds, TransferKinds
  <2> QED BY <1>3, <2>1, <2>2, <2>3, BetweenReads
<1>4. CASE UNCHANGED <<writerVars, req>>
  BY <1>4 DEF PageRangesInv, writerVars
<1>5. CASE req' = Idle
  BY <1>5, IdleShape DEF PageRangesInv
<1> QED BY <1>1, <1>2, <1>3, <1>4, <1>5, StepKinds

-----------------------------------------------------------------------------
(* The inductive invariant: what every later step of a handler relies on.      *)
IInv ==
    /\ WriterInv /\ ShapeInv
    /\ RowsInv /\ NoDanglingPointer
    /\ TokenInv /\ PageTokensInv
    /\ TxInv /\ TotalInv /\ WalkInv
    /\ NumbersInv /\ PageRangesInv

LEMMA InitIInv == ApiInit => IInv
<1> SUFFICES ASSUME ApiInit PROVE IInv
  OBVIOUS
<1>1. WriterInv
  BY InitWriter DEF ApiInit
<1>2. req = Idle
  BY DEF ApiInit
<1>3. ShapeInv
  BY <1>2, IdleShape DEF ShapeInv
<1>4. req.sel.kind = "none" /\ "none" \notin RowKinds
  BY <1>2, IdleShape DEF RowKinds, PointerKinds, TransferKinds
<1>5. req.pc = "idle"
  BY <1>2, IdleShape
<1> QED BY <1>1, <1>3, <1>4, <1>5 DEF IInv, RowsInv, NoDanglingPointer, TokenInv, PageTokensInv,
         TxInv, TotalInv, WalkInv, FeedKinds, NumbersInv, PageRangesInv

LEMMA WriterKept ==
    ASSUME WriterInv, ShapeInv, [ApiNext]_<<writerVars, req>> PROVE WriterInv'
<1>1. ASSUME UNCHANGED writerVars PROVE WriterInv'
  BY <1>1 DEF WriterInv, writerVars
<1>2. CASE Start
  BY <1>1, <1>2, StartShape
<1>3. CASE Read
  BY <1>1, <1>3, ReadShape
<1>4. CASE Underneath
  BY <1>4, BetweenReads
<1> QED BY <1>1, <1>2, <1>3, <1>4, StepKinds

LEMMA NextIInv == IInv /\ [ApiNext]_<<writerVars, req>> => IInv'
BY WriterKept, ShapeStep, RowsStep, DanglingStep, TokenStep, PageTokensStep, TxStep, TotalStep,
   WalkStep, NumbersStep, PageRangesStep DEF IInv

THEOREM Invariance == ApiSpec => []IInv
BY InitIInv, NextIInv, PTL DEF ApiSpec

-----------------------------------------------------------------------------
(* /txs/{hash} shows the transfers of a transaction whole or not at all, for   *)
(* every chain and every moment of a commit: last_indexed is published after   *)
(* the commit and read before the rows (tx_by_hash).                           *)
THEOREM TxDetailIsExact == ApiSpec => []TxDetailExact
<1>1. IInv => TxDetailExact
  BY DEF IInv, TxInv, TransfersOf, TxDetailExact
<1> QED BY <1>1, Invariance, PTL

(* The total of a list answer covers its own page and every matching row of    *)
(* the blocks /health had claimed, whether COUNT or the type counter gave it   *)
(* (ReadRows before ReadCount, and an index that only grows).                  *)
THEOREM TotalsCover == ApiSpec => []TotalCoversAnswer
<1>1. IInv => TotalCoversAnswer
  <2> SUFFICES ASSUME IInv, Answered PROVE TotalCoversAnswer
    BY DEF TotalCoversAnswer
  <2>1. req.pc = "done" /\ req.sel.kind \in FeedKinds
    BY FeedsAreLists DEF Answered, IInv, ShapeInv, DetailKinds
  <2>2. Covered
    BY <2>1 DEF IInv, TotalInv
  <2> QED BY <2>2 DEF Covered, TruthUpTo, TotalCoversAnswer
<1> QED BY <1>1, Invariance, PTL

(* Every transfer shown is joined to its token's metadata, and /tokens/{addr}  *)
(* goes to the node only for a token without indexed transfers (page_tokens,   *)
(* token_info; transfers and token rows commit in one transaction).            *)
THEOREM TokensAreCached == ApiSpec => []TokensFromCache
<1>1. IInv => TokensFromCache
  BY DEF IInv, TokenInv, PageTokensInv, TokensFromCache
<1> QED BY <1>1, Invariance, PTL

(* hydrate_pointers never answers 500 for a dangling pointer: every row of     *)
(* every page names a block, a transaction and a receipt the node has.         *)
THEOREM PointersResolve == ApiSpec => []NoDanglingPointer
<1>1. IInv => NoDanglingPointer
  BY DEF IInv
<1> QED BY <1>1, Invariance, PTL

(* A client that reads OFFSET pages until the empty one misses at most as many *)
(* of the rows that matched when it began as power losses took back from its   *)
(* list meanwhile, and none without a loss: for every page size, however many  *)
(* blocks were indexed and restarts happened between the pages (page_params,   *)
(* ORDER BY).                                                                  *)
THEOREM WalksMissAtMostLost == ApiSpec => []WalkMissesAtMostLost
<1>1. IInv => WalkMissesAtMostLost
  <2> SUFFICES ASSUME IInv, Answered, req.rows = {} PROVE Cardinality(req.owed \ req.seen) <= req.lost
    BY DEF WalkMissesAtMostLost
  <2>1. req.pc = "done" /\ req.sel.kind \in FeedKinds
    BY FeedsAreLists DEF Answered, IInv, ShapeInv, DetailKinds
  <2> QED BY <2>1 DEF IInv, WalkInv
<1> QED BY <1>1, Invariance, PTL

(* A batch of /consensus/blocks/{number} is numbered with the committed block  *)
(* that executed it or not at all, wherever the stored range stops             *)
(* (build_consensus_batches' first_block + index, checked against last_block). *)
THEOREM BatchesAreNumbered == ApiSpec => []BatchNumbering
<1>1. IInv => BatchNumbering
  BY DEF IInv, NumbersInv, BatchNumbering
<1> QED BY <1>1, Invariance, PTL

(* A page of outputs looked up newest first, one statement each, has no hole:  *)
(* below an output with a range every one is whole                             *)
(* (consensus_ranges_by_digests).                                              *)
THEOREM PagesHaveNoHole == ApiSpec => []NoHoleInPage
<1>1. IInv => NoHoleInPage
  BY DEF IInv, PageRangesInv, NoHoleInPage
<1> QED BY <1>1, Invariance, PTL
=============================================================================
