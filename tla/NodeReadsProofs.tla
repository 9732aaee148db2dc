-------------------------- MODULE NodeReadsProofs ---------------------------
(* The page arithmetic (module Paging) and the routes over the consensus store *)
(* and the epoch records, for every history of outputs, epochs, burns and      *)
(* missing packs, every page and page size.                                    *)
(*                                                                             *)
(* The pages of a feed are disjoint, together they are the feed, and a feed    *)
(* that grows moves its items to later pages only. What a handler puts         *)
(* together from several awaits is true of one history, though the node writes *)
(* outputs, records and blocks between any two of them.                        *)
EXTENDS EpochReads, Feeds, FiniteSetTheorems, WellFoundedInduction, TLAPS

(* The place of item i in the feed, newest first.                              *)
Place(total, i) == total - 1 - i

(* A row offset is a natural number.                                           *)
LEMMA ProductNat ==
    ASSUME NEW a \in Nat, NEW b \in Nat PROVE a * b \in Nat
OBVIOUS

(* Page p ends where page p + 1 starts, at or before page q.                   *)
LEMMA ProductMonotone ==
    ASSUME NEW p \in Nat, NEW q \in Nat, NEW k \in Nat, p < q
    PROVE  p * k + k <= q * k
<1>1. PICK r \in Nat : q = p + 1 + r
  <2>1. q - p - 1 \in Nat /\ q = p + 1 + (q - p - 1)
    OBVIOUS
  <2> QED BY <2>1
<1>2. q * k = p * k + k + r * k
  BY <1>1
<1>3. r * k \in Nat
  BY ProductNat
<1>4. p * k \in Nat /\ q * k \in Nat
  BY ProductNat
<1> QED BY <1>2, <1>3, <1>4

-----------------------------------------------------------------------------
(* clamp_per_page lets only page sizes in 1..MAX_PER_PAGE through, whatever is *)
(* asked for.                                                                  *)
THEOREM PerPageInRange ==
    ASSUME NEW requested \in SUBSET Nat
    PROVE  clamp_per_page(requested) \in 1..MAX_PER_PAGE
<1>1. unwrap_or(requested, DEFAULT_PER_PAGE) \in Nat
  <2>1. CASE requested = {}
    BY <2>1, PagingAssumption DEF unwrap_or
  <2>2. CASE requested # {}
    <3>1. (CHOOSE x \in requested : TRUE) \in requested
      BY <2>2
    <3> QED BY <2>2, <3>1 DEF unwrap_or
  <2> QED BY <2>1, <2>2
<1> QED BY <1>1, PagingAssumption DEF clamp_per_page, clamp

(* desc_page_bounds names only items of the feed, at most per_page of them, and*)
(* a page past the end has none.                                               *)
THEOREM BoundsInRange ==
    ASSUME NEW total \in Nat, NEW page \in Nat, NEW per_page \in Nat \ {0},
           NEW b \in desc_page_bounds(total, page, per_page)
    PROVE  /\ b[1] \in 0..(total - 1) /\ b[2] \in 0..(total - 1)
           /\ b[1] <= b[2] /\ b[2] - b[1] < per_page
<1>1. PICK skip \in checked_mul(page, per_page) :
         /\ skip < total
         /\ b = <<saturating_sub(total - 1 - skip, saturating_sub(per_page, 1)), total - 1 - skip>>
  BY DEF desc_page_bounds
<1>2. skip \in Nat
  BY ProductNat DEF checked_mul
<1> QED BY <1>1, <1>2 DEF saturating_sub

(* The items of a page are exactly those placed in its slice of the feed. A    *)
(* page whose offset does not fit 64 bits is empty, as it should be: no feed   *)
(* is that long (checked_mul).                                                 *)
THEOREM PageExact ==
    ASSUME NEW total \in 0..MAX_U64, NEW page \in Nat, NEW per_page \in Nat \ {0}, NEW i \in Int
    PROVE  i \in PageItems(total, page, per_page)
             <=> /\ i \in 0..(total - 1)
                 /\ page * per_page <= Place(total, i)
                 /\ Place(total, i) < page * per_page + per_page
<1> DEFINE skip == page * per_page
<1>1. skip \in Nat
  BY ProductNat
<1>2. total \in Nat /\ MAX_U64 \in Nat
  BY PagingAssumption
<1>3. checked_mul(page, per_page) = IF skip <= MAX_U64 THEN {skip} ELSE {}
  BY DEF checked_mul
<1> HIDE DEF skip
<1>4. CASE skip < total
  <2>1. {s \in checked_mul(page, per_page) : s < total} = {skip}
    BY <1>1, <1>2, <1>3, <1>4
  <2>2. desc_page_bounds(total, page, per_page)
          = {<<saturating_sub(total - 1 - skip, saturating_sub(per_page, 1)), total - 1 - skip>>}
    BY <2>1 DEF desc_page_bounds
  <2>3. PageItems(total, page, per_page)
          = saturating_sub(total - 1 - skip, saturating_sub(per_page, 1))..(total - 1 - skip)
    BY <2>2 DEF PageItems
  <2> QED BY <2>3, <1>1, <1>2, <1>4 DEF saturating_sub, Place, skip
<1>5. CASE ~(skip < total)
  <2>1. {s \in checked_mul(page, per_page) : s < total} = {}
    BY <1>1, <1>2, <1>3, <1>5
  <2>2. PageItems(total, page, per_page) = {}
    BY <2>1 DEF desc_page_bounds, PageItems
  <2> QED BY <2>2, <1>1, <1>2, <1>5 DEF Place, skip
<1> QED BY <1>4, <1>5

-----------------------------------------------------------------------------
(* Growth: an item that a feed which has grown shows on page q was, before it  *)
(* grew, on page q or an earlier one. A client that pages forward while blocks *)
(* arrive may see an item again but never skips one (blocks_page,              *)
(* latest_txs_page).                                                           *)
THEOREM GrowthOnlyDelays ==
    ASSUME NEW total \in 0..MAX_U64, NEW grown \in total..MAX_U64,
           NEW p \in Nat, NEW q \in Nat, NEW per_page \in Nat \ {0},
           NEW i \in PageItems(total, p, per_page), i \in PageItems(grown, q, per_page)
    PROVE  p <= q
<1>1. total \in Nat /\ grown \in Nat /\ MAX_U64 \in Nat /\ grown \in 0..MAX_U64 /\ total <= grown
  BY PagingAssumption
<1>2. i \in Int
  <2>1. PICK b \in desc_page_bounds(total, p, per_page) : i \in b[1]..b[2]
    BY DEF PageItems
  <2>2. b[1] \in Int /\ b[2] \in Int
    BY <2>1, <1>1, BoundsInRange
  <2> QED BY <2>1, <2>2
<1>3. p * per_page <= total - 1 - i
  BY <1>2, PageExact DEF Place
<1>4. grown - 1 - i < q * per_page + per_page
  BY <1>1, <1>2, PageExact DEF Place
<1>5. SUFFICES ASSUME q < p PROVE FALSE
  OBVIOUS
<1>6. q * per_page + per_page <= p * per_page
  BY <1>5, ProductMonotone
<1>7. p * per_page \in Nat /\ q * per_page \in Nat
  BY ProductNat
<1> QED BY <1>1, <1>2, <1>3, <1>4, <1>6, <1>7

(* Two pages of one feed share no item.                                        *)
THEOREM PagesDisjoint ==
    ASSUME NEW total \in 0..MAX_U64, NEW p \in Nat, NEW q \in Nat, p # q,
           NEW per_page \in Nat \ {0}
    PROVE  PageItems(total, p, per_page) \cap PageItems(total, q, per_page) = {}
<1>1. SUFFICES ASSUME NEW i \in PageItems(total, p, per_page),
                      i \in PageItems(total, q, per_page)
               PROVE  FALSE
  OBVIOUS
<1>2. total \in total..MAX_U64
  BY PagingAssumption
<1>3. p <= q /\ q <= p
  BY <1>1, <1>2, GrowthOnlyDelays
<1> QED BY <1>3

(* Every item is on some page: the pages 0, 1, ... are the whole feed.         *)
THEOREM PagesCover ==
    ASSUME NEW total \in 0..MAX_U64, NEW per_page \in Nat \ {0}, NEW i \in 0..(total - 1)
    PROVE  \E p \in Nat : i \in PageItems(total, p, per_page)
<1> DEFINE place == Place(total, i)
           p == place \div per_page
<1>1. total \in Nat /\ i \in Int /\ place \in Nat
  BY PagingAssumption DEF Place
<1>2. p \in Nat /\ p * per_page <= place /\ place < p * per_page + per_page
  <2> HIDE DEF place
  <2>1. p \in Nat /\ place = per_page * p + (place % per_page)
    BY <1>1
  <2>2. place % per_page \in 0..(per_page - 1)
    BY <1>1
  <2>3. per_page * p = p * per_page /\ p * per_page \in Nat
    BY <2>1, ProductNat
  <2> QED BY <2>1, <2>2, <2>3, <1>1
<1>3. i \in PageItems(total, p, per_page)
  <2> HIDE DEF p
  <2> QED BY <1>1, <1>2, PageExact
<1> QED BY <1>2, <1>3

-----------------------------------------------------------------------------
(* desc_page_items lists items of the feed only.                               *)
THEOREM ItemsInRange ==
    ASSUME NEW total \in Nat, NEW page \in Nat, NEW per_page \in Nat \ {0}
    PROVE  desc_page_items(total, page, per_page) \in Seq(0..(total - 1))
<1> DEFINE bounds == desc_page_bounds(total, page, per_page)
<1>1. CASE bounds = {}
  BY <1>1 DEF desc_page_items
<1>2. CASE bounds # {}
  <2> DEFINE b == CHOOSE x \in bounds : TRUE
  <2>1. b \in bounds
    BY <1>2
  <2>2. /\ b[1] \in 0..(total - 1) /\ b[2] \in 0..(total - 1)
        /\ b[1] <= b[2]
    <3> HIDE DEF b
    <3> QED BY <2>1, BoundsInRange
  <2>3. desc_page_items(total, page, per_page) = [i \in 1..(b[2] - b[1] + 1) |-> b[2] - i + 1]
    BY <1>2 DEF desc_page_items
  <2> DEFINE n == b[2] - b[1] + 1
  <2> HIDE DEF b
  <2>4. n \in Nat /\ \A i \in 1..n : b[2] - i + 1 \in 0..(total - 1)
    BY <2>2
  <2>5. desc_page_items(total, page, per_page) = [i \in 1..n |-> b[2] - i + 1]
    BY <2>3
  <2> HIDE DEF n
  <2> QED BY <2>4, <2>5
<1> QED BY <1>1, <1>2

(* consensus_page_numbers lists only numbers consensus_number_stored accepts:  *)
(* outputs are numbered 1..top.                                                *)
THEOREM NumbersStored ==
    ASSUME NEW top \in Nat, NEW page \in Nat, NEW per_page \in Nat \ {0}
    PROVE  consensus_page_numbers(top, page, per_page)
             \in Seq({number \in 1..top : consensus_number_stored(number, top)})
<1> DEFINE items == desc_page_items(top, page, per_page)
<1>1. items \in Seq(0..(top - 1))
  BY ItemsInRange
<1>2. consensus_page_numbers(top, page, per_page) = [i \in DOMAIN items |-> items[i] + 1]
  BY DEF consensus_page_numbers
<1> HIDE DEF items
<1>3. \A i \in 1..Len(items) :
        items[i] + 1 \in {number \in 1..top : consensus_number_stored(number, top)}
  BY <1>1 DEF consensus_number_stored
<1> QED BY <1>1, <1>2, <1>3

-----------------------------------------------------------------------------
(* The fields a request and an epoch row have.                                 *)
Fields == {"pc", "route", "detail", "current", "base", "todo", "this", "previous", "rows",
           "pin", "number", "shown", "closes", "keys", "tip"}
RowFields == {"epoch", "is_current", "certified", "exec_first", "exec_last", "consensus_first",
              "consensus_last", "committee_bls", "end_time", "addresses", "pack_complete", "rounds"}

IsSeq(s) == s \in Seq({s[i] : i \in DOMAIN s})

(* The node: an output is in its pack before the counter shows it, is counted  *)
(* before its blocks execute, and no output follows a closing one before the   *)
(* epoch's record is written.                                                  *)
NodeInv ==
    /\ tail \in 0..MaxOutput /\ latest \in 0..tail
    /\ canonical \in 0..LastBlock[latest] /\ committed \in 0..canonical
    /\ records \subseteq DOMAIN Closing
    /\ \A e \in records : Closing[e] <= latest
    /\ \A e \in DOMAIN Closing : Closing[e] < tail => e \in records

(* Which route a request that still reads is on.                               *)
EpochSteps == {"this", "previous", "keys", "times", "pin", "registry", "pack"}

RouteInv ==
    /\ DOMAIN req = Fields
    /\ req.pc \in EpochSteps => req.route \in {"epochs", "consensus"}
    /\ req.pc \in {"output", "closes", "committee"} => req.route = "output"
    /\ req.pc \in {"header", "tip"} => req.route = "latest"
    /\ req.pc = "headers" => req.route = "outputs"
    /\ req.pc = "resolve" => req.route = "block"
    /\ req.pc = "current_tip" => req.route = "current"

(* What a request is about to read from a pack was at or below the counter     *)
(* when it was checked, what it has found was in a pack that is held, and the  *)
(* counter never goes back.                                                    *)
BoundInv ==
    /\ req.pc \in {"output", "header"} => req.number \in 1..latest
    /\ req.pc = "headers" => req.todo \in Seq(1..latest) /\ req.todo # <<>>
    /\ IsSeq(req.shown)
    /\ \A i \in DOMAIN req.shown :
         req.shown[i] \in 1..latest /\ EpochOf[req.shown[i]] \notin missing

(* An epoch row that is true, now and later.                                   *)
GoodRow(row, current, lost) ==
    /\ DOMAIN row = RowFields
    /\ row.epoch \in 0..current
    /\ row.is_current = (row.epoch = current)
    /\ row.exec_first = {FirstBlock(row.epoch)} /\ row.consensus_first = {FirstOutput(row.epoch)}
    /\ row.committee_bls = Keys[row.epoch]
    /\ row.exec_last = IF row.is_current THEN {} ELSE {LastBlock[Closing[row.epoch]]}
    /\ row.consensus_last = IF row.is_current THEN {} ELSE {Closing[row.epoch]}
    /\ row.is_current => ~row.certified
    /\ TRUE \in row.pack_complete => ~row.is_current /\ row.epoch \notin lost

Timed(row, base) ==
    /\ row.exec_last = {} => row.end_time = {}
    /\ \A b \in row.exec_last : b <= base => row.end_time = {TimeOf(b)}

SeatedRow(row, base) ==
    /\ row.addresses \subseteq {Seated[row.epoch]}
    /\ FirstBlock(row.epoch) <= base + 1 => row.addresses # {}

PinBlock(e) == IF e = 0 THEN 0 ELSE LastBlock[Closing[e - 1]]

(* The order of the last reads differs: /epochs/{n} has its times before its   *)
(* addresses, /consensus/epochs/{n} after.                                     *)
TimesRead ==
    \/ req.pc = "done"
    \/ req.route = "epochs" /\ req.pc \in {"pin", "registry"}
AddressesRead ==
    /\ req.detail
    /\ \/ req.pc = "done"
       \/ req.route = "consensus" /\ req.pc \in {"pack", "times"}

(* An epoch answer in the making. Every epoch below the snapshot has its       *)
(* record, so whatever is read of one, and whenever, is final.                 *)
EpochInv ==
    req.route \in {"epochs", "consensus"} =>
      LET e == Head(req.todo) IN
      /\ req.pc \in EpochSteps \cup {"done", "not_found"}
      /\ req.current \in Nat /\ 0..(req.current - 1) \subseteq records
      /\ req.base \in 0..committed
      /\ req.todo \in Seq(0..req.current)
      /\ IsSeq(req.rows) /\ \A i \in DOMAIN req.rows : GoodRow(req.rows[i], req.current, missing)
      /\ req.shown = <<>>
      /\ req.pc \in {"this", "previous", "keys"} =>
           req.todo # <<>> /\ (req.detail => Len(req.todo) = 1 /\ req.rows = <<>>)
      /\ req.pc \in {"previous", "keys"} =>
           /\ req.this = {} <=> e = req.current
           /\ \A t \in req.this : t.record = Record(e)
      /\ req.pc = "keys" => req.previous = IF e = 0 THEN {} ELSE {Record(e - 1)}
      /\ req.pc \in {"pin", "registry", "pack"} => req.detail
      /\ req.detail /\ req.pc \in {"times", "pin", "registry", "pack", "done"} => Len(req.rows) = 1
      /\ req.pc = "registry" => req.pin = {PinBlock(req.rows[1].epoch)}
      /\ TimesRead =>
           \A i \in DOMAIN req.rows : Timed(req.rows[i], req.base)
      /\ AddressesRead => SeatedRow(req.rows[1], req.base)

(* An output's keys and closes_epoch, once read.                               *)
ClosesRight ==
    LET last == \E e \in DOMAIN Closing : Closing[e] = req.number IN
    /\ TRUE \in req.closes => last
    /\ FALSE \in req.closes /\ EpochOf[req.number] > 0 => ~last

OutputInv ==
    req.route = "output" =>
      /\ req.pc \in {"output", "closes", "committee", "done", "not_found"}
      /\ req.pc # "not_found" => req.number \in 1..latest
      /\ req.pc \in {"committee", "done"} => ClosesRight
      /\ req.pc = "done" => req.keys = Keys[EpochOf[req.number]]

(* A block and the output that executed it.                                    *)
BlockInv ==
    req.route = "block" =>
      /\ req.pc \in {"resolve", "done", "not_found"}
      /\ req.pc # "not_found" => req.number \in 0..LastBlock[latest]
      /\ req.pc = "resolve" => req.number > 0
      /\ req.pc = "done" /\ req.number > 0 =>
           LET o == OutputOfBlock(req.number) IN
           req.shown = IF EpochOf[o] \in missing THEN <<>> ELSE <<o>>

(* The inductive invariant.                                                    *)
IInv == /\ NodeInv /\ RouteInv /\ BoundInv /\ EpochInv /\ OutputInv /\ BlockInv
        /\ NoTipRace

-----------------------------------------------------------------------------
(* Sequences.                                                                  *)

(* What is left of a page after its first number.                              *)
LEMMA HeadAndTail ==
    ASSUME NEW S, NEW s \in Seq(S), s # <<>>
    PROVE  Head(s) \in S /\ Tail(s) \in Seq(S) /\ (Len(s) > 1 => Tail(s) # <<>>)
<1>1. Head(s) \in S /\ Tail(s) \in Seq(S)
  OBVIOUS
<1>2. Len(s) > 1 => Len(Tail(s)) # 0
  OBVIOUS
<1>3. Len(<<>>) = 0
  OBVIOUS
<1> QED BY <1>1, <1>2, <1>3

(* A page of small numbers is a page of numbers.                               *)
LEMMA SeqWider == ASSUME NEW S, NEW T, S \subseteq T, NEW s \in Seq(S) PROVE s \in Seq(T)
OBVIOUS

LEMMA SeqShape == ASSUME NEW s, IsSeq(s) PROVE Len(s) \in Nat /\ DOMAIN s = 1..Len(s)
BY DEF IsSeq

LEMMA SmallSeqs ==
    /\ IsSeq(<<>>) /\ DOMAIN <<>> = {} /\ Len(<<>>) = 0
    /\ \A x : IsSeq(<<x>>) /\ DOMAIN <<x>> = {1} /\ <<x>>[1] = x /\ Len(<<x>>) = 1
<1>1. IsSeq(<<>>) /\ DOMAIN <<>> = {} /\ Len(<<>>) = 0
  BY DEF IsSeq
<1>2. ASSUME NEW x PROVE IsSeq(<<x>>) /\ DOMAIN <<x>> = {1} /\ <<x>>[1] = x /\ Len(<<x>>) = 1
  <2>1. DOMAIN <<x>> = {1} /\ <<x>>[1] = x /\ Len(<<x>>) = 1
    OBVIOUS
  <2>2. {<<x>>[i] : i \in DOMAIN <<x>>} = {x}
    BY <2>1
  <2>3. <<x>> \in Seq({x})
    OBVIOUS
  <2> QED BY <2>1, <2>2, <2>3 DEF IsSeq
<1> QED BY <1>1, <1>2

LEMMA MappedSeq ==
    ASSUME NEW n \in Nat, NEW s, DOMAIN s = 1..n, s = [i \in 1..n |-> s[i]] PROVE IsSeq(s) /\ Len(s) = n
<1>1. s \in [1..n -> {s[i] : i \in DOMAIN s}]
  OBVIOUS
<1>2. s \in Seq({s[i] : i \in DOMAIN s})
  BY <1>1
<1> QED BY <1>2 DEF IsSeq

LEMMA AppendedSeq ==
    ASSUME NEW s, IsSeq(s), NEW x
    PROVE  /\ IsSeq(Append(s, x)) /\ Len(Append(s, x)) = Len(s) + 1
           /\ \A i \in DOMAIN Append(s, x) :
                \/ i \in DOMAIN s /\ Append(s, x)[i] = s[i]
                \/ i = Len(s) + 1 /\ Append(s, x)[i] = x
<1> DEFINE S == {s[i] : i \in DOMAIN s}
           a == Append(s, x)
<1>1. s \in Seq(S \cup {x}) /\ x \in S \cup {x}
  BY DEF IsSeq
<1> HIDE DEF S
<1>2. /\ a \in Seq(S \cup {x}) /\ Len(a) = Len(s) + 1 /\ Len(s) \in Nat
      /\ DOMAIN s = 1..Len(s) /\ DOMAIN a = 1..(Len(s) + 1)
      /\ \A i \in 1..Len(s) : a[i] = s[i]
      /\ a[Len(s) + 1] = x
  BY <1>1
<1>3. \A i \in DOMAIN a : i \in 1..Len(s) \/ i = Len(s) + 1
  BY <1>2
<1> HIDE DEF a
<1>4. a = [i \in 1..Len(a) |-> a[i]] /\ Len(a) \in Nat /\ DOMAIN a = 1..Len(a)
  BY <1>2
<1>5. IsSeq(a)
  BY <1>4, MappedSeq
<1> QED BY <1>2, <1>3, <1>5 DEF a

-----------------------------------------------------------------------------
(* The node.                                                                   *)

LEMMA NodeNumbers ==
    ASSUME NodeInv
    PROVE  /\ tail \in Nat /\ latest \in Nat /\ latest <= tail /\ latest <= MaxOutput
           /\ LastBlock[latest] \in Nat /\ canonical \in Nat /\ committed \in Nat
           /\ committed <= LastBlock[latest]
<1>1. MaxOutput \in Nat
  BY EpochAssumption
<1>2. tail \in Nat /\ latest \in Nat /\ latest <= tail /\ latest <= MaxOutput /\ latest \in 0..MaxOutput
  BY <1>1 DEF NodeInv
<1>3. LastBlock[latest] \in Nat
  BY <1>2, BlocksInOrder
<1> QED BY <1>2, <1>3 DEF NodeInv

(* The epochs before that of an output that is counted have their records.     *)
LEMMA EarlierSealed ==
    ASSUME NodeInv, NEW o \in 1..latest
    PROVE  EpochOf[o] \in Nat /\ 0..(EpochOf[o] - 1) \subseteq records
<1>1. o \in 1..MaxOutput /\ o \in Nat /\ o <= tail
  BY NodeNumbers, EpochAssumption
<1>2. EpochOf[o] \in Nat
  BY <1>1, EpochsInOrder
<1>3. ASSUME NEW e \in 0..(EpochOf[o] - 1) PROVE e \in records
  <2>1. e \in DOMAIN Closing
    BY <1>1, EpochsInOrder
  <2>2. Closing[e] \in 1..(MaxOutput - 1) /\ (o <= Closing[e] <=> EpochOf[o] <= e)
    BY <1>1, <2>1, EpochsInOrder
  <2>3. ~(EpochOf[o] <= e)
    BY <1>2
  <2>4. Closing[e] < tail
    BY <1>1, <2>2, <2>3, EpochAssumption, NodeNumbers
  <2> QED BY <2>1, <2>4 DEF NodeInv
<1> QED BY <1>2, <1>3

LEMMA CurrentSealed ==
    ASSUME NodeInv
    PROVE  /\ latest_consensus_epoch \in Nat
           /\ 0..(latest_consensus_epoch - 1) \subseteq records
<1>1. CASE latest = 0
  BY <1>1 DEF latest_consensus_epoch
<1>2. CASE latest # 0
  <2>1. latest \in 1..latest
    BY <1>2, NodeNumbers
  <2> QED BY <1>2, <2>1, EarlierSealed DEF latest_consensus_epoch
<1> QED BY <1>1, <1>2

(* The record of a sealed epoch; the keys of any epoch whose predecessor is.   *)
LEMMA SealedRecord == ASSUME NEW e \in records PROVE record_by_epoch(e) = {Record(e)}
BY DEF record_by_epoch

LEMMA CommitteeKeys ==
    ASSUME NEW e \in Nat, 0..(e - 1) \subseteq records
    PROVE  UNION committee_keys(e) = Keys[e]
<1>1. \A k : Record(k).committee = Keys[k] /\ Record(k).next_committee = Keys[k + 1]
  BY DEF Record
<1>2. SeededRecord.committee = Keys[0]
  BY DEF SeededRecord
<1>3. CASE e \in records
  <2>1. committee_keys(e) = {Keys[e]}
    BY <1>1, <1>3, SealedRecord DEF committee_keys
  <2> QED BY <2>1
<1>4. CASE e \notin records /\ e = 0
  <2>1. record_by_epoch(e) = {SeededRecord}
    BY <1>4 DEF record_by_epoch
  <2>2. committee_keys(e) = {Keys[e]}
    BY <1>2, <1>4, <2>1 DEF committee_keys
  <2> QED BY <2>2
<1>5. CASE e \notin records /\ e # 0
  <2>1. record_by_epoch(e) = {} /\ e - 1 \in 0..(e - 1) /\ e - 1 + 1 = e
    BY <1>5 DEF record_by_epoch
  <2>2. record_by_epoch(e - 1) = {Record(e - 1)}
    BY <2>1, SealedRecord
  <2>3. committee_keys(e) = {Keys[e]}
    BY <1>1, <2>1, <2>2 DEF committee_keys
  <2> QED BY <2>3
<1> QED BY <1>3, <1>4, <1>5

(* A read at or below the counter finds the output unless its pack is not held.*)
LEMMA NoErr ==
    ASSUME NodeInv, NEW n \in 0..latest
    PROVE  /\ PackRead(n) = IF EpochOf[n] \in missing THEN "none" ELSE "some"
           /\ PackRead(n) # "err"
<1>1. ~(n > tail) /\ n <= tail
  BY NodeNumbers
<1> QED BY <1>1 DEF PackRead

(* All the outputs of a sealed epoch are of that epoch and counted.            *)
LEMMA OutputsOfSealed ==
    ASSUME NodeInv, NEW e \in records, NEW o \in FirstOutput(e)..Closing[e], e \in Nat,
           0..(e - 1) \subseteq records
    PROVE  o \in 1..latest /\ EpochOf[o] = e
<1>1. /\ e \in DOMAIN Closing /\ Closing[e] \in 1..(MaxOutput - 1) /\ Closing[e] <= latest
      /\ records \subseteq DOMAIN Closing
  BY EpochsInOrder DEF NodeInv
<1>2. FirstOutput(e) \in Nat \ {0}
  <2>1. CASE e = 0
    BY <2>1 DEF FirstOutput
  <2>2. CASE e # 0
    <3>1. e - 1 \in DOMAIN Closing
      BY <1>1, <2>2
    <3> QED BY <2>2, <3>1, EpochsInOrder DEF FirstOutput
  <2> QED BY <2>1, <2>2
<1>3. o \in 1..latest /\ o \in 1..MaxOutput /\ o <= Closing[e]
  BY <1>1, <1>2, NodeNumbers, EpochAssumption
<1>4. EpochOf[o] \in Nat /\ EpochOf[o] <= e
  BY <1>1, <1>3, EpochsInOrder
<1>5. CASE e = 0
  BY <1>3, <1>4, <1>5
<1>6. CASE e # 0
  <2>1. e - 1 \in DOMAIN Closing
    BY <1>1, <1>6
  <2>2. Closing[e - 1] + 1 <= o /\ Closing[e - 1] \in Nat
    BY <1>3, <1>6, <2>1, EpochsInOrder DEF FirstOutput
  <2>3. ~(o <= Closing[e - 1])
    BY <1>3, <2>2
  <2>4. ~(EpochOf[o] <= e - 1)
    BY <1>3, <2>1, <2>3, EpochsInOrder
  <2> QED BY <1>3, <1>4, <2>4
<1> QED BY <1>5, <1>6

(* The output that executed a block was counted first.                         *)
LEMMA BlockHasOutput ==
    ASSUME NodeInv, NEW b \in Nat \ {0}, b <= LastBlock[latest]
    PROVE  OutputOfBlock(b) \in 1..latest
<1> DEFINE o == OutputOfBlock(b)
<1>1. MaxOutput \in Nat \ {0} /\ latest \in 0..MaxOutput /\ latest \in Nat /\ LastBlock[latest] \in Nat
  BY NodeNumbers, EpochAssumption
<1>2. LastBlock[latest] <= LastBlock[MaxOutput] /\ LastBlock[MaxOutput] \in Nat
  BY <1>1, BlocksInOrder
<1>3. b \in 1..LastBlock[MaxOutput]
  BY <1>1, <1>2
<1>4. \E x \in 1..MaxOutput : LastBlock[x - 1] < b /\ b <= LastBlock[x]
  BY <1>3, BlocksInOrder
<1>5. o \in 1..MaxOutput /\ LastBlock[o - 1] < b /\ b <= LastBlock[o]
  BY <1>4 DEF OutputOfBlock
<1> HIDE DEF o
<1>6. o - 1 \in 0..MaxOutput /\ LastBlock[o - 1] \in Nat
  BY <1>1, <1>5, BlocksInOrder
<1>7. ~(latest <= o - 1)
  <2> SUFFICES ASSUME latest <= o - 1 PROVE FALSE
    OBVIOUS
  <2>1. LastBlock[latest] <= LastBlock[o - 1]
    BY <1>1, <1>6, BlocksInOrder
  <2> QED BY <1>1, <1>5, <1>6, <2>1
<1>8. o \in 1..latest
  BY <1>1, <1>5, <1>7
<1> QED BY <1>8 DEF o

(* No output that is counted is of an epoch past the current one.              *)
LEMMA NotPastTip == ASSUME NodeInv, NEW o \in 1..latest PROVE ~PastTipEpoch(EpochOf[o])
<1>1. /\ latest # 0 /\ o \in 1..MaxOutput /\ latest \in 1..MaxOutput /\ o <= latest
      /\ o \in Nat /\ latest \in Nat
  BY NodeNumbers, EpochAssumption
<1> DEFINE e == EpochOf[latest]
<1>2. e \in Nat /\ EpochOf[o] \in Nat
  BY <1>1, EpochsInOrder
<1>3. SUFFICES ASSUME EpochOf[o] > e PROVE FALSE
  BY <1>1 DEF PastTipEpoch, latest_consensus_epoch
<1>4. e \in DOMAIN Closing
  <2>1. e \in 0..(EpochOf[o] - 1)
    BY <1>2, <1>3
  <2> QED BY <1>1, <2>1, EpochsInOrder
<1>5. Closing[e] \in Nat /\ latest <= Closing[e] /\ ~(o <= Closing[e])
  BY <1>1, <1>2, <1>3, <1>4, EpochsInOrder
<1> QED BY <1>1, <1>5

-----------------------------------------------------------------------------
(* The registry at the block that seated an epoch.                             *)
LEMMA PinnedRegistry ==
    ASSUME NEW e \in Nat, 0..(e - 1) \subseteq DOMAIN Closing
    PROVE  /\ PinBlock(e) \in Nat /\ RegistryEpoch(PinBlock(e)) = e
           /\ CommitteeAt(PinBlock(e)) = Seated[e]
<1> DEFINE ended == {k \in DOMAIN Closing : LastBlock[Closing[k]] <= PinBlock(e)}
<1>0. \A k \in DOMAIN Closing :
         /\ k \in Nat /\ Closing[k] \in Nat \ {0} /\ Closing[k] \in 0..MaxOutput
         /\ Closing[k] - 1 \in 0..MaxOutput
         /\ LastBlock[Closing[k]] \in Nat /\ LastBlock[Closing[k] - 1] \in Nat
         /\ LastBlock[Closing[k] - 1] < LastBlock[Closing[k]]
  <2> SUFFICES ASSUME NEW k \in DOMAIN Closing
               PROVE  /\ k \in Nat /\ Closing[k] \in Nat \ {0} /\ Closing[k] \in 0..MaxOutput
                      /\ Closing[k] - 1 \in 0..MaxOutput
                      /\ LastBlock[Closing[k]] \in Nat /\ LastBlock[Closing[k] - 1] \in Nat
                      /\ LastBlock[Closing[k] - 1] < LastBlock[Closing[k]]
    OBVIOUS
  <2>1. k \in Nat /\ Closing[k] \in 1..(MaxOutput - 1) /\ MaxOutput \in Nat
    BY EpochsInOrder, EpochAssumption
  <2>2. Closing[k] \in Nat \ {0} /\ Closing[k] \in 0..MaxOutput /\ Closing[k] - 1 \in 0..MaxOutput
    BY <2>1
  <2> QED BY <2>1, <2>2, BlocksInOrder
<1>1. CASE e = 0
  <2>1. PinBlock(e) = 0
    BY <1>1 DEF PinBlock
  <2>2. ended = {}
    BY <1>0, <2>1
  <2>3. RegistryEpoch(PinBlock(e)) = 0
    BY <2>2, FS_EmptySet DEF RegistryEpoch
  <2>4. {x \in Burns : x.block <= PinBlock(e)} = {}
    BY <2>1, SeatsAreLive
  <2> QED BY <1>1, <2>1, <2>3, <2>4 DEF CommitteeAt
<1>2. CASE e # 0
  <2> DEFINE p == e - 1
  <2>1. p \in DOMAIN Closing /\ PinBlock(e) = LastBlock[Closing[p]] /\ p \in Nat /\ e = p + 1
    BY <1>2 DEF PinBlock
  <2>2. ASSUME NEW k \in DOMAIN Closing PROVE LastBlock[Closing[k]] <= LastBlock[Closing[p]] <=> k <= p
    <3>0. /\ k \in Nat /\ EpochOf[Closing[k]] = k /\ EpochOf[Closing[p]] = p
          /\ Closing[k] \in 1..MaxOutput /\ Closing[p] \in 1..MaxOutput
      BY <1>0, <2>1, EpochsInOrder
    <3>1. CASE k <= p
      <4>1. Closing[k] <= Closing[p]
        BY <2>1, <3>0, <3>1, EpochsInOrder
      <4> QED BY <1>0, <2>1, <3>1, <4>1, BlocksInOrder
    <3>2. CASE ~(k <= p)
      <4>1. ~(Closing[k] <= Closing[p])
        BY <2>1, <3>0, <3>2, EpochsInOrder
      <4>2. Closing[p] <= Closing[k] - 1
        BY <3>0, <4>1, EpochAssumption
      <4>3. LastBlock[Closing[p]] <= LastBlock[Closing[k] - 1]
        BY <1>0, <2>1, <4>2, BlocksInOrder
      <4> QED BY <1>0, <2>1, <3>2, <4>3
    <3> QED BY <3>1, <3>2
  <2>3. ended = 0..p
    BY <1>0, <2>1, <2>2
  <2>4. Cardinality(0..p) = e
    BY <2>1, FS_Interval
  <2>5. RegistryEpoch(PinBlock(e)) = e
    BY <2>3, <2>4 DEF RegistryEpoch
  <2>6. \A x \in Burns : x.block <= PinBlock(e) => x.validator \notin Seated[e]
    BY <2>1, SeatsAreLive
  <2>7. CommitteeAt(PinBlock(e)) = Seated[e]
    BY <2>5, <2>6 DEF CommitteeAt
  <2> QED BY <1>0, <2>1, <2>5, <2>7
<1> QED BY <1>1, <1>2

-----------------------------------------------------------------------------
LEMMA IdleFields ==
    /\ DOMAIN Idle = Fields /\ Idle.pc = "idle" /\ Idle.route = "none" /\ Idle.shown = <<>>
    /\ Idle.rows = <<>> /\ Idle.detail = FALSE
BY DEF Idle, Fields

(* A request that has no answer yet and none of the routes below.              *)
LEMMA IdleIsGood ==
    ASSUME DOMAIN req = Fields, req.pc = "idle", req.route = "none", req.shown = <<>>
    PROVE  RouteInv /\ BoundInv /\ EpochInv /\ OutputInv /\ BlockInv /\ NoTipRace
<1>1. IsSeq(req.shown) /\ DOMAIN req.shown = {}
  BY SmallSeqs
<1> QED BY <1>1 DEF RouteInv, BoundInv, EpochInv, OutputInv, BlockInv, NoTipRace, EpochSteps

(* The observer starts with the packs, the counter and the records in step.    *)
LEMMA InitIInv == Init => IInv
<1> SUFFICES ASSUME Init PROVE IInv
  OBVIOUS
<1>1. PICK start \in Starts :
        /\ tail = start /\ latest = start
        /\ canonical = LastBlock[start] /\ committed = LastBlock[start]
        /\ records = {e \in DOMAIN Closing : Closing[e] < start}
        /\ req = Idle
  BY DEF Init
<1>2. start \in 0..MaxOutput /\ MaxOutput \in Nat
  BY EpochAssumption
<1>3. LastBlock[start] \in Nat
  BY <1>2, BlocksInOrder
<1>4. NodeInv
  <2>1. \A e \in records : Closing[e] <= latest
    BY <1>1, <1>2, EpochsInOrder
  <2> QED BY <1>1, <1>2, <1>3, <2>1 DEF NodeInv
<1>5. RouteInv /\ BoundInv /\ EpochInv /\ OutputInv /\ BlockInv /\ NoTipRace
  BY <1>1, IdleFields, IdleIsGood
<1> QED BY <1>4, <1>5 DEF IInv

(* The node's own steps: nothing it has written is taken back.                 *)
LEMMA NodeGrows ==
    ASSUME NodeInv, NodeStep
    PROVE  /\ NodeInv' /\ UNCHANGED <<req, missing>>
           /\ latest <= latest' /\ committed <= committed' /\ records \subseteq records'
           /\ LastBlock[latest] <= LastBlock[latest']
<1>0. /\ tail \in Nat /\ latest \in Nat /\ latest <= tail /\ tail <= MaxOutput
      /\ MaxOutput \in Nat /\ canonical \in Nat /\ committed \in Nat /\ committed <= canonical
      /\ canonical <= LastBlock[latest] /\ LastBlock[latest] \in Nat
  BY NodeNumbers, EpochAssumption DEF NodeInv
<1>1. CASE SavePack
  <2>1. \A e \in DOMAIN Closing : Closing[e] < tail + 1 => e \in records
    <3> SUFFICES ASSUME NEW e \in DOMAIN Closing, Closing[e] < tail + 1 PROVE e \in records
      OBVIOUS
    <3>1. Closing[e] \in Nat /\ EpochOf[Closing[e]] = e
      BY EpochsInOrder, EpochAssumption
    <3>2. CASE Closing[e] < tail
      BY <3>2 DEF NodeInv
    <3>3. CASE Closing[e] = tail
      BY <1>1, <3>1, <3>3 DEF SavePack
    <3> QED BY <1>0, <3>1, <3>2, <3>3
  <2> QED BY <1>0, <1>1, <2>1 DEF SavePack, NodeInv
<1>2. CASE AckPack
  <2>1. LastBlock[latest] <= LastBlock[tail] /\ LastBlock[tail] \in Nat
    BY <1>0, BlocksInOrder
  <2>2. \A e \in records : Closing[e] <= tail
    BY <1>0, EpochsInOrder, EpochAssumption DEF NodeInv
  <2> QED BY <1>0, <1>2, <2>1, <2>2 DEF AckPack, NodeInv
<1>3. CASE Execute
  BY <1>0, <1>3 DEF Execute, NodeInv
<1>4. CASE Persist
  BY <1>0, <1>4 DEF Persist, NodeInv
<1>5. ASSUME NEW e \in DOMAIN Closing, WriteRecord(e) \/ WriteCertificate(e)
      PROVE  /\ NodeInv' /\ UNCHANGED <<req, missing, latest, committed>> /\ records \subseteq records'
  BY <1>0, <1>5 DEF WriteRecord, WriteCertificate, NodeInv
<1> QED BY <1>0, <1>1, <1>2, <1>3, <1>4, <1>5 DEF NodeStep

LEMMA NodeKeeps == ASSUME IInv, NodeStep PROVE IInv'
<1>1. /\ NodeInv /\ NodeInv' /\ req' = req /\ missing' = missing
      /\ latest <= latest' /\ committed <= committed' /\ records \subseteq records'
      /\ LastBlock[latest] <= LastBlock[latest']
  BY NodeGrows DEF IInv
<1>2. /\ latest \in Nat /\ latest' \in Nat /\ committed \in Nat /\ committed' \in Nat
      /\ LastBlock[latest] \in Nat /\ LastBlock[latest'] \in Nat
  BY <1>1, NodeNumbers, EpochAssumption, BlocksInOrder DEF NodeInv
<1>3. /\ 0..latest \subseteq 0..latest' /\ 1..latest \subseteq 1..latest'
      /\ 0..committed \subseteq 0..committed' /\ 0..LastBlock[latest] \subseteq 0..LastBlock[latest']
  BY <1>1, <1>2
<1>4. RouteInv' /\ NoTipRace'
  BY <1>1 DEF IInv, RouteInv, NoTipRace
<1>5. BoundInv'
  <2>1. req.pc = "headers" => req.todo \in Seq(1..latest')
    BY <1>3, SeqWider DEF IInv, BoundInv
  <2> QED BY <1>1, <1>3, <2>1 DEF IInv, BoundInv
<1>6. EpochInv'
  <2>2. TimesRead' = TimesRead /\ AddressesRead' = AddressesRead
    BY <1>1 DEF TimesRead, AddressesRead
  <2> QED BY <1>1, <1>3, <2>2 DEF IInv, EpochInv
<1>7. OutputInv'
  BY <1>1, <1>3 DEF IInv, OutputInv, ClosesRight
<1>8. BlockInv'
  BY <1>1, <1>3 DEF IInv, BlockInv
<1> QED BY <1>1, <1>4, <1>5, <1>6, <1>7, <1>8 DEF IInv

-----------------------------------------------------------------------------
(* The epoch routes.                                                           *)

(* They read records, not outputs by number, so only their own part of the     *)
(* invariant is at stake.                                                      *)
LEMMA OnEpochRoute ==
    ASSUME IInv, UNCHANGED node, DOMAIN req' = Fields, req'.shown = <<>>,
           req'.route \in {"epochs", "consensus"}, EpochInv'
    PROVE  IInv'
<1>1. req'.pc \in EpochSteps \cup {"done", "not_found"}
  BY DEF EpochInv
<1>2. IsSeq(req'.shown) /\ DOMAIN req'.shown = {}
  BY SmallSeqs
<1>3. NodeInv'
  BY DEF IInv, NodeInv, node
<1>4. RouteInv' /\ BoundInv' /\ NoTipRace'
  BY <1>1, <1>2 DEF RouteInv, BoundInv, NoTipRace, EpochSteps
<1> QED BY <1>3, <1>4 DEF IInv, OutputInv, BlockInv

LEMMA EpochListKeeps ==
    ASSUME IInv, NEW route \in {"epochs", "consensus"}, EpochList(route) PROVE IInv'
<1> DEFINE current == latest_consensus_epoch
           items(page, requested) == desc_page_items(current + 1, page, clamp_per_page(requested))
<1>1. PICK page \in Pages, requested \in PageSizes :
         req' = [Idle EXCEPT !.pc = IF items(page, requested) = <<>> THEN "done" ELSE "this",
                             !.route = route, !.current = current, !.base = committed,
                             !.todo = items(page, requested)]
  BY DEF EpochList
<1> DEFINE todo == items(page, requested)
<1>2. current \in Nat /\ 0..(current - 1) \subseteq records
  BY CurrentSealed DEF IInv
<1>3. page \in Nat /\ clamp_per_page(requested) \in Nat \ {0}
  BY PagingAssumption, PerPageInRange
<1>4. todo \in Seq(0..(current + 1 - 1)) /\ current + 1 - 1 = current
  BY <1>2, <1>3, ItemsInRange
<1> HIDE DEF todo, current, items
<1>5. /\ DOMAIN req' = Fields /\ req'.shown = <<>> /\ req'.route = route /\ req'.rows = <<>>
      /\ req'.current = current /\ req'.base = committed /\ req'.todo = todo /\ req'.detail = FALSE
      /\ req'.pc = IF todo = <<>> THEN "done" ELSE "this"
  BY <1>1, IdleFields DEF todo, Fields
<1>6. UNCHANGED node
  BY DEF EpochList
<1>7. committed \in Nat /\ records' = records /\ committed' = committed
  BY <1>6, NodeNumbers DEF IInv, node
<1>8. EpochInv'
  BY <1>2, <1>4, <1>5, <1>7, SmallSeqs DEF EpochInv, EpochSteps, TimesRead, AddressesRead
<1> QED BY <1>5, <1>6, <1>8, OnEpochRoute

LEMMA EpochDetailKeeps ==
    ASSUME IInv, NEW route \in {"epochs", "consensus"}, EpochDetail(route) PROVE IInv'
<1> DEFINE current == latest_consensus_epoch
<1>1. PICK n \in 0..(EpochOf[MaxOutput] + 1) :
         req' = [Idle EXCEPT !.pc = IF n > current THEN "not_found" ELSE "this",
                             !.route = route, !.detail = TRUE, !.current = current,
                             !.base = committed,
                             !.todo = IF n > current THEN <<>> ELSE <<n>>]
  BY DEF EpochDetail
<1>2. current \in Nat /\ 0..(current - 1) \subseteq records
  BY CurrentSealed DEF IInv
<1>3. n \in Nat
  BY EpochAssumption, EpochsInOrder
<1> HIDE DEF current
<1>4. /\ DOMAIN req' = Fields /\ req'.shown = <<>> /\ req'.route = route /\ req'.rows = <<>>
      /\ req'.current = current /\ req'.base = committed
      /\ \/ req'.pc = "not_found" /\ req'.todo = <<>>
         \/ req'.pc = "this" /\ req'.todo = <<n>> /\ n <= current
  BY <1>1, <1>2, <1>3, IdleFields DEF Fields
<1>5. req'.todo \in Seq(0..current) /\ (req'.pc = "this" => req'.todo # <<>> /\ Len(req'.todo) = 1)
  <2>1. CASE req'.todo = <<>> /\ req'.pc = "not_found"
    BY <2>1
  <2>2. CASE req'.todo = <<n>> /\ n <= current
    <3>1. n \in 0..current
      BY <1>2, <1>3, <2>2
    <3>2. <<n>> \in Seq(0..current) /\ <<n>> # <<>> /\ Len(<<n>>) = 1
      BY <3>1
    <3> QED BY <2>2, <3>2
  <2> QED BY <1>4, <2>1, <2>2
<1>6. UNCHANGED node
  BY DEF EpochDetail
<1>7. committed \in Nat /\ records' = records /\ committed' = committed
  BY <1>6, NodeNumbers DEF IInv, node
<1>8. EpochInv'
  BY <1>2, <1>4, <1>5, <1>7, SmallSeqs DEF EpochInv, EpochSteps, TimesRead, AddressesRead
<1> QED BY <1>4, <1>6, <1>8, OnEpochRoute

(* What a step of a running epoch request may rely on.                         *)
LEMMA EpochRunning ==
    ASSUME IInv, req.pc \in EpochSteps
    PROVE  /\ DOMAIN req = Fields /\ req.route \in {"epochs", "consensus"} /\ EpochInv /\ NodeInv
           /\ req.shown = <<>> /\ req.current \in Nat /\ 0..(req.current - 1) \subseteq records
           /\ req.pc \in {"this", "previous", "keys"} =>
                /\ req.todo # <<>> /\ Head(req.todo) \in 0..req.current
                /\ 0..(Head(req.todo) - 1) \subseteq records
<1>1. /\ DOMAIN req = Fields /\ req.route \in {"epochs", "consensus"} /\ EpochInv /\ NodeInv
  BY DEF IInv, RouteInv
<1>2. /\ req.shown = <<>> /\ req.current \in Nat /\ 0..(req.current - 1) \subseteq records
      /\ req.todo \in Seq(0..req.current)
      /\ req.pc \in {"this", "previous", "keys"} => req.todo # <<>>
  BY <1>1 DEF EpochInv
<1>3. req.pc \in {"this", "previous", "keys"} => Head(req.todo) \in 0..req.current
  BY <1>2, HeadAndTail
<1>4. ASSUME NEW e \in 0..req.current PROVE 0..(e - 1) \subseteq 0..(req.current - 1)
  BY <1>2
<1> QED BY <1>1, <1>2, <1>3, <1>4

LEMMA ReadThisKeeps == ASSUME IInv, ReadThis PROVE IInv'
<1> DEFINE e == Head(req.todo)
           this == {[record |-> r, certified |-> e \in certs] :
                      r \in ShowRecord(record_by_epoch(e), e, req.current)}
<1>1. req.pc = "this" /\ UNCHANGED node
  BY DEF ReadThis
<1>2. /\ DOMAIN req = Fields /\ req.route \in {"epochs", "consensus"} /\ EpochInv
      /\ req.shown = <<>> /\ req.current \in Nat /\ 0..(req.current - 1) \subseteq records
      /\ e \in 0..req.current
  BY <1>1, EpochRunning DEF EpochSteps
<1>3. /\ DOMAIN req' = Fields /\ req'.pc = "previous" /\ req'.this = this
      /\ req'.route = req.route /\ req'.current = req.current /\ req'.base = req.base
      /\ req'.todo = req.todo /\ req'.rows = req.rows /\ req'.shown = req.shown
      /\ req'.detail = req.detail
  BY <1>2 DEF ReadThis, Fields
<1>4. this = {} <=> e = req.current
  <2>1. CASE e = req.current
    BY <2>1 DEF ShowRecord
  <2>2. CASE e # req.current
    <3>1. e \in 0..(req.current - 1)
      BY <1>2, <2>2
    <3>2. ShowRecord(record_by_epoch(e), e, req.current) = {Record(e)}
      BY <1>2, <2>2, <3>1, SealedRecord DEF ShowRecord
    <3> QED BY <2>2, <3>2
  <2> QED BY <2>1, <2>2
<1>5. \A t \in this : t.record = Record(e)
  <2> SUFFICES ASSUME NEW t \in this PROVE t.record = Record(e)
    OBVIOUS
  <2>1. PICK r \in ShowRecord(record_by_epoch(e), e, req.current) :
          t = [record |-> r, certified |-> e \in certs]
    OBVIOUS
  <2>2. r \in record_by_epoch(e) /\ e # req.current
    BY DEF ShowRecord
  <2>3. e \in records
    BY <1>2, <2>2
  <2> QED BY <2>1, <2>2, <2>3, SealedRecord
<1> HIDE DEF this, e
<1>7. EpochInv'
  BY <1>1, <1>2, <1>3, <1>4, <1>5
     DEF EpochInv, EpochSteps, TimesRead, AddressesRead, node, e
<1> QED BY <1>1, <1>2, <1>3, <1>7, OnEpochRoute

LEMMA ReadPreviousKeeps == ASSUME IInv, ReadPrevious PROVE IInv'
<1> DEFINE e == Head(req.todo)
<1>1. req.pc = "previous" /\ UNCHANGED node
  BY DEF ReadPrevious
<1>2. /\ DOMAIN req = Fields /\ req.route \in {"epochs", "consensus"} /\ EpochInv
      /\ req.shown = <<>> /\ e \in 0..req.current /\ 0..(e - 1) \subseteq records
      /\ req.current \in Nat
  BY <1>1, EpochRunning DEF EpochSteps
<1>3. /\ DOMAIN req' = Fields /\ req'.pc = "keys" /\ req'.this = req.this
      /\ req'.previous = IF e = 0 THEN {} ELSE record_by_epoch(e - 1)
      /\ req'.route = req.route /\ req'.current = req.current /\ req'.base = req.base
      /\ req'.todo = req.todo /\ req'.rows = req.rows /\ req'.shown = req.shown
      /\ req'.detail = req.detail
  BY <1>1, <1>2 DEF ReadPrevious, Fields
<1>4. req'.previous = IF e = 0 THEN {} ELSE {Record(e - 1)}
  <2>1. e # 0 => e - 1 \in 0..(e - 1)
    BY <1>2
  <2> QED BY <1>2, <1>3, <2>1, SealedRecord
<1> HIDE DEF e
<1>6. EpochInv'
  BY <1>1, <1>2, <1>3, <1>4
     DEF EpochInv, EpochSteps, TimesRead, AddressesRead, node, e
<1> QED BY <1>1, <1>2, <1>3, <1>6, OnEpochRoute

(* The row built from the two records and the keys is a true one.              *)
LEMMA FinishRowKeeps == ASSUME IInv, FinishRow PROVE IInv'
<1> DEFINE e == Head(req.todo)
           row == [epoch |-> e, is_current |-> e = req.current,
                   certified |-> \E t \in req.this : t.certified,
                   exec_first |-> First(e, 0, {p.final_state + 1 : p \in req.previous}),
                   exec_last |-> {t.record.final_state : t \in req.this},
                   consensus_first |-> First(e, 1, {p.final_consensus + 1 : p \in req.previous}),
                   consensus_last |-> {t.record.final_consensus : t \in req.this},
                   committee_bls |-> IF req.this # {}
                                     THEN UNION {t.record.committee : t \in req.this}
                                     ELSE UNION committee_keys(e),
                   end_time |-> {}, addresses |-> {}, pack_complete |-> {}, rounds |-> FALSE]
<1>1. req.pc = "keys" /\ UNCHANGED node
  BY DEF FinishRow
<1>2. /\ DOMAIN req = Fields /\ req.route \in {"epochs", "consensus"} /\ EpochInv
      /\ req.shown = <<>> /\ e \in 0..req.current /\ 0..(e - 1) \subseteq records
      /\ req.current \in Nat /\ req.todo # <<>>
  BY <1>1, EpochRunning DEF EpochSteps
<1>3. /\ DOMAIN req' = Fields
      /\ req'.pc = CASE Len(req.todo) > 1 -> "this"
                     [] req.detail /\ req.route = "consensus" -> "pin"
                     [] OTHER -> "times"
      /\ req'.todo = Tail(req.todo) /\ req'.rows = Append(req.rows, row)
      /\ req'.route = req.route /\ req'.current = req.current /\ req'.base = req.base
      /\ req'.shown = req.shown /\ req'.detail = req.detail
  BY <1>1, <1>2 DEF FinishRow, Fields
<1>4. /\ req.this = {} <=> e = req.current
      /\ \A t \in req.this : t.record = Record(e)
      /\ req.previous = IF e = 0 THEN {} ELSE {Record(e - 1)}
      /\ req.todo \in Seq(0..req.current) /\ IsSeq(req.rows)
      /\ \A i \in DOMAIN req.rows : GoodRow(req.rows[i], req.current, missing)
      /\ req.detail => Len(req.todo) = 1 /\ req.rows = <<>>
      /\ req.base \in 0..committed
  BY <1>1, <1>2 DEF EpochInv
<1>5. \A k : /\ Record(k).final_state = LastBlock[Closing[k]] /\ Record(k).final_consensus = Closing[k]
             /\ Record(k).committee = Keys[k]
  BY DEF Record
<1>6. /\ row.exec_first = {FirstBlock(e)} /\ row.consensus_first = {FirstOutput(e)}
  <2>1. CASE e = 0
    BY <2>1 DEF First, FirstBlock, FirstOutput
  <2>2. CASE e # 0
    <3>1. /\ {p.final_state + 1 : p \in req.previous} = {LastBlock[Closing[e - 1]] + 1}
          /\ {p.final_consensus + 1 : p \in req.previous} = {Closing[e - 1] + 1}
      BY <1>4, <1>5, <2>2
    <3> QED BY <2>2, <3>1 DEF First, FirstBlock, FirstOutput
  <2> QED BY <2>1, <2>2
<1>7. /\ row.exec_last = IF e = req.current THEN {} ELSE {LastBlock[Closing[e]]}
      /\ row.consensus_last = IF e = req.current THEN {} ELSE {Closing[e]}
  BY <1>4, <1>5
<1>8. row.committee_bls = Keys[e]
  <2>1. CASE req.this = {}
    BY <1>2, <2>1, CommitteeKeys
  <2>2. CASE req.this # {}
    <3>1. {t.record.committee : t \in req.this} = {Keys[e]}
      BY <1>4, <1>5, <2>2
    <3> QED BY <2>2, <3>1
  <2> QED BY <2>1, <2>2
<1>9. /\ DOMAIN row = RowFields /\ row.epoch = e /\ row.is_current = (e = req.current)
      /\ row.pack_complete = {}
  BY DEF RowFields
<1>10. row.is_current => ~row.certified
  BY <1>4
<1> HIDE DEF row, e
<1>11. GoodRow(row, req.current, missing)
  BY <1>2, <1>6, <1>7, <1>8, <1>9, <1>10 DEF GoodRow
<1>13. /\ IsSeq(req'.rows) /\ Len(req'.rows) = Len(req.rows) + 1
       /\ \A i \in DOMAIN req'.rows : GoodRow(req'.rows[i], req'.current, missing')
  <2>1. /\ IsSeq(req'.rows) /\ Len(req'.rows) = Len(req.rows) + 1
        /\ \A i \in DOMAIN req'.rows :
             \/ i \in DOMAIN req.rows /\ req'.rows[i] = req.rows[i]
             \/ req'.rows[i] = row
    BY <1>3, <1>4, AppendedSeq
  <2> QED BY <1>1, <1>3, <1>4, <1>11, <2>1 DEF node
<1>14. /\ Tail(req.todo) \in Seq(0..req.current)
       /\ Len(req.todo) > 1 => Tail(req.todo) # <<>>
  BY <1>2, <1>4, HeadAndTail
<1>15. req.detail => Len(req'.rows) = 1
  BY <1>4, <1>13, SmallSeqs
<1>16. /\ req'.pc \in {"this", "pin", "times"}
       /\ req'.pc = "this" => Len(req.todo) > 1
       /\ req'.pc = "pin" => req.detail /\ req.route = "consensus"
       /\ req'.pc = "times" => ~(req.detail /\ req.route = "consensus")
  BY <1>3
<1>17. req'.pc = "this" => ~req.detail
  <2> SUFFICES ASSUME req'.pc = "this", req.detail PROVE FALSE
    OBVIOUS
  <2>1. Len(req.todo) = 1
    BY <1>4
  <2>2. Len(req.todo) > 1
    BY <1>16
  <2> QED BY <2>1, <2>2
<1>18. ~TimesRead' /\ ~AddressesRead'
  BY <1>3, <1>16 DEF TimesRead, AddressesRead
<1>19. committed' = committed /\ records' = records
  BY <1>1 DEF node
<1>20. EpochInv'
  BY <1>2, <1>3, <1>4, <1>13, <1>14, <1>15, <1>16, <1>17, <1>18, <1>19 DEF EpochInv, EpochSteps
<1> QED BY <1>1, <1>2, <1>3, <1>20, OnEpochRoute

LEMMA ReadTimesKeeps == ASSUME IInv, ReadTimes PROVE IInv'
<1> DEFINE timed(row) == [row EXCEPT !.end_time = {TimeOf(b) : b \in {x \in row.exec_last :
                                                                       x <= committed}}]
<1>1. req.pc = "times" /\ UNCHANGED node
  BY DEF ReadTimes
<1>2. /\ DOMAIN req = Fields /\ req.route \in {"epochs", "consensus"} /\ EpochInv
      /\ req.shown = <<>> /\ NodeInv
  BY <1>1, EpochRunning DEF EpochSteps
<1>3. /\ DOMAIN req' = Fields
      /\ req'.pc = IF req.detail /\ req.route = "epochs" THEN "pin" ELSE "done"
      /\ req'.rows = [i \in DOMAIN req.rows |-> timed(req.rows[i])]
      /\ req'.route = req.route /\ req'.current = req.current /\ req'.base = req.base
      /\ req'.shown = req.shown /\ req'.detail = req.detail /\ req'.todo = req.todo
  BY <1>1, <1>2 DEF ReadTimes, Fields
<1>4. /\ IsSeq(req.rows) /\ \A i \in DOMAIN req.rows : GoodRow(req.rows[i], req.current, missing)
      /\ req.base \in 0..committed
      /\ req.detail => Len(req.rows) = 1
      /\ req.detail /\ req.route = "consensus" => SeatedRow(req.rows[1], req.base)
  BY <1>1, <1>2 DEF EpochInv, AddressesRead
<1>5. /\ Len(req.rows) \in Nat /\ DOMAIN req.rows = 1..Len(req.rows)
      /\ DOMAIN req'.rows = DOMAIN req.rows
      /\ \A i \in DOMAIN req.rows : req'.rows[i] = timed(req.rows[i])
  BY <1>3, <1>4, SeqShape
<1>6. IsSeq(req'.rows) /\ Len(req'.rows) = Len(req.rows)
  <2>1. DOMAIN req'.rows = 1..Len(req.rows) /\ req'.rows = [i \in 1..Len(req.rows) |-> req'.rows[i]]
    BY <1>3, <1>5
  <2> QED BY <1>5, <2>1, MappedSeq
<1>7. committed \in Nat /\ committed' = committed /\ records' = records /\ missing' = missing
  BY <1>1, <1>2, NodeNumbers DEF node
<1>8. ASSUME NEW row, GoodRow(row, req.current, missing)
      PROVE  /\ GoodRow(timed(row), req.current, missing) /\ Timed(timed(row), req.base)
             /\ SeatedRow(row, req.base) => SeatedRow(timed(row), req.base)
  <2> DEFINE new == timed(row)
  <2>1. /\ DOMAIN new = RowFields /\ new.epoch = row.epoch /\ new.is_current = row.is_current
        /\ new.exec_first = row.exec_first /\ new.consensus_first = row.consensus_first
        /\ new.committee_bls = row.committee_bls /\ new.exec_last = row.exec_last
        /\ new.consensus_last = row.consensus_last /\ new.certified = row.certified
        /\ new.pack_complete = row.pack_complete /\ new.addresses = row.addresses
        /\ new.end_time = {TimeOf(b) : b \in {x \in row.exec_last : x <= committed}}
    BY <1>8 DEF GoodRow, RowFields
  <2>2. GoodRow(new, req.current, missing)
    <3> HIDE DEF new
    <3> QED BY <1>3, <1>7, <1>8, <2>1 DEF GoodRow
  <2>3. \A b \in row.exec_last : row.exec_last = {b} /\ b \in Nat
    <3>1. ASSUME ~row.is_current PROVE LastBlock[Closing[row.epoch]] \in Nat
      <4>0. req.current \in Nat
        BY <1>2 DEF EpochInv
      <4>1. row.epoch \in 0..(req.current - 1)
        <5>1. row.epoch \in 0..req.current
          BY <1>8 DEF GoodRow
        <5>2. row.epoch # req.current
          BY <1>8, <3>1, Zenon DEF GoodRow
        <5> QED BY <4>0, <5>1, <5>2
      <4>2. row.epoch \in DOMAIN Closing
        <5>1. 0..(req.current - 1) \subseteq records /\ records \subseteq DOMAIN Closing
          BY <1>1, <1>2, EpochRunning DEF EpochSteps, NodeInv
        <5> QED BY <4>1, <5>1
      <4>3. Closing[row.epoch] \in 0..MaxOutput
        BY <4>2, EpochsInOrder, EpochAssumption
      <4> QED BY <4>3, BlocksInOrder
    <3> QED BY <1>8, <3>1 DEF GoodRow
  <2>4. \A b \in row.exec_last : b <= req.base => new.end_time = {TimeOf(b)}
    <3> SUFFICES ASSUME NEW b \in row.exec_last, b <= req.base PROVE new.end_time = {TimeOf(b)}
      OBVIOUS
    <3>1. b <= committed
      BY <1>4, <1>7, <2>3
    <3>2. {x \in row.exec_last : x <= committed} = {b}
      BY <2>3, <3>1
    <3> QED BY <2>1, <3>2
  <2>5. row.exec_last = {} => new.end_time = {}
    BY <2>1
  <2> HIDE DEF new
  <2>6. Timed(new, req.base)
    BY <1>3, <2>1, <2>4, <2>5 DEF Timed
  <2>7. SeatedRow(row, req.base) => SeatedRow(new, req.base)
    BY <1>3, <2>1 DEF SeatedRow
  <2> QED BY <2>2, <2>6, <2>7 DEF new
<1> HIDE DEF timed
<1>9. \A i \in DOMAIN req'.rows : GoodRow(req'.rows[i], req'.current, missing') /\ Timed(req'.rows[i], req'.base)
  BY <1>3, <1>4, <1>5, <1>7, <1>8
<1>10. req.detail /\ req.route = "consensus" => SeatedRow(req'.rows[1], req'.base)
  <2> SUFFICES ASSUME req.detail, req.route = "consensus" PROVE SeatedRow(req'.rows[1], req'.base)
    OBVIOUS
  <2>1. 1 \in DOMAIN req.rows
    BY <1>4, <1>5
  <2> QED BY <1>3, <1>4, <1>5, <1>8, <2>1
<1>11. req'.detail /\ req'.pc \in {"times", "pin", "registry", "pack", "done"} => Len(req'.rows) = 1
  BY <1>3, <1>4, <1>6
<1>12. AddressesRead' => SeatedRow(req'.rows[1], req'.base)
  BY <1>2, <1>3, <1>10 DEF AddressesRead
<1>13. EpochInv'
  BY <1>2, <1>3, <1>4, <1>6, <1>7, <1>9, <1>11, <1>12 DEF EpochInv, EpochSteps
<1> QED BY <1>1, <1>2, <1>3, <1>13, OnEpochRoute

LEMMA ReadPinKeeps == ASSUME IInv, ReadPin PROVE IInv'
<1> DEFINE e == req.rows[1].epoch
<1>1. req.pc = "pin" /\ UNCHANGED node
  BY DEF ReadPin
<1>2. /\ DOMAIN req = Fields /\ req.route \in {"epochs", "consensus"} /\ EpochInv
      /\ req.shown = <<>> /\ NodeInv /\ req.current \in Nat /\ 0..(req.current - 1) \subseteq records
  BY <1>1, EpochRunning DEF EpochSteps
<1>3. /\ DOMAIN req' = Fields /\ req'.pc = "registry" /\ req'.pin = CommitteePin(e)
      /\ req'.route = req.route /\ req'.current = req.current /\ req'.base = req.base
      /\ req'.shown = req.shown /\ req'.detail = req.detail /\ req'.todo = req.todo
      /\ req'.rows = req.rows
  BY <1>1, <1>2 DEF ReadPin, Fields
<1>4. GoodRow(req.rows[1], req.current, missing)
  <2>1. Len(req.rows) = 1 /\ IsSeq(req.rows)
    BY <1>1, <1>2 DEF EpochInv
  <2>2. 1 \in DOMAIN req.rows
    BY <2>1, SeqShape
  <2> QED BY <1>2, <2>2 DEF EpochInv
<1>5. e \in 0..req.current
  BY <1>4 DEF GoodRow
<1>6. CommitteePin(e) = {PinBlock(e)}
  <2>1. CASE e = 0
    BY <2>1 DEF CommitteePin, PinBlock
  <2>2. CASE e # 0
    <3>1. e - 1 \in records
      BY <1>2, <1>5, <2>2
    <3>2. record_by_epoch(e - 1) = {Record(e - 1)} /\ Record(e - 1).final_state = LastBlock[Closing[e - 1]]
      BY <3>1, SealedRecord DEF Record
    <3> QED BY <2>2, <3>2 DEF CommitteePin, PinBlock
  <2> QED BY <2>1, <2>2
<1> HIDE DEF e
<1>8. (TimesRead' => TimesRead) /\ ~AddressesRead'
  BY <1>1, <1>3 DEF TimesRead, AddressesRead
<1>9. EpochInv'
  BY <1>1, <1>2, <1>3, <1>6, <1>8 DEF EpochInv, EpochSteps, node, e
<1> QED BY <1>1, <1>2, <1>3, <1>9, OnEpochRoute

(* The steps that complete the one row of a detail answer.                     *)
LEMMA DetailRow ==
    ASSUME IInv, req.pc \in {"pin", "registry", "pack"}
    PROVE  /\ DOMAIN req.rows = {1} /\ req.detail
           /\ GoodRow(req.rows[1], req.current, missing)
           /\ 0..(req.rows[1].epoch - 1) \subseteq records /\ req.rows[1].epoch \in Nat
<1>1. /\ req.current \in Nat /\ 0..(req.current - 1) \subseteq records /\ EpochInv
      /\ req.route \in {"epochs", "consensus"}
  BY EpochRunning DEF EpochSteps
<1>2. Len(req.rows) = 1 /\ IsSeq(req.rows) /\ req.detail
  BY <1>1 DEF EpochInv
<1>3. DOMAIN req.rows = {1}
  BY <1>2, SeqShape
<1>4. GoodRow(req.rows[1], req.current, missing)
  BY <1>1, <1>3 DEF EpochInv
<1>5. req.rows[1].epoch \in 0..req.current
  BY <1>4 DEF GoodRow
<1>6. req.rows[1].epoch \in Nat /\ 0..(req.rows[1].epoch - 1) \subseteq 0..(req.current - 1)
  BY <1>1, <1>5
<1> QED BY <1>1, <1>2, <1>3, <1>4, <1>6

(* One row is a sequence of rows.                                              *)
LEMMA OneRow ==
    ASSUME NEW rows, rows = [i \in {1} |-> rows[i]] PROVE IsSeq(rows) /\ Len(rows) = 1
<1>1. 1..1 = {1}
  OBVIOUS
<1> QED BY <1>1, MappedSeq

LEMMA ReadRegistryKeeps == ASSUME IInv, ReadRegistry PROVE IInv'
<1> DEFINE row == req.rows[1]
           seated == {CommitteeAt(b) : b \in {x \in req.pin : /\ x <= committed
                                                              /\ RegistryEpoch(x) = row.epoch}}
           new == [row EXCEPT !.addresses = seated]
<1>1. req.pc = "registry" /\ UNCHANGED node
  BY DEF ReadRegistry
<1>2. /\ DOMAIN req = Fields /\ req.route \in {"epochs", "consensus"} /\ EpochInv
      /\ req.shown = <<>> /\ NodeInv
  BY <1>1, EpochRunning DEF EpochSteps
<1>3. /\ DOMAIN req.rows = {1} /\ req.detail /\ GoodRow(row, req.current, missing)
      /\ 0..(row.epoch - 1) \subseteq records /\ row.epoch \in Nat
  BY <1>1, DetailRow
<1>4. /\ DOMAIN req' = Fields
      /\ req'.pc = IF req.route = "consensus" THEN "pack" ELSE "done"
      /\ req'.rows = [req.rows EXCEPT ![1] = new]
      /\ req'.route = req.route /\ req'.current = req.current /\ req'.base = req.base
      /\ req'.shown = req.shown /\ req'.detail = req.detail /\ req'.todo = req.todo
  BY <1>1, <1>2 DEF ReadRegistry, Fields
<1>5. /\ new.epoch = row.epoch /\ new.addresses = seated
      /\ new.end_time = row.end_time /\ new.exec_last = row.exec_last
      /\ GoodRow(new, req.current, missing)
  <2>1. DOMAIN row = RowFields
    BY <1>3 DEF GoodRow
  <2>2. /\ DOMAIN new = RowFields /\ new.epoch = row.epoch /\ new.is_current = row.is_current
        /\ new.exec_first = row.exec_first /\ new.consensus_first = row.consensus_first
        /\ new.committee_bls = row.committee_bls /\ new.exec_last = row.exec_last
        /\ new.consensus_last = row.consensus_last /\ new.certified = row.certified
        /\ new.pack_complete = row.pack_complete /\ new.end_time = row.end_time
        /\ new.addresses = seated
    BY <2>1 DEF RowFields
  <2> HIDE DEF new
  <2> QED BY <1>3, <2>2 DEF GoodRow
<1>6. SeatedRow(new, req.base)
  <2> DEFINE b == PinBlock(row.epoch)
  <2>1. req.pin = {b} /\ req.base \in 0..committed
    BY <1>1, <1>2 DEF EpochInv
  <2>2. 0..(row.epoch - 1) \subseteq DOMAIN Closing
    BY <1>2, <1>3 DEF NodeInv
  <2>3. b \in Nat /\ RegistryEpoch(b) = row.epoch /\ CommitteeAt(b) = Seated[row.epoch]
    BY <1>3, <2>2, PinnedRegistry
  <2>4. FirstBlock(row.epoch) <= req.base + 1 => b <= req.base
    <3>1. CASE row.epoch = 0
      BY <2>1, <3>1 DEF PinBlock
    <3>2. CASE row.epoch # 0
      <4>1. FirstBlock(row.epoch) = b + 1
        BY <3>2 DEF PinBlock, FirstBlock
      <4> QED BY <2>1, <2>3, <4>1
    <3> QED BY <3>1, <3>2
  <2>5. committed \in Nat
    BY <1>2, NodeNumbers
  <2> HIDE DEF b
  <2>6. seated \subseteq {Seated[row.epoch]} /\ (b <= committed => seated # {})
    BY <2>1, <2>3
  <2>7. FirstBlock(row.epoch) <= req.base + 1 => seated # {}
    BY <2>1, <2>3, <2>4, <2>5, <2>6
  <2> HIDE DEF new, seated
  <2> QED BY <1>5, <2>6, <2>7 DEF SeatedRow
<1>7. TimesRead' => Timed(new, req.base)
  <2>1. TimesRead' => Timed(row, req.base)
    BY <1>1, <1>2, <1>3, <1>4 DEF TimesRead, EpochInv
  <2> HIDE DEF new
  <2> QED BY <1>5, <2>1 DEF Timed
<1> HIDE DEF new, row, seated
<1>8. DOMAIN req'.rows = {1} /\ req'.rows[1] = new /\ IsSeq(req'.rows) /\ Len(req'.rows) = 1
  <2>1. DOMAIN req'.rows = {1} /\ req'.rows[1] = new
    BY <1>3, <1>4
  <2>2. req'.rows = [i \in {1} |-> req'.rows[i]]
    BY <1>3, <1>4
  <2> QED BY <2>1, <2>2, OneRow
<1>9. /\ records' = records /\ committed' = committed /\ missing' = missing
      /\ req'.pc \in {"pack", "done"}
  BY <1>1, <1>4 DEF node
<1>10. EpochInv'
  BY <1>2, <1>3, <1>4, <1>5, <1>6, <1>7, <1>8, <1>9 DEF EpochInv, EpochSteps
<1> QED BY <1>1, <1>2, <1>4, <1>10, OnEpochRoute

LEMMA ReadPackFieldsKeeps == ASSUME IInv, ReadPackFields PROVE IInv'
<1> DEFINE row == req.rows[1]
           complete == {PackRead(o) = "some" : o \in row.consensus_last}
           rounds == row.epoch <= latest_consensus_epoch /\ row.epoch \notin missing
           new == [row EXCEPT !.pack_complete = complete, !.rounds = rounds]
<1>1. req.pc = "pack" /\ UNCHANGED node
  BY DEF ReadPackFields
<1>2. /\ DOMAIN req = Fields /\ req.route \in {"epochs", "consensus"} /\ EpochInv
      /\ req.shown = <<>> /\ NodeInv /\ 0..(req.current - 1) \subseteq records /\ req.current \in Nat
  BY <1>1, EpochRunning DEF EpochSteps
<1>3. /\ DOMAIN req.rows = {1} /\ req.detail /\ GoodRow(row, req.current, missing)
      /\ row.epoch \in Nat
  BY <1>1, DetailRow
<1>4. /\ DOMAIN req' = Fields /\ req'.pc = "times"
      /\ req'.rows = [req.rows EXCEPT ![1] = new]
      /\ req'.route = req.route /\ req'.current = req.current /\ req'.base = req.base
      /\ req'.shown = req.shown /\ req'.detail = req.detail /\ req'.todo = req.todo
  <2>1. req' = [req EXCEPT !.pc = "times", !.rows[1].pack_complete = complete, !.rows[1].rounds = rounds]
    BY DEF ReadPackFields
  <2>2. req'.rows = [[req.rows EXCEPT ![1].pack_complete = complete] EXCEPT ![1].rounds = rounds]
    BY <1>2, <2>1 DEF Fields
  <2>3. req'.rows = [req.rows EXCEPT ![1] = new]
    BY <1>3, <2>2
  <2> QED BY <1>2, <2>1, <2>3 DEF Fields
<1>5. /\ new.epoch = row.epoch /\ new.addresses = row.addresses
      /\ GoodRow(new, req.current, missing)
  <2>1. DOMAIN row = RowFields
    BY <1>3 DEF GoodRow
  <2>2. /\ DOMAIN new = RowFields /\ new.epoch = row.epoch /\ new.is_current = row.is_current
        /\ new.exec_first = row.exec_first /\ new.consensus_first = row.consensus_first
        /\ new.committee_bls = row.committee_bls /\ new.exec_last = row.exec_last
        /\ new.consensus_last = row.consensus_last /\ new.certified = row.certified
        /\ new.pack_complete = complete /\ new.end_time = row.end_time
        /\ new.addresses = row.addresses
    BY <2>1 DEF RowFields
  <2>3. TRUE \in complete => ~row.is_current /\ row.epoch \notin missing
    <3> SUFFICES ASSUME TRUE \in complete PROVE ~row.is_current /\ row.epoch \notin missing
      OBVIOUS
    <3>1. PICK o \in row.consensus_last : PackRead(o) = "some"
      OBVIOUS
    <3>2. ~row.is_current /\ o = Closing[row.epoch]
      BY <1>3, <3>1 DEF GoodRow
    <3>3. row.epoch \in records
      <4>1. row.epoch \in 0..req.current
        BY <1>3 DEF GoodRow
      <4>2. row.epoch # req.current
        BY <1>3, <3>2, Zenon DEF GoodRow
      <4>3. row.epoch \in 0..(req.current - 1)
        BY <1>2, <4>1, <4>2
      <4> QED BY <1>2, <4>3
    <3>4. Closing[row.epoch] \in 0..latest /\ EpochOf[Closing[row.epoch]] = row.epoch
      <4> HIDE DEF row
      <4>1. Closing[row.epoch] \in Nat /\ Closing[row.epoch] <= latest
        BY <1>2, <3>3, EpochsInOrder, NodeNumbers DEF NodeInv
      <4>2. EpochOf[Closing[row.epoch]] = row.epoch
        BY <1>2, <3>3, EpochsInOrder, EpochAssumption DEF NodeInv
      <4> QED BY <1>2, <4>1, <4>2, NodeNumbers
    <3>5. PackRead(Closing[row.epoch]) = "some"
      BY <3>1, <3>2
    <3> HIDE DEF row
    <3>6. EpochOf[Closing[row.epoch]] \notin missing
      BY <1>2, <3>4, <3>5, NoErr
    <3> QED BY <3>2, <3>4, <3>6
  <2> HIDE DEF new
  <2> QED BY <1>3, <2>2, <2>3 DEF GoodRow
<1>6. req.route = "consensus" => SeatedRow(new, req.base)
  <2>1. req.route = "consensus" => SeatedRow(row, req.base)
    BY <1>1, <1>2, <1>3 DEF EpochInv, AddressesRead
  <2> HIDE DEF new
  <2> QED BY <1>5, <2>1 DEF SeatedRow
<1> HIDE DEF new, row, complete, rounds
<1>7. DOMAIN req'.rows = {1} /\ req'.rows[1] = new /\ IsSeq(req'.rows) /\ Len(req'.rows) = 1
  <2>1. DOMAIN req'.rows = {1} /\ req'.rows[1] = new
    BY <1>3, <1>4
  <2>2. req'.rows = [i \in {1} |-> req'.rows[i]]
    BY <1>3, <1>4
  <2> QED BY <2>1, <2>2, OneRow
<1>8. /\ records' = records /\ committed' = committed /\ missing' = missing
      /\ ~TimesRead' /\ (AddressesRead' => req.route = "consensus")
  BY <1>1, <1>4 DEF node, TimesRead, AddressesRead
<1>9. EpochInv'
  BY <1>2, <1>3, <1>4, <1>5, <1>6, <1>7, <1>8 DEF EpochInv, EpochSteps
<1> QED BY <1>1, <1>2, <1>4, <1>9, OnEpochRoute

LEMMA EpochRoutesKeep == ASSUME IInv, EpochRoutes PROVE IInv'
<1>1. CASE EpochCurrent
  <2>1. /\ DOMAIN req' = Fields /\ req'.pc = "current_tip" /\ req'.route = "current"
        /\ req'.shown = <<>> /\ UNCHANGED node
    BY <1>1, IdleFields DEF EpochCurrent, Fields
  <2>2. IsSeq(req'.shown) /\ DOMAIN req'.shown = {}
    BY <2>1, SmallSeqs
  <2>3. NodeInv'
    BY <2>1 DEF IInv, NodeInv, node
  <2> QED BY <2>1, <2>2, <2>3
          DEF IInv, RouteInv, BoundInv, EpochInv, OutputInv, BlockInv, NoTipRace, EpochSteps
<1>2. CASE ReadLastBlock
  <2>1. /\ DOMAIN req' = Fields /\ req'.pc = "done" /\ req'.route = "current"
        /\ req'.shown = req.shown /\ UNCHANGED node
    BY <1>2 DEF ReadLastBlock, IInv, RouteInv, Fields
  <2>2. NodeInv' /\ BoundInv'
    BY <2>1 DEF IInv, NodeInv, BoundInv, node
  <2> QED BY <2>1, <2>2 DEF IInv, RouteInv, EpochInv, OutputInv, BlockInv, NoTipRace, EpochSteps
<1> QED BY <1>1, <1>2, EpochListKeeps, EpochDetailKeeps, ReadThisKeeps, ReadPreviousKeeps,
        FinishRowKeeps, ReadTimesKeeps, ReadPinKeeps, ReadRegistryKeeps, ReadPackFieldsKeeps
        DEF EpochRoutes, epochs_list, consensus_epochs_list, epoch_by_number, consensus_epoch

-----------------------------------------------------------------------------
(* The output and block routes.                                                *)

LEMMA OnOtherRoute ==
    ASSUME IInv, UNCHANGED node, RouteInv', BoundInv', OutputInv', BlockInv', NoTipRace',
           req'.route \notin {"epochs", "consensus"}
    PROVE  IInv'
<1>1. NodeInv'
  BY DEF IInv, NodeInv, node
<1> QED BY <1>1 DEF IInv, EpochInv

LEMMA OutputDetailKeeps == ASSUME IInv, OutputDetail PROVE IInv'
<1>1. PICK number \in 0..(MaxOutput + 1) :
         req' = [Idle EXCEPT !.pc = IF consensus_number_stored(number, latest) THEN "output"
                                    ELSE "not_found",
                             !.route = "output", !.number = number]
  BY DEF OutputDetail
<1>2. number \in Nat /\ latest \in Nat /\ UNCHANGED node
  BY EpochAssumption, NodeNumbers DEF OutputDetail, IInv
<1>3. /\ DOMAIN req' = Fields /\ req'.number = number /\ req'.route = "output" /\ req'.shown = <<>>
      /\ \/ req'.pc = "output" /\ number \in 1..latest
         \/ req'.pc = "not_found"
  BY <1>1, <1>2, IdleFields DEF consensus_number_stored, Fields
<1>4. IsSeq(req'.shown) /\ DOMAIN req'.shown = {} /\ latest' = latest
  BY <1>2, <1>3, SmallSeqs DEF node
<1> QED BY <1>2, <1>3, <1>4, OnOtherRoute
        DEF RouteInv, BoundInv, OutputInv, BlockInv, NoTipRace, EpochSteps

(* The headers of a one-header answer: none, or one whose pack is held.        *)
LEMMA OneShown ==
    ASSUME NEW s, NEW n \in 1..latest, s = <<>> \/ (s = <<n>> /\ EpochOf[n] \notin missing)
    PROVE  IsSeq(s) /\ \A i \in DOMAIN s : s[i] \in 1..latest /\ EpochOf[s[i]] \notin missing
<1>1. CASE s = <<>>
  BY <1>1, SmallSeqs
<1>2. CASE s = <<n>> /\ EpochOf[n] \notin missing
  <2>1. IsSeq(s) /\ DOMAIN s = {1} /\ s[1] = n
    BY <1>2, SmallSeqs
  <2> QED BY <1>2, <2>1
<1> QED BY <1>1, <1>2

LEMMA ReadOutputKeeps == ASSUME IInv, ReadOutput PROVE IInv'
<1> DEFINE n == req.number
<1>1. /\ DOMAIN req = Fields /\ req.pc = "output" /\ req.route = "output" /\ UNCHANGED node
      /\ n \in 1..latest /\ NodeInv
  BY DEF ReadOutput, IInv, RouteInv, BoundInv
<1>2. PackRead(n) \in {"some", "none"} /\ (PackRead(n) = "some" => EpochOf[n] \notin missing)
  <2>1. n \in 0..latest
    BY <1>1, NodeNumbers
  <2> QED BY <1>1, <2>1, NoErr
<1>3. /\ DOMAIN req' = Fields /\ req'.route = "output" /\ req'.number = n
      /\ \/ req'.pc = "closes" /\ req'.shown = <<n>> /\ EpochOf[n] \notin missing
         \/ req'.pc = "not_found" /\ req'.shown = <<>>
  BY <1>1, <1>2 DEF ReadOutput, Fields
<1>4. latest' = latest /\ missing' = missing
  BY <1>1 DEF node
<1> HIDE DEF n
<1>5. /\ IsSeq(req'.shown)
      /\ \A i \in DOMAIN req'.shown : req'.shown[i] \in 1..latest /\ EpochOf[req'.shown[i]] \notin missing
  <2>1. n \in 1..latest /\ (req'.shown = <<>> \/ (req'.shown = <<n>> /\ EpochOf[n] \notin missing))
    BY <1>1, <1>3, Zenon
  <2> QED BY ONLY <2>1, OneShown
<1>6. BoundInv'
  BY <1>3, <1>4, <1>5 DEF BoundInv
<1> QED BY <1>1, <1>3, <1>4, <1>6, OnOtherRoute
        DEF RouteInv, OutputInv, BlockInv, NoTipRace, EpochSteps

(* closes_epoch from the record, or from the seeded record of epoch 0.         *)
LEMMA ReadClosesKeeps == ASSUME IInv, ReadCloses PROVE IInv'
<1> DEFINE n == req.number
           e == EpochOf[n]
           closes == {r.final_consensus = n : r \in record_by_epoch(e)}
<1>1. /\ DOMAIN req = Fields /\ req.pc = "closes" /\ req.route = "output" /\ UNCHANGED node
      /\ NodeInv /\ BoundInv
  BY DEF ReadCloses, IInv, RouteInv
<1>2. n \in 1..latest
  BY <1>1 DEF IInv, OutputInv
<1>3. /\ DOMAIN req' = Fields /\ req'.route = "output" /\ req'.number = n
      /\ req'.pc = "committee" /\ req'.closes = closes /\ req'.shown = req.shown
  BY <1>1 DEF ReadCloses, Fields
<1>4. n \in Nat \ {0} /\ n \in 1..MaxOutput
  BY <1>1, <1>2, NodeNumbers, EpochAssumption
<1>5. /\ TRUE \in closes => \E k \in DOMAIN Closing : Closing[k] = n
      /\ FALSE \in closes /\ e > 0 => ~\E k \in DOMAIN Closing : Closing[k] = n
  <2>1. CASE e \in records
    <3>1. Record(e).final_consensus = Closing[e] /\ e \in DOMAIN Closing
      BY <1>1, <2>1 DEF Record, NodeInv
    <3>2. closes = {Closing[e] = n}
      BY <2>1, <3>1, SealedRecord
    <3>3. (TRUE \in closes => Closing[e] = n) /\ (FALSE \in closes => Closing[e] # n)
      BY <3>2
    <3>4. \A k \in DOMAIN Closing : Closing[k] = n => k = e
      BY EpochsInOrder
    <3> HIDE DEF closes, e
    <3> QED BY <3>1, <3>3, <3>4
  <2>2. CASE e \notin records /\ e = 0
    <3>1. record_by_epoch(e) = {SeededRecord} /\ SeededRecord.final_consensus = 0
      BY <2>2 DEF record_by_epoch, SeededRecord
    <3>2. TRUE \notin closes
      BY <1>4, <3>1
    <3>3. ~(e > 0)
      BY <2>2
    <3> HIDE DEF closes, e
    <3> QED BY <3>2, <3>3
  <2>3. CASE e \notin records /\ e # 0
    <3>1. record_by_epoch(e) = {}
      BY <2>3 DEF record_by_epoch
    <3> QED BY <3>1
  <2> QED BY <2>1, <2>2, <2>3
<1> HIDE DEF closes
<1>6. ClosesRight'
  BY <1>3, <1>5 DEF ClosesRight
<1>7. latest' = latest /\ missing' = missing
  BY <1>1 DEF node
<1>8. BoundInv'
  BY <1>1, <1>3, <1>7 DEF BoundInv
<1> QED BY <1>1, <1>2, <1>3, <1>6, <1>7, <1>8, OnOtherRoute
        DEF RouteInv, OutputInv, BlockInv, NoTipRace, EpochSteps

LEMMA ReadCommitteeKeeps == ASSUME IInv, ReadCommittee PROVE IInv'
<1> DEFINE n == req.number
<1>1. /\ DOMAIN req = Fields /\ req.pc = "committee" /\ req.route = "output" /\ UNCHANGED node
      /\ NodeInv /\ BoundInv
  BY DEF ReadCommittee, IInv, RouteInv
<1>2. n \in 1..latest /\ ClosesRight
  BY <1>1 DEF IInv, OutputInv
<1>3. /\ DOMAIN req' = Fields /\ req'.route = "output" /\ req'.number = n
      /\ req'.pc = "done" /\ req'.closes = req.closes /\ req'.shown = req.shown
      /\ req'.keys = UNION committee_keys(EpochOf[n])
  BY <1>1 DEF ReadCommittee, Fields
<1>4. req'.keys = Keys[EpochOf[n]]
  BY <1>1, <1>2, <1>3, EarlierSealed, CommitteeKeys
<1>5. ClosesRight'
  BY <1>2, <1>3 DEF ClosesRight
<1>6. latest' = latest /\ missing' = missing
  BY <1>1 DEF node
<1>7. BoundInv'
  BY <1>1, <1>3, <1>6 DEF BoundInv
<1> QED BY <1>1, <1>2, <1>3, <1>4, <1>5, <1>6, <1>7, OnOtherRoute
        DEF RouteInv, OutputInv, BlockInv, NoTipRace, EpochSteps

(* /consensus/latest.                                                          *)
LEMMA LatestOutputKeeps == ASSUME IInv, LatestOutput PROVE IInv'
<1>1. latest \in Nat /\ UNCHANGED node /\ latest' = latest
  BY NodeNumbers DEF LatestOutput, IInv, node
<1>2. /\ DOMAIN req' = Fields /\ req'.route = "latest" /\ req'.number = latest
      /\ req'.shown = <<>>
      /\ \/ req'.pc = "not_found"
         \/ req'.pc = "header" /\ latest # 0
  BY IdleFields DEF LatestOutput, LatestShown, Fields
<1>3. IsSeq(req'.shown) /\ DOMAIN req'.shown = {}
  BY <1>2, SmallSeqs
<1>4. BoundInv'
  BY <1>1, <1>2, <1>3 DEF BoundInv
<1> QED BY <1>1, <1>2, <1>4, OnOtherRoute
        DEF RouteInv, OutputInv, BlockInv, NoTipRace, EpochSteps

LEMMA ReadHeaderKeeps == ASSUME IInv, ReadHeader PROVE IInv'
<1> DEFINE n == req.number
<1>1. /\ DOMAIN req = Fields /\ req.pc = "header" /\ req.route = "latest" /\ UNCHANGED node
      /\ n \in 1..latest /\ NodeInv
  BY DEF ReadHeader, IInv, RouteInv, BoundInv
<1>2. PackRead(n) \in {"some", "none"} /\ (PackRead(n) = "some" => EpochOf[n] \notin missing)
  <2>1. n \in 0..latest
    BY <1>1, NodeNumbers
  <2> QED BY <1>1, <2>1, NoErr
<1>3. /\ DOMAIN req' = Fields /\ req'.route = "latest" /\ req'.pc = "tip"
      /\ \/ req'.shown = <<n>> /\ EpochOf[n] \notin missing
         \/ req'.shown = <<>>
  BY <1>1, <1>2 DEF ReadHeader, Fields
<1>4. latest' = latest /\ missing' = missing
  BY <1>1 DEF node
<1> HIDE DEF n
<1>5. /\ IsSeq(req'.shown)
      /\ \A i \in DOMAIN req'.shown : req'.shown[i] \in 1..latest /\ EpochOf[req'.shown[i]] \notin missing
  <2>1. n \in 1..latest /\ (req'.shown = <<>> \/ (req'.shown = <<n>> /\ EpochOf[n] \notin missing))
    BY <1>1, <1>3, Zenon
  <2> QED BY ONLY <2>1, OneShown
<1>6. BoundInv'
  BY <1>3, <1>4, <1>5 DEF BoundInv
<1> QED BY <1>1, <1>3, <1>6, OnOtherRoute
        DEF RouteInv, OutputInv, BlockInv, NoTipRace, EpochSteps

LEMMA ReadTipKeeps == ASSUME IInv, ReadTip PROVE IInv'
<1>1. /\ DOMAIN req = Fields /\ req.pc = "tip" /\ req.route = "latest" /\ UNCHANGED node
      /\ BoundInv
  BY DEF ReadTip, IInv, RouteInv
<1>2. /\ DOMAIN req' = Fields /\ req'.route = "latest" /\ req'.pc \in {"done", "not_found"}
      /\ req'.shown = req.shown
  BY <1>1 DEF ReadTip, Fields
<1>3. BoundInv'
  BY <1>1, <1>2 DEF BoundInv, node
<1> QED BY <1>1, <1>2, <1>3, OnOtherRoute
        DEF RouteInv, OutputInv, BlockInv, NoTipRace, EpochSteps

(* /consensus/blocks: a page of numbers at or below the counter.               *)
LEMMA OutputListKeeps == ASSUME IInv, OutputList PROVE IInv'
<1>1. latest \in Nat /\ UNCHANGED node /\ latest' = latest
  BY NodeNumbers DEF OutputList, IInv, node
<1>2. PICK page \in Pages, requested \in PageSizes :
        LET todo == consensus_page_numbers(latest, page, clamp_per_page(requested)) IN
        req' = [Idle EXCEPT !.pc = IF todo = <<>> THEN "done" ELSE "headers",
                            !.route = "outputs", !.number = latest, !.todo = todo]
  BY DEF OutputList
<1> DEFINE todo == consensus_page_numbers(latest, page, clamp_per_page(requested))
<1>3. page \in Nat /\ requested \in SUBSET Nat
  BY PagingAssumption
<1>4. clamp_per_page(requested) \in Nat \ {0}
  BY <1>3, PerPageInRange, PagingAssumption
<1>5. todo \in Seq({number \in 1..latest : consensus_number_stored(number, latest)})
  BY <1>1, <1>3, <1>4, NumbersStored
<1>6. req' = [Idle EXCEPT !.pc = IF todo = <<>> THEN "done" ELSE "headers",
                          !.route = "outputs", !.number = latest, !.todo = todo]
  BY <1>2
<1> HIDE DEF todo
<1>7. todo \in Seq(1..latest)
  <2>1. {number \in 1..latest : consensus_number_stored(number, latest)} \subseteq 1..latest
    OBVIOUS
  <2> QED BY <1>5, <2>1, SeqWider
<1>8. /\ DOMAIN req' = Fields /\ req'.todo = todo /\ req'.route = "outputs" /\ req'.shown = <<>>
      /\ req'.pc = IF todo = <<>> THEN "done" ELSE "headers"
  BY <1>6, IdleFields DEF Fields
<1>9. IsSeq(req'.shown) /\ DOMAIN req'.shown = {}
  BY <1>8, SmallSeqs
<1>10. BoundInv'
  BY <1>1, <1>7, <1>8, <1>9 DEF BoundInv
<1> QED BY <1>1, <1>8, <1>10, OnOtherRoute
        DEF RouteInv, OutputInv, BlockInv, NoTipRace, EpochSteps

LEMMA ReadNextHeaderKeeps == ASSUME IInv, ReadNextHeader PROVE IInv'
<1> DEFINE n == Head(req.todo)
<1>1. /\ DOMAIN req = Fields /\ req.pc = "headers" /\ req.route = "outputs" /\ UNCHANGED node
      /\ req.todo \in Seq(1..latest) /\ req.todo # <<>> /\ NodeInv /\ BoundInv
  BY DEF ReadNextHeader, IInv, RouteInv, BoundInv
<1>2. /\ n \in 1..latest /\ Tail(req.todo) \in Seq(1..latest)
      /\ Len(req.todo) > 1 => Tail(req.todo) # <<>>
  BY <1>1, HeadAndTail
<1>3. PackRead(n) # "err" /\ (PackRead(n) = "some" => EpochOf[n] \notin missing)
  <2>1. n \in 0..latest
    BY <1>1, <1>2, NodeNumbers
  <2> QED BY <1>1, <2>1, NoErr
<1>4. /\ DOMAIN req' = Fields /\ req'.route = "outputs" /\ req'.todo = Tail(req.todo)
      /\ req'.pc = IF Len(req.todo) > 1 THEN "headers" ELSE "done"
      /\ \/ req'.shown = Append(req.shown, n) /\ EpochOf[n] \notin missing
         \/ req'.shown = req.shown
  BY <1>1, <1>3 DEF ReadNextHeader, Fields
<1>5. latest' = latest /\ missing' = missing
  BY <1>1 DEF node
<1> HIDE DEF n
<1>6. /\ IsSeq(req'.shown)
      /\ \A i \in DOMAIN req'.shown :
           req'.shown[i] \in 1..latest /\ EpochOf[req'.shown[i]] \notin missing
  <2>1. CASE req'.shown = req.shown
    BY <1>1, <2>1 DEF BoundInv
  <2>2. CASE req'.shown = Append(req.shown, n) /\ EpochOf[n] \notin missing
    <3>1. IsSeq(req.shown)
      BY <1>1 DEF BoundInv
    <3>2. /\ IsSeq(req'.shown)
          /\ \A i \in DOMAIN req'.shown :
               (i \in DOMAIN req.shown /\ req'.shown[i] = req.shown[i]) \/ req'.shown[i] = n
      BY <2>2, <3>1, AppendedSeq
    <3> QED BY <1>1, <1>2, <2>2, <3>2 DEF BoundInv
  <2> QED BY <1>4, <2>1, <2>2
<1>7. BoundInv'
  BY <1>2, <1>4, <1>5, <1>6 DEF BoundInv
<1> QED BY <1>1, <1>4, <1>7, OnOtherRoute
        DEF RouteInv, OutputInv, BlockInv, NoTipRace, EpochSteps

(* /blocks/{number}: a block in the database was executed by an output that    *)
(* is counted.                                                                 *)
LEMMA BlockDetailKeeps == ASSUME IInv, BlockDetail PROVE IInv'
<1>1. PICK b \in Blocks :
         req' = [Idle EXCEPT !.pc = CASE b > committed -> "not_found"
                                      [] b = 0 -> "done"
                                      [] OTHER -> "resolve",
                             !.route = "block", !.number = b]
  BY DEF BlockDetail
<1>2. /\ UNCHANGED node /\ committed \in Nat /\ LastBlock[latest] \in Nat
      /\ committed <= LastBlock[latest]
  BY NodeNumbers DEF BlockDetail, IInv
<1>3. b \in Nat
  <2>1. MaxOutput \in 0..MaxOutput
    BY EpochAssumption
  <2>2. LastBlock[MaxOutput] \in Nat
    BY <2>1, BlocksInOrder
  <2> QED BY <2>2 DEF Blocks
<1>4. /\ DOMAIN req' = Fields /\ req'.route = "block" /\ req'.number = b /\ req'.shown = <<>>
      /\ req'.pc = CASE b > committed -> "not_found" [] b = 0 -> "done" [] OTHER -> "resolve"
  BY <1>1, IdleFields DEF Fields
<1>5. \/ req'.pc = "not_found"
      \/ req'.pc = "done" /\ b = 0
      \/ req'.pc = "resolve" /\ b > 0 /\ b <= committed
  BY <1>2, <1>3, <1>4
<1>6. IsSeq(req'.shown) /\ DOMAIN req'.shown = {} /\ latest' = latest
  BY <1>2, <1>4, SmallSeqs DEF node
<1>7. BoundInv'
  BY <1>4, <1>5, <1>6 DEF BoundInv
<1>8. b = 0 \/ b <= committed => b \in 0..LastBlock[latest]
  BY <1>2, <1>3
<1>9. BlockInv'
  BY <1>3, <1>4, <1>5, <1>6, <1>8 DEF BlockInv
<1> QED BY <1>2, <1>4, <1>5, <1>7, <1>9, OnOtherRoute
        DEF RouteInv, OutputInv, NoTipRace, EpochSteps

LEMMA ResolveNumberKeeps == ASSUME IInv, ResolveNumber PROVE IInv'
<1> DEFINE o == OutputOfBlock(req.number)
<1>1. /\ DOMAIN req = Fields /\ req.pc = "resolve" /\ req.route = "block" /\ UNCHANGED node
      /\ NodeInv /\ req.number \in 0..LastBlock[latest] /\ req.number > 0
  BY DEF ResolveNumber, IInv, RouteInv, BlockInv
<1>2. req.number \in Nat \ {0} /\ req.number <= LastBlock[latest]
  BY <1>1, NodeNumbers
<1>3. o \in 1..latest
  BY <1>1, <1>2, BlockHasOutput
<1>4. /\ DOMAIN req' = Fields /\ req'.route = "block" /\ req'.pc = "done"
      /\ req'.number = req.number
      /\ req'.shown = IF PastTipEpoch(EpochOf[o]) \/ PackRead(o) # "some" THEN <<>> ELSE <<o>>
  BY <1>1 DEF ResolveNumber, Fields
<1> HIDE DEF o
<1>5. PackRead(o) = IF EpochOf[o] \in missing THEN "none" ELSE "some"
  <2>1. o \in 0..latest
    BY <1>1, <1>3, NodeNumbers
  <2> QED BY <1>1, <2>1, NoErr
<1>6. req'.shown = IF EpochOf[o] \in missing THEN <<>> ELSE <<o>>
  BY <1>1, <1>3, <1>4, <1>5, NotPastTip
<1>7. latest' = latest /\ missing' = missing
  BY <1>1 DEF node
<1>8. BoundInv'
  <2>1. /\ IsSeq(req'.shown)
        /\ \A i \in DOMAIN req'.shown :
              req'.shown[i] \in 1..latest /\ EpochOf[req'.shown[i]] \notin missing
    <3>1. req'.shown = <<>> \/ (req'.shown = <<o>> /\ EpochOf[o] \notin missing)
      BY <1>6, Zenon
    <3> QED BY <1>3, <3>1, OneShown
  <2> QED BY <1>4, <1>7, <2>1 DEF BoundInv
<1>9. BlockInv'
  BY <1>1, <1>4, <1>6, <1>7 DEF BlockInv, o
<1> QED BY <1>1, <1>4, <1>8, <1>9, OnOtherRoute
        DEF RouteInv, OutputInv, NoTipRace, EpochSteps

LEMMA FinishKeeps == ASSUME IInv, Finish PROVE IInv'
<1>1. req' = Idle /\ UNCHANGED node
  BY DEF Finish
<1>2. IsSeq(req'.shown) /\ DOMAIN req'.shown = {}
  BY <1>1, IdleFields, SmallSeqs
<1> QED BY <1>1, <1>2, IdleFields, OnOtherRoute
        DEF RouteInv, BoundInv, OutputInv, BlockInv, NoTipRace, EpochSteps

(* Every step, or none, keeps the invariant.                                   *)
LEMMA NextIInv == IInv /\ [Next]_vars => IInv'
<1> SUFFICES ASSUME IInv, [Next]_vars PROVE IInv'
  OBVIOUS
<1>1. CASE OutputRoutes
  BY <1>1, OutputDetailKeeps, ReadOutputKeeps, ReadClosesKeeps, ReadCommitteeKeeps,
     LatestOutputKeeps, ReadHeaderKeeps, ReadTipKeeps, OutputListKeeps, ReadNextHeaderKeeps,
     BlockDetailKeeps, ResolveNumberKeeps DEF OutputRoutes
<1>2. CASE UNCHANGED vars
  <2>1. UNCHANGED <<tail, latest, canonical, committed, records, certs, missing, req>>
    BY <1>2 DEF vars, node
  <2>2. NodeInv' /\ RouteInv' /\ BoundInv' /\ OutputInv' /\ BlockInv' /\ NoTipRace'
    BY <2>1 DEF IInv, NodeInv, RouteInv, BoundInv, OutputInv, ClosesRight, BlockInv, NoTipRace
  <2>3. EpochInv'
    BY <2>1 DEF IInv, EpochInv, TimesRead, AddressesRead
  <2> QED BY <2>2, <2>3 DEF IInv
<1> QED BY <1>1, <1>2, NodeKeeps, EpochRoutesKeep, FinishKeeps DEF Next

-----------------------------------------------------------------------------
(* The inductive invariant holds in every reachable state, whatever the node   *)
(* writes between two awaits of a handler.                                     *)
THEOREM Invariance == Spec => []IInv
BY InitIInv, NextIInv, PTL DEF Spec

(* "There is no tip race to tolerate": whatever the node writes between the    *)
(* bounds check and the read of a pack, no request for an output, the latest   *)
(* output or a page of outputs ends as an internal error                       *)
(* (consensus_number_stored, consensus_headers_page, consensus_latest_header). *)
THEOREM NeverATipRace == Spec => []NoTipRace
<1>1. IInv => NoTipRace
  BY DEF IInv
<1> QED BY <1>1, Invariance, PTL

(* The ranges and the committee keys of every epoch row, the current epoch's   *)
(* included, are those of its epoch (epoch_row, consensus_epoch_row,           *)
(* committee_bls).                                                             *)
THEOREM EpochRowsAreExact == Spec => []EpochRowsExact
<1>1. ASSUME IInv PROVE EpochRowsExact
  <2> SUFFICES ASSUME Done({"epochs", "consensus"}), NEW i \in DOMAIN req.rows
               PROVE  LET row == req.rows[i] IN
                      /\ row.exec_first = {FirstBlock(row.epoch)}
                      /\ row.consensus_first = {FirstOutput(row.epoch)}
                      /\ row.committee_bls = Keys[row.epoch]
                      /\ ~row.is_current => /\ row.exec_last = {LastBlock[Closing[row.epoch]]}
                                            /\ row.consensus_last = {Closing[row.epoch]}
    BY DEF EpochRowsExact
  <2>1. GoodRow(req.rows[i], req.current, missing)
    BY <1>1 DEF IInv, EpochInv, Done
  <2> QED BY <2>1 DEF GoodRow
<1> QED BY <1>1, Invariance, PTL

(* is_current and end_block never disagree, and the end of a sealed epoch has  *)
(* its time whenever the block was in the database when the request began      *)
(* (epoch_row, header_timestamps).                                             *)
THEOREM CurrentIsOpen == Spec => []CurrentIffOpen
<1>1. ASSUME IInv PROVE CurrentIffOpen
  <2> SUFFICES ASSUME Done({"epochs", "consensus"}), NEW i \in DOMAIN req.rows
               PROVE  LET row == req.rows[i] IN
                      /\ row.is_current <=> row.exec_last = {}
                      /\ row.is_current => row.end_time = {} /\ ~row.certified
                      /\ \A b \in row.exec_last : b <= req.base => row.end_time = {TimeOf(b)}
    BY DEF CurrentIffOpen
  <2> DEFINE row == req.rows[i]
  <2>1. GoodRow(row, req.current, missing)
    BY <1>1 DEF IInv, EpochInv, Done
  <2>2. Timed(row, req.base)
    BY <1>1 DEF IInv, EpochInv, TimesRead, Done
  <2> HIDE DEF row
  <2>3. row.exec_last = IF row.is_current THEN {} ELSE {LastBlock[Closing[row.epoch]]}
    BY <2>1 DEF GoodRow
  <2>4. row.is_current <=> row.exec_last = {}
    <3>1. row.is_current = (row.epoch = req.current)
      BY <2>1 DEF GoodRow
    <3> QED BY <2>3, <3>1, Zenon
  <2>5. row.is_current => ~row.certified
    BY <2>1 DEF GoodRow
  <2>6. /\ row.exec_last = {} => row.end_time = {}
        /\ \A b \in row.exec_last : b <= req.base => row.end_time = {TimeOf(b)}
    BY <2>2 DEF Timed
  <2>7. QED BY <2>4, <2>5, <2>6 DEF row
<1> QED BY <1>1, Invariance, PTL

(* The addresses of /epochs/{n} and /consensus/epochs/{n} are the committee    *)
(* seated when the epoch began, and are there when its pin block was           *)
(* (committee_addresses).                                                      *)
THEOREM CommitteeIsPinned == Spec => []PinnedCommittee
<1>1. ASSUME IInv PROVE PinnedCommittee
  <2> SUFFICES ASSUME Done({"epochs", "consensus"}), req.detail
               PROVE  SeatedRow(req.rows[1], req.base)
    BY DEF PinnedCommittee, SeatedRow
  <2> QED BY <1>1 DEF IInv, EpochInv, AddressesRead, Done
<1> QED BY <1>1, Invariance, PTL

(* A number the API shows is one it answers for, a pack shown as complete has  *)
(* all its outputs, and a block shows the output that executed it unless the   *)
(* pack is not held (consensus_latest_header, consensus_headers_page,          *)
(* epoch_pack_complete, consensus_number_by_digest).                           *)
THEOREM ShownNumbersAreReachable == Spec => []ShownIsReachable
<1>1. ASSUME IInv PROVE ShownIsReachable
  <2>1. ASSUME NEW i \in DOMAIN req.shown
        PROVE  consensus_number_stored(req.shown[i], latest) /\ PackRead(req.shown[i]) = "some"
    <3> DEFINE n == req.shown[i]
    <3>1. n \in 1..latest /\ EpochOf[n] \notin missing /\ NodeInv
      BY <1>1 DEF IInv, BoundInv
    <3> HIDE DEF n
    <3>2. n \in 0..latest /\ consensus_number_stored(n, latest)
      BY <3>1, NodeNumbers DEF consensus_number_stored
    <3>3. PackRead(n) = "some"
      BY <3>1, <3>2, NoErr
    <3> QED BY <3>2, <3>3 DEF n
  <2>2. ASSUME Done({"consensus"}), NEW i \in DOMAIN req.rows, TRUE \in req.rows[i].pack_complete,
               NEW o \in FirstOutput(req.rows[i].epoch)..Closing[req.rows[i].epoch]
        PROVE  PackRead(o) = "some"
    <3> DEFINE e == req.rows[i].epoch
    <3>1. /\ GoodRow(req.rows[i], req.current, missing) /\ req.current \in Nat
          /\ 0..(req.current - 1) \subseteq records /\ NodeInv
      BY <1>1, <2>2 DEF IInv, EpochInv, Done
    <3>2. e \in 0..req.current /\ e \notin missing /\ e # req.current
      <4>1. /\ req.rows[i].epoch \in 0..req.current
            /\ req.rows[i].is_current = (req.rows[i].epoch = req.current)
            /\ ~req.rows[i].is_current /\ req.rows[i].epoch \notin missing
        BY <2>2, <3>1 DEF GoodRow
      <4> QED BY <4>1, Zenon
    <3>3. o \in FirstOutput(e)..Closing[e]
      BY <2>2
    <3> HIDE DEF e
    <3>4. e \in Nat /\ e \in records /\ 0..(e - 1) \subseteq records
      BY <3>1, <3>2
    <3>5. o \in 1..latest /\ EpochOf[o] = e
      BY <3>1, <3>3, <3>4, OutputsOfSealed
    <3>6. o \in 0..latest
      BY <3>1, <3>5, NodeNumbers
    <3> QED BY <3>1, <3>2, <3>5, <3>6, NoErr
  <2>3. ASSUME Done({"block"}), req.number > 0
        PROVE  LET o == OutputOfBlock(req.number) IN
               req.shown = IF EpochOf[o] \in missing THEN <<>> ELSE <<o>>
    BY <1>1, <2>3 DEF IInv, BlockInv, Done
  <2> QED BY <2>1, <2>2, <2>3 DEF ShownIsReachable
<1> QED BY <1>1, Invariance, PTL

(* An output carries the keys of its own epoch's committee, and closes_epoch   *)
(* is true of a closing output only, and past epoch 0 false of another only    *)
(* (consensus_block, committee_keys).                                          *)
THEOREM OutputsAreExact == Spec => []OutputExact
<1>1. ASSUME IInv PROVE OutputExact
  BY <1>1 DEF IInv, OutputInv, ClosesRight, OutputExact, Done
<1> QED BY <1>1, Invariance, PTL

-----------------------------------------------------------------------------
(* The feeds (module Feeds).                                                   *)

ListFeeds == {"blocks", "txs", "typed"}

(* A hydrated row of a pointer.                                                *)
RowOf(pointer) == TxData(pointer, receipts_by_block(pointer.block_number))

(* The place a page starts at, the number of its items, and item i of it, when *)
(* the feed holds `held` items.                                                *)
Offset == fetch.page * fetch.per_page
Shown(held) == 1..clamp(held - Offset, 0, fetch.per_page)
ShownItem(held, i) == Item(fetch.feed, held - Offset - i)

(* What a walk still owes is not on an earlier page of a feed of `held` items. *)
Remaining(held) ==
    \A x \in fetch.owed \ fetch.seen :
       \E k \in 0..(held - 1) : x = Item(fetch.feed, k) /\ Offset <= held - 1 - k

FetchFields == {"pc", "feed", "page", "per_page", "total", "pointers", "items", "owed", "seen",
                "window", "to", "at", "counts"}

ChainInv == tip \in 0..MaxTip /\ indexed \in 0..tip

FetchInv ==
    /\ DOMAIN fetch = FetchFields
    /\ fetch.page \in Nat /\ fetch.per_page \in Nat \ {0}
    /\ fetch.pc \in {"total", "items"} => fetch.feed \in {"blocks", "txs"}
    /\ fetch.pc \in {"page", "count", "hydrate"} => fetch.feed = "typed"
    /\ fetch.pc \in {"tip", "headers"} => fetch.feed = "leaders"
    /\ fetch.pc \in {"done", "error"} => fetch.feed \in ListFeeds \cup {"leaders"}

(* Where a walk is: what it owes is ahead of it, and its page is that of a     *)
(* feed no longer than the feed is now.                                        *)
WalkInv ==
    /\ fetch.pc \in {"total", "page"} => Remaining(Size(fetch.feed))
    /\ fetch.pc = "items" => fetch.total \in 0..Size(fetch.feed) /\ Remaining(fetch.total)
    /\ fetch.pc \in {"count", "hydrate"} =>
         \E held \in 0..TxCount(indexed) :
            /\ Remaining(held)
            /\ fetch.pointers = [i \in Shown(held) |-> ShownItem(held, i)]
    /\ fetch.pc = "done" /\ fetch.feed \in ListFeeds =>
         \E held \in 0..Size(fetch.feed) :
            /\ Remaining(held)
            /\ fetch.feed # "typed" => held = fetch.total
            /\ fetch.items = [i \in Shown(held) |-> IF fetch.feed = "blocks" THEN ShownItem(held, i)
                                                    ELSE RowOf(ShownItem(held, i))]
    /\ fetch.pc = "error" => fetch.feed = "typed" /\ ~Bindable(page_offset(fetch.page, fetch.per_page))

(* The headers counted so far.                                                 *)
Counted == WindowStart(fetch.to, fetch.window)..(fetch.at - 1)

LeaderInv ==
    /\ fetch.feed = "leaders" => fetch.window \in Nat \ {0}
    /\ fetch.pc = "tip" => DOMAIN fetch.counts = {}
    /\ fetch.pc = "headers" =>
         /\ fetch.to \in 0..MaxTip
         /\ fetch.at \in WindowStart(fetch.to, fetch.window)..(fetch.to + 1)
         /\ DOMAIN fetch.counts = {Bodies[n].beneficiary : n \in Counted}
         /\ \A a \in DOMAIN fetch.counts :
              fetch.counts[a] = Cardinality({n \in Counted : Bodies[n].beneficiary = a})
    /\ LeadersExact

FeedInv == ChainInv /\ FetchInv /\ WalkInv /\ LeaderInv

LEMMA FeedNumbers ==
    ASSUME ChainInv
    PROVE  /\ MaxTip \in Nat /\ MAX_U64 \in Nat /\ MaxTip < MAX_U64
           /\ tip \in Nat /\ tip <= MaxTip /\ indexed \in Nat /\ indexed <= tip
           /\ TxCount(tip) \in 0..MAX_U64 /\ TxCount(indexed) \in 0..MAX_U64
<1>1. /\ MaxTip \in Nat /\ MAX_U64 \in Nat /\ MaxTip < MAX_U64
      /\ tip \in Nat /\ tip <= MaxTip /\ indexed \in Nat /\ indexed <= tip
  BY FeedAssumption, PagingAssumption DEF ChainInv
<1>2. tip + 1 \in 0..(MaxTip + 1) /\ indexed + 1 \in 0..(MaxTip + 1)
  BY <1>1
<1> QED BY <1>1, <1>2, TablesInOrder DEF TxCount

(* A non-empty set of natural numbers has a least element.                     *)
LEMMA LeastNumber ==
    ASSUME NEW T, T \subseteq Nat, T # {} PROVE \E x \in T : \A y \in T : x <= y
<1>1. PICK x \in T : \A y \in T : ~(<<y, x>> \in OpToRel(<, Nat))
  BY WFMin, NatLessThanWellFounded, Zenon
<1>2. \A y \in T : ~(y < x)
  BY <1>1 DEF OpToRel
<1> QED BY <1>2

(* Transaction number t of the blocks 0..n is in one of them.                  *)
LEMMA TxLocated ==
    ASSUME NEW n \in 0..MaxTip, NEW t \in 0..(TxCount(n) - 1)
    PROVE  /\ TxAt(t).block_number \in 0..n
           /\ FirstTx[TxAt(t).block_number] <= t
           /\ t < FirstTx[TxAt(t).block_number + 1]
           /\ TxAt(t).tx_index = t - FirstTx[TxAt(t).block_number]
           /\ DOMAIN TxAt(t) = {"block_number", "tx_index"}
<1> DEFINE At(b) == FirstTx[b] <= t /\ t < FirstTx[b + 1]
           T == {b \in 0..MaxTip : t < FirstTx[b + 1]}
           c == CHOOSE b \in 0..MaxTip : At(b)
<1>1. MaxTip \in Nat /\ n \in Nat /\ n <= MaxTip /\ t \in Nat
  <2>1. n + 1 \in 0..(MaxTip + 1)
    BY FeedAssumption
  <2> QED BY <2>1, FeedAssumption, TablesInOrder DEF TxCount
<1>2. n \in T /\ T \subseteq Nat
  <2>1. t < FirstTx[n + 1]
    <3>1. FirstTx[n + 1] \in Nat
      BY <1>1, TablesInOrder, PagingAssumption
    <3> QED BY <1>1, <3>1 DEF TxCount
  <2> QED BY <1>1, <2>1
<1>3. PICK m \in T : \A b \in T : m <= b
  BY <1>2, LeastNumber
<1>4. m \in 0..MaxTip /\ At(m)
  <2>1. CASE m = 0
    BY <2>1, <1>1, TablesInOrder
  <2>2. CASE m # 0
    <3>1. m - 1 \in 0..MaxTip /\ ~(m <= m - 1) /\ m - 1 + 1 = m
      BY <1>1, <2>2
    <3>2. ~(t < FirstTx[m])
      BY <1>3, <3>1
    <3>3. FirstTx[m] \in Nat
      BY <1>1, TablesInOrder, PagingAssumption
    <3> QED BY <1>1, <3>2, <3>3
  <2> QED BY <2>1, <2>2
<1>5. c \in 0..MaxTip /\ At(c)
  BY <1>4
<1>6. TxAt(t) = [block_number |-> c, tx_index |-> t - FirstTx[c]]
  BY DEF TxAt
<1> HIDE DEF c
<1>7. c <= n
  <2> SUFFICES ASSUME n < c PROVE FALSE
    BY <1>1, <1>5
  <2>1. n + 1 \in 0..(MaxTip + 1) /\ c \in 0..(MaxTip + 1) /\ n + 1 <= c
    BY <1>1, <1>5
  <2>2. FirstTx[n + 1] <= FirstTx[c] /\ FirstTx[n + 1] \in Nat /\ FirstTx[c] \in Nat
    BY <2>1, TablesInOrder, PagingAssumption
  <2> QED BY <1>1, <1>2, <1>5, <2>2
<1> QED BY <1>1, <1>5, <1>6, <1>7

(* A hydrated row is its transaction's, with its own gas: the differences of   *)
(* the cumulative gas are what each transaction used (own_gas_used).           *)
LEMMA RowIsExact ==
    ASSUME NEW n \in 0..MaxTip, NEW t \in 0..(TxCount(n) - 1), NEW feed, feed # "blocks"
    PROVE  LET row == RowOf(TxAt(t)) IN
           /\ Key(feed, row) = TxAt(t)
           /\ row.gas_used = Bodies[row.block_number].gas[row.tx_index + 1]
<1> DEFINE p == TxAt(t)
           b == p.block_number
           i == p.tx_index
           body == Bodies[b]
           receipts == receipts_by_block(b)
<1>1. /\ b \in 0..n /\ i = t - FirstTx[b] /\ FirstTx[b] <= t /\ t < FirstTx[b + 1]
      /\ DOMAIN p = {"block_number", "tx_index"}
  BY TxLocated
<1>2. p = [block_number |-> b, tx_index |-> i]
  <2>1. \E x, y : p = [block_number |-> x, tx_index |-> y]
    BY DEF TxAt
  <2> QED BY <2>1
<1>3. b \in 0..MaxTip /\ FirstTx[b] \in Nat /\ FirstTx[b + 1] \in Nat /\ t \in Nat
  <2>1. MaxTip \in Nat /\ MAX_U64 \in Nat /\ n + 1 \in 0..(MaxTip + 1)
    BY FeedAssumption, PagingAssumption
  <2>2. b \in 0..MaxTip /\ b \in 0..(MaxTip + 1) /\ b + 1 \in 0..(MaxTip + 1)
    BY <1>1, <2>1
  <2> QED BY <2>1, <2>2, TablesInOrder DEF TxCount
<1>4. RowOf(p) = [block_number |-> b, tx_index |-> i, gas_used |-> own_gas_used(receipts, i)]
  BY DEF RowOf, TxData
<1> HIDE DEF p, b, i
<1>5. i \in Nat /\ i + 1 \in 1..(FirstTx[b + 1] - FirstTx[b])
  BY <1>1, <1>3
<1>6. /\ DOMAIN body.gas = 1..(FirstTx[b + 1] - FirstTx[b]) /\ DOMAIN body.cumulative = DOMAIN body.gas
      /\ \A k \in DOMAIN body.gas :
           /\ body.gas[k] \in Nat /\ body.cumulative[k] \in Nat
           /\ body.cumulative[k] = body.gas[k] + (IF k > 1 THEN body.cumulative[k - 1] ELSE 0)
  BY <1>3, TablesInOrder
<1>7. /\ DOMAIN receipts = DOMAIN body.gas
      /\ \A k \in DOMAIN body.gas : receipts[k].cumulative_gas_used = body.cumulative[k]
  BY <1>6 DEF receipts_by_block
<1> HIDE DEF body, receipts
<1>8. own_gas_used(receipts, i) = body.gas[i + 1]
  <2>1. i + 1 \in DOMAIN body.gas
    BY <1>5, <1>6
  <2>2. CASE i = 0
    BY <1>6, <1>7, <2>1, <2>2 DEF own_gas_used
  <2>3. CASE i > 0
    <3>1. i \in DOMAIN body.gas /\ i + 1 > 1 /\ i + 1 - 1 = i /\ i - 1 + 1 = i
      BY <1>3, <1>5, <1>6, <2>3
    <3>2. own_gas_used(receipts, i) = saturating_sub(body.cumulative[i + 1], body.cumulative[i])
      BY <1>7, <2>1, <2>3, <3>1 DEF own_gas_used
    <3>3. body.cumulative[i + 1] = body.gas[i + 1] + body.cumulative[i]
      BY <1>6, <2>1, <3>1
    <3>4. body.gas[i + 1] \in Nat /\ body.cumulative[i] \in Nat
      BY <1>6, <2>1, <3>1
    <3> QED BY <3>2, <3>3, <3>4 DEF saturating_sub
  <2> QED BY <1>5, <2>2, <2>3
<1>9. Key(feed, RowOf(p)) = p
  BY <1>2, <1>4 DEF Key
<1> QED BY <1>4, <1>8, <1>9 DEF p, body

(* desc_page_items is the slice LIMIT and OFFSET would cut, also where the     *)
(* offset leaves 64 bits.                                                      *)
LEMMA ItemsAreSlice ==
    ASSUME NEW total \in 0..MAX_U64, NEW page \in Nat, NEW per_page \in Nat \ {0}
    PROVE  /\ desc_page_items(total, page, per_page)
                = [i \in 1..clamp(total - page * per_page, 0, per_page) |-> total - page * per_page - i]
           /\ Slice(total, page, per_page) = desc_page_items(total, page, per_page)
<1> DEFINE skip == page * per_page
           bounds == desc_page_bounds(total, page, per_page)
           n == clamp(total - skip, 0, per_page)
<1>1. skip \in Nat /\ total \in Nat /\ MAX_U64 \in Nat
  BY ProductNat, PagingAssumption
<1>2. checked_mul(page, per_page) = IF skip <= MAX_U64 THEN {skip} ELSE {}
  BY DEF checked_mul
<1>3. Slice(total, page, per_page) = [i \in 1..n |-> [j \in 1..total |-> total - j][skip + i]]
  BY DEF Slice, limit_offset
<1> HIDE DEF skip
<1>4. n \in Nat /\ \A i \in 1..n : skip + i \in 1..total /\ total - (skip + i) = total - skip - i
  BY <1>1 DEF clamp
<1>5. Slice(total, page, per_page) = [i \in 1..n |-> total - skip - i]
  <2> HIDE DEF n
  <2> QED BY <1>3, <1>4
<1>6. desc_page_items(total, page, per_page) = [i \in 1..n |-> total - skip - i]
  <2>1. CASE skip < total
    <3> DEFINE b == <<saturating_sub(total - 1 - skip, saturating_sub(per_page, 1)), total - 1 - skip>>
    <3>1. {s \in checked_mul(page, per_page) : s < total} = {skip}
      BY <1>1, <1>2, <2>1
    <3>2. bounds = {b}
      BY <3>1 DEF desc_page_bounds
    <3>3. (CHOOSE x \in bounds : TRUE) = b /\ bounds # {}
      BY <3>2
    <3>4. desc_page_items(total, page, per_page) = [i \in 1..(b[2] - b[1] + 1) |-> b[2] - i + 1]
      BY <3>3 DEF desc_page_items
    <3>5. b[2] - b[1] + 1 = n /\ \A i \in 1..n : b[2] - i + 1 = total - skip - i
      BY <1>1, <2>1 DEF clamp, saturating_sub
    <3> HIDE DEF b, n
    <3> QED BY <3>4, <3>5
  <2>2. CASE ~(skip < total)
    <3>1. {s \in checked_mul(page, per_page) : s < total} = {}
      BY <1>1, <1>2, <2>2
    <3>2. desc_page_items(total, page, per_page) = <<>>
      BY <3>1 DEF desc_page_bounds, desc_page_items
    <3>3. n = 0 /\ 1..0 = {}
      BY <1>1, <2>2 DEF clamp
    <3> HIDE DEF n
    <3> QED BY <3>2, <3>3
  <2> QED BY <2>1, <2>2
<1> QED BY <1>5, <1>6 DEF skip

LEMMA SizeInRange == ASSUME ChainInv, NEW feed \in ListFeeds PROVE Size(feed) \in 0..MAX_U64
BY FeedNumbers DEF Size, ListFeeds

(* The items of a page are items of the feed.                                  *)
LEMMA ShownInFeed ==
    ASSUME FetchInv, NEW held \in Nat
    PROVE  /\ Offset \in Nat /\ clamp(held - Offset, 0, fetch.per_page) \in Nat
           /\ \A i \in Shown(held) : held - Offset - i \in 0..(held - 1)
<1>1. Offset \in Nat
  BY ProductNat DEF Offset, FetchInv
<1> HIDE DEF Offset
<1>2. fetch.per_page \in Nat
  BY DEF FetchInv
<1> QED BY <1>1, <1>2 DEF Shown, clamp

(* Hydration finds every block of a page of pointers, and serves the pointers' *)
(* rows in their order.                                                        *)
LEMMA PageHydrates ==
    ASSUME ChainInv, FetchInv, fetch.feed # "blocks", NEW n \in 0..tip, NEW held \in 0..TxCount(n),
           NEW pointers, pointers = [i \in Shown(held) |-> ShownItem(held, i)]
    PROVE  /\ ~\E b \in distinct_blocks(pointers) : b > tip
           /\ HydrateAll(pointers) = [i \in Shown(held) |-> RowOf(ShownItem(held, i))]
<1>1. n \in 0..MaxTip /\ TxCount(n) \in Nat /\ held \in Nat /\ n \in Nat /\ tip \in Nat /\ n <= tip
  <2>1. n \in 0..MaxTip /\ n + 1 \in 0..(MaxTip + 1) /\ n \in Nat /\ tip \in Nat /\ n <= tip
    BY FeedNumbers
  <2>2. TxCount(n) \in Nat
    BY <2>1, TablesInOrder, PagingAssumption DEF TxCount
  <2> QED BY <2>1, <2>2
<1>2. ASSUME NEW i \in Shown(held) PROVE pointers[i].block_number \in 0..n
  <2>1. held - Offset - i \in 0..(held - 1)
    BY <1>1, ShownInFeed
  <2>2. held - Offset - i \in 0..(TxCount(n) - 1)
    BY <1>1, <2>1
  <2>3. pointers[i] = TxAt(held - Offset - i)
    BY DEF ShownItem, Item
  <2> QED BY <1>1, <2>2, <2>3, TxLocated
<1>3. DOMAIN pointers = Shown(held) /\ \A i \in Shown(held) : pointers[i] = ShownItem(held, i)
  OBVIOUS
<1>4. ~\E b \in distinct_blocks(pointers) : b > tip
  BY <1>1, <1>2, <1>3 DEF distinct_blocks
<1>5. HydrateAll(pointers) = [i \in Shown(held) |-> RowOf(ShownItem(held, i))]
  <2>1. \A i \in Shown(held) : pointers[i].block_number \in distinct_blocks(pointers)
    BY <1>3 DEF distinct_blocks
  <2> QED BY <1>3, <2>1 DEF HydrateAll, RowOf
<1> QED BY <1>4, <1>5

(* What is ahead of a walk stays ahead of it when the feed grows.              *)
LEMMA RemainingGrows ==
    ASSUME NEW held \in Nat, NEW grown \in Nat, held <= grown, Remaining(held), Offset \in Nat
    PROVE  Remaining(grown)
<1> HIDE DEF Offset
<1> SUFFICES ASSUME NEW x \in fetch.owed \ fetch.seen
             PROVE  \E k \in 0..(grown - 1) : x = Item(fetch.feed, k) /\ Offset <= grown - 1 - k
  BY DEF Remaining
<1>1. PICK k \in 0..(held - 1) : x = Item(fetch.feed, k) /\ Offset <= held - 1 - k
  BY DEF Remaining
<1> QED BY <1>1

(* A request of one kind says nothing of the other.                            *)
LEMMA NoLeaders ==
    ASSUME FetchInv', fetch'.feed # "leaders" PROVE LeaderInv'
BY DEF LeaderInv, FetchInv, LeadersExact, Answered

LEMMA NoWalk ==
    ASSUME fetch'.pc \in {"idle", "tip", "headers", "done"}, fetch'.feed \in {"none", "leaders"}
    PROVE  WalkInv'
BY DEF WalkInv, ListFeeds

LEMMA NoFetchShape ==
    /\ DOMAIN NoFetch = FetchFields /\ NoFetch.pc = "idle" /\ NoFetch.feed = "none"
    /\ NoFetch.page = 0 /\ NoFetch.per_page = 1 /\ NoFetch.seen = {} /\ NoFetch.owed = {}
    /\ NoFetch.counts = <<>>
BY DEF NoFetch, FetchFields

LEMMA NoFetchGood == ASSUME fetch' = NoFetch, ChainInv' PROVE FeedInv'
<1>1. FetchInv'
  BY NoFetchShape DEF FetchInv
<1> QED BY <1>1, NoFetchShape, NoLeaders, NoWalk DEF FeedInv

LEMMA FeedInitInv == FeedInit => FeedInv
<1> SUFFICES ASSUME FeedInit PROVE FeedInv
  OBVIOUS
<1>1. ChainInv
  BY FeedAssumption DEF FeedInit, ChainInv
<1>2. fetch = NoFetch
  BY DEF FeedInit
<1>3. FetchInv
  BY <1>2, NoFetchShape DEF FetchInv
<1>4. WalkInv /\ LeaderInv
  BY <1>2, NoFetchShape DEF WalkInv, LeaderInv, LeadersExact, Answered
<1> QED BY <1>1, <1>3, <1>4 DEF FeedInv

LEMMA CountsGrow ==
    ASSUME NEW m \in 0..MaxTip, NEW n \in 0..MaxTip, m <= n
    PROVE  TxCount(m) \in Nat /\ TxCount(n) \in Nat /\ TxCount(m) <= TxCount(n)
<1>1. m + 1 \in 0..(MaxTip + 1) /\ n + 1 \in 0..(MaxTip + 1) /\ m + 1 <= n + 1
  BY FeedAssumption
<1> QED BY <1>1, TablesInOrder, PagingAssumption DEF TxCount

(* The node commits a block, or the index takes one, between two reads.        *)
LEMMA ChainGrows == ASSUME FeedInv, Commit \/ Index \/ UNCHANGED feedVars PROVE FeedInv'
<1>1. fetch' = fetch /\ ChainInv'
  BY FeedNumbers DEF Commit, Index, FeedInv, ChainInv, feedVars
<1>2. FetchInv' /\ LeaderInv'
  <2>1. FetchInv'
    BY <1>1 DEF FeedInv, FetchInv
  <2>2. LeadersExact' = LeadersExact /\ Counted' = Counted
    BY <1>1 DEF LeadersExact, Answered, Counted
  <2> QED BY <1>1, <2>1, <2>2 DEF FeedInv, LeaderInv
<1>3. /\ tip' \in 0..MaxTip /\ indexed' \in 0..MaxTip /\ tip <= tip' /\ indexed <= indexed'
      /\ tip' \in Nat /\ indexed' \in Nat
  BY FeedNumbers DEF Commit, Index, FeedInv, ChainInv, feedVars
<1>4. TxCount(tip)' \in Nat /\ TxCount(indexed)' \in Nat
      /\ TxCount(tip) <= TxCount(tip)' /\ TxCount(indexed) <= TxCount(indexed)'
  <2>1. tip \in 0..MaxTip /\ indexed \in 0..MaxTip
    BY FeedNumbers DEF FeedInv
  <2>2. TxCount(tip)' = TxCount(tip') /\ TxCount(indexed)' = TxCount(indexed')
    BY DEF TxCount
  <2> QED BY <1>3, <2>1, <2>2, CountsGrow
<1>5. ASSUME NEW feed \in ListFeeds PROVE Size(feed) \in Nat /\ Size(feed)' \in Nat /\ Size(feed) <= Size(feed)'
  BY <1>3, <1>4, FeedNumbers DEF FeedInv, Size, ListFeeds
<1>6. \A held : Remaining(held)' = Remaining(held)
  BY <1>1 DEF Remaining, Offset
<1>7. fetch.pc \in {"total", "page"} => Remaining(Size(fetch.feed))'
  <2> SUFFICES ASSUME fetch.pc \in {"total", "page"} PROVE Remaining(Size(fetch.feed))'
    OBVIOUS
  <2> DEFINE feed == fetch.feed
  <2>1. feed \in ListFeeds /\ Remaining(Size(feed)) /\ Offset \in Nat
    BY ProductNat DEF FeedInv, FetchInv, WalkInv, ListFeeds, Offset
  <2>2. PICK f : f = feed
    OBVIOUS
  <2>3. Remaining(Size(f)')
    BY <1>5, <2>1, <2>2, RemainingGrows
  <2>4. Size(fetch.feed)' = Size(f)'
    BY <1>1, <2>2 DEF Size
  <2> QED BY <1>6, <2>3, <2>4
<1>8. /\ fetch.feed \in ListFeeds => 0..Size(fetch.feed) \subseteq 0..Size(fetch.feed)'
      /\ 0..TxCount(indexed) \subseteq 0..TxCount(indexed)'
  <2>1. TxCount(indexed) \in Nat
    BY FeedNumbers, PagingAssumption DEF FeedInv
  <2>2. fetch.feed \in ListFeeds => /\ Size(fetch.feed) \in Nat /\ Size(fetch.feed)' \in Nat
                                  /\ Size(fetch.feed) <= Size(fetch.feed)'
    <3> SUFFICES ASSUME fetch.feed \in ListFeeds
                 PROVE  /\ Size(fetch.feed) \in Nat /\ Size(fetch.feed)' \in Nat
                        /\ Size(fetch.feed) <= Size(fetch.feed)'
      OBVIOUS
    <3>1. PICK f \in ListFeeds : f = fetch.feed
      OBVIOUS
    <3>2. Size(fetch.feed)' = Size(f)' /\ Size(fetch.feed) = Size(f)
      BY <1>1, <3>1 DEF Size
    <3> QED BY <1>5, <3>1, <3>2
  <2> QED BY <1>4, <2>1, <2>2
<1>9. \A held, i : ShownItem(held, i)' = ShownItem(held, i) /\ Shown(held)' = Shown(held)
  BY <1>1 DEF ShownItem, Shown, Offset
<1>10. WalkInv'
  <2>1. fetch.pc = "items" => fetch.feed \in ListFeeds
    BY DEF FeedInv, FetchInv, ListFeeds
  <2>2. fetch.pc = "items" => (fetch.total \in 0..Size(fetch.feed) /\ Remaining(fetch.total))'
    <3>1. Remaining(fetch.total)' = Remaining(fetch.total)
      BY <1>1 DEF Remaining, Offset
    <3> QED BY <1>1, <1>8, <2>1, <3>1 DEF FeedInv, WalkInv
  <2>3. fetch.pc \in {"count", "hydrate"} =>
          \E held \in 0..TxCount(indexed)' :
             /\ Remaining(held)
             /\ fetch.pointers = [i \in Shown(held) |-> ShownItem(held, i)]
    BY <1>8 DEF FeedInv, WalkInv
  <2>4. fetch.pc = "done" /\ fetch.feed \in ListFeeds =>
          \E held \in 0..Size(fetch.feed)' :
             /\ Remaining(held)
             /\ fetch.feed # "typed" => held = fetch.total
             /\ fetch.items = [i \in Shown(held) |-> IF fetch.feed = "blocks" THEN ShownItem(held, i)
                                                     ELSE RowOf(ShownItem(held, i))]
    BY <1>8 DEF FeedInv, WalkInv
  <2>5. fetch.pc = "error" => fetch.feed = "typed" /\ ~Bindable(page_offset(fetch.page, fetch.per_page))
    BY DEF FeedInv, WalkInv
  <2> QED BY <1>1, <1>6, <1>7, <1>9, <2>2, <2>3, <2>4, <2>5 DEF WalkInv
<1> QED BY <1>1, <1>2, <1>10 DEF FeedInv

(* What the steps of a request leave alone.                                    *)
LEMMA ChainStands == ASSUME ChainInv, UNCHANGED <<tip, indexed>> PROVE ChainInv'
BY DEF ChainInv

LEMMA SizeStands == ASSUME NEW feed, UNCHANGED <<tip, indexed>> PROVE Size(feed)' = Size(feed)
BY DEF Size, TxCount

(* A walk begins: page 0 has nothing before it.                                *)
LEMMA ListKeeps == ASSUME FeedInv, NEW feed \in ListFeeds, List(feed) PROVE FeedInv'
<1>1. PICK page \in Pages, requested \in PageSizes :
         fetch' = [NoFetch EXCEPT !.pc = IF feed = "typed" THEN "page" ELSE "total", !.feed = feed,
                                  !.page = page, !.per_page = clamp_per_page(requested),
                                  !.owed = IF page = 0 THEN Contents(feed) ELSE {}]
  BY DEF List
<1>2. /\ DOMAIN fetch' = FetchFields /\ fetch'.pc = IF feed = "typed" THEN "page" ELSE "total"
      /\ fetch'.feed = feed /\ fetch'.page = page /\ fetch'.per_page = clamp_per_page(requested)
      /\ fetch'.owed = (IF page = 0 THEN Contents(feed) ELSE {}) /\ fetch'.seen = {}
  BY <1>1, NoFetchShape DEF FetchFields
<1>3. page \in Nat /\ clamp_per_page(requested) \in Nat \ {0}
  BY PerPageInRange, PagingAssumption
<1>4. ChainInv' /\ UNCHANGED <<tip, indexed>>
  BY ChainStands DEF List, FeedInv
<1>5. FetchInv'
  BY <1>2, <1>3 DEF FetchInv, ListFeeds
<1>6. LeaderInv'
  BY <1>2, <1>5, NoLeaders DEF ListFeeds
<1>7. Remaining(Size(fetch.feed))'
  <2>1. CASE page # 0
    BY <1>2, <2>1 DEF Remaining
  <2>2. CASE page = 0
    <3>1. Offset' = 0
      <4>1. Offset' = 0 * clamp_per_page(requested)
        BY <1>2, <2>2 DEF Offset
      <4> QED BY <1>3, <4>1
    <3>2. Size(fetch.feed)' = Size(feed)
      BY <1>2, <1>4 DEF Size, TxCount
    <3>3. Size(feed) \in Nat
      BY SizeInRange, PagingAssumption DEF FeedInv
    <3>4. \A x \in Contents(feed) : \E k \in 0..(Size(feed) - 1) : x = Item(feed, k)
      BY DEF Contents
    <3>5. \A x \in Contents(feed) :
             \E k \in 0..(Size(feed) - 1) : x = Item(feed, k) /\ 0 <= Size(feed) - 1 - k
      BY <3>3, <3>4
    <3>6. \A k : Item(fetch.feed, k)' = Item(feed, k)
      BY <1>2 DEF Item
    <3> QED BY <1>2, <2>2, <3>1, <3>2, <3>5 DEF Remaining
  <2> QED BY <2>1, <2>2
<1>8. WalkInv'
  BY <1>2, <1>7 DEF WalkInv
<1> QED BY <1>4, <1>5, <1>6, <1>8 DEF FeedInv

LEMMA ReadTotalKeeps == ASSUME FeedInv, ReadTotal PROVE FeedInv'
<1>1. /\ DOMAIN fetch = FetchFields /\ fetch.pc = "total" /\ fetch.feed \in {"blocks", "txs"}
      /\ ChainInv /\ fetch.page \in Nat /\ fetch.per_page \in Nat \ {0}
      /\ Remaining(Size(fetch.feed))
  BY DEF FeedInv, FetchInv, WalkInv, ReadTotal
<1>2. /\ DOMAIN fetch' = FetchFields /\ fetch'.pc = "items" /\ fetch'.total = Size(fetch.feed)
      /\ fetch'.feed = fetch.feed /\ fetch'.page = fetch.page /\ fetch'.per_page = fetch.per_page
      /\ fetch'.owed = fetch.owed /\ fetch'.seen = fetch.seen
  BY <1>1 DEF ReadTotal, FetchFields
<1>3. ChainInv' /\ UNCHANGED <<tip, indexed>>
  BY <1>1, ChainStands DEF ReadTotal
<1>4. FetchInv'
  BY <1>1, <1>2 DEF FetchInv
<1>5. LeaderInv'
  BY <1>1, <1>2, <1>4, NoLeaders
<1>6. fetch'.total \in 0..Size(fetch.feed)'
  <2>1. Size(fetch.feed)' = Size(fetch.feed)
    BY <1>2, <1>3 DEF Size, TxCount
  <2>2. Size(fetch.feed) \in Nat
    BY <1>1, SizeInRange, PagingAssumption DEF ListFeeds
  <2> QED BY <1>2, <2>1, <2>2
<1>7. Remaining(fetch.total)'
  <2>1. Remaining(Size(fetch.feed)) = Remaining(fetch.total)'
    BY <1>2 DEF Remaining, Offset
  <2> QED BY <1>1, <2>1
<1>8. WalkInv'
  BY <1>2, <1>6, <1>7 DEF WalkInv
<1> QED BY <1>3, <1>4, <1>5, <1>8 DEF FeedInv

(* The page of a list request, as a row or as a number of each of its items.   *)
PageOf(held) ==
    [i \in Shown(held) |-> IF fetch.feed = "blocks" THEN ShownItem(held, i)
                           ELSE RowOf(ShownItem(held, i))]

(* A list request is answered with the page of a feed that was there.          *)
LEMMA AnswerKeeps ==
    ASSUME FeedInv, UNCHANGED <<tip, indexed>>, fetch.feed \in ListFeeds,
           NEW held \in 0..Size(fetch.feed), Remaining(held),
           fetch.feed # "typed" => held = fetch.total,
           fetch' = [fetch EXCEPT !.pc = "done", !.items = PageOf(held)]
    PROVE  FeedInv'
<1>1. /\ DOMAIN fetch = FetchFields /\ ChainInv /\ fetch.page \in Nat /\ fetch.per_page \in Nat \ {0}
  BY DEF FeedInv, FetchInv
<1>2. /\ DOMAIN fetch' = FetchFields /\ fetch'.pc = "done" /\ fetch'.items = PageOf(held)
      /\ fetch'.feed = fetch.feed /\ fetch'.page = fetch.page /\ fetch'.per_page = fetch.per_page
      /\ fetch'.owed = fetch.owed /\ fetch'.seen = fetch.seen /\ fetch'.total = fetch.total
  BY <1>1 DEF FetchFields
<1>3. ChainInv'
  BY <1>1, ChainStands
<1>4. FetchInv'
  BY <1>1, <1>2 DEF FetchInv
<1>5. LeaderInv'
  BY <1>2, <1>4, NoLeaders DEF ListFeeds
<1>6. Size(fetch.feed)' = Size(fetch.feed)
  BY <1>2 DEF Size, TxCount
<1>7. Remaining(held)' = Remaining(held)
  BY <1>2 DEF Remaining, Offset
<1>8. \A i : ShownItem(held, i)' = ShownItem(held, i) /\ Shown(held)' = Shown(held)
  BY <1>2 DEF ShownItem, Shown, Offset
<1>9. fetch'.items = [i \in Shown(held)' |-> IF fetch'.feed = "blocks" THEN ShownItem(held, i)'
                                             ELSE RowOf(ShownItem(held, i)')]
  BY <1>2, <1>8 DEF PageOf
<1>10. WalkInv'
  BY <1>2, <1>6, <1>7, <1>9 DEF WalkInv
<1> QED BY <1>3, <1>4, <1>5, <1>10 DEF FeedInv

(* What a request that computes its page is about to read.                     *)
LEMMA ComputedPage ==
    ASSUME FeedInv, fetch.pc = "items"
    PROVE  /\ fetch.feed \in {"blocks", "txs"} /\ fetch.total \in 0..Size(fetch.feed)
           /\ fetch.total \in Nat /\ Size(fetch.feed) \in Nat /\ Remaining(fetch.total)
           /\ LET numbers == desc_page_items(fetch.total, fetch.page, fetch.per_page) IN
              /\ numbers = [i \in Shown(fetch.total) |-> fetch.total - Offset - i]
              /\ \A i \in Shown(fetch.total) : numbers[i] \in 0..(Size(fetch.feed) - 1)
<1> DEFINE numbers == desc_page_items(fetch.total, fetch.page, fetch.per_page)
<1>1. /\ fetch.feed \in {"blocks", "txs"} /\ fetch.total \in 0..Size(fetch.feed) /\ Remaining(fetch.total)
      /\ ChainInv /\ FetchInv
  BY DEF FeedInv, FetchInv, WalkInv
<1>2. Size(fetch.feed) \in 0..MAX_U64 /\ MAX_U64 \in Nat
  BY <1>1, SizeInRange, PagingAssumption DEF ListFeeds
<1>3. fetch.total \in 0..MAX_U64 /\ fetch.total \in Nat /\ Size(fetch.feed) \in Nat
  BY <1>1, <1>2
<1>4. numbers = [i \in Shown(fetch.total) |-> fetch.total - Offset - i]
  <2>1. fetch.page \in Nat /\ fetch.per_page \in Nat \ {0}
    BY <1>1 DEF FetchInv
  <2> QED BY <1>3, <2>1, ItemsAreSlice DEF Shown, Offset
<1>5. \A i \in Shown(fetch.total) : fetch.total - Offset - i \in 0..(fetch.total - 1)
  BY <1>1, <1>3, ShownInFeed
<1> HIDE DEF numbers
<1>6. \A i \in Shown(fetch.total) : numbers[i] \in 0..(Size(fetch.feed) - 1)
  <2> TAKE i \in Shown(fetch.total)
  <2>1. numbers[i] \in 0..(fetch.total - 1)
    BY <1>4, <1>5
  <2> QED BY <1>1, <1>3, <2>1
<1> QED BY <1>1, <1>3, <1>4, <1>6 DEF numbers

LEMMA ReadBlocksKeeps == ASSUME FeedInv, ReadBlocks PROVE FeedInv'
<1> DEFINE total == fetch.total
           numbers == desc_page_items(total, fetch.page, fetch.per_page)
<1>1. fetch.pc = "items" /\ fetch.feed = "blocks" /\ UNCHANGED <<tip, indexed>>
  BY DEF ReadBlocks
<1>2. /\ total \in 0..Size(fetch.feed) /\ Remaining(total)
      /\ numbers = [i \in Shown(total) |-> total - Offset - i]
      /\ \A i \in Shown(total) : numbers[i] \in 0..(Size(fetch.feed) - 1)
  BY <1>1, ComputedPage
<1>3. Size(fetch.feed) = tip + 1 /\ tip \in Nat
  BY <1>1, FeedNumbers DEF Size, FeedInv
<1>4. fetch' = IF \E i \in DOMAIN numbers : numbers[i] > tip
               THEN [fetch EXCEPT !.pc = "error"]
               ELSE [fetch EXCEPT !.pc = "done", !.items = numbers]
  BY DEF ReadBlocks
<1> HIDE DEF numbers, total
<1>5. ~\E i \in DOMAIN numbers : numbers[i] > tip
  BY <1>2, <1>3
<1>6. numbers = PageOf(total)
  BY <1>1, <1>2 DEF PageOf, ShownItem, Item
<1>7. fetch' = [fetch EXCEPT !.pc = "done", !.items = PageOf(total)]
  BY <1>4, <1>5, <1>6
<1> QED BY <1>1, <1>2, <1>7, AnswerKeeps DEF ListFeeds, total

(* The table's entry for transaction number t.                                 *)
LEMMA TableEntry ==
    ASSUME NEW n, NEW t \in 0..(TxCount(n) - 1), TxCount(n) \in Nat
    PROVE  TxTable(n)[t + 1] = TxAt(t)
<1> DEFINE k == t + 1
<1>1. k \in 1..TxCount(n) /\ k - 1 = t
  OBVIOUS
<1> HIDE DEF k
<1>2. TxTable(n)[k] = TxAt(k - 1)
  BY <1>1 DEF TxTable
<1> QED BY <1>1, <1>2 DEF k

LEMMA ReadTxsKeeps == ASSUME FeedInv, ReadTxs PROVE FeedInv'
<1> DEFINE total == fetch.total
           numbers == desc_page_items(total, fetch.page, fetch.per_page)
           pointers == [i \in DOMAIN numbers |-> TxTable(tip)[numbers[i] + 1]]
<1>1. fetch.pc = "items" /\ fetch.feed = "txs" /\ UNCHANGED <<tip, indexed>> /\ Hydrate(pointers)
  BY DEF ReadTxs
<1>2. /\ total \in 0..Size(fetch.feed) /\ Remaining(total) /\ total \in Nat
      /\ numbers = [i \in Shown(total) |-> total - Offset - i]
      /\ \A i \in Shown(total) : numbers[i] \in 0..(Size(fetch.feed) - 1)
  BY <1>1, ComputedPage
<1>3. Size(fetch.feed) = TxCount(tip) /\ TxCount(tip) \in Nat /\ tip \in 0..tip
  BY <1>1, FeedNumbers, PagingAssumption DEF Size, FeedInv
<1> HIDE DEF numbers, total
<1>4. pointers = [i \in Shown(total) |-> ShownItem(total, i)]
  <2>1. DOMAIN numbers = Shown(total)
    BY <1>2
  <2>2. ASSUME NEW i \in Shown(total) PROVE TxTable(tip)[numbers[i] + 1] = ShownItem(total, i)
    <3>1. numbers[i] \in 0..(TxCount(tip) - 1)
      BY <1>2, <1>3
    <3>2. TxTable(tip)[numbers[i] + 1] = TxAt(numbers[i])
      BY <1>3, <3>1, TableEntry
    <3> QED BY <1>1, <1>2, <3>2 DEF ShownItem, Item
  <2> QED BY <2>1, <2>2
<1> HIDE DEF pointers
<1>5. /\ ~\E b \in distinct_blocks(pointers) : b > tip
      /\ HydrateAll(pointers) = [i \in Shown(total) |-> RowOf(ShownItem(total, i))]
  <2>1. total \in 0..TxCount(tip) /\ ChainInv /\ FetchInv /\ fetch.feed # "blocks"
    BY <1>1, <1>2, <1>3 DEF FeedInv
  <2> QED BY <1>3, <1>4, <2>1, PageHydrates
<1>6. HydrateAll(pointers) = PageOf(total)
  BY <1>1, <1>5 DEF PageOf
<1>7. fetch' = [fetch EXCEPT !.pc = "done", !.items = PageOf(total)]
  BY <1>1, <1>5, <1>6 DEF Hydrate
<1> QED BY <1>1, <1>2, <1>7, AnswerKeeps DEF ListFeeds, total

(* An offset that SQLite binds is the page's place: it was not saturated.      *)
LEMMA OffsetExact ==
    ASSUME FetchInv, Bindable(page_offset(fetch.page, fetch.per_page))
    PROVE  page_offset(fetch.page, fetch.per_page) = Offset
<1>1. Offset \in Nat /\ MAX_U64 \in Nat /\ MAX_I64 \in Nat /\ MAX_I64 < MAX_U64
  BY ProductNat, PagingAssumption DEF FetchInv, Offset
<1>2. page_offset(fetch.page, fetch.per_page) = IF Offset > MAX_U64 THEN MAX_U64 ELSE Offset
  BY DEF page_offset, saturating_mul, Offset
<1> HIDE DEF Offset
<1> QED BY <1>1, <1>2 DEF Bindable

(* LIMIT and OFFSET over the rows of a type cut out the page.                  *)
LEMMA TypedPage ==
    ASSUME FetchInv, fetch.feed = "typed", NEW n, NEW held \in Nat, held = TxCount(n)
    PROVE  limit_offset(TypedRows(n), held, fetch.per_page, Offset)
             = [i \in Shown(held) |-> ShownItem(held, i)]
<1>1. /\ Offset \in Nat /\ fetch.per_page \in Nat
      /\ \A i \in Shown(held) : held - Offset - i \in 0..(held - 1)
  BY ShownInFeed DEF FetchInv
<1>2. limit_offset(TypedRows(n), held, fetch.per_page, Offset)
        = [i \in Shown(held) |-> TypedRows(n)[Offset + i]]
  BY DEF limit_offset, Shown
<1> HIDE DEF Offset
<1>3. ASSUME NEW i \in Shown(held) PROVE TypedRows(n)[Offset + i] = ShownItem(held, i)
  <2>1. i \in Nat \ {0}
    BY <1>1 DEF Shown, clamp
  <2>2. Offset + i \in 1..held /\ held - (Offset + i) = held - Offset - i
    BY <1>1, <2>1
  <2> DEFINE k == Offset + i
  <2>3. k \in 1..held /\ held - k = held - Offset - i
    BY <2>2
  <2> HIDE DEF k
  <2>4. TypedRows(n)[k] = TxAt(held - k)
    BY <2>3 DEF TypedRows
  <2> QED BY <2>3, <2>4 DEF k, ShownItem, Item
<1> QED BY <1>2, <1>3

LEMMA ReadTypedPageKeeps == ASSUME FeedInv, ReadTypedPage PROVE FeedInv'
<1> DEFINE offset == page_offset(fetch.page, fetch.per_page)
           held == TxCount(indexed)
           pointers == limit_offset(TypedRows(indexed), held, fetch.per_page, offset)
<1>1. /\ DOMAIN fetch = FetchFields /\ fetch.pc = "page" /\ fetch.feed = "typed"
      /\ ChainInv /\ FetchInv /\ fetch.page \in Nat /\ fetch.per_page \in Nat \ {0}
      /\ Remaining(Size(fetch.feed)) /\ UNCHANGED <<tip, indexed>>
  BY DEF FeedInv, FetchInv, WalkInv, ReadTypedPage
<1>2. /\ DOMAIN fetch' = FetchFields /\ fetch'.feed = fetch.feed /\ fetch'.page = fetch.page
      /\ fetch'.per_page = fetch.per_page /\ fetch'.owed = fetch.owed /\ fetch'.seen = fetch.seen
      /\ \/ Bindable(offset) /\ fetch'.pc = "count" /\ fetch'.pointers = pointers
         \/ ~Bindable(offset) /\ fetch'.pc = "error"
  BY <1>1 DEF ReadTypedPage, FetchFields
<1>3. Size(fetch.feed) = held /\ held \in Nat /\ held \in 0..held
  BY <1>1, FeedNumbers, PagingAssumption DEF Size
<1> HIDE DEF pointers, offset, held
<1>4. ChainInv'
  BY <1>1, ChainStands
<1>5. FetchInv'
  BY <1>1, <1>2 DEF FetchInv, ListFeeds
<1>6. LeaderInv'
  BY <1>1, <1>2, <1>5, NoLeaders
<1>7. CASE Bindable(offset)
  <2>1. pointers = [i \in Shown(held) |-> ShownItem(held, i)]
    BY <1>1, <1>3, <1>7, OffsetExact, TypedPage DEF pointers, offset, held
  <2>2. TxCount(indexed)' = held
    BY <1>1 DEF TxCount, held
  <2>3. PICK h : h = held
    OBVIOUS
  <2>4. /\ \A i : ShownItem(h, i)' = ShownItem(h, i)
        /\ Shown(h)' = Shown(h) /\ Remaining(h)' = Remaining(h)
    BY <1>2 DEF ShownItem, Shown, Remaining, Offset
  <2>5. /\ Remaining(h)' /\ fetch'.pc = "count"
        /\ fetch'.pointers = [i \in Shown(h)' |-> ShownItem(h, i)']
    BY <1>1, <1>2, <1>3, <1>7, <2>1, <2>3, <2>4
  <2>6. h \in 0..TxCount(indexed)'
    BY <1>3, <2>2, <2>3
  <2>7. WalkInv'
    BY <2>5, <2>6 DEF WalkInv
  <2> QED BY <1>4, <1>5, <1>6, <2>7 DEF FeedInv
<1>8. CASE ~Bindable(offset)
  <2>1. WalkInv'
    BY <1>1, <1>2, <1>8 DEF WalkInv, offset
  <2> QED BY <1>4, <1>5, <1>6, <2>1 DEF FeedInv
<1> QED BY <1>7, <1>8

(* What a request of a type is about to hydrate.                               *)
LEMMA PointersRead ==
    ASSUME FeedInv, fetch.pc \in {"count", "hydrate"}
    PROVE  /\ DOMAIN fetch = FetchFields /\ fetch.feed = "typed" /\ ChainInv /\ FetchInv
           /\ TxCount(indexed) \in Nat
           /\ \E held \in 0..TxCount(indexed) :
                /\ Remaining(held)
                /\ fetch.pointers = [i \in Shown(held) |-> ShownItem(held, i)]
BY FeedNumbers, PagingAssumption DEF FeedInv, FetchInv, WalkInv

LEMMA ReadTypedCountKeeps == ASSUME FeedInv, ReadTypedCount PROVE FeedInv'
<1>1. /\ DOMAIN fetch = FetchFields /\ fetch.pc = "count" /\ fetch.feed = "typed"
      /\ ChainInv /\ FetchInv /\ UNCHANGED <<tip, indexed>>
  BY PointersRead DEF ReadTypedCount
<1>2. PICK held \in 0..TxCount(indexed) :
         Remaining(held) /\ fetch.pointers = [i \in Shown(held) |-> ShownItem(held, i)]
  BY <1>1, PointersRead
<1>3. /\ DOMAIN fetch' = FetchFields /\ fetch'.feed = fetch.feed /\ fetch'.page = fetch.page
      /\ fetch'.per_page = fetch.per_page /\ fetch'.owed = fetch.owed /\ fetch'.seen = fetch.seen
      /\ fetch'.pc = "hydrate" /\ fetch'.pointers = fetch.pointers
  BY <1>1 DEF ReadTypedCount, FetchFields
<1>4. ChainInv'
  BY <1>1, ChainStands
<1>5. FetchInv'
  BY <1>1, <1>3 DEF FetchInv
<1>6. LeaderInv'
  BY <1>1, <1>3, <1>5, NoLeaders
<1>7. /\ \A i : ShownItem(held, i)' = ShownItem(held, i)
      /\ Shown(held)' = Shown(held) /\ Remaining(held)' = Remaining(held)
      /\ TxCount(indexed)' = TxCount(indexed)
  BY <1>1, <1>3 DEF ShownItem, Shown, Remaining, Offset, TxCount
<1>8. Remaining(held)' /\ fetch'.pointers = [i \in Shown(held)' |-> ShownItem(held, i)']
  BY <1>2, <1>3, <1>7
<1>9. WalkInv'
  BY <1>2, <1>3, <1>7, <1>8 DEF WalkInv
<1> QED BY <1>4, <1>5, <1>6, <1>9 DEF FeedInv

LEMMA HydratePageKeeps == ASSUME FeedInv, HydratePage PROVE FeedInv'
<1>1. /\ fetch.pc = "hydrate" /\ fetch.feed = "typed" /\ ChainInv /\ FetchInv
      /\ UNCHANGED <<tip, indexed>> /\ Hydrate(fetch.pointers)
  BY PointersRead DEF HydratePage
<1>2. PICK held \in 0..TxCount(indexed) :
         Remaining(held) /\ fetch.pointers = [i \in Shown(held) |-> ShownItem(held, i)]
  BY <1>1, PointersRead
<1>3. indexed \in 0..tip
  BY <1>1 DEF ChainInv
<1>4. /\ ~\E b \in distinct_blocks(fetch.pointers) : b > tip
      /\ HydrateAll(fetch.pointers) = [i \in Shown(held) |-> RowOf(ShownItem(held, i))]
  BY <1>1, <1>2, <1>3, PageHydrates
<1>5. HydrateAll(fetch.pointers) = PageOf(held)
  BY <1>1, <1>4 DEF PageOf
<1>6. fetch' = [fetch EXCEPT !.pc = "done", !.items = PageOf(held)]
  BY <1>1, <1>4, <1>5 DEF Hydrate
<1>7. Size(fetch.feed) = TxCount(indexed) /\ fetch.feed \in ListFeeds
  BY <1>1 DEF Size, ListFeeds
<1> QED BY <1>1, <1>2, <1>6, <1>7, AnswerKeeps

(* The key of a served item is the item.                                       *)
LEMMA ShownKeys ==
    ASSUME FeedInv, fetch.feed \in ListFeeds, NEW held \in 0..Size(fetch.feed),
           NEW i \in Shown(held)
    PROVE  /\ Key(fetch.feed, PageOf(held)[i]) = ShownItem(held, i)
           /\ fetch.feed # "blocks" =>
                LET row == PageOf(held)[i]
                IN  row.gas_used = Bodies[row.block_number].gas[row.tx_index + 1]
<1>1. ChainInv /\ FetchInv /\ Size(fetch.feed) \in Nat /\ held \in Nat /\ held <= Size(fetch.feed)
  BY SizeInRange, PagingAssumption DEF FeedInv
<1>2. held - Offset - i \in 0..(held - 1)
  BY <1>1, ShownInFeed
<1>3. CASE fetch.feed = "blocks"
  BY <1>3 DEF PageOf, Key
<1>4. CASE fetch.feed # "blocks"
  <2>1. PICK n \in {tip, indexed} : Size(fetch.feed) = TxCount(n)
    BY <1>4 DEF Size, ListFeeds
  <2>2. n \in 0..MaxTip
    BY <1>1, <2>1, FeedNumbers
  <2>3. held - Offset - i \in 0..(TxCount(n) - 1)
    BY <1>1, <1>2, <2>1
  <2>4. PageOf(held)[i] = RowOf(TxAt(held - Offset - i)) /\ ShownItem(held, i) = TxAt(held - Offset - i)
    BY <1>4 DEF PageOf, ShownItem, Item
  <2> QED BY <1>4, <2>2, <2>3, <2>4, RowIsExact
<1> QED BY <1>3, <1>4

(* On to the next page: what was shown is seen, what was not is ahead, and was *)
(* moved further back by what arrived meanwhile.                               *)
LEMMA NextPageKeeps == ASSUME FeedInv, NextPage PROVE FeedInv'
<1> DEFINE keys == {Key(fetch.feed, fetch.items[i]) : i \in DOMAIN fetch.items}
<1>1. /\ DOMAIN fetch = FetchFields /\ fetch.pc = "done" /\ fetch.feed \in ListFeeds
      /\ ChainInv /\ FetchInv /\ UNCHANGED <<tip, indexed>>
      /\ fetch.page \in Nat /\ fetch.per_page \in Nat \ {0}
  BY DEF NextPage, FeedInv, FetchInv
<1>2. PICK held \in 0..Size(fetch.feed) : Remaining(held) /\ fetch.items = PageOf(held)
  BY <1>1 DEF FeedInv, WalkInv, PageOf
<1>3. /\ DOMAIN fetch' = FetchFields /\ fetch'.feed = fetch.feed /\ fetch'.page = fetch.page + 1
      /\ fetch'.per_page = fetch.per_page /\ fetch'.owed = fetch.owed
      /\ fetch'.seen = fetch.seen \cup keys
      /\ fetch'.pc = IF fetch.feed = "typed" THEN "page" ELSE "total"
  BY <1>1 DEF NextPage, FetchFields
<1>4. ChainInv'
  BY <1>1, ChainStands
<1>5. FetchInv'
  BY <1>1, <1>3 DEF FetchInv, ListFeeds
<1>6. LeaderInv'
  BY <1>1, <1>3, <1>5, NoLeaders DEF ListFeeds
<1>7. \A i \in Shown(held) : ShownItem(held, i) \in keys
  <2>1. DOMAIN fetch.items = Shown(held)
    BY <1>2 DEF PageOf
  <2> QED BY <1>1, <1>2, <2>1, ShownKeys
<1>8. Size(fetch.feed)' = Size(fetch.feed) /\ Size(fetch.feed) \in Nat
  <2>1. Size(fetch.feed) \in Nat
    BY <1>1, SizeInRange, PagingAssumption
  <2>2. Size(fetch.feed)' = Size(fetch.feed)
    BY <1>1, <1>3 DEF Size, TxCount
  <2> QED BY <2>1, <2>2
<1>9. Offset \in Nat /\ Offset' = Offset + fetch.per_page
  <2>1. Offset \in Nat /\ Offset' = (fetch.page + 1) * fetch.per_page
    BY <1>1, <1>3, ProductNat DEF Offset
  <2>2. (fetch.page + 1) * fetch.per_page = fetch.page * fetch.per_page + fetch.per_page
    BY <1>1
  <2> QED BY <2>1, <2>2 DEF Offset
<1> DEFINE size == Size(fetch.feed)
           pp == fetch.per_page
           off == Offset
<1>10. /\ size \in Nat /\ pp \in Nat \ {0} /\ off \in Nat /\ held \in Nat /\ held <= size
       /\ Offset' = off + pp /\ Shown(held) = 1..clamp(held - off, 0, pp)
       /\ \A i : ShownItem(held, i) = Item(fetch.feed, held - off - i)
  BY <1>1, <1>8, <1>9 DEF Shown, ShownItem
<1>11. ASSUME NEW x \in fetch.owed \ fetch.seen, x \notin keys
       PROVE  \E k \in 0..(size - 1) : x = Item(fetch.feed, k) /\ off + pp <= size - 1 - k
  <2>1. PICK k \in 0..(held - 1) : x = Item(fetch.feed, k) /\ off <= held - 1 - k
    BY <1>2, <1>11 DEF Remaining
  <2> HIDE DEF size, pp, off, keys
  <2>2. off + pp <= held - 1 - k
    <3> SUFFICES ASSUME held - 1 - k < off + pp PROVE FALSE
      BY <1>10
    <3> DEFINE i == held - off - k
    <3>1. i \in 1..clamp(held - off, 0, pp) /\ held - off - i = k
      BY <1>10, <2>1 DEF clamp
    <3> HIDE DEF i
    <3>2. ShownItem(held, i) = Item(fetch.feed, k)
      BY <1>10, <3>1
    <3> QED BY <1>7, <1>10, <1>11, <2>1, <3>1, <3>2
  <2>3. k \in 0..(size - 1) /\ off + pp <= size - 1 - k
    BY <1>10, <2>1, <2>2
  <2> QED BY <2>1, <2>3
<1>12. Remaining(Size(fetch.feed))'
  <2>1. \A k : Item(fetch.feed, k)' = Item(fetch.feed, k)
    BY <1>3 DEF Item
  <2>2. fetch'.owed \ fetch'.seen = {x \in fetch.owed \ fetch.seen : x \notin keys}
    BY <1>3
  <2>3. \A x \in fetch'.owed \ fetch'.seen :
          \E k \in 0..(Size(fetch.feed)' - 1) : x = Item(fetch.feed, k) /\ Offset' <= Size(fetch.feed)' - 1 - k
    BY <1>8, <1>10, <1>11, <2>2
  <2> QED BY <1>3, <2>3 DEF Remaining
<1>13. WalkInv'
  BY <1>3, <1>12 DEF WalkInv
<1> QED BY <1>4, <1>5, <1>6, <1>13 DEF FeedInv

-----------------------------------------------------------------------------
(* The leader board.                                                           *)

(* The window starts inside the chain, and at its tip when it is one block.    *)
LEMMA WindowInChain ==
    ASSUME NEW to \in Nat, NEW window \in Nat \ {0}
    PROVE  /\ WindowStart(to, window) \in 0..to
           /\ \A n \in 0..to :
                n >= WindowStart(to, window)
                  <=> n + (IF window > to + 1 THEN to + 1 ELSE window) > to
BY DEF WindowStart, saturating_sub

LEMMA LeadersKeeps == ASSUME FeedInv, Leaders PROVE FeedInv'
<1>1. PICK requested \in Windows :
         fetch' = [NoFetch EXCEPT !.pc = "tip", !.feed = "leaders",
                                  !.window = clamp(unwrap_or(requested, DEFAULT_LEADER_WINDOW),
                                                   1, MAX_LEADER_WINDOW)]
  BY DEF Leaders
<1> DEFINE asked == unwrap_or(requested, DEFAULT_LEADER_WINDOW)
<1>2. asked \in Nat
  <2>1. requested \in SUBSET Nat /\ DEFAULT_LEADER_WINDOW \in Nat
    BY FeedAssumption
  <2>2. CASE requested = {}
    BY <2>1, <2>2 DEF unwrap_or
  <2>3. CASE requested # {}
    <3>1. (CHOOSE x \in requested : TRUE) \in requested
      BY <2>3
    <3> QED BY <2>1, <2>3, <3>1 DEF unwrap_or
  <2> QED BY <2>2, <2>3
<1> HIDE DEF asked
<1>3. clamp(asked, 1, MAX_LEADER_WINDOW) \in Nat \ {0}
  BY <1>2, FeedAssumption DEF clamp
<1>4. /\ DOMAIN fetch' = FetchFields /\ fetch'.pc = "tip" /\ fetch'.feed = "leaders"
      /\ fetch'.window = clamp(asked, 1, MAX_LEADER_WINDOW) /\ fetch'.counts = <<>>
      /\ fetch'.page = 0 /\ fetch'.per_page = 1
  BY <1>1, NoFetchShape DEF FetchFields, asked
<1>5. ChainInv'
  BY ChainStands DEF Leaders, FeedInv
<1>6. FetchInv'
  BY <1>4 DEF FetchInv
<1>7. LeaderInv'
  BY <1>3, <1>4 DEF LeaderInv, LeadersExact, Answered
<1> QED BY <1>4, <1>5, <1>6, <1>7, NoWalk DEF FeedInv

LEMMA ReadLeaderTipKeeps == ASSUME FeedInv, ReadLeaderTip PROVE FeedInv'
<1>1. /\ DOMAIN fetch = FetchFields /\ fetch.pc = "tip" /\ fetch.feed = "leaders" /\ ChainInv
      /\ fetch.page \in Nat /\ fetch.per_page \in Nat \ {0}
      /\ fetch.window \in Nat \ {0} /\ DOMAIN fetch.counts = {}
  BY DEF FeedInv, FetchInv, LeaderInv, ReadLeaderTip
<1>2. /\ DOMAIN fetch' = FetchFields /\ fetch'.pc = "headers" /\ fetch'.feed = "leaders"
      /\ fetch'.to = tip /\ fetch'.at = WindowStart(tip, fetch.window)
      /\ fetch'.window = fetch.window /\ fetch'.counts = fetch.counts
      /\ fetch'.page = fetch.page /\ fetch'.per_page = fetch.per_page
  BY <1>1 DEF ReadLeaderTip, FetchFields
<1>3. ChainInv'
  BY <1>1, ChainStands DEF ReadLeaderTip
<1>4. FetchInv'
  BY <1>1, <1>2 DEF FetchInv
<1>5. tip \in Nat /\ tip \in 0..MaxTip
  BY <1>1, FeedNumbers
<1>6. WindowStart(tip, fetch.window) \in 0..tip
  BY <1>1, <1>5, WindowInChain
<1>7. fetch'.at \in WindowStart(fetch'.to, fetch'.window)..(fetch'.to + 1) /\ Counted' = {}
  <2> DEFINE from == WindowStart(tip, fetch.window)
  <2>1. from \in 0..tip /\ fetch'.at = from /\ fetch'.to = tip /\ WindowStart(fetch'.to, fetch'.window) = from
    BY <1>2, <1>6
  <2>2. Counted' = from..(from - 1)
    BY <2>1 DEF Counted
  <2> HIDE DEF from
  <2> QED BY <1>5, <2>1, <2>2
<1>8. LeaderInv'
  <2>1. LeadersExact'
    BY <1>2 DEF LeadersExact, Answered
  <2> QED BY <1>1, <1>2, <1>5, <1>7, <2>1 DEF LeaderInv
<1> QED BY <1>2, <1>3, <1>4, <1>8, NoWalk DEF FeedInv

(* One more header: its beneficiary has one more block, the others as many.    *)
LEMMA CountHeaderKeeps == ASSUME FeedInv, CountHeader PROVE FeedInv'
<1> DEFINE from == WindowStart(fetch.to, fetch.window)
           at == fetch.at
           who == Bodies[at].beneficiary
           old == fetch.counts
           new == AddOne(old, who)
           Of(S, a) == {n \in S : Bodies[n].beneficiary = a}
<1>1. /\ DOMAIN fetch = FetchFields /\ fetch.pc = "headers" /\ fetch.feed = "leaders" /\ ChainInv
      /\ fetch.page \in Nat /\ fetch.per_page \in Nat \ {0} /\ fetch.window \in Nat \ {0}
      /\ fetch.to \in 0..MaxTip /\ at \in from..(fetch.to + 1) /\ at <= fetch.to
      /\ DOMAIN old = {Bodies[n].beneficiary : n \in Counted}
      /\ \A a \in DOMAIN old : old[a] = Cardinality(Of(Counted, a))
  BY DEF FeedInv, FetchInv, LeaderInv, CountHeader
<1>2. /\ DOMAIN fetch' = FetchFields /\ fetch'.pc = "headers" /\ fetch'.feed = "leaders"
      /\ fetch'.to = fetch.to /\ fetch'.at = at + 1 /\ fetch'.counts = new
      /\ fetch'.window = fetch.window /\ fetch'.page = fetch.page /\ fetch'.per_page = fetch.per_page
  BY <1>1 DEF CountHeader, FetchFields
<1>3. ChainInv'
  BY <1>1, ChainStands DEF CountHeader
<1>4. FetchInv'
  BY <1>1, <1>2 DEF FetchInv
<1>5. fetch.to \in Nat /\ from \in Nat /\ at \in Nat /\ from <= at
  <2>1. fetch.to \in Nat
    BY <1>1, FeedAssumption
  <2>2. from \in 0..fetch.to
    BY <1>1, <2>1, WindowInChain
  <2> HIDE DEF from
  <2> QED BY <1>1, <2>1, <2>2
<1>6. Counted = from..(at - 1) /\ Counted' = from..at
  <2>1. WindowStart(fetch'.to, fetch'.window) = from
    BY <1>2
  <2>2. Counted' = WindowStart(fetch'.to, fetch'.window)..(fetch'.at - 1)
    BY DEF Counted
  <2>3. Counted = from..(at - 1)
    BY DEF Counted
  <2>4. fetch'.at = at + 1
    BY <1>2
  <2> HIDE DEF from, at
  <2>5. fetch'.at - 1 = at
    BY <1>5, <2>4
  <2> QED BY <2>1, <2>2, <2>3, <2>5
<1> HIDE DEF from, at
<1>7. Counted' = Counted \cup {at} /\ at \notin Counted /\ IsFiniteSet(Counted)
  <2>1. IsFiniteSet(from..(at - 1))
    BY <1>5, FS_Interval
  <2> QED BY <1>5, <1>6, <2>1
<1>8. /\ DOMAIN new = DOMAIN old \cup {who}
      /\ \A a \in DOMAIN new : new[a] = (IF a \in DOMAIN old THEN old[a] ELSE 0)
                                          + (IF a = who THEN 1 ELSE 0)
  BY DEF AddOne
<1> HIDE DEF new, old, who
<1>9. DOMAIN new = {Bodies[n].beneficiary : n \in Counted'}
  BY <1>1, <1>7, <1>8 DEF who
<1>10. ASSUME NEW a \in DOMAIN new PROVE new[a] = Cardinality(Of(Counted', a))
  <2>1. (IF a \in DOMAIN old THEN old[a] ELSE 0) = Cardinality(Of(Counted, a))
    <3>1. CASE a \in DOMAIN old
      BY <1>1, <3>1
    <3>2. CASE a \notin DOMAIN old
      <4>1. Of(Counted, a) = {}
        BY <1>1, <3>2
      <4> QED BY <3>2, <4>1, FS_EmptySet
    <3> QED BY <3>1, <3>2
  <2>2. IsFiniteSet(Of(Counted, a)) /\ Cardinality(Of(Counted, a)) \in Nat
    <3>1. Of(Counted, a) \subseteq Counted
      OBVIOUS
    <3> QED BY <1>7, <3>1, FS_Subset, FS_CardinalityType
  <2>3. CASE a = who
    <3>1. Of(Counted', a) = Of(Counted, a) \cup {at} /\ at \notin Of(Counted, a)
      BY <1>7, <2>3 DEF who
    <3>2. Cardinality(Of(Counted, a) \cup {at}) = Cardinality(Of(Counted, a)) + 1
      BY <2>2, <3>1, FS_AddElement
    <3>3. new[a] = Cardinality(Of(Counted, a)) + 1
      BY <1>8, <2>1, <2>3
    <3> QED BY <3>1, <3>2, <3>3
  <2>4. CASE a # who
    <3>1. Of(Counted', a) = Of(Counted, a)
      BY <1>7, <2>4 DEF who
    <3>2. new[a] = Cardinality(Of(Counted, a))
      BY <1>8, <2>1, <2>2, <2>4
    <3> QED BY <3>1, <3>2
  <2> QED BY <2>3, <2>4
<1>11. fetch'.at \in WindowStart(fetch'.to, fetch'.window)..(fetch'.to + 1)
  <2>1. WindowStart(fetch'.to, fetch'.window) = from
    BY <1>2 DEF from
  <2> QED BY <1>1, <1>2, <1>5, <2>1
<1>12. LeadersExact'
  BY <1>2 DEF LeadersExact, Answered
<1>13. LeaderInv'
  <2>1. \A a \in DOMAIN fetch'.counts :
          fetch'.counts[a] = Cardinality({n \in Counted' : Bodies[n].beneficiary = a})
    BY <1>2, <1>10
  <2>2. DOMAIN fetch'.counts = {Bodies[n].beneficiary : n \in Counted'}
    BY <1>2, <1>9
  <2>3. fetch'.window \in Nat \ {0} /\ fetch'.to \in 0..MaxTip
    BY <1>1, <1>2
  <2> QED BY <1>2, <1>11, <1>12, <2>1, <2>2, <2>3 DEF LeaderInv
<1> QED BY <1>2, <1>3, <1>4, <1>13, NoWalk DEF FeedInv

(* All headers counted: the board is the window's.                             *)
LEMMA SortLeadersKeeps == ASSUME FeedInv, SortLeaders PROVE FeedInv'
<1> DEFINE from == WindowStart(fetch.to, fetch.window)
           counts == fetch.counts
           m == Cardinality(DOMAIN counts)
           entries == {[address |-> a, blocks |-> counts[a]] : a \in DOMAIN counts}
           to == fetch.to
           size == IF fetch.window > to + 1 THEN to + 1 ELSE fetch.window
           window == {n \in 0..to : n + size > to}
<1>1. /\ DOMAIN fetch = FetchFields /\ fetch.pc = "headers" /\ fetch.feed = "leaders" /\ ChainInv
      /\ fetch.page \in Nat /\ fetch.per_page \in Nat \ {0} /\ fetch.window \in Nat \ {0}
      /\ to \in 0..MaxTip /\ fetch.at \in from..(to + 1) /\ fetch.at > to
      /\ DOMAIN counts = {Bodies[n].beneficiary : n \in Counted}
      /\ \A a \in DOMAIN counts : counts[a] = Cardinality({n \in Counted : Bodies[n].beneficiary = a})
  BY DEF FeedInv, FetchInv, LeaderInv, SortLeaders
<1>2. PICK s \in SortedEntries(counts) : fetch' = [fetch EXCEPT !.pc = "done", !.items = s]
  BY DEF SortLeaders
<1>3. /\ DOMAIN fetch' = FetchFields /\ fetch'.pc = "done" /\ fetch'.feed = "leaders"
      /\ fetch'.items = s /\ fetch'.to = to /\ fetch'.window = fetch.window
      /\ fetch'.page = fetch.page /\ fetch'.per_page = fetch.per_page
  BY <1>1, <1>2 DEF FetchFields
<1>4. ChainInv'
  BY <1>1, ChainStands DEF SortLeaders
<1>5. FetchInv'
  BY <1>1, <1>3 DEF FetchInv
<1>6. Counted = window
  <2>1. to \in Nat
    BY <1>1, FeedAssumption
  <2>2. from \in 0..to /\ \A n \in 0..to : n >= from <=> n + size > to
    BY <1>1, <2>1, WindowInChain
  <2>3. Counted = from..(fetch.at - 1)
    BY DEF Counted
  <2> HIDE DEF from, size
  <2>4. fetch.at = to + 1
    BY <1>1, <2>1, <2>2
  <2> QED BY <2>1, <2>2, <2>3, <2>4
<1>7. /\ DOMAIN s = 1..m /\ \A i \in 1..m : s[i] \in entries
      /\ \A e \in entries : \E i \in 1..m : e = s[i]
      /\ \A i, j \in 1..m : i < j => RanksBefore(s[i], s[j])
  BY DEF SortedEntries
<1> HIDE DEF m
<1>8. \A e \in entries : e.address \in DOMAIN counts /\ e.blocks = counts[e.address]
  OBVIOUS
<1>9. {s[i].address : i \in DOMAIN s} = DOMAIN counts
  <2>1. \A a \in DOMAIN counts : \E i \in 1..m : a = s[i].address
    <3> TAKE a \in DOMAIN counts
    <3> DEFINE e == [address |-> a, blocks |-> counts[a]]
    <3>1. e \in entries /\ e.address = a
      OBVIOUS
    <3> QED BY <1>7, <3>1
  <2> QED BY <1>7, <1>8, <2>1
<1> HIDE DEF entries, window, counts, to, size
<1>10. \A i \in DOMAIN s :
         /\ s[i].blocks = Cardinality({n \in window : Bodies[n].beneficiary = s[i].address})
         /\ \A j \in DOMAIN s : i < j => RanksBefore(s[i], s[j])
  BY <1>1, <1>6, <1>7, <1>8
<1>11. {s[i].address : i \in DOMAIN s} = {Bodies[n].beneficiary : n \in window}
  BY <1>1, <1>6, <1>9
<1>12. BoardExact(s, to, fetch.window)
  BY <1>10, <1>11 DEF BoardExact, window, size
<1>13. LeaderInv'
  <2>1. LeadersExact'
    BY <1>3, <1>12 DEF LeadersExact
  <2> QED BY <1>1, <1>3, <2>1 DEF LeaderInv
<1> QED BY <1>3, <1>4, <1>5, <1>13, NoWalk DEF FeedInv

LEMMA FeedStepKeeps == FeedInv /\ [FeedNext]_feedVars => FeedInv'
<1> SUFFICES ASSUME FeedInv, [FeedNext]_feedVars PROVE FeedInv'
  OBVIOUS
<1>1. CASE Commit \/ Index \/ UNCHANGED feedVars
  BY <1>1, ChainGrows
<1>2. CASE \E feed \in {"blocks", "txs", "typed"} : List(feed)
  BY <1>2, ListKeeps DEF ListFeeds
<1>3. CASE ReadTotal \/ ReadBlocks \/ ReadTxs
  BY <1>3, ReadTotalKeeps, ReadBlocksKeeps, ReadTxsKeeps
<1>4. CASE ReadTypedPage \/ ReadTypedCount \/ HydratePage
  BY <1>4, ReadTypedPageKeeps, ReadTypedCountKeeps, HydratePageKeeps
<1>5. CASE Leaders \/ ReadLeaderTip \/ CountHeader \/ SortLeaders
  BY <1>5, LeadersKeeps, ReadLeaderTipKeeps, CountHeaderKeeps, SortLeadersKeeps
<1>6. CASE NextPage
  BY <1>6, NextPageKeeps
<1>7. CASE FinishFetch
  <2>1. fetch' = NoFetch /\ ChainInv'
    BY <1>7, ChainStands DEF FinishFetch, FeedInv
  <2> QED BY <2>1, NoFetchGood
<1> QED BY <1>1, <1>2, <1>3, <1>4, <1>5, <1>6, <1>7 DEF FeedNext

LEMMA FeedInvariant == FeedSpec => []FeedInv
BY FeedInitInv, FeedStepKeeps, PTL DEF FeedSpec

-----------------------------------------------------------------------------
(* The pages of /blocks and /txs are the slices of the feed their totals name, *)
(* and a row's gas is its transaction's own, for every chain, page and page    *)
(* size, though blocks arrive between the total and the rows (blocks_page,     *)
(* latest_txs_page, hydrate_pointers).                                         *)
THEOREM PagesAreSlices == FeedSpec => []PageIsSlice
<1>1. FeedInv => PageIsSlice
  <2> SUFFICES ASSUME FeedInv PROVE PageIsSlice
    OBVIOUS
  <2> DEFINE total == fetch.total
             slice == Slice(total, fetch.page, fetch.per_page)
  <2>1. ASSUME fetch.pc = "done", fetch.feed \in ListFeeds
        PROVE  \E held \in 0..Size(fetch.feed) :
                 /\ fetch.items = PageOf(held) /\ (fetch.feed # "typed" => held = total)
    BY <2>1 DEF FeedInv, WalkInv, PageOf
  <2>2. ASSUME fetch.pc = "done", fetch.feed \in {"blocks", "txs"}
        PROVE  /\ total \in 0..Size(fetch.feed) /\ fetch.items = PageOf(total)
               /\ slice = [i \in Shown(total) |-> total - Offset - i]
               /\ \A i \in Shown(total) : slice[i] \in 0..(total - 1)
               /\ total \in Nat /\ Size(fetch.feed) \in Nat
    <3>1. total \in 0..Size(fetch.feed) /\ fetch.items = PageOf(total)
      BY <2>1, <2>2 DEF ListFeeds
    <3>2. Size(fetch.feed) \in 0..MAX_U64 /\ MAX_U64 \in Nat
      BY <2>2, SizeInRange, PagingAssumption DEF FeedInv, ListFeeds
    <3>3. total \in 0..MAX_U64 /\ total \in Nat
      BY <3>1, <3>2
    <3>4. fetch.page \in Nat /\ fetch.per_page \in Nat \ {0}
      BY DEF FeedInv, FetchInv
    <3>5. slice = [i \in Shown(total) |-> total - Offset - i]
      <4> DEFINE items == desc_page_items(total, fetch.page, fetch.per_page)
      <4> HIDE DEF total
      <4>1. slice = items /\ items = [i \in 1..clamp(total - fetch.page * fetch.per_page, 0, fetch.per_page)
                                       |-> total - fetch.page * fetch.per_page - i]
        BY <3>3, <3>4, ItemsAreSlice
      <4> HIDE DEF items
      <4> QED BY <4>1 DEF Shown, Offset
    <3>6. \A i \in Shown(total) : total - Offset - i \in 0..(total - 1)
      BY <3>3, ShownInFeed DEF FeedInv
    <3> QED BY <3>1, <3>2, <3>3, <3>5, <3>6
  <2>3. Answered("blocks") => fetch.items = slice
    <3> SUFFICES ASSUME Answered("blocks") PROVE fetch.items = slice
      OBVIOUS
    <3>1. fetch.pc = "done" /\ fetch.feed = "blocks"
      BY DEF Answered
    <3> HIDE DEF slice
    <3> QED BY <2>2, <3>1 DEF PageOf, ShownItem, Item
  <2>4. Answered("txs") => [i \in DOMAIN fetch.items |-> Key("txs", fetch.items[i])]
                             = [i \in DOMAIN slice |-> TxTable(tip)[slice[i] + 1]]
    <3> SUFFICES ASSUME Answered("txs")
                 PROVE  [i \in DOMAIN fetch.items |-> Key("txs", fetch.items[i])]
                          = [i \in DOMAIN slice |-> TxTable(tip)[slice[i] + 1]]
      OBVIOUS
    <3>1. fetch.pc = "done" /\ fetch.feed = "txs" /\ Size(fetch.feed) = TxCount(tip)
      BY DEF Answered, Size
    <3>2. /\ total \in 0..TxCount(tip) /\ fetch.items = PageOf(total) /\ total \in Nat
          /\ slice = [i \in Shown(total) |-> total - Offset - i] /\ TxCount(tip) \in Nat
          /\ \A i \in Shown(total) : slice[i] \in 0..(total - 1)
      BY <2>2, <3>1
    <3> HIDE DEF slice, total
    <3>3. DOMAIN fetch.items = Shown(total) /\ DOMAIN slice = Shown(total)
      BY <3>2 DEF PageOf
    <3>4. ASSUME NEW i \in Shown(total)
          PROVE  Key("txs", fetch.items[i]) = TxTable(tip)[slice[i] + 1]
      <4>1. slice[i] \in 0..(TxCount(tip) - 1)
        BY <3>2
      <4>2. TxTable(tip)[slice[i] + 1] = TxAt(slice[i])
        BY <3>2, <4>1, TableEntry
      <4>3. Key("txs", fetch.items[i]) = ShownItem(total, i)
        BY <3>1, <3>2, ShownKeys DEF ListFeeds
      <4>4. ShownItem(total, i) = TxAt(slice[i])
        BY <3>1, <3>2 DEF ShownItem, Item
      <4> QED BY <4>2, <4>3, <4>4
    <3> QED BY <3>3, <3>4
  <2>5. ASSUME Answered("txs") \/ Answered("typed"), NEW i \in DOMAIN fetch.items
        PROVE  LET row == fetch.items[i]
               IN  row.gas_used = Bodies[row.block_number].gas[row.tx_index + 1]
    <3>1. fetch.pc = "done" /\ fetch.feed \in ListFeeds /\ fetch.feed # "blocks"
      BY <2>5 DEF Answered, ListFeeds
    <3>2. PICK held \in 0..Size(fetch.feed) : fetch.items = PageOf(held)
      BY <2>1, <3>1
    <3>3. i \in Shown(held)
      BY <2>5, <3>2 DEF PageOf
    <3> QED BY <3>1, <3>2, <3>3, ShownKeys
  <2> QED BY <2>3, <2>4, <2>5 DEF PageIsSlice
<1> QED BY <1>1, FeedInvariant, PTL

(* A walk to the empty page shows all the feed held when it began, and fails   *)
(* only at an offset SQLite cannot bind, for every chain that grows, and every *)
(* index that follows it, while the client reads.                              *)
THEOREM WalksMissNothing == FeedSpec => []FeedWalkMissesNothing
<1>1. FeedInv => FeedWalkMissesNothing
  <2> SUFFICES ASSUME FeedInv PROVE FeedWalkMissesNothing
    OBVIOUS
  <2>1. fetch.pc = "error" => fetch.feed = "typed" /\ ~Bindable(page_offset(fetch.page, fetch.per_page))
    BY DEF FeedInv, WalkInv
  <2>2. ASSUME fetch.pc = "done", fetch.feed \in ListFeeds, fetch.items = <<>>
        PROVE  fetch.owed \subseteq fetch.seen
    <3>1. PICK held \in 0..Size(fetch.feed) : Remaining(held) /\ fetch.items = PageOf(held)
      BY <2>2 DEF FeedInv, WalkInv, PageOf
    <3>2. held \in Nat /\ FetchInv /\ fetch.per_page \in Nat \ {0}
      BY <2>2, SizeInRange, PagingAssumption DEF FeedInv, FetchInv
    <3>3. Offset \in Nat /\ 1..clamp(held - Offset, 0, fetch.per_page) = {}
      <4>1. DOMAIN fetch.items = Shown(held)
        BY <3>1 DEF PageOf
      <4>2. Shown(held) = {}
        BY <2>2, <4>1
      <4> QED BY <3>2, <4>2, ShownInFeed DEF Shown
    <3> HIDE DEF Offset
    <3>4. held <= Offset
      <4> SUFFICES ASSUME Offset < held PROVE FALSE
        BY <3>2, <3>3
      <4>1. 1 \in 1..clamp(held - Offset, 0, fetch.per_page)
        BY <3>2, <3>3 DEF clamp
      <4> QED BY <3>3, <4>1
    <3>5. \A k \in 0..(held - 1) : ~(Offset <= held - 1 - k)
      BY <3>2, <3>3, <3>4
    <3> QED BY <3>1, <3>5 DEF Remaining
  <2> QED BY <2>1, <2>2 DEF FeedWalkMissesNothing, Answered, ListFeeds
<1> QED BY <1>1, FeedInvariant, PTL

(* The leader board counts each block of its window once, and ranks it, for    *)
(* every chain, window and beneficiaries (leader_counts).                      *)
THEOREM LeaderBoardExact == FeedSpec => []LeadersExact
<1>1. FeedInv => LeadersExact
  BY DEF FeedInv, LeaderInv
<1> QED BY <1>1, FeedInvariant, PTL
=============================================================================
