----------------------------- MODULE EpochReads -----------------------------
(* The routes over the node's consensus store and epoch records (src/api.rs,   *)
(* src/node_reads.rs): /epochs, /consensus/epochs and their details,           *)
(* /consensus/latest, /consensus/blocks, the consensus number of /blocks/{n}   *)
(* and /epochs/current. A handler is a chain of awaits - the in-memory         *)
(* counters, the record store, the packs, the EVM state - and the node writes  *)
(* outputs, records, certificates and blocks between any two of them.          *)
(*                                                                             *)
(* The node is external, modelled from what src/ says of it: an output is      *)
(* written to its epoch's pack, then counted; record N is written while N is   *)
(* still the latest epoch, before the first output of N + 1; a chain started   *)
(* from genesis has a seeded record 0; packs of old epochs may be missing.     *)
(* An Option is a set of at most one value.                                    *)
EXTENDS Paging, FiniteSets

CONSTANTS
    MaxOutput,   \* bound: the last consensus output
    EpochOf,     \* output -> epoch
    Closing,     \* sealed epoch -> its closing output
    LastBlock,   \* output (and 0) -> the last block executed when it is
    Keys,        \* epoch -> the committee's BLS keys
    Seated,      \* epoch -> the committee addresses when the epoch began
    Burns,       \* [block, validator]: removed from the registry at that block
    Starts       \* the latest output when the observer starts

ASSUME EpochAssumption ==
    /\ MaxOutput \in Nat \ {0}
    /\ Starts \subseteq 0..MaxOutput

(* External (consensus): epochs follow one another, each closed by the last of *)
(* its outputs.                                                                *)
ASSUME EpochsInOrder ==
    /\ EpochOf \in [1..MaxOutput -> Nat]
    /\ DOMAIN Closing \subseteq Nat
    /\ \A o \in 1..MaxOutput : 0..(EpochOf[o] - 1) \subseteq DOMAIN Closing
    /\ \A e \in DOMAIN Closing :
         /\ Closing[e] \in 1..(MaxOutput - 1)
         /\ EpochOf[Closing[e]] = e /\ EpochOf[Closing[e] + 1] = e + 1
         /\ \A o \in 1..MaxOutput : o <= Closing[e] <=> EpochOf[o] <= e

(* External (engine): outputs execute in order, some of them without a block,  *)
(* the closing ones with one (src/extract.rs:150: "the empty epoch-closing     *)
(* block"), and every block past genesis is an output's.                       *)
ASSUME BlocksInOrder ==
    /\ LastBlock \in [0..MaxOutput -> Nat] /\ LastBlock[0] = 0
    /\ \A o, p \in 0..MaxOutput : o <= p => LastBlock[o] <= LastBlock[p]
    /\ \A b \in 1..LastBlock[MaxOutput] :
         \E o \in 1..MaxOutput : LastBlock[o - 1] < b /\ b <= LastBlock[o]
    /\ \A e \in DOMAIN Closing : LastBlock[Closing[e] - 1] < LastBlock[Closing[e]]

(* External (registry): nobody removed before an epoch began is seated in it.  *)
ASSUME SeatsAreLive ==
    \A x \in Burns :
       /\ x.block \in Nat \ {0}
       /\ \A e \in DOMAIN Closing :
            x.block <= LastBlock[Closing[e]] => x.validator \notin Seated[e + 1]

VARIABLES
    tail,       \* the last output in the packs
    latest,     \* latest_consensus_number()
    canonical,  \* the canonical tip, in memory
    committed,  \* last_block_number(): the tip of the committed database
    records,    \* epochs with a record of their own
    certs,      \* epochs with a certificate
    missing,    \* sealed epochs whose pack this observer does not hold
    req

node == <<tail, latest, canonical, committed, records, certs, missing>>
vars == <<node, req>>

-----------------------------------------------------------------------------
(* The node.                                                                   *)

Blocks == 0..LastBlock[MaxOutput]

latest_consensus_epoch == IF latest = 0 THEN 0 ELSE EpochOf[latest]

Record(e) == [epoch |-> e, final_consensus |-> Closing[e],
              final_state |-> LastBlock[Closing[e]],
              committee |-> Keys[e], next_committee |-> Keys[e + 1]]

(* The record a chain started from genesis has before epoch 0 closes.          *)
SeededRecord == [epoch |-> 0, final_consensus |-> 0, final_state |-> 0,
                 committee |-> Keys[0], next_committee |-> {}]

record_by_epoch(e) ==
    IF e \in records THEN {Record(e)} ELSE IF e = 0 THEN {SeededRecord} ELSE {}

(* The epoch's own record, else the predecessor's next committee.              *)
committee_keys(e) ==
    IF record_by_epoch(e) # {} THEN {r.committee : r \in record_by_epoch(e)}
    ELSE {r.next_committee : r \in record_by_epoch(e - 1)}

(* consensus_{header,output}_by_number. A miss in the current epoch is an      *)
(* error, a pack of a sealed epoch that is not there is a miss.                *)
PackRead(number) ==
    CASE number > tail -> "err"
      [] number <= tail /\ EpochOf[number] \in missing -> "none"
      [] OTHER -> "some"

OutputOfBlock(b) == CHOOSE o \in 1..MaxOutput : LastBlock[o - 1] < b /\ b <= LastBlock[o]

(* The registry: the closing block of an epoch seats the next committee.       *)
RegistryEpoch(b) == Cardinality({e \in DOMAIN Closing : LastBlock[Closing[e]] <= b})
CommitteeAt(b) == Seated[RegistryEpoch(b)] \ {v.validator : v \in {x \in Burns : x.block <= b}}

TimeOf(b) == 10 * b

SavePack ==
    /\ tail = latest /\ tail < MaxOutput
    /\ tail \in {Closing[e] : e \in DOMAIN Closing} => EpochOf[tail] \in records
    /\ tail' = tail + 1
    /\ UNCHANGED <<latest, canonical, committed, records, certs, missing, req>>

AckPack ==
    /\ latest < tail /\ latest' = tail
    /\ UNCHANGED <<tail, canonical, committed, records, certs, missing, req>>

Execute ==
    /\ canonical < LastBlock[latest] /\ canonical' = canonical + 1
    /\ UNCHANGED <<tail, latest, committed, records, certs, missing, req>>

Persist ==
    /\ committed < canonical /\ committed' = committed + 1
    /\ UNCHANGED <<tail, latest, canonical, records, certs, missing, req>>

WriteRecord(e) ==
    /\ e \notin records /\ latest = Closing[e] /\ tail = latest
    /\ canonical = LastBlock[latest]
    /\ records' = records \cup {e}
    /\ UNCHANGED <<tail, latest, canonical, committed, certs, missing, req>>

WriteCertificate(e) ==
    /\ e \in records \ certs /\ e < latest_consensus_epoch
    /\ certs' = certs \cup {e}
    /\ UNCHANGED <<tail, latest, canonical, committed, records, missing, req>>

-----------------------------------------------------------------------------
(* Epoch rows. A request works through todo; a row is finished by three reads, *)
(* the fields that need the EVM or a pack follow for the whole answer.         *)

Idle == [pc |-> "idle", route |-> "none", detail |-> FALSE, current |-> 0, base |-> 0,
         todo |-> <<>>, this |-> {}, previous |-> {}, rows |-> <<>>, pin |-> {},
         number |-> 0, shown |-> <<>>, closes |-> {}, keys |-> {}, tip |-> 0]

Init ==
    \E start \in Starts :
      /\ tail = start /\ latest = start
      /\ canonical = LastBlock[start] /\ committed = LastBlock[start]
      /\ records = {e \in DOMAIN Closing : Closing[e] < start}
      /\ certs \in {{}, records}
      /\ missing \in SUBSET records
      /\ req = Idle

(* A list of epochs: one snapshot of the current epoch for the whole page.     *)
EpochList(route) ==
    /\ req.pc = "idle"
    /\ \E page \in Pages, requested \in PageSizes :
         LET current == latest_consensus_epoch
             todo == desc_page_items(current + 1, page, clamp_per_page(requested)) IN
         req' = [Idle EXCEPT !.pc = IF todo = <<>> THEN "done" ELSE "this", !.route = route,
                             !.current = current, !.base = committed, !.todo = todo]
    /\ UNCHANGED node

epochs_list == EpochList("epochs")
consensus_epochs_list == EpochList("consensus")

(* One epoch: past the current one is a 404, before any read.                  *)
EpochDetail(route) ==
    /\ req.pc = "idle"
    /\ \E n \in 0..(EpochOf[MaxOutput] + 1) :
         LET current == latest_consensus_epoch IN
         req' = [Idle EXCEPT !.pc = IF n > current THEN "not_found" ELSE "this",
                             !.route = route, !.detail = TRUE, !.current = current,
                             !.base = committed,
                             !.todo = IF n > current THEN <<>> ELSE <<n>>]
    /\ UNCHANGED node

epoch_by_number == EpochDetail("epochs")
consensus_epoch == EpochDetail("consensus")

(* Mutant of ShowRecord: the record of the current epoch is shown as well.     *)
ShowAnyRecord(record, epoch, current) == record

(* this.filter(|_| !is_current)                                                *)
ShowRecord(record, epoch, current) == {r \in record : epoch # current}

(* epoch_record_pair: get_epoch_by_number, record and certificate together ... *)
ReadThis ==
    /\ req.pc = "this"
    /\ LET e == Head(req.todo) IN
       req' = [req EXCEPT !.pc = "previous",
                          !.this = {[record |-> r, certified |-> e \in certs] :
                                      r \in ShowRecord(record_by_epoch(e), e, req.current)}]
    /\ UNCHANGED node

(* ... then the predecessor's record.                                          *)
ReadPrevious ==
    /\ req.pc = "previous"
    /\ LET e == Head(req.todo) IN
       req' = [req EXCEPT !.pc = "keys",
                          !.previous = IF e = 0 THEN {} ELSE record_by_epoch(e - 1)]
    /\ UNCHANGED node

(* Mutant of First: the predecessor's last number itself.                      *)
FirstIsPrevious(e, ofZero, afterPrevious) ==
    IF e = 0 THEN {ofZero} ELSE {x - 1 : x \in afterPrevious}

(* The first number of a range: of epoch 0, after the predecessor's last, or   *)
(* unknown. /epochs shows 0 instead of unknown.                                *)
First(e, ofZero, afterPrevious) ==
    IF e = 0 THEN {ofZero}
    ELSE IF afterPrevious = {} /\ req.route = "epochs" THEN {0} ELSE afterPrevious

(* committee_bls, and the row is built.                                        *)
FinishRow ==
    /\ req.pc = "keys"
    /\ LET e == Head(req.todo)
           row == [epoch |-> e, is_current |-> e = req.current,
                   certified |-> \E t \in req.this : t.certified,
                   exec_first |-> First(e, 0, {p.final_state + 1 : p \in req.previous}),
                   exec_last |-> {t.record.final_state : t \in req.this},
                   consensus_first |-> First(e, 1, {p.final_consensus + 1 : p \in req.previous}),
                   consensus_last |-> {t.record.final_consensus : t \in req.this},
                   committee_bls |-> IF req.this # {}
                                     THEN UNION {t.record.committee : t \in req.this}
                                     ELSE UNION committee_keys(e),
                   end_time |-> {}, addresses |-> {}, pack_complete |-> {}, rounds |-> FALSE]
       IN  req' = [req EXCEPT !.pc = CASE Len(req.todo) > 1 -> "this"
                                       [] req.detail /\ req.route = "consensus" -> "pin"
                                       [] OTHER -> "times",
                              !.todo = Tail(@), !.rows = Append(@, row),
                              !.this = {}, !.previous = {}]
    /\ UNCHANGED node

(* header_timestamps: the end blocks of all rows in one read. The last read of *)
(* every route but /epochs/{n}, which goes on to the addresses.                *)
ReadTimes ==
    /\ req.pc = "times"
    /\ req' = [req EXCEPT !.pc = IF req.detail /\ req.route = "epochs" THEN "pin" ELSE "done",
                          !.rows = [i \in DOMAIN req.rows |->
                             [req.rows[i] EXCEPT !.end_time =
                                {TimeOf(b) : b \in {x \in req.rows[i].exec_last :
                                                      x <= committed}}]]]
    /\ UNCHANGED node

(* Mutant of CommitteePin: the registry is read at the committed tip.          *)
CommitteeTip(e) == {committed}

(* committee_addresses: the block that seated the committee - genesis, or the  *)
(* predecessor's final block, by a record read of its own.                     *)
CommitteePin(e) ==
    IF e = 0 THEN {0} ELSE {r.final_state : r \in record_by_epoch(e - 1)}

ReadPin ==
    /\ req.pc = "pin"
    /\ req' = [req EXCEPT !.pc = "registry", !.pin = CommitteePin(req.rows[1].epoch)]
    /\ UNCHANGED node

(* The registry at the pin, unless the block is missing or is of another epoch.*)
ReadRegistry ==
    /\ req.pc = "registry"
    /\ req' = [req EXCEPT !.pc = IF req.route = "consensus" THEN "pack" ELSE "done",
                          !.rows[1].addresses =
                             {CommitteeAt(b) : b \in {x \in req.pin :
                                /\ x <= committed
                                /\ RegistryEpoch(x) = req.rows[1].epoch}}]
    /\ UNCHANGED node

(* epoch_pack_complete, epoch_last_committed, epoch_final_reputation.          *)
ReadPackFields ==
    /\ req.pc = "pack"
    /\ LET e == req.rows[1].epoch IN
       req' = [req EXCEPT !.pc = "times",
                          !.rows[1].pack_complete =
                             {PackRead(o) = "some" : o \in req.rows[1].consensus_last},
                          !.rows[1].rounds =
                             e <= latest_consensus_epoch /\ e \notin missing]
    /\ UNCHANGED node

-----------------------------------------------------------------------------
(* /consensus/blocks/{number} (and /batches): the bound is checked before any  *)
(* pack is touched.                                                            *)
OutputDetail ==
    /\ req.pc = "idle"
    /\ \E number \in 0..(MaxOutput + 1) :
         req' = [Idle EXCEPT !.pc = IF consensus_number_stored(number, latest) THEN "output"
                                    ELSE "not_found",
                             !.route = "output", !.number = number]
    /\ UNCHANGED node

ReadOutput ==
    /\ req.pc = "output"
    /\ LET found == PackRead(req.number) IN
       req' = [req EXCEPT !.pc = CASE found = "some" -> "closes"
                                   [] found = "none" -> "not_found"
                                   [] OTHER -> "error",
                          !.shown = IF found = "some" THEN <<req.number>> ELSE <<>>]
    /\ UNCHANGED node

(* Mutant of ReadCloses: an existing record is taken to be this output's.      *)
ReadClosesAny ==
    /\ req.pc = "closes"
    /\ req' = [req EXCEPT !.pc = "committee",
                          !.closes = {TRUE : r \in record_by_epoch(EpochOf[req.number])}]
    /\ UNCHANGED node

(* closes_epoch, from the epoch record if there is one.                        *)
ReadCloses ==
    /\ req.pc = "closes"
    /\ req' = [req EXCEPT !.pc = "committee",
                          !.closes = {r.final_consensus = req.number :
                                        r \in record_by_epoch(EpochOf[req.number])}]
    /\ UNCHANGED node

ReadCommittee ==
    /\ req.pc = "committee"
    /\ req' = [req EXCEPT !.pc = "done", !.keys = UNION committee_keys(EpochOf[req.number])]
    /\ UNCHANGED node

(* Mutant of LatestShown: the newest header of the pack.                       *)
LatestInPack == tail

(* consensus_latest_header reads by the counter, not the pack's own tail.      *)
LatestShown == latest

(* /consensus/latest: 404 before the first output. Then the canonical tip.     *)
LatestOutput ==
    /\ req.pc = "idle"
    /\ req' = [Idle EXCEPT !.pc = IF LatestShown = 0 THEN "not_found" ELSE "header",
                           !.route = "latest", !.number = LatestShown]
    /\ UNCHANGED node

ReadHeader ==
    /\ req.pc = "header"
    /\ req' = [req EXCEPT !.pc = IF PackRead(req.number) = "err" THEN "error" ELSE "tip",
                          !.shown = IF PackRead(req.number) = "some" THEN <<req.number>> ELSE <<>>]
    /\ UNCHANGED node

ReadTip ==
    /\ req.pc = "tip"
    /\ req' = [req EXCEPT !.pc = IF req.shown = <<>> THEN "not_found" ELSE "done",
                          !.tip = canonical]
    /\ UNCHANGED node

(* /consensus/blocks: the numbers of the page, then one header read each.      *)
OutputList ==
    /\ req.pc = "idle"
    /\ \E page \in Pages, requested \in PageSizes :
         LET todo == consensus_page_numbers(latest, page, clamp_per_page(requested)) IN
         req' = [Idle EXCEPT !.pc = IF todo = <<>> THEN "done" ELSE "headers",
                             !.route = "outputs", !.number = latest, !.todo = todo]
    /\ UNCHANGED node

(* A header that is not held is skipped, an error fails the page.              *)
ReadNextHeader ==
    /\ req.pc = "headers"
    /\ LET found == PackRead(Head(req.todo)) IN
       req' = IF found = "err" THEN [req EXCEPT !.pc = "error"]
              ELSE [req EXCEPT !.pc = IF Len(req.todo) > 1 THEN "headers" ELSE "done",
                               !.todo = Tail(@),
                               !.shown = IF found = "some" THEN Append(@, Head(req.todo)) ELSE @]
    /\ UNCHANGED node

(* /blocks/{number}: the block, whose header names epoch and digest.           *)
BlockDetail ==
    /\ req.pc = "idle"
    /\ \E b \in Blocks :
         req' = [Idle EXCEPT !.pc = CASE b > committed -> "not_found"
                                      [] b = 0 -> "done"
                                      [] OTHER -> "resolve",
                             !.route = "block", !.number = b]
    /\ UNCHANGED node

PastTipEpoch(e) == e > latest_consensus_epoch

(* consensus_number_by_digest, in the pack of the header's epoch. A failure is *)
(* logged, and the block is served without the number.                         *)
ResolveNumber ==
    /\ req.pc = "resolve"
    /\ LET o == OutputOfBlock(req.number) IN
       req' = [req EXCEPT !.pc = "done",
                          !.shown = IF PastTipEpoch(EpochOf[o]) \/ PackRead(o) # "some" THEN <<>>
                                    ELSE <<o>>]
    /\ UNCHANGED node

(* /epochs/current: the registry at the canonical tip, then last_block_number. *)
EpochCurrent ==
    /\ req.pc = "idle"
    /\ req' = [Idle EXCEPT !.pc = "current_tip", !.route = "current", !.base = canonical,
                           !.current = RegistryEpoch(canonical)]
    /\ UNCHANGED node

ReadLastBlock ==
    /\ req.pc = "current_tip"
    /\ req' = [req EXCEPT !.pc = "done", !.tip = committed]
    /\ UNCHANGED node

Finish ==
    /\ req.pc \in {"done", "not_found", "error"}
    /\ req' = Idle
    /\ UNCHANGED node

NodeStep ==
    \/ SavePack \/ AckPack \/ Execute \/ Persist
    \/ \E e \in DOMAIN Closing : WriteRecord(e) \/ WriteCertificate(e)

EpochRoutes ==
    \/ epochs_list \/ epoch_by_number \/ consensus_epochs_list \/ consensus_epoch
    \/ ReadThis \/ ReadPrevious \/ FinishRow \/ ReadTimes
    \/ ReadPin \/ ReadRegistry \/ ReadPackFields
    \/ EpochCurrent \/ ReadLastBlock

OutputRoutes ==
    \/ OutputDetail \/ ReadOutput \/ ReadCloses \/ ReadCommittee
    \/ LatestOutput \/ ReadHeader \/ ReadTip
    \/ OutputList \/ ReadNextHeader
    \/ BlockDetail \/ ResolveNumber

Next == NodeStep \/ EpochRoutes \/ OutputRoutes \/ Finish

Spec == Init /\ [][Next]_vars

-----------------------------------------------------------------------------
Done(routes) == req.pc = "done" /\ req.route \in routes

(* The first block and the first output of an epoch.                           *)
FirstBlock(e) == IF e = 0 THEN 0 ELSE LastBlock[Closing[e - 1]] + 1
FirstOutput(e) == IF e = 0 THEN 1 ELSE Closing[e - 1] + 1

(* Every row of an epoch answer has the true ranges and the committee keys of  *)
(* its epoch, the one in progress included, whatever the node writes between   *)
(* the snapshot of the current epoch and the reads of the records (epoch_row,  *)
(* consensus_epoch_row, committee_bls).                                        *)
EpochRowsExact ==
    Done({"epochs", "consensus"}) =>
      \A i \in DOMAIN req.rows :
         LET row == req.rows[i] IN
         /\ row.exec_first = {FirstBlock(row.epoch)}
         /\ row.consensus_first = {FirstOutput(row.epoch)}
         /\ row.committee_bls = Keys[row.epoch]
         /\ ~row.is_current => /\ row.exec_last = {LastBlock[Closing[row.epoch]]}
                               /\ row.consensus_last = {Closing[row.epoch]}

(* "is_current and end_block never disagree" (epoch_row): the current epoch    *)
(* has no end, no certificate and no end time, and every other epoch has its   *)
(* end, with its time if the block was in the database when the request began. *)
CurrentIffOpen ==
    Done({"epochs", "consensus"}) =>
      \A i \in DOMAIN req.rows :
         LET row == req.rows[i] IN
         /\ row.is_current <=> row.exec_last = {}
         /\ row.is_current => row.end_time = {} /\ ~row.certified
         /\ \A b \in row.exec_last : b <= req.base => row.end_time = {TimeOf(b)}

(* The addresses of /epochs/{n} are the committee seated when epoch n began,   *)
(* not what a later burn or a later epoch left of it, and they are there when  *)
(* the pin block was (committee_addresses).                                    *)
PinnedCommittee ==
    Done({"epochs", "consensus"}) /\ req.detail =>
      LET row == req.rows[1] IN
      /\ row.addresses \subseteq {Seated[row.epoch]}
      /\ FirstBlock(row.epoch) <= req.base + 1 => row.addresses # {}

(* "there is no tip race to tolerate": while outputs are being written, no     *)
(* request for an output or a page of outputs ends as an internal error.       *)
NoTipRace == req.pc # "error"

(* A number the API shows is one it answers for: never past the counter its    *)
(* own bounds check uses, and a pack shown as complete has all its outputs     *)
(* (consensus_latest_header, consensus_headers_page, pack_complete). A block   *)
(* shows the output that executed it, unless its pack is not held              *)
(* (consensus_number_by_digest).                                               *)
ShownIsReachable ==
    /\ req.pc = "done" => \A i \in DOMAIN req.shown :
         consensus_number_stored(req.shown[i], latest) /\ PackRead(req.shown[i]) = "some"
    /\ Done({"consensus"}) => \A i \in DOMAIN req.rows :
         TRUE \in req.rows[i].pack_complete =>
           \A o \in FirstOutput(req.rows[i].epoch)..Closing[req.rows[i].epoch] :
              PackRead(o) = "some"
    /\ Done({"block"}) /\ req.number > 0 =>
         LET o == OutputOfBlock(req.number) IN
         req.shown = IF EpochOf[o] \in missing THEN <<>> ELSE <<o>>

(* An output carries the keys of its own epoch's committee, and closes_epoch   *)
(* is never true of an output that is not the last, nor, past epoch 0, false   *)
(* of the one that is (consensus_block, committee_keys).                       *)
OutputExact ==
    Done({"output"}) =>
      LET last == \E e \in DOMAIN Closing : Closing[e] = req.number IN
      /\ req.keys = Keys[EpochOf[req.number]]
      /\ TRUE \in req.closes => last
      /\ FALSE \in req.closes /\ EpochOf[req.number] > 0 => ~last
=============================================================================
