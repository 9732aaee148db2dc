---------------------------- MODULE IndexerProofs ----------------------------
(* Safety of the indexing loop for every chain and every height: the committed *)
(* index is an exact prefix of the chain, through replay, live segments, lag,  *)
(* loop errors, shutdown, crashes and lost commits.                            *)
EXTENDS Indexer, StorageProofs

(* The channel delivers only what was broadcast, and that was committed first. *)
ChannelInv == delivered <= notified /\ notified <= tip

(* Not just the visible content but every content a power loss may fall back   *)
(* to is exact, and none is ahead of the visible one.                          *)
DiskInv == \A d \in wal : Exact(d) /\ d.last_indexed <= Cursor

(* The block in hand is never beyond the cursor's successor nor the tip, and   *)
(* is at or below the cursor once its transaction has run.                     *)
SegmentInv ==
    /\ pc = "replay_from" => next = Cursor + 1
    /\ pc \in {"segment", "fetch"} => next <= Cursor + 1
    /\ pc \in SegmentPCs => hi <= tip
    /\ pc \in {"fetch", "set_last_indexed", "set_node_tip"} => next <= hi
    /\ pc = "set_last_indexed" => next = Cursor
    /\ pc = "set_node_tip" => next <= Cursor

(* Unless Lagged is pending, whatever was received or dropped is indexed, or   *)
(* belongs to the segment in hand: the reason a live segment leaves no gap.    *)
DeliveryInv ==
    ~lagged => /\ pc = "live" => delivered <= Cursor
               /\ pc \in SegmentPCs => delivered <= hi \/ delivered <= Cursor

(* Every token the block needs is fetched or still to be fetched.              *)
FetchInv == pc = "fetch" => need \cup DOMAIN token_rows = Fetched(db, next)

IInv ==
    /\ TypeOK
    /\ ChannelInv
    /\ DiskInv
    /\ NeverAhead
    /\ SegmentInv
    /\ DeliveryInv
    /\ FetchInv

-----------------------------------------------------------------------------
(* The program starts with an exact (empty) file and nothing in hand.          *)
LEMMA InitIInv == Init => IInv
<1> SUFFICES ASSUME Init PROVE IInv
  OBVIOUS
<1>1. 0 \in Heights /\ 0 \in 0..(MaxHeight + 1)
  BY ChainAssumption DEF Heights
<1>2. EmptyDb.last_indexed = NoCursor
  BY DEF EmptyDb
<1>3. TypeOK
  BY <1>1, <1>2 DEF Init, TypeOK, StatusType, InitialStatus, NoCursor, PCs, EmptyTable
<1>4. DiskInv
  BY EmptyDbExact, <1>2 DEF Init, DiskInv, Cursor, NoCursor
<1>5. ChannelInv /\ NeverAhead /\ SegmentInv /\ DeliveryInv /\ FetchInv
  BY <1>2 DEF Init, ChannelInv, NeverAhead, SegmentInv, DeliveryInv, FetchInv, Cursor,
              NoCursor, InitialStatus, SegmentPCs
<1>6. QED
  BY <1>3, <1>4, <1>5 DEF IInv

(* The ranges the arithmetic below needs.                                      *)
LEMMA Ranges ==
    ASSUME TypeOK
    PROVE  /\ MaxHeight \in Nat
           /\ tip \in Nat /\ notified \in Nat /\ delivered \in Nat /\ tip <= MaxHeight
           /\ next \in Nat /\ hi \in Nat /\ hi <= MaxHeight
           /\ Cursor \in Int /\ -1 <= Cursor /\ Cursor <= MaxHeight
           /\ status.last_indexed \in Int /\ -1 <= status.last_indexed
           /\ status.node_tip \in Nat
           /\ finished \in Int /\ -1 <= finished
BY ChainAssumption DEF TypeOK, StatusType, Heights, NoCursor, Cursor

(* Steps of the node touch neither the file nor the loop.                      *)
LEMMA NodeStep ==
    ASSUME IInv, Execute \/ Notify \/ Overflow \/ Shutdown
    PROVE  IInv'
<1> USE Ranges DEF IInv
<1>1. CASE Execute
  BY <1>1 DEF Execute, TypeOK, ChannelInv, DiskInv, NeverAhead, SegmentInv, DeliveryInv,
              FetchInv, Cursor, diskVars, blockVars, Heights
<1>2. CASE Notify
  BY <1>2 DEF Notify, TypeOK, ChannelInv, DiskInv, NeverAhead, SegmentInv, DeliveryInv,
              FetchInv, Cursor, diskVars, blockVars, Heights
<1>3. CASE Overflow
  BY <1>3 DEF Overflow, TypeOK, ChannelInv, DiskInv, NeverAhead, SegmentInv, DeliveryInv,
              FetchInv, Cursor, diskVars, blockVars, Heights
<1>4. CASE Shutdown
  BY <1>4 DEF Shutdown, TypeOK, ChannelInv, DiskInv, NeverAhead, SegmentInv, DeliveryInv,
              FetchInv, Cursor, diskVars, blockVars, Heights
<1>5. QED
  BY <1>1, <1>2, <1>3, <1>4

(* Opening: the published height is the cursor that was read.                  *)
LEMMA StartStep ==
    ASSUME IInv, Start \/ OpenFails \/ GoLive
    PROVE  IInv'
<1> USE Ranges DEF IInv
<1>1. CASE Start
  <2>1. status' \in StatusType /\ status'.last_indexed = Cursor
    <3>1. Cursor \in Heights \cup {NoCursor} /\ 0 \in Heights
      BY ChainAssumption DEF TypeOK, Cursor, Heights
    <3>2. InitialStatus \in StatusType /\ InitialStatus.last_indexed = NoCursor
      BY <3>1 DEF InitialStatus, StatusType, NoCursor
    <3>3. CASE Cursor = NoCursor
      BY <1>1, <3>2, <3>3 DEF Start
    <3>4. CASE Cursor # NoCursor
      <4>1. status' = [InitialStatus EXCEPT !.last_indexed = Cursor]
        BY <1>1, <3>1, <3>4 DEF Start, set_last_indexed, Larger, InitialStatus, NoCursor, Heights
      <4>2. QED
        BY <4>1, <3>1, <3>2 DEF StatusType
    <3>5. QED
      BY <3>3, <3>4
  <2>2. TypeOK'
    BY <1>1, <2>1 DEF Start, TypeOK, Heights, PCs, diskVars, blockVars
  <2>3. NeverAhead'
    BY <1>1, <2>1 DEF Start, NeverAhead, Cursor, diskVars
  <2>4. (ChannelInv /\ DiskInv /\ SegmentInv /\ DeliveryInv /\ FetchInv)'
    BY <1>1 DEF Start, ChannelInv, DiskInv, SegmentInv, DeliveryInv, FetchInv, Cursor,
                SegmentPCs, diskVars, blockVars
  <2>5. QED
    BY <2>2, <2>3, <2>4
<1>2. CASE OpenFails
  BY <1>2 DEF OpenFails, TypeOK, ChannelInv, DiskInv, NeverAhead, SegmentInv, DeliveryInv,
              FetchInv, Cursor, StatusType, Heights, NoCursor, PCs, LoopPCs, SegmentPCs, nodeVars, diskVars, blockVars
<1>3. CASE GoLive
  BY <1>3 DEF GoLive, TypeOK, ChannelInv, DiskInv, NeverAhead, SegmentInv, DeliveryInv,
              FetchInv, Cursor, StatusType, Heights, NoCursor, PCs, LoopPCs, SegmentPCs, nodeVars, diskVars, blockVars,
              set_last_indexed, set_node_tip, set_live, Larger, InitialStatus
<1>4. QED
  BY <1>1, <1>2, <1>3

(* catch_up: a replay starts right after the cursor and ends at a tip that     *)
(* covers everything delivered or dropped so far.                              *)
LEMMA CatchUpStep ==
    ASSUME IInv, CatchUp \/ ReplayFrom \/ ReportProgress
    PROVE  IInv'
<1> USE Ranges DEF IInv
<1>1. CASE CatchUp
  BY <1>1 DEF CatchUp, TypeOK, ChannelInv, DiskInv, NeverAhead, SegmentInv, DeliveryInv,
              FetchInv, Cursor, StatusType, Heights, NoCursor, PCs, LoopPCs, SegmentPCs, nodeVars, diskVars, blockVars,
              set_last_indexed, set_node_tip, set_live, Larger, InitialStatus
<1>2. CASE ReplayFrom
  BY <1>2 DEF ReplayFrom, TypeOK, ChannelInv, DiskInv, NeverAhead, SegmentInv, DeliveryInv,
              FetchInv, Cursor, StatusType, Heights, NoCursor, PCs, LoopPCs, SegmentPCs, nodeVars, diskVars, blockVars
<1>3. CASE ReportProgress
  BY <1>3 DEF ReportProgress, TypeOK, ChannelInv, DiskInv, NeverAhead, SegmentInv, DeliveryInv,
              FetchInv, Cursor, StatusType, Heights, NoCursor, PCs, LoopPCs, SegmentPCs, nodeVars, diskVars, blockVars
<1>4. QED
  BY <1>1, <1>2, <1>3

(* next_notification: a segment starts right after what was delivered before;  *)
(* Lagged goes through catch_up, so nothing needs to hold of it.               *)
LEMMA ReceiveStep ==
    ASSUME IInv, ChainExecuted \/ Lagged \/ ChannelClosed \/ LoopDies
    PROVE  IInv'
<1> USE Ranges DEF IInv
<1>1. CASE ChainExecuted
  BY <1>1 DEF ChainExecuted, TypeOK, ChannelInv, DiskInv, NeverAhead, SegmentInv, DeliveryInv,
              FetchInv, Cursor, StatusType, Heights, NoCursor, PCs, LoopPCs, SegmentPCs, nodeVars, diskVars, blockVars
<1>2. CASE Lagged
  BY <1>2 DEF Lagged, TypeOK, ChannelInv, DiskInv, NeverAhead, SegmentInv, DeliveryInv,
              FetchInv, Cursor, StatusType, Heights, NoCursor, PCs, LoopPCs, SegmentPCs, nodeVars, diskVars, blockVars
<1>3. CASE ChannelClosed
  BY <1>3 DEF ChannelClosed, TypeOK, ChannelInv, DiskInv, NeverAhead, SegmentInv, DeliveryInv,
              FetchInv, Cursor, StatusType, Heights, NoCursor, PCs, LoopPCs, SegmentPCs, nodeVars, diskVars, blockVars,
              set_last_indexed, set_node_tip, set_live, Larger, InitialStatus
<1>4. CASE LoopDies
  BY <1>4 DEF LoopDies, TypeOK, ChannelInv, DiskInv, NeverAhead, SegmentInv, DeliveryInv,
              FetchInv, Cursor, StatusType, Heights, NoCursor, PCs, LoopPCs, SegmentPCs, nodeVars, diskVars, blockVars,
              set_last_indexed, set_node_tip, set_live, Larger, InitialStatus
<1>5. QED
  BY <1>1, <1>2, <1>3, <1>4

(* index_chain: the fetch loop collects a row for every token needed, the      *)
(* block transaction is the exact one, status follows the commit.              *)
LEMMA FetchStep ==
    ASSUME IInv, BeginBlock \/ FetchToken
    PROVE  IInv'
<1> USE Ranges DEF IInv
<1>1. CASE BeginBlock
  BY <1>1 DEF BeginBlock, TypeOK, ChannelInv, DiskInv, NeverAhead, SegmentInv, DeliveryInv,
              FetchInv, Cursor, StatusType, Heights, NoCursor, PCs, LoopPCs,
              SegmentPCs, nodeVars, diskVars, EmptyTable, Fetched
<1>2. CASE FetchToken
  <2>1. PICK t \in need, s \in FetchOutcomes :
          /\ need' = need \ {t}
          /\ token_rows' = [k \in DOMAIN token_rows \cup {t} |->
                              IF k = t THEN s ELSE token_rows[k]]
    BY <1>2 DEF FetchToken
  <2>2. DOMAIN token_rows' = DOMAIN token_rows \cup {t}
    BY <2>1
  <2>3. token_rows' \in [DOMAIN token_rows' -> {TokenOk, TokenRetryPending}]
    BY <2>1 DEF TypeOK, FetchOutcomes
  <2>4. FetchInv'
    BY <1>2, <2>1, <2>2 DEF FetchToken, FetchInv, diskVars, Fetched, token_fetch_states
  <2>5. TypeOK'
    BY <1>2, <2>3 DEF FetchToken, TypeOK, nodeVars, diskVars
  <2>6. (ChannelInv /\ DiskInv /\ NeverAhead /\ SegmentInv /\ DeliveryInv)'
    BY <1>2 DEF FetchToken, ChannelInv, DiskInv, NeverAhead, SegmentInv, DeliveryInv,
                Cursor, nodeVars, diskVars
  <2>7. QED
    BY <2>4, <2>5, <2>6
<1>3. QED
  BY <1>1, <1>2

(* index_block: skipped at or below the cursor, else the block right after it. *)
LEMMA IndexBlockStep ==
    ASSUME IInv, IndexBlock
    PROVE  IInv'
<1> USE Ranges DEF IInv
<1> DEFINE x == extract_block(Chain[next])
<1>1. next \in Heights /\ next <= hi /\ hi <= tip /\ next <= Cursor + 1
  BY DEF IndexBlock, SegmentInv, SegmentPCs, Heights
<1>2. x.number = next
  BY <1>1, ExtractedNumber
<1>3. UNCHANGED <<nodeVars, status, blockVars, finished>> /\ wal' = wal \cup {db'}
  BY DEF IndexBlock
<1>4. CASE AtOrBelowCursor(db, next)
  <2>1. db' = db /\ pc' = "set_node_tip" /\ next <= Cursor
    BY <1>2, <1>4 DEF IndexBlock, apply_block, AtOrBelowCursor, Cursor
  <2>2. QED
    BY <1>1, <1>3, <2>1
    DEF IndexBlock, TypeOK, ChannelInv, DiskInv, NeverAhead, SegmentInv, DeliveryInv,
              FetchInv, Cursor, PCs, LoopPCs, SegmentPCs, nodeVars, blockVars
<1>5. CASE ~AtOrBelowCursor(db, next)
  <2>1. next = Cursor + 1 /\ pc' = "set_last_indexed"
    BY <1>1, <1>5 DEF IndexBlock, AtOrBelowCursor, Cursor
  <2>2. db' = WriteBlock(db, x, token_rows)
    BY <1>2, <1>5 DEF IndexBlock, apply_block
  <2>3. Cursor' = next
    BY <1>2, <2>2 DEF WriteBlock, Cursor
  <2>4. Exact(db')
    <3>1. DOMAIN token_rows = Fetched(db, next)
      BY DEF IndexBlock, FetchInv
    <3>2. Exact(db) /\ db.last_indexed = next - 1
      BY <2>1 DEF DiskInv, TypeOK, Cursor
    <3>3. QED
      BY <1>1, <2>2, <3>1, <3>2, WriteBlockExact
  <2>5. DiskInv'
    BY <1>3, <2>1, <2>3, <2>4 DEF DiskInv, Cursor, Exact, WellFormed, Heights, NoCursor
  <2>6. TypeOK'
    BY <1>1, <1>3, <2>1, <2>3 DEF TypeOK, Cursor, PCs, LoopPCs, SegmentPCs, nodeVars, blockVars
  <2>7. (ChannelInv /\ NeverAhead /\ SegmentInv /\ DeliveryInv /\ FetchInv)'
    BY <1>1, <1>3, <2>1, <2>3
    DEF IndexBlock, ChannelInv, NeverAhead, SegmentInv, DeliveryInv, FetchInv, SegmentPCs,
        nodeVars, blockVars
  <2>8. QED
    BY <2>5, <2>6, <2>7
<1>6. QED
  BY <1>4, <1>5

(* Status follows the commit: set_last_indexed and set_node_tip.               *)
LEMMA PublishStep ==
    ASSUME IInv, SetLastIndexed \/ SetNodeTip
    PROVE  IInv'
<1> USE Ranges DEF IInv
<1>1. CASE SetLastIndexed
  BY <1>1 DEF SetLastIndexed, TypeOK, ChannelInv, DiskInv, NeverAhead, SegmentInv, DeliveryInv,
              FetchInv, Cursor, StatusType, Heights, NoCursor, PCs, LoopPCs,
              SegmentPCs, nodeVars, diskVars, blockVars, set_last_indexed, Larger
<1>2. CASE SetNodeTip
  <2>1. next <= hi /\ next \in Heights
    BY <1>2 DEF SetNodeTip, SegmentInv, Heights
  <2>2. status' \in StatusType /\ status'.last_indexed = status.last_indexed
    BY <1>2, <2>1 DEF SetNodeTip, TypeOK, StatusType, set_node_tip, Larger
  <2>3. TypeOK'
    BY <1>2, <2>1, <2>2 DEF SetNodeTip, TypeOK, Heights, PCs, LoopPCs, SegmentPCs, nodeVars,
                            diskVars, EmptyTable
  <2>4. (ChannelInv /\ DiskInv /\ NeverAhead /\ SegmentInv /\ DeliveryInv /\ FetchInv)'
    BY <1>2, <2>1, <2>2
    DEF SetNodeTip, ChannelInv, DiskInv, NeverAhead, SegmentInv, DeliveryInv, FetchInv,
        Cursor, SegmentPCs, nodeVars, diskVars
  <2>5. QED
    BY <2>3, <2>4
<1>3. QED
  BY <1>1, <1>2

(* Durability: a checkpoint narrows, a crash picks one of the exact contents.  *)
LEMMA DiskStep ==
    ASSUME IInv, Checkpoint \/ Crash
    PROVE  IInv'
<1> USE Ranges DEF IInv
<1>1. CASE Checkpoint
  BY <1>1 DEF Checkpoint, TypeOK, ChannelInv, DiskInv, NeverAhead, SegmentInv, DeliveryInv,
              FetchInv, Cursor, nodeVars, blockVars
<1>2. CASE Crash
  <2>1. PICK d \in wal : db' = d /\ wal' = {e \in wal : e.last_indexed <= d.last_indexed}
    BY <1>2 DEF Crash
  <2>2. Exact(d) /\ d.last_indexed <= Cursor /\ d.last_indexed \in Heights \cup {NoCursor}
    BY <2>1 DEF DiskInv, Exact, WellFormed
  <2>3. DiskInv' /\ db' \in wal'
    BY <2>1, <2>2 DEF DiskInv, Cursor, Heights, NoCursor
  <2>4. Cursor' = d.last_indexed
    BY <2>1 DEF Cursor
  <2>5. TypeOK'
    <3>1. 0 \in Heights /\ 0 \in 0..(MaxHeight + 1)
      BY ChainAssumption DEF Heights
    <3>2. InitialStatus \in StatusType
      BY <3>1 DEF InitialStatus, StatusType, NoCursor
    <3>3. QED
      BY <1>2, <2>1, <2>2, <2>3, <3>1, <3>2 DEF Crash, TypeOK, PCs, EmptyTable
  <2>6. (ChannelInv /\ NeverAhead /\ SegmentInv /\ DeliveryInv /\ FetchInv)'
    BY <1>2, <2>2, <2>4
    DEF Crash, ChannelInv, NeverAhead, SegmentInv, DeliveryInv, FetchInv, SegmentPCs,
        InitialStatus, NoCursor, Heights
  <2>7. QED
    BY <2>3, <2>5, <2>6
<1>3. QED
  BY <1>1, <1>2

-----------------------------------------------------------------------------
(* IInv is inductive.                                                          *)
LEMMA NextIInv == IInv /\ [Next]_vars => IInv'
<1> SUFFICES ASSUME IInv, [Next]_vars PROVE IInv'
  OBVIOUS
<1>1. CASE UNCHANGED vars
  BY <1>1 DEF IInv, TypeOK, ChannelInv, DiskInv, NeverAhead, SegmentInv, DeliveryInv,
              FetchInv, Cursor, vars, nodeVars, diskVars, blockVars
<1>2. CASE Next
  BY <1>2, NodeStep, StartStep, CatchUpStep, ReceiveStep, FetchStep, IndexBlockStep,
     PublishStep, DiskStep DEF Next, LoopStep
<1>3. QED
  BY <1>1, <1>2

(* The inductive invariant holds of every behaviour of the loop.               *)
THEOREM Invariance == Spec => []IInv
<1>1. QED
  BY InitIInv, NextIInv, PTL DEF Spec

(* Type correctness of the loop, its status and the file's cursor.             *)
THEOREM TypeCorrect == Spec => []TypeOK
<1>1. IInv => TypeOK
  BY DEF IInv
<1>2. QED
  BY <1>1, Invariance, PTL

(* The committed tables are at every moment exactly what blocks 0..cursor of   *)
(* the chain contribute: no hole, no half-indexed block, no row twice          *)
(* (index_block's one transaction, its cursor guard, catch_up on Lagged).      *)
THEOREM IndexAlwaysPrefix == Spec => []IndexIsPrefix
<1>1. IInv => IndexIsPrefix
  BY DEF IInv, TypeOK, DiskInv, Exact, IndexIsPrefix
<1>2. QED
  BY <1>1, Invariance, PTL

(* The stored per-type totals always equal the number of stored rows           *)
(* (apply_block's tx_type_counts upsert).                                      *)
THEOREM CountsAlwaysExact == Spec => []CountsExact
<1>1. IInv => CountsExact
  BY DEF IInv, TypeOK, DiskInv, Exact, CountsExact
<1>2. QED
  BY <1>1, Invariance, PTL

(* The stored range of an output is always exactly its indexed blocks          *)
(* (apply_block's consensus upsert), given that outputs are contiguous.        *)
THEOREM RangesAlwaysExact == Spec => []RangesExact
<1>1. IInv => RangesExact
  BY DEF IInv, TypeOK, DiskInv, Exact, RangesExact
<1>2. QED
  BY <1>1, Invariance, PTL

(* A token has a metadata row exactly when one of its transfers is indexed     *)
(* (token_fetch_states and the token upsert of apply_block).                   *)
THEOREM TokensAlwaysExact == Spec => []TokensExact
<1>1. IInv => TokensExact
  BY DEF IInv, TypeOK, DiskInv, Exact, TokensExact
<1>2. QED
  BY <1>1, Invariance, PTL

(* The index never runs ahead of the chain, nor status or the reported         *)
(* finished height ahead of the index (index_chain, report_progress).          *)
THEOREM NeverAheadAlways == Spec => []NeverAhead
<1>1. IInv => NeverAhead
  BY DEF IInv
<1>2. QED
  BY <1>1, Invariance, PTL

(* The block about to be indexed is never beyond the cursor's successor, which *)
(* apply_block itself does not check.                                          *)
THEOREM NoGapEver == Spec => []NoGap
<1>1. IInv => NoGap
  BY DEF IInv, SegmentInv, NoGap
<1>2. QED
  BY <1>1, Invariance, PTL

-----------------------------------------------------------------------------
(* The one way the file's content moves forward: the transaction of the block  *)
(* right after the cursor, with a row for each token that needed a fetch.      *)
WritesNextBlock ==
    /\ pc = "fetch" /\ pc' = "set_last_indexed"
    /\ next \in Heights /\ next = Cursor + 1 /\ next <= tip
    /\ DOMAIN token_rows = Fetched(db, next)
    /\ db' = WriteBlock(db, extract_block(Chain[next]), token_rows)

(* Every step but a crash leaves the content alone or writes the next block.   *)
LEMMA ContentStep ==
    ASSUME IInv, [Next]_vars
    PROVE  db' = db \/ pc' = "down" \/ WritesNextBlock
<1>1. CASE IndexBlock
  <2> USE Ranges DEF IInv
  <2>1. next \in Heights /\ next <= tip /\ next <= Cursor + 1
    BY <1>1 DEF IndexBlock, SegmentInv, SegmentPCs, Heights
  <2>2. extract_block(Chain[next]).number = next
    BY <2>1, ExtractedNumber
  <2>3. CASE AtOrBelowCursor(db, next)
    BY <1>1, <2>2, <2>3 DEF IndexBlock, apply_block
  <2>4. CASE ~AtOrBelowCursor(db, next)
    <3>1. next = Cursor + 1
      BY <2>1, <2>4 DEF AtOrBelowCursor, Cursor
    <3>2. DOMAIN token_rows = Fetched(db, next)
      BY <1>1 DEF IndexBlock, FetchInv
    <3>3. QED
      BY <1>1, <2>1, <2>2, <2>4, <3>1, <3>2 DEF IndexBlock, apply_block, WritesNextBlock
  <2>5. QED
    BY <2>3, <2>4
<1>2. CASE Crash
  BY <1>2 DEF Crash
<1>3. CASE ~IndexBlock /\ ~Crash
  BY <1>3 DEF Next, LoopStep, Execute, Notify, Overflow, Shutdown, Start, OpenFails, GoLive,
     CatchUp, ReplayFrom, BeginBlock, FetchToken, SetLastIndexed, SetNodeTip, ReportProgress,
     ChainExecuted, Lagged, ChannelClosed, LoopDies, Checkpoint, vars, diskVars
<1>4. QED
  BY <1>1, <1>2, <1>3

(* The cursor moves by one block at a time, backwards only in a crash.         *)
THEOREM CursorAlwaysStepwise == Spec => CursorStepwise
<1>1. ASSUME IInv, [Next]_vars
      PROVE  [pc' = "down" \/ Cursor' \in {Cursor, Cursor + 1}]_vars
  <2>1. CASE db' = db
    BY <2>1 DEF Cursor
  <2>2. CASE WritesNextBlock
    <3>1. Cursor' = next
      BY <2>2, ExtractedNumber DEF WritesNextBlock, WriteBlock, Cursor
    <3>2. QED
      BY <2>2, <3>1 DEF WritesNextBlock
  <2>3. QED
    BY <1>1, <2>1, <2>2, ContentStep
<1>2. QED
  BY <1>1, Invariance, PTL DEF Spec, CursorStepwise

(* A decoded or terminal token row is never rewritten, and a row becomes       *)
(* terminal only by a second failure (token_fetch_states filters, apply_block  *)
(* escalates).                                                                 *)
THEOREM TokenStatusAlways == Spec => TokenStatusMachine
<1> DEFINE Moves(t) ==
       IF t \notin DOMAIN db.tokens
       THEN db'.tokens[t] \in {TokenOk, TokenRetryPending}
       ELSE \/ db'.tokens[t] = db.tokens[t]
            \/ db.tokens[t] = TokenRetryPending /\ db'.tokens[t] \in {TokenOk, TokenFailed}
<1>1. ASSUME IInv, [Next]_vars
      PROVE  [pc' = "down" \/ \A t \in DOMAIN db'.tokens : Moves(t)]_vars
  <2>1. CASE db' = db
    BY <2>1
  <2>2. CASE WritesNextBlock
    <3>1. db'.tokens = UpsertTokens(db.tokens, token_rows)
      BY <2>2 DEF WritesNextBlock, WriteBlock
    <3>2. \A t \in DOMAIN token_rows :
             /\ token_rows[t] \in {TokenOk, TokenRetryPending}
             /\ t \in DOMAIN db.tokens => db.tokens[t] = TokenRetryPending
      BY <1>1, <2>2 DEF WritesNextBlock, IInv, TypeOK, Fetched, token_fetch_states
    <3>3. \A t \in DOMAIN db'.tokens : Moves(t)
      BY <3>1, <3>2 DEF UpsertTokens, TokenOk, TokenRetryPending, TokenFailed
    <3>4. QED
      BY <3>3
  <2>3. QED
    BY <1>1, <2>1, <2>2, ContentStep
<1>2. QED
  BY <1>1, Invariance, PTL DEF Spec, TokenStatusMachine

-----------------------------------------------------------------------------
(* The loop with all its control implements the single writer the API routes   *)
(* are modelled against (module IndexWriter), and the promise to its readers   *)
(* (module DerivedIndex).                                                      *)

(* The instantiated operators are the ones of this module.                     *)
LEMMA SameOperators ==
    /\ Writer!EmptyDb = EmptyDb /\ Writer!NoCursor = NoCursor
    /\ \A a, b : Writer!Larger(a, b) = Larger(a, b)
    /\ \A n : Writer!extract_block(Chain[n]) = extract_block(Chain[n])
    /\ \A d, c : Writer!token_fetch_states(d, c) = token_fetch_states(d, c)
    /\ \A d, x, rows : Writer!apply_block(d, x, rows) = apply_block(d, x, rows)
    /\ {Writer!TokenOk, Writer!TokenRetryPending} = {TokenOk, TokenRetryPending}
<1>1. Writer!EmptyDb = EmptyDb /\ Writer!NoCursor = NoCursor
  BY DEF Writer!EmptyDb, Writer!EmptyTable, Writer!NoCursor, EmptyDb, EmptyTable, NoCursor
<1>2. \A a, b : Writer!Larger(a, b) = Larger(a, b)
  BY DEF Writer!Larger, Larger
<1>3. \A n : Writer!extract_block(Chain[n]) = extract_block(Chain[n])
  BY DEF Writer!extract_block, Writer!AddressRows, Writer!AddressRow, Writer!TxTypeRows,
         Writer!TxTypeRow, Writer!TransferRows, Writer!decode_transfer_log, Writer!create,
         Writer!ConsensusRows, Writer!decode_consensus_fields,
         extract_block, AddressRows, AddressRow, TxTypeRows, TxTypeRow, TransferRows,
         decode_transfer_log, create, ConsensusRows, decode_consensus_fields
<1>4. {Writer!TokenOk, Writer!TokenRetryPending} = {TokenOk, TokenRetryPending}
  BY DEF Writer!TokenOk, Writer!TokenRetryPending, TokenOk, TokenRetryPending
<1>5. \A d, c : Writer!token_fetch_states(d, c) = token_fetch_states(d, c)
  BY DEF Writer!token_fetch_states, token_fetch_states, Writer!TokenRetryPending, TokenRetryPending
<1>6. \A d, x, rows : Writer!apply_block(d, x, rows) = apply_block(d, x, rows)
  BY DEF Writer!apply_block, Writer!AtOrBelowCursor, Writer!WriteBlock,
         Writer!InsertAddressTxs, Writer!AddTypeCounts, Writer!count_tx_type,
         Writer!UpsertConsensus, Writer!WidenRange, Writer!InsertTransfers,
         Writer!UpsertTokens, Writer!TokenOk, Writer!TokenFailed, Writer!Cardinality, Cardinality,
         apply_block, AtOrBelowCursor, WriteBlock, InsertAddressTxs, AddTypeCounts,
         count_tx_type, UpsertConsensus, WidenRange, InsertTransfers, UpsertTokens,
         TokenOk, TokenFailed
<1>7. QED
  BY <1>1, <1>2, <1>3, <1>4, <1>5, <1>6

(* The program's first state is the writer's.                                  *)
LEMMA InitRefines == Init => Writer!Init
BY SameOperators
DEF Init, Writer!Init, InitialStatus, NoCursor, ApiPCs, LoopPCs, SegmentPCs

(* Steps that only move the loop's control, the channel or the observed tip    *)
(* are invisible to the API's SQLite reads.                                    *)
Silent == \/ Notify \/ Overflow \/ Shutdown \/ OpenFails \/ GoLive \/ CatchUp \/ ReplayFrom
          \/ BeginBlock \/ FetchToken \/ SetNodeTip \/ ReportProgress
          \/ ChainExecuted \/ Lagged \/ LoopDies

(* A silent step is a stuttering step of the writer.                           *)
LEMMA SilentStutters ==
    ASSUME IInv, Silent
    PROVE  UNCHANGED Writer!writerVars
<1>1. status \in StatusType
  BY DEF IInv, TypeOK
<1>2. tip' = tip /\ db' = db /\ wal' = wal
  BY DEF Silent, Notify, Overflow, Shutdown, OpenFails, GoLive, CatchUp, ReplayFrom, BeginBlock,
     FetchToken, SetNodeTip, ReportProgress, ChainExecuted, Lagged, LoopDies, nodeVars, diskVars
<1>3. status'.last_indexed = status.last_indexed
  BY <1>1 DEF Silent, Notify, Overflow, Shutdown, OpenFails, GoLive, CatchUp, ReplayFrom,
     BeginBlock, FetchToken, SetNodeTip, ReportProgress, ChainExecuted, Lagged, LoopDies,
     set_node_tip, set_live, StatusType
<1>4. pc' \in ApiPCs <=> pc \in ApiPCs
  BY DEF Silent, Notify, Overflow, Shutdown, OpenFails, GoLive, CatchUp, ReplayFrom, BeginBlock,
     FetchToken, SetNodeTip, ReportProgress, ChainExecuted, Lagged, LoopDies, nodeVars, diskVars,
     ApiPCs, LoopPCs, SegmentPCs, FalliblePCs
<1>5. QED
  BY <1>2, <1>3, <1>4 DEF Writer!writerVars, ApiPCs

(* Every step of the loop is a step of the writer or leaves it alone.          *)
LEMMA StepRefines ==
    ASSUME IInv, [Next]_vars
    PROVE  [Writer!Next]_(Writer!writerVars)
<1> USE Ranges DEF IInv
<1>1. CASE Execute
  <2>1. Writer!Execute
    BY <1>1 DEF Execute, Writer!Execute, diskVars
  <2>2. QED
    BY <2>1 DEF Writer!Next
<1>2. CASE Start
  <2>1. status'.last_indexed = db.last_indexed
    BY <1>2 DEF Start, TypeOK, Cursor, NoCursor, Heights, InitialStatus, set_last_indexed, Larger
  <2>2. Writer!Open
    BY <1>2, <2>1 DEF Start, Writer!Open, diskVars, ApiPCs, LoopPCs, SegmentPCs
  <2>3. QED
    BY <2>2 DEF Writer!Next
<1>3. CASE IndexBlock
  <2>1. status' = status /\ tip' = tip /\ pc \in ApiPCs /\ pc' \in ApiPCs /\ wal' = wal \cup {db'}
    BY <1>3 DEF IndexBlock, nodeVars, ApiPCs, LoopPCs, SegmentPCs
  <2>2. CASE db' = db
    BY <2>1, <2>2 DEF Writer!writerVars, TypeOK
  <2>3. CASE WritesNextBlock
    <3>1. token_rows \in [Fetched(db, next) -> {TokenOk, TokenRetryPending}]
      BY <2>3 DEF WritesNextBlock, TypeOK
    <3>2. db' = apply_block(db, extract_block(Chain[next]), token_rows)
      BY <1>3 DEF IndexBlock
    <3>3. next = db.last_indexed + 1 /\ db.last_indexed < tip
      BY <2>3 DEF WritesNextBlock, Cursor
    <3>4. Writer!Index
      BY <2>1, <3>1, <3>2, <3>3, SameOperators DEF Writer!Index, Fetched
    <3>5. QED
      BY <3>4 DEF Writer!Next
  <2>4. QED
    BY <1>3, <2>2, <2>3, ContentStep DEF IndexBlock
<1>4. CASE SetLastIndexed
  <2>1. status'.last_indexed = Larger(status.last_indexed, db.last_indexed)
    BY <1>4 DEF SetLastIndexed, SegmentInv, Cursor, set_last_indexed, TypeOK, StatusType
  <2>2. Writer!PublishIndexed
    BY <1>4, <2>1, SameOperators
    DEF SetLastIndexed, Writer!PublishIndexed, nodeVars, diskVars, ApiPCs, LoopPCs, SegmentPCs
  <2>3. QED
    BY <2>2 DEF Writer!Next
<1>5. CASE ChannelClosed
  <2>1. status'.last_indexed = status.last_indexed
    BY <1>5 DEF ChannelClosed, set_live, TypeOK, StatusType
  <2>2. pc \in ApiPCs /\ (pc' \in ApiPCs) = FALSE
    BY <1>5 DEF ChannelClosed, ApiPCs, LoopPCs, SegmentPCs
  <2>3. tip' = tip /\ db' = db /\ wal' = wal
    BY <1>5 DEF ChannelClosed, nodeVars, diskVars
  <2>4. Writer!Close
    BY <2>1, <2>2, <2>3 DEF Writer!Close, ApiPCs
  <2>5. QED
    BY <2>4 DEF Writer!Next
<1>6. CASE Checkpoint
  <2>1. Writer!Checkpoint
    BY <1>6 DEF Checkpoint, Writer!Checkpoint, nodeVars
  <2>2. QED
    BY <2>1 DEF Writer!Next
<1>7. CASE Crash
  <2>1. Writer!Restart
    BY <1>7, SameOperators
    DEF Crash, Writer!Restart, InitialStatus, NoCursor, ApiPCs, LoopPCs, SegmentPCs
  <2>2. QED
    BY <2>1 DEF Writer!Next
<1>8. CASE Silent
  BY <1>8, SilentStutters
<1>9. CASE UNCHANGED vars
  BY <1>9 DEF vars, nodeVars, diskVars, Writer!writerVars
<1>10. QED
  BY <1>1, <1>2, <1>3, <1>4, <1>5, <1>6, <1>7, <1>8, <1>9 DEF Next, LoopStep, Silent

(* The loop implements the single writer the API reads beside: whatever        *)
(* replay, lag, errors, shutdown and crashes do, readers see one-block         *)
(* transactions in order, heights published only after their commit, and after *)
(* a restart some earlier commit.                                              *)
THEOREM Refinement == Spec => ImplementsIndexWriter
<1>1. QED
  BY InitRefines, StepRefines, Invariance, PTL DEF Spec, ImplementsIndexWriter, Writer!Spec

-----------------------------------------------------------------------------
View == [last_indexed    |-> db.last_indexed,
         address_txs     |-> db.address_txs,
         tx_types        |-> db.tx_types,
         token_transfers |-> db.token_transfers]

(* The instantiated reference is the one the exactness of a table is stated    *)
(* with, so an exact file shows the view of its own cursor.                    *)
LEMMA ExactView ==
    ASSUME NEW d, PrefixExact(d)
    PROVE  Derived!ViewOf(d.last_indexed)
             = [last_indexed    |-> d.last_indexed,
                address_txs     |-> d.address_txs,
                tx_types        |-> d.tx_types,
                token_transfers |-> d.token_transfers]
<1>1. \A n : Derived!ChainAddressTxs(n) = ChainAddressTxs(n)
  BY DEF Derived!ChainAddressTxs, ChainAddressTxs, Derived!Participants, Participants,
         Derived!create, create
<1>2. \A n : Derived!ChainTxTypes(n) = ChainTxTypes(n)
  BY DEF Derived!ChainTxTypes, ChainTxTypes
<1>3. \A n : Derived!ChainTransfers(n) = ChainTransfers(n)
  BY DEF Derived!ChainTransfers, ChainTransfers, Derived!IsTransfer, IsTransfer
<1>4. QED
  BY <1>1, <1>2, <1>3 DEF PrefixExact, Derived!ViewOf

(* The visible content is one of those a power loss may fall back to, hence    *)
(* exact: readers see the view of the cursor.                                  *)
LEMMA ViewIsPrefix ==
    ASSUME IInv
    PROVE  View = Derived!ViewOf(db.last_indexed)
<1>1. PrefixExact(db)
  BY DEF IInv, TypeOK, DiskInv, Exact
<1>2. QED
  BY <1>1, ExactView DEF View

(* An empty file is the empty prefix.                                          *)
LEMMA InitDerived == Init => Derived!Init
<1> SUFFICES ASSUME Init PROVE Derived!Init
  OBVIOUS
<1>1. View = Derived!ViewOf(db.last_indexed)
  BY InitIInv, ViewIsPrefix
<1>2. db.last_indexed = -1 /\ tip = 0
  BY DEF Init, EmptyDb, NoCursor
<1>3. QED
  BY <1>1, <1>2 DEF Derived!Init, View

(* A committed block is the next whole block, a crash falls back to an exact   *)
(* earlier prefix, and no other step shows.                                    *)
LEMMA StepDerived ==
    ASSUME IInv, IInv', [Next]_vars
    PROVE  [Derived!Next]_<<tip, View>>
<1>1. View = Derived!ViewOf(db.last_indexed)
  BY ViewIsPrefix
<1>2. View' = Derived!ViewOf(db'.last_indexed)
  <2>1. PrefixExact(db')
    BY DEF IInv, TypeOK, DiskInv, Exact
  <2>2. QED
    BY <2>1, ExactView DEF View
<1>3. CASE Execute
  BY <1>3 DEF Execute, diskVars, Derived!Next, Derived!Grow, View
<1>4. CASE Crash
  <2>1. PICK d \in wal : db' = d
    BY <1>4 DEF Crash
  <2>2. d.last_indexed \in -1..db.last_indexed
    BY <2>1 DEF IInv, DiskInv, Exact, WellFormed, Cursor, Heights, NoCursor, TypeOK
  <2>3. Derived!Lose
    BY <1>2, <1>4, <2>1, <2>2 DEF Crash, Derived!Lose, View
  <2>4. QED
    BY <2>3 DEF Derived!Next
<1>5. CASE WritesNextBlock /\ tip' = tip
  <2>1. db'.last_indexed = db.last_indexed + 1 /\ db.last_indexed < tip
    BY <1>5, ExtractedNumber, Ranges DEF WritesNextBlock, WriteBlock, Cursor, IInv
  <2>2. Derived!Index
    BY <1>2, <1>5, <2>1 DEF Derived!Index, View
  <2>3. QED
    BY <2>2 DEF Derived!Next
<1>6. CASE db' = db /\ tip' = tip
  BY <1>6 DEF View
<1>7. tip' = tip \/ Execute
  BY DEF Next, LoopStep, vars, nodeVars, Execute, Notify, Overflow, Shutdown, Start, OpenFails,
     GoLive, CatchUp, ReplayFrom, BeginBlock, FetchToken, IndexBlock, SetLastIndexed, SetNodeTip,
     ReportProgress, ChainExecuted, Lagged, ChannelClosed, LoopDies, Checkpoint, Crash
<1>8. db' = db \/ WritesNextBlock \/ Crash
  <2>1. CASE pc' = "down" /\ ~Crash
    BY <2>1 DEF Next, LoopStep, vars, diskVars, Execute, Notify, Overflow, Shutdown, Start,
       OpenFails, GoLive, CatchUp, ReplayFrom, BeginBlock, FetchToken, IndexBlock,
       SetLastIndexed, SetNodeTip, ReportProgress, ChainExecuted, Lagged, ChannelClosed,
       LoopDies, Checkpoint
  <2>2. QED
    BY <2>1, ContentStep
<1>9. QED
  BY <1>3, <1>4, <1>5, <1>6, <1>7, <1>8

(* Through replay, live segments, lag, errors, shutdown and power loss, a      *)
(* reader of the tables only ever sees the rows of a whole prefix of the       *)
(* node's chain (DerivedIndex), for every chain and every height.              *)
THEOREM DerivedRefinement == Spec => ImplementsDerivedIndex
<1>1. QED
  BY InitDerived, StepDerived, Invariance, PTL
  DEF Spec, ImplementsDerivedIndex, Derived!Spec, View
=============================================================================
