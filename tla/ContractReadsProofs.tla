------------------------- MODULE ContractReadsProofs -------------------------
(* The metadata fetch of the indexing loop, for every set of contracts, every  *)
(* upgrade between two calls, every stop and every fault of the node.          *)
EXTENDS ContractReads, TLAPS

FieldSet == {"name", "symbol", "decimals"}

LEMMA FieldNames == ToSet(Fields) = FieldSet
<1>1. DOMAIN Fields = 1..3
  BY DEF Fields
<1>2. Fields[1] = "name" /\ Fields[2] = "symbol" /\ Fields[3] = "decimals"
  BY DEF Fields
<1> QED BY <1>1, <1>2 DEF ToSet, FieldSet

(* A field that every version of a contract answers; one that some version     *)
(* does.                                                                       *)
Always(t, f) == \A v \in DOMAIN Answer[t] : Says(Answer[t][v][f], f)
Ever(t, f) == \E v \in DOMAIN Answer[t] : Says(Answer[t][v][f], f)

(* A status that the contract has earned.                                      *)
Deserved(t, status) ==
    /\ (\E f \in FieldSet : Always(t, f)) => status = TokenOk
    /\ status = TokenOk => \E f \in FieldSet : Ever(t, f)

(* The decoders find a field exactly where the answer says something: a text   *)
(* is an ABI string or a word but never both, a number fits a byte.            *)
LEMMA DecodersAgree ==
    ASSUME NEW t \in Contracts, NEW v \in DOMAIN Answer[t], NEW f \in FieldSet
    PROVE  (\E b \in Answer[t][v][f].bytes : Decoded(f, b) # {}) <=> Says(Answer[t][v][f], f)
<1> DEFINE bytes == Answer[t][v][f].bytes
<1>1. CASE f = "decimals"
  <2>1. ASSUME NEW b \in bytes
        PROVE  Decoded(f, b) # {} <=> b.integer \cap 0..U8_MAX # {}
    <3>1. b.integer \subseteq Nat /\ U8_MAX \in Nat
      BY <1>1, AnswersDecode, ContractAssumption DEF Contracts
    <3>2. {n \in b.integer : n <= U8_MAX} = b.integer \cap 0..U8_MAX
      BY <3>1
    <3> QED BY <1>1, <3>2 DEF Decoded, decode_decimals_return
  <2> QED BY <1>1, <2>1 DEF Says
<1>2. CASE f # "decimals"
  <2>1. ASSUME NEW b \in bytes
        PROVE  Decoded(f, b) # {} <=> (b.string \cup b.word) \ {EmptyText} # {}
    <3>1. (b.word # {} => b.len = 32) /\ (b.string # {} => b.word \subseteq {EmptyText})
      <4>1. f \in {"name", "symbol"}
        BY <1>2 DEF FieldSet
      <4> QED BY <4>1, AnswersDecode DEF Contracts
    <3>2. Decoded(f, b) = decode_string_return(b)
      BY <1>2 DEF Decoded
    <3>3. decode_string_return(b) = (b.string \cup b.word) \ {EmptyText}
      <4>1. CASE b.string # {}
        BY <3>1, <4>1 DEF decode_string_return
      <4>2. CASE b.string = {}
        BY <3>1, <4>2 DEF decode_string_return
      <4> QED BY <4>1, <4>2
    <3> QED BY <3>2, <3>3
  <2> QED BY <1>2, <2>1 DEF Says
<1> QED BY <1>1, <1>2

-----------------------------------------------------------------------------
(* What is left of the three fields, name first.                               *)
Rests == {Fields, <<"symbol", "decimals">>, <<"decimals">>, <<>>}

(* The fields read so far.                                                     *)
Read(rest) ==
    CASE Len(rest) = 0 -> FieldSet
      [] Len(rest) = 1 -> {"name", "symbol"}
      [] Len(rest) = 2 -> {"name"}
      [] OTHER -> {}

LEMMA FieldsRead ==
    /\ Read(Fields) = {} /\ Read(<<"symbol", "decimals">>) = {"name"}
    /\ Read(<<"decimals">>) = {"name", "symbol"} /\ Read(<<>>) = FieldSet
<1>1. /\ Len(Fields) = 3 /\ Len(<<"symbol", "decimals">>) = 2 /\ Len(<<"decimals">>) = 1
      /\ Len(<<>>) = 0
  BY DEF Fields
<1> QED BY <1>1 DEF Read

LEMMA NextField ==
    ASSUME NEW rest \in Rests, rest # <<>>
    PROVE  /\ Head(rest) \in FieldSet /\ Tail(rest) \in Rests
           /\ Read(Tail(rest)) = Read(rest) \cup {Head(rest)}
<1>1. CASE rest = Fields
  <2>1. Head(rest) = "name" /\ Tail(rest) = <<"symbol", "decimals">>
    BY <1>1 DEF Fields
  <2> QED BY <1>1, <2>1, FieldsRead DEF FieldSet, Rests
<1>2. CASE rest = <<"symbol", "decimals">>
  <2>1. Head(rest) = "symbol" /\ Tail(rest) = <<"decimals">>
    BY <1>2
  <2> QED BY <1>2, <2>1, FieldsRead DEF FieldSet, Rests
<1>3. CASE rest = <<"decimals">>
  <2>1. Head(rest) = "decimals" /\ Tail(rest) = <<>>
    BY <1>3
  <2> QED BY <1>3, <2>1, FieldsRead DEF FieldSet, Rests
<1> QED BY <1>1, <1>2, <1>3 DEF Rests

-----------------------------------------------------------------------------
VersionInv ==
    /\ DOMAIN version = Contracts
    /\ \A c \in Contracts : version[c] \in DOMAIN Answer[c]

(* What the closure has decoded so far: every field some version answers, and  *)
(* of those read already every field that all of them do.                      *)
FetchInv ==
    pc = "call" =>
      /\ token \in Contracts /\ fields \in Rests
      /\ \A f \in found : f \in FieldSet /\ Ever(token, f)
      /\ \A f \in Read(fields) : Always(token, f) => f \in found

(* Every row, committed or staged, is deserved.                                *)
RowsInv ==
    /\ need \subseteq Contracts
    /\ DOMAIN staged \subseteq Contracts /\ \A t \in DOMAIN staged : Deserved(t, staged[t])
    /\ DOMAIN tokens \subseteq Contracts /\ \A t \in DOMAIN tokens : Deserved(t, tokens[t])

FaultInv == faults \in Nat /\ next \in Nat \ {0} /\ DiesOfFaultsOnly

(* The inductive invariant.                                                    *)
IInv == VersionInv /\ FetchInv /\ RowsInv /\ FaultInv

-----------------------------------------------------------------------------
LEMMA InitIInv == Init => IInv
<1> SUFFICES ASSUME Init PROVE IInv
  OBVIOUS
<1>1. VersionInv
  BY AnswersAreTheContracts DEF Init, VersionInv, Contracts
<1>2. DOMAIN EmptyTable = {}
  BY DEF EmptyTable
<1>3. RowsInv
  BY <1>2 DEF Init, RowsInv
<1> QED BY <1>1, <1>3 DEF Init, IInv, FetchInv, FaultInv, DiesOfFaultsOnly

(* A contract is upgraded: what its fields say in every version, or in some,   *)
(* does not depend on the one deployed.                                        *)
LEMMA UpgradeKeeps == ASSUME IInv, NEW c \in Contracts, Upgrade(c) PROVE IInv'
<1>1. UNCHANGED <<tokens, next, pc, need, staged, token, fields, found, faults>>
  BY DEF Upgrade, loopVars
<1>2. VersionInv'
  <2>1. /\ version' = [version EXCEPT ![c] = @ + 1] /\ version[c] < Len(Answer[c])
        /\ DOMAIN version = Contracts
    BY DEF Upgrade, IInv, VersionInv
  <2>2. version[c] + 1 \in DOMAIN Answer[c]
    BY <2>1, AnswersAreTheContracts DEF IInv, VersionInv, Contracts
  <2> QED BY <2>1, <2>2 DEF IInv, VersionInv
<1> QED BY <1>1, <1>2 DEF IInv, FetchInv, RowsInv, FaultInv, DiesOfFaultsOnly

LEMMA BeginBlockKeeps == ASSUME IInv, BeginBlock PROVE IInv'
<1>1. /\ UNCHANGED <<version, tokens, next, staged, token, fields, found, faults>>
      /\ pc' = "fetch" /\ next <= Len(Candidates)
      /\ need' = token_fetch_states([tokens |-> tokens], Candidates[next])
  BY DEF BeginBlock
<1>2. Candidates[next] \subseteq Contracts
  <2>1. next \in 1..Len(Candidates)
    BY <1>1, ContractAssumption DEF IInv, FaultInv
  <2> QED BY <2>1, ContractAssumption DEF Contracts
<1>3. need' \subseteq Contracts
  BY <1>1, <1>2 DEF token_fetch_states
<1> QED BY <1>1, <1>3 DEF IInv, VersionInv, FetchInv, RowsInv, FaultInv, DiesOfFaultsOnly

LEMMA FetchTokenKeeps == ASSUME IInv, FetchToken PROVE IInv'
<1>1. /\ UNCHANGED <<version, tokens, next, need, staged, faults>>
      /\ pc' = "call" /\ token' \in need /\ fields' = Fields /\ found' = {}
  BY DEF FetchToken
<1>2. token' \in Contracts /\ fields' \in Rests /\ Read(fields') = {}
  BY <1>1, FieldsRead DEF IInv, RowsInv, Rests
<1> QED BY <1>1, <1>2 DEF IInv, VersionInv, FetchInv, RowsInv, FaultInv, DiesOfFaultsOnly

(* One field of the version deployed at that moment, or a fault.               *)
LEMMA ReadFieldKeeps == ASSUME IInv, ReadField PROVE IInv'
<1> DEFINE f == Head(fields)
           v == version[token]
<1>1. PICK answer \in {read_contract(token, f)} \cup {a \in {NodeFault} : faults < MaxFaults} :
         /\ faults' = IF answer = NodeFault THEN faults + 1 ELSE faults
         /\ pc' = IF read_metadata_bytes(answer).err THEN "dead" ELSE "call"
         /\ fields' = Tail(fields)
         /\ found' = found \cup {g \in {f} :
                                   \E b \in read_metadata_bytes(answer).bytes : Decoded(g, b) # {}}
  BY DEF ReadField
<1>2. /\ UNCHANGED <<version, tokens, next, need, staged, token>>
      /\ token \in Contracts /\ fields \in Rests /\ fields # <<>>
      /\ \A g \in found : g \in FieldSet /\ Ever(token, g)
      /\ \A g \in Read(fields) : Always(token, g) => g \in found
  BY DEF ReadField, IInv, FetchInv
<1>3. f \in FieldSet /\ Tail(fields) \in Rests /\ Read(Tail(fields)) = Read(fields) \cup {f}
  BY <1>2, NextField
<1>4. v \in DOMAIN Answer[token]
  BY <1>2 DEF IInv, VersionInv
<1> HIDE DEF f, v
<1>5. VersionInv' /\ RowsInv' /\ next' \in Nat \ {0}
  BY <1>2 DEF IInv, VersionInv, RowsInv, FaultInv
<1>6. /\ read_metadata_bytes(answer).err = (answer.outcome = "fault")
      /\ read_metadata_bytes(answer).bytes = answer.bytes
  BY DEF read_metadata_bytes
<1>7. CASE answer = NodeFault
  <2>1. answer.outcome = "fault"
    BY <1>7 DEF NodeFault
  <2>2. read_metadata_bytes(answer).err
    BY <1>6, <2>1, Zenon
  <2>3. pc' = "dead" /\ faults' = faults + 1
    BY <1>1, <1>7, <2>2
  <2>4. faults' \in Nat /\ faults' > 0
    BY <2>3 DEF IInv, FaultInv
  <2> QED BY <1>5, <2>3, <2>4 DEF IInv, FetchInv, FaultInv, DiesOfFaultsOnly
<1>8. CASE answer # NodeFault
  <2>1. answer = Answer[token][v][f]
    BY <1>1, <1>8 DEF read_contract, v
  <2>2. answer.outcome # "fault"
    <3>1. Answer[token][v][f].outcome \in {"returns", "revert", "halt"}
      BY <1>2, <1>3, <1>4, AnswersAreTheContracts DEF Contracts, FieldSet
    <3> QED BY <2>1, <3>1
  <2>3. ~read_metadata_bytes(answer).err /\ read_metadata_bytes(answer).bytes = answer.bytes
    BY <1>6, <2>2, Zenon
  <2>4. pc' = "call" /\ faults' = faults
    BY <1>1, <1>8, <2>3
  <2>5. (\E b \in answer.bytes : Decoded(f, b) # {}) <=> Says(Answer[token][v][f], f)
    BY <1>2, <1>3, <1>4, <2>1, DecodersAgree
  <2>6. found' = IF Says(Answer[token][v][f], f) THEN found \cup {f} ELSE found
    BY <1>1, <2>3, <2>5
  <2>7. Says(Answer[token][v][f], f) => Ever(token, f)
    BY <1>4 DEF Ever
  <2>8. Always(token, f) => Says(Answer[token][v][f], f)
    BY <1>4 DEF Always
  <2>9. FetchInv'
    <3>1. \A g \in found' : g \in FieldSet /\ Ever(token, g)
      BY <1>2, <1>3, <2>6, <2>7
    <3>2. \A g \in Read(Tail(fields)) : Always(token, g) => g \in found'
      BY <1>2, <1>3, <2>6, <2>8
    <3> QED BY <1>1, <1>2, <1>3, <3>1, <3>2 DEF FetchInv
  <2>10. FaultInv'
    BY <1>5, <2>4 DEF IInv, FaultInv, DiesOfFaultsOnly
  <2> QED BY <1>5, <2>9, <2>10 DEF IInv
<1> QED BY <1>7, <1>8

(* All three fields read: a row is good exactly if one was decoded.            *)
LEMMA StageRowKeeps == ASSUME IInv, StageRow PROVE IInv'
<1>1. /\ UNCHANGED <<version, tokens, next, token, fields, found, faults>>
      /\ pc' = "fetch" /\ need' \subseteq need
      /\ staged' = [t \in DOMAIN staged \cup {token} |->
                      IF t = token THEN token_status(found) ELSE staged[t]]
  BY DEF StageRow
<1>2. /\ token \in Contracts
      /\ \A f \in found : f \in FieldSet /\ Ever(token, f)
      /\ \A f \in FieldSet : Always(token, f) => f \in found
  BY FieldsRead DEF StageRow, IInv, FetchInv
<1>3. Deserved(token, token_status(found))
  BY <1>2 DEF Deserved, token_status, TokenOk, TokenRetryPending
<1>4. DOMAIN staged' \subseteq Contracts /\ \A t \in DOMAIN staged' : Deserved(t, staged'[t])
  BY <1>1, <1>2, <1>3 DEF IInv, RowsInv
<1> QED BY <1>1, <1>4 DEF IInv, VersionInv, FetchInv, RowsInv, FaultInv, DiesOfFaultsOnly

(* The upsert escalates a failure, and never a row that decoded.               *)
LEMMA UpsertDeserved ==
    ASSUME RowsInv
    PROVE  /\ DOMAIN UpsertTokens(tokens, staged) \subseteq Contracts
           /\ \A t \in DOMAIN UpsertTokens(tokens, staged) :
                Deserved(t, UpsertTokens(tokens, staged)[t])
<1> DEFINE rows == UpsertTokens(tokens, staged)
<1>1. DOMAIN rows = DOMAIN tokens \cup DOMAIN staged
  BY DEF UpsertTokens
<1>2. ASSUME NEW t \in DOMAIN rows PROVE Deserved(t, rows[t])
  <2>1. CASE t \notin DOMAIN staged
    <3>1. rows[t] = tokens[t] /\ t \in DOMAIN tokens
      BY <1>1, <2>1 DEF UpsertTokens
    <3> QED BY <3>1 DEF RowsInv
  <2>2. CASE t \in DOMAIN staged
    <3>1. rows[t] = staged[t] \/ (rows[t] = TokenFailed /\ staged[t] # TokenOk)
      BY <1>1, <2>2 DEF UpsertTokens
    <3>2. Deserved(t, staged[t])
      BY <2>2 DEF RowsInv
    <3>3. TokenFailed # TokenOk
      BY DEF TokenFailed, TokenOk
    <3> QED BY <3>1, <3>2, <3>3 DEF Deserved
  <2> QED BY <2>1, <2>2
<1> QED BY <1>1, <1>2 DEF RowsInv

LEMMA AtRestInv == ASSUME AtRest PROVE pc' = "begin" /\ need' = {} /\ DOMAIN staged' = {}
BY DEF AtRest, EmptyTable

LEMMA IndexBlockKeeps == ASSUME IInv, IndexBlock PROVE IInv'
<1>1. /\ tokens' = UpsertTokens(tokens, staged) /\ next' = next + 1
      /\ UNCHANGED <<version, token, faults>> /\ AtRest
  BY DEF IndexBlock
<1>2. RowsInv'
  <2>1. DOMAIN tokens' \subseteq Contracts /\ \A t \in DOMAIN tokens' : Deserved(t, tokens'[t])
    BY <1>1, UpsertDeserved DEF IInv
  <2> QED BY <1>1, <2>1, AtRestInv DEF RowsInv
<1>3. next' \in Nat \ {0}
  BY <1>1 DEF IInv, FaultInv
<1> QED BY <1>1, <1>2, <1>3, AtRestInv DEF IInv, VersionInv, FetchInv, FaultInv, DiesOfFaultsOnly

LEMMA RestartKeeps == ASSUME IInv, Restart PROVE IInv'
<1>1. UNCHANGED <<version, tokens, next, token, faults>> /\ AtRest
  BY DEF Restart
<1>2. RowsInv'
  BY <1>1, AtRestInv DEF IInv, RowsInv
<1> QED BY <1>1, <1>2, AtRestInv DEF IInv, VersionInv, FetchInv, FaultInv, DiesOfFaultsOnly

(* Every step, or none, keeps the invariant.                                   *)
LEMMA NextIInv == IInv /\ [Next]_vars => IInv'
<1> SUFFICES ASSUME IInv, [Next]_vars PROVE IInv'
  OBVIOUS
<1>1. CASE UNCHANGED vars
  BY <1>1 DEF vars, loopVars, IInv, VersionInv, FetchInv, RowsInv, FaultInv, DiesOfFaultsOnly
<1> QED BY <1>1, UpgradeKeeps, BeginBlockKeeps, FetchTokenKeeps, ReadFieldKeeps, StageRowKeeps,
        IndexBlockKeeps, RestartKeeps DEF Next

(* The inductive invariant holds in every reachable state, whatever contracts  *)
(* there are and whenever they are upgraded.                                   *)
THEOREM Invariance == Spec => []IInv
BY InitIInv, NextIInv, PTL DEF Spec

(* A token with a field that can be read in all its versions never has a       *)
(* failed row, and what answers no field in any version is never taken for a   *)
(* token, whatever upgrade, fault or stop falls between two of the three calls *)
(* (fetch_token_metadata, any_decoded, index_block).                           *)
THEOREM RowsStayDeserved == Spec => []RowsAreDeserved
<1>1. ASSUME IInv PROVE RowsAreDeserved
  <2>1. ASSUME NEW t \in DOMAIN tokens PROVE Deserved(t, tokens[t])
    BY <1>1 DEF IInv, RowsInv
  <2> QED BY <2>1, FieldNames DEF RowsAreDeserved, Deserved, Always, Ever
<1> QED BY <1>1, Invariance, PTL

(* No contract ends the indexing loop: a revert or a halt is an answer, and    *)
(* only a fault of the node is passed on (read_metadata_bytes).                *)
THEOREM ContractsNeverKill == Spec => []DiesOfFaultsOnly
<1>1. IInv => DiesOfFaultsOnly
  BY DEF IInv, FaultInv
<1> QED BY <1>1, Invariance, PTL
=============================================================================
