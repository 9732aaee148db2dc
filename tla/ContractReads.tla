--------------------------- MODULE ContractReads ----------------------------
(* The read that runs a contract's code (src/node_reads.rs) for the indexing   *)
(* loop: the metadata fetch, three calls decoded one by one.                   *)
(* Anything that once emitted a Transfer log is asked for its name, symbol and *)
(* decimals, so the contract may revert, halt, or answer with bytes that are   *)
(* something else; the node may fail; the contract may be upgraded, and the    *)
(* process may stop, between any two calls.                                    *)
(*                                                                             *)
(* An answer is [outcome, bytes]: "returns" with the bytes, or "revert",       *)
(* "halt" or "fault" without. Bytes are described by what the decoders make of *)
(* them: their length, the ABI string, the text of the raw 32-byte word and    *)
(* the ABI integer. An Option is a set of at most one value.                   *)
EXTENDS Storage, SequencesExt

CONSTANTS
    Answer,      \* contract -> version -> field -> answer
    Candidates,  \* sequence: the token candidates of the blocks to index
    U8_MAX,      \* 255
    EmptyText,   \* the string ""
    MaxFaults    \* bound: internal faults of the node

ASSUME ContractAssumption ==
    /\ Candidates \in Seq(SUBSET DOMAIN Answer)
    /\ U8_MAX \in Nat /\ MaxFaults \in Nat

(* External: a contract has at least one version, and its answers are not the  *)
(* node's faults.                                                              *)
ASSUME AnswersAreTheContracts ==
    \A c \in DOMAIN Answer :
      /\ Len(Answer[c]) \in Nat \ {0} /\ DOMAIN Answer[c] = 1..Len(Answer[c])
      /\ \A v \in DOMAIN Answer[c], field \in {"name", "symbol", "decimals"} :
           Answer[c][v][field].outcome \in {"returns", "revert", "halt"}

(* External (alloy): an integer decodes unsigned, of all single words only the *)
(* zero word decodes as an ABI string (src/node_reads.rs:899: "offset 0 ->     *)
(* length 0"), and bytes that are not a single word have no text as one.       *)
ASSUME AnswersDecode ==
    \A c \in DOMAIN Answer : \A v \in DOMAIN Answer[c] :
      /\ \A b \in Answer[c][v]["decimals"].bytes : b.integer \subseteq Nat
      /\ \A field \in {"name", "symbol"} : \A b \in Answer[c][v][field].bytes :
           /\ b.word # {} => b.len = 32
           /\ b.string # {} => b.word \subseteq {EmptyText}

VARIABLES
    version,  \* contract -> the version deployed
    tokens,   \* the committed tokens table: token -> status
    next,     \* the block to index
    pc,       \* where the loop is
    need,     \* tokens of the block still to fetch
    staged,   \* token_rows: token -> status of the row to be written
    token,    \* the token being fetched
    fields,   \* the fields still to read of it
    found,    \* the fields decoded so far
    faults    \* internal faults so far

loopVars == <<tokens, next, pc, need, staged, token, fields, found>>
vars == <<version, loopVars, faults>>

-----------------------------------------------------------------------------
Contracts == DOMAIN Answer
Fields == <<"name", "symbol", "decimals">>

(* External (tn_reth): what read_contract returns. A halted call comes back as *)
(* an internal error, told apart by its message only.                          *)
read_contract(contract, field) == Answer[contract][version[contract]][field]
NodeFault == [outcome |-> "fault", bytes |-> {}]

(* Mutant of read_metadata_bytes: a halt is the internal error it comes as.    *)
HaltIsErr(answer) ==
    [err |-> answer.outcome \in {"halt", "fault"}, bytes |-> answer.bytes]

(* Mutant of read_metadata_bytes: no error is passed on.                       *)
FaultIsNone(answer) == [err |-> FALSE, bytes |-> answer.bytes]

(* One selector call: nothing for a revert or a halt, an error for a fault of  *)
(* the node.                                                                   *)
read_metadata_bytes(answer) == [err |-> answer.outcome = "fault", bytes |-> answer.bytes]

(* The ABI string, or else the text of a 32-byte word; never the empty one.    *)
decode_string_return(bytes) ==
    IF bytes.string # {} THEN bytes.string \ {EmptyText}
    ELSE IF bytes.len = 32 THEN bytes.word \ {EmptyText}
    ELSE {}

(* Decoded wide and narrowed.                                                  *)
decode_decimals_return(bytes) == {n \in bytes.integer : n <= U8_MAX}

Decoded(field, bytes) ==
    IF field = "decimals" THEN decode_decimals_return(bytes) ELSE decode_string_return(bytes)

(* u8::from(!any_decoded()).                                                   *)
token_status(decoded) == IF decoded # {} THEN TokenOk ELSE TokenRetryPending

-----------------------------------------------------------------------------
AtRest == pc' = "begin" /\ need' = {} /\ staged' = EmptyTable /\ fields' = <<>> /\ found' = {}

Init ==
    /\ version = [c \in Contracts |-> 1]
    /\ tokens = EmptyTable /\ next = 1
    /\ pc = "begin" /\ need = {} /\ staged = EmptyTable
    /\ token = (CHOOSE c \in Contracts : TRUE) /\ fields = <<>> /\ found = {}
    /\ faults = 0

(* External: the contract's owner replaces its code.                           *)
Upgrade(c) ==
    /\ version[c] < Len(Answer[c])
    /\ version' = [version EXCEPT ![c] = @ + 1]
    /\ UNCHANGED <<loopVars, faults>>

BeginBlock ==
    /\ pc = "begin" /\ next <= Len(Candidates)
    /\ need' = token_fetch_states([tokens |-> tokens], Candidates[next])
    /\ pc' = "fetch"
    /\ UNCHANGED <<version, tokens, next, staged, token, fields, found, faults>>

(* token_metadata: the closure is entered for the next token.                  *)
FetchToken ==
    /\ pc = "fetch"
    /\ \E t \in need : token' = t
    /\ fields' = Fields /\ found' = {}
    /\ pc' = "call"
    /\ UNCHANGED <<version, tokens, next, need, staged, faults>>

(* One field: read, decoded, or the end of the closure and of the loop.        *)
ReadField ==
    /\ pc = "call" /\ fields # <<>>
    /\ \E answer \in {read_contract(token, Head(fields))}
                       \cup {a \in {NodeFault} : faults < MaxFaults} :
         LET read == read_metadata_bytes(answer) IN
         /\ faults' = IF answer = NodeFault THEN faults + 1 ELSE faults
         /\ pc' = IF read.err THEN "dead" ELSE "call"
         /\ fields' = Tail(fields)
         /\ found' = found \cup {f \in {Head(fields)} :
                                   \E b \in read.bytes : Decoded(f, b) # {}}
    /\ UNCHANGED <<version, tokens, next, need, staged, token>>

(* All three read: the row is staged for the block's transaction.              *)
StageRow ==
    /\ pc = "call" /\ fields = <<>>
    /\ staged' = [t \in DOMAIN staged \cup {token} |->
                    IF t = token THEN token_status(found) ELSE staged[t]]
    /\ need' = need \ {token}
    /\ pc' = "fetch"
    /\ UNCHANGED <<version, tokens, next, token, fields, found, faults>>

IndexBlock ==
    /\ pc = "fetch" /\ need = {}
    /\ tokens' = UpsertTokens(tokens, staged)
    /\ next' = next + 1
    /\ AtRest
    /\ UNCHANGED <<version, token, faults>>

(* The process stops, or is started again after the loop died: the block is    *)
(* begun anew over what was committed.                                         *)
Restart ==
    /\ AtRest
    /\ UNCHANGED <<version, tokens, next, token, faults>>

Next ==
    \/ \E c \in Contracts : Upgrade(c)
    \/ BeginBlock \/ FetchToken \/ ReadField \/ StageRow \/ IndexBlock \/ Restart

Spec == Init /\ [][Next]_vars

-----------------------------------------------------------------------------
(* What a field says, whichever of the two encodings of a text it uses.        *)
Says(answer, field) ==
    \E b \in answer.bytes :
       \/ field = "decimals" /\ b.integer \cap 0..U8_MAX # {}
       \/ field # "decimals" /\ (b.string \cup b.word) \ {EmptyText} # {}

(* What the node suffers is not held against a token, and what a contract is   *)
(* not is not made up for it: one with a field that can be read in all its     *)
(* versions never has a failed row, one with none in any is never taken for a  *)
(* token (fetch_token_metadata, any_decoded).                                  *)
RowsAreDeserved ==
    \A t \in DOMAIN tokens :
      LET says(f, v) == Says(Answer[t][v][f], f)
          versions == DOMAIN Answer[t] IN
      /\ (\E f \in ToSet(Fields) : \A v \in versions : says(f, v)) => tokens[t] = TokenOk
      /\ tokens[t] = TokenOk => \E f \in ToSet(Fields) : \E v \in versions : says(f, v)

(* No contract stops the loop: "a halting non-token would otherwise convert    *)
(* one weird contract sighting into a permanent indexing-loop error"           *)
(* (read_metadata_bytes). The loop dies of the node's faults alone.            *)
DiesOfFaultsOnly == pc = "dead" => faults > 0
=============================================================================
