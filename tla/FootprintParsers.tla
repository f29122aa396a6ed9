-------------------------- MODULE FootprintParsers --------------------------
(***************************************************************************)
(* packages/footprint-parser-wasm: ledger keys are classified by a Rust    *)
(* parser once initWasm has loaded it, and by the TypeScript parser of     *)
(* packages/footprint-parser until then or when it cannot be loaded.       *)
(* src/index.ts chooses between them at each call; the parsers are         *)
(* src/lib.rs and packages/footprint-parser/src/index.ts.                  *)
(*                                                                         *)
(* A ledger key is the type of its entry and, for contract data, the shape *)
(* of its data key; "garbage" is base64 text of no ledger key, and         *)
(* "notBase64" text that is not even base64.                               *)
(***************************************************************************)
EXTENDS Naturals, Sequences

CONSTANTS
  ParserCalls,   \* concurrent callers
  MaxParserCalls \* bound: calls

ASSUME ParserAssumption == MaxParserCalls \in Nat

Shapes == {"instance", "nonce", "Admin", "metadata", "otherSymbol",
           "Balance", "Allowance", "otherVec", "other"}
NotKeys == {"garbage", "notBase64"}
OtherEntries == {"contractCode", "ttl", "liquidityPool"} \cup NotKeys
OtherKeys  == [entry : OtherEntries, shape : {"other"}]
LedgerKeys == [entry : {"contractData"}, shape : Shapes] \cup OtherKeys

\* The keys of which batches are made: one of every entry.
BatchKeys == OtherKeys \cup [entry : {"contractData"}, shape : {"Admin"}]

NoValue == "undefined"
Rejected == [keyType |-> "rejected", sac |-> NoValue, contract |-> FALSE,
             priority |-> 3, names |-> "none"]

-----------------------------------------------------------------------------
(* The TypeScript parser.                                                  *)

SymbolSac == [Admin |-> "sacAdmin", metadata |-> "sacMetadata"]
VecSac    == [Balance |-> "sacBalance", Allowance |-> "sacAllowance"]

classifySacKey(shape) ==
  CASE shape = "nonce"             -> "sacNonce"
    [] shape \in DOMAIN SymbolSac  -> SymbolSac[shape]
    [] shape \in DOMAIN VecSac     -> VecSac[shape]
    [] OTHER                       -> NoValue

Camel(type, sac, contract, priority) ==
  [keyType |-> type, sac |-> sac, contract |-> contract, priority |-> priority,
   names |-> "camelCase"]

\* A TTL key holds a hash, from which extractContractIdFromTtlKey finds no
\* contract.
classifyLedgerKey(key) ==
  CASE key.entry \in NotKeys      -> Rejected
    [] key.entry = "contractData" /\ key.shape = "instance" ->
         Camel("contractInstance", NoValue, TRUE, 0)
    [] key.entry = "contractData" /\ key.shape # "instance" ->
         Camel("contractData", classifySacKey(key.shape), TRUE, 2)
    [] key.entry = "contractCode" -> Camel("contractCode", NoValue, TRUE, 1)
    [] key.entry = "ttl"          -> Camel("ttlEntry", NoValue, FALSE, 2)
    [] OTHER                      -> Camel("unknown", NoValue, FALSE, 3)

\* classifyKeysBatch without WASM: Promise.all over the keys, so one key that
\* is none rejects the batch.
ByTypeScript(keys) ==
  IF \E i \in DOMAIN keys : classifyLedgerKey(keys[i]) = Rejected
  THEN [i \in DOMAIN keys |-> Rejected]
  ELSE [i \in DOMAIN keys |-> classifyLedgerKey(keys[i])]

-----------------------------------------------------------------------------
(* The Rust parser.                                                        *)

\* Mutant: any symbol counts as metadata, as in the sdk's own copy.
classify_any_symbol(shape) ==
  CASE shape = "nonce"     -> "sacNonce"
    [] shape = "Admin"     -> "sacAdmin"
    [] shape \in {"metadata", "otherSymbol"} -> "sacMetadata"
    [] shape = "Balance"   -> "sacBalance"
    [] shape = "Allowance" -> "sacAllowance"
    [] OTHER               -> NoValue

classify_sac_key(shape) ==
  CASE shape = "nonce"     -> "sacNonce"
    [] shape = "Admin"     -> "sacAdmin"
    [] shape = "metadata"  -> "sacMetadata"
    [] shape = "Balance"   -> "sacBalance"
    [] shape = "Allowance" -> "sacAllowance"
    [] OTHER               -> NoValue

\* serde writes the field names of the Rust struct.
Snake(type, sac, contract, priority) ==
  [keyType |-> type, sac |-> sac, contract |-> contract, priority |-> priority,
   names |-> "snake_case"]

classify_ledger_key(key) ==
  CASE key.entry = "contractData" /\ key.shape = "instance" ->
         Snake("contractInstance", NoValue, TRUE, 0)
    [] key.entry = "contractData" /\ key.shape # "instance" ->
         Snake("contractData", classify_sac_key(key.shape), TRUE, 2)
    [] key.entry = "contractCode" -> Snake("contractCode", NoValue, TRUE, 1)
    [] key.entry = "ttl"          -> Snake("ttlEntry", NoValue, FALSE, 3)
    [] OTHER                      -> Snake("unknown", NoValue, FALSE, 3)

classify_key(key) ==
  IF key.entry \in NotKeys THEN Rejected ELSE classify_ledger_key(key)

\* In a batch, text that is no key is an entry of unknown type, but text that
\* is not base64 rejects the batch.
ByRust(keys, batch) ==
  [i \in DOMAIN keys |->
     IF ~batch THEN classify_key(keys[i])
     ELSE IF \E j \in DOMAIN keys : keys[j].entry = "notBase64" THEN Rejected
     ELSE classify_ledger_key(keys[i])]

-----------------------------------------------------------------------------
(* The loader and the calls.                                               *)

VARIABLES
  supported,   \* isWasmSupported
  wasmModule,  \* whether it is loaded
  initPromise, \* wasmInitPromise
  decoding,    \* what each caller waits for: the keys of a fallback call,
               \* initWasm, or nothing
  parsed,      \* history: pairs of a key and an answer given for it
  verdicts,    \* history: what initWasm answered
  parserCalls

parserVars == <<supported, wasmModule, initPromise, decoding, parsed, verdicts,
                parserCalls>>

Nothing  == [task |-> "none", keys |-> <<>>]
Loading  == [task |-> "initWasm", keys |-> <<>>]
Decoding(keys) == [task |-> "fallback", keys |-> keys]

ParserInit ==
  /\ supported \in BOOLEAN
  /\ wasmModule = FALSE /\ initPromise = "none"
  /\ decoding = [c \in ParserCalls |-> Nothing]
  /\ parsed = {} /\ verdicts = {} /\ parserCalls = 0

Called(c) ==
  /\ decoding[c] = Nothing
  /\ parserCalls < MaxParserCalls /\ parserCalls' = parserCalls + 1

initWasm(c) ==
  /\ Called(c)
  /\ \/ /\ wasmModule \/ initPromise = "true"
        /\ verdicts' = verdicts \cup {TRUE}
        /\ UNCHANGED <<initPromise, decoding>>
     \/ /\ ~wasmModule /\ initPromise = "false"
        /\ verdicts' = verdicts \cup {FALSE}
        /\ UNCHANGED <<initPromise, decoding>>
     \/ /\ initPromise = "none" /\ ~supported
        /\ initPromise' = "false"
        /\ verdicts' = verdicts \cup {FALSE}
        /\ UNCHANGED decoding
     \/ /\ initPromise \in {"none", "loading"} /\ supported
        /\ initPromise' = "loading"
        /\ decoding' = [decoding EXCEPT ![c] = Loading]
        /\ UNCHANGED verdicts
  /\ UNCHANGED <<supported, wasmModule, parsed>>

\* The promise keeps the outcome, a failure too.
Cached(ok) == IF ok THEN "true" ELSE "false"

\* The import and the instantiation end; all callers that await the promise
\* are answered.
LoadEnds(ok) ==
  /\ initPromise = "loading"
  /\ wasmModule' = ok
  /\ initPromise' = Cached(ok)
  /\ verdicts' = verdicts \cup {ok}
  /\ decoding' = [c \in ParserCalls |-> IF decoding[c] = Loading THEN Nothing
                                        ELSE decoding[c]]
  /\ UNCHANGED <<supported, parsed, parserCalls>>

Answered(keys, answers) ==
  parsed' = parsed \cup {<<keys[i], answers[i]>> : i \in DOMAIN keys}

\* classifyKey and classifyKeysBatch.
Classifies(c, keys, batch) ==
  /\ Called(c)
  /\ IF wasmModule
     THEN Answered(keys, ByRust(keys, batch)) /\ UNCHANGED decoding
     ELSE decoding' = [decoding EXCEPT ![c] = Decoding(keys)] /\ UNCHANGED parsed
  /\ UNCHANGED <<supported, wasmModule, initPromise, verdicts>>

\* The imports of classifyWithJs have ended, whatever was loaded meanwhile.
FallbackAnswers(c) ==
  /\ decoding[c].task = "fallback"
  /\ Answered(decoding[c].keys, ByTypeScript(decoding[c].keys))
  /\ decoding' = [decoding EXCEPT ![c] = Nothing]
  /\ UNCHANGED <<supported, wasmModule, initPromise, verdicts, parserCalls>>

ParserNext ==
  \/ \E c \in ParserCalls :
       \/ initWasm(c)
       \/ \E key \in LedgerKeys : Classifies(c, <<key>>, FALSE)
       \/ \E key \in BatchKeys, other \in {"ttl"} \cup NotKeys :
            Classifies(c, <<key, [entry |-> other, shape |-> "other"]>>, TRUE)
       \/ FallbackAnswers(c)
  \/ \E ok \in BOOLEAN : LoadEnds(ok)

-----------------------------------------------------------------------------
(* Properties.                                                             *)

\* Every answer about one key, from whichever parser.
KnownAnswers(key) == {p[2] : p \in {q \in parsed : q[1] = key}} \ {Rejected}

\* Whichever parser answers, and whenever the other is loaded, a key that is
\* one is said to be the same entry of the same contract; the parsers differ
\* in the priority of TTL entries, and in the names of the fields.  All calls
\* of initWasm get one verdict, and TRUE means that WASM answers from then on,
\* however calls, loading and its failure interleave.
ParsersAgree ==
  /\ \A key \in {p[1] : p \in parsed} :
       key.entry \notin NotKeys =>
         \A a, b \in KnownAnswers(key) :
           /\ a.keyType = b.keyType /\ a.sac = b.sac /\ a.contract = b.contract
           /\ key.entry # "ttl" => a.priority = b.priority
  /\ verdicts # BOOLEAN
  /\ TRUE \in verdicts => wasmModule
=============================================================================
