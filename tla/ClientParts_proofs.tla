------------------------- MODULE ClientParts_proofs --------------------------
(***************************************************************************)
(* The parts around the client, for every set of keys, endpoints, callers, *)
(* containers and bounds.                                                  *)
(***************************************************************************)
EXTENDS ClientParts, Sifting_proofs, FiniteSetTheorems, TLAPS

-----------------------------------------------------------------------------
(* A step of one part leaves the others alone.                             *)

LEMMA PartStep ==
  ASSUME [PartsNext]_partsVars
  PROVE  /\ [ParserNext]_parserVars /\ [FootprintNext]_footprintVars
         /\ [BatchNext]_batchVars /\ [AuthNext]_authVars
         /\ [ReadersNext]_received /\ [ProbesNext]_probeVars
         /\ [VersionNext]_versionVars /\ [PipelineNext]_pipelineVars
         /\ [ContainerNext]_containerVars
  BY DEF PartsNext, partsVars, Parses, Batches, Authorizes, CachesFootprints,
         ReadsAnswers, ProbesMethods, NegotiatesVersions, MocksRequests, ResolvesKeys

-----------------------------------------------------------------------------
(* The two parsers of ledger keys and the loader of one of them.           *)

\* What is right to answer about a key.
RightAnswer(key, a) ==
  a \in {Rejected, classifyLedgerKey(key), classify_ledger_key(key)}

Agreeing(a, b) == a.keyType = b.keyType /\ a.sac = b.sac /\ a.contract = b.contract

Waits == [task : {"none", "initWasm", "fallback"}, keys : Seq(LedgerKeys)]

ParserInv ==
  /\ \A p \in parsed : p[1] \in LedgerKeys /\ RightAnswer(p[1], p[2])
  /\ decoding \in [ParserCalls -> Waits]
  /\ initPromise \in {"none", "loading", "true", "false"}
  /\ initPromise \in {"none", "loading"} => verdicts = {} /\ wasmModule = FALSE
  /\ initPromise = "true" => verdicts \subseteq {TRUE} /\ wasmModule = TRUE
  /\ initPromise = "false" => verdicts \subseteq {FALSE} /\ wasmModule = FALSE

\* The TypeScript and the Rust classification of a key, side by side.
LEMMA ClassificationsAgree ==
  ASSUME NEW key \in LedgerKeys, key.entry \notin NotKeys
  PROVE  /\ Agreeing(classifyLedgerKey(key), classify_ledger_key(key))
         /\ key.entry # "ttl" =>
              classifyLedgerKey(key).priority = classify_ledger_key(key).priority
<1>1. key.entry \in {"contractData", "contractCode", "ttl", "liquidityPool"}
      /\ key.shape \in Shapes
  BY DEF LedgerKeys, OtherKeys, OtherEntries, NotKeys, Shapes
<1>2. classifySacKey(key.shape) = classify_sac_key(key.shape)
  <2>1. DOMAIN SymbolSac = {"Admin", "metadata"} /\ DOMAIN VecSac = {"Balance", "Allowance"}
    BY DEF SymbolSac, VecSac
  <2>2. /\ SymbolSac["Admin"] = "sacAdmin" /\ SymbolSac["metadata"] = "sacMetadata"
        /\ VecSac["Balance"] = "sacBalance" /\ VecSac["Allowance"] = "sacAllowance"
    BY DEF SymbolSac, VecSac
  <2> QED BY <1>1, <2>1, <2>2 DEF classifySacKey, classify_sac_key, Shapes
<1>3. CASE key.entry = "contractData" /\ key.shape = "instance"
  BY <1>3 DEF classifyLedgerKey, classify_ledger_key, Camel, Snake, Agreeing
<1>4. CASE key.entry = "contractData" /\ key.shape # "instance"
  <2>1. /\ classifyLedgerKey(key) =
             Camel("contractData", classifySacKey(key.shape), TRUE, 2)
        /\ classify_ledger_key(key) =
             Snake("contractData", classify_sac_key(key.shape), TRUE, 2)
    BY <1>4 DEF classifyLedgerKey, classify_ledger_key
  <2> QED BY <1>2, <2>1 DEF Camel, Snake, Agreeing
<1>5. CASE key.entry = "contractCode"
  BY <1>5 DEF classifyLedgerKey, classify_ledger_key, Camel, Snake, Agreeing
<1>6. CASE key.entry = "ttl"
  BY <1>6 DEF classifyLedgerKey, classify_ledger_key, Camel, Snake, Agreeing
<1>7. CASE key.entry = "liquidityPool"
  BY <1>7 DEF classifyLedgerKey, classify_ledger_key, Camel, Snake, Agreeing
<1> QED BY <1>1, <1>3, <1>4, <1>5, <1>6, <1>7

\* Answers that are right are added.
LEMMA AnsweredRight ==
  ASSUME ParserInv, NEW ks \in Seq(LedgerKeys), NEW answers, Answered(ks, answers),
         \A i \in DOMAIN ks : RightAnswer(ks[i], answers[i])
  PROVE  \A p \in parsed' : p[1] \in LedgerKeys /\ RightAnswer(p[1], p[2])
<1> SUFFICES ASSUME NEW p \in parsed' PROVE p[1] \in LedgerKeys /\ RightAnswer(p[1], p[2])
  OBVIOUS
<1>1. CASE p \in parsed
  BY <1>1 DEF ParserInv
<1>2. ASSUME NEW i \in DOMAIN ks, p = <<ks[i], answers[i]>>
      PROVE  p[1] \in LedgerKeys /\ RightAnswer(p[1], p[2])
  <2>1. p[1] = ks[i] /\ p[2] = answers[i] /\ ks[i] \in LedgerKeys
    BY <1>2
  <2> QED BY <1>2, <2>1
<1> QED BY <1>1, <1>2 DEF Answered

LEMMA TypeScriptIsRight ==
  ASSUME NEW ks \in Seq(LedgerKeys)
  PROVE  \A i \in DOMAIN ks : RightAnswer(ks[i], ByTypeScript(ks)[i])
<1>1. CASE \E i \in DOMAIN ks : classifyLedgerKey(ks[i]) = Rejected
  <2>1. \A i \in DOMAIN ks : ByTypeScript(ks)[i] = Rejected
    BY <1>1 DEF ByTypeScript
  <2> QED BY <2>1 DEF RightAnswer
<1>2. CASE ~ \E i \in DOMAIN ks : classifyLedgerKey(ks[i]) = Rejected
  <2>1. \A i \in DOMAIN ks : ByTypeScript(ks)[i] = classifyLedgerKey(ks[i])
    BY <1>2 DEF ByTypeScript
  <2> QED BY <2>1 DEF RightAnswer
<1> QED BY <1>1, <1>2

LEMMA RustIsRight ==
  ASSUME NEW ks \in Seq(LedgerKeys), NEW batch \in BOOLEAN
  PROVE  \A i \in DOMAIN ks : RightAnswer(ks[i], ByRust(ks, batch)[i])
<1> SUFFICES ASSUME NEW i \in DOMAIN ks PROVE RightAnswer(ks[i], ByRust(ks, batch)[i])
  OBVIOUS
<1>1. ByRust(ks, batch)[i] \in {Rejected, classify_ledger_key(ks[i]), classify_key(ks[i])}
  BY DEF ByRust
<1> QED BY <1>1 DEF RightAnswer, classify_key

LEMMA StepClassifies ==
  ASSUME ParserInv, NEW c \in ParserCalls, NEW ks \in Seq(LedgerKeys),
         NEW batch \in BOOLEAN, Classifies(c, ks, batch)
  PROVE  ParserInv'
<1>1. UNCHANGED <<supported, wasmModule, initPromise, verdicts>>
  BY DEF Classifies
<1>2. CASE wasmModule
  <2>1. Answered(ks, ByRust(ks, batch)) /\ decoding' = decoding
    BY <1>2 DEF Classifies
  <2>2. \A p \in parsed' : p[1] \in LedgerKeys /\ RightAnswer(p[1], p[2])
    BY <2>1, RustIsRight, AnsweredRight
  <2> QED BY <1>1, <2>1, <2>2 DEF ParserInv
<1>3. CASE ~wasmModule
  <2>1. parsed' = parsed /\ decoding' = [decoding EXCEPT ![c] = Decoding(ks)]
    BY <1>3 DEF Classifies
  <2>2. Decoding(ks) \in Waits
    BY DEF Decoding, Waits
  <2>3. decoding' \in [ParserCalls -> Waits]
    <3> HIDE DEF Waits
    <3> QED BY <2>1, <2>2 DEF ParserInv
  <2> QED BY <1>1, <2>1, <2>3 DEF ParserInv
<1> QED BY <1>2, <1>3

LEMMA StepLoads ==
  ASSUME ParserInv, NEW c \in ParserCalls, initWasm(c)
  PROVE  ParserInv'
<1>1. wasmModule' = wasmModule /\ parsed' = parsed
  BY DEF initWasm
<1>2. decoding' \in [ParserCalls -> Waits]
  <2>1. Loading \in Waits
    BY DEF Loading, Waits
  <2>2. decoding' = decoding \/ decoding' = [decoding EXCEPT ![c] = Loading]
    BY DEF initWasm
  <2> HIDE DEF Waits
  <2> QED BY <2>1, <2>2 DEF ParserInv
<1>3. \/ /\ wasmModule \/ initPromise = "true"
         /\ verdicts' = verdicts \cup {TRUE} /\ initPromise' = initPromise
      \/ /\ ~wasmModule /\ initPromise = "false"
         /\ verdicts' = verdicts \cup {FALSE} /\ initPromise' = initPromise
      \/ /\ initPromise = "none" /\ initPromise' = "false"
         /\ verdicts' = verdicts \cup {FALSE}
      \/ /\ initPromise \in {"none", "loading"} /\ initPromise' = "loading"
         /\ verdicts' = verdicts
  BY DEF initWasm
<1> QED BY <1>1, <1>2, <1>3 DEF ParserInv

LEMMA StepLoadEnds ==
  ASSUME ParserInv, NEW ok \in BOOLEAN, LoadEnds(ok)
  PROVE  ParserInv'
<1>1. /\ initPromise = "loading" /\ wasmModule' = ok /\ initPromise' = Cached(ok)
      /\ verdicts' = verdicts \cup {ok} /\ parsed' = parsed
  BY DEF LoadEnds
<1>2. decoding' \in [ParserCalls -> Waits]
  <2>1. Nothing \in Waits
    BY DEF Nothing, Waits
  <2> HIDE DEF Waits
  <2> QED BY <2>1 DEF LoadEnds, ParserInv
<1>3. CASE ok
  BY <1>1, <1>2, <1>3 DEF Cached, ParserInv
<1>4. CASE ~ok
  BY <1>1, <1>2, <1>4 DEF Cached, ParserInv
<1> QED BY <1>3, <1>4

LEMMA StepFallback ==
  ASSUME ParserInv, NEW c \in ParserCalls, FallbackAnswers(c)
  PROVE  ParserInv'
<1>1. decoding[c].keys \in Seq(LedgerKeys)
  BY DEF ParserInv, Waits
<1>2. \A p \in parsed' : p[1] \in LedgerKeys /\ RightAnswer(p[1], p[2])
  BY <1>1, TypeScriptIsRight, AnsweredRight DEF FallbackAnswers
<1>3. decoding' \in [ParserCalls -> Waits]
  <2>1. Nothing \in Waits
    BY DEF Nothing, Waits
  <2> HIDE DEF Waits
  <2> QED BY <2>1 DEF FallbackAnswers, ParserInv
<1> QED BY <1>2, <1>3 DEF FallbackAnswers, ParserInv

LEMMA ParserStep ==
  ASSUME ParserInv, [ParserNext]_parserVars
  PROVE  ParserInv'
<1>1. ASSUME NEW c \in ParserCalls, NEW key \in LedgerKeys, Classifies(c, <<key>>, FALSE)
      PROVE  ParserInv'
  <2>1. <<key>> \in Seq(LedgerKeys)
    OBVIOUS
  <2> QED BY <1>1, <2>1, StepClassifies
<1>2. ASSUME NEW c \in ParserCalls, NEW key \in BatchKeys, NEW other \in {"ttl"} \cup NotKeys,
             Classifies(c, <<key, [entry |-> other, shape |-> "other"]>>, TRUE)
      PROVE  ParserInv'
  <2>1. [entry |-> other, shape |-> "other"] \in LedgerKeys /\ key \in LedgerKeys
    BY DEF LedgerKeys, BatchKeys, OtherKeys, OtherEntries, NotKeys, Shapes
  <2>2. <<key, [entry |-> other, shape |-> "other"]>> \in Seq(LedgerKeys)
    <3> HIDE DEF LedgerKeys
    <3> QED BY <2>1
  <2> QED BY <1>2, <2>2, StepClassifies
<1>3. CASE UNCHANGED parserVars
  BY <1>3 DEF parserVars, ParserInv
<1> QED BY <1>1, <1>2, <1>3, StepLoads, StepLoadEnds, StepFallback DEF ParserNext

\* Whichever parser answers, whenever the other is loaded and whoever waits
\* for the loader, no two answers about a key contradict each other.
THEOREM ParsersConcur == PartsSpec => []ParsersAgree
<1>1. PartsInit => ParserInv
  <2>1. Nothing \in Waits
    BY DEF Nothing, Waits
  <2> HIDE DEF Waits
  <2> QED BY <2>1 DEF PartsInit, ParserInit, ParserInv
<1>2. ParserInv /\ [PartsNext]_partsVars => ParserInv'
  BY PartStep, ParserStep
<1>3. ParserInv => ParsersAgree
  <2> SUFFICES ASSUME ParserInv PROVE ParsersAgree
    OBVIOUS
  <2>1. ASSUME NEW key \in {p[1] : p \in parsed}, key.entry \notin NotKeys,
               NEW a \in KnownAnswers(key), NEW b \in KnownAnswers(key)
        PROVE  /\ a.keyType = b.keyType /\ a.sac = b.sac /\ a.contract = b.contract
               /\ key.entry # "ttl" => a.priority = b.priority
    <3>1. key \in LedgerKeys
      BY DEF ParserInv
    <3>2. \A x \in KnownAnswers(key) :
            x = classifyLedgerKey(key) \/ x = classify_ledger_key(key)
      BY DEF KnownAnswers, ParserInv, RightAnswer
    <3> QED BY <2>1, <3>1, <3>2, ClassificationsAgree DEF Agreeing
  <2>2. verdicts # BOOLEAN /\ (TRUE \in verdicts => wasmModule)
    BY DEF ParserInv
  <2> QED BY <2>1, <2>2 DEF ParsersAgree
<1> QED BY <1>1, <1>2, <1>3, PTL DEF PartsSpec

-----------------------------------------------------------------------------
(* The readers of JSON-RPC answers.                                        *)

\* A body that is no object has no members.
LEMMA BodyIs ==
  ASSUME NEW body \in Bodies
  PROVE  /\ body.json \in {"object", "none", "null", "value"}
         /\ body.result \in {"value", Absent}
         /\ body.error \in {Absent, "null", "scalar", "object"}
         /\ body.error = "object" => body.errorObject \in ErrorObjects
         /\ body.errorObject.code \in {MethodNotFound, "integer", "fraction", Absent}
<1>1. ASSUME NEW j \in {"none", "null", "value"}, body = NotAnObject(j)
      PROVE  /\ body.json = j /\ body.result = Absent /\ body.error = Absent
             /\ body.errorObject = NoErrorObject
  BY <1>1 DEF NotAnObject
<1>2. CASE body \in Objects
  BY <1>2 DEF Objects, ErrorObjects, NoErrorObject
<1>3. ASSUME NEW j \in {"none", "null", "value"}, body = NotAnObject(j)
      PROVE  /\ body.json \in {"object", "none", "null", "value"}
             /\ body.result \in {"value", Absent}
             /\ body.error \in {Absent, "null", "scalar", "object"}
             /\ body.error = "object" => body.errorObject \in ErrorObjects
             /\ body.errorObject.code \in {MethodNotFound, "integer", "fraction", Absent}
  BY <1>1, <1>3 DEF NoErrorObject, Absent
<1> QED BY <1>2, <1>3 DEF Bodies

LEMMA ReadersConcur ==
  ASSUME NEW body \in Bodies
  PROVE  LET strict == parseJsonRpcEnvelope(body)
             lax    == parseJsonRpcResult(body, TRUE)
         IN  /\ strict = Result => lax = Result /\ Probed(body) = "available"
             /\ strict.kind = "error" =>
                  /\ lax = strict
                  /\ Probed(body) = IF strict.code = MethodNotFound THEN "missing"
                                    ELSE "available"
<1> DEFINE strict == parseJsonRpcEnvelope(body)
           lax == parseJsonRpcResult(body, TRUE)
<1>1. Result.kind = "result" /\ Protocol.kind = "malformed" /\ Result # Protocol
      /\ \A code : Verdict("error", code).kind = "error" /\ Verdict("error", code).code = code
  BY DEF Result, Protocol, Verdict
<1>2. CASE ~WellFormed(body)
  <2>1. strict = Protocol
    BY <1>2 DEF parseJsonRpcEnvelope
  <2> HIDE DEF strict
  <2> QED BY <1>1, <2>1 DEF strict
<1>3. CASE WellFormed(body) /\ HasResult(body)
  <2>1. strict = Result /\ body.json = "object" /\ body.error = Absent
    BY <1>3 DEF parseJsonRpcEnvelope, WellFormed, HasError
  <2>2. lax = Result
    BY <1>3, <2>1 DEF parseJsonRpcResult
  <2>3. Probed(body) = "available"
    BY <2>1 DEF Probed, Absent
  <2> HIDE DEF strict, lax
  <2> QED BY <1>1, <2>1, <2>2, <2>3 DEF strict, lax
<1>4. CASE WellFormed(body) /\ ~HasResult(body)
  <2>1. CASE body.error = "object" /\ Code(body) \in {MethodNotFound, "integer"}
             /\ body.errorObject.message = "string"
    <3>1. strict = Verdict("error", Code(body)) /\ body.json = "object"
      BY <1>4, <2>1 DEF parseJsonRpcEnvelope, WellFormed
    <3>2. lax = Verdict("error", Code(body))
      BY <2>1, <3>1 DEF parseJsonRpcResult, Absent
    <3>3. Probed(body) = IF Code(body) = MethodNotFound THEN "missing" ELSE "available"
      BY <2>1, <3>1 DEF Probed
    <3> HIDE DEF strict, lax
    <3> QED BY <1>1, <3>1, <3>2, <3>3 DEF strict, lax
  <2>2. CASE ~(body.error = "object" /\ Code(body) \in {MethodNotFound, "integer"}
               /\ body.errorObject.message = "string")
    <3>1. strict = Protocol
      BY <1>4, <2>2 DEF parseJsonRpcEnvelope
    <3> HIDE DEF strict
    <3> QED BY <1>1, <3>1 DEF strict
  <2> QED BY <2>1, <2>2
<1> QED BY <1>2, <1>3, <1>4

AnswersInv == received \in Bodies

\* The three readers agree about every body that can be received.
THEOREM AnswersAreReadAlike == PartsSpec => []ReadersAgree
<1>1. PartsInit => AnswersInv
  BY DEF PartsInit, ReadersInit, Bodies, AnswersInv
<1>2. AnswersInv /\ [PartsNext]_partsVars => AnswersInv'
  BY PartStep DEF ReadersNext, AnswersInv
<1>3. AnswersInv => ReadersAgree
  BY ReadersConcur DEF ReadersAgree, AnswersInv
<1> QED BY <1>1, <1>2, <1>3, PTL DEF PartsSpec

-----------------------------------------------------------------------------
(* Version negotiation.                                                    *)

\* A version that was reported as a protocol is at most the node's, as far as
\* the schemas tell protocols apart.
VersionInv ==
  /\ node \in Nat \ {0} /\ cachedVersionInfo \in Nat /\ fromBuild \in BOOLEAN
  /\ ~fromBuild /\ cachedVersionInfo >= 22 => node >= 22

LEMMA VersionStep ==
  ASSUME VersionInv, [VersionNext]_versionVars
  PROVE  VersionInv'
<1>1. ASSUME NEW n \in Negotiations, NegotiateEnds(n) PROVE VersionInv'
  <2>1. PICK raw \in Reports :
          IF parseProtocolVersion(raw) < minimum
          THEN UNCHANGED <<cachedVersionInfo, fromBuild>>
          ELSE /\ cachedVersionInfo' = parseProtocolVersion(raw)
               /\ fromBuild' = (raw.version # NoVersion)
    BY <1>1 DEF NegotiateEnds
  <2>2. /\ raw.version \in Nat
        /\ \/ raw.protocolVersion = node
           \/ raw.protocolVersion = NoVersion
    <3>1. CASE raw \in [protocolVersion : {node}, version : {NoVersion}]
      BY <3>1 DEF NoVersion
    <3>2. CASE raw \in [protocolVersion : {NoVersion}, version : Builds \cup {NoVersion}]
      <4>1. Builds \cup {NoVersion} \subseteq Nat
        BY VersionAssumption DEF NoVersion
      <4> QED BY <3>2, <4>1
    <3> QED BY <3>1, <3>2 DEF Reports
  <2>3. node' = node
    BY <1>1 DEF NegotiateEnds
  <2>4. /\ parseProtocolVersion(raw) \in Nat
        /\ raw.version = NoVersion => parseProtocolVersion(raw) \in {node, MIN_SUPPORTED_PROTOCOL}
    BY <2>2 DEF parseProtocolVersion, VersionInv, Fallback, MIN_SUPPORTED_PROTOCOL
  <2>5. CASE parseProtocolVersion(raw) < minimum
    <3>1. cachedVersionInfo' = cachedVersionInfo /\ fromBuild' = fromBuild
      BY <2>1, <2>5
    <3> QED BY <2>3, <3>1 DEF VersionInv
  <2>6. CASE ~(parseProtocolVersion(raw) < minimum)
    <3>1. /\ cachedVersionInfo' = parseProtocolVersion(raw)
          /\ fromBuild' = (raw.version # NoVersion)
      BY <2>1, <2>6
    <3>2. fromBuild' \in BOOLEAN /\ (~fromBuild' => raw.version = NoVersion)
      BY <3>1
    <3>3. cachedVersionInfo' \in Nat
          /\ (~fromBuild' => cachedVersionInfo' \in {node, MIN_SUPPORTED_PROTOCOL})
      BY <2>4, <3>1, <3>2
    <3> QED BY <2>3, <3>2, <3>3 DEF VersionInv, MIN_SUPPORTED_PROTOCOL
  <2> QED BY <2>5, <2>6
<1>2. CASE NodeUpgraded
  BY <1>2, VersionAssumption DEF NodeUpgraded, VersionInv
<1>3. ASSUME NEW n \in Negotiations, NegotiateBegins(n) PROVE VersionInv'
  BY <1>3 DEF NegotiateBegins, VersionInv
<1>4. CASE UNCHANGED versionVars
  BY <1>4 DEF versionVars, VersionInv
<1> QED BY <1>1, <1>2, <1>3, <1>4 DEF VersionNext

\* However often a node is upgraded between and during negotiations, its full
\* results pass the schemas of a version that it reported.
THEOREM NodesUnderstood == PartsSpec => []NodesAreUnderstood
<1>1. PartsInit => VersionInv
  <2> SUFFICES ASSUME VersionInit PROVE VersionInv
    BY DEF PartsInit
  <2>1. node \in Nat \ {0} /\ fromBuild \in BOOLEAN
    BY VersionAssumption DEF VersionInit
  <2>2. cachedVersionInfo \in Nat /\ ~(cachedVersionInfo >= 22)
    <3>1. cachedVersionInfo = 0
      BY DEF VersionInit, NoVersion
    <3> QED BY <3>1
  <2> QED BY <2>1, <2>2, Zenon DEF VersionInv
<1>2. VersionInv /\ [PartsNext]_partsVars => VersionInv'
  BY PartStep, VersionStep
<1>3. VersionInv => NodesAreUnderstood
  <2> SUFFICES ASSUME VersionInv, cachedVersionInfo \in Matrix, ~fromBuild,
                      NEW method \in SchemaMethods
               PROVE  /\ adaptXdrEncoding(cachedVersionInfo) = cachedVersionInfo
                      /\ validateRpcResultSchema(method, FieldsOf(method, node), cachedVersionInfo)
    BY DEF NodesAreUnderstood, SchemaMethods
  <2>1. cachedVersionInfo \in SCHEMA_PROTOCOL_LINES
    BY DEF Matrix, SCHEMA_PROTOCOL_LINES
  <2>2. SinceFields(method, cachedVersionInfo) \subseteq SinceFields(method, node)
    BY DEF SinceFields, VersionInv
  <2> QED BY <2>1, <2>2 DEF adaptXdrEncoding, validateRpcResultSchema, FieldsOf
<1> QED BY <1>1, <1>2, <1>3, PTL DEF PartsSpec

-----------------------------------------------------------------------------
(* The footprint cache.                                                    *)

FootprintEntries == [cached : BOOLEAN, parsedIn : Nat, sequenced : BOOLEAN]

\* How old an entry may be.
Current(e) ==
  e.cached =>
    /\ \A s \in emitted : s <= e.parsedIn
    /\ e.sequenced => \A s \in reported : s <= e.parsedIn

\* What was reported has closed, and a sequence that the deduplicator knows
\* was emitted.
FootprintInv ==
  /\ closed \in 0..MaxClosed /\ clock \in Nat
  /\ footprints \in [Envelopes -> FootprintEntries]
  /\ recentSequences \in [1..MaxClosed -> Nat]
  /\ emitted \subseteq 1..closed /\ reported \subseteq 1..closed
  /\ \A s \in 1..MaxClosed : recentSequences[s] # Never => s \in emitted
  /\ \A t \in Envelopes : Current(footprints[t])

LEMMA FreshIsCurrent ==
  ASSUME FootprintInv, NEW b \in BOOLEAN
  PROVE  /\ Entry(b) \in FootprintEntries /\ Current(Entry(b))
         /\ Uncached \in FootprintEntries /\ Current(Uncached)
<1>1. closed \in Nat /\ \A s \in 1..closed : s <= closed
  BY FootprintAssumption DEF FootprintInv
<1>2. Entry(b).cached = TRUE /\ Entry(b).parsedIn = closed /\ Entry(b) \in FootprintEntries
  BY <1>1 DEF Entry, FootprintEntries
<1>3. Uncached.cached = FALSE /\ Uncached \in FootprintEntries
  BY DEF Uncached, FootprintEntries
<1> QED BY <1>1, <1>2, <1>3 DEF Current, FootprintInv

LEMMA StepSet ==
  ASSUME FootprintInv, NEW t \in Envelopes, NEW b \in BOOLEAN, Set(t, Entry(b)),
         UNCHANGED <<closed, recentSequences, clock, emitted, reported>>
  PROVE  FootprintInv'
<1>1. /\ Entry(b) \in FootprintEntries /\ Current(Entry(b))
      /\ Uncached \in FootprintEntries /\ Current(Uncached)
  BY FreshIsCurrent
<1>2. /\ footprints' \in [Envelopes -> FootprintEntries]
      /\ \A u \in Envelopes : footprints'[u] \in {Entry(b), Uncached, footprints[u]}
  <2> HIDE DEF FootprintEntries, Entry
  <2>1. CASE footprints' = [footprints EXCEPT ![t] = Entry(b)]
    BY <1>1, <2>1 DEF FootprintInv
  <2>2. ASSUME NEW d \in InCache \ {t},
               footprints' = [footprints EXCEPT ![d] = Uncached, ![t] = Entry(b)]
        PROVE  /\ footprints' \in [Envelopes -> FootprintEntries]
               /\ \A u \in Envelopes : footprints'[u] \in {Entry(b), Uncached, footprints[u]}
    BY <1>1, <2>2 DEF FootprintInv, InCache
  <2> QED BY <2>1, <2>2 DEF Set
<1>3. \A e : Current(e)' <=> Current(e)
  BY DEF Current
<1>4. \A u \in Envelopes : Current(footprints'[u])
  <2> SUFFICES ASSUME NEW u \in Envelopes PROVE Current(footprints'[u])
    OBVIOUS
  <2>1. footprints'[u] = Entry(b) \/ footprints'[u] = Uncached \/ footprints'[u] = footprints[u]
    BY <1>2
  <2>2. Current(footprints[u])
    BY DEF FootprintInv
  <2> HIDE DEF Current
  <2> QED BY <1>1, <2>1, <2>2
<1>5. \A u \in Envelopes : Current(footprints[u])'
  BY <1>4 DEF Current
<1> QED BY <1>2, <1>5 DEF FootprintInv, Never

\* A step that only drops entries, and after which those that are left are
\* current.
LEMMA StepKeep ==
  ASSUME FootprintInv, NEW K \in SUBSET InCache, footprints' = Keep(K),
         UNCHANGED <<closed, recentSequences, clock, emitted>>,
         NEW s \in 1..closed, reported' \subseteq reported \cup {s},
         s \in reported' =>
           \A t \in K : footprints[t].sequenced => s <= footprints[t].parsedIn
  PROVE  FootprintInv'
<1>1. Uncached \in FootprintEntries /\ Uncached.cached = FALSE
  BY DEF Uncached, FootprintEntries
<1>2. \A t \in Envelopes : footprints'[t] = IF t \in K THEN footprints[t] ELSE Uncached
  BY DEF Keep
<1>3. footprints' \in [Envelopes -> FootprintEntries]
  <2> HIDE DEF FootprintEntries
  <2> QED BY <1>1 DEF Keep, FootprintInv
<1>4. ASSUME NEW t \in Envelopes PROVE Current(footprints[t])'
  <2>1. CASE t \notin K
    BY <1>1, <1>2, <2>1 DEF Current
  <2>2. CASE t \in K
    BY <1>2, <2>2 DEF Current, FootprintInv
  <2> QED BY <2>1, <2>2
<1>5. reported' \subseteq 1..closed'
  BY DEF FootprintInv
<1> QED BY <1>3, <1>4, <1>5 DEF FootprintInv, Never

LEMMA StepEmits ==
  ASSUME FootprintInv, NEW s \in 1..closed, EmitLedgerClose(s)
  PROVE  FootprintInv'
<1>1. closed' = closed /\ clock' = clock /\ reported' = reported /\ emitted' = emitted \cup {s}
  BY DEF EmitLedgerClose
<1>2. closed \in 0..MaxClosed /\ s \in 1..MaxClosed
  BY FootprintAssumption DEF FootprintInv
<1>3. /\ Never \in Nat /\ Pruned \in [1..MaxClosed -> Nat]
      /\ \A q \in 1..MaxClosed : Pruned[q] # Never => recentSequences[q] # Never
  BY FootprintAssumption DEF Pruned, Never, FootprintInv
<1>4. emitted' \subseteq 1..closed' /\ reported' \subseteq 1..closed'
  BY <1>1 DEF FootprintInv
<1>5. CASE isDuplicate(s)
  <2>1. recentSequences' = Pruned /\ footprints' = footprints
    BY <1>5 DEF EmitLedgerClose
  <2>2. s \in emitted
    BY <1>2, <1>5 DEF isDuplicate, Recent, FootprintInv
  <2>3. emitted' = emitted
    BY <1>1, <2>2
  <2>4. \A t \in Envelopes : Current(footprints[t])'
    BY <1>1, <2>1, <2>3 DEF Current, FootprintInv
  <2>5. \A q \in 1..MaxClosed : recentSequences'[q] # Never => q \in emitted'
    BY <1>3, <2>1, <2>3 DEF FootprintInv
  <2> QED BY <1>1, <1>3, <1>4, <2>1, <2>4, <2>5 DEF FootprintInv, Never
<1>6. CASE ~isDuplicate(s)
  <2>1. recentSequences' = [Pruned EXCEPT ![s] = clock] /\ footprints' = Keep({})
    BY <1>6 DEF EmitLedgerClose
  <2>2. /\ recentSequences' \in [1..MaxClosed -> Nat]
        /\ \A q \in 1..MaxClosed : recentSequences'[q] # Never =>
             q = s \/ recentSequences[q] # Never
    <3> HIDE DEF Pruned
    <3> QED BY <1>3, <2>1 DEF FootprintInv
  <2>3. \A q \in 1..MaxClosed : recentSequences'[q] # Never => q \in emitted'
    BY <1>1, <2>2 DEF FootprintInv
  <2>4. Uncached \in FootprintEntries /\ Uncached.cached = FALSE
    BY DEF Uncached, FootprintEntries
  <2>5. /\ footprints' \in [Envelopes -> FootprintEntries]
        /\ \A t \in Envelopes : footprints'[t] = Uncached
    <3> HIDE DEF FootprintEntries
    <3> QED BY <2>1, <2>4 DEF Keep
  <2>6. \A t \in Envelopes : Current(footprints[t])'
    BY <2>4, <2>5 DEF Current
  <2> QED BY <1>1, <1>4, <2>2, <2>3, <2>5, <2>6 DEF FootprintInv, Never
<1> QED BY <1>5, <1>6

LEMMA ParsedInType ==
  ASSUME FootprintInv, NEW t \in Envelopes
  PROVE  footprints[t].parsedIn \in Nat
  BY DEF FootprintInv, FootprintEntries

LEMMA StepLedger ==
  ASSUME FootprintInv, LedgerCloses \/ ClockTicks \/ UNCHANGED footprintVars
  PROVE  FootprintInv'
<1>1. /\ UNCHANGED <<footprints, recentSequences, emitted, reported>>
      /\ clock' \in Nat /\ closed' \in 0..MaxClosed /\ closed' >= closed
  BY FootprintAssumption DEF LedgerCloses, ClockTicks, footprintVars, FootprintInv
<1>2. 1..closed \subseteq 1..closed'
  BY <1>1, FootprintAssumption DEF FootprintInv
<1>3. \A t \in Envelopes : Current(footprints[t])'
  BY <1>1 DEF Current, FootprintInv
<1> QED BY <1>1, <1>2, <1>3 DEF FootprintInv, Never

LEMMA FootprintStep ==
  ASSUME FootprintInv, [FootprintNext]_footprintVars
  PROVE  FootprintInv'
<1>1. ASSUME NEW t \in Envelopes, ExtractFootprintCached(t) \/ StoreFootprint(t)
      PROVE  FootprintInv'
  BY <1>1, StepSet DEF ExtractFootprintCached, StoreFootprint
<1>2. ASSUME NEW K \in SUBSET Envelopes, InvalidateFootprints(K)
      PROVE  FootprintInv'
  <2>1. /\ footprints' = Keep(InCache \ K)
        /\ UNCHANGED <<closed, recentSequences, clock, emitted, reported>>
    BY <1>2 DEF InvalidateFootprints
  <2>2. Uncached \in FootprintEntries /\ Uncached.cached = FALSE
    BY DEF Uncached, FootprintEntries
  <2>3. /\ footprints' \in [Envelopes -> FootprintEntries]
        /\ \A t \in Envelopes : footprints'[t] = Uncached \/ footprints'[t] = footprints[t]
    <3> HIDE DEF FootprintEntries
    <3> QED BY <2>1, <2>2 DEF Keep, FootprintInv
  <2>4. ASSUME NEW t \in Envelopes PROVE Current(footprints[t])'
    <3>1. CASE footprints'[t] = Uncached
      BY <2>2, <3>1 DEF Current
    <3>2. CASE footprints'[t] = footprints[t]
      BY <2>1, <3>2 DEF Current, FootprintInv
    <3> QED BY <2>3, <3>1, <3>2
  <2> QED BY <2>1, <2>3, <2>4 DEF FootprintInv, Never
<1>3. ASSUME NEW s \in 1..closed, OnLedgerClose(s)
      PROVE  FootprintInv'
  <2> DEFINE K == {t \in InCache : footprints[t].sequenced => footprints[t].parsedIn > s - 1}
  <2>1. /\ footprints' = Keep(K) /\ UNCHANGED <<closed, recentSequences, clock, emitted>>
        /\ reported' = reported \cup {s}
    BY <1>3 DEF OnLedgerClose
  <2>2. K \in SUBSET InCache /\ InCache \subseteq Envelopes
    BY DEF InCache
  <2>3. s \in Nat
    BY FootprintAssumption DEF FootprintInv
  <2>4. \A t \in K : footprints[t].sequenced => s <= footprints[t].parsedIn
    <3> SUFFICES ASSUME NEW t \in K, footprints[t].sequenced PROVE s <= footprints[t].parsedIn
      OBVIOUS
    <3>1. footprints[t].parsedIn > s - 1
      OBVIOUS
    <3> QED BY <2>2, <2>3, <3>1, ParsedInType
  <2>5. reported' \subseteq reported \cup {s}
    BY <2>1
  <2> HIDE DEF K
  <2> QED BY <2>1, <2>2, <2>4, <2>5, StepKeep
<1>4. ASSUME NEW s \in 1..closed, EmitLedgerClose(s)
      PROVE  FootprintInv'
  BY <1>4, StepEmits
<1>5. CASE LedgerCloses \/ ClockTicks \/ UNCHANGED footprintVars
  BY <1>5, StepLedger
<1> QED BY <1>1, <1>2, <1>3, <1>4, <1>5 DEF FootprintNext

\* However late, often and out of order closes are reported, and whatever the
\* deduplicator drops, the cache keeps no entry that is older than a close
\* that it was told of.
THEOREM FootprintsStayCurrent == PartsSpec => []FootprintsAreCurrent
<1>1. PartsInit => FootprintInv
  <2> SUFFICES ASSUME FootprintInit PROVE FootprintInv
    BY DEF PartsInit
  <2>1. /\ closed = 0 /\ clock = 0 /\ emitted = {} /\ reported = {}
        /\ footprints = [t \in Envelopes |-> Uncached]
        /\ recentSequences = [s \in 1..MaxClosed |-> Never]
    BY DEF FootprintInit
  <2>2. Uncached \in FootprintEntries /\ Uncached.cached = FALSE /\ Never \in Nat
    BY FootprintAssumption DEF Uncached, FootprintEntries, Never
  <2>3. closed \in 0..MaxClosed /\ clock \in Nat
    BY <2>1, FootprintAssumption
  <2>4. /\ footprints \in [Envelopes -> FootprintEntries]
        /\ recentSequences \in [1..MaxClosed -> Nat]
    <3> HIDE DEF FootprintEntries
    <3> QED BY <2>1, <2>2
  <2>5. \A t \in Envelopes : Current(footprints[t])
    BY <2>1, <2>2 DEF Current
  <2>6. \A s \in 1..MaxClosed : recentSequences[s] = Never
    BY <2>1
  <2> QED BY <2>1, <2>3, <2>4, <2>5, <2>6 DEF FootprintInv
<1>2. FootprintInv /\ [PartsNext]_partsVars => FootprintInv'
  BY PartStep, FootprintStep
<1>3. FootprintInv => FootprintsAreCurrent
  BY DEF FootprintInv, Current, FootprintsAreCurrent, InCache
<1> QED BY <1>1, <1>2, <1>3, PTL DEF PartsSpec

-----------------------------------------------------------------------------
(* The shared checks of the methods of an endpoint.                        *)

ProbeRecords ==
  [url : Endpoints, next : Nat, missing : BOOLEAN, available : SUBSET Methods,
   state : {"running", "passed", "failed"}]

\* A check under way that has missed no method has found all it asked for.
Honest(p) ==
  /\ p.state = "running" =>
       p.next \in Methods /\ (p.missing = FALSE => p.available = 1..(p.next - 1))
  /\ p.state = "passed" => p.available = Methods

\* A call waits for a check that runs, and none that had ended before.
BuildOk(b) ==
  /\ builds[b].state = "built" =>
       builds[b].check \in DOMAIN probes /\ probes[builds[b].check].state = "passed"
  /\ builds[b].state = "waiting" =>
       builds[b].check \in DOMAIN probes /\ probes[builds[b].check].state = "running"
  /\ builds[b].state \in {"waiting", "refused"} => builds[b].check \notin begunAfter[b]

BuildRecords == [check : Nat, state : {"idle", "waiting", "built", "refused"}]

ProbesInv ==
  /\ offered \in [Endpoints -> SUBSET Methods] /\ primary \in Endpoints
  /\ probes \in Seq(ProbeRecords)
  /\ restoreMethodChecks \in [Endpoints -> Nat]
  /\ builds \in [Builders -> BuildRecords]
  /\ begunAfter \in [Builders -> SUBSET Nat]
  /\ \A n \in DOMAIN probes : Honest(probes[n])
  /\ \A u \in Endpoints : restoreMethodChecks[u] # NoProbe =>
       /\ restoreMethodChecks[u] \in DOMAIN probes
       /\ probes[restoreMethodChecks[u]].state # "failed"
       /\ probes[restoreMethodChecks[u]].url = u
  /\ \A b \in Builders : BuildOk(b)

\* A new call: it joins the check kept for the endpoint, or starts one.
LEMMA StepEnsures ==
  ASSUME ProbesInv, NEW b \in Builders, EnsureRestoreMethodsAvailable(b)
  PROVE  ProbesInv'
<1> DEFINE kept == restoreMethodChecks[primary]
           new == [url |-> primary, next |-> 1, missing |-> FALSE,
                   available |-> {}, state |-> "running"]
           check == IF kept = NoProbe THEN Len(probes) + 1 ELSE kept
           mine == [check |-> check, state |->
                      IF check \notin Ended THEN "waiting"
                      ELSE IF probes[check].state = "passed" THEN "built" ELSE "refused"]
<1>1. /\ probes' = IF kept # NoProbe THEN probes ELSE Append(probes, new)
      /\ restoreMethodChecks' = [restoreMethodChecks EXCEPT ![primary] = check]
      /\ builds' = [builds EXCEPT ![b] = mine]
      /\ begunAfter' = [begunAfter EXCEPT ![b] = Ended]
      /\ UNCHANGED <<offered, primary, outages>>
  BY DEF EnsureRestoreMethodsAvailable
<1>2. /\ primary \in Endpoints /\ probes \in Seq(ProbeRecords) /\ Len(probes) \in Nat
      /\ DOMAIN probes = 1..Len(probes) /\ kept \in Nat /\ check \in Nat
  BY DEF ProbesInv
<1>3. new \in ProbeRecords /\ Honest(new)
  <2>1. 1 \in Methods /\ 1..(1 - 1) = {}
    BY AnswersAssumption DEF Methods
  <2> QED BY <1>2, <2>1 DEF ProbeRecords, Honest
<1> HIDE DEF ProbeRecords, new
<1>4. /\ probes' \in Seq(ProbeRecords)
      /\ DOMAIN probes \subseteq DOMAIN probes'
      /\ \A n \in DOMAIN probes : probes'[n] = probes[n]
      /\ kept = NoProbe => check \in DOMAIN probes' /\ check \notin DOMAIN probes
                           /\ probes'[check] = new
      /\ \A n \in DOMAIN probes' : n \in DOMAIN probes \/ probes'[n] = new
  <2>1. CASE kept # NoProbe
    BY <1>1, <1>2, <2>1
  <2>2. CASE kept = NoProbe
    BY <1>1, <1>2, <1>3, <2>2
  <2> QED BY <2>1, <2>2
<1>5. /\ check # NoProbe /\ check \in DOMAIN probes'
      /\ probes'[check].state # "failed" /\ probes'[check].url = primary
  <2>1. CASE kept # NoProbe
    BY <1>1, <1>2, <1>4, <2>1 DEF ProbesInv
  <2>2. CASE kept = NoProbe
    BY <1>2, <1>4, <2>2 DEF new, NoProbe
  <2> QED BY <2>1, <2>2
<1>6. Ended \subseteq DOMAIN probes /\ Ended \in SUBSET Nat
  BY <1>2 DEF Ended
<1>7. \A n \in DOMAIN probes : probes[n].state \in {"running", "passed", "failed"}
  <2>1. \A n \in DOMAIN probes : probes[n] \in ProbeRecords
    BY <1>2
  <2> QED BY <2>1 DEF ProbeRecords
<1>8. /\ mine \in BuildRecords
      /\ check \in Ended => check \in DOMAIN probes /\ probes[check].state = "passed"
      /\ check \notin Ended => probes'[check].state = "running"
  <2>1. mine \in BuildRecords
    BY <1>2 DEF BuildRecords
  <2>2. check \in Ended => check \in DOMAIN probes /\ probes[check].state = "passed"
    BY <1>4, <1>5, <1>6, <1>7 DEF Ended
  <2>3. check \notin Ended => probes'[check].state = "running"
    <3>1. CASE check \in DOMAIN probes
      BY <1>4, <3>1 DEF Ended
    <3>2. CASE check \notin DOMAIN probes
      BY <1>4, <1>5, <3>2 DEF new
    <3> QED BY <3>1, <3>2
  <2> QED BY <2>1, <2>2, <2>3
<1> HIDE DEF check, BuildRecords
<1>9. /\ mine.check = check
      /\ check \notin Ended => mine.state = "waiting"
      /\ check \in Ended => mine.state = "built"
  BY <1>8
<1> HIDE DEF mine
<1>10. /\ restoreMethodChecks' \in [Endpoints -> Nat] /\ builds' \in [Builders -> BuildRecords]
       /\ begunAfter' \in [Builders -> SUBSET Nat]
       /\ \A u \in Endpoints :
            restoreMethodChecks'[u] = IF u = primary THEN check ELSE restoreMethodChecks[u]
       /\ \A c \in Builders : builds'[c] = IF c = b THEN mine ELSE builds[c]
       /\ \A c \in Builders : begunAfter'[c] = IF c = b THEN Ended ELSE begunAfter[c]
  BY <1>1, <1>2, <1>6, <1>8 DEF ProbesInv
<1>11. ASSUME NEW c \in Builders PROVE BuildOk(c)'
  <2>1. CASE c = b
    <3>1. CASE check \in Ended
      BY <1>4, <1>5, <1>8, <1>9, <1>10, <2>1, <3>1 DEF BuildOk
    <3>2. CASE check \notin Ended
      BY <1>5, <1>8, <1>9, <1>10, <2>1, <3>2 DEF BuildOk
    <3> QED BY <3>1, <3>2
  <2>2. CASE c # b
    <3>1. BuildOk(c)
      BY DEF ProbesInv
    <3> QED BY <1>4, <1>10, <2>2, <3>1 DEF BuildOk
  <2> QED BY <2>1, <2>2
<1>12. ASSUME NEW u \in Endpoints, restoreMethodChecks'[u] # NoProbe
       PROVE  /\ restoreMethodChecks'[u] \in DOMAIN probes'
              /\ probes'[restoreMethodChecks'[u]].state # "failed"
              /\ probes'[restoreMethodChecks'[u]].url = u
  <2>1. CASE u = primary
    BY <1>5, <1>10, <2>1
  <2>2. CASE u # primary
    BY <1>4, <1>10, <1>12, <2>2 DEF ProbesInv
  <2> QED BY <2>1, <2>2
<1>13. \A n \in DOMAIN probes' : Honest(probes'[n])
  BY <1>3, <1>4 DEF ProbesInv
<1> QED BY <1>1, <1>4, <1>10, <1>11, <1>12, <1>13 DEF ProbesInv

\* A check goes on or ends, and the calls that wait for it are answered.
LEMMA StepSettles ==
  ASSUME ProbesInv, NEW n \in DOMAIN probes, probes[n].state = "running",
         NEW p \in ProbeRecords, Honest(p), p.url = probes[n].url, Settles(n, p),
         UNCHANGED <<offered, primary, begunAfter>>
  PROVE  ProbesInv'
<1>1. /\ probes' = [probes EXCEPT ![n] = p]
      /\ restoreMethodChecks' = ChecksAfter(n, p.state)
      /\ builds' = [b \in Builders |->
           IF builds[b].state = "waiting" /\ builds[b].check = n /\ p.state # "running"
           THEN [builds[b] EXCEPT !.state = IF p.state = "passed" THEN "built" ELSE "refused"]
           ELSE builds[b]]
  BY DEF Settles
<1>2. p.state \in {"running", "passed", "failed"}
  BY DEF ProbeRecords
<1> HIDE DEF ProbeRecords
<1>3. /\ probes' \in Seq(ProbeRecords) /\ DOMAIN probes' = DOMAIN probes
      /\ \A m \in DOMAIN probes : probes'[m] = IF m = n THEN p ELSE probes[m]
  BY <1>1 DEF ProbesInv
<1>4. /\ restoreMethodChecks' \in [Endpoints -> Nat]
      /\ \A u \in Endpoints : \/ restoreMethodChecks'[u] = NoProbe
                              \/ restoreMethodChecks'[u] = restoreMethodChecks[u]
      /\ p.state = "failed" => restoreMethodChecks'[probes[n].url] = NoProbe
  <2>1. probes[n].url \in Endpoints /\ NoProbe \in Nat
    <3>1. probes[n] \in ProbeRecords
      BY DEF ProbesInv
    <3> QED BY <3>1 DEF ProbeRecords, NoProbe
  <2> QED BY <1>1, <2>1 DEF ChecksAfter, ProbesInv
<1>5. ASSUME NEW u \in Endpoints, restoreMethodChecks'[u] # NoProbe
      PROVE  /\ restoreMethodChecks'[u] \in DOMAIN probes'
             /\ probes'[restoreMethodChecks'[u]].state # "failed"
             /\ probes'[restoreMethodChecks'[u]].url = u
  <2>1. /\ restoreMethodChecks'[u] = restoreMethodChecks[u]
        /\ restoreMethodChecks[u] \in DOMAIN probes
        /\ probes[restoreMethodChecks[u]].state # "failed"
        /\ probes[restoreMethodChecks[u]].url = u
    BY <1>4, <1>5 DEF ProbesInv
  <2>2. CASE restoreMethodChecks[u] = n
    BY <1>3, <1>4, <1>5, <2>1, <2>2
  <2>3. CASE restoreMethodChecks[u] # n
    BY <1>3, <2>1, <2>3
  <2> QED BY <2>2, <2>3
<1>6. /\ builds' \in [Builders -> BuildRecords]
      /\ \A b \in Builders :
           LET hit == builds[b].state = "waiting" /\ builds[b].check = n /\ p.state # "running"
           IN  /\ ~hit => builds'[b] = builds[b]
               /\ hit => /\ builds'[b].check = n
                         /\ builds'[b].state = IF p.state = "passed" THEN "built" ELSE "refused"
  <2> SUFFICES ASSUME NEW b \in Builders
               PROVE  LET hit == builds[b].state = "waiting" /\ builds[b].check = n /\ p.state # "running"
                      IN  /\ builds'[b] \in BuildRecords
                          /\ ~hit => builds'[b] = builds[b]
                          /\ hit => /\ builds'[b].check = n
                                    /\ builds'[b].state = IF p.state = "passed" THEN "built" ELSE "refused"
    BY <1>1
  <2>1. builds[b] \in BuildRecords
    BY DEF ProbesInv
  <2> DEFINE hit == builds[b].state = "waiting" /\ builds[b].check = n /\ p.state # "running"
             v == IF p.state = "passed" THEN "built" ELSE "refused"
  <2>2. builds'[b] = IF hit THEN [builds[b] EXCEPT !.state = v] ELSE builds[b]
    BY <1>1
  <2>3. v \in {"built", "refused"}
    OBVIOUS
  <2>4. CASE hit
    <3>1. builds'[b] = [builds[b] EXCEPT !.state = v]
      BY <2>2, <2>4
    <3>2. builds[b].check = n
      BY <2>4
    <3> HIDE DEF v
    <3>3. builds'[b] \in BuildRecords /\ builds'[b].check = n /\ builds'[b].state = v
      BY <2>1, <2>3, <3>1, <3>2 DEF BuildRecords
    <3> QED BY <2>4, <3>3 DEF v
  <2>5. CASE ~hit
    BY <2>1, <2>2, <2>5
  <2> QED BY <2>4, <2>5
<1>7. ASSUME NEW b \in Builders PROVE BuildOk(b)'
  <2>1. BuildOk(b) /\ begunAfter' = begunAfter
    BY DEF ProbesInv
  <2>2. CASE builds[b].state = "waiting" /\ builds[b].check = n /\ p.state # "running"
    <3>1. builds'[b].check = n /\ builds'[b].state = IF p.state = "passed" THEN "built" ELSE "refused"
      BY <1>6, <2>2
    <3>2. builds[b].check \notin begunAfter[b] /\ probes'[n] = p
      BY <1>3, <2>1, <2>2 DEF BuildOk
    <3> QED BY <1>2, <1>3, <2>1, <2>2, <3>1, <3>2 DEF BuildOk
  <2>3. CASE ~(builds[b].state = "waiting" /\ builds[b].check = n /\ p.state # "running")
    <3>1. builds'[b] = builds[b]
      BY <1>6, <2>3
    <3> QED BY <1>3, <2>1, <2>3, <3>1 DEF BuildOk
  <2> QED BY <2>2, <2>3
<1>8. \A m \in DOMAIN probes' : Honest(probes'[m])
  BY <1>3 DEF ProbesInv
<1> QED BY <1>3, <1>4, <1>5, <1>6, <1>7, <1>8 DEF ProbesInv

ProbeAfter(q, nx, ms, av, st) ==
  [q EXCEPT !.next = nx, !.missing = ms, !.available = av, !.state = st]

\* What a check is after an answer, field by field.
LEMMA AnsweredProbe ==
  ASSUME NEW q \in ProbeRecords, NEW nx \in Nat, NEW ms \in BOOLEAN,
         NEW av \in SUBSET Methods, NEW st \in {"running", "passed", "failed"}
  PROVE  LET p == ProbeAfter(q, nx, ms, av, st)
         IN  /\ p \in ProbeRecords /\ p.url = q.url /\ p.next = nx
             /\ p.missing = ms /\ p.available = av /\ p.state = st
<1>1. CASE ms = TRUE
  BY <1>1 DEF ProbeRecords, ProbeAfter
<1>2. CASE ms = FALSE
  BY <1>2 DEF ProbeRecords, ProbeAfter
<1> QED BY <1>1, <1>2

LEMMA StepAnswers ==
  ASSUME ProbesInv, NEW n \in DOMAIN probes, ProbeAnswers(n)
  PROVE  ProbesInv'
<1> DEFINE q == probes[n]
           m == q.next
<1>1. PICK v \in {Probed(body) : body \in Bodies} :
        Settles(n, ProbeAfter(q, m + 1, q.missing \/ v = "missing",
          IF v = "available" THEN q.available \cup {m} ELSE q.available,
          IF v = "throws" THEN "failed"
          ELSE IF m < MethodCount THEN "running"
          ELSE IF q.missing \/ v = "missing" THEN "failed" ELSE "passed"))
  BY Zenon DEF ProbeAnswers, ProbeAfter
<1>2. q.state = "running" /\ UNCHANGED <<offered, primary, begun, outages, begunAfter>>
  BY DEF ProbeAnswers
<1>3. v \in {"throws", "missing", "available"}
  BY DEF Probed
<1>4. q \in ProbeRecords /\ Honest(q)
  BY DEF ProbesInv
<1>5. /\ m \in Nat /\ q.missing \in BOOLEAN /\ q.available \in SUBSET Methods
      /\ m \in Methods /\ Methods = 1..MethodCount /\ MethodCount \in Nat
      /\ q.missing = FALSE => q.available = 1..(m - 1)
  <2>1. q.next \in Nat /\ q.missing \in BOOLEAN /\ q.available \in SUBSET Methods
    BY <1>4 DEF ProbeRecords
  <2> QED BY <1>2, <1>4, <2>1, AnswersAssumption DEF Honest, Methods
<1> DEFINE ms == q.missing \/ v = "missing"
           av == IF v = "available" THEN q.available \cup {m} ELSE q.available
           st == IF v = "throws" THEN "failed"
                 ELSE IF m < MethodCount THEN "running"
                 ELSE IF ms THEN "failed" ELSE "passed"
           nx == m + 1
           p == ProbeAfter(q, nx, ms, av, st)
<1>6. Settles(n, p)
  BY <1>1, Zenon
<1>7. /\ ms \in BOOLEAN /\ av \in SUBSET Methods
      /\ st \in {"running", "passed", "failed"} /\ nx \in Nat
  BY <1>5
<1>8. st = "running" => nx \in Methods /\ (ms = FALSE => av = 1..(nx - 1))
  <2> SUFFICES ASSUME st = "running"
               PROVE  nx \in Methods /\ (ms = FALSE => av = 1..(nx - 1))
    OBVIOUS
  <2>1. m < MethodCount /\ v # "throws"
    OBVIOUS
  <2>2. ms = FALSE => v = "available" /\ q.missing = FALSE
    BY <1>3, <1>5, <2>1
  <2>3. 1..(nx - 1) = 1..(m - 1) \cup {m}
    BY <1>5
  <2>4. ms = FALSE => av = 1..(nx - 1)
    BY <1>5, <2>2, <2>3
  <2>5. nx \in Methods
    BY <1>5, <2>1
  <2> QED BY <2>4, <2>5
<1>9. st = "passed" => av = Methods
  <2> SUFFICES ASSUME st = "passed" PROVE av = Methods
    OBVIOUS
  <2>1. ~(m < MethodCount) /\ v # "throws" /\ ~ms
    BY <1>7
  <2>2. v = "available" /\ q.missing = FALSE
    BY <1>3, <1>5, <2>1
  <2>3. m = MethodCount /\ 1..m = 1..(m - 1) \cup {m}
    BY <1>5, <2>1
  <2> QED BY <1>5, <2>2, <2>3
<1>10. p \in ProbeRecords /\ p.url = q.url /\ p.next = nx
       /\ p.missing = ms /\ p.available = av /\ p.state = st
  <2> HIDE DEF q, m, nx, ms, av, st
  <2> QED BY <1>4, <1>7, AnsweredProbe
<1> HIDE DEF m, nx, ms, av, st, p
<1>11. Honest(p)
  <2>1. p.state = "running" =>
          p.next \in Methods /\ (p.missing = FALSE => p.available = 1..(p.next - 1))
    <3> SUFFICES ASSUME p.state = "running"
                 PROVE  p.next \in Methods /\ (p.missing = FALSE => p.available = 1..(p.next - 1))
      OBVIOUS
    <3>1. nx \in Methods /\ (ms = FALSE => av = 1..(nx - 1))
      BY <1>8, <1>10, Zenon
    <3>2. p.next = nx /\ p.available = av /\ p.missing = ms
      BY <1>10
    <3>3. p.missing = FALSE => ms = FALSE
      BY <3>2, Zenon
    <3>4. 1..(p.next - 1) = 1..(nx - 1)
      BY <3>2, Zenon
    <3>5. p.missing = FALSE => p.available = 1..(p.next - 1)
      BY <3>1, <3>2, <3>3, <3>4, Zenon
    <3> QED BY <3>1, <3>2, <3>5, Zenon
  <2>2. p.state = "passed" => p.available = Methods
    BY <1>9, <1>10, Zenon
  <2> QED BY <2>1, <2>2, Zenon DEF Honest
<1> QED BY <1>2, <1>6, <1>10, <1>11, StepSettles

LEMMA StepLost ==
  ASSUME ProbesInv, NEW n \in DOMAIN probes, ProbeLost(n)
  PROVE  ProbesInv'
<1> DEFINE p == [probes[n] EXCEPT !.state = "failed"]
<1>1. /\ probes[n].state = "running" /\ Settles(n, p)
      /\ UNCHANGED <<offered, primary, begunAfter>>
  BY DEF ProbeLost
<1>2. probes[n] \in ProbeRecords
  BY DEF ProbesInv
<1>3. p \in ProbeRecords /\ p.url = probes[n].url /\ p.state = "failed"
  BY <1>2 DEF ProbeRecords
<1>4. Honest(p)
  BY <1>3 DEF Honest
<1> HIDE DEF p
<1> QED BY <1>1, <1>3, <1>4, StepSettles

LEMMA ProbesStep ==
  ASSUME ProbesInv, [ProbesNext]_probeVars
  PROVE  ProbesInv'
<1>1. ASSUME NEW u \in Endpoints, EndpointChanges(u) PROVE ProbesInv'
  <2>1. offered' \in [Endpoints -> SUBSET Methods] /\ primary' \in Endpoints
    <3>1. offered \in [Endpoints -> SUBSET Methods] /\ primary \in Endpoints
      BY DEF ProbesInv
    <3>2. ASSUME NEW m \in Methods,
                 offered' = [offered EXCEPT ![u] = IF m \in @ THEN @ \ {m} ELSE @ \cup {m}]
          PROVE  offered' \in [Endpoints -> SUBSET Methods]
      BY <3>1, <3>2
    <3> QED BY <1>1, <3>1, <3>2 DEF EndpointChanges
  <2>2. UNCHANGED <<probes, restoreMethodChecks, builds, begunAfter>>
    BY <1>1 DEF EndpointChanges
  <2> QED BY <2>1, <2>2 DEF ProbesInv, BuildOk
<1>2. CASE UNCHANGED probeVars
  BY <1>2 DEF probeVars, ProbesInv, BuildOk
<1> QED BY <1>1, <1>2, StepEnsures, StepAnswers, StepLost DEF ProbesNext

\* Calls that share a check never build on one that failed or asked for too
\* little, and none is refused by a check that was over when it began.
THEOREM SharedChecksAreFresh == PartsSpec => []ChecksAreFresh
<1>1. PartsInit => ProbesInv
  <2> SUFFICES ASSUME ProbesInit PROVE ProbesInv
    BY DEF PartsInit
  <2>1. /\ offered = [u \in Endpoints |-> Methods] /\ primary = CHOOSE u \in Endpoints : TRUE
        /\ probes = <<>> /\ restoreMethodChecks = [u \in Endpoints |-> NoProbe]
        /\ builds = [b \in Builders |-> [check |-> NoProbe, state |-> "idle"]]
        /\ begunAfter = [b \in Builders |-> {}]
    BY DEF ProbesInit
  <2>2. primary \in Endpoints /\ NoProbe \in Nat
    BY <2>1, AnswersAssumption DEF NoProbe
  <2>3. builds \in [Builders -> BuildRecords] /\ \A b \in Builders : builds[b].state = "idle"
    BY <2>1, <2>2 DEF BuildRecords
  <2>4. \A b \in Builders : BuildOk(b)
    BY <2>3 DEF BuildOk
  <2>5. probes \in Seq(ProbeRecords) /\ DOMAIN probes = {}
    <3> HIDE DEF ProbeRecords
    <3> QED BY <2>1
  <2>6. /\ offered \in [Endpoints -> SUBSET Methods]
        /\ restoreMethodChecks \in [Endpoints -> Nat]
        /\ \A u \in Endpoints : restoreMethodChecks[u] = NoProbe
        /\ begunAfter \in [Builders -> SUBSET Nat]
    BY <2>1, <2>2
  <2> HIDE DEF ProbeRecords
  <2> QED BY <2>2, <2>3, <2>4, <2>5, <2>6 DEF ProbesInv
<1>2. ProbesInv /\ [PartsNext]_partsVars => ProbesInv'
  BY PartStep, ProbesStep
<1>3. ProbesInv => ChecksAreFresh
  BY DEF ProbesInv, BuildOk, Honest, ChecksAreFresh
<1> QED BY <1>1, <1>2, <1>3, PTL DEF PartsSpec

-----------------------------------------------------------------------------
(* The recording of the mock server.                                       *)

\* An interaction is recorded as it was given, under the condition it was
\* given under if that is known.
Same(x, y) ==
  /\ x = [y EXCEPT !.networkCondition = x.networkCondition]
  /\ y.networkCondition \in {x.networkCondition, Unknown}

Alike(xs, ys) ==
  /\ xs \in Seq(Interactions) /\ ys \in Seq(Interactions) /\ Len(xs) = Len(ys)
  /\ \A n \in 1..Len(ys) : Same(xs[n], ys[n])

Effective(sig, c) == c = EffectiveConditionOf(MethodOf(sig))

\* Until a condition changes, the condition that was applied to a request that
\* will be recorded is still in force.
UnderWay(r) ==
  requests[r].stage \in {"applies", "handled"} =>
    /\ requests[r].signature \in Signatures
    /\ requests[r].applied = Unknown \/ Effective(requests[r].signature, requests[r].applied)

RequestRecords ==
  [stage : {"idle", "replays", "applies", "handled"},
   signature : Signatures \cup {<<>>}, response : Nat,
   applied : NetworkConditions \cup {Unknown}]

PipelineInv ==
  /\ latestLedger \in Nat /\ sequence \in Nat /\ network \in NetworkConditions
  /\ perMethodConditions \in [RpcMethods -> NetworkConditions \cup {Unconditioned}]
  /\ loadedFixture \in Seq(Interactions) /\ savedFixture \in Seq(Interactions)
  /\ isRecording \in BOOLEAN /\ wanted \in BOOLEAN /\ (wanted <=> Records)
  /\ Alike(recording, given)
  /\ requests \in [Requests -> RequestRecords]
  /\ \A r \in Requests : UnderWay(r)

LEMMA EffectiveType ==
  ASSUME PipelineInv, NEW sig \in Signatures
  PROVE  EffectiveConditionOf(MethodOf(sig)) \in NetworkConditions /\ Handled(sig) \in Nat
<1>1. MethodOf(sig) \in RpcMethods
  BY DEF RpcMethods
<1>2. perMethodConditions[MethodOf(sig)] \in NetworkConditions \cup {Unconditioned}
  BY <1>1 DEF PipelineInv
<1> QED BY <1>2 DEF EffectiveConditionOf, Handled, PipelineInv

LEMMA SameAnswer ==
  ASSUME NEW sig \in Signatures, NEW a \in Nat, NEW c \in NetworkConditions,
         NEW d \in {c, Unknown}
  PROVE  /\ Interaction(sig, a, c) \in Interactions /\ Interaction(sig, a, d) \in Interactions
         /\ Same(Interaction(sig, a, c), Interaction(sig, a, d))
<1> HIDE DEF Signatures, NetworkConditions
<1> QED BY DEF Interaction, Interactions, Same

\* An answer goes to the recording, if at all, as it was given.
LEMMA AnswersAlike ==
  ASSUME PipelineInv, NEW r \in Requests, Answers(r)
  PROVE  Alike(recording', given')
<1> DEFINE sig == requests[r].signature
           c == EffectiveConditionOf(MethodOf(sig))
           x == Interaction(sig, requests[r].response, c)
           y == Interaction(sig, requests[r].response, requests[r].applied)
<1>1. /\ recording' = IF Records THEN Append(recording, x) ELSE recording
      /\ given' = IF wanted THEN Append(given, y) ELSE given
      /\ requests[r].stage = "handled"
  BY DEF Answers, Resumes
<1>2. wanted <=> Records
  BY DEF PipelineInv
<1>3. x \in Interactions /\ y \in Interactions /\ Same(x, y)
  <2>1. requests[r] \in RequestRecords /\ UnderWay(r)
    BY DEF PipelineInv
  <2>2. sig \in Signatures /\ requests[r].applied \in {c, Unknown}
    BY <1>1, <2>1 DEF UnderWay, Effective
  <2>3. requests[r].response \in Nat
    BY <2>1 DEF RequestRecords
  <2>4. c \in NetworkConditions
    BY <2>2, EffectiveType
  <2> HIDE DEF sig, c
  <2> QED BY <2>2, <2>3, <2>4, SameAnswer
<1> HIDE DEF x, y, c, sig, Interactions, Same
<1>4. /\ recording \in Seq(Interactions) /\ given \in Seq(Interactions)
      /\ Len(recording) = Len(given) /\ Len(given) \in Nat
      /\ \A n \in 1..Len(given) : Same(recording[n], given[n])
  BY DEF PipelineInv, Alike
<1>5. CASE Records
  <2>1. recording' = Append(recording, x) /\ given' = Append(given, y)
    BY <1>1, <1>2, <1>5
  <2>2. /\ recording' \in Seq(Interactions) /\ given' \in Seq(Interactions)
        /\ Len(recording') = Len(given) + 1 /\ Len(given') = Len(given) + 1
        /\ recording'[Len(given) + 1] = x /\ given'[Len(given) + 1] = y
        /\ \A n \in 1..Len(given) : recording'[n] = recording[n] /\ given'[n] = given[n]
    BY <1>3, <1>4, <2>1
  <2>3. \A n \in 1..Len(given') : n \in 1..Len(given) \/ n = Len(given) + 1
    BY <1>4, <2>2
  <2>4. \A n \in 1..Len(given') : Same(recording'[n], given'[n])
    BY <1>3, <1>4, <2>2, <2>3
  <2> QED BY <2>2, <2>4 DEF Alike
<1>6. CASE ~Records
  <2>1. recording' = recording /\ given' = given
    BY <1>1, <1>2, <1>6
  <2> QED BY <2>1 DEF PipelineInv
<1> QED BY <1>5, <1>6

\* Nothing that decides what is recorded changes, and a request that goes on
\* keeps its signature and the condition that was applied to it.
LEMMA ControlKept ==
  ASSUME PipelineInv, UNCHANGED controlVars, Alike(recording', given'),
         requests' \in [Requests -> RequestRecords],
         \A r \in Requests : requests'[r].stage \in {"applies", "handled"} =>
           \/ /\ requests[r].stage \in {"applies", "handled"}
              /\ requests'[r].signature = requests[r].signature
              /\ requests'[r].applied = requests[r].applied
           \/ /\ requests'[r].signature \in Signatures
              /\ Effective(requests'[r].signature, requests'[r].applied)
  PROVE  PipelineInv'
<1>1. UNCHANGED <<latestLedger, sequence, network, perMethodConditions, fixtureMode,
                  loadedFixture, isRecording, savedFixture, wanted>>
  BY DEF controlVars
<1>2. ASSUME NEW r \in Requests PROVE UnderWay(r)'
  <2>1. UnderWay(r)
    BY DEF PipelineInv
  <2> SUFFICES ASSUME requests'[r].stage \in {"applies", "handled"}
               PROVE  /\ requests'[r].signature \in Signatures
                      /\ \/ requests'[r].applied = Unknown
                         \/ Effective(requests[r].signature, requests[r].applied)'
    BY DEF UnderWay
  <2> QED BY <1>1, <2>1 DEF UnderWay, Effective, EffectiveConditionOf
<1> QED BY <1>1, <1>2 DEF PipelineInv, Records

LEMMA FoundType ==
  ASSUME PipelineInv, NEW sig \in Signatures, Matching(sig) # {}
  PROVE  Found(sig).response \in Nat
<1>1. loadedFixture \in Seq(Interactions)
  BY DEF PipelineInv
<1>2. Matching(sig) \subseteq Nat /\ Matching(sig) \subseteq DOMAIN loadedFixture
  BY <1>1 DEF Matching
<1>3. \E n \in Matching(sig) : \A k \in Matching(sig) : n <= k
  BY <1>2, LeastNatural
<1>4. PICK n \in Matching(sig) : Found(sig) = loadedFixture[n]
  BY <1>3 DEF Found
<1>5. loadedFixture[n] \in Interactions
  <2> HIDE DEF Interactions
  <2> QED BY <1>1, <1>2
<1> QED BY <1>4, <1>5 DEF Interactions

LEMMA RequestType ==
  ASSUME NEW stage \in {"idle", "replays", "applies", "handled"},
         NEW sig \in Signatures \cup {<<>>}, NEW a \in Nat,
         NEW c \in NetworkConditions \cup {Unknown}
  PROVE  /\ Request(stage, sig, a, c) \in RequestRecords
         /\ Request(stage, sig, a, c).stage = stage
         /\ Request(stage, sig, a, c).signature = sig
         /\ Request(stage, sig, a, c).applied = c
  BY DEF Request, RequestRecords

LEMMA StepRequest ==
  ASSUME PipelineInv, NEW r \in Requests, NEW sig \in Signatures,
         OverrideAnswers(r, sig) \/ ReplayRequest(r, sig) \/ HandleRequest(r, sig)
  PROVE  PipelineInv'
<1>1. /\ UNCHANGED <<controlVars, recording, given>>
      /\ requests \in [Requests -> RequestRecords] /\ Alike(recording, given)
  BY DEF OverrideAnswers, ReplayRequest, HandleRequest, Begins, PipelineInv
<1>2. CASE requests' = requests
  BY <1>1, <1>2, ControlKept
<1>3. CASE /\ Matching(sig) # {}
           /\ requests' = [requests EXCEPT
                ![r] = Request("replays", sig, Found(sig).response, "slow")]
  <2> DEFINE new == Request("replays", sig, Found(sig).response, "slow")
  <2>1. new \in RequestRecords /\ new.stage = "replays"
    BY <1>3, FoundType, RequestType DEF NetworkConditions
  <2> HIDE DEF RequestRecords, new
  <2>2. /\ requests' \in [Requests -> RequestRecords]
        /\ \A q \in Requests : requests'[q].stage \in {"applies", "handled"} =>
             requests'[q] = requests[q]
    BY <1>1, <1>3, <2>1 DEF new
  <2> QED BY <1>1, <2>2, ControlKept
<1>4. CASE requests' = [requests EXCEPT
             ![r] = Request("applies", sig, 0, EffectiveConditionOf(MethodOf(sig)))]
  <2> DEFINE c == EffectiveConditionOf(MethodOf(sig))
             new == Request("applies", sig, 0, c)
  <2>1. new \in RequestRecords /\ new.signature = sig /\ new.applied = c
    BY EffectiveType, RequestType
  <2>2. Effective(sig, c)
    BY DEF Effective
  <2> HIDE DEF RequestRecords, c
  <2>3. requests' = [requests EXCEPT ![r] = new]
    BY <1>4 DEF c
  <2> HIDE DEF new
  <2>4. /\ requests' \in [Requests -> RequestRecords]
        /\ \A q \in Requests : requests'[q] = requests[q] \/ requests'[q] = new
    BY <1>1, <2>1, <2>3
  <2> QED BY <1>1, <2>1, <2>2, <2>4, ControlKept
<1> QED BY <1>2, <1>3, <1>4 DEF OverrideAnswers, ReplayRequest, Replays, HandleRequest

LEMMA StepResumes ==
  ASSUME PipelineInv, NEW r \in Requests, ReplayEnds(r) \/ HandlerRuns(r) \/ Answers(r)
  PROVE  PipelineInv'
<1>1. /\ UNCHANGED controlVars /\ requests \in [Requests -> RequestRecords]
      /\ Alike(recording, given)
  BY DEF ReplayEnds, HandlerRuns, Answers, Resumes, PipelineInv
<1>2. Alike(recording', given')
  <2>1. CASE Answers(r)
    BY <2>1, AnswersAlike
  <2> QED BY <1>1, <2>1 DEF ReplayEnds, HandlerRuns
<1>3. CASE requests' = [requests EXCEPT ![r] = NoRequest]
  <2>1. NoRequest \in RequestRecords /\ NoRequest.stage = "idle"
    BY RequestType DEF NoRequest
  <2> HIDE DEF RequestRecords
  <2>2. /\ requests' \in [Requests -> RequestRecords]
        /\ \A q \in Requests : requests'[q].stage \in {"applies", "handled"} =>
             requests'[q] = requests[q]
    BY <1>1, <1>3, <2>1
  <2> QED BY <1>1, <1>2, <2>2, ControlKept
<1>4. CASE HandlerRuns(r)
  <2> DEFINE old == requests[r]
             new == [old EXCEPT !.stage = "handled", !.response = Handled(old.signature)]
  <2>1. old \in RequestRecords /\ old.stage = "applies" /\ UnderWay(r)
    BY <1>4 DEF HandlerRuns, Resumes, PipelineInv
  <2>2. Handled(old.signature) \in Nat
    BY <2>1, EffectiveType DEF UnderWay
  <2>3. /\ new \in RequestRecords /\ new.signature = old.signature
        /\ new.applied = old.applied
    BY <2>1, <2>2 DEF RequestRecords
  <2>4. requests' = [requests EXCEPT ![r] = new]
    BY <1>4 DEF HandlerRuns
  <2> HIDE DEF RequestRecords, new
  <2>5. requests' \in [Requests -> RequestRecords]
    BY <1>1, <2>3, <2>4
  <2>6. \A q \in Requests : requests'[q] = IF q = r THEN new ELSE requests[q]
    BY <1>1, <2>4
  <2>7. ASSUME NEW q \in Requests, requests'[q].stage \in {"applies", "handled"}
        PROVE  /\ requests[q].stage \in {"applies", "handled"}
               /\ requests'[q].signature = requests[q].signature
               /\ requests'[q].applied = requests[q].applied
    BY <2>1, <2>3, <2>6, <2>7
  <2> QED BY <1>1, <1>2, <2>5, <2>7, ControlKept
<1> QED BY <1>3, <1>4 DEF ReplayEnds, Answers

LEMMA StepConditions ==
  ASSUME PipelineInv, ControlConditions
  PROVE  PipelineInv'
<1>1. PICK c \in NetworkConditions,
           ofMethods \in [RpcMethods -> NetworkConditions \cup {Unconditioned}] :
        ChangeConditions(c, ofMethods)
  <2>1. /\ network \in NetworkConditions /\ "healthy" \in NetworkConditions
        /\ perMethodConditions \in [RpcMethods -> NetworkConditions \cup {Unconditioned}]
    BY DEF PipelineInv, NetworkConditions
  <2> HIDE DEF NetworkConditions
  <2>2. ASSUME NEW m \in RpcMethods, NEW c \in NetworkConditions \cup {Unconditioned}
        PROVE  [perMethodConditions EXCEPT ![m] = c]
                 \in [RpcMethods -> NetworkConditions \cup {Unconditioned}]
    BY <2>1
  <2>3. [m \in RpcMethods |-> Unconditioned] \in [RpcMethods -> NetworkConditions \cup {Unconditioned}]
    OBVIOUS
  <2> QED BY <2>1, <2>2, <2>3 DEF ControlConditions
<1>2. /\ network' = c /\ perMethodConditions' = ofMethods
      /\ requests' = [r \in Requests |->
           IF requests[r].stage = "idle" THEN requests[r]
           ELSE [requests[r] EXCEPT !.applied = Unknown]]
      /\ UNCHANGED <<latestLedger, sequence, fixtureMode, loadedFixture,
                     savedFixture, isRecording, recording, wanted, given>>
  BY <1>1 DEF ChangeConditions
<1>3. ASSUME NEW r \in Requests
      PROVE  /\ requests'[r] \in RequestRecords
             /\ requests'[r].stage \in {"applies", "handled"} =>
                  requests'[r].signature \in Signatures /\ requests'[r].applied = Unknown
  <2>1. requests[r] \in RequestRecords /\ UnderWay(r)
    BY DEF PipelineInv
  <2>2. CASE requests[r].stage # "idle"
    <3>1. requests'[r] = [requests[r] EXCEPT !.applied = Unknown]
      BY <1>2, <2>2
    <3>2. /\ requests'[r] \in RequestRecords /\ requests'[r].applied = Unknown
          /\ requests'[r].stage = requests[r].stage
          /\ requests'[r].signature = requests[r].signature
      BY <2>1, <3>1 DEF RequestRecords
    <3> QED BY <2>1, <3>2 DEF UnderWay
  <2>3. CASE requests[r].stage = "idle"
    <3>1. requests'[r] = requests[r]
      BY <1>2, <2>3
    <3> QED BY <2>1, <2>3, <3>1
  <2> QED BY <2>2, <2>3
<1> HIDE DEF RequestRecords
<1>4. requests' \in [Requests -> RequestRecords]
  <2>1. requests' = [r \in Requests |-> requests'[r]]
    BY <1>2
  <2> QED BY <1>3, <2>1
<1>5. ASSUME NEW r \in Requests PROVE UnderWay(r)'
  BY <1>3 DEF UnderWay
<1> QED BY <1>2, <1>4, <1>5 DEF PipelineInv, Records

LEMMA StepTest ==
  ASSUME PipelineInv,
         \/ startRecording \/ stopRecording \/ saveFixture \/ loadFixture
         \/ ControlOverrides \/ Advance \/ resetStats
  PROVE  PipelineInv'
<1>1. Alike(<<>>, <<>>)
  BY DEF Alike
<1> HIDE DEF Interactions
<1>2. recording \in Seq(Interactions)
  BY DEF PipelineInv, Alike
<1>3. requests' = requests
  BY DEF startRecording, stopRecording, saveFixture, loadFixture, ControlOverrides,
         Advance, resetStats, requestVars
<1>4. CASE UNCHANGED <<network, perMethodConditions>>
  <2>1. ASSUME NEW r \in Requests PROVE UnderWay(r)'
    BY <1>3, <1>4 DEF PipelineInv, UnderWay, Effective, EffectiveConditionOf
  <2>2. CASE startRecording
    BY <1>1, <1>3, <1>4, <2>1, <2>2 DEF startRecording, PipelineInv, Records
  <2>3. CASE stopRecording
    BY <1>3, <1>4, <2>1, <2>3 DEF stopRecording, requestVars, PipelineInv, Records
  <2>4. CASE saveFixture
    BY <1>2, <1>3, <1>4, <2>1, <2>4 DEF saveFixture, requestVars, PipelineInv, Records
  <2>5. CASE loadFixture
    BY <1>3, <1>4, <2>1, <2>5 DEF loadFixture, requestVars, PipelineInv, Records
  <2>6. CASE ControlOverrides
    BY <1>3, <1>4, <2>1, <2>6 DEF ControlOverrides, requestVars, PipelineInv, Records
  <2>7. CASE Advance
    <3>1. latestLedger' \in Nat /\ sequence' \in Nat
      BY <2>7 DEF Advance, PipelineInv
    <3> QED BY <1>3, <1>4, <2>1, <2>7, <3>1 DEF Advance, requestVars, PipelineInv, Records
  <2>8. CASE resetStats
    BY <1>3, <1>4, <2>1, <2>8 DEF resetStats, PipelineInv, Records
  <2> QED BY <2>2, <2>3, <2>4, <2>5, <2>6, <2>7, <2>8
<1> QED
  BY <1>4 DEF startRecording, stopRecording, saveFixture, loadFixture, ControlOverrides,
              Advance, resetStats

LEMMA PipelineStep ==
  ASSUME PipelineInv, [PipelineNext]_pipelineVars
  PROVE  PipelineInv'
<1>1. CASE UNCHANGED pipelineVars
  <2>1. UNCHANGED <<latestLedger, sequence, network, perMethodConditions, fixtureMode,
                    loadedFixture, recording, isRecording, savedFixture, requests,
                    wanted, given>>
    BY <1>1 DEF pipelineVars
  <2>2. ASSUME NEW r \in Requests PROVE UnderWay(r)'
    BY <2>1 DEF PipelineInv, UnderWay, Effective, EffectiveConditionOf
  <2> QED BY <2>1, <2>2 DEF PipelineInv, Records
<1> QED BY <1>1, StepRequest, StepResumes, StepConditions, StepTest DEF PipelineNext

\* A recording of the mock server is what its handlers answered while it was
\* under way, each answer as it was given and under the condition it was served
\* under, whatever the test changes between the awaits of a request and however
\* many requests there are; only a condition changed meanwhile may be recorded
\* instead.
THEOREM RecordingsAreFaithful == PartsSpec => []RecordingIsFaithful
<1>1. PartsInit => PipelineInv
  <2> SUFFICES ASSUME PipelineInit PROVE PipelineInv
    BY DEF PartsInit
  <2>1. Alike(<<>>, <<>>) /\ <<>> \in Seq(Interactions)
    <3> HIDE DEF Interactions
    <3> QED BY DEF Alike
  <2>2. NoRequest \in RequestRecords /\ NoRequest.stage = "idle"
    BY RequestType DEF NoRequest
  <2>3. requests = [r \in Requests |-> NoRequest]
    BY DEF PipelineInit
  <2> HIDE DEF RequestRecords, Interactions
  <2>4. requests \in [Requests -> RequestRecords] /\ \A r \in Requests : UnderWay(r)
    BY <2>2, <2>3 DEF UnderWay
  <2>5. perMethodConditions \in [RpcMethods -> NetworkConditions \cup {Unconditioned}]
    BY DEF PipelineInit
  <2>6. /\ latestLedger \in Nat /\ sequence \in Nat /\ network \in NetworkConditions
        /\ isRecording \in BOOLEAN /\ wanted \in BOOLEAN /\ (wanted <=> Records)
    BY DEF PipelineInit, NetworkConditions, Records
  <2> QED BY <2>1, <2>4, <2>5, <2>6 DEF PipelineInit, PipelineInv
<1>2. PipelineInv /\ [PartsNext]_partsVars => PipelineInv'
  BY PartStep, PipelineStep
<1>3. PipelineInv => RecordingIsFaithful
  <2> SUFFICES ASSUME PipelineInv PROVE RecordingIsFaithful
    OBVIOUS
  <2>1. /\ Len(recording) = Len(given) /\ DOMAIN given = 1..Len(given)
        /\ \A n \in 1..Len(given) : Same(recording[n], given[n])
    <3> HIDE DEF Interactions
    <3> QED BY DEF PipelineInv, Alike
  <2>2. ASSUME NEW x, NEW y, Same(x, y)
        PROVE  /\ x = [y EXCEPT !.networkCondition = x.networkCondition]
               /\ y.networkCondition \in {x.networkCondition, Unknown}
    BY <2>2 DEF Same
  <2> QED BY <2>1, <2>2, Zenon DEF RecordingIsFaithful
<1> QED BY <1>1, <1>2, <1>3, PTL DEF PartsSpec

-----------------------------------------------------------------------------
(* The container of services.                                              *)

LEMMA MaxIs ==
  ASSUME NEW n \in Nat, NEW S, S \subseteq 1..n, S # {}
  PROVE  Max(S) \in S /\ \A x \in S : x <= Max(S)
<1> DEFINE T == {u \in Nat : \A x \in S : x <= u}
<1>1. \A x \in S : x \in Nat /\ x <= n
  OBVIOUS
<1>2. n \in T /\ T \subseteq Nat
  BY <1>1
<1>3. PICK m \in T : \A k \in T : m <= k
  <2> HIDE DEF T
  <2> QED BY <1>2, LeastNatural
<1>4. m \in Nat /\ \A x \in S : x <= m
  OBVIOUS
<1>5. m \in S
  <2> SUFFICES ASSUME m \notin S PROVE FALSE
    OBVIOUS
  <2>1. \A x \in S : x < m
    BY <1>1, <1>4
  <2>2. m - 1 \in Nat /\ \A x \in S : x <= m - 1
    <3>1. PICK x \in S : x \in Nat /\ x < m
      BY <1>1, <2>1
    <3>2. m - 1 \in Nat
      BY <1>4, <3>1
    <3>3. \A y \in S : y \in Nat /\ y < m
      BY <1>1, <2>1
    <3> QED BY <1>4, <3>2, <3>3
  <2>3. m - 1 \in T
    BY <2>2
  <2>4. m <= m - 1
    <3> HIDE DEF T
    <3> QED BY <1>3, <2>3
  <2> QED BY <1>4, <2>4
<1>6. \E x \in S : \A y \in S : x >= y
  BY <1>1, <1>4, <1>5
<1> QED BY <1>1, <1>6 DEF Max

\* A parent comes before its children.
Family == parents \in Seq(Nat) /\ \A c \in Containers : parents[c] < c

\* The containers that a walk from c up through its parents cannot leave out.
Ancestors(c) ==
  {a \in Containers : \A S \in SUBSET Containers :
     c \in S /\ (\A s \in S : parents[s] = 0 \/ parents[s] \in S) => a \in S}

LEMMA AncestorsUnfold ==
  ASSUME Family, NEW c \in Containers
  PROVE  Ancestors(c) = {c} \cup (IF parents[c] = 0 THEN {} ELSE Ancestors(parents[c]))
<1> DEFINE p == parents[c]
           Closed(S) == \A s \in S : parents[s] = 0 \/ parents[s] \in S
           rest == IF p = 0 THEN {} ELSE Ancestors(p)
<1>1. \A d \in Containers : parents[d] = 0 \/ parents[d] \in Containers
  BY DEF Family, Containers
<1>2. \A d \in Containers : \A a : a \in Ancestors(d) <=>
        a \in Containers /\ \A S \in SUBSET Containers : d \in S /\ Closed(S) => a \in S
  BY DEF Ancestors
<1>3. rest \subseteq Containers /\ (p # 0 => p \in Containers /\ p \in rest)
  BY <1>1, <1>2
<1>4. Closed({c} \cup rest)
  <2>1. ASSUME NEW a \in rest PROVE parents[a] = 0 \/ parents[a] \in rest
    <3>1. p \in Containers /\ a \in Ancestors(p) /\ rest = Ancestors(p)
      BY <1>3, <2>1
    <3> HIDE DEF rest, p
    <3> SUFFICES ASSUME parents[a] # 0 PROVE parents[a] \in Ancestors(p)
      BY <3>1
    <3>2. a \in Containers /\ parents[a] \in Containers
      BY <1>1, <1>2, <3>1
    <3>3. ASSUME NEW S \in SUBSET Containers, p \in S, Closed(S) PROVE parents[a] \in S
      <4>1. a \in S
        BY <1>2, <3>1, <3>3
      <4> QED BY <3>3, <4>1
    <3> QED BY <1>2, <3>1, <3>2, <3>3
  <2> QED BY <1>3, <2>1
<1>5. Ancestors(c) \subseteq {c} \cup rest
  <2>1. {c} \cup rest \in SUBSET Containers
    BY <1>3
  <2> HIDE DEF rest, Closed
  <2> QED BY <1>2, <1>4, <2>1
<1>6. {c} \cup rest \subseteq Ancestors(c)
  <2> SUFFICES ASSUME NEW a \in {c} \cup rest, NEW S \in SUBSET Containers, c \in S, Closed(S)
               PROVE  a \in S
    BY <1>2, <1>3
  <2>1. CASE a = c
    BY <2>1
  <2>2. CASE a \in rest
    <3>1. p # 0 /\ a \in Ancestors(p) /\ p \in S /\ p \in Containers
      BY <1>3, <2>2
    <3> HIDE DEF p, Closed
    <3> QED BY <1>2, <3>1
  <2> QED BY <2>1, <2>2
<1> QED BY <1>5, <1>6

LEMMA LineageUnfolds ==
  ASSUME Family, NEW c \in Containers
  PROVE  /\ Lineage(c) = {c} \cup Lineage(parents[c])
         /\ parents[c] = 0 => Lineage(parents[c]) = {}
         /\ parents[c] # 0 => parents[c] \in Containers
<1> DEFINE P(f) == f = [i \in 0..Len(parents) |->
                          IF i = 0 THEN {} ELSE {i} \cup f[parents[i]]]
           line == CHOOSE f : P(f)
           g == [i \in 0..Len(parents) |-> IF i = 0 THEN {} ELSE Ancestors(i)]
<1>1. \A i \in Containers : i \in 0..Len(parents) /\ i # 0 /\ parents[i] \in 0..Len(parents)
  BY DEF Family, Containers
<1>2. \A i \in 0..Len(parents) : i = 0 \/ i \in Containers
  BY DEF Family, Containers
<1>3. \A d : Lineage(d) = line[d]
  BY DEF Lineage
<1>4. P(g)
  <2>1. \A i \in Containers : g[i] = {i} \cup g[parents[i]]
    BY <1>1, AncestorsUnfold
  <2>2. g = [i \in 0..Len(parents) |-> g[i]]
    OBVIOUS
  <2>3. 0 \in 0..Len(parents)
    BY DEF Family
  <2>4. g[0] = {}
    BY <2>3
  <2> HIDE DEF g
  <2> QED BY <1>2, <2>1, <2>2, <2>4
<1>5. P(line)
  <2> HIDE DEF P, g
  <2> QED BY <1>4
<1> HIDE DEF line
<1>6. 0 \in 0..Len(parents)
  BY DEF Family
<1>7. line[0] = {} /\ \A i \in Containers : line[i] = {i} \cup line[parents[i]]
  BY <1>1, <1>5, <1>6
<1>8. parents[c] # 0 => parents[c] \in Containers
  BY <1>1, <1>2
<1> QED BY <1>3, <1>7, <1>8

LEMMA LineageType ==
  ASSUME Family, NEW c \in Containers
  PROVE  c \in Lineage(c) /\ Lineage(c) \subseteq Containers
<1> DEFINE T == {i \in Containers : ~(Lineage(i) \subseteq Containers)}
<1>1. T = {}
  <2> SUFFICES ASSUME T # {} PROVE FALSE
    OBVIOUS
  <2>1. PICK m \in T : \A k \in T : m <= k
    <3>1. T \subseteq Nat
      BY DEF Containers
    <3> HIDE DEF T
    <3> QED BY <3>1, LeastNatural
  <2>2. m \in Containers /\ m \in Nat /\ parents[m] \in Nat /\ parents[m] < m
    BY DEF Family, Containers
  <2>3. parents[m] \notin T
    BY <2>1, <2>2
  <2>4. Lineage(parents[m]) \subseteq Containers
    BY <2>2, <2>3, LineageUnfolds
  <2> QED BY <2>2, <2>4, LineageUnfolds
<1> QED BY <1>1, LineageUnfolds

\* What a container has for a key: the binding b and the instance s, when n
\* registrations have been made.
Slot(b, s, n) ==
  /\ b \in 0..n /\ s \in {NotMade, ZeroArgument, b} /\ s # 0
  /\ s = ZeroArgument => b = Unbound

Tables == Seq([BindingKeys -> Nat])

Slots(bs, ss, cs, n) ==
  \A c \in cs, key \in BindingKeys : Slot(bs[c][key], ss[c][key], n)

ContainerInv ==
  /\ Family
  /\ bindings \in Tables /\ Len(bindings) = Len(parents)
  /\ singletons \in Tables /\ Len(singletons) = Len(parents)
  /\ registrations \in 0..MaxRegistrations
  /\ Slots(bindings, singletons, Containers, registrations)

LEMMA NearestAnswers ==
  ASSUME ContainerInv, NEW c \in Containers, NEW key \in BindingKeys
  PROVE  LET r == Resolver(c, key)
             bound == {a \in Lineage(c) : bindings[a][key] # Unbound}
         IN  /\ r \in Containers
             /\ bound # {} /\ singletons[r][key] # ZeroArgument => r = Max(bound)
<1> DEFINE r == Resolver(c, key)
           bound == {a \in Lineage(c) : bindings[a][key] # Unbound}
           all == {a \in Lineage(c) : \/ bindings[a][key] # Unbound
                                      \/ singletons[a][key] # NotMade}
<1>1. /\ Family /\ Len(parents) \in Nat /\ bound \subseteq 1..Len(parents)
      /\ all \subseteq 1..Len(parents) /\ bound \subseteq all
  <2>1. Family /\ Lineage(c) \subseteq 1..Len(parents)
    BY LineageType DEF ContainerInv, Containers
  <2> QED BY <2>1 DEF Family
<1>2. has(c, key) <=> bound # {}
  BY DEF has
<1>3. CASE bound = {}
  BY <1>2, <1>3 DEF Resolver
<1>4. CASE bound # {}
  <2>1. r = Max(all)
    BY <1>2, <1>4 DEF Resolver
  <2> HIDE DEF r
  <2>2. r \in all /\ \A a \in all : a <= r
    <3> HIDE DEF all, bound
    <3> QED BY <1>1, <1>4, <2>1, MaxIs
  <2>3. r \in Containers
    BY <1>1, <2>2 DEF Containers
  <2>4. ASSUME singletons[r][key] # ZeroArgument PROVE r = Max(bound)
    <3>1. Slot(bindings[r][key], singletons[r][key], registrations)
      BY <2>3 DEF ContainerInv, Slots
    <3>2. singletons[r][key] # NotMade => bindings[r][key] # Unbound
      BY <2>4, <3>1 DEF Slot, Unbound
    <3>3. r \in bound
      BY <2>2, <3>2
    <3> DEFINE x == Max(bound)
    <3>4. x \in bound /\ \A a \in bound : a <= x
      <4> HIDE DEF bound
      <4> QED BY <1>1, <1>4, MaxIs
    <3> HIDE DEF x
    <3>5. x <= r /\ r <= x
      BY <1>1, <2>2, <3>3, <3>4
    <3>6. x \in Nat /\ r \in Nat
      BY <1>1, <3>3, <3>4
    <3>7. r = x
      BY <3>5, <3>6
    <3> QED BY <3>7 DEF x
  <2> QED BY <2>3, <2>4 DEF r
<1> QED BY <1>3, <1>4

\* The state says all that the property says.
LEMMA InstancesFollow ==
  ASSUME ContainerInv
  PROVE  InstancesFollowBindings
<1>1. ASSUME NEW c \in Containers, NEW key \in BindingKeys
      PROVE  /\ singletons[c][key] \in {NotMade, ZeroArgument, bindings[c][key]}
             /\ singletons[c][key] = ZeroArgument => bindings[c][key] = Unbound
  BY DEF ContainerInv, Slots, Slot
<1> QED BY <1>1, NearestAnswers DEF InstancesFollowBindings

\* The table g is f with v for a key of a container.
ChangedAt(g, f, c, key, v) ==
  /\ g \in Tables /\ Len(g) = Len(f)
  /\ \A d \in 1..Len(f), other \in BindingKeys :
       g[d][other] = IF d = c /\ other = key THEN v ELSE f[d][other]

LEMMA AtPlace ==
  ASSUME NEW f \in Tables, NEW c \in 1..Len(f), NEW key \in BindingKeys, NEW v \in Nat,
         NEW h, h = [f EXCEPT ![c][key] = v]
  PROVE  ChangedAt(h, f, c, key, v)
<1> DEFINE K == [BindingKeys -> Nat]
           row == [f[c] EXCEPT ![key] = v]
           g == [f EXCEPT ![c] = row]
<1>1. \A d \in 1..Len(f) : f[d] \in K
  <2>1. f \in Seq(K)
    BY DEF Tables
  <2> HIDE DEF K
  <2> QED BY <2>1
<1>2. row \in K /\ \A other \in BindingKeys : row[other] = IF other = key THEN v ELSE f[c][other]
  BY <1>1
<1> HIDE DEF row
<1>3. g \in Seq(K) /\ Len(g) = Len(f) /\ \A d \in 1..Len(f) : g[d] = IF d = c THEN row ELSE f[d]
  <2>1. f \in Seq(K)
    BY DEF Tables
  <2> HIDE DEF K
  <2> QED BY <1>2, <2>1
<1>4. g = h
  BY DEF row
<1> HIDE DEF g
<1>5. \A d \in 1..Len(f), other \in BindingKeys :
        g[d][other] = IF d = c /\ other = key THEN v ELSE f[d][other]
  BY <1>2, <1>3
<1> QED BY <1>3, <1>4, <1>5 DEF Tables, ChangedAt

\* A step that changes the slot of one key in one container, and no other.
PutAt(c, key, b, s) ==
  /\ parents' = parents
  /\ bindings' = [bindings EXCEPT ![c][key] = b]
  /\ singletons' = [singletons EXCEPT ![c][key] = s]

LEMMA OneSlot ==
  ASSUME ContainerInv, NEW c \in Containers, NEW key \in BindingKeys,
         NEW b \in Nat, NEW s \in Nat, PutAt(c, key, b, s),
         registrations' \in 0..MaxRegistrations, registrations <= registrations',
         Slot(b, s, registrations')
  PROVE  ContainerInv'
<1> DEFINE n == registrations'
<1> /\ parents' = parents
    /\ bindings' = [bindings EXCEPT ![c][key] = b]
    /\ singletons' = [singletons EXCEPT ![c][key] = s]
    /\ n \in 0..MaxRegistrations /\ registrations <= n /\ Slot(b, s, n)
  BY DEF PutAt
<1> HIDE DEF n
<1>1. /\ Containers = 1..Len(parents) /\ Len(bindings) = Len(parents)
      /\ Len(singletons) = Len(parents) /\ bindings \in Tables /\ singletons \in Tables
      /\ registrations \in Nat /\ MaxRegistrations \in Nat
  BY ContainerAssumption DEF ContainerInv, Containers
<1>2. /\ bindings' \in Tables /\ Len(bindings') = Len(bindings)
      /\ \A d \in Containers, other \in BindingKeys :
           bindings'[d][other] = IF d = c /\ other = key THEN b ELSE bindings[d][other]
  <2>1. bindings \in Tables /\ c \in 1..Len(bindings)
    BY <1>1
  <2>2. ChangedAt(bindings', bindings, c, key, b)
    BY <2>1, AtPlace, Zenon
  <2> QED BY <1>1, <2>2 DEF ChangedAt
<1>3. /\ singletons' \in Tables /\ Len(singletons') = Len(singletons)
      /\ \A d \in Containers, other \in BindingKeys :
           singletons'[d][other] = IF d = c /\ other = key THEN s ELSE singletons[d][other]
  <2>1. singletons \in Tables /\ c \in 1..Len(singletons)
    BY <1>1
  <2>2. ChangedAt(singletons', singletons, c, key, s)
    BY <2>1, AtPlace, Zenon
  <2> QED BY <1>1, <2>2 DEF ChangedAt
<1>4. Containers' = Containers
  BY DEF Containers
<1>5. ASSUME NEW d \in Containers, NEW other \in BindingKeys
      PROVE  Slot(bindings'[d][other], singletons'[d][other], n)
  <2>1. CASE d = c /\ other = key
    BY <1>2, <1>3, <2>1
  <2>2. CASE ~(d = c /\ other = key)
    <3> DEFINE x == bindings[d][other]
               y == singletons[d][other]
    <3>1. bindings'[d][other] = x /\ singletons'[d][other] = y
      BY <1>2, <1>3, <2>2
    <3>2. Slot(x, y, registrations)
      BY DEF ContainerInv, Slots
    <3> HIDE DEF x, y
    <3>3. x \in 0..n
      BY <1>1, <3>2 DEF Slot
    <3> QED BY <3>1, <3>2, <3>3 DEF Slot
  <2> QED BY <2>1, <2>2
<1>6. Family'
  BY <1>4 DEF ContainerInv, Family
<1> HIDE DEF Tables
<1>7. Tables' = Tables
  BY DEF Tables
<1>8. /\ bindings' \in Tables /\ Len(bindings') = Len(parents')
      /\ singletons' \in Tables /\ Len(singletons') = Len(parents')
  BY <1>1, <1>2, <1>3
<1>9. Slots(bindings', singletons', Containers', registrations')
  BY <1>4, <1>5 DEF Slots, n
<1> QED BY <1>6, <1>7, <1>8, <1>9 DEF ContainerInv

LEMMA StepBinds ==
  ASSUME ContainerInv, NEW c \in Containers, NEW key \in BindingKeys,
         Register(c, key) \/ unbind(c, key)
  PROVE  ContainerInv'
<1>1. registrations \in 0..MaxRegistrations /\ MaxRegistrations \in Nat
  BY ContainerAssumption DEF ContainerInv
<1>2. /\ parents' = parents
      /\ singletons' = [singletons EXCEPT ![c][key] = NotMade]
  BY DEF Register, unbind, Evicted
<1>3. NotMade \in Nat /\ NotMade # 0 /\ NotMade # ZeroArgument
  BY <1>1 DEF NotMade, ZeroArgument
<1>4. CASE unbind(c, key)
  <2>1. registrations' = registrations /\ PutAt(c, key, Unbound, NotMade)
    BY <1>2, <1>4 DEF unbind, PutAt
  <2>2. Slot(Unbound, NotMade, registrations') /\ Unbound \in Nat
    BY <1>1, <1>3, <2>1 DEF Slot, Unbound
  <2> QED BY <1>1, <1>3, <2>1, <2>2, OneSlot
<1>5. CASE Register(c, key)
  <2> DEFINE b == registrations + 1
  <2>1. registrations < MaxRegistrations /\ registrations' = b /\ PutAt(c, key, b, NotMade)
    BY <1>2, <1>5 DEF Register, PutAt
  <2>2. b \in Nat /\ registrations' \in 0..MaxRegistrations /\ registrations <= registrations'
    BY <1>1, <2>1
  <2>3. Slot(b, NotMade, registrations')
    BY <1>3, <2>1, <2>2 DEF Slot
  <2> HIDE DEF b
  <2> QED BY <1>3, <2>1, <2>2, <2>3, OneSlot
<1> QED BY <1>4, <1>5

LEMMA StepResolves ==
  ASSUME ContainerInv, NEW c \in Containers, NEW key \in BindingKeys, resolve(c, key)
  PROVE  ContainerInv'
<1> DEFINE r == Resolver(c, key)
           b == bindings[r][key]
<1>1. registrations \in 0..MaxRegistrations /\ MaxRegistrations \in Nat
  BY ContainerAssumption DEF ContainerInv
<1>2. r \in Containers
  BY NearestAnswers
<1>3. /\ UNCHANGED <<parents, bindings, registrations>>
      /\ \/ /\ b # Unbound
            /\ singletons' = [singletons EXCEPT ![r][key] = b]
         \/ /\ b = Unbound
            /\ singletons' = [singletons EXCEPT ![r][key] = ZeroArgument]
  BY DEF resolve
<1> HIDE DEF r
<1>4. bindings' = [bindings EXCEPT ![r][key] = b]
  <2>1. bindings \in Seq([BindingKeys -> Nat]) /\ r \in 1..Len(bindings)
    BY <1>2 DEF ContainerInv, Tables, Containers
  <2>2. bindings[r] \in [BindingKeys -> Nat]
    <3> DEFINE K == [BindingKeys -> Nat]
    <3>1. bindings \in Seq(K)
      BY <2>1
    <3> HIDE DEF K
    <3>2. bindings[r] \in K
      BY <2>1, <3>1
    <3> QED BY <3>2 DEF K
  <2>3. [bindings[r] EXCEPT ![key] = b] = bindings[r]
    BY <2>2
  <2>4. [bindings EXCEPT ![r] = bindings[r]] = bindings
    <3>1. bindings = [n \in 1..Len(bindings) |-> bindings[n]]
      <4> DEFINE K == [BindingKeys -> Nat]
      <4>1. bindings \in Seq(K)
        BY <2>1
      <4> HIDE DEF K
      <4> QED BY <4>1
    <3> QED BY <2>1, <3>1
  <2> QED BY <1>3, <2>3, <2>4
<1>5. b \in 0..registrations
  BY <1>2 DEF ContainerInv, Slots, Slot
<1> HIDE DEF b
<1>6. b \in Nat /\ ZeroArgument \in Nat /\ ZeroArgument # 0 /\ ~(b >= ZeroArgument)
  BY <1>1, <1>5 DEF ZeroArgument
<1>7. /\ registrations' \in 0..MaxRegistrations /\ registrations <= registrations'
      /\ registrations' = registrations
  BY <1>1, <1>3
<1>8. CASE b = Unbound /\ singletons' = [singletons EXCEPT ![r][key] = ZeroArgument]
  <2>1. Slot(b, ZeroArgument, registrations')
    BY <1>5, <1>6, <1>7, <1>8 DEF Slot
  <2>2. PutAt(r, key, b, ZeroArgument)
    BY <1>3, <1>4, <1>8 DEF PutAt
  <2> QED BY <1>2, <1>6, <1>7, <2>1, <2>2, OneSlot
<1>9. CASE b # Unbound /\ singletons' = [singletons EXCEPT ![r][key] = b]
  <2>1. Slot(b, b, registrations')
    BY <1>5, <1>6, <1>7, <1>9 DEF Slot, Unbound
  <2>2. PutAt(r, key, b, b)
    BY <1>3, <1>4, <1>9 DEF PutAt
  <2> QED BY <1>2, <1>6, <1>7, <2>1, <2>2, OneSlot
<1> QED BY <1>3, <1>8, <1>9

\* What a new container and a container that was reset have.
LEMMA EmptySlots ==
  ASSUME ContainerInv
  PROVE  /\ [key \in BindingKeys |-> Unbound] \in [BindingKeys -> Nat]
         /\ [key \in BindingKeys |-> NotMade] \in [BindingKeys -> Nat]
         /\ Slot(Unbound, NotMade, registrations)
<1>1. NotMade \in Nat /\ NotMade # 0 /\ NotMade # ZeroArgument /\ Unbound \in Nat
  BY ContainerAssumption DEF NotMade, ZeroArgument, Unbound
<1>2. Unbound \in 0..registrations
  BY DEF ContainerInv, Unbound
<1>3. Slot(Unbound, NotMade, registrations)
  BY <1>1, <1>2 DEF Slot
<1>4. [key \in BindingKeys |-> Unbound] \in [BindingKeys -> Nat]
  BY <1>1
<1>5. [key \in BindingKeys |-> NotMade] \in [BindingKeys -> Nat]
  BY <1>1
<1> QED BY <1>3, <1>4, <1>5

LEMMA StepResets ==
  ASSUME ContainerInv, NEW c \in Containers, reset(c)
  PROVE  ContainerInv'
<1> DEFINE K == [BindingKeys -> Nat]
           none == [key \in BindingKeys |-> Unbound]
           empty == [key \in BindingKeys |-> NotMade]
<1>1. /\ bindings' = [bindings EXCEPT ![c] = none]
      /\ singletons' = [singletons EXCEPT ![c] = empty]
      /\ UNCHANGED <<parents, registrations>> /\ Containers' = Containers
  BY DEF reset, Containers
<1>2. none \in K /\ empty \in K
  BY EmptySlots
<1>3. \A key \in BindingKeys : none[key] = Unbound /\ empty[key] = NotMade
  OBVIOUS
<1>4. /\ bindings \in Seq(K) /\ Len(bindings) = Len(parents)
      /\ singletons \in Seq(K) /\ Len(singletons) = Len(parents)
      /\ Containers = 1..Len(parents)
  BY DEF ContainerInv, Tables, Containers
<1> HIDE DEF K, none, empty
<1>5. /\ bindings' \in Seq(K) /\ Len(bindings') = Len(parents)
      /\ \A d \in Containers : bindings'[d] = IF d = c THEN none ELSE bindings[d]
  BY <1>1, <1>2, <1>4
<1>6. /\ singletons' \in Seq(K) /\ Len(singletons') = Len(parents)
      /\ \A d \in Containers : singletons'[d] = IF d = c THEN empty ELSE singletons[d]
  BY <1>1, <1>2, <1>4
<1>7. Slots(bindings', singletons', Containers, registrations)
  <2>1. ASSUME NEW d \in Containers, NEW key \in BindingKeys
        PROVE  Slot(bindings'[d][key], singletons'[d][key], registrations)
    <3>1. Slot(bindings[d][key], singletons[d][key], registrations)
      BY DEF ContainerInv, Slots
    <3>2. \/ bindings'[d][key] = Unbound /\ singletons'[d][key] = NotMade
          \/ bindings'[d][key] = bindings[d][key] /\ singletons'[d][key] = singletons[d][key]
      BY <1>3, <1>5, <1>6
    <3> QED BY <3>1, <3>2, EmptySlots
  <2> QED BY <2>1 DEF Slots
<1>9. Family'
  BY <1>1 DEF ContainerInv, Family
<1>10. /\ bindings' \in Tables /\ singletons' \in Tables /\ Tables' = Tables
  BY <1>5, <1>6 DEF Tables, K
<1> HIDE DEF Tables
<1> QED BY <1>1, <1>5, <1>6, <1>7, <1>9, <1>10 DEF ContainerInv

LEMMA StepChild ==
  ASSUME ContainerInv, NEW c \in Containers, createChild(c)
  PROVE  ContainerInv'
<1> DEFINE K == [BindingKeys -> Nat]
           none == [key \in BindingKeys |-> Unbound]
           empty == [key \in BindingKeys |-> NotMade]
           n == Len(parents)
<1>1. /\ parents' = Append(parents, c)
      /\ bindings' = Append(bindings, none) /\ singletons' = Append(singletons, empty)
      /\ UNCHANGED registrations
  BY DEF createChild
<1>2. none \in K /\ empty \in K
  BY EmptySlots
<1>3. \A key \in BindingKeys : none[key] = Unbound /\ empty[key] = NotMade
  OBVIOUS
<1>4. /\ bindings \in Seq(K) /\ Len(bindings) = n
      /\ singletons \in Seq(K) /\ Len(singletons) = n
      /\ parents \in Seq(Nat) /\ n \in Nat /\ c \in Nat /\ c <= n
      /\ Containers = 1..n
  BY DEF ContainerInv, Tables, Containers, Family
<1>5. parents' \in Seq(Nat) /\ Len(parents') = n + 1
  BY <1>1, <1>4
<1>6. Containers' = 1..(n + 1) /\ \A d \in 1..(n + 1) : d \in 1..n \/ d = n + 1
  <2>1. Containers' = 1..(n + 1)
    BY <1>5 DEF Containers
  <2>2. n \in Nat
    BY <1>4
  <2> HIDE DEF n
  <2>3. \A d \in 1..(n + 1) : d \in 1..n \/ d = n + 1
    BY <2>2
  <2> QED BY <2>1, <2>3
<1>7. (\A d \in 1..n : parents'[d] = parents[d]) /\ parents'[n + 1] = c
  BY <1>1, <1>4
<1>8. Family'
  <2>1. ASSUME NEW d \in Containers' PROVE parents'[d] < d
    <3>1. CASE d \in 1..n
      BY <1>4, <1>7, <3>1 DEF ContainerInv, Family
    <3>2. CASE d = n + 1
      BY <1>4, <1>7, <3>2
    <3> QED BY <1>6, <3>1, <3>2
  <2> QED BY <1>5, <2>1 DEF Family
<1> HIDE DEF K, none, empty, n
<1>9. /\ bindings' \in Seq(K) /\ Len(bindings') = n + 1
      /\ \A d \in 1..n : bindings'[d] = bindings[d]
      /\ bindings'[n + 1] = none
  <2>1. bindings \in Seq(K) /\ Len(bindings) = n /\ n \in Nat /\ none \in K
    BY <1>2, <1>4
  <2> QED BY <1>1, <2>1
<1>10. /\ singletons' \in Seq(K) /\ Len(singletons') = n + 1
       /\ \A d \in 1..n : singletons'[d] = singletons[d]
       /\ singletons'[n + 1] = empty
  <2>1. singletons \in Seq(K) /\ Len(singletons) = n /\ n \in Nat /\ empty \in K
    BY <1>2, <1>4
  <2> QED BY <1>1, <2>1
<1>11. \A d \in Containers', key \in BindingKeys :
         \/ bindings'[d][key] = Unbound /\ singletons'[d][key] = NotMade
         \/ /\ d \in Containers /\ bindings'[d][key] = bindings[d][key]
            /\ singletons'[d][key] = singletons[d][key]
  BY <1>3, <1>4, <1>6, <1>9, <1>10
<1>12. Slots(bindings', singletons', Containers', registrations)
  <2>1. Slots(bindings, singletons, Containers, registrations)
    BY DEF ContainerInv
  <2> QED BY <1>11, <2>1, EmptySlots DEF Slots
<1>14. bindings' \in Tables /\ singletons' \in Tables /\ Tables' = Tables
  BY <1>9, <1>10 DEF Tables, K
<1>15. Len(bindings') = Len(parents') /\ Len(singletons') = Len(parents')
  BY <1>5, <1>9, <1>10 DEF n
<1>16. registrations' \in 0..MaxRegistrations
  BY <1>1 DEF ContainerInv
<1>17. Slots(bindings', singletons', Containers', registrations')
  BY <1>1, <1>12
<1> HIDE DEF Tables
<1> QED BY <1>8, <1>14, <1>15, <1>16, <1>17 DEF ContainerInv

LEMMA ContainerStep ==
  ASSUME ContainerInv, [ContainerNext]_containerVars
  PROVE  ContainerInv'
<1>1. CASE UNCHANGED containerVars
  <2>1. UNCHANGED <<parents, bindings, singletons, registrations>>
    BY <1>1 DEF containerVars
  <2>2. Containers' = Containers /\ Tables' = Tables /\ Family'
    BY <2>1 DEF Containers, Tables, ContainerInv, Family
  <2> HIDE DEF Tables
  <2> QED BY <2>1, <2>2 DEF ContainerInv
<1> QED BY <1>1, StepBinds, StepResolves, StepResets, StepChild DEF ContainerNext

\* However bindings are made, replaced, removed and inherited, by however many
\* containers: none keeps an instance of a binding it no longer has, and what is
\* resolved comes from the nearest binding, unless a container on the way
\* constructed the key while it was not bound.
THEOREM ServicesFollowBindings == PartsSpec => []InstancesFollowBindings
<1>1. PartsInit => ContainerInv
  <2> SUFFICES ASSUME ContainerInit PROVE ContainerInv
    BY DEF PartsInit
  <2> DEFINE K == [BindingKeys -> Nat]
             none == [key \in BindingKeys |-> Unbound]
             empty == [key \in BindingKeys |-> NotMade]
  <2>1. /\ parents = <<0>> /\ bindings = <<none>> /\ singletons = <<empty>>
        /\ registrations = 0
    BY DEF ContainerInit
  <2>2. MaxRegistrations \in Nat /\ NotMade \in Nat /\ NotMade # 0 /\ NotMade # ZeroArgument
    BY ContainerAssumption DEF NotMade, ZeroArgument
  <2>3. none \in K /\ empty \in K
    BY <2>2 DEF Unbound
  <2>4. \A key \in BindingKeys : none[key] = Unbound /\ empty[key] = NotMade
    OBVIOUS
  <2>5. Containers = {1} /\ parents \in Seq(Nat) /\ Len(parents) = 1 /\ parents[1] = 0
    BY <2>1 DEF Containers
  <2> HIDE DEF K, none, empty
  <2>6. /\ bindings \in Seq(K) /\ Len(bindings) = 1 /\ bindings[1] = none
        /\ singletons \in Seq(K) /\ Len(singletons) = 1 /\ singletons[1] = empty
    BY <2>1, <2>3
  <2>7. Family
    BY <2>5 DEF Family
  <2>8. registrations \in 0..MaxRegistrations
    BY <2>1, <2>2
  <2>9. Slot(Unbound, NotMade, registrations)
    BY <2>2, <2>8 DEF Slot, Unbound
  <2>10. Slots(bindings, singletons, Containers, registrations)
    BY <2>4, <2>5, <2>6, <2>9 DEF Slots
  <2>12. bindings \in Tables /\ singletons \in Tables
    BY <2>6 DEF Tables, K
  <2> HIDE DEF Tables
  <2> QED BY <2>5, <2>6, <2>7, <2>8, <2>10, <2>12 DEF ContainerInv
<1>2. ContainerInv /\ [PartsNext]_partsVars => ContainerInv'
  BY PartStep, ContainerStep
<1>3. ContainerInv => InstancesFollowBindings
  BY InstancesFollow
<1> QED BY <1>1, <1>2, <1>3, PTL DEF PartsSpec

-----------------------------------------------------------------------------
(* The batches: the loop of the client, key by key.                        *)

\* The priority and the contract of every key.
Ranks == [key \in ArchivedKeys |-> key.restorePriority]
ByContract == [key \in ArchivedKeys |-> key.contractId]

\* The fields of a key.
LEMMA KeysInType ==
  /\ Ranks \in [ArchivedKeys -> 0..3]
  /\ \A key \in ArchivedKeys : key.size \in Nat
  /\ XdrLimit \in Nat /\ Overhead \in Nat
  /\ ByContract \in [ArchivedKeys -> ContractIds \cup {CodeId, UnknownId}]
<1>1. \A key \in ArchivedKeys : /\ key.size \in Sizes /\ key.restorePriority \in 0..3
                                /\ key.contractId \in ContractIds \cup {CodeId, UnknownId}
  BY DEF ArchivedKeys
<1>2. Ranks \in [ArchivedKeys -> 0..3]
  BY <1>1 DEF Ranks
<1>3. ByContract \in [ArchivedKeys -> ContractIds \cup {CodeId, UnknownId}]
  BY <1>1 DEF ByContract
<1> QED BY <1>1, <1>2, <1>3, BatchesAssumption

\* A stable sort of keys.
LEMMA KeysAreSorted ==
  ASSUME NEW keys \in Seq(ArchivedKeys)
  PROVE  /\ SortedKeys(keys) \in Seq(ArchivedKeys) /\ Sorted(Ranks, SortedKeys(keys))
         /\ \A key \in ArchivedKeys : Kept(SortedKeys(keys), {key}) = Kept(keys, {key})
         /\ \A x : Has(SortedKeys(keys), x) <=> Has(keys, x)
         /\ Len(SortedKeys(keys)) = Len(keys)
<1> DEFINE classes == Ranked(Ranks, ArchivedKeys)
<1>1. SortedKeys(keys) = FlattenSeq(Shares(keys, classes))
  <2>1. DOMAIN Ranks = ArchivedKeys
    BY DEF Ranks
  <2>2. DOMAIN classes = 1..4 /\ \A p \in 1..4 : classes[p] = {x \in ArchivedKeys : Ranks[x] = p - 1}
    BY DEF Ranked
  <2>3. Shares(keys, classes) = [p \in 1..4 |-> Kept(keys, {x \in DOMAIN Ranks : Ranks[x] = p - 1})]
    <3> HIDE DEF classes
    <3> QED BY <2>1, <2>2 DEF Shares
  <2>4. SortedKeys(keys) = FlattenSeq([p \in 1..4 |-> Kept(keys, {x \in DOMAIN Ranks : Ranks[x] = p - 1})])
    BY DEF SortedKeys, SortedBy, Ranks
  <2> QED BY <2>3, <2>4
<1>2. Ranks \in [ArchivedKeys -> 0..3]
  BY KeysInType
<1>3. ASSUME NEW key \in ArchivedKeys PROVE Kept(SortedKeys(keys), {key}) = Kept(keys, {key})
  <2>1. {key} \in SUBSET ArchivedKeys /\ \A x, y \in {key} : Ranks[x] = Ranks[y]
    OBVIOUS
  <2> QED BY <1>1, <1>2, <2>1, RankedSorts
<1> QED BY <1>1, <1>2, <1>3, RankedSorts, RankedLength

-----------------------------------------------------------------------------
\* The size of a batch, key by key.
LEMMA BytesAdd ==
  /\ BytesOf(<<>>) = 0
  /\ \A batch \in Seq(ArchivedKeys) : BytesOf(batch) \in Nat
  /\ \A batch \in Seq(ArchivedKeys), key \in ArchivedKeys :
       BytesOf(Append(batch, key)) = BytesOf(batch) + key.size + Overhead
<1> DEFINE step == [n \in Nat |-> [key \in ArchivedKeys |-> n + key.size + Overhead]]
           V == Nat
<1>1. step \in [V -> [ArchivedKeys -> V]] /\ 0 \in V
  BY KeysInType
<1>2. \A n \in V, key \in ArchivedKeys : step[n][key] = n + key.size + Overhead
  OBVIOUS
<1>3. \A batch : BytesOf(batch) = Loop(step, 0, batch)
  BY DEF BytesOf
<1> HIDE DEF step, V
<1>4. Steps(step, 0, V, ArchivedKeys)
  BY <1>1 DEF Steps
<1>5. /\ Loop(step, 0, <<>>) = 0
      /\ \A batch \in Seq(ArchivedKeys) : Loop(step, 0, batch) \in V
      /\ \A batch \in Seq(ArchivedKeys), key \in ArchivedKeys :
           Loop(step, 0, Append(batch, key)) = step[Loop(step, 0, batch)][key]
  BY <1>4, LoopRuns
<1>6. \A batch \in Seq(ArchivedKeys), key \in ArchivedKeys :
        BytesOf(Append(batch, key)) = BytesOf(batch) + key.size + Overhead
  BY <1>2, <1>3, <1>5
<1>7. \A batch \in Seq(ArchivedKeys) : BytesOf(batch) \in Nat
  BY <1>3, <1>5 DEF V
<1> QED BY <1>3, <1>5, <1>6, <1>7

\* Where the client's batchKeys stands after the keys u.
Filling == [done : Seq(ContractGroups), current : Seq(ArchivedKeys), size : Nat]
FirstFill == [done |-> <<>>, current |-> <<>>, size |-> 0]
Fill == [acc \in Filling |-> [key \in ArchivedKeys |-> AddToBatch(acc, key)]]
Filled(u) == Loop(Fill, FirstFill, u)

\* A limit that the client accepts.
SizesKnown == maxBatchSize \in Nat \ {0}

\* One turn of batchKeys.
LEMMA AddToBatchType ==
  ASSUME NEW acc \in Filling, NEW key \in ArchivedKeys, SizesKnown
  PROVE  /\ AddToBatch(acc, key) \in Filling
         /\ \/ /\ acc.current # <<>>
               /\ AddToBatch(acc, key) = [done    |-> Append(acc.done, acc.current),
                                          current |-> <<key>>, size |-> key.size]
            \/ /\ acc.current # <<>> => /\ acc.size + key.size + Overhead <= XdrLimit
                                        /\ Len(acc.current) < maxBatchSize
                                        /\ ~overBudget
               /\ AddToBatch(acc, key) = [done |-> acc.done, current |-> Append(acc.current, key),
                                          size |-> acc.size + key.size + Overhead]
<1>1. /\ acc.done \in Seq(ContractGroups) /\ acc.current \in Seq(ArchivedKeys) /\ acc.size \in Nat
      /\ acc = [done |-> acc.done, current |-> acc.current, size |-> acc.size]
  BY DEF Filling
<1>2. key.size \in Nat /\ Overhead \in Nat /\ XdrLimit \in Nat /\ maxBatchSize \in Nat
  BY KeysInType DEF SizesKnown
<1> DEFINE total == acc.size + key.size + Overhead
<1>3. total \in Nat /\ Len(acc.current) \in Nat
  BY <1>1, <1>2
<1> HIDE DEF total
<1>4. CASE LimitExceeded(acc.current, acc.size, key)
  <2>1. acc.current # <<>>
    BY <1>4 DEF LimitExceeded
  <2>2. AddToBatch(acc, key) = [done |-> Append(acc.done, acc.current),
                                current |-> <<key>>, size |-> key.size]
    BY <1>4 DEF AddToBatch
  <2>3. acc.current \in ContractGroups /\ <<key>> \in Seq(ArchivedKeys)
    BY <1>1, <2>1 DEF ContractGroups
  <2>4. Append(acc.done, acc.current) \in Seq(ContractGroups)
    BY <1>1, <2>3
  <2> QED BY <1>2, <2>1, <2>2, <2>3, <2>4 DEF Filling
<1>5. CASE ~LimitExceeded(acc.current, acc.size, key)
  <2>1. AddToBatch(acc, key)
          = [acc EXCEPT !.current = Append(@, key), !.size = @ + key.size + Overhead]
    BY <1>5 DEF AddToBatch
  <2>2. AddToBatch(acc, key)
          = [done |-> acc.done, current |-> Append(acc.current, key), size |-> total]
    BY <1>1, <2>1 DEF total
  <2>3. Append(acc.current, key) \in Seq(ArchivedKeys)
    BY <1>1
  <2>4. acc.current # <<>> => total <= XdrLimit /\ Len(acc.current) < maxBatchSize /\ ~overBudget
    BY <1>2, <1>3, <1>5 DEF LimitExceeded, total
  <2> QED BY <1>1, <1>3, <2>2, <2>3, <2>4 DEF Filling, total
<1> QED BY <1>4, <1>5

\* batchKeys, key by key.
LEMMA FilledUnfolds ==
  ASSUME SizesKnown
  PROVE  /\ Filled(<<>>) = FirstFill
         /\ \A u \in Seq(ArchivedKeys) : Filled(u) \in Filling
         /\ \A u \in Seq(ArchivedKeys), key \in ArchivedKeys :
              Filled(Append(u, key)) = AddToBatch(Filled(u), key)
<1>1. Fill \in [Filling -> [ArchivedKeys -> Filling]] /\ FirstFill \in Filling
  <2>1. \A acc \in Filling, key \in ArchivedKeys : AddToBatch(acc, key) \in Filling
    BY AddToBatchType
  <2>2. FirstFill \in Filling
    BY DEF FirstFill, Filling
  <2> QED BY <2>1, <2>2 DEF Fill
<1>2. \A acc \in Filling, key \in ArchivedKeys : Fill[acc][key] = AddToBatch(acc, key)
  BY DEF Fill
<1>3. Steps(Fill, FirstFill, Filling, ArchivedKeys)
  BY <1>1 DEF Steps
<1>4. /\ Loop(Fill, FirstFill, <<>>) = FirstFill
      /\ \A u \in Seq(ArchivedKeys) : Loop(Fill, FirstFill, u) \in Filling
      /\ \A u \in Seq(ArchivedKeys), key \in ArchivedKeys :
           Loop(Fill, FirstFill, Append(u, key)) = Fill[Loop(Fill, FirstFill, u)][key]
  BY <1>3, LoopRuns
<1> QED BY <1>2, <1>4 DEF Filled

\* batchKeys keeps the keys, their order and the limits.
FillingInv(acc, u) ==
  /\ acc \in Filling
  /\ FlattenSeq(acc.done) \o acc.current = u
  /\ acc.current = <<>> => u = <<>> /\ acc.done = <<>> /\ acc.size = 0
  /\ \A i \in DOMAIN acc.done : KeepsLimits(acc.done[i])
  /\ Len(acc.current) <= maxBatchSize
  /\ BytesOf(acc.current) <= acc.size + Overhead
  /\ Len(acc.current) > 1 => ~overBudget /\ acc.size <= XdrLimit

LEMMA GroupsAreSequences == Seq(ContractGroups) \subseteq Seq(Seq(ArchivedKeys))
<1>1. ContractGroups \subseteq Seq(ArchivedKeys)
  BY DEF ContractGroups
<1> QED BY <1>1

\* The limits and the order survive every turn.
LEMMA FillingHolds ==
  ASSUME NEW u \in Seq(ArchivedKeys), SizesKnown
  PROVE  FillingInv(Filled(u), u)
<1> DEFINE T == {v \in Seq(ArchivedKeys) : FillingInv(Filled(v), v)}
<1>1. <<>> \in T
  <2>1. /\ FirstFill \in Filling /\ FirstFill.done = <<>> /\ FirstFill.current = <<>>
        /\ FirstFill.size = 0
    BY DEF FirstFill, Filling
  <2>2. FlattenSeq(FirstFill.done) \o FirstFill.current = <<>>
    <3>1. FlattenSeq(FirstFill.done) = <<>>
      BY <2>1, FlattenEmpty
    <3> QED BY <2>1, <3>1
  <2>3. /\ BytesOf(FirstFill.current) = 0 /\ Len(FirstFill.current) = 0
        /\ DOMAIN FirstFill.done = {}
    BY <2>1, BytesAdd
  <2>4. FillingInv(FirstFill, <<>>)
    BY <2>1, <2>2, <2>3, KeysInType DEF FillingInv, SizesKnown
  <2> QED BY <2>4, FilledUnfolds
<1>2. ASSUME NEW v \in Seq(ArchivedKeys), NEW key \in ArchivedKeys, v \in T PROVE Append(v, key) \in T
  <2> DEFINE acc == Filled(v)
             new == AddToBatch(acc, key)
  <2>1. Filled(Append(v, key)) = new /\ FillingInv(acc, v)
    BY <1>2, FilledUnfolds
  <2>2. /\ acc \in Filling /\ acc.done \in Seq(ContractGroups) /\ acc.current \in Seq(ArchivedKeys)
        /\ acc.size \in Nat
    BY <2>1 DEF FillingInv, Filling
  <2>3. key.size \in Nat /\ Overhead \in Nat /\ XdrLimit \in Nat /\ maxBatchSize \in Nat /\ maxBatchSize > 0
    BY KeysInType DEF SizesKnown
  <2> HIDE DEF acc, new
  <2>4. new \in Filling
    BY <2>2, AddToBatchType DEF new
  <2>5. acc.done \in Seq(Seq(ArchivedKeys)) /\ FlattenSeq(acc.done) \in Seq(ArchivedKeys)
    BY <2>2, GroupsAreSequences, FlattenType
  <2>6. /\ BytesOf(<<>>) = 0 /\ BytesOf(acc.current) \in Nat
        /\ BytesOf(Append(acc.current, key)) = BytesOf(acc.current) + key.size + Overhead
    BY <2>2, BytesAdd
  <2>7. ASSUME acc.current # <<>>,
               new = [done |-> Append(acc.done, acc.current), current |-> <<key>>, size |-> key.size]
        PROVE  FillingInv(new, Append(v, key))
    <3>1. new.done = Append(acc.done, acc.current) /\ new.current = <<key>> /\ new.size = key.size
      BY <2>7
    <3>2. FlattenSeq(new.done) \o new.current = Append(v, key)
      <4>1. FlattenSeq(new.done) = FlattenSeq(acc.done) \o acc.current
        BY <2>2, <2>5, <3>1, FlattenAppend
      <4>2. FlattenSeq(acc.done) \o acc.current = v
        BY <2>1 DEF FillingInv
      <4>3. v \o <<key>> = Append(v, key)
        OBVIOUS
      <4> QED BY <3>1, <4>1, <4>2, <4>3
    <3>3. KeepsLimits(acc.current)
      <4>1. Len(acc.current) \in 1..maxBatchSize
        BY <2>1, <2>2, <2>3, <2>7 DEF FillingInv
      <4> QED BY <2>1, <2>2, <2>3, <2>6, <4>1 DEF FillingInv, KeepsLimits
    <3>4. ASSUME NEW i \in DOMAIN new.done PROVE KeepsLimits(new.done[i])
      <4>1. \/ i \in DOMAIN acc.done /\ new.done[i] = acc.done[i]
            \/ new.done[i] = acc.current
        BY <2>2, <2>5, <3>1
      <4> QED BY <2>1, <3>3, <4>1 DEF FillingInv
    <3>5. <<key>> # <<>> /\ Len(<<key>>) = 1 /\ <<key>> = Append(<<>>, key) /\ <<>> \in Seq(ArchivedKeys)
      OBVIOUS
    <3>6. BytesOf(<<key>>) = key.size + Overhead
      <4>1. BytesOf(Append(<<>>, key)) = BytesOf(<<>>) + key.size + Overhead
        BY <3>5, BytesAdd
      <4> QED BY <2>3, <2>6, <3>5, <4>1
    <3>7. /\ new.current # <<>> /\ ~(Len(new.current) > 1) /\ Len(new.current) <= maxBatchSize
          /\ BytesOf(new.current) <= new.size + Overhead
      BY <2>3, <3>1, <3>5, <3>6
    <3> QED BY <2>4, <3>2, <3>4, <3>7 DEF FillingInv
  <2>8. ASSUME acc.current # <<>> => /\ acc.size + key.size + Overhead <= XdrLimit
                                     /\ Len(acc.current) < maxBatchSize /\ ~overBudget,
               new = [done |-> acc.done, current |-> Append(acc.current, key),
                      size |-> acc.size + key.size + Overhead]
        PROVE  FillingInv(new, Append(v, key))
    <3>1. /\ new.done = acc.done /\ new.current = Append(acc.current, key)
          /\ new.size = acc.size + key.size + Overhead
      BY <2>8
    <3>2. FlattenSeq(new.done) \o new.current = Append(v, key)
      <4>1. FlattenSeq(acc.done) \o acc.current = v
        BY <2>1 DEF FillingInv
      <4>2. FlattenSeq(acc.done) \o Append(acc.current, key)
              = Append(FlattenSeq(acc.done) \o acc.current, key)
        <5> DEFINE a == FlattenSeq(acc.done)
                   b == acc.current
        <5>1. a \in Seq(ArchivedKeys) /\ b \in Seq(ArchivedKeys)
          BY <2>2, <2>5
        <5> HIDE DEF a, b, T
        <5>2. a \o Append(b, key) = Append(a \o b, key)
          BY <5>1, ConcatAppend
        <5> QED BY <5>2 DEF a, b
      <4> QED BY <3>1, <4>1, <4>2
    <3>3. /\ new.current # <<>> /\ (Len(new.current) > 1 => acc.current # <<>>)
          /\ Len(new.current) = Len(acc.current) + 1 /\ Len(acc.current) \in Nat
          /\ (acc.current = <<>> => Len(acc.current) = 0)
      <4> DEFINE b == acc.current
      <4>1. b \in Seq(ArchivedKeys) /\ new.current = Append(b, key)
        BY <2>2, <3>1
      <4> HIDE DEF b, T
      <4>2. /\ Append(b, key) # <<>> /\ Len(Append(b, key)) = Len(b) + 1 /\ Len(b) \in Nat
            /\ (b = <<>> => Len(b) = 0)
        BY <4>1
      <4>3. Len(b) + 1 > 1 => b # <<>>
        BY <4>2
      <4> QED BY <4>1, <4>2, <4>3 DEF b
    <3>4. /\ \A i \in DOMAIN acc.done : KeepsLimits(acc.done[i])
          /\ BytesOf(acc.current) <= acc.size + Overhead
      BY <2>1 DEF FillingInv
    <3>5. BytesOf(new.current) <= new.size + Overhead
      BY <2>2, <2>3, <2>6, <3>1, <3>4
    <3>6. Len(new.current) > 1 => ~overBudget /\ new.size <= XdrLimit
      BY <2>8, <3>1, <3>3
    <3>7. Len(new.current) <= maxBatchSize
      BY <2>3, <2>8, <3>3
    <3> QED BY <2>1, <2>4, <3>1, <3>2, <3>3, <3>4, <3>5, <3>6, <3>7 DEF FillingInv
  <2>9. FillingInv(new, Append(v, key))
    <3> HIDE DEF T
    <3> QED BY <2>2, <2>7, <2>8, AddToBatchType DEF new
  <2> QED BY <2>1, <2>9
<1> HIDE DEF T
<1>3. u \in T
  BY <1>1, <1>2, SequenceInduction
<1> QED BY <1>3 DEF T

\* The batches of batchKeys, with the last one flushed.
LEMMA ClientLoopHolds ==
  ASSUME NEW u \in Seq(ArchivedKeys), SizesKnown
  PROVE  /\ batchKeys(u) \in Seq(Seq(ArchivedKeys)) /\ FlattenSeq(batchKeys(u)) = u
         /\ \A i \in DOMAIN batchKeys(u) : KeepsLimits(batchKeys(u)[i])
<1> DEFINE acc == Filled(u)
<1>1. batchKeys(u) = IF acc.current = <<>> THEN acc.done ELSE Append(acc.done, acc.current)
  BY DEF batchKeys, Flushed, Filled, Fill, Filling, FirstFill
<1>2. FillingInv(acc, u)
  BY FillingHolds
<1> HIDE DEF acc
<1>3. acc.done \in Seq(Seq(ArchivedKeys)) /\ acc.current \in Seq(ArchivedKeys) /\ acc.size \in Nat
  BY <1>2, GroupsAreSequences DEF FillingInv, Filling
<1>4. CASE acc.current = <<>>
  <2>1. batchKeys(u) = <<>> /\ u = <<>>
    BY <1>1, <1>2, <1>4 DEF FillingInv
  <2>2. DOMAIN batchKeys(u) = {} /\ batchKeys(u) \in Seq(Seq(ArchivedKeys))
    BY <2>1
  <2> QED BY <2>1, <2>2, FlattenEmpty
<1>5. CASE acc.current # <<>>
  <2>1. batchKeys(u) = Append(acc.done, acc.current)
    BY <1>1, <1>5
  <2>2. FlattenSeq(batchKeys(u)) = u
    <3>1. FlattenSeq(batchKeys(u)) = FlattenSeq(acc.done) \o acc.current
      BY <1>3, <2>1, FlattenAppend
    <3> QED BY <1>2, <3>1 DEF FillingInv
  <2>3. KeepsLimits(acc.current)
    <3>1. /\ BytesOf(acc.current) \in Nat /\ XdrLimit \in Nat /\ Overhead \in Nat
          /\ maxBatchSize \in Nat
      BY <1>3, BytesAdd, KeysInType DEF SizesKnown
    <3>2. Len(acc.current) \in 1..maxBatchSize
      BY <1>2, <1>3, <1>5, <3>1 DEF FillingInv
    <3> QED BY <1>2, <1>3, <3>1, <3>2 DEF FillingInv, KeepsLimits
  <2>4. ASSUME NEW i \in DOMAIN batchKeys(u) PROVE KeepsLimits(batchKeys(u)[i])
    <3>1. \/ i \in DOMAIN acc.done /\ batchKeys(u)[i] = acc.done[i]
          \/ batchKeys(u)[i] = acc.current
      BY <1>3, <2>1
    <3> QED BY <1>2, <2>3, <3>1 DEF FillingInv
  <2>5. batchKeys(u) \in Seq(Seq(ArchivedKeys))
    BY <1>3, <2>1
  <2> QED BY <2>2, <2>4, <2>5
<1> QED BY <1>4, <1>5

\* An array with the same occurrences of every key has the same keys.
LEMMA SameKeysHold ==
  ASSUME NEW keys \in Seq(ArchivedKeys), NEW batches \in Seq(Seq(ArchivedKeys)),
         \A key \in ArchivedKeys : Kept(FlattenSeq(batches), {key}) = Kept(keys, {key})
  PROVE  SameKeys(batches, keys)
<1>1. FlattenSeq(batches) \in Seq(ArchivedKeys)
  BY FlattenType
<1>2. \A key \in ToSet(keys) \cup ToSet(FlattenSeq(batches)) : key \in ArchivedKeys
  BY <1>1 DEF ToSet
<1> QED BY <1>2 DEF SameKeys

\* The groups of batchKeysByContract.
LEMMA GroupsOfContracts ==
  ASSUME NEW keys \in Seq(ArchivedKeys)
  PROVE  LET groups == batchKeysByContract(keys)
         IN  /\ groups \in Seq(ContractGroups)
             /\ \A key \in ArchivedKeys : Kept(FlattenSeq(groups), {key}) = Kept(keys, {key})
             /\ \A i \in DOMAIN groups : \E id :
                  groups[i] = Kept(keys, {key \in ArchivedKeys : key.contractId = id})
             /\ \A i \in DOMAIN groups : \A x, y :
                  Has(groups[i], x) /\ Has(groups[i], y) => x.contractId = y.contractId
             /\ \A i, j \in DOMAIN groups : i # j =>
                  \A x, y : Has(groups[i], x) /\ Has(groups[j], y) => x.contractId # y.contractId
<1> DEFINE groups == batchKeysByContract(keys)
           labels == ContractIds \cup {CodeId, UnknownId}
           classOf(id) == {key \in ArchivedKeys : key.contractId = id}
<1>1. groups = GroupedBy(ByContract, keys)
  BY DEF batchKeysByContract, ByContract
<1>2. ByContract \in [ArchivedKeys -> labels] /\ \A key \in ArchivedKeys : ByContract[key] = key.contractId
  BY KeysInType DEF ByContract
<1> HIDE DEF groups, labels
<1>3. PICK names : Groups(groups, names, ByContract, ArchivedKeys, keys)
  BY <1>1, <1>2, GroupsHold
<1>4. /\ groups \in Seq(Seq(ArchivedKeys)) /\ DOMAIN names = DOMAIN groups /\ Distinct(names)
      /\ \A i \in DOMAIN groups : /\ groups[i] # <<>>
                                  /\ groups[i] = Kept(keys, {x \in ArchivedKeys : ByContract[x] = names[i]})
  BY <1>3 DEF Groups
<1>5. \A i \in DOMAIN groups : groups[i] = Kept(keys, classOf(names[i]))
  <2>1. \A id : {x \in ArchivedKeys : ByContract[x] = id} = classOf(id)
    BY <1>2
  <2> HIDE DEF classOf
  <2> QED BY <1>4, <2>1
<1>6. groups \in Seq(ContractGroups)
  <2>1. groups \in Seq(Seq(ArchivedKeys))
    BY <1>4
  <2>2. \A i \in DOMAIN groups : groups[i] \in Seq(ArchivedKeys)
    BY <2>1
  <2>3. \A i \in DOMAIN groups : groups[i] \in ContractGroups
    BY <1>4, <2>2 DEF ContractGroups
  <2> QED BY <2>1, <2>3
<1>7. ASSUME NEW key \in ArchivedKeys PROVE Kept(FlattenSeq(groups), {key}) = Kept(keys, {key})
  <2>1. {key} \in SUBSET ArchivedKeys /\ \A x, y \in {key} : ByContract[x] = ByContract[y]
    OBVIOUS
  <2> QED BY <1>3, <2>1 DEF Groups
<1>8. \A i \in DOMAIN groups : \A x : Has(groups[i], x) => x.contractId = names[i]
  <2> SUFFICES ASSUME NEW i \in DOMAIN groups, NEW x, Has(groups[i], x)
               PROVE  x.contractId = names[i]
    OBVIOUS
  <2>1. Has(Kept(keys, classOf(names[i])), x)
    BY <1>5
  <2>2. x \in classOf(names[i])
    <3> HIDE DEF classOf
    <3> QED BY <2>1, KeptHas
  <2> QED BY <2>2
<1>9. \A i, j \in DOMAIN groups : i # j => names[i] # names[j]
  BY <1>4 DEF Distinct
<1>10. \A i \in DOMAIN groups : \E id : groups[i] = Kept(keys, classOf(id))
  BY <1>5
<1> HIDE DEF classOf
<1>11. /\ \A i \in DOMAIN groups : \A x, y :
             Has(groups[i], x) /\ Has(groups[i], y) => x.contractId = y.contractId
       /\ \A i, j \in DOMAIN groups : i # j =>
             \A x, y : Has(groups[i], x) /\ Has(groups[j], y) => x.contractId # y.contractId
  BY <1>8, <1>9
<1> QED BY <1>6, <1>7, <1>10, <1>11 DEF groups, classOf

\* buildRestoreTransactionBatches: sorted keys, divided where a limit falls.
LEMMA ClientPlanFits ==
  ASSUME NEW keys \in Seq(ArchivedKeys), SizesKnown
  PROVE  LET batches == ClientBatches(keys)
         IN  SameKeys(batches, keys) /\ \A i \in DOMAIN batches : KeepsLimits(batches[i])
<1> DEFINE sorted == SortedKeys(keys)
           batches == batchKeys(sorted)
<1>1. /\ sorted \in Seq(ArchivedKeys)
      /\ \A key \in ArchivedKeys : Kept(sorted, {key}) = Kept(keys, {key})
  BY KeysAreSorted
<1> HIDE DEF sorted
<1>2. /\ batches \in Seq(Seq(ArchivedKeys)) /\ FlattenSeq(batches) = sorted
      /\ \A i \in DOMAIN batches : KeepsLimits(batches[i])
  BY <1>1, ClientLoopHolds
<1> HIDE DEF batches
<1>3. SameKeys(batches, keys)
  BY <1>1, <1>2, SameKeysHold
<1> QED BY <1>2, <1>3 DEF ClientBatches, batches, sorted

\* Its concurrent form: every group by itself.
LEMMA ConcurrentPlanFits ==
  ASSUME NEW keys \in Seq(ArchivedKeys), SizesKnown
  PROVE  LET batches == ConcurrentClientBatches(keys)
         IN  /\ SameKeys(batches, keys)
             /\ \A i \in DOMAIN batches :
                  /\ KeepsLimits(batches[i])
                  /\ \A x, y \in ToSet(batches[i]) : x.contractId = y.contractId
<1> DEFINE sorted == SortedKeys(keys)
           groups == batchKeysByContract(sorted)
           f == [group \in ContractGroups |-> batchKeys(group)]
           each == Mapped(f, groups)
           batches == FlattenSeq(each)
<1>1. /\ sorted \in Seq(ArchivedKeys)
      /\ \A key \in ArchivedKeys : Kept(sorted, {key}) = Kept(keys, {key})
  BY KeysAreSorted
<1>2. ConcurrentClientBatches(keys) = batches
  BY DEF ConcurrentClientBatches, batchKeyGroups, groupKeysByContract
<1> HIDE DEF sorted
<1>3. /\ groups \in Seq(ContractGroups)
      /\ \A key \in ArchivedKeys : Kept(FlattenSeq(groups), {key}) = Kept(sorted, {key})
      /\ \A i \in DOMAIN groups : \A x, y :
           Has(groups[i], x) /\ Has(groups[i], y) => x.contractId = y.contractId
  BY <1>1, GroupsOfContracts
<1> HIDE DEF groups
<1>4. \A group \in ContractGroups : group \in Seq(ArchivedKeys)
  BY DEF ContractGroups
<1>5. /\ MapsTo(f, ContractGroups, Seq(Seq(ArchivedKeys)))
      /\ \A group \in ContractGroups : f[group] = batchKeys(group)
  BY <1>4, ClientLoopHolds DEF MapsTo
<1> HIDE DEF f
<1>6. /\ each \in Seq(Seq(Seq(ArchivedKeys))) /\ DOMAIN each = DOMAIN groups
      /\ \A i \in DOMAIN groups : each[i] = batchKeys(groups[i]) /\ groups[i] \in ContractGroups
  <2>1. /\ each \in Seq(Seq(Seq(ArchivedKeys))) /\ DOMAIN each = DOMAIN groups
        /\ \A i \in DOMAIN groups : each[i] = f[groups[i]]
    BY <1>3, <1>5, MappedHolds
  <2>2. \A i \in DOMAIN groups : groups[i] \in ContractGroups
    BY <1>3
  <2> HIDE DEF each
  <2> QED BY <1>5, <2>1, <2>2
<1> HIDE DEF each
<1>7. batches \in Seq(Seq(ArchivedKeys))
  BY <1>6, FlattenType
<1>8. FlattenSeq(batches) = FlattenSeq(groups)
  <2> DEFINE join == [q \in Seq(Seq(ArchivedKeys)) |-> FlattenSeq(q)]
  <2>1. MapsTo(join, Seq(Seq(ArchivedKeys)), Seq(ArchivedKeys))
        /\ \A q \in Seq(Seq(ArchivedKeys)) : join[q] = FlattenSeq(q)
    BY FlattenType DEF MapsTo
  <2>2. FlattenSeq(batches) = FlattenSeq(Mapped(join, each))
    BY <1>6, FlattenFlatten
  <2> HIDE DEF join
  <2>3. /\ Mapped(join, each) \in Seq(Seq(ArchivedKeys)) /\ DOMAIN Mapped(join, each) = DOMAIN each
        /\ \A i \in DOMAIN each : Mapped(join, each)[i] = join[each[i]]
    BY <1>6, <2>1, MappedHolds
  <2>4. \A i \in DOMAIN each : join[each[i]] = groups[i]
    <3> SUFFICES ASSUME NEW i \in DOMAIN each PROVE join[each[i]] = groups[i]
      OBVIOUS
    <3>1. each[i] = batchKeys(groups[i]) /\ groups[i] \in Seq(ArchivedKeys)
      BY <1>4, <1>6
    <3>2. batchKeys(groups[i]) \in Seq(Seq(ArchivedKeys)) /\ FlattenSeq(batchKeys(groups[i])) = groups[i]
      BY <3>1, ClientLoopHolds
    <3> QED BY <2>1, <3>1, <3>2
  <2>5. Mapped(join, each) = groups
    <3>1. /\ groups \in Seq(Seq(ArchivedKeys)) /\ DOMAIN Mapped(join, each) = DOMAIN groups
          /\ \A i \in DOMAIN groups : Mapped(join, each)[i] = groups[i]
      BY <1>3, <1>6, <2>3, <2>4, GroupsAreSequences
    <3> DEFINE m == Mapped(join, each)
    <3> HIDE DEF m
    <3>2. m \in Seq(Seq(ArchivedKeys)) /\ DOMAIN m = DOMAIN groups /\ \A i \in DOMAIN groups : m[i] = groups[i]
      BY <2>3, <3>1 DEF m
    <3>3. m = groups
      BY <3>1, <3>2
    <3> QED BY <3>3 DEF m
  <2> QED BY <2>2, <2>5
<1>9. SameKeys(batches, keys)
  <2> HIDE DEF batches
  <2> QED BY <1>1, <1>3, <1>7, <1>8, SameKeysHold
<1>10. ASSUME NEW i \in DOMAIN batches
       PROVE  /\ KeepsLimits(batches[i])
              /\ \A x, y \in ToSet(batches[i]) : x.contractId = y.contractId
  <2>1. Has(batches, batches[i])
    BY <1>10 DEF Has
  <2>2. PICK k \in DOMAIN each : Has(each[k], batches[i])
    BY <1>6, <2>1, FlattenHas
  <2> DEFINE mine == batchKeys(groups[k])
  <2>3. k \in DOMAIN groups /\ groups[k] \in Seq(ArchivedKeys) /\ Has(mine, batches[i])
    BY <1>4, <1>6, <2>2
  <2>4. /\ mine \in Seq(Seq(ArchivedKeys)) /\ FlattenSeq(mine) = groups[k]
        /\ \A j \in DOMAIN mine : KeepsLimits(mine[j])
    BY <2>3, ClientLoopHolds
  <2> HIDE DEF mine, batches
  <2>5. PICK j \in DOMAIN mine : mine[j] = batches[i]
    BY <2>3 DEF Has
  <2>6. \A x : x \in ToSet(batches[i]) => Has(groups[k], x)
    <3> SUFFICES ASSUME NEW x, x \in ToSet(batches[i]) PROVE Has(groups[k], x)
      OBVIOUS
    <3>1. Has(mine[j], x)
      BY <2>5, ToSetHas
    <3> QED BY <2>4, <3>1, FlattenHas
  <2> QED BY <1>3, <2>3, <2>4, <2>5, <2>6
<1> QED BY <1>2, <1>9, <1>10

-----------------------------------------------------------------------------
(* The batches: the loop of the utils, group by group.                     *)

\* The arithmetic of the slices.
LEMMA MinIs ==
  ASSUME NEW a \in Int, NEW b \in Int
  PROVE  Min({a, b}) = IF a <= b THEN a ELSE b
  BY DEF Min

LEMMA Quotient ==
  ASSUME NEW a \in Nat, NEW m \in Nat \ {0}
  PROVE  a \div m \in Nat /\ (a \div m) * m <= a /\ a < (a \div m) * m + m
  OBVIOUS

LEMMA TimesLess ==
  ASSUME NEW i \in Int, NEW m \in Int
  PROVE  (i - 1) * m = i * m - m /\ i * m \in Int
  OBVIOUS

LEMMA TimesMonotone ==
  ASSUME NEW i \in Nat, NEW j \in Nat, NEW m \in Nat, i <= j
  PROVE  i * m <= j * m /\ i * m \in Nat
  OBVIOUS

\* A slice, and two slices that follow each other.
LEMMA SubSeqIs ==
  ASSUME NEW E, NEW s \in Seq(E), NEW a \in 1..(Len(s) + 1), NEW b \in 0..Len(s), a <= b + 1
  PROVE  /\ SubSeq(s, a, b) \in Seq(E) /\ Len(SubSeq(s, a, b)) = b - a + 1
         /\ \A i \in 1..(b - a + 1) : SubSeq(s, a, b)[i] = s[a + i - 1]
  OBVIOUS

LEMMA SubSeqsJoin ==
  ASSUME NEW E, NEW s \in Seq(E), NEW a \in 0..Len(s), NEW b \in 0..Len(s), a <= b
  PROVE  SubSeq(s, 1, a) \o SubSeq(s, a + 1, b) = SubSeq(s, 1, b)
<1> DEFINE x == SubSeq(s, 1, a)
           y == SubSeq(s, a + 1, b)
           z == SubSeq(s, 1, b)
<1>1. x \in Seq(E) /\ Len(x) = a /\ \A i \in 1..a : x[i] = s[i]
  <2>1. 1 \in 1..(Len(s) + 1) /\ a \in 0..Len(s) /\ 1 <= a + 1 /\ a - 1 + 1 = a
        /\ \A i \in 1..a : 1 + i - 1 = i
    OBVIOUS
  <2>2. /\ SubSeq(s, 1, a) \in Seq(E) /\ Len(SubSeq(s, 1, a)) = a - 1 + 1
        /\ \A i \in 1..(a - 1 + 1) : SubSeq(s, 1, a)[i] = s[1 + i - 1]
    BY <2>1, SubSeqIs
  <2> QED BY <2>1, <2>2
<1>2. y \in Seq(E) /\ Len(y) = b - a /\ \A i \in 1..(b - a) : y[i] = s[a + i]
  <2>1. /\ a + 1 \in 1..(Len(s) + 1) /\ a + 1 <= b + 1 /\ b - (a + 1) + 1 = b - a
        /\ \A i \in 1..(b - a) : a + 1 + i - 1 = a + i
    OBVIOUS
  <2>2. /\ y \in Seq(E) /\ Len(y) = b - (a + 1) + 1
        /\ \A i \in 1..(b - (a + 1) + 1) : y[i] = s[a + 1 + i - 1]
    BY <2>1, SubSeqIs
  <2> HIDE DEF y
  <2> QED BY <2>1, <2>2
<1>3. z \in Seq(E) /\ Len(z) = b /\ \A i \in 1..b : z[i] = s[i]
  <2>1. 1 \in 1..(Len(s) + 1) /\ 1 <= b + 1 /\ b - 1 + 1 = b /\ \A i \in 1..b : 1 + i - 1 = i
    OBVIOUS
  <2>2. /\ z \in Seq(E) /\ Len(z) = b - 1 + 1 /\ \A i \in 1..(b - 1 + 1) : z[i] = s[1 + i - 1]
    BY <2>1, SubSeqIs
  <2> HIDE DEF z
  <2> QED BY <2>1, <2>2
<1> HIDE DEF x, y, z
<1>4. x \o y \in Seq(E) /\ Len(x \o y) = b
  <2>1. x \o y \in Seq(E) /\ Len(x \o y) = Len(x) + Len(y)
    BY <1>1, <1>2
  <2>2. a \in Int /\ b \in Int /\ a + (b - a) = b
    OBVIOUS
  <2> QED BY <1>1, <1>2, <2>1, <2>2
<1>5. \A i \in 1..b : (x \o y)[i] = z[i]
  <2> SUFFICES ASSUME NEW i \in 1..b PROVE (x \o y)[i] = z[i]
    OBVIOUS
  <2>1. CASE i <= a
    BY <1>1, <1>2, <1>3, <2>1
  <2>2. CASE i > a
    <3>1. i - a \in 1..(b - a) /\ a + (i - a) = i
      BY <2>2
    <3>2. (x \o y)[i] = y[i - a]
      BY <1>1, <1>2, <2>2
    <3> QED BY <1>2, <1>3, <3>1, <3>2
  <2>3. i <= a \/ i > a
    <3>1. Len(s) \in Nat
      OBVIOUS
    <3> HIDE DEF x, y, z
    <3> QED BY <3>1
  <2> QED BY <2>1, <2>2, <2>3
<1>6. x \o y = z
  BY <1>3, <1>4, <1>5
<1> QED BY <1>6 DEF x, y, z

\* The slices of a group hold it, in order, and are no longer than m.
LEMMA SlicesHold ==
  ASSUME NEW E, NEW g \in Seq(E), NEW m \in Nat \ {0}
  PROVE  /\ Slices(g, m) \in Seq(Seq(E)) /\ FlattenSeq(Slices(g, m)) = g
         /\ \A i \in DOMAIN Slices(g, m) : Len(Slices(g, m)[i]) \in 1..m
<1> DEFINE L == Len(g)
           n == (L + m - 1) \div m
           at(i) == i * m
           stop(i) == Min({at(i), L})
           slice(i) == SubSeq(g, (i - 1) * m + 1, stop(i))
<1>1. L \in Nat /\ m \in Nat /\ m > 0 /\ L + m - 1 \in Nat
  OBVIOUS
<1>2. Slices(g, m) = [i \in 1..n |-> slice(i)]
  BY DEF Slices
<1>3. n \in Nat /\ n * m <= L + m - 1 /\ L + m - 1 < n * m + m
  <2> DEFINE a == L + m - 1
  <2>1. a \in Nat
    BY <1>1
  <2> HIDE DEF a
  <2>2. a \div m \in Nat /\ (a \div m) * m <= a /\ a < (a \div m) * m + m
    BY <2>1, Quotient
  <2> QED BY <2>2 DEF a
<1>4. at(n) \in Nat /\ at(n) <= L + m - 1 /\ L <= at(n)
  <2>1. at(n) \in Nat
    BY <1>1, <1>3, TimesMonotone
  <2> QED BY <1>1, <1>3, <2>1
<1> HIDE DEF L, n
<1>5. ASSUME NEW i \in 0..n
      PROVE  at(i) \in Nat /\ at(i) <= at(n) /\ (i # n => at(i) <= at(n) - m)
  <2>1. i \in Nat /\ i <= n
    BY <1>3
  <2>2. at(i) \in Nat /\ at(i) <= at(n)
    BY <1>1, <1>3, <2>1, TimesMonotone
  <2>3. ASSUME i # n PROVE at(i) <= at(n) - m
    <3>1. n - 1 \in Nat /\ i <= n - 1
      BY <1>3, <2>1, <2>3
    <3>2. i * m <= (n - 1) * m
      BY <1>1, <2>1, <3>1, TimesMonotone
    <3>3. (n - 1) * m = n * m - m
      BY <1>1, <1>3, TimesLess
    <3> QED BY <3>2, <3>3
  <2> QED BY <2>2, <2>3
<1>6. ASSUME NEW i \in 1..n
      PROVE  /\ (i - 1) * m = at(i - 1) /\ at(i - 1) = at(i) - m
             /\ i - 1 \in 0..n /\ i \in 0..n /\ i - 1 # n
  <2>1. i \in Int /\ i - 1 \in 0..n /\ i \in 0..n /\ i - 1 # n
    BY <1>3
  <2>2. (i - 1) * m = i * m - m
    BY <1>1, <2>1, TimesLess
  <2> QED BY <2>1, <2>2
<1> HIDE DEF at
<1>7. ASSUME NEW i \in 0..n
      PROVE  stop(i) \in 0..L /\ stop(i) = (IF i = n THEN L ELSE at(i)) /\ stop(i) <= at(i)
  <2>1. at(i) \in Nat /\ (i # n => at(i) <= at(n) - m)
    BY <1>5
  <2>2. stop(i) = IF at(i) <= L THEN at(i) ELSE L
    BY <1>1, <2>1, MinIs
  <2> HIDE DEF stop
  <2>3. CASE i = n
    BY <1>1, <1>4, <2>1, <2>2, <2>3
  <2>4. CASE i # n
    BY <1>1, <1>4, <2>1, <2>2, <2>4
  <2> QED BY <2>3, <2>4
<1> HIDE DEF stop
<1>8. ASSUME NEW i \in 1..n
      PROVE  /\ slice(i) \in Seq(E) /\ Len(slice(i)) \in 1..m
             /\ slice(i) = SubSeq(g, stop(i - 1) + 1, stop(i))
             /\ stop(i - 1) <= stop(i)
  <2>1. stop(i - 1) = at(i - 1) /\ stop(i - 1) \in 0..L /\ stop(i) \in 0..L
    BY <1>6, <1>7
  <2>2. at(i - 1) < stop(i) /\ stop(i) <= at(i - 1) + m
    <3>1. stop(i) <= at(i) /\ at(i) = at(i - 1) + m /\ at(i) \in Nat /\ at(i - 1) \in Nat
      BY <1>1, <1>5, <1>6, <1>7
    <3>2. at(i - 1) < L
      BY <1>1, <1>4, <1>5, <1>6
    <3>3. i # n => stop(i) = at(i)
      BY <1>6, <1>7
    <3>4. i = n => stop(i) = L
      BY <1>6, <1>7
    <3> QED BY <1>1, <2>1, <3>1, <3>2, <3>3, <3>4
  <2>3. slice(i) = SubSeq(g, stop(i - 1) + 1, stop(i))
    BY <1>6, <2>1
  <2> DEFINE a == stop(i - 1) + 1
             b == stop(i)
  <2>4. a \in 1..(Len(g) + 1) /\ b \in 0..Len(g) /\ a <= b + 1 /\ b - a + 1 \in 1..m
    BY <1>1, <2>1, <2>2 DEF L
  <2> HIDE DEF a, b, slice
  <2>5. SubSeq(g, a, b) \in Seq(E) /\ Len(SubSeq(g, a, b)) = b - a + 1
    BY <2>4, SubSeqIs
  <2> QED BY <1>1, <2>1, <2>2, <2>3, <2>4, <2>5, SMTT(30) DEF a, b
<1> HIDE DEF slice
<1> DEFINE Cut(i) == [k \in 1..i |-> slice(k)]
           T == {i \in 0..n : FlattenSeq(Cut(i)) = SubSeq(g, 1, stop(i))}
<1>9. ASSUME NEW i \in 0..n PROVE Cut(i) \in Seq(Seq(E)) /\ Len(Cut(i)) = i
  <2>1. i \in Nat /\ \A k \in 1..i : k \in 1..n
    BY <1>3
  <2>2. \A k \in 1..i : slice(k) \in Seq(E)
    BY <1>8, <2>1
  <2> QED BY <2>1, <2>2
<1>10. 0 \in T
  <2>1. stop(0) = 0
    <3>1. 0 \in 0..n /\ at(0) = 0
      BY <1>1, <1>3 DEF at
    <3> QED BY <1>4, <1>7, <3>1
  <2>2. Cut(0) = <<>>
    OBVIOUS
  <2>3. SubSeq(g, 1, 0) = <<>>
    OBVIOUS
  <2>4. 0 \in 0..n
    BY <1>3
  <2> HIDE DEF Cut
  <2> QED BY <2>1, <2>2, <2>3, <2>4, FlattenEmpty
<1>11. ASSUME NEW i \in 1..n, i - 1 \in T PROVE i \in T
  <2>1. i - 1 \in 0..n /\ i \in 0..n /\ i \in Nat /\ i - 1 \in Nat
    BY <1>3, <1>6
  <2> DEFINE q == Cut(i - 1)
             x == slice(i)
  <2>2. q \in Seq(Seq(E)) /\ Len(q) = i - 1 /\ x \in Seq(E)
    BY <1>8, <1>9, <2>1
  <2>3. Cut(i) = [k \in 1..i |-> IF k = i THEN x ELSE q[k]]
    <3>1. \A k \in 1..i : k = i \/ k \in 1..(i - 1)
      BY <2>1
    <3> QED BY <3>1
  <2>4. FlattenSeq(q) = SubSeq(g, 1, stop(i - 1))
    BY <1>11
  <2> HIDE DEF q, Cut, T
  <2>5. Append(q, x) = [k \in 1..(Len(q) + 1) |-> IF k = Len(q) + 1 THEN x ELSE q[k]]
    <3>1. q \in Seq(Seq(E)) /\ x \in Seq(E)
      BY <2>2
    <3> QED BY <3>1, AppendEntries
  <2>6. Len(q) + 1 = i
    BY <2>1, <2>2
  <2>7. Cut(i) = Append(q, x)
    BY <2>3, <2>5, <2>6
  <2>8. FlattenSeq(Cut(i)) = FlattenSeq(q) \o x
    BY <2>2, <2>7, FlattenAppend
  <2>9. x = SubSeq(g, stop(i - 1) + 1, stop(i)) /\ stop(i - 1) <= stop(i)
        /\ stop(i - 1) \in 0..Len(g) /\ stop(i) \in 0..Len(g)
    BY <1>7, <1>8, <2>1 DEF L
  <2>10. SubSeq(g, 1, stop(i - 1)) \o SubSeq(g, stop(i - 1) + 1, stop(i)) = SubSeq(g, 1, stop(i))
    BY <2>9, SubSeqsJoin
  <2> QED BY <2>1, <2>4, <2>8, <2>9, <2>10 DEF T
<1>12. n \in T
  <2>1. \A i \in 1..n : i - 1 \in T => i \in T
    BY <1>11
  <2> HIDE DEF T
  <2> QED BY <1>3, <1>10, <2>1, FiniteInduction, Zenon
<1>13. Slices(g, m) = Cut(n)
  BY <1>2
<1>14. n \in 0..n /\ stop(n) = L
  BY <1>3, <1>7
<1>15. FlattenSeq(Cut(n)) = SubSeq(g, 1, L)
  BY <1>12, <1>14
<1>16. SubSeq(g, 1, L) = g
  BY DEF L
<1>17. \A i \in DOMAIN Cut(n) : Len(Cut(n)[i]) \in 1..m
  BY <1>8
<1> HIDE DEF Cut, T
<1> QED BY <1>9, <1>13, <1>14, <1>15, <1>16, <1>17

\* Where createBatches stands after the groups u.
PackState == [done : Seq(ContractGroups), current : Seq(ArchivedKeys)]
FirstPack == [done |-> <<>>, current |-> <<>>]
PackTurns(max) == [acc \in PackState |-> [group \in ContractGroups |-> Pack(acc, group, max)]]
Packed(u, max) == Loop(PackTurns(max), FirstPack, u)

\* Its batches so far, with the one that is being filled.
Places(acc) == Append(acc.done, acc.current)

\* The slices are batches, none of them empty or too large.
LEMMA SlicesAreGroups ==
  ASSUME NEW group \in ContractGroups, NEW max \in Nat \ {0}
  PROVE  /\ Slices(group, max) \in Seq(ContractGroups)
         /\ FlattenSeq(Slices(group, max)) = group
         /\ \A i \in DOMAIN Slices(group, max) : Len(Slices(group, max)[i]) \in 1..max
<1>1. group \in Seq(ArchivedKeys)
  BY DEF ContractGroups
<1> DEFINE q == Slices(group, max)
<1>2. /\ q \in Seq(Seq(ArchivedKeys)) /\ FlattenSeq(q) = group
      /\ \A i \in DOMAIN q : Len(q[i]) \in 1..max
  BY <1>1, SlicesHold
<1> HIDE DEF q
<1>3. \A i \in DOMAIN q : q[i] \in ContractGroups
  BY <1>2 DEF ContractGroups
<1>4. q \in Seq(ContractGroups)
  BY <1>2, <1>3
<1> QED BY <1>2, <1>4 DEF q

\* Flushing the batch that is being filled.
LEMMA FlushedHolds ==
  ASSUME NEW acc \in PackState
  PROVE  /\ acc.done \in Seq(ContractGroups) /\ acc.current \in Seq(ArchivedKeys)
         /\ Flushed(acc) \in Seq(ContractGroups)
         /\ FlattenSeq(Flushed(acc)) = FlattenSeq(acc.done) \o acc.current
         /\ \A i \in DOMAIN Flushed(acc) :
              /\ i \in DOMAIN Places(acc) /\ Flushed(acc)[i] = Places(acc)[i]
              /\ \/ i \in DOMAIN acc.done /\ Flushed(acc)[i] = acc.done[i]
                 \/ Flushed(acc)[i] = acc.current /\ acc.current # <<>>
         /\ \A i \in DOMAIN Places(acc) : \A x :
              Has(Places(acc)[i], x) => Has(FlattenSeq(acc.done) \o acc.current, x)
<1>1. acc.done \in Seq(ContractGroups) /\ acc.current \in Seq(ArchivedKeys)
  BY DEF PackState
<1>2. acc.done \in Seq(Seq(ArchivedKeys)) /\ FlattenSeq(acc.done) \in Seq(ArchivedKeys)
  BY <1>1, GroupsAreSequences, FlattenType
<1>3. /\ Places(acc) \in Seq(Seq(ArchivedKeys))
      /\ FlattenSeq(Places(acc)) = FlattenSeq(acc.done) \o acc.current
  <2> DEFINE a == acc.done
             b == acc.current
  <2>1. a \in Seq(Seq(ArchivedKeys)) /\ b \in Seq(ArchivedKeys)
    BY <1>1, <1>2
  <2>2. Places(acc) = Append(a, b)
    BY DEF Places
  <2> HIDE DEF a, b
  <2>3. FlattenSeq(Append(a, b)) = FlattenSeq(a) \o b /\ Append(a, b) \in Seq(Seq(ArchivedKeys))
    BY <2>1, FlattenAppend
  <2> QED BY <2>2, <2>3 DEF a, b
<1>4. \A i \in DOMAIN Places(acc) : \A x :
        Has(Places(acc)[i], x) => Has(FlattenSeq(acc.done) \o acc.current, x)
  BY <1>3, FlattenHas
<1>5. CASE acc.current = <<>>
  <2>1. Flushed(acc) = acc.done
    BY <1>5 DEF Flushed
  <2>2. FlattenSeq(acc.done) \o acc.current = FlattenSeq(acc.done)
    BY <1>2, <1>5
  <2>3. \A i \in DOMAIN acc.done : i \in DOMAIN Places(acc) /\ acc.done[i] = Places(acc)[i]
    BY <1>1 DEF Places
  <2> QED BY <1>1, <1>4, <2>1, <2>2, <2>3
<1>6. CASE acc.current # <<>>
  <2>1. Flushed(acc) = Places(acc) /\ Places(acc) = Append(acc.done, acc.current)
    BY <1>6 DEF Flushed, Places
  <2>2. acc.current \in ContractGroups
    BY <1>1, <1>6 DEF ContractGroups
  <2>3. Flushed(acc) \in Seq(ContractGroups)
    BY <1>1, <2>1, <2>2
  <2>4. \A i \in DOMAIN Places(acc) :
          \/ i \in DOMAIN acc.done /\ Places(acc)[i] = acc.done[i]
          \/ Places(acc)[i] = acc.current
    BY <1>1 DEF Places
  <2> QED BY <1>1, <1>3, <1>4, <1>6, <2>1, <2>3, <2>4
<1> QED BY <1>5, <1>6

\* One turn: the joined keys, the limit, and where keys are put.
LEMMA PackTurn ==
  ASSUME NEW acc \in PackState, NEW group \in ContractGroups, NEW max \in Nat \ {0},
         Len(acc.current) <= max, \A i \in DOMAIN acc.done : Len(acc.done[i]) \in 1..max
  PROVE  LET new == Pack(acc, group, max)
         IN  /\ new \in PackState
             /\ FlattenSeq(new.done) \o new.current = FlattenSeq(acc.done) \o acc.current \o group
             /\ Len(new.current) <= max
             /\ \A i \in DOMAIN new.done : Len(new.done[i]) \in 1..max
             /\ \A i \in DOMAIN Places(new) : \A x : Has(Places(new)[i], x) =>
                  \/ i \in DOMAIN Places(acc) /\ Has(Places(acc)[i], x)
                  \/ Has(group, x) /\ (Len(group) <= max => i = Len(Places(new)))
<1> DEFINE new == Pack(acc, group, max)
           F == Flushed(acc)
           joined == FlattenSeq(acc.done) \o acc.current
<1>1. /\ acc.done \in Seq(ContractGroups) /\ acc.current \in Seq(ArchivedKeys)
      /\ F \in Seq(ContractGroups) /\ FlattenSeq(F) = joined
      /\ \A i \in DOMAIN F :
           /\ i \in DOMAIN Places(acc) /\ F[i] = Places(acc)[i]
           /\ \/ i \in DOMAIN acc.done /\ F[i] = acc.done[i]
              \/ F[i] = acc.current /\ acc.current # <<>>
  BY FlushedHolds
<1>2. group \in Seq(ArchivedKeys) /\ group # <<>> /\ Len(group) \in Nat /\ Len(group) > 0
  BY DEF ContractGroups
<1>3. max \in Nat /\ max > 0 /\ Len(acc.current) \in Nat
  BY <1>1
<1>4. /\ F \in Seq(Seq(ArchivedKeys)) /\ acc.done \in Seq(Seq(ArchivedKeys))
      /\ FlattenSeq(acc.done) \in Seq(ArchivedKeys) /\ joined \in Seq(ArchivedKeys)
  BY <1>1, GroupsAreSequences, FlattenType
<1>5. \A i \in DOMAIN F : Len(F[i]) \in 1..max
  <2> SUFFICES ASSUME NEW i \in DOMAIN F PROVE Len(F[i]) \in 1..max
    OBVIOUS
  <2>1. CASE i \in DOMAIN acc.done /\ F[i] = acc.done[i]
    BY <2>1
  <2>2. CASE F[i] = acc.current /\ acc.current # <<>>
    BY <1>1, <1>3, <2>2
  <2> HIDE DEF F
  <2> QED BY <1>1, <2>1, <2>2
<1> HIDE DEF F
<1>6. CASE Len(group) > max
  <2> DEFINE q == Slices(group, max)
             all == F \o q
  <2>1. q \in Seq(ContractGroups) /\ FlattenSeq(q) = group /\ \A i \in DOMAIN q : Len(q[i]) \in 1..max
    BY SlicesAreGroups
  <2>2. new = [done |-> all, current |-> <<>>]
    BY <1>6 DEF Pack, F
  <2> HIDE DEF q, new
  <2>3. /\ all \in Seq(ContractGroups) /\ Len(all) = Len(F) + Len(q) /\ DOMAIN all = 1..(Len(F) + Len(q))
        /\ \A i \in DOMAIN all : \/ i \in DOMAIN F /\ all[i] = F[i]
                                 \/ i - Len(F) \in DOMAIN q /\ all[i] = q[i - Len(F)]
    BY <1>1, <2>1
  <2>4. q \in Seq(Seq(ArchivedKeys)) /\ all \in Seq(Seq(ArchivedKeys))
    BY <2>1, <2>3, GroupsAreSequences
  <2>5. FlattenSeq(all) = joined \o group
    <3> HIDE DEF joined
    <3>1. FlattenSeq(F \o q) = FlattenSeq(F) \o FlattenSeq(q)
      BY <1>4, <2>4, FlattenConcat
    <3> QED BY <1>1, <2>1, <3>1
  <2> HIDE DEF all
  <2>6. new.done = all /\ new.current = <<>> /\ new \in PackState
    BY <2>2, <2>3 DEF PackState
  <2>7. FlattenSeq(new.done) \o new.current = joined \o group
    <3> HIDE DEF joined
    <3>1. joined \o group \in Seq(ArchivedKeys)
      BY <1>2, <1>4
    <3> DEFINE z == joined \o group
    <3>2. z \in Seq(ArchivedKeys) /\ FlattenSeq(new.done) = z
      BY <2>5, <2>6, <3>1
    <3> HIDE DEF z
    <3>3. z \o <<>> = z
      BY <3>2
    <3> QED BY <2>6, <3>2, <3>3 DEF z
  <2>8. \A i \in DOMAIN new.done : Len(new.done[i]) \in 1..max
    BY <1>5, <2>1, <2>3, <2>6
  <2>9. \A x : ~Has(<<>>, x)
    BY DEF Has
  <2>10. ASSUME NEW i \in DOMAIN Places(new), NEW x, Has(Places(new)[i], x)
         PROVE  \/ i \in DOMAIN Places(acc) /\ Has(Places(acc)[i], x)
                \/ Has(group, x)
    <3>1. \/ i \in DOMAIN all /\ Places(new)[i] = all[i]
          \/ Places(new)[i] = <<>>
      BY <2>3, <2>6 DEF Places
    <3>2. i \in DOMAIN all /\ Has(all[i], x)
      BY <2>9, <2>10, <3>1
    <3>3. CASE i \in DOMAIN F /\ all[i] = F[i]
      BY <1>1, <3>2, <3>3
    <3>4. CASE i - Len(F) \in DOMAIN q /\ all[i] = q[i - Len(F)]
      <4>1. Has(FlattenSeq(q), x)
        BY <2>4, <3>2, <3>4, FlattenHas
      <4> QED BY <2>1, <4>1
    <3> QED BY <2>3, <3>2, <3>3, <3>4
  <2>11. ~(Len(group) <= max) /\ Len(new.current) <= max
    BY <1>2, <1>3, <1>6, <2>6
  <2> QED BY <2>6, <2>7, <2>8, <2>10, <2>11 DEF new
<1>7. CASE ~(Len(group) > max) /\ Len(acc.current) + Len(group) > max
  <2>1. new = [done |-> F, current |-> group]
    BY <1>7 DEF Pack, F
  <2> HIDE DEF new
  <2>2. new.done = F /\ new.current = group /\ new \in PackState
    BY <1>1, <1>2, <2>1 DEF PackState
  <2>3. FlattenSeq(new.done) \o new.current = joined \o group
    BY <1>1, <2>2
  <2>4. Len(new.current) <= max /\ \A i \in DOMAIN new.done : Len(new.done[i]) \in 1..max
    BY <1>2, <1>3, <1>5, <1>7, <2>2
  <2>5. ASSUME NEW i \in DOMAIN Places(new), NEW x, Has(Places(new)[i], x)
        PROVE  \/ i \in DOMAIN Places(acc) /\ Has(Places(acc)[i], x)
               \/ Has(group, x) /\ i = Len(Places(new))
    <3>1. \/ i \in DOMAIN F /\ Places(new)[i] = F[i]
          \/ i = Len(Places(new)) /\ Places(new)[i] = group
      BY <1>1, <2>2 DEF Places
    <3> QED BY <1>1, <2>5, <3>1
  <2> QED BY <2>2, <2>3, <2>4, <2>5 DEF new
<1>8. CASE ~(Len(group) > max) /\ ~(Len(acc.current) + Len(group) > max)
  <2>1. new = [acc EXCEPT !.current = @ \o group]
    BY <1>8 DEF Pack
  <2>2. acc = [done |-> acc.done, current |-> acc.current]
    BY DEF PackState
  <2> HIDE DEF new
  <2>3. new.done = acc.done /\ new.current = acc.current \o group /\ new \in PackState
    <3>1. new = [done |-> acc.done, current |-> acc.current \o group]
      BY <2>1, <2>2
    <3>2. acc.current \o group \in Seq(ArchivedKeys)
      BY <1>1, <1>2
    <3> QED BY <1>1, <3>1, <3>2 DEF PackState
  <2>4. FlattenSeq(new.done) \o new.current = joined \o group
    <3> DEFINE a == FlattenSeq(acc.done)
               b == acc.current
    <3>1. a \in Seq(ArchivedKeys) /\ b \in Seq(ArchivedKeys)
      BY <1>1, <1>4
    <3> HIDE DEF a, b
    <3>2. a \o (b \o group) = (a \o b) \o group
      BY <1>2, <3>1
    <3> QED BY <2>3, <3>2 DEF a, b
  <2>5. Len(new.current) <= max
    BY <1>1, <1>2, <1>3, <1>8, <2>3
  <2>6. ASSUME NEW i \in DOMAIN Places(new), NEW x, Has(Places(new)[i], x)
        PROVE  \/ i \in DOMAIN Places(acc) /\ Has(Places(acc)[i], x)
               \/ Has(group, x) /\ i = Len(Places(new))
    <3>1. /\ i \in DOMAIN Places(acc)
          /\ \/ Places(new)[i] = Places(acc)[i]
             \/ /\ i = Len(Places(new)) /\ Places(new)[i] = acc.current \o group
                /\ Places(acc)[i] = acc.current
      BY <1>1, <2>3 DEF Places
    <3>2. Has(acc.current \o group, x) <=> Has(acc.current, x) \/ Has(group, x)
      BY <1>1, <1>2, HasConcat
    <3> QED BY <2>6, <3>1, <3>2
  <2> QED BY <2>3, <2>4, <2>5, <2>6 DEF new
<1> QED BY <1>6, <1>7, <1>8

\* A turn leads from one state of the loop to another.
LEMMA PackType ==
  ASSUME NEW acc \in PackState, NEW group \in ContractGroups, NEW max \in Nat \ {0}
  PROVE  Pack(acc, group, max) \in PackState
<1>1. /\ acc.done \in Seq(ContractGroups) /\ acc.current \in Seq(ArchivedKeys)
      /\ Flushed(acc) \in Seq(ContractGroups)
  BY FlushedHolds
<1>2. group \in Seq(ArchivedKeys)
  BY DEF ContractGroups
<1>3. CASE Len(group) > max
  <2>1. Slices(group, max) \in Seq(ContractGroups)
    BY SlicesAreGroups
  <2>2. Flushed(acc) \o Slices(group, max) \in Seq(ContractGroups)
    BY <1>1, <2>1
  <2> QED BY <1>3, <2>2 DEF Pack, PackState
<1>4. CASE ~(Len(group) > max) /\ Len(acc.current) + Len(group) > max
  <2>1. Pack(acc, group, max) = [done |-> Flushed(acc), current |-> group]
    BY <1>4 DEF Pack
  <2> QED BY <1>1, <1>2, <2>1 DEF PackState
<1>5. CASE ~(Len(group) > max) /\ ~(Len(acc.current) + Len(group) > max)
  <2>1. Pack(acc, group, max) = [acc EXCEPT !.current = @ \o group]
    BY <1>5 DEF Pack
  <2>2. acc.current \o group \in Seq(ArchivedKeys)
    BY <1>1, <1>2
  <2> QED BY <1>1, <2>1, <2>2 DEF PackState
<1> QED BY <1>3, <1>4, <1>5

\* No two groups share a key.
Disjoint(u) == \A k, l \in DOMAIN u : k # l => \A x : ~(Has(u[k], x) /\ Has(u[l], x))

\* createBatches keeps the keys and the limit, and has put every group that
\* fits into one place.
PackInv(acc, u, max) ==
  /\ acc \in PackState
  /\ FlattenSeq(acc.done) \o acc.current = FlattenSeq(u)
  /\ \A i \in DOMAIN acc.done : Len(acc.done[i]) \in 1..max
  /\ Len(acc.current) <= max
  /\ \A k \in DOMAIN u : Len(u[k]) <= max =>
       \A i, j \in DOMAIN Places(acc) : \A x, y :
         Has(u[k], x) /\ Has(u[k], y) /\ Has(Places(acc)[i], x) /\ Has(Places(acc)[j], y) => i = j

\* createBatches, group by group.
LEMMA PackedUnfolds ==
  ASSUME NEW max \in Nat \ {0}
  PROVE  /\ Packed(<<>>, max) = FirstPack
         /\ \A u \in Seq(ContractGroups) : Packed(u, max) \in PackState
         /\ \A u \in Seq(ContractGroups), group \in ContractGroups :
              Packed(Append(u, group), max) = Pack(Packed(u, max), group, max)
<1> DEFINE step == PackTurns(max)
<1>1. step \in [PackState -> [ContractGroups -> PackState]] /\ FirstPack \in PackState
  <2>1. \A acc \in PackState, group \in ContractGroups : Pack(acc, group, max) \in PackState
    BY PackType
  <2>2. FirstPack \in PackState
    BY DEF FirstPack, PackState
  <2> QED BY <2>1, <2>2 DEF PackTurns
<1>2. \A acc \in PackState, group \in ContractGroups : step[acc][group] = Pack(acc, group, max)
  BY DEF PackTurns
<1>3. \A u : Packed(u, max) = Loop(step, FirstPack, u)
  BY DEF Packed
<1> HIDE DEF step
<1>4. Steps(step, FirstPack, PackState, ContractGroups)
  BY <1>1 DEF Steps
<1>5. /\ Loop(step, FirstPack, <<>>) = FirstPack
      /\ \A u \in Seq(ContractGroups) : Loop(step, FirstPack, u) \in PackState
      /\ \A u \in Seq(ContractGroups), group \in ContractGroups :
           Loop(step, FirstPack, Append(u, group)) = step[Loop(step, FirstPack, u)][group]
  BY <1>4, LoopRuns
<1> QED BY <1>2, <1>3, <1>5

\* The invariant of createBatches survives every turn.
LEMMA PackedHolds ==
  ASSUME NEW u \in Seq(ContractGroups), NEW max \in Nat \ {0}, Disjoint(u)
  PROVE  PackInv(Packed(u, max), u, max)
<1> DEFINE T == {v \in Seq(ContractGroups) : Disjoint(v) => PackInv(Packed(v, max), v, max)}
<1>1. <<>> \in T
  <2>1. /\ FirstPack \in PackState /\ FirstPack.done = <<>> /\ FirstPack.current = <<>>
    BY DEF FirstPack, PackState
  <2>2. FlattenSeq(FirstPack.done) \o FirstPack.current = FlattenSeq(<<>>)
    <3>1. FlattenSeq(<<>>) = <<>>
      BY FlattenEmpty
    <3> QED BY <2>1, <3>1
  <2>3. Len(FirstPack.current) <= max /\ DOMAIN FirstPack.done = {} /\ DOMAIN <<>> = {}
    BY <2>1
  <2>4. PackInv(FirstPack, <<>>, max)
    BY <2>1, <2>2, <2>3 DEF PackInv
  <2> QED BY <2>4, PackedUnfolds
<1>2. ASSUME NEW v \in Seq(ContractGroups), NEW group \in ContractGroups, v \in T
      PROVE  Append(v, group) \in T
  <2> DEFINE t == Append(v, group)
             acc == Packed(v, max)
             new == Pack(acc, group, max)
             n == Len(v)
  <2>0. t \in Seq(ContractGroups)
    OBVIOUS
  <2>1. /\ n \in Nat /\ DOMAIN v = 1..n /\ DOMAIN t = 1..(n + 1) /\ t[n + 1] = group
        /\ (\A k \in 1..n : t[k] = v[k] /\ k \in 1..(n + 1) /\ k # n + 1)
        /\ n + 1 \in 1..(n + 1) /\ \A k \in 1..(n + 1) : k \in 1..n \/ k = n + 1
    OBVIOUS
  <2>2. Packed(t, max) = new
    BY PackedUnfolds
  <2>3. v \in Seq(Seq(ArchivedKeys)) /\ group \in Seq(ArchivedKeys)
    BY GroupsAreSequences DEF ContractGroups
  <2>4. FlattenSeq(t) = FlattenSeq(v) \o group
    BY <2>3, FlattenAppend
  <2>5. v \in T
    BY <1>2
  <2> HIDE DEF t, acc, new, n
  <2> SUFFICES ASSUME Disjoint(t) PROVE PackInv(new, t, max)
    BY <2>0, <2>2 DEF t
  <2>6. Disjoint(v)
    BY <2>1 DEF Disjoint
  <2>7. \A k \in DOMAIN v : \A x : ~(Has(v[k], x) /\ Has(group, x))
    BY <2>1 DEF Disjoint
  <2>8. PackInv(acc, v, max)
    BY <2>5, <2>6 DEF acc
  <2>9. acc \in PackState /\ Len(acc.current) <= max /\ \A i \in DOMAIN acc.done : Len(acc.done[i]) \in 1..max
    BY <2>8 DEF PackInv
  <2>10. /\ new \in PackState
         /\ FlattenSeq(new.done) \o new.current = FlattenSeq(acc.done) \o acc.current \o group
         /\ Len(new.current) <= max
         /\ \A i \in DOMAIN new.done : Len(new.done[i]) \in 1..max
         /\ \A i \in DOMAIN Places(new) : \A x : Has(Places(new)[i], x) =>
              \/ i \in DOMAIN Places(acc) /\ Has(Places(acc)[i], x)
              \/ Has(group, x) /\ (Len(group) <= max => i = Len(Places(new)))
    BY <2>9, PackTurn DEF new
  <2>11. FlattenSeq(new.done) \o new.current = FlattenSeq(t)
    BY <2>4, <2>8, <2>10 DEF PackInv
  <2>12. ASSUME NEW i \in DOMAIN Places(acc), NEW x, Has(Places(acc)[i], x) PROVE ~Has(group, x)
    <3>1. Has(FlattenSeq(v), x)
      <4>1. Has(FlattenSeq(acc.done) \o acc.current, x)
        BY <2>9, <2>12, FlushedHolds
      <4> QED BY <2>8, <4>1 DEF PackInv
    <3>2. \E k \in DOMAIN v : Has(v[k], x)
      BY <2>3, <3>1, FlattenHas
    <3> QED BY <2>7, <3>2
  <2>13. ASSUME NEW k \in DOMAIN t, Len(t[k]) <= max,
                NEW i \in DOMAIN Places(new), NEW j \in DOMAIN Places(new), NEW x, NEW y,
                Has(t[k], x), Has(t[k], y), Has(Places(new)[i], x), Has(Places(new)[j], y)
         PROVE  i = j
    <3>1. CASE k \in 1..n
      <4>1. t[k] = v[k] /\ k \in DOMAIN v
        BY <2>1, <3>1
      <4>2. ~Has(group, x) /\ ~Has(group, y)
        BY <2>7, <2>13, <4>1
      <4>3. /\ i \in DOMAIN Places(acc) /\ Has(Places(acc)[i], x)
            /\ j \in DOMAIN Places(acc) /\ Has(Places(acc)[j], y)
        BY <2>10, <2>13, <4>2
      <4> QED BY <2>8, <2>13, <4>1, <4>3 DEF PackInv
    <3>2. CASE k = n + 1
      <4>1. t[k] = group /\ Len(group) <= max /\ Has(group, x) /\ Has(group, y)
        BY <2>1, <2>13, <3>2
      <4>2. i = Len(Places(new))
        BY <2>10, <2>12, <2>13, <4>1
      <4>3. j = Len(Places(new))
        BY <2>10, <2>12, <2>13, <4>1
      <4> QED BY <4>2, <4>3
    <3> QED BY <2>1, <3>1, <3>2
  <2> QED BY <2>10, <2>11, <2>13 DEF PackInv
<1> HIDE DEF T
<1>3. u \in T
  BY <1>1, <1>2, SequenceInduction
<1> QED BY <1>3 DEF T

-----------------------------------------------------------------------------
\* The groups that createBatches packs: each is sorted, holds the keys of one
\* contract, and no two hold keys of the same.
OfContract(id) == {key \in ArchivedKeys : key.contractId = id}

LEMMA GroupsSorted ==
  ASSUME NEW keys \in Seq(ArchivedKeys)
  PROVE  LET groups == SortedGroups(batchKeysByContract(keys))
         IN  /\ groups \in Seq(ContractGroups)
             /\ \A key \in ArchivedKeys : Kept(FlattenSeq(groups), {key}) = Kept(keys, {key})
             /\ \A k \in DOMAIN groups :
                  /\ Sorted(Ranks, groups[k])
                  /\ \E id : /\ Len(groups[k]) = Len(Kept(keys, OfContract(id)))
                             /\ \A x : Has(groups[k], x) => x \in OfContract(id)
             /\ \A k, l \in DOMAIN groups : k # l =>
                  \A x, y : Has(groups[k], x) /\ Has(groups[l], y) => x.contractId # y.contractId
<1> DEFINE first == batchKeysByContract(keys)
           f == [group \in ContractGroups |-> SortedKeys(group)]
           rank == [group \in ContractGroups |-> group[1].restorePriority]
           each == Mapped(f, first)
           groups == SortedGroups(first)
           E == ContractGroups
<1>1. /\ first \in Seq(E)
      /\ \A key \in ArchivedKeys : Kept(FlattenSeq(first), {key}) = Kept(keys, {key})
      /\ \A i \in DOMAIN first : \E id :
           first[i] = Kept(keys, {key \in ArchivedKeys : key.contractId = id})
      /\ \A i, j \in DOMAIN first : i # j =>
           \A x, y : Has(first[i], x) /\ Has(first[j], y) => x.contractId # y.contractId
  BY GroupsOfContracts
<1>2. groups = FlattenSeq(Shares(each, Ranked(rank, E)))
  <2>1. DOMAIN rank = E
    OBVIOUS
  <2>2. groups = FlattenSeq([p \in 1..4 |-> Kept(each, {x \in DOMAIN rank : rank[x] = p - 1})])
    BY DEF SortedGroups, SortedBy
  <2> HIDE DEF rank, each
  <2>3. Shares(each, Ranked(rank, E)) = [p \in 1..4 |-> Kept(each, {x \in DOMAIN rank : rank[x] = p - 1})]
    BY <2>1 DEF Shares, Ranked
  <2> QED BY <2>2, <2>3
<1>3. \A group \in E : group \in Seq(ArchivedKeys) /\ group # <<>> /\ Len(group) > 0
  BY DEF ContractGroups
<1>4. rank \in [E -> 0..3]
  <2>1. \A group \in E : group[1].restorePriority \in 0..3
    <3> SUFFICES ASSUME NEW group \in E PROVE group[1].restorePriority \in 0..3
      OBVIOUS
    <3>1. group[1] \in ArchivedKeys
      BY <1>3
    <3>2. Ranks[group[1]] \in 0..3 /\ Ranks[group[1]] = group[1].restorePriority
      BY <3>1, KeysInType DEF Ranks
    <3> QED BY <3>2
  <2> QED BY <2>1
<1>5. /\ MapsTo(f, E, E)
      /\ \A group \in E : f[group] = SortedKeys(group)
  <2>1. \A group \in E : SortedKeys(group) \in E
    <3> SUFFICES ASSUME NEW group \in E PROVE SortedKeys(group) \in E
      OBVIOUS
    <3> DEFINE q == SortedKeys(group)
    <3>1. q \in Seq(ArchivedKeys) /\ Len(q) = Len(group)
      BY <1>3, KeysAreSorted
    <3> HIDE DEF q
    <3>2. q # <<>>
      BY <1>3, <3>1
    <3> QED BY <3>1, <3>2 DEF ContractGroups, q
  <2> QED BY <2>1 DEF MapsTo
<1> HIDE DEF f, rank, first, groups
<1>6. /\ each \in Seq(E) /\ DOMAIN each = DOMAIN first
      /\ \A i \in DOMAIN first : each[i] = SortedKeys(first[i]) /\ first[i] \in E
  <2>1. /\ each \in Seq(E) /\ DOMAIN each = DOMAIN first
        /\ \A i \in DOMAIN first : each[i] = f[first[i]]
    BY <1>1, <1>5, MappedHolds
  <2>2. \A i \in DOMAIN first : first[i] \in E
    BY <1>1
  <2> HIDE DEF each
  <2> QED BY <1>5, <2>1, <2>2
<1> HIDE DEF each
<1>7. /\ groups \in Seq(E)
      /\ \A S \in SUBSET E : (\A x, y \in S : rank[x] = rank[y]) => Kept(groups, S) = Kept(each, S)
      /\ \A x : Has(groups, x) <=> Has(each, x)
  <2> HIDE DEF E
  <2> QED BY <1>2, <1>4, <1>6, RankedSorts
<1>8. ASSUME NEW i \in DOMAIN first
      PROVE  /\ Sorted(Ranks, each[i]) /\ Len(each[i]) = Len(first[i])
             /\ \A x : Has(each[i], x) <=> Has(first[i], x)
             /\ \A key \in ArchivedKeys : Kept(each[i], {key}) = Kept(first[i], {key})
  <2>1. each[i] = SortedKeys(first[i]) /\ first[i] \in Seq(ArchivedKeys)
    BY <1>3, <1>6
  <2> QED BY <2>1, KeysAreSorted
<1>9. Distinct(each)
  <2> SUFFICES ASSUME NEW i \in DOMAIN each, NEW j \in DOMAIN each, each[i] = each[j], i # j
               PROVE  FALSE
    BY DEF Distinct
  <2>1. first[i] \in Seq(ArchivedKeys) /\ Len(first[i]) > 0
    BY <1>3, <1>6
  <2>2. Has(first[i], first[i][1])
    BY <2>1 DEF Has
  <2>3. Has(first[j], first[i][1])
    BY <1>6, <1>8, <2>2
  <2> QED BY <1>1, <1>6, <2>2, <2>3
<1>10. Distinct(groups)
  <2>1. \A x \in E : Kept(groups, {x}) = Kept(each, {x})
    <3> SUFFICES ASSUME NEW x \in E PROVE Kept(groups, {x}) = Kept(each, {x})
      OBVIOUS
    <3>1. {x} \in SUBSET E /\ \A y, z \in {x} : rank[y] = rank[z]
      OBVIOUS
    <3> QED BY <1>7, <3>1
  <2> HIDE DEF E
  <2>2. \A x \in E : Len(Kept(each, {x})) <= 1
    BY <1>6, <1>9, DistinctOnce
  <2>3. \A x \in E : Len(Kept(groups, {x})) <= 1
    BY <2>1, <2>2
  <2> QED BY <1>7, <2>3, DistinctOnce
<1>11. \A k \in DOMAIN groups : \E i \in DOMAIN first : groups[k] = each[i]
  <2> SUFFICES ASSUME NEW k \in DOMAIN groups PROVE \E i \in DOMAIN first : groups[k] = each[i]
    OBVIOUS
  <2>1. Has(groups, groups[k])
    BY DEF Has
  <2>2. Has(each, groups[k])
    BY <1>7, <2>1
  <2> QED BY <1>6, <2>2 DEF Has
<1>12. ASSUME NEW k \in DOMAIN groups
       PROVE  /\ Sorted(Ranks, groups[k])
              /\ \E id : /\ Len(groups[k]) = Len(Kept(keys, OfContract(id)))
                         /\ \A x : Has(groups[k], x) => x \in OfContract(id)
  <2>1. PICK i \in DOMAIN first : groups[k] = each[i]
    BY <1>11
  <2>2. PICK id : first[i] = Kept(keys, OfContract(id))
    BY <1>1 DEF OfContract
  <2>3. \A x : Has(groups[k], x) => x \in OfContract(id)
    <3> SUFFICES ASSUME NEW x, Has(groups[k], x) PROVE x \in OfContract(id)
      OBVIOUS
    <3>1. Has(Kept(keys, OfContract(id)), x)
      BY <1>8, <2>1, <2>2
    <3> QED BY <3>1, KeptHas
  <2> QED BY <1>8, <2>1, <2>2, <2>3
<1>13. ASSUME NEW k \in DOMAIN groups, NEW l \in DOMAIN groups, k # l,
              NEW x, NEW y, Has(groups[k], x), Has(groups[l], y)
       PROVE  x.contractId # y.contractId
  <2>1. PICK i \in DOMAIN first : groups[k] = each[i]
    BY <1>11
  <2>2. PICK j \in DOMAIN first : groups[l] = each[j]
    BY <1>11
  <2>3. i # j
    BY <1>10, <1>13, <2>1, <2>2 DEF Distinct
  <2>4. Has(first[i], x) /\ Has(first[j], y)
    BY <1>8, <1>13, <2>1, <2>2
  <2> QED BY <1>1, <2>3, <2>4
<1>14. groups \in Seq(Seq(ArchivedKeys)) /\ first \in Seq(Seq(ArchivedKeys))
  BY <1>1, <1>7, GroupsAreSequences
<1>15. ASSUME NEW key \in ArchivedKeys PROVE Kept(FlattenSeq(groups), {key}) = Kept(keys, {key})
  <2>1. Kept(FlattenSeq(first), {key}) = Kept(keys, {key})
    BY <1>1
  <2>2. \A q \in Seq(ArchivedKeys) : ~Has(q, key) => Kept(q, {key}) = <<>>
    <3> SUFFICES ASSUME NEW q \in Seq(ArchivedKeys), ~Has(q, key) PROVE Kept(q, {key}) = <<>>
      OBVIOUS
    <3>1. \A x : Has(Kept(q, {key}), x) <=> Has(q, x) /\ x \in {key}
      BY KeptHas
    <3>2. Kept(q, {key}) \in Seq(ArchivedKeys)
      BY SharesType
    <3>3. \A x \in ArchivedKeys : ~Has(Kept(q, {key}), x)
      BY <3>1
    <3> QED BY <3>2, <3>3, HasNone
  <2>3. \A k \in DOMAIN groups : groups[k] \in Seq(ArchivedKeys)
    BY <1>14
  <2>4. \A i \in DOMAIN first : first[i] \in Seq(ArchivedKeys)
    BY <1>14
  <2>5. CASE \E k \in DOMAIN groups : Has(groups[k], key)
    <3>1. PICK k \in DOMAIN groups : Has(groups[k], key)
      BY <2>5
    <3>2. PICK i \in DOMAIN first : groups[k] = each[i]
      BY <1>11
    <3>3. Has(first[i], key)
      BY <1>8, <3>1, <3>2
    <3>4. \A l \in DOMAIN groups : l # k => Kept(groups[l], {key}) = <<>>
      BY <1>13, <2>2, <2>3, <3>1
    <3>5. \A j \in DOMAIN first : j # i => Kept(first[j], {key}) = <<>>
      BY <1>1, <2>2, <2>4, <3>3
    <3>6. Kept(FlattenSeq(groups), {key}) = Kept(groups[k], {key})
      BY <1>14, <3>4, FlattenOne
    <3>7. Kept(FlattenSeq(first), {key}) = Kept(first[i], {key})
      BY <1>14, <3>5, FlattenOne
    <3> QED BY <1>8, <2>1, <3>2, <3>6, <3>7
  <2>6. CASE \A k \in DOMAIN groups : ~Has(groups[k], key)
    <3>1. \A i \in DOMAIN first : ~Has(first[i], key)
      <4> SUFFICES ASSUME NEW i \in DOMAIN first, Has(first[i], key) PROVE FALSE
        OBVIOUS
      <4>1. Has(each[i], key) /\ Has(each, each[i])
        BY <1>6, <1>8 DEF Has
      <4>2. Has(groups, each[i])
        BY <1>7, <4>1
      <4> QED BY <2>6, <4>1, <4>2 DEF Has
    <3>2. \A k \in DOMAIN groups : Kept(groups[k], {key}) = <<>>
      BY <2>2, <2>3, <2>6
    <3>3. \A i \in DOMAIN first : Kept(first[i], {key}) = <<>>
      BY <2>2, <2>4, <3>1
    <3>4. Kept(FlattenSeq(groups), {key}) = <<>>
      BY <1>14, <3>2, FlattenOne
    <3>5. Kept(FlattenSeq(first), {key}) = <<>>
      BY <1>14, <3>3, FlattenOne
    <3> QED BY <2>1, <3>4, <3>5
  <2> QED BY <2>5, <2>6
<1> QED BY <1>7, <1>12, <1>13, <1>15 DEF groups, first

\* A set without two members.
LEMMA AtMostOne ==
  ASSUME NEW S, \A x, y \in S : x = y
  PROVE  Cardinality(S) <= 1
<1>1. CASE S = {}
  <2>1. Cardinality(S) = 0
    BY <1>1, FS_EmptySet
  <2> QED BY <2>1
<1>2. CASE S # {}
  <2>1. PICK z : z \in S
    BY <1>2
  <2>2. S = {z}
    BY <2>1
  <2>3. Cardinality({z}) = 1
    BY FS_Singleton
  <2> QED BY <2>2, <2>3
<1> QED BY <1>1, <1>2

\* The batches of createBatches and the groups they were made from.
LEMMA PackedGroups ==
  ASSUME NEW groups \in Seq(ContractGroups), NEW max \in Nat \ {0}, Disjoint(groups)
  PROVE  LET batches == Flushed(Packed(groups, max))
         IN  /\ batches \in Seq(Seq(ArchivedKeys))
             /\ FlattenSeq(batches) = FlattenSeq(groups)
             /\ \A i \in DOMAIN batches : Len(batches[i]) \in 1..max
             /\ \A k \in DOMAIN groups : Len(groups[k]) <= max =>
                  \A i, j \in DOMAIN batches : \A x, y :
                    Has(groups[k], x) /\ Has(groups[k], y) /\ Has(batches[i], x) /\ Has(batches[j], y)
                      => i = j
<1> DEFINE acc == Packed(groups, max)
           batches == Flushed(acc)
<1>1. PackInv(acc, groups, max)
  BY PackedHolds
<1> HIDE DEF acc
<1>2. acc \in PackState
  BY <1>1 DEF PackInv
<1>3. /\ acc.current \in Seq(ArchivedKeys) /\ batches \in Seq(ContractGroups)
      /\ FlattenSeq(batches) = FlattenSeq(acc.done) \o acc.current
      /\ \A i \in DOMAIN batches :
           /\ i \in DOMAIN Places(acc) /\ batches[i] = Places(acc)[i]
           /\ \/ i \in DOMAIN acc.done /\ batches[i] = acc.done[i]
              \/ batches[i] = acc.current /\ acc.current # <<>>
  BY <1>2, FlushedHolds
<1> HIDE DEF batches
<1>4. batches \in Seq(Seq(ArchivedKeys))
  BY <1>3, GroupsAreSequences
<1>5. FlattenSeq(batches) = FlattenSeq(groups)
  BY <1>1, <1>3 DEF PackInv
<1>6. ASSUME NEW i \in DOMAIN batches PROVE Len(batches[i]) \in 1..max
  <2>1. CASE i \in DOMAIN acc.done /\ batches[i] = acc.done[i]
    BY <1>1, <2>1 DEF PackInv
  <2>2. CASE batches[i] = acc.current /\ acc.current # <<>>
    <3>1. Len(acc.current) \in Nat /\ Len(acc.current) # 0 /\ Len(acc.current) <= max
      BY <1>1, <1>3, <2>2 DEF PackInv
    <3> QED BY <2>2, <3>1
  <2> QED BY <1>3, <2>1, <2>2
<1>7. \A k \in DOMAIN groups : Len(groups[k]) <= max =>
        \A i, j \in DOMAIN batches : \A x, y :
          Has(groups[k], x) /\ Has(groups[k], y) /\ Has(batches[i], x) /\ Has(batches[j], y) => i = j
  BY <1>1, <1>3 DEF PackInv
<1> QED BY <1>4, <1>5, <1>6, <1>7 DEF batches, acc

\* createBatches of the utils, on its sorted groups.
LEMMA UtilsPlanFits ==
  ASSUME archivedKeys \in Seq(ArchivedKeys), SizesKnown
  PROVE  UtilsBatchesFit
<1> DEFINE keys == archivedKeys
           max == maxBatchSize
           groups == SortedGroups(batchKeysByContract(keys))
           batches == createBatches(keys, max)
<1>1. /\ groups \in Seq(ContractGroups)
      /\ \A key \in ArchivedKeys : Kept(FlattenSeq(groups), {key}) = Kept(keys, {key})
      /\ \A k \in DOMAIN groups :
           /\ Sorted(Ranks, groups[k])
           /\ \E id : /\ Len(groups[k]) = Len(Kept(keys, OfContract(id)))
                      /\ \A x : Has(groups[k], x) => x \in OfContract(id)
      /\ \A k, l \in DOMAIN groups : k # l =>
           \A x, y : Has(groups[k], x) /\ Has(groups[l], y) => x.contractId # y.contractId
  BY GroupsSorted
<1>2. batches = Flushed(Packed(groups, max))
  BY DEF createBatches, Packed, PackTurns, PackState, FirstPack
<1> HIDE DEF groups, batches
<1>3. max \in Nat \ {0}
  BY DEF SizesKnown
<1>4. Disjoint(groups)
  BY <1>1 DEF Disjoint
<1>5. /\ batches \in Seq(Seq(ArchivedKeys)) /\ FlattenSeq(batches) = FlattenSeq(groups)
      /\ \A i \in DOMAIN batches : Len(batches[i]) \in 1..max
      /\ \A k \in DOMAIN groups : Len(groups[k]) <= max =>
           \A i, j \in DOMAIN batches : \A x, y :
             Has(groups[k], x) /\ Has(groups[k], y) /\ Has(batches[i], x) /\ Has(batches[j], y)
               => i = j
  BY <1>1, <1>2, <1>3, <1>4, PackedGroups
<1>6. SameKeys(batches, keys)
  BY <1>1, <1>5, SameKeysHold
<1>7. groups \in Seq(Seq(ArchivedKeys))
  BY <1>1, GroupsAreSequences
\* Where a key of a batch comes from.
<1>8. ASSUME NEW i \in DOMAIN batches, NEW x, Has(batches[i], x)
      PROVE  x \in ArchivedKeys /\ \E k \in DOMAIN groups : Has(groups[k], x)
  <2>1. Has(FlattenSeq(groups), x)
    BY <1>5, <1>8, FlattenHas
  <2>2. \E k \in DOMAIN groups : Has(groups[k], x)
    BY <1>7, <2>1, FlattenHas
  <2>3. FlattenSeq(groups) \in Seq(ArchivedKeys)
    BY <1>7, FlattenType
  <2>4. x \in ArchivedKeys
    BY <2>1, <2>3 DEF Has
  <2> QED BY <2>2, <2>4
<1>9. ASSUME NEW id, Len(Kept(keys, OfContract(id))) <= max
      PROVE  Cardinality(BatchesOf(batches, id)) <= 1
  <2> SUFFICES ASSUME NEW i \in BatchesOf(batches, id), NEW j \in BatchesOf(batches, id) PROVE i = j
    BY AtMostOne
  <2>1. PICK x : i \in DOMAIN batches /\ Has(batches[i], x) /\ x.contractId = id
    BY ToSetHas DEF BatchesOf
  <2>2. PICK y : j \in DOMAIN batches /\ Has(batches[j], y) /\ y.contractId = id
    BY ToSetHas DEF BatchesOf
  <2>3. PICK k \in DOMAIN groups : Has(groups[k], x)
    BY <1>8, <2>1
  <2>4. PICK l \in DOMAIN groups : Has(groups[l], y)
    BY <1>8, <2>2
  <2>5. k = l
    BY <1>1, <2>1, <2>2, <2>3, <2>4
  <2>6. Len(groups[k]) <= max
    <3>1. PICK n : /\ Len(groups[k]) = Len(Kept(keys, OfContract(n)))
                   /\ \A z : Has(groups[k], z) => z \in OfContract(n)
      BY <1>1
    <3>2. n = id
      BY <2>1, <2>3, <3>1 DEF OfContract
    <3> QED BY <1>9, <3>1, <3>2
  <2> QED BY <1>5, <2>1, <2>2, <2>3, <2>4, <2>5, <2>6
\* The keys of a contract, in the order of the batches.
<1>10. ASSUME NEW id PROVE Sorted(Ranks, Kept(FlattenSeq(groups), OfContract(id)))
  <2> DEFINE S == OfContract(id)
  <2>1. \A q \in Seq(ArchivedKeys) : (\A x : Has(q, x) => x \notin S) => Kept(q, S) = <<>>
    <3> SUFFICES ASSUME NEW q \in Seq(ArchivedKeys), \A x : Has(q, x) => x \notin S
                 PROVE  Kept(q, S) = <<>>
      OBVIOUS
    <3> HIDE DEF S
    <3>1. \A x : Has(Kept(q, S), x) <=> Has(q, x) /\ x \in S
      BY KeptHas
    <3>2. Kept(q, S) \in Seq(ArchivedKeys)
      BY SharesType
    <3>3. \A x \in ArchivedKeys : ~Has(Kept(q, S), x)
      BY <3>1
    <3> QED BY <3>2, <3>3, HasNone
  <2>2. \A k \in DOMAIN groups : groups[k] \in Seq(ArchivedKeys)
    BY <1>7
  <2>3. Sorted(Ranks, <<>>)
    BY DEF Sorted
  <2>4. CASE \E k \in DOMAIN groups : \E x : Has(groups[k], x) /\ x \in S
    <3>1. PICK k \in DOMAIN groups : \E x : Has(groups[k], x) /\ x \in S
      BY <2>4
    <3>2. PICK x : Has(groups[k], x) /\ x.contractId = id
      BY <3>1 DEF OfContract
    <3>3. \A l \in DOMAIN groups : l # k => \A y : Has(groups[l], y) => y \notin S
      BY <1>1, <3>2 DEF OfContract
    <3> HIDE DEF S
    <3>4. \A l \in DOMAIN groups : l # k => Kept(groups[l], S) = <<>>
      BY <2>1, <2>2, <3>3
    <3>5. Kept(FlattenSeq(groups), S) = Kept(groups[k], S)
      BY <1>7, <3>4, FlattenOne
    <3>6. Sorted(Ranks, Kept(groups[k], S))
      BY <1>1, <2>2, KeptSorted
    <3> QED BY <3>5, <3>6 DEF S
  <2>5. CASE \A k \in DOMAIN groups : \A x : Has(groups[k], x) => x \notin S
    <3> HIDE DEF S
    <3>1. \A k \in DOMAIN groups : Kept(groups[k], S) = <<>>
      BY <2>1, <2>2, <2>5
    <3>2. Kept(FlattenSeq(groups), S) = <<>>
      BY <1>7, <3>1, FlattenOne
    <3> QED BY <2>3, <3>2 DEF S
  <2> QED BY <2>4, <2>5
<1>11. ASSUME NEW id, NEW i \in DOMAIN batches, NEW j \in DOMAIN batches, i < j,
              NEW x, NEW y, Has(batches[i], x), Has(batches[j], y),
              x.contractId = id, y.contractId = id
       PROVE  x.restorePriority <= y.restorePriority
  <2> DEFINE S == OfContract(id)
             f == [q \in Seq(ArchivedKeys) |-> Kept(q, S)]
             kept == Mapped(f, batches)
  <2>1. Sorted(Ranks, FlattenSeq(kept))
    <3>1. Kept(FlattenSeq(batches), S) = FlattenSeq(kept)
      BY <1>5, KeptFlatten
    <3>2. Sorted(Ranks, Kept(FlattenSeq(batches), S))
      BY <1>5, <1>10
    <3> QED BY <3>1, <3>2
  <2>2. MapsTo(f, Seq(ArchivedKeys), Seq(ArchivedKeys)) /\ \A q \in Seq(ArchivedKeys) : f[q] = Kept(q, S)
    <3>1. \A q \in Seq(ArchivedKeys) : Kept(q, S) \in Seq(ArchivedKeys)
      BY SharesType
    <3> HIDE DEF S
    <3> QED BY <3>1 DEF MapsTo
  <2> HIDE DEF f
  <2>3. /\ kept \in Seq(Seq(ArchivedKeys)) /\ DOMAIN kept = DOMAIN batches
        /\ \A n \in DOMAIN batches : kept[n] = f[batches[n]]
    BY <1>5, <2>2, MappedHolds
  <2> HIDE DEF kept
  <2>4. batches[i] \in Seq(ArchivedKeys) /\ batches[j] \in Seq(ArchivedKeys)
    BY <1>5
  <2>5. x \in S /\ y \in S /\ x \in ArchivedKeys /\ y \in ArchivedKeys
    BY <1>8, <1>11 DEF OfContract
  <2> HIDE DEF S
  <2>6. Has(Kept(batches[i], S), x) /\ Has(Kept(batches[j], S), y)
    BY <1>11, <2>4, <2>5, KeptHas
  <2>7. Has(kept[i], x) /\ Has(kept[j], y)
    BY <2>2, <2>3, <2>4, <2>6
  <2>8. Ranks[x] <= Ranks[y]
    <3>1. i \in DOMAIN kept /\ j \in DOMAIN kept /\ i < j
      BY <1>11, <2>3
    <3> QED BY <2>1, <2>3, <2>7, <3>1, FlattenOrder
  <2> QED BY <2>5, <2>8 DEF Ranks
<1>12. \A id : Kept(keys, {key \in ArchivedKeys : key.contractId = id}) = Kept(keys, OfContract(id))
  BY DEF OfContract
<1>13. ASSUME NEW id
       PROVE  \A i, j \in BatchesOf(batches, id) : i < j =>
                \A x \in ToSet(batches[i]), y \in ToSet(batches[j]) :
                  x.contractId = id /\ y.contractId = id => x.restorePriority <= y.restorePriority
  <2>1. \A i \in BatchesOf(batches, id) : i \in DOMAIN batches
    BY DEF BatchesOf
  <2> QED BY <1>11, <2>1, ToSetHas
<1> QED BY <1>5, <1>6, <1>9, <1>12, <1>13 DEF UtilsBatchesFit, batches

\* All three ways of dividing keys into batches.
LEMMA PlansFit ==
  ASSUME archivedKeys \in Seq(ArchivedKeys), SizesKnown
  PROVE  BatchesFit
<1>1. UtilsBatchesFit
  BY UtilsPlanFits
<1>2. ClientBatchesFit
  BY ClientPlanFits, ConcurrentPlanFits DEF ClientBatchesFit
<1> QED BY <1>1, <1>2 DEF BatchesFit

\* Whatever keys are found archived, in whatever order, and wherever a limit
\* falls: every division into batches holds each key as often as it was found,
\* no batch exceeds the limits, createBatches splits a contract only when its
\* keys do not fit into one batch, and then in the order of their priorities.
THEOREM BatchesKeepKeysAndLimits == PartsSpec => []BatchesFit
<1> DEFINE Inv == archivedKeys \in Seq(ArchivedKeys) /\ maxBatchSize \in BatchSizes
<1>1. PartsInit => Inv
  BY BatchesAssumption DEF PartsInit, BatchInit
<1>2. Inv /\ [PartsNext]_partsVars => Inv'
  <2> SUFFICES ASSUME Inv, [BatchNext]_batchVars PROVE Inv'
    BY PartStep
  <2>1. CASE FindArchived
    BY <2>1 DEF FindArchived
  <2>2. CASE UNCHANGED batchVars
    BY <2>2 DEF batchVars
  <2> QED BY <2>1, <2>2 DEF BatchNext
<1>3. Inv => BatchesFit
  <2>1. Inv => SizesKnown
    BY BatchesAssumption DEF SizesKnown
  <2> QED BY <2>1, PlansFit
<1> QED BY <1>1, <1>2, <1>3, PTL DEF PartsSpec

-----------------------------------------------------------------------------
(* The authorization entries: trees, level by level.                       *)

\* The trees of depth one, two and three.
Leaves == {Leaf(fn) : fn \in Callable}
Deep == [fn : Callable, subs : {<<x>> : x \in Leaves}]
Deeper == [fn : Callable, subs : {<<Leaf(OtherFn), x>> : x \in Deep}]

\* Every tree is of one of these levels, and its sub-invocations of a lower one.
LEMMA TreeLevels ==
  /\ Invocations = Leaves \cup Deep \cup Deeper
  /\ \A n \in Invocations : n.fn \in Callable
  /\ \A n \in Leaves : DOMAIN n.subs = {} /\ n.subs \in Seq(Invocations)
  /\ \A n \in Deep : n.subs \in Seq(Invocations) /\ \A i \in DOMAIN n.subs : n.subs[i] \in Leaves
  /\ \A n \in Deeper : n.subs \in Seq(Invocations) /\ \A i \in DOMAIN n.subs : n.subs[i] \in Leaves \cup Deep
<1>1. Invocations = Leaves \cup Deep \cup Deeper
  BY DEF Invocations, Leaves, Deep, Deeper
<1>2. \A n \in Leaves : n.fn \in Callable /\ n.subs = <<>>
  BY DEF Leaves, Leaf
<1>3. \A n \in Deep : n.fn \in Callable /\ \E x \in Leaves : n.subs = <<x>>
  BY DEF Deep
<1>4. \A n \in Deeper : n.fn \in Callable /\ \E x \in Deep : n.subs = <<Leaf(OtherFn), x>>
  BY DEF Deeper
<1>5. Leaf(OtherFn) \in Leaves
  BY DEF Leaves, Callable
<1> HIDE DEF Leaves, Deep, Deeper, Invocations
<1>6. \A n \in Leaves : DOMAIN n.subs = {} /\ n.subs \in Seq(Invocations)
  <2> DEFINE none == <<>>
  <2>1. DOMAIN none = {} /\ none \in Seq(Invocations)
    OBVIOUS
  <2>2. \A n \in Leaves : n.subs = none
    BY <1>2
  <2> HIDE DEF none
  <2> QED BY <2>1, <2>2
<1>7. ASSUME NEW n \in Deep
      PROVE  n.subs \in Seq(Invocations) /\ \A i \in DOMAIN n.subs : n.subs[i] \in Leaves
  <2>1. PICK x \in Leaves : n.subs = <<x>>
    BY <1>3
  <2>2. <<x>> \in Seq(Invocations) /\ \A i \in DOMAIN <<x>> : <<x>>[i] = x
    BY <1>1
  <2> QED BY <2>1, <2>2
<1>8. ASSUME NEW n \in Deeper
      PROVE  n.subs \in Seq(Invocations) /\ \A i \in DOMAIN n.subs : n.subs[i] \in Leaves \cup Deep
  <2>1. PICK x \in Deep : n.subs = <<Leaf(OtherFn), x>>
    BY <1>4
  <2> DEFINE y == Leaf(OtherFn)
  <2>2. y \in Leaves
    BY <1>5
  <2> HIDE DEF y
  <2>3. <<y, x>> \in Seq(Invocations) /\ \A i \in DOMAIN <<y, x>> : <<y, x>>[i] = x \/ <<y, x>>[i] = y
    BY <1>1, <2>2
  <2> QED BY <2>1, <2>2, <2>3 DEF y
<1> QED BY <1>1, <1>2, <1>3, <1>4, <1>6, <1>7, <1>8

-----------------------------------------------------------------------------
\* What the two recursive functions do with one tree.
Walk(f, n) == OwnKey(n) \o FlattenSeq([i \in DOMAIN n.subs |-> f[n.subs[i]]])
Gather(f, n) == ({n.fn} \cap Callees) \cup UNION {f[sub] : sub \in ToSet(n.subs)}

\* extractAuthEntryKeys at a node, from its sub-invocations.
LEMMA WalkUnfolds ==
  \A n \in Invocations :
    extractAuthEntryKeys(n)
      = OwnKey(n) \o FlattenSeq([i \in DOMAIN n.subs |-> extractAuthEntryKeys(n.subs[i])])
<1> DEFINE P(f) == f = [n \in Invocations |-> Walk(f, n)]
           keys == CHOOSE f : P(f)
           F1 == [n \in Invocations |-> Walk([m \in Invocations |-> <<>>], n)]
           F2 == [n \in Invocations |-> Walk(F1, n)]
           F3 == [n \in Invocations |-> Walk(F2, n)]
           F4 == [n \in Invocations |-> Walk(F3, n)]
<1>1. \A n \in Invocations : extractAuthEntryKeys(n) = keys[n]
  BY DEF extractAuthEntryKeys, Walk
<1>2. \A f, g : \A n \in Invocations :
        (\A i \in DOMAIN n.subs : f[n.subs[i]] = g[n.subs[i]]) => Walk(f, n) = Walk(g, n)
  BY DEF Walk
<1>3. \A n \in Leaves : F1[n] = F2[n] /\ F2[n] = F3[n] /\ n \in Invocations
  <2> SUFFICES ASSUME NEW n \in Leaves PROVE F1[n] = F2[n] /\ F2[n] = F3[n] /\ n \in Invocations
    OBVIOUS
  <2>1. n \in Invocations /\ DOMAIN n.subs = {}
    BY TreeLevels
  <2>2. \A f, g : Walk(f, n) = Walk(g, n)
    BY <1>2, <2>1
  <2> QED BY <2>1, <2>2
<1>4. \A n \in Deep : F2[n] = F3[n] /\ n \in Invocations
  <2> SUFFICES ASSUME NEW n \in Deep PROVE F2[n] = F3[n] /\ n \in Invocations
    OBVIOUS
  <2>1. n \in Invocations /\ \A i \in DOMAIN n.subs : n.subs[i] \in Leaves
    BY TreeLevels
  <2>2. \A i \in DOMAIN n.subs : F1[n.subs[i]] = F2[n.subs[i]]
    BY <1>3, <2>1
  <2> HIDE DEF F1
  <2>3. Walk(F1, n) = Walk(F2, n)
    BY <1>2, <2>1, <2>2
  <2> QED BY <2>1, <2>3
<1>5. \A n \in Invocations : F3[n] = F4[n]
  <2> SUFFICES ASSUME NEW n \in Invocations PROVE F3[n] = F4[n]
    OBVIOUS
  <2>1. \A i \in DOMAIN n.subs : n.subs[i] \in Leaves \cup Deep
    BY TreeLevels
  <2>2. \A i \in DOMAIN n.subs : F2[n.subs[i]] = F3[n.subs[i]]
    BY <1>3, <1>4, <2>1
  <2> HIDE DEF F2
  <2>3. Walk(F2, n) = Walk(F3, n)
    BY <1>2, <2>2
  <2> QED BY <2>3
<1>6. P(F3)
  <2>1. F3 = F4
    <3> HIDE DEF F2
    <3> QED BY <1>5
  <2> QED BY <2>1
<1> HIDE DEF F3
<1>7. P(keys)
  <2> HIDE DEF P
  <2> QED BY <1>6
<1> HIDE DEF keys
<1>8. ASSUME NEW n \in Invocations
      PROVE  extractAuthEntryKeys(n)
               = OwnKey(n) \o FlattenSeq([i \in DOMAIN n.subs |-> extractAuthEntryKeys(n.subs[i])])
  <2>1. keys[n] = Walk(keys, n)
    BY <1>7
  <2>2. \A i \in DOMAIN n.subs : n.subs[i] \in Invocations
    BY TreeLevels
  <2>3. [i \in DOMAIN n.subs |-> keys[n.subs[i]]]
          = [i \in DOMAIN n.subs |-> extractAuthEntryKeys(n.subs[i])]
    BY <1>1, <2>2
  <2> QED BY <1>1, <2>1, <2>3 DEF Walk
<1> QED BY <1>8

\* Calls at a node, from its sub-invocations.
LEMMA CallsUnfold ==
  \A n \in Invocations : \A c :
    c \in Calls(n) <=> \/ n.fn = c /\ c \in Callees
                       \/ \E i \in DOMAIN n.subs : c \in Calls(n.subs[i])
<1> DEFINE P(f) == f = [n \in Invocations |-> Gather(f, n)]
           called == CHOOSE f : P(f)
           F1 == [n \in Invocations |-> Gather([m \in Invocations |-> {}], n)]
           F2 == [n \in Invocations |-> Gather(F1, n)]
           F3 == [n \in Invocations |-> Gather(F2, n)]
           F4 == [n \in Invocations |-> Gather(F3, n)]
<1>1. \A n \in Invocations : Calls(n) = called[n]
  BY DEF Calls, Gather
<1>2. \A f, g : \A n \in Invocations :
        (\A i \in DOMAIN n.subs : f[n.subs[i]] = g[n.subs[i]]) => Gather(f, n) = Gather(g, n)
  <2> SUFFICES ASSUME NEW f, NEW g, NEW n \in Invocations,
                      \A i \in DOMAIN n.subs : f[n.subs[i]] = g[n.subs[i]]
               PROVE  Gather(f, n) = Gather(g, n)
    OBVIOUS
  <2>1. \A sub \in ToSet(n.subs) : f[sub] = g[sub]
    BY DEF ToSet
  <2>2. {f[sub] : sub \in ToSet(n.subs)} = {g[sub] : sub \in ToSet(n.subs)}
    BY <2>1
  <2> QED BY <2>2 DEF Gather
<1>3. \A n \in Leaves : F1[n] = F2[n] /\ F2[n] = F3[n] /\ n \in Invocations
  <2> SUFFICES ASSUME NEW n \in Leaves PROVE F1[n] = F2[n] /\ F2[n] = F3[n] /\ n \in Invocations
    OBVIOUS
  <2>1. n \in Invocations /\ DOMAIN n.subs = {}
    BY TreeLevels
  <2>2. \A f, g : Gather(f, n) = Gather(g, n)
    BY <1>2, <2>1
  <2> QED BY <2>1, <2>2
<1>4. \A n \in Deep : F2[n] = F3[n] /\ n \in Invocations
  <2> SUFFICES ASSUME NEW n \in Deep PROVE F2[n] = F3[n] /\ n \in Invocations
    OBVIOUS
  <2>1. n \in Invocations /\ \A i \in DOMAIN n.subs : n.subs[i] \in Leaves
    BY TreeLevels
  <2>2. \A i \in DOMAIN n.subs : F1[n.subs[i]] = F2[n.subs[i]]
    BY <1>3, <2>1
  <2> HIDE DEF F1
  <2>3. Gather(F1, n) = Gather(F2, n)
    BY <1>2, <2>1, <2>2
  <2> QED BY <2>1, <2>3
<1>5. \A n \in Invocations : F3[n] = F4[n]
  <2> SUFFICES ASSUME NEW n \in Invocations PROVE F3[n] = F4[n]
    OBVIOUS
  <2>1. \A i \in DOMAIN n.subs : n.subs[i] \in Leaves \cup Deep
    BY TreeLevels
  <2>2. \A i \in DOMAIN n.subs : F2[n.subs[i]] = F3[n.subs[i]]
    BY <1>3, <1>4, <2>1
  <2> HIDE DEF F2
  <2>3. Gather(F2, n) = Gather(F3, n)
    BY <1>2, <2>2
  <2> QED BY <2>3
<1>6. P(F3)
  <2>1. F3 = F4
    <3> HIDE DEF F2
    <3> QED BY <1>5
  <2> QED BY <2>1
<1> HIDE DEF F3
<1>7. P(called)
  <2> HIDE DEF P
  <2> QED BY <1>6
<1> HIDE DEF called
<1>8. ASSUME NEW n \in Invocations, NEW c
      PROVE  c \in Calls(n) <=> \/ n.fn = c /\ c \in Callees
                                \/ \E i \in DOMAIN n.subs : c \in Calls(n.subs[i])
  <2>1. Calls(n) = Gather(called, n)
    BY <1>1, <1>7
  <2>2. \A i \in DOMAIN n.subs : n.subs[i] \in Invocations
    BY TreeLevels
  <2>3. c \in Gather(called, n) <=> \/ n.fn = c /\ c \in Callees
                                    \/ \E sub \in ToSet(n.subs) : c \in called[sub]
    BY DEF Gather
  <2>4. (\E sub \in ToSet(n.subs) : c \in called[sub]) <=> \E i \in DOMAIN n.subs : c \in Calls(n.subs[i])
    BY <1>1, <2>2 DEF ToSet
  <2> QED BY <2>1, <2>3, <2>4
<1> QED BY <1>8

\* The walk finds the contracts of the tree, whatever its shape.
LEMMA WalkFindsCalls ==
  \A n \in Invocations : /\ extractAuthEntryKeys(n) \in Seq(Callees)
                         /\ \A c : Has(extractAuthEntryKeys(n), c) <=> c \in Calls(n)
<1> DEFINE Right(n) == /\ extractAuthEntryKeys(n) \in Seq(Callees)
                       /\ \A c : Has(extractAuthEntryKeys(n), c) <=> c \in Calls(n)
<1>1. ASSUME NEW n \in Invocations, \A i \in DOMAIN n.subs : Right(n.subs[i]) PROVE Right(n)
  <2> DEFINE found == [i \in DOMAIN n.subs |-> extractAuthEntryKeys(n.subs[i])]
             own == OwnKey(n)
  <2>1. extractAuthEntryKeys(n) = own \o FlattenSeq(found)
    BY WalkUnfolds
  <2>2. n.subs \in Seq(Invocations)
    BY TreeLevels
  <2>3. found \in Seq(Seq(Callees)) /\ DOMAIN found = DOMAIN n.subs
    BY <1>1, <2>2
  <2>4. own \in Seq(Callees) /\ \A c : Has(own, c) <=> n.fn = c /\ c \in Callees
    <3>1. n.fn \in Callees \cup {OtherFn} /\ OtherFn \notin Callees
      BY TreeLevels, AuthAssumption DEF Callable
    <3>2. CASE n.fn = OtherFn
      <4>1. own = <<>>
        BY <3>2 DEF OwnKey
      <4>2. \A c : ~Has(<<>>, c)
        BY DEF Has
      <4> QED BY <3>1, <3>2, <4>1, <4>2
    <3>3. CASE n.fn # OtherFn
      <4>1. own = <<n.fn>> /\ n.fn \in Callees
        BY <3>1, <3>3 DEF OwnKey
      <4>2. \A c : Has(<<n.fn>>, c) <=> c = n.fn
        BY DEF Has
      <4>3. <<n.fn>> \in Seq(Callees)
        BY <4>1
      <4> QED BY <4>1, <4>2, <4>3
    <3> QED BY <3>2, <3>3
  <2>5. \A i \in DOMAIN n.subs : \A c : Has(found[i], c) <=> c \in Calls(n.subs[i])
    BY <1>1
  <2> HIDE DEF found, own
  <2>6. FlattenSeq(found) \in Seq(Callees)
    BY <2>3, FlattenType
  <2>7. \A c : Has(FlattenSeq(found), c) <=> \E i \in DOMAIN n.subs : c \in Calls(n.subs[i])
    BY <2>3, <2>5, FlattenHas
  <2>8. \A c : Has(own \o FlattenSeq(found), c) <=> Has(own, c) \/ Has(FlattenSeq(found), c)
    BY <2>4, <2>6, HasConcat
  <2>9. \A c : c \in Calls(n) <=> \/ n.fn = c /\ c \in Callees
                                  \/ \E i \in DOMAIN n.subs : c \in Calls(n.subs[i])
    BY CallsUnfold
  <2>10. own \o FlattenSeq(found) \in Seq(Callees)
    BY <2>4, <2>6
  <2> QED BY <2>1, <2>4, <2>7, <2>8, <2>9, <2>10
<1> HIDE DEF Right
<1>2. \A n \in Leaves : Right(n)
  BY <1>1, TreeLevels
<1>3. \A n \in Deep : Right(n)
  BY <1>1, <1>2, TreeLevels
<1>4. \A n \in Deeper : Right(n)
  BY <1>1, <1>2, <1>3, TreeLevels
<1>5. \A n \in Invocations : Right(n)
  BY <1>2, <1>3, <1>4, TreeLevels
<1> QED BY <1>5 DEF Right

-----------------------------------------------------------------------------
\* An array without repetition has as many entries as their set.
LEMMA DistinctCounts ==
  ASSUME NEW E, NEW s \in Seq(E), Distinct(s)
  PROVE  Cardinality(ToSet(s)) = Len(s)
<1> DEFINE n == Len(s)
           S == ToSet(s)
<1>1. n \in Nat /\ DOMAIN s = 1..n /\ s \in [1..n -> E]
  OBVIOUS
<1>2. S = {s[i] : i \in 1..n}
  BY <1>1 DEF ToSet
<1> HIDE DEF n, S
<1>3. s \in [1..n -> S]
  BY <1>1, <1>2
<1>4. \A a, b \in 1..n : s[a] = s[b] => a = b
  BY <1>1 DEF Distinct
<1>5. \A t \in S : \E i \in 1..n : s[i] = t
  BY <1>2
<1>6. s \in Bijection(1..n, S)
  BY <1>3, <1>4, <1>5 DEF Bijection, Injection, Surjection, IsInjective
<1>7. ExistsBijection(1..n, S)
  BY <1>6 DEF ExistsBijection
<1>8. Cardinality(S) = n
  BY <1>1, <1>7, FS_CountingElements
<1> QED BY <1>8 DEF n, S

\* The keys that detectExpiredAuthEntries reports, without repetition.
LEMMA RestoredKeysSuffice ==
  ASSUME entries \in Seq(Invocations), archivedCallees \subseteq Callees
  PROVE  AuthKeysSuffice
<1> DEFINE A == archivedCallees
           needy == {tree \in Invocations : Expired(tree, A) # <<>>}
           expired == Kept(entries, needy)
           each == [i \in DOMAIN expired |-> Expired(expired[i], A)]
           keys == keysToRestoreForAuthEntries(entries, A)
<1>1. ASSUME NEW tree \in Invocations
      PROVE  /\ Expired(tree, A) \in Seq(Callees)
             /\ \A c : Has(Expired(tree, A), c) <=> c \in Calls(tree) /\ c \in A
  <2> DEFINE q == extractAuthEntryKeys(tree)
  <2>1. q \in Seq(Callees) /\ \A c : Has(q, c) <=> c \in Calls(tree)
    BY WalkFindsCalls
  <2>2. Expired(tree, A) = Kept(q, A)
    BY DEF Expired
  <2> HIDE DEF q
  <2>3. Kept(q, A) \in Seq(Callees)
    BY <2>1, SharesType
  <2>4. \A c : Has(Kept(q, A), c) <=> Has(q, c) /\ c \in A
    BY <2>1, KeptHas
  <2> QED BY <2>1, <2>2, <2>3, <2>4
<1>2. keys = Firsts(Callees, FlattenSeq(each))
  BY DEF keysToRestoreForAuthEntries, Scan
<1>3. \A tree \in Invocations : tree \in needy <=> \E c : c \in Calls(tree) /\ c \in A
  <2> SUFFICES ASSUME NEW tree \in Invocations
               PROVE  Expired(tree, A) # <<>> <=> \E c : c \in Calls(tree) /\ c \in A
    OBVIOUS
  <2> DEFINE q == Expired(tree, A)
  <2>1. q \in Seq(Callees) /\ \A c : Has(q, c) <=> c \in Calls(tree) /\ c \in A
    BY <1>1
  <2> HIDE DEF q
  <2>2. q = <<>> <=> \A c \in Callees : ~Has(q, c)
    BY <2>1, HasNone
  <2>3. \A c : Has(q, c) => c \in Callees
    BY <2>1 DEF Has
  <2>4. q # <<>> <=> \E c : c \in Calls(tree) /\ c \in A
    BY <2>1, <2>2, <2>3
  <2> QED BY <2>4 DEF q
<1> HIDE DEF needy, keys
<1>4. expired \in Seq(Invocations) /\ \A tree : Has(expired, tree) <=> Has(entries, tree) /\ tree \in needy
  BY KeptHas, SharesType
<1> HIDE DEF expired
<1>5. /\ each \in Seq(Seq(Callees)) /\ DOMAIN each = DOMAIN expired
      /\ \A i \in DOMAIN expired : \A c : Has(each[i], c) <=> c \in Calls(expired[i]) /\ c \in A
  <2>1. \A i \in DOMAIN expired : expired[i] \in Invocations
    BY <1>4
  <2>2. \A i \in DOMAIN expired : Expired(expired[i], A) \in Seq(Callees)
    BY <1>1, <2>1
  <2>3. DOMAIN expired = 1..Len(expired) /\ Len(expired) \in Nat
    BY <1>4
  <2>4. each \in Seq(Seq(Callees))
    BY <2>2, <2>3
  <2> QED BY <1>1, <2>1, <2>4
<1> HIDE DEF each
<1>6. FlattenSeq(each) \in Seq(Callees) /\ \A c : Has(FlattenSeq(each), c) <=> \E i \in DOMAIN each : Has(each[i], c)
  BY <1>5, FlattenType, FlattenHas
<1>7. /\ keys \in Seq(Callees) /\ Distinct(keys)
      /\ \A c \in Callees : Has(keys, c) <=> Has(FlattenSeq(each), c)
  BY <1>2, <1>6, FirstsAreDistinct
<1>8. \A c : c \in ToSet(keys) <=> Has(keys, c)
  BY ToSetHas
<1>9. \A c : Has(keys, c) => c \in Callees
  BY <1>7 DEF Has
<1>10. ASSUME NEW c \in ToSet(keys)
       PROVE  c \in A /\ \E i \in DOMAIN entries : c \in Calls(entries[i])
  <2>1. PICK i \in DOMAIN expired : c \in Calls(expired[i]) /\ c \in A
    BY <1>5, <1>6, <1>7, <1>8, <1>9, <1>10
  <2>2. Has(expired, expired[i])
    BY DEF Has
  <2>3. Has(entries, expired[i])
    BY <1>4, <2>2
  <2> QED BY <2>1, <2>3 DEF Has
<1>11. ASSUME NEW i \in DOMAIN entries, NEW c, c \in Calls(entries[i]), c \in A
       PROVE  c \in ToSet(keys)
  <2>1. entries[i] \in Invocations /\ Has(entries, entries[i])
    BY DEF Has
  <2>2. Has(expired, entries[i])
    BY <1>3, <1>4, <1>11, <2>1
  <2>3. PICK k \in DOMAIN expired : expired[k] = entries[i]
    BY <2>2 DEF Has
  <2>4. Has(FlattenSeq(each), c)
    BY <1>5, <1>6, <1>11, <2>3
  <2>5. c \in Callees
    BY <1>11
  <2> QED BY <1>7, <1>8, <2>4, <2>5
<1>12. Cardinality(ToSet(keys)) = Len(keys)
  BY <1>7, DistinctCounts
<1>13. \A i \in DOMAIN entries : Calls(entries[i]) \cap (A \ ToSet(keys)) = {}
  BY <1>11
<1> QED BY <1>10, <1>12, <1>13 DEF AuthKeysSuffice, keys

\* Whatever trees of invocations (of up to three levels) a transaction carries,
\* and whichever contracts are archived: restoring the keys that
\* keysToRestoreForAuthEntries reports makes every entry valid, and each of
\* them is archived, needed and reported once.
THEOREM AuthEntriesAreRestored == PartsSpec => []AuthKeysSuffice
<1> DEFINE Inv == entries \in Seq(Invocations) /\ archivedCallees \subseteq Callees
<1>1. PartsInit => Inv
  BY DEF PartsInit, AuthInit
<1>2. Inv /\ [PartsNext]_partsVars => Inv'
  <2> SUFFICES ASSUME Inv, [AuthNext]_authVars PROVE Inv'
    BY PartStep
  <2>1. CASE AddEntry
    BY <2>1 DEF AddEntry
  <2>2. CASE ArchiveCallee
    BY <2>2 DEF ArchiveCallee
  <2>3. CASE UNCHANGED authVars
    BY <2>3 DEF authVars
  <2> QED BY <2>1, <2>2, <2>3 DEF AuthNext
<1>3. Inv => AuthKeysSuffice
  BY RestoredKeysSuffice
<1> QED BY <1>1, <1>2, <1>3, PTL DEF PartsSpec
=============================================================================
