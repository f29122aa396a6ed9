------------------------- MODULE VersionNegotiation -------------------------
(***************************************************************************)
(* VersionNegotiator (packages/sdk/src/version-negotiator.ts) and the      *)
(* schemas by which answers are validated for a protocol                   *)
(* (packages/rpc/src/response-schema.ts).                                  *)
(*                                                                         *)
(* A node runs a protocol and may be upgraded; its getVersionInfo reports  *)
(* the protocol, or only the number its build goes by, or nothing that can *)
(* be read, or fails, or does not exist.                                   *)
(***************************************************************************)
EXTENDS Naturals

CONSTANTS
  Protocols,        \* protocols that nodes run
  Builds,           \* numbers that builds go by
  Negotiations,     \* calls of negotiate that may be under way together
  MinProtocols,     \* minProtocolPerNetwork for the network, or the default
  MaxNegotiations   \* bound: calls begun

ASSUME VersionAssumption ==
  /\ Protocols \subseteq Nat \ {0} /\ Builds \subseteq Nat \ {0}
  /\ MinProtocols \subseteq Nat \ {0} /\ MaxNegotiations \in Nat

MIN_SUPPORTED_PROTOCOL == 20
MAX_SUPPORTED_PROTOCOL == 22

\* The lines of PROTOCOL_COMPATIBILITY_MATRIX that are supported.
Matrix == 20..22
SCHEMA_PROTOCOL_LINES == {20, 21, 22}

NoVersion == 0

VARIABLES
  node,         \* the protocol the node runs
  minimum,      \* getMinimumProtocolForNetwork
  cachedVersionInfo,   \* the protocol negotiated last, or NoVersion
  negotiations, negotiated,
  fromBuild     \* history: a build's number was taken for a protocol

versionVars ==
  <<node, minimum, cachedVersionInfo, negotiations, negotiated, fromBuild>>

VersionTypeOK ==
  /\ node \in Protocols /\ minimum \in MinProtocols
  /\ cachedVersionInfo \in Protocols \cup Builds \cup {NoVersion, MIN_SUPPORTED_PROTOCOL}
  /\ negotiations \in [Negotiations -> {"idle", "asking"}]
  /\ negotiated \in 0..MaxNegotiations
  /\ fromBuild \in BOOLEAN

-----------------------------------------------------------------------------
(* validateRpcResultSchema.                                                *)

SchemaMethods == {"getHealth", "getNetwork", "getLatestLedger", "getLedgerEntries",
                  "simulateTransaction", "sendTransaction", "getTransaction"}

Required ==
  [getHealth |-> {"status"}, getNetwork |-> {"passphrase", "protocolVersion"},
   getLatestLedger |-> {"id", "protocolVersion", "sequence"},
   getLedgerEntries |-> {"entries", "latestLedger"},
   simulateTransaction |-> {"latestLedger"},
   sendTransaction |-> {"status", "hash", "latestLedger"},
   getTransaction |-> {"status", "latestLedger"}]

\* The fields that a result must have, by the first protocol that has them.
SinceFields(method, protocol) ==
  IF method = "getTransaction" /\ protocol >= 22 THEN {"txHash"} ELSE {}
FieldsOf(method, protocol) == Required[method] \cup SinceFields(method, protocol)

validateRpcResultSchema(method, fields, protocol) ==
  /\ protocol \in SCHEMA_PROTOCOL_LINES
  /\ method \in SchemaMethods
  /\ FieldsOf(method, protocol) \subseteq fields

-----------------------------------------------------------------------------

\* adaptXdrEncoding for the variant of a protocol: the protocol it encodes for.
adaptXdrEncoding(protocol) ==
  IF protocol \in Matrix THEN protocol ELSE MIN_SUPPORTED_PROTOCOL

\* Mutation: what cannot be read is taken for the newest protocol.
Newest == MAX_SUPPORTED_PROTOCOL
\* The protocol of a node that does not say.
Fallback == MIN_SUPPORTED_PROTOCOL

\* parseProtocolVersion, and the ways in which getVersionInfo gives nothing.
Reports == [protocolVersion : {node}, version : {NoVersion}]
             \cup [protocolVersion : {NoVersion}, version : Builds \cup {NoVersion}]
parseProtocolVersion(raw) ==
  IF raw.protocolVersion # NoVersion THEN raw.protocolVersion
  ELSE IF raw.version # NoVersion THEN raw.version ELSE Fallback

NegotiateBegins(n) ==
  /\ negotiations[n] = "idle" /\ negotiated < MaxNegotiations
  /\ negotiated' = negotiated + 1
  /\ negotiations' = [negotiations EXCEPT ![n] = "asking"]
  /\ UNCHANGED <<node, minimum, cachedVersionInfo, fromBuild>>

\* The rest of negotiate: a protocol below the minimum throws and leaves the
\* cache as it was, a protocol above the tested ones is only warned about.
NegotiateEnds(n) ==
  /\ negotiations[n] = "asking"
  /\ negotiations' = [negotiations EXCEPT ![n] = "idle"]
  /\ \E raw \in Reports :
       LET version == parseProtocolVersion(raw)
       IN  IF version < minimum
           THEN UNCHANGED <<cachedVersionInfo, fromBuild>>
           ELSE /\ cachedVersionInfo' = version
                /\ fromBuild' = (raw.version # NoVersion)
  /\ UNCHANGED <<node, minimum, negotiated>>

NodeUpgraded ==
  /\ \E p \in Protocols : p > node /\ node' = p
  /\ UNCHANGED <<minimum, cachedVersionInfo, negotiations, negotiated, fromBuild>>

VersionInit ==
  /\ node \in Protocols /\ minimum \in MinProtocols
  /\ cachedVersionInfo = NoVersion
  /\ negotiations = [n \in Negotiations |-> "idle"] /\ negotiated = 0
  /\ fromBuild = FALSE

VersionNext ==
  \/ \E n \in Negotiations : NegotiateBegins(n) \/ NegotiateEnds(n)
  \/ NodeUpgraded

-----------------------------------------------------------------------------

\* Once a version is negotiated that the matrix supports, the schemas accept
\* every full result of the node, upgraded or not, and the encoding is that
\* of the version; only the number of a build may be taken for too much.
NodesAreUnderstood ==
  cachedVersionInfo \in Matrix /\ ~fromBuild =>
    /\ adaptXdrEncoding(cachedVersionInfo) = cachedVersionInfo
    /\ \A method \in SchemaMethods :
         validateRpcResultSchema(method, FieldsOf(method, node), cachedVersionInfo)
=============================================================================
