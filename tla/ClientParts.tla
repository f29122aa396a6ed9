---------------------------- MODULE ClientParts -----------------------------
(***************************************************************************)
(* Parts around the client: parsing ledger keys, dividing them into        *)
(* batches, finding those that authorization entries need, the footprint   *)
(* cache, reading JSON-RPC answers, probing an endpoint for the methods a  *)
(* restore needs, negotiating the protocol, the pipeline of the mock       *)
(* server that the tests use, and the container of services.               *)
(* The parts share no state, so a behaviour looks at one of them.          *)
(***************************************************************************)
EXTENDS FootprintParsers, KeyBatches, AuthEntries, FootprintCaching,
        RpcAnswers, VersionNegotiation, MockPipeline, Container

VARIABLE topic   \* the part that this behaviour uses

partsVars == <<topic, parserVars, batchVars, authVars, footprintVars, received,
               probeVars, versionVars, pipelineVars, containerVars>>

PartsInit ==
  /\ topic \in {"parsers", "batches", "auth", "footprints", "answers", "probes",
                "versions", "mock", "container"}
  /\ ParserInit /\ BatchInit /\ AuthInit /\ FootprintInit /\ ReadersInit
  /\ ProbesInit /\ VersionInit /\ PipelineInit
  /\ ContainerInit
  /\ topic # "parsers" => ~supported
  /\ topic # "batches" => maxBatchSize = 1 /\ ~overBudget
  /\ topic # "versions" => node = MIN_SUPPORTED_PROTOCOL /\ minimum = MIN_SUPPORTED_PROTOCOL

Parses ==
  /\ topic = "parsers" /\ ParserNext
  /\ UNCHANGED <<topic, batchVars, authVars, footprintVars, received, probeVars,
                 versionVars, pipelineVars, containerVars>>

Batches ==
  /\ topic = "batches" /\ BatchNext
  /\ UNCHANGED <<topic, parserVars, authVars, footprintVars, received, probeVars,
                 versionVars, pipelineVars, containerVars>>

Authorizes ==
  /\ topic = "auth" /\ AuthNext
  /\ UNCHANGED <<topic, parserVars, batchVars, footprintVars, received, probeVars,
                 versionVars, pipelineVars, containerVars>>

CachesFootprints ==
  /\ topic = "footprints" /\ FootprintNext
  /\ UNCHANGED <<topic, parserVars, batchVars, authVars, received, probeVars,
                 versionVars, pipelineVars, containerVars>>

ReadsAnswers ==
  /\ topic = "answers" /\ ReadersNext
  /\ UNCHANGED <<topic, parserVars, batchVars, authVars, footprintVars, probeVars,
                 versionVars, pipelineVars, containerVars>>

ProbesMethods ==
  /\ topic = "probes" /\ ProbesNext
  /\ UNCHANGED <<topic, parserVars, batchVars, authVars, footprintVars, received,
                 versionVars, pipelineVars, containerVars>>

NegotiatesVersions ==
  /\ topic = "versions" /\ VersionNext
  /\ UNCHANGED <<topic, parserVars, batchVars, authVars, footprintVars, received,
                 probeVars, pipelineVars, containerVars>>

MocksRequests ==
  /\ topic = "mock" /\ PipelineNext
  /\ UNCHANGED <<topic, parserVars, batchVars, authVars, footprintVars, received,
                 probeVars, versionVars, containerVars>>

ResolvesKeys ==
  /\ topic = "container" /\ ContainerNext
  /\ UNCHANGED <<topic, parserVars, batchVars, authVars, footprintVars, received,
                 probeVars, versionVars, pipelineVars>>

PartsNext ==
  \/ Parses \/ Batches \/ Authorizes \/ CachesFootprints
  \/ ReadsAnswers \/ ProbesMethods \/ NegotiatesVersions \/ MocksRequests
  \/ ResolvesKeys

PartsSpec == PartsInit /\ [][PartsNext]_partsVars
=============================================================================
