---------------------------- MODULE MockPipeline ----------------------------
(***************************************************************************)
(* The request pipeline of MockRpcServer (packages/mock-rpc/src): method   *)
(* overrides, replay of a fixture, simulated network conditions, the       *)
(* handler, and the recording of its answer (FixtureRecorder); accounts    *)
(* come from a SequenceManager.  MockRpc models the ledger state behind    *)
(* the handlers.                                                           *)
(*                                                                         *)
(* The answer of a handler is the number it reports: an account's          *)
(* sequence, or else the latest ledger.  A request is its method and the   *)
(* number of its parameters, which is all that replay compares.            *)
(***************************************************************************)
EXTENDS Naturals, Sequences, SequencesExt

CONSTANTS
  Requests,      \* requests that may be under way together
  MaxRequests,   \* bound: requests begun
  MaxControlled  \* bound: what the test does to the server

ASSUME PipelineAssumption == MaxRequests \in Nat /\ MaxControlled \in Nat

\* Methods with their numbers of parameters: getLedgerEntries takes as many as
\* it has keys, and the other methods are like getAccount with one.
Signatures == {<<"getLedgerEntries", 1>>, <<"getLedgerEntries", 2>>, <<"getAccount", 1>>}
MethodOf(sig) == sig[1]
RpcMethods == {MethodOf(sig) : sig \in Signatures}

NetworkConditions == {"healthy", "slow", "failing"}   \* failing: timeout or error
Unconditioned == "none"

VARIABLES
  latestLedger, sequence,         \* MockLedgerState, SequenceManager
  network, perMethodConditions,   \* config.networkCondition and the overrides
  methodOverrides,
  fixtureMode, loadedFixture,
  recording, isRecording,         \* FixtureRecorder
  savedFixture,                   \* the fixture file
  requests,                       \* the requests under way
  stats, issued, controlled,
  \* History: whether the test has a recording under way, and the answers
  \* given since it began.
  wanted, given

pipelineVars ==
  <<latestLedger, sequence, network, perMethodConditions, methodOverrides,
    fixtureMode, loadedFixture, recording, isRecording, savedFixture, requests,
    stats, issued, controlled, wanted, given>>

controlVars == <<latestLedger, sequence, network, perMethodConditions,
                 methodOverrides, fixtureMode, loadedFixture, isRecording,
                 savedFixture, controlled, wanted>>

Interaction(sig, answer, condition) ==
  [signature |-> sig, response |-> answer, networkCondition |-> condition]
Unknown == "unknown"   \* a condition changed while the request was under way
Interactions == [signature : Signatures, response : Nat, networkCondition : NetworkConditions \cup {Unknown}]

\* A request and the condition that applyNetworkSimulation applied to it.
Request(stage, sig, answer, applied) ==
  [stage |-> stage, signature |-> sig, response |-> answer, applied |-> applied]
NoRequest == Request("idle", <<>>, 0, Unknown)
NoStats == [totalCalls |-> 0, failures |-> 0, slowResponses |-> 0]

PipelineTypeOK ==
  /\ latestLedger \in Nat /\ sequence \in Nat
  /\ network \in NetworkConditions
  /\ perMethodConditions \in [RpcMethods -> NetworkConditions \cup {Unconditioned}]
  /\ methodOverrides \subseteq RpcMethods
  /\ fixtureMode \in {"none", "replay", "record"}
  /\ \A list \in {loadedFixture, recording, savedFixture} : list \in Seq(Interactions)
  /\ isRecording \in BOOLEAN /\ wanted \in BOOLEAN
  /\ requests \in [Requests -> [stage : {"idle", "replays", "applies", "handled"},
                                signature : Signatures \cup {<<>>}, response : Nat,
                                applied : NetworkConditions \cup {Unknown}]]
  /\ stats \in [totalCalls : 0..MaxRequests, failures : 0..MaxRequests,
                slowResponses : 0..MaxRequests]
  /\ issued \in 0..MaxRequests /\ controlled \in 0..MaxControlled
  /\ given \in Seq(Interactions)

-----------------------------------------------------------------------------
\* getEffectiveCondition.
EffectiveConditionOf(method) ==
  IF perMethodConditions[method] # Unconditioned THEN perMethodConditions[method]
  ELSE network

\* The handlers, of which getAccount answers with the account's sequence.
Handled(sig) == IF MethodOf(sig) = "getAccount" THEN sequence ELSE latestLedger

\* findInteraction: the first with the method and the number of parameters.
Matching(sig) == {n \in DOMAIN loadedFixture : loadedFixture[n].signature = sig}
Found(sig) == loadedFixture[CHOOSE n \in Matching(sig) : \A k \in Matching(sig) : n <= k]

\* Mutation: the server's own mode is not asked.
RecorderOnly == isRecording
\* Whether handleRequest and then FixtureRecorder.record record an answer.
Records == fixtureMode = "record" /\ isRecording

Counted(failures, slow) ==
  stats' = [totalCalls |-> stats.totalCalls + 1, failures |-> stats.failures + failures,
            slowResponses |-> stats.slowResponses + slow]

Begins(r) ==
  /\ requests[r].stage = "idle" /\ issued < MaxRequests
  /\ issued' = issued + 1
  /\ UNCHANGED controlVars

\* handleRequest with an override.
OverrideAnswers(r, sig) ==
  /\ Begins(r) /\ MethodOf(sig) \in methodOverrides
  /\ Counted(0, 0)
  /\ UNCHANGED <<requests, recording, given>>

Replays(sig) ==
  /\ MethodOf(sig) \notin methodOverrides
  /\ fixtureMode = "replay" /\ Matching(sig) # {}

\* The replay of an interaction under the condition it was recorded with.
ReplayRequest(r, sig) ==
  /\ Begins(r) /\ Replays(sig)
  /\ LET replayed == Found(sig)
     IN  \/ /\ replayed.networkCondition = "healthy" /\ Counted(0, 0)
            /\ UNCHANGED requests
         \/ /\ replayed.networkCondition = "failing" /\ Counted(1, 0)
            /\ UNCHANGED requests
         \/ /\ replayed.networkCondition = "slow" /\ Counted(0, 1)
            /\ requests' = [requests EXCEPT
                  ![r] = Request("replays", sig, replayed.response, "slow")]
  /\ UNCHANGED <<recording, given>>

\* handleRequest otherwise, up to the await of applyNetworkSimulation.
HandleRequest(r, sig) ==
  /\ Begins(r) /\ MethodOf(sig) \notin methodOverrides /\ ~Replays(sig)
  /\ LET condition == EffectiveConditionOf(MethodOf(sig))
     IN  \/ /\ condition = "failing" /\ Counted(1, 0)
            /\ UNCHANGED requests
         \/ /\ condition # "failing" /\ Counted(0, IF condition = "slow" THEN 1 ELSE 0)
            /\ requests' = [requests EXCEPT ![r] = Request("applies", sig, 0, condition)]
  /\ UNCHANGED <<recording, given>>

Resumes(r, stage) == requests[r].stage = stage /\ UNCHANGED <<stats, issued, controlVars>>

\* The delay of a replayed answer is over.
ReplayEnds(r) ==
  /\ Resumes(r, "replays")
  /\ requests' = [requests EXCEPT ![r] = NoRequest]
  /\ UNCHANGED <<recording, given>>

\* After the delay, or at once if there is none, the handler runs.
HandlerRuns(r) ==
  /\ Resumes(r, "applies")
  /\ requests' = [requests EXCEPT ![r].stage = "handled",
                                  ![r].response = Handled(requests[r].signature)]
  /\ UNCHANGED <<recording, given>>

\* The handler's promise has settled: the mode is looked at and the condition
\* looked up anew for the recording, and the request is answered.
Answers(r) ==
  /\ Resumes(r, "handled")
  /\ LET sig == requests[r].signature   answer == requests[r].response
     IN  /\ recording' = IF Records
              THEN Append(recording,
                     Interaction(sig, answer, EffectiveConditionOf(MethodOf(sig))))
              ELSE recording
         /\ given' = IF wanted
              THEN Append(given, Interaction(sig, answer, requests[r].applied)) ELSE given
  /\ requests' = [requests EXCEPT ![r] = NoRequest]

-----------------------------------------------------------------------------
(* What the test does.                                                     *)

Does == controlled < MaxControlled /\ controlled' = controlled + 1
requestVars == <<requests, stats, issued, given>>

startRecording ==
  /\ Does
  /\ fixtureMode' = "record" /\ isRecording' = TRUE /\ recording' = <<>>
  /\ wanted' = TRUE /\ given' = <<>>
  /\ UNCHANGED <<latestLedger, sequence, network, perMethodConditions, methodOverrides,
                 loadedFixture, savedFixture, requests, stats, issued>>

stopRecording ==
  /\ Does
  /\ isRecording' = FALSE /\ fixtureMode' = "none" /\ wanted' = FALSE
  /\ UNCHANGED <<latestLedger, sequence, network, perMethodConditions, methodOverrides,
                 loadedFixture, savedFixture, recording, requestVars>>

saveFixture ==
  /\ Does
  /\ savedFixture' = recording
  /\ UNCHANGED <<latestLedger, sequence, network, perMethodConditions, methodOverrides,
                 fixtureMode, loadedFixture, isRecording, recording, wanted,
                 requestVars>>

\* loadFixture and loadFixtureFromFile: what was being recorded is left as it is.
loadFixture ==
  /\ Does
  /\ loadedFixture' = savedFixture /\ fixtureMode' = "replay" /\ wanted' = FALSE
  /\ UNCHANGED <<latestLedger, sequence, network, perMethodConditions, methodOverrides,
                 savedFixture, isRecording, recording, requestVars>>

\* setNetworkCondition, setMethodCondition, clearMethodCondition, resetConditions.
ChangeConditions(condition, ofMethods) ==
  /\ Does
  /\ network' = condition /\ perMethodConditions' = ofMethods
  /\ requests' = [r \in Requests |->
       IF requests[r].stage = "idle" THEN requests[r]
       ELSE [requests[r] EXCEPT !.applied = Unknown]]
  /\ UNCHANGED <<latestLedger, sequence, methodOverrides, fixtureMode, loadedFixture,
                 savedFixture, isRecording, recording, wanted, stats, issued, given>>

ControlConditions ==
  \/ \E c \in NetworkConditions \ {network} : ChangeConditions(c, perMethodConditions)
  \/ \E m \in RpcMethods, c \in NetworkConditions \cup {Unconditioned} :
       ChangeConditions(network, [perMethodConditions EXCEPT ![m] = c])
  \/ ChangeConditions("healthy", [m \in RpcMethods |-> Unconditioned])

\* setMethodOverride, clearMethodOverride and clearAllOverrides.
ControlOverrides ==
  /\ Does
  /\ \/ \E m \in RpcMethods : methodOverrides' \in {methodOverrides \cup {m}, methodOverrides \ {m}}
     \/ methodOverrides' = {}
  /\ UNCHANGED <<latestLedger, sequence, network, perMethodConditions, fixtureMode,
                 loadedFixture, savedFixture, isRecording, recording, wanted,
                 requestVars>>

\* The ledger advances, or incrementSequenceNumber of an account that was
\* handed out advances the sequence for all.
Advance ==
  /\ Does
  /\ \/ latestLedger' = latestLedger + 1 /\ UNCHANGED sequence
     \/ sequence' = sequence + 1 /\ UNCHANGED latestLedger
  /\ UNCHANGED <<network, perMethodConditions, methodOverrides, fixtureMode, loadedFixture,
                 savedFixture, isRecording, recording, wanted, requestVars>>

resetStats ==
  /\ Does
  /\ stats' = NoStats
  /\ UNCHANGED <<latestLedger, sequence, network, perMethodConditions, methodOverrides,
                 fixtureMode, loadedFixture, savedFixture, isRecording, recording, wanted,
                 requests, issued, given>>

PipelineInit ==
  /\ latestLedger = 1 /\ sequence = 1
  /\ network = "healthy" /\ perMethodConditions = [m \in RpcMethods |-> Unconditioned]
  /\ methodOverrides = {} /\ fixtureMode = "none"
  /\ loadedFixture = <<>> /\ savedFixture = <<>>
  /\ recording = <<>> /\ isRecording = FALSE
  /\ requests = [r \in Requests |-> NoRequest]
  /\ stats = NoStats /\ issued = 0 /\ controlled = 0
  /\ wanted = FALSE /\ given = <<>>

PipelineNext ==
  \/ \E r \in Requests :
       \/ \E sig \in Signatures :
            OverrideAnswers(r, sig) \/ ReplayRequest(r, sig) \/ HandleRequest(r, sig)
       \/ ReplayEnds(r) \/ HandlerRuns(r) \/ Answers(r)
  \/ startRecording \/ stopRecording \/ saveFixture \/ loadFixture
  \/ ControlConditions \/ ControlOverrides \/ Advance \/ resetStats

-----------------------------------------------------------------------------

\* A recording is the answers of handlers that were given from startRecording
\* on, until it was stopped or a fixture was loaded, in the order in which they
\* were given and as the handler gave them, whether or not the request began
\* or its handler ran before startRecording; an answer that a stopRecording or
\* a loadFixture overtakes is left out.  Each is recorded with the condition
\* its request was served under, unless some condition was changed while it
\* was under way: the lookup for the recording comes two awaits later.
RecordingIsFaithful ==
  /\ Len(recording) = Len(given)
  /\ \A n \in DOMAIN given :
       LET condition == recording[n].networkCondition
       IN  /\ recording[n] = [given[n] EXCEPT !.networkCondition = condition]
           /\ given[n].networkCondition \in {condition, Unknown}
=============================================================================
