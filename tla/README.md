# Verification of Soroban Resurrect

TLA+ models of the Soroban Resurrect library, checked with TLC on small instances and proved with TLAPS where a
property can be proved for every instance. `PROJECT.json` is the index: it maps every definition to the source lines
it stands for, and lists the runs, the mutants that show each property can fail, the hazards and the theorems.

## The system

Soroban Resurrect is a TypeScript library for Stellar's smart contracts. Contract data on Stellar is archived when its
rent runs out; a transaction that touches an archived entry fails until the entry is restored by a transaction of its
own. The client simulates a transaction, finds the archived entries of its footprint, builds restore transactions in
batches, submits them, and submits the original transaction afterwards. Losing track of which batches have landed
means paying twice, or running the original against a half-restored footprint.

There are two clients. `packages/core` holds the class that the indexes of `sdk` and `compat` export, and
`packages/sdk/src/soroban-resurrect.ts` a longer one with recovery: shared submissions, reconciliation of lost
answers, receipts and rebuilt batches. Both are modelled.

| Part | Source (under `src/packages`) | State | Model |
| --- | --- | --- | --- |
| Exported client | `core/src/soroban-resurrect.ts` | failure state, pool of tasks, abort signal | `CoreRestore`, plans in `RestorePlan` |
| SDK client, sequential restore | `sdk/src/soroban-resurrect.ts`, `sdk/src/types.ts` | `_lastFailedRestoreState`, `inFlightSubmissions`, receipts | `RestoreBatches` |
| SDK client, concurrent restore | same | inline semaphore, collected result | `ParallelRestore` |
| SDK client, simulation | same, `rpc/src/simulation-cache.ts`, `retry-policy.ts` | cache with a time to live, shared reads, shared circuit breaker | `ClientReads` over `SimulationCache`, `CircuitBreaker`, `MockRpc` |
| Ledger-read coalescing | `sdk/src/ledger-read-coalescer.ts` | requests in flight, per key | `LedgerReads`, abstract: `MonotonicReads` |
| Endpoint failover | `rpc/src/rpc-failover.ts` | health, counters, index, sticky endpoint | `RpcFailover` |
| Transport, retry, limiter | `rpc/src/json-rpc-transport.ts`, `retry.ts`, `concurrency.ts` | slots, FIFO queue, attempts, deadline | `RpcTransport`, abstract: `Slots` |
| JSON-RPC answers, method probe | `rpc/src/json-rpc-response.ts`, `rpc-method-probe.ts` | shared checks per endpoint | `RpcAnswers` |
| Versions and schemas | `sdk/src/version-negotiator.ts`, `rpc/src/response-schema.ts` | cached version | `VersionNegotiation` |
| Footprint cache, event deduplicator | `rpc/src/footprint-cache.ts`, `sdk/src/event-deduplicator.ts` | entries, window of sequence numbers | `FootprintCaching` |
| Footprint parsers | `footprint-parser`, `footprint-parser-wasm` | loaded module, promise | `FootprintParsers` |
| Batching, auth entries | `utils/src/batching.ts`, `sdk/src/auth-entry-restoration.ts` | none | `KeyBatches`, `AuthEntries` |
| Service container | `sdk/src/container.ts` | bindings, singletons, parents | `Container` |
| Wallet manager and adapters | `wallet-adapters/src` | active adapter, relays, sessions, iframe, device | `WalletManager` over `FreighterAdapter`, `RabetAdapter`, `LedgerAdapter` |
| WalletConnect | `sdk/src/walletconnect-adapter.ts` | client, session, handlers | `WalletConnect` |
| Bindings to pages | `react`, `vue`, `svelte`, `angular` | contexts, hooks, stores, timers | `WalletProvider`, `Progress`, `RestorationStores`, `HookCache`, `RestoreComposable` |
| Telemetry with consent | `telemetry/src` | consent, in memory and in storage | `TelemetryConsent` |
| Mock server | `mock-rpc/src` | ledger, conditions, recorder, counters | `MockRpc`, `MockPipeline` |
| Network | RPC server and ledger | account sequence, mempool, ledger | `RestoreLedger` (external) |

How they meet: the restore flows are the only writers of the network, and they learn the account's sequence number
once per plan (the SDK client once more after a stale rejection), so all later steps rest on a value that others may
overtake. Detection of archived keys goes through the simulation and the read coalescer; both may answer from before a
restore. The failover manager and the transport serve the RPC client under the flows, and the application reports the
outcome of its calls to the failover manager. Wallets sign in the middle of a flow and may answer late or never. Pages
hold clients, results and sessions across renders, timers and page loads.

What is hard in this code is between the awaits: answers that are lost while the transaction is pending, polling that
ends before the ledger closes, a process that dies before a receipt is saved, two calls that share a submission and a
failure state, batches sent in parallel with consecutive sequence numbers, an abort while a wallet is asked, wallets
that answer after the timeout, timers and callbacks of a configuration that is gone. Every such place is a hazard in
`PROJECT.json`, at its line.

## Modules and the code

JavaScript runs every stretch of code between two awaits without interruption, so an action is such a stretch: the
settlement of a promise together with everything its awaiting callers do in the same turn.

### Restoring

**`RestoreLedger`** is the network as a client can observe it. A transaction is `<<batch, sequence number>>`, since
a hash depends on content and not on signatures. The node takes only the account's next number, and one pending
transaction of an account at a time. `Include` puts a transaction in a ledger, with success (`applied`) or failure
(`refused`); `Evict` drops a pending one; `OtherTx` is another user of the account consuming a number.

**`RestoreBatches`** extends it. `Build` is `buildRestoreTransactionBatches`; `Execute` starts `executeRestoreBatches`
or `executeRestoreThenOriginalBatches` (mode `batches`, `originalAll`, `originalAny` for `requireAllBatches`), `Retry`
is `retryFailedRestore`, `Resume` is `resumeRestoreBatches`, `SaveReceipt` is `createExecutionReceipt` and what the
application persists. `stage` is `inFlightSubmissions` with the progress of each submission: `signing`, `sending`,
`lookup` (`reconcileAmbiguousSubmission`), `waiting` (`waitForTransaction`). When a submission settles, `SettleOk` or
`SettleFailed` advances, refreshes or fails every call that awaits it. A caller may also execute the plan it holds once
more after a call returned, since `executeRestoreBatches` takes a plan and keeps nothing of those it has completed.
`Fixed` are the batches whose stored XDR cannot be rebuilt: `rebuildRestoreBatches` catches that ("retrying with
original XDR") and leaves their transaction as it was. Three variables are history: `doubtful`, batches whose answer
was missed; `repeated`, batches executed again after a call had returned them as restored; `replayed`, that some plan
was executed again. `Crash` loses all of the client's state; the receipt survives.

**`ParallelRestore`** extends `RestoreLedger` with one call of the SDK's concurrent flow: `task` is each `runBatch`,
`active` and `queueHead` are the semaphore.

**`CoreRestore`** is the exported client: a plan (sequential, grouped by contract, or the first batch alone), the
sequential, pooled and single-transaction flows with and without the original, the confirmation policy, the timeout of
a method, the abort signal, and `retryFailedRestore`. `pc` is where the call stands, `stage` each submission: `queued`
for a slot, at the `identity` check, `signing`, `sending`, `polling` and so on. The class calls `describeBatchFailure`,
`verifyRestorationConfirmed` and `assertSignerMatchesSource`, which no file defines; `config.supplied` says whether the
object has them, and without them each call throws where it stands. `Fixed` is as in `RestoreBatches`, and `Rebuilt` is
the rebuild with its catch path. **`RestorePlan`** has the classification, sorting and packing of keys, as pure
functions; `archived` runs through all sequences of up to `MaxKeys` keys.

### Reading

**`ClientReads`** is `simulate`: a look at the cache, then the retry loop of `simulateTransaction`, whose delay and
permission come from the breaker that all loops of the client share, then a read of the entry, then the store. A call
that finds a read of its entry under way joins it. The server's read and the answer's arrival are separate steps, so an
answer can be overtaken by a change of the ledger; `asked` and `arrived` are the ticks of the request that was
answered. The breaker hears of every failed attempt except the last of a loop, for which `shouldRetry` is not called
(line 508 of the SDK client). The server is the mock server's ledger (`MockRpc`), on which keys expire and are restored; a request may
fail at any time.

**`LedgerReads`** models a request by the keys it reads and the version it was served; `Serve` is the RPC server
reading the ledger, which is not the moment the answer arrives (`SettleRead`). A call keeps the values that have
arrived to itself (`result`) until the last of its requests has settled, as `Promise.all` does; `reported` is history,
the version of each entry that a request settled with last. `MonotonicReads` promises a register for each entry, which
only moves forward: a call is given, for each of its entries, what the register held at some moment of the call. It may
thus be given an older version than a call that ended before it.

**`RpcFailover`** has the manager's fields one for one; `Answer` and `Report` are separate, since an application
reports an outcome after an await. **`RpcTransport`** models callers that call for ever, each `withRetry(() =>
transport.request())`, under one limiter; a timer never fires early and may fire late. `Slots` is the limiter's
promise: at most `Limit` run, the others wait in order. **`RpcAccess`** gathers failover, transport and ledger reads,
which share no state: a behaviour chooses one of them (`layer`).

### Wallets

**`WalletManager`**, checked as a part of `FrontEnd`, has the manager's `active` and its relays, and one record per
call of the application: where it stands inside the adapter, whether its timer has fired, whether the clean-up of a
timed-out connect is under way. A connect that timed out goes on inside its adapter. The adapters' modules keep what
the adapter keeps: Freighter's session and handlers, Rabet's iframe and message handlers, the Ledger device's
transports. xBull, LOBSTR and Albedo keep a key and are part of the manager's module; the run registers two of the
three.

### Page parts and client parts

**`FrontEnd`** and **`ClientParts`** gather small state machines that share no state. A behaviour chooses one of them
(`part`, `topic`) and leaves the others in their initial state, so a run checks each of them in full, and the number of
states is the sum and not the product. The modules they extend say what each variable and action is in the code. Two of
them are about awaits that are easy to overlook. In `HookCache` a callback belongs to a render, and an older one may
still be called: it makes the client that all renders share out of the configuration it closed over. In `MockPipeline`
a request awaits twice, also when the network is healthy: before its handler runs, and before its answer is recorded. A
control of the test may come at either place, and the condition that is recorded is looked up anew after both.
**`Sifting`** has what the loops of the code do to arrays and maps, for the modules that need it: a filter (`Kept`), a
map (`Mapped`), a loop with an accumulator (`Loop`), a set in order of insertion (`Firsts`) and a map from values to
the entries that have them (`GroupedBy`). They are functions by recursion over positions, not operators that take
operators, so that proofs can be made about them.

Each run uses the specification's module itself, with the values of its constants in the cfg; only `ClientReads` has
an MC module, which defines the symmetry of calls.

## Runs

| Run | Instance | States | What it shows |
| --- | --- | --- | --- |
| `restore_recovery` | 2 batches, 1 caller, 1 retry, 2 calls, 1 crash, 3 sequence numbers | 670,094 | a retry covers the plan; a batch is paid for twice only after an answer was missed or a plan was repeated; no two live transactions of a batch; calls return |
| `restore_concurrent` | 2 batches of which the second cannot be rebuilt, 2 callers, 1 retry, 2 calls, 2 numbers | 786,205 | plan order when calls overlap |
| `parallel_restore` | 3 batches, 2 slots, 1 retry, 4 numbers, faults | 198,689 | the result is complete and true; the call returns |
| `core_restore` | 2 batches of which the second cannot be rebuilt, 3 numbers, 1 retry, 1 poll, 2 calls, plans of 3 keys of 2 contracts and 2 lengths | 999,848 | plans lose nothing; reported success is true; a retry covers the plan; nothing runs after a return; an abort reaches the wallet; calls return |
| `client_reads` | 2 calls at once, 3 in all, cache of 1, 2 retries, threshold 2, ledger up to 2 | 1,732,880 | an answer arrived within the time to live and was true while its request was under way; the breaker opens and probes as configured |
| `rpc_access` | 2 endpoints, 1 call, 2 rounds, thresholds 2; 3 callers, 1 slot, 1 retry, deadline 2, delays 0 and 2; 2 askers, 2 keys, 2 requests | 411,744 | choice of endpoint; recovery; refinement of `Slots`; calls end; refinement of `MonotonicReads`; settlement |
| `front_end` | each part with 2 or 3 actors; 5 wallets, 2 calls of the manager at once, 3 in all, 1 event | 614,512 | ten properties: one for each part in the page, three for the wallet manager |
| `client_parts` | each part with 2 or 3 actors or inputs of up to 4 keys | 584,676 | nine properties, one for each part |
| `unknown_batch` | 2 batches, 1 call, no retry, no crash | | a violation, see "Findings" |
| `repeated_plan` | 1 batch, 2 calls, no retry, no crash | | a violation |
| `stale_client` | as `front_end` | | a violation |
| `shared_instance` | as `client_parts` | | a violation |

`front_end` shows: an outcome is shown for the call it belongs to (composables); no last report is lost to throttling
(`useProgress`); the three stores agree (event bus); calls use a client of the current configuration (React hook);
requests name the account of their session (WalletConnect); nothing is sent against a decision (telemetry); a connect
that no other crosses returns (wallet context); only the active wallet is relayed, late answers revive nothing and
calls with a timer return (wallet manager). `client_parts` shows: both parsers agree on a key; batches (with limits of
1, 2 and 3 keys) fit, lose nothing and keep contracts together; the reported keys make authorization entries valid;
cached footprints are current; the readers of an answer agree; checks of methods are fresh; nodes are understood by the
schemas of the negotiated version; recordings are faithful; instances follow bindings.

Why these bounds are enough: two batches have a first, a last, a predecessor and a successor, and let a plan fail at
its start and in its middle; two calls are an execution and its recovery, or two that overlap; three sequence numbers
let both batches land with one number lost to a failure or to somebody else; one retry is a resend after a lost
answer, one poll a wait that gives up. The parallel flow needs a third batch so that one waits for a slot, and the
transport a third caller so that one can be overtaken. Three keys of two lengths fill a batch, exceed it, and leave
room. A cache of one entry is full at once; a threshold of two differs from the first failure. Two connects overlap
and a third finds what they left. Every bound is a `CONSTANT` whose name begins with `Max`, and is a guard of the
action it limits. Larger instances were also checked without errors: the safety of `restore_recovery` with a third call
(9,658,878 states), `parallel_restore` with a fourth batch (1,354,813 states), and, each on its own before it joined a
run with others, failover with three endpoints, the transport with two slots and two retries, and the wallet manager
with two transports.

No run checks deadlock: the modelled world is finite (bounded calls, writes and sequence numbers) and so may really
stop. The liveness properties say instead that what has begun ends; the callers of `RpcTransport` call for ever, and
`CallsEnd` covers them.

### Conditions that properties carry

Some promises hold only for an application that keeps to a rule; the condition is part of the property, and the
instance also contains behaviours that break the rule. `RelaysFollowActive` asks for one call of the manager at a time
(`overlapped`), `OutcomeIsShown` for one call of a composable at a time, `LoneConnectReturns` for a connect that no
other crosses, `RequestsNameTheirSession` for sessions that hold a Stellar account, `NoWorkAfterReturn` for an object
that has the three methods. `HookIsOfItsConfig` holds until a call made by an older render is under way (`outdated`),
and again from the next change that finds no call under way. `DoubleOnlyAfterDoubt` is about one call at a time and
excuses the batches in doubt and those the application had executed again; `NoSecondLiveTransaction` moreover asks for
no crash and no plan executed again. `RecordingIsFaithful` asks for the condition of a recorded answer only where no
condition changed while its request was under way. `BreakerHolds` counts the failures of attempts that were not the
last of their loop. What happens otherwise is under "Findings" or "Observed while reading".

### Fairness

Fair are only the steps that the code or its runtime owes. A submission in progress moves on: the wallet answers,
requests return or time out, polling stops after its last attempt, the WebSocket wait has a timeout. A refresh, a
verification, an identity check or an original transaction ends likewise. A coalesced read settles, whether the server
has answered it or not. The health-check interval fires and a check ends; calls are answered and reported. The clock
runs, timers fire and `fetch` settles (the transport has no timeout of its own, so a `fetch` that never settles does
hold a slot for ever). In `WalletManager` and `FrontEnd` only timers are fair: wallets and users owe no answer, and the
liveness properties hold without one. Ledgers owe nothing either: no transaction has to be included. Nor do
applications.

## Findings

Four runs check a sentence of the repository against the code and find it violated. Paths are under `src/packages`
unless they are in the root of the repository; RES stands for `sdk/src/soroban-resurrect.ts`.

* `unknown_batch`. The SDK client says that an ambiguous batch stops the flow, even when partial success is allowed
  (RES:1771). `isAmbiguousSubmissionError` (`sdk/src/types.ts:435`) accepts only `NETWORK_ERROR` with a hash; with
  `requireAllBatches: false` a batch that is still pending, after `SUBMISSION_AMBIGUOUS` or a WebSocket failure, does
  not stop the original.
* `repeated_plan`. `RESTORE_BATCHING.md:232` promises that an identical request after a completed one is a no-op (the
  table at line 240: "no new transaction"). Nothing is kept of a completed plan: a caller who executes it again is
  answered `txBadSeq`, the refresh (RES:1027) gives every batch a new number, and each is paid for again, with no
  outcome ever in doubt.
* `stale_client`. The React hook says that a change of the configuration needs "a fresh client instance"
  (`react/src/useSorobanResurrect.ts:257`). The render only empties the reference; `getClient` of an older render, called
  afterwards, fills it with a client of the old configuration (line 250), which the current render then uses.
* `shared_instance`. The container says that a binding resolved in the child is cached in the child and not shared with
  the parent (`sdk/src/container.ts:246`). `resolve` (line 189) delegates an inherited key, and the instance is cached
  where the key is bound.

## Proofs

Every theorem holds for all values of the constants that satisfy the module's named assumptions (positive sizes,
finite sets of callers, thresholds and bounds that are natural numbers). The invariants were checked by TLC on small
constants before they were proved.

**`RestoreBatches_proofs`.** Truth of the results alone is not inductive, and neither is the coverage of a retry: a
failed call says something about the whole plan only because the part it did not execute was known to be restored.
`QueueInv` says that the results of a running call are a prefix of successes before a suffix that is pending,
`FailureInv` and `ResultInv` that what a failure state and a finished call leave out is in a ledger, `OriginalInv` that
a call at the original with `requireAllBatches` has succeeded, and `PrefixInv` that a transaction is submitted, waits
and lands only after the batches before its own are restored. From it follow `SuccessIsLanded`, `RetryCoversPlan`,
`SuccessMeansRestored`, `OriginalNeedsAllBatches` and `LandedInOrder`, with any number of overlapping callers, retries
and crashes.

`DoubleOnlyAfterDoubt` and `NoSecondLiveTransaction` are about calls that follow one another, so their theorems assume
a single caller. `SoloInv` follows the life of each transaction of a batch: what the network may still include is what
the call last built, or its batch is in doubt or was executed again (`Excused`); sequence numbers only grow; what has
landed counts as restored wherever the next call starts from (`KnownInv`); and what the call takes for lost really has
left the network, as long as nothing started from older numbers (`LiveInv`). `KnownBetweenCalls` is what makes an
executed-again plan harmless to the rest: between calls, what is in a ledger is excused or known. `SoloInvariance`
proves it of every step, crashes, repeated plans and batches that cannot be rebuilt included.

**`CoreRestore_proofs`.** The invariant says, for each point of a call, which tasks may still run and which batches are
then restored: a sequential call has one task and everything before it is restored (`OneByOne`), a pool has a task for
every batch (`SideBySide`), after the last batch no task of the restore is left (`Afterwards`), outside a call nothing
runs but what an early rejection left behind (`Quiet`), and the failure state leaves out only what is restored
(`LeftOut`). "Restored" means in a ledger where the configuration awaits confirmation, and accepted otherwise. From it
follow `SuccessMeansRestored`, `OriginalNeedsAllBatches`, `RetryCoversPlan` and `NoWorkAfterReturn`.
`AbortStopsPrompts` is a property of single steps: every step that leads to a prompt or to a send from one looks at the
signal.

`PlansHoldTheKeys` is about what the pure functions of `RestorePlan` return, for key lists of every length. Its core is
an invariant of the packing loop (`PackingInv`): after any prefix of the keys, the finished batches and the one that is
being filled, joined, are that prefix; each is within the limits; the recorded size is that of the open batch. The
stable sort keeps the occurrences of every key and the order of priorities (`SharesHold`, `SortedConcat`), and the
groups of a grouping, joined, hold the same keys, one contract each.

**`ParallelRestore_proofs`.** The invariant locates the waiting tasks (exactly those from `NextWaiter` on), says that
`active` counts the running tasks and is at the limit while any waits, and ties `restored` and `failedIndices` to the
tasks. From it follow `SlotsAreKept`, `ResultIsComplete` and `OriginalNeedsAllBatches`.

**`Reads_proofs`** (`LedgerReads` and `ClientReads`). Besides `OneReadPerKey` and `WaitsAreLive`, refinement needs to
know what a request in flight can still deliver: `ReportedInv` says that the register of each of its keys has not
passed what the ledger held when it was issued, which is true because no other request reads them meanwhile.
`LackersWait` ties what a call still lacks to the requests it waits for. Every step then asks, reports, rejects or
stutters (`AskRefines`, `ReportRefines`, `FailRefines`), and `Monotonic` is the refinement. The breaker counts no more
failures than were reported to it since the last success of any loop, and the one retry that an open circuit granted
has left its flag behind (`BreakerInv`); `BreakerHolds` follows. For `AnswersAreRecent`, `AgeInv` says that what the
server has read, what the cache holds and what a call is given was true of the ledger at a moment while its request was
under way, that the time to live of an entry is counted from its arrival (`Recent`), so that a use moves an entry in
the order but not in time, and that the cache keeps its bound. Such a moment is kept when the ledger moves on
(`HistoryGrows`).

**`Rpc_proofs`** (`RpcTransport` and `RpcFailover`). The counter of the limiter does not suffice for refinement:
`QueueHoldsQueued` says that the queue contains the queued callers and each once, so that the slot that is handed on
goes to one that waits. With `CountsRunning` every step is a step of `Slots` or a stutter. `CountersMatchHealth` is
inductive; `ServesHealthy` and `StaysSticky` are properties of single steps that follow from the choice
`getCurrentUrl` makes.

**`FrontEnd_proofs`** (`WalletManager` and the parts of `FrontEnd`). * `RelaysFollowActive` needs to know who is at
work: `CallsMakeSense` relates the phases of a call, and `Serial` says   that without overlap one call at most is busy,
that a connect finds everything detached, and that the relays are the   active wallet's or none.
`LateAnswersAreIgnored` is a property of single steps over the types. * `OutcomeIsShown` needs that without mixed uses
one use at most is under way (`ComposableInv`); `LastReportIsShown`   that a report waits exactly while a timer is set,
and that no timer is due later than a throttle after the last commit   (`ProgressInv`). * `HookIsOfItsConfig` needs
that, unless a call of an older render was under way since the last change (`outdated`),   every check under way is of
the current configuration and so is the client it uses (`HookInv`). For `RequestsNameTheirSession`, session and account
come and   go together unless a session without an account was approved (`SessionInv`). For `OnlyWithConsent`, what is
stored is   the last decision the storage took, and an instance's consent rests on what it was told or on what it
loaded   (`ConsentInv`). * `StoresAgree`: first, the reducers of the middleware, of Redux and of Jotai are shown to be
one function   (`ReducersAgree`). Between two events the agreement is not an invariant: while an emit is under way, the
stores it has   reached show the reduced slice and the others the one before (`Coherent`), and an emit that another one
interrupted   must have reached every store already (`Reconciled`). `StoresInv` says so for the whole stack of emits,
with stores   and the application joining, leaving, emitting and throwing in between.

**`ClientParts_proofs`**. The parts share no state, so a step of one keeps the invariants of the others (`PartStep`). *
`ParsersAgree`: both classifiers give the right answer on every key (`TypeScriptIsRight`, `RustIsRight`), and
`ParserInv` keeps one verdict of the loader. `ReadersAgree` and `NodesAreUnderstood` are case analyses over
everything that can be received, and over a node that is only ever upgraded (`VersionInv`). * `BatchesFit` needs loop
invariants over prefixes, as in `CoreRestore_proofs`. For the client (`FillingInv`): finished and   open batch, joined,
are the keys so far; every finished batch keeps the three limits; `size` is the size of the open   one, short by at
most the overhead of its first key. For the utils (`PackInv`), over groups: the same without sizes, and   each group
that fits into a batch lies in one place. The slices of a group that is too large are consecutive, none of   them empty
or longer than the limit (`SlicesHold`, where the arithmetic of the division is). Groups share no key
(`GroupsSorted`), so a contract that fits is in one batch, and one that does not is cut where its keys are already in
the order of their priorities (`UtilsPlanFits`). * `AuthKeysSuffice`: the two recursions over a tree of invocations,
the walk of the code and the set of contracts a tree   calls, are unfolded level by level (`WalkUnfolds`,
`CallsUnfold`) and find the same contracts (`WalkFindsCalls`). What   the scan and the removal of repetitions keep
follows from the lemmas about filters and first occurrences. Trees have at   most three levels, in the model as in the
theorem; lists of entries and sets of contracts are of any size. * `FootprintsAreCurrent`: `FootprintInv` says that
every entry was parsed after each close that was emitted, and if it   carries a sequence after each that was reported,
and that the deduplicator knows only what was emitted. * `ChecksAreFresh`: `ProbesInv` says that the check the map
holds for an endpoint is of that endpoint and has not failed,   so that no call joins a failed one, that a passed check
has found every method (`Honest`), and that a build waits for   a running check and was built on a passed one
(`BuildOk`). * `RecordingIsFaithful`: `PipelineInv` says that the condition that was applied to a request is still in
force as long as   no condition changed (`UnderWay`), so that the second look-up finds it again; that what is recorded
is what was given,   one for one (`Alike`); and that the recorder and the test agree on whether a recording is under
way. * `InstancesFollowBindings`: `ContainerInv` says that an instance is of the binding that stands beside it, and
that the   fallback's instance stands only where nothing is bound (`Slot`). `Lineage`, a function by recursion, is
shown to exist and to be the walk through the parents   (`AncestorsUnfold`, `LineageUnfolds`), so that the nearest
binding is well defined.

**`Sifting_proofs`.** The lemmas the others rest on. A set of naturals has a least element; what holds at 0 and is kept
by each step up to n holds at n (from the well-foundedness of `<` in the library); what holds of the empty sequence and
survives an `Append` holds of every sequence (`SequenceInduction`, with the property as a set, since a theorem with an
operator for a parameter cannot be used); a function by recursion over 0..n exists. On these rest: what a filter keeps
(`KeptMembers`, `KeptFlatten`, `KeptDivided`), what a map (`MappedHolds`) and a loop return, what joining does to
occurrences, lengths and order (`FlattenHas`, `FlattenSorted`, `FlattenFlatten`), that the sort by rank is stable and
keeps the length (`RankedSorts`, `RankedLength`), that first occurrences are distinct and complete
(`FirstsAreDistinct`), and that grouping divides a sequence (`GroupsHold`).

Only model-checked, and why:
* The liveness properties (`CallsReturn`, `CallReturns`, `CallsSettle`, `RecoversWhenUp`, `CallsEnd`,
  `LoneConnectReturns`): the provers reason neither about fairness nor about `ENABLED`.
* That the sequences a run enumerates are those a client can meet, and that the models' constants are large enough to
  reach every branch: a matter of the runs and of the mutants, not of a theorem.

Every safety invariant and every action property that a passing run checks is thus also a theorem.

## Observed while reading

These are differences between code and documentation, or surprises, that the models reproduce or that stand beside
them. No run asserts one of them.

**SDK client.** The file does not parse at this commit (leftovers of a merge around lines 633 and 2523).
`buildRestoreTransaction` calls the asynchronous `batchKeys` without awaiting it and so always throws;
`this.telemetry.trace` is called but never assigned, and is modelled as passing its argument through. A `txBadSeq` "did
not land" (`sdk/src/types.ts:439`), but a resend after a lost answer is answered `txBadSeq` because the first send
landed. `partialEntriesRestored` counts only the last call's entries (`types.ts:354`). `getFailedKeys()` is null after
a refresh that failed, although batches landed (RES:2274). Parallel batches are called safe "because they touch
disjoint ledger keys" (RES:1085), but share one account with consecutive numbers, and one that is ahead of its
predecessor is rejected. After `resumeRestoreBatches`, `failedAtBatchIndex` indexes the pending queue and not the plan.
`executeRestoreThenOriginalBatches` passes no `sourceAccountID`, so the documented retry asks `getAccount('')` when it
refreshes. `invalidateSimulationCache` builds a key with the network passphrase, `simulate` one without it, so
invalidation misses. A WebSocket that errs throws, and polling is not used as the fallback.

**Core client.** Three methods are called that no file defines. `Promise.all` rejects early although the comment at
`core/src/soroban-resurrect.ts:628` says the flow never short-circuits. `buildRestoreTransaction` builds only the first
batch. `buildRestoreTransactionBatchesConcurrent` skips the check of the methods. Retries of a send ignore the abort
signal. A listener of `original:complete` that throws turns a transaction that landed into a failure. A failed probe of
an endpoint is forgotten, whatever the failure, where the comment at 1988 says so only of the transport's; a passed one
is kept for ever.

**Reading.** A call that joins a request the server has already answered gets an older version, although callers
"always observe fresh ledger state" (`sdk/src/ledger-read-coalescer.ts:27`). After the sleep a retry queues for a slot
and its `fetch` can start after the deadline, although `docs/json_rpc_transport.md:90` says the deadline bounds the
total time. A half-open breaker whose probe fails keeps the probe flag until some call succeeds; if the probe was the
last attempt of its loop the breaker does not even hear of the failure. A simulation in flight may re-populate the
cache after `invalidateAll`; its hash has 31 bits. The errors of `core` and `rpc` are constructed with three arguments
where the class takes two, so `isRetryable` is false. `recordFailure` for an endpoint that is not current still moves
the index. `onLedgerClose(sequence)` drops nothing that `extractFootprintCached` stored, which has no sequence. The
negotiator takes the number of a build for a protocol, and a failed call for protocol 20, which throws on a network
that requires 21; the client does not use it. A container keeps an instance that a child made of an unbound class when
the parent binds the class later.

**Parsers and batches.** The Rust parser writes snake_case names and the TypeScript parser camelCase, and they differ
in the priority of TTL entries. Text that is no key is an unknown entry in a Rust batch and rejects a TypeScript batch.
TTL keys fall into the group without a contract. The fee estimate does not depend on the batch, so a budget below it
gives one key per batch.

**Wallets.** Overlapping connects leave the relays of both wallets; a failed connect leaves the wallet active but
detached; a disconnect that ends after another connect clears that one's wallet; the clean-up of a timed-out connect
resets an adapter that a later connect uses. Freighter registers its handlers at every connect; a Rabet answer removes
the handler of another request; two Ledger calls open two transports, of which one leaks; xBull's second version always
throws. In the wallet context all connects share one timer reference, a connect that timed out still activates its
wallet on a late answer although `react/src/wallet/types.ts:35` promises an abort, and `switchWallet` keeps the old
wallet active when the new one fails. A WalletConnect handler of an earlier connect approves later proposals, and a
disconnect that ends late forgets a newer session.

**Pages.** `needsRestore` stays true after success; `executeWithRestore` of the composables without archived keys only
signs and reports success. A listener that emits or throws lets the stores differ until the next reset. A revocation of
telemetry that storage does not take is undone by the next page load.

**Mock server.** The condition written into a recording is looked up two awaits after the one that was applied, also
for healthy requests, so a change in between is recorded for a request it never reached; replay matches the number of
parameters only; `loadFixture` leaves the recorder recording.

## Not modelled, and why

* Decoding of XDR, fees, hashes and error wording: a key, a transaction and a message are values that the properties
  can tell apart. Fee estimation and sponsorship are arithmetic without control state.
* In the SDK client: `executeRestoreThenOriginal` and the synchronous `buildRestoreTransaction` (they fail at their
  first call, see above; the single-transaction flow is modelled in `CoreRestore`), `simulateDiff` (it always throws),
  `initializeObservables` (never called), metrics and diagnostics. In the core client: diagnostics, metrics and caches,
  which decide nothing, and answers that arrive after a request timed out.
* The older adapters in `sdk/src` for Freighter, xBull, LOBSTR and Ledger forward single calls; the ones with sessions
  and events are in `wallet-adapters`.
* `executeWithRestore` of the React hook: the file ends in the middle of it, as `footprint-parser/src/index.ts` ends in
  the middle of a function.
* Next and React Native helpers, sdk telemetry, tracing, logging and monitoring, `pollWithRetry` (used by no client),
  error classes and deprecated names: no control state, or none that the clients use.
* `detectExpiredSignersInAuthEntries`, which throws when a prefix of a credential's hash occurs in the text of an
  archived key and keeps no state.
* The HTTP server of the mock and the wording of its answers; the example application, which renders scripted scenes.

## What could follow

Trees of invocations of any depth in `AuthEntries`; the failover manager composed with the transport, so that retries
switch endpoints; the wallet manager composed with a restore that asks it for signatures.
