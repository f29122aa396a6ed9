---------------------------- MODULE CoreRestore -----------------------------
(***************************************************************************)
(* The restore client that applications get from the sdk package's index   *)
(* and from compat: SorobanResurrect of packages/core/src/soroban-         *)
(* resurrect.ts.  A plan is built from the archived keys, its batches are  *)
(* submitted in sequence or side by side, the original transaction         *)
(* follows, and retryFailedRestore picks up what failed.                   *)
(*                                                                         *)
(* The class calls three methods that no source file defines:              *)
(* describeBatchFailure, verifyRestorationConfirmed and                    *)
(* assertSignerMatchesSource.  config.supplied says whether the object has *)
(* them from elsewhere, as the package's tests expect; without them each   *)
(* call of one throws a TypeError at the place where it stands.            *)
(*                                                                         *)
(* One call of the application at a time.  Task b in 1..N is the           *)
(* submission of batch b and task 0 that of the original transaction,      *)
(* which is another account's.                                             *)
(***************************************************************************)
EXTENDS RestoreLedger, RestorePlan

CONSTANTS
  Fixed,        \* batches whose XDR retryFailedRestore cannot rebuild
  MaxRetries,   \* retryPolicy.maxRetries
  MaxPolls,     \* maxPollAttempts
  MaxKeys,      \* bound: archived keys of a transaction
  MaxCalls      \* bound: calls of the application

ASSUME CoreAssumption ==
  /\ MaxRetries \in Nat /\ MaxPolls \in Nat \ {0}
  /\ MaxKeys \in Nat /\ MaxCalls \in Nat

VARIABLES
  config,      \* settings that the constructor fixes
  aborted,     \* config.signal.aborted
  identity,    \* networkIdentityCheck
  archived,    \* archivedKeys of the simulation, until a plan is built
  plan,        \* the built batches: their kind, number and sequence numbers
  mode, pc, src, first, seqs,          \* the running call
  stage, attempts,                     \* its submissions
  result,      \* what the last call returned
  lastFailed,  \* _lastFailedRestoreState; from = 0 is null
  calls

callVars == <<mode, pc, src, first, seqs>>
taskVars == <<stage, attempts>>
vars == <<ledgerVars, config, aborted, identity, archived, plan, callVars,
          taskVars, result, lastFailed, calls>>

Tasks  == 0..N
Modes  == {"single", "batches", "batchesOriginal", "retry",
           "parallel", "parallelAll", "parallelAny"}
Points == {"idle", "rebuild", "restore", "verify", "original", "returned"}
Stages == {"off", "queued", "identity", "refused", "signing", "sending",
           "probing", "socket", "polling", "asking", "success", "failed"}
Settled == {"off", "success", "failed"}
SeqMap  == [Batches -> SeqNos]

Config  == [confirms : BOOLEAN, supplied : BOOLEAN]
Results == [status : {"none", "success", "failed", "threw", "simulated"},
            confirmed : BOOLEAN]

NoResult  == [status |-> "none", confirmed |-> FALSE]
Threw     == [status |-> "threw", confirmed |-> FALSE]
Failed    == [status |-> "failed", confirmed |-> FALSE]
Simulated == [status |-> "simulated", confirmed |-> FALSE]
NoFailure == [from |-> 0, src |-> FALSE]

TypeOK ==
  /\ LedgerTypeOK
  /\ config \in Config
  /\ aborted \in BOOLEAN
  /\ identity \in {"none", "checking", "ok"}
  /\ archived \in Seq(Keys)
  /\ plan \in [kind : {"none", "first", "sequential", "grouped"},
               size : 0..N, seqs : SeqMap]
  /\ mode \in Modes /\ pc \in Points
  /\ src \in BOOLEAN
  /\ first \in Batches
  /\ seqs \in SeqMap
  /\ stage \in [Tasks -> Stages]
  /\ attempts \in [Tasks -> 0..(MaxRetries + MaxPolls + 1)]
  /\ result \in Results
  /\ lastFailed \in [from : 0..N, src : BOOLEAN]
  /\ calls \in 0..MaxCalls

-----------------------------------------------------------------------------
(* Simulation and planning.                                                *)

\* simulate and detectArchivedKeys: the keys of the footprint, in its order,
\* that getLedgerEntries does not return.
Simulate ==
  /\ plan.kind = "none" /\ archived = <<>>
  /\ \E n \in 1..MaxKeys : archived' \in [1..n -> Keys]
  /\ UNCHANGED <<ledgerVars, config, aborted, identity, plan, callVars,
                 taskVars, result, lastFailed, calls>>

\* checkAndPrepare goes on to build only then, and the build methods throw
\* without a key.
NeedsRestoration == archived # <<>>

\* How many batches are built.  buildRestoreTransaction builds only batches[0].
PlanSize(kind) ==
  CASE kind = "first"      -> 1
    [] kind = "sequential" -> Len(SequentialPlan(archived))
    [] kind = "grouped"    -> Len(GroupedPlan(archived))

\* One getAccount, then consecutive sequence numbers from batch `from' on.
NumbersFrom(from) ==
  [b \in Batches |-> IF b < from THEN seqs[b] ELSE acctSeq + 1 + b - from]

\* The loop over the batches: the transaction of batch b restores the b-th
\* share of the keys under the b-th number.
Built(kind) ==
  [kind |-> kind, size |-> PlanSize(kind), seqs |-> NumbersFrom(1)]

\* buildRestoreTransaction, buildRestoreTransactionBatches,
\* buildRestoreTransactionBatchesConcurrent.  Plans of more than N batches are
\* left out.
Build(kind) ==
  /\ plan.kind = "none" /\ NeedsRestoration
  /\ PlanSize(kind) \in Batches
  /\ plan' = Built(kind)
  /\ archived' = <<>>
  /\ UNCHANGED <<ledgerVars, config, aborted, identity, callVars, taskVars,
                 result, lastFailed, calls>>

-----------------------------------------------------------------------------
(* Helpers of the running call.                                            *)

Sequential == mode \in {"single", "batches", "batchesOriginal", "retry"}
Running(st) == \E b \in Tasks : st[b] \notin Settled
LastBatch   == IF mode = "single" THEN 1 ELSE plan.size
PlanBatches == 1..plan.size

\* A task enters submitSignedTransaction and with it the identity check.
Enter(st, T) == [b \in Tasks |-> IF b \in T THEN "identity" ELSE st[b]]

\* ensureNetworkIdentityMatches: the first to need the check starts it.
Checking(st) ==
  IF identity = "none" /\ \E b \in Tasks : st[b] = "identity"
  THEN "checking" ELSE identity

\* Mutant: a task that ends keeps its slot.
KeepSlot(st) == stage' = st

\* release(): the slot goes to the batch that has queued longest, which is
\* the one with the lowest index.
Release(st) ==
  LET waiting == {b \in Batches : st[b] = "queued"}
  IN \/ waiting = {} /\ stage' = st
     \/ \E b \in waiting :
          /\ \A c \in waiting : b <= c
          /\ stage' = Enter(st, {b})

\* What the result says: restoreConfirmed of ExecutionResult.
ConfirmedFlag(all) == all /\ config.confirms

Success(confirmed) == [status |-> "success", confirmed |-> confirmed]

\* Mutant: the failed batch itself is left out (batches.slice(i + 1) alone).
FromNext(b) == [from |-> b + 1, src |-> src]

\* _lastFailedRestoreState: the failed batch and those after it.
FailureFrom(b) == [from |-> b, src |-> src]

Return(value) == pc' = "returned" /\ result' = value

-----------------------------------------------------------------------------
(* Settlement of a batch of a sequential call (executeRestoreBatches,      *)
(* executeRestoreThenOriginal) and what follows it up to the next await.   *)

AfterBatch(b) ==
  LET st == [stage EXCEPT ![b] = "success"]
  IN IF b < LastBatch
     THEN /\ stage' = Enter(st, {b + 1})
          /\ UNCHANGED <<pc, result, lastFailed>>
     ELSE \/ /\ mode = "single"
             /\ stage' = Enter(st, {0})
             /\ pc' = "original"
             /\ UNCHANGED <<result, lastFailed>>
          \/ /\ mode = "batchesOriginal"
             /\ stage' = st
             /\ pc' = "verify"
             /\ lastFailed' = NoFailure
             /\ UNCHANGED result
          \/ /\ mode \in {"batches", "retry"}
             /\ stage' = st
             /\ lastFailed' = NoFailure
             /\ Return(Success(mode = "retry" /\ ConfirmedFlag(TRUE)))

\* The catch block reports the batch with describeBatchFailure; without it the
\* TypeError takes the place of the result, and nothing is recorded.
BatchFails(b) ==
  /\ stage' = [stage EXCEPT ![b] = "failed"]
  /\ \/ /\ mode = "single" \/ ~config.supplied
        /\ Return(Threw)
        /\ UNCHANGED lastFailed
     \/ /\ mode # "single" /\ config.supplied
        /\ lastFailed' = FailureFrom(b)
        /\ Return(IF mode = "batchesOriginal" THEN Threw ELSE Failed)

-----------------------------------------------------------------------------
(* Settlement of a batch of executeRestoreBatchesConcurrent.               *)

Failures(st) == {b \in Batches : st[b] = "failed"}

\* The result of executeRestoreBatchesConcurrent.
PoolResult(st) == IF Failures(st) = {} THEN Success(FALSE) ELSE Failed

\* Promise.all has resolved.
AllSettled(st) ==
  IF mode = "parallel" THEN Return(PoolResult(st))
  ELSE IF mode = "parallelAll" /\ Failures(st) # {}
  THEN Return(Threw)
  ELSE pc' = "verify" /\ UNCHANGED result

\* Mutant: the call returns with the first failure.
ReturnEarly(b, outcome) ==
  /\ Release([stage EXCEPT ![b] = outcome])
  /\ \/ pc = "restore" /\ outcome = "failed" /\ Return(Failed)
     \/ /\ pc = "restore" /\ outcome # "failed"
        /\ IF Running(stage') THEN UNCHANGED <<pc, result>> ELSE AllSettled(stage')
     \/ pc # "restore" /\ UNCHANGED <<pc, result>>
  /\ UNCHANGED lastFailed

\* A task of the pool ends.  If its catch block throws, Promise.all rejects at
\* once, and the tasks that are left work on for nobody.
PoolTaskEnds(b, outcome) ==
  /\ Release([stage EXCEPT ![b] = outcome])
  /\ \/ /\ pc = "restore"
        /\ outcome = "failed" /\ ~config.supplied
        /\ Return(Threw)
     \/ /\ pc = "restore"
        /\ outcome = "failed" => config.supplied
        /\ IF Running(stage') THEN UNCHANGED <<pc, result>> ELSE AllSettled(stage')
     \/ pc # "restore" /\ UNCHANGED <<pc, result>>
  /\ UNCHANGED lastFailed

-----------------------------------------------------------------------------
\* The original transaction's submission has settled.
OriginalEnds(outcome) ==
  /\ stage' = [stage EXCEPT ![0] = outcome]
  /\ Return(IF outcome = "failed" THEN Threw
            ELSE Success(ConfirmedFlag(Failures(stage) = {})))
  /\ UNCHANGED lastFailed

Succeed(b) ==
  /\ IF b = 0 THEN OriginalEnds("success")
     ELSE IF Sequential THEN AfterBatch(b)
     ELSE PoolTaskEnds(b, "success")
  /\ identity' = Checking(stage')

Fail(b) ==
  /\ IF b = 0 THEN OriginalEnds("failed")
     ELSE IF Sequential THEN BatchFails(b)
     ELSE PoolTaskEnds(b, "failed")
  /\ identity' = Checking(stage')

\* A step inside one submission.
Move(b, to, tries) ==
  /\ stage' = [stage EXCEPT ![b] = to]
  /\ attempts' = [attempts EXCEPT ![b] = tries]
  /\ UNCHANGED <<pc, result, lastFailed, identity>>

Settles(b, ok) ==
  /\ IF ok THEN Succeed(b) ELSE Fail(b)
  /\ attempts' = [attempts EXCEPT ![b] = 0]

fixedVars == <<config, aborted, archived, plan, mode, src, first, seqs, calls>>

-----------------------------------------------------------------------------
(* submitSignedTransaction.                                                *)

\* checkNetworkIdentity answers: all who wait for it go on, or all fail and
\* the next submission asks again.
IdentityAnswer ==
  /\ identity = "checking"
  /\ \/ identity' = "ok" /\ UNCHANGED stage
     \/ /\ identity' = "none"
        /\ stage' = [b \in Tasks |-> IF stage[b] = "identity" THEN "refused"
                                     ELSE stage[b]]
  /\ UNCHANGED <<ledgerVars, pc, result, lastFailed, attempts, fixedVars>>

IdentityRefused(b) ==
  /\ stage[b] = "refused"
  /\ Settles(b, FALSE)
  /\ UNCHANGED <<ledgerVars, fixedVars>>

\* Mutant: the signal is not read again after the identity check.
PromptAlways(b) ==
  /\ stage[b] = "identity" /\ identity = "ok"
  /\ Move(b, "signing", 0)
  /\ UNCHANGED <<ledgerVars, fixedVars>>

\* The wallet is asked, unless the call has been cancelled.
Prompt(b) ==
  /\ stage[b] = "identity" /\ identity = "ok"
  /\ IF aborted THEN Settles(b, FALSE) ELSE Move(b, "signing", 0)
  /\ UNCHANGED <<ledgerVars, fixedVars>>

\* The wallet signs, or rejects; the signature is by the source, or not.
Sign(b) ==
  /\ stage[b] = "signing"
  /\ \/ ~aborted /\ config.supplied /\ Move(b, "sending", 1)
     \/ Settles(b, FALSE)
  /\ UNCHANGED <<ledgerVars, fixedVars>>

TxOf(b) == <<b, seqs[b]>>

\* What follows PENDING or DUPLICATE: restoreConfirmationPolicy "submitted"
\* makes the answer a success; else the wait begins, over a socket or not.
Accepted(b) ==
  \/ b # 0 /\ ~config.confirms /\ Settles(b, TRUE)
  \/ /\ b = 0 \/ config.confirms
     /\ IF aborted THEN Settles(b, FALSE)
        ELSE \E to \in {"probing", "polling"} : Move(b, to, 0)

SendAccepted(b) ==
  /\ stage[b] = "sending"
  /\ \/ b = 0 /\ UNCHANGED mempool
     \/ /\ b # 0 /\ Acceptable(TxOf(b))
        /\ mempool' = mempool \cup {TxOf(b)}
     \/ b # 0 /\ TxOf(b) \in applied \cup refused /\ UNCHANGED mempool
  /\ Accepted(b)
  /\ UNCHANGED <<acctSeq, applied, refused, fixedVars>>

\* ERROR, TRY_AGAIN_LATER, or retryOnFailure gave up.
SendRejected(b) ==
  /\ stage[b] = "sending"
  /\ Settles(b, FALSE)
  /\ UNCHANGED <<ledgerVars, fixedVars>>

\* withMethodTimeout, or the connection, gives up a request that the node may
\* have all the same; an answer that is later still than that is left out.
RequestLost(b) ==
  \/ UNCHANGED mempool
  \/ /\ b # 0 /\ Acceptable(TxOf(b))
     /\ mempool' = mempool \cup {TxOf(b)}

\* The request or its answer is lost and retryOnFailure sends again; it does
\* not look at the signal.  The error that core wraps has no cause (packages/
\* errors takes two arguments), so only a retryPolicy of the application's own
\* finds it retryable.
SendLost(b) ==
  /\ stage[b] = "sending"
  /\ RequestLost(b)
  /\ attempts[b] <= MaxRetries
  /\ Move(b, "sending", attempts[b] + 1)
  /\ UNCHANGED <<acctSeq, applied, refused, fixedVars>>

-----------------------------------------------------------------------------
(* waitForTransaction.                                                     *)

\* probeWebSocketSupport.
ProbeAnswers(b) ==
  /\ stage[b] = "probing"
  /\ \E to \in {"socket", "polling"} : Move(b, to, 0)
  /\ UNCHANGED <<ledgerVars, fixedVars>>

OnLedger(b) == b # 0 => TxOf(b) \in applied
RefusedTx(b) == b # 0 => TxOf(b) \in refused

\* wsWaitForTransaction: a status arrives, or the wait times out, the socket
\* fails or closes.  Only a constructor that throws leads to polling.
SocketEnds(b) ==
  /\ stage[b] = "socket"
  /\ \/ OnLedger(b) /\ Settles(b, TRUE)
     \/ Settles(b, FALSE)
     \/ Move(b, "polling", 0)
  /\ UNCHANGED <<ledgerVars, fixedVars>>

\* pollForReceipt: the next attempt, unless the budget is spent or the call
\* was cancelled.
Poll(b) ==
  /\ stage[b] = "polling"
  /\ IF aborted \/ attempts[b] >= MaxPolls THEN Settles(b, FALSE)
     ELSE Move(b, "asking", attempts[b] + 1)
  /\ UNCHANGED <<ledgerVars, fixedVars>>

\* Mutant: any status other than NOT_FOUND is taken for SUCCESS.
AnyReceipt(b) ==
  /\ stage[b] = "asking"
  /\ \/ (OnLedger(b) \/ RefusedTx(b)) /\ Settles(b, TRUE)
     \/ Settles(b, FALSE)
     \/ Move(b, "polling", attempts[b])
  /\ UNCHANGED <<ledgerVars, fixedVars>>

\* getTransaction answers or throws.
Receipt(b) ==
  /\ stage[b] = "asking"
  /\ \/ OnLedger(b) /\ Settles(b, TRUE)
     \/ Settles(b, FALSE)
     \/ Move(b, "polling", attempts[b])
  /\ UNCHANGED <<ledgerVars, fixedVars>>

-----------------------------------------------------------------------------
(* Calls of the application.                                               *)

Begin(m, s, from, numbers) ==
  /\ pc \in {"idle", "returned"} /\ ~Running(stage)
  /\ calls < MaxCalls
  /\ calls' = calls + 1
  /\ mode' = m /\ src' = s /\ first' = from /\ seqs' = numbers
  /\ attempts' = [b \in Tasks |-> 0]
  /\ UNCHANGED <<ledgerVars, config, aborted, archived, plan, lastFailed>>

AllOff == [b \in Tasks |-> "off"]

StartAt(from) ==
  /\ stage' = Enter(AllOff, {from})
  /\ identity' = Checking(stage')
  /\ pc' = "restore"
  /\ result' = NoResult

\* executeRestoreThenOriginal with simulateOnly returns without submitting;
\* the other methods do not look at the setting, so it is chosen here.
Execute(m) ==
  /\ m = "single" <=> plan.kind = "first"
  /\ plan.kind # "none"
  /\ \E s \in (IF m = "batches" THEN BOOLEAN ELSE {FALSE}) :
       Begin(m, s, 1, plan.seqs)
  /\ \/ StartAt(1)
     \/ /\ m = "single"
        /\ stage' = AllOff
        /\ Return(Simulated)
        /\ UNCHANGED identity

\* acquire(): all tasks start, and the first n = maxConcurrency get a slot.
PoolStart(n) ==
  [b \in Tasks |-> IF b \notin PlanBatches THEN "off"
                  ELSE IF b <= n THEN "identity" ELSE "queued"]

\* executeRestoreBatchesConcurrent, and executeRestoreThenOriginalBatches-
\* Concurrent, which builds the batches itself.
ExecuteParallel(m, n) ==
  /\ plan.kind \in {"sequential", "grouped"}
  /\ m # "parallel" => plan.kind = "grouped"
  /\ Begin(m, FALSE, 1, IF m = "parallel" THEN plan.seqs ELSE NumbersFrom(1))
  /\ stage' = PoolStart(n)
  /\ identity' = Checking(stage')
  /\ pc' = "restore"
  /\ result' = NoResult

\* retryFailedRestore(getFailedKeys()).
Retry ==
  /\ lastFailed.from # 0
  /\ Begin("retry", lastFailed.src, lastFailed.from, seqs)
  /\ stage' = AllOff
  /\ pc' = "rebuild"
  /\ result' = NoResult
  /\ UNCHANGED identity

\* The numbers of the rebuilt batches.  A batch that cannot be rebuilt keeps its
\* transaction ("retrying with original XDR") and uses up its number.
Rebuilt == [b \in Batches |-> IF b \in Fixed THEN seqs[b] ELSE NumbersFrom(first)[b]]

\* getAccount of the recorded source account; there is none when the failed
\* call was not given one.
Rebuild ==
  /\ pc = "rebuild"
  /\ \/ /\ src
        /\ seqs' = Rebuilt
        /\ StartAt(first)
     \/ /\ Return(Threw)
        /\ UNCHANGED <<seqs, stage, identity>>
  /\ UNCHANGED <<ledgerVars, config, aborted, archived, plan, mode, src, first,
                 attempts, lastFailed, calls>>

\* verifyRestorationConfirmed for every batch that succeeded, then on to the
\* original transaction.
Verify ==
  /\ pc = "verify"
  /\ \/ /\ \/ config.supplied
           \/ \A b \in Batches : stage[b] # "success"
        /\ stage' = Enter(stage, {0})
        /\ pc' = "original"
        /\ UNCHANGED result
     \/ /\ \E b \in Batches : stage[b] = "success"
        /\ Return(Threw)
        /\ UNCHANGED stage
  /\ identity' = Checking(stage')
  /\ UNCHANGED <<ledgerVars, attempts, lastFailed, fixedVars>>

\* The application aborts config.signal.
Abort ==
  /\ ~aborted
  /\ aborted' = TRUE
  /\ UNCHANGED <<ledgerVars, config, identity, archived, plan, callVars,
                 taskVars, result, lastFailed, calls>>

-----------------------------------------------------------------------------
Init ==
  /\ LedgerInit
  /\ config \in Config
  /\ aborted = FALSE
  /\ identity = "none"
  /\ archived = <<>>
  /\ plan = [kind |-> "none", size |-> 0, seqs |-> [b \in Batches |-> b]]
  /\ mode = "batches" /\ pc = "idle"
  /\ src = FALSE
  /\ first = 1
  /\ seqs = [b \in Batches |-> b]
  /\ stage = AllOff
  /\ attempts = [b \in Tasks |-> 0]
  /\ result = NoResult
  /\ lastFailed = NoFailure
  /\ calls = 0

Submission(b) ==
  \/ IdentityRefused(b) \/ Prompt(b) \/ Sign(b)
  \/ SendAccepted(b) \/ SendRejected(b) \/ SendLost(b)
  \/ ProbeAnswers(b) \/ SocketEnds(b) \/ Poll(b) \/ Receipt(b)

Application ==
  \/ Simulate
  \/ \E kind \in {"first", "sequential", "grouped"} : Build(kind)
  \/ \E m \in {"single", "batches", "batchesOriginal"} : Execute(m)
  \/ \E m \in {"parallel", "parallelAll", "parallelAny"}, n \in Batches :
       ExecuteParallel(m, n)
  \/ Retry
  \/ Abort

Environment ==
  /\ LedgerNext
  /\ UNCHANGED <<config, aborted, identity, archived, plan, callVars, taskVars,
                 result, lastFailed, calls>>

Next ==
  \/ Application
  \/ IdentityAnswer
  \/ \E b \in Tasks : Submission(b)
  \/ Rebuild
  \/ Verify
  \/ Environment

\* Requests, sockets and the wallet answer or time out.
Fairness ==
  /\ WF_vars(IdentityAnswer)
  /\ \A b \in Tasks : WF_vars(Submission(b))
  /\ WF_vars(Rebuild) /\ WF_vars(Verify)

Spec     == Init /\ [][Next]_vars
FairSpec == Spec /\ Fairness
-----------------------------------------------------------------------------
(* Properties.                                                             *)

\* buildRestoreTransactionBatches and its concurrent form lose no key, repeat
\* none, keep each transaction within the size limit, restore a contract's
\* instance no later than its data, and give the concurrent executor batches
\* of one group of keys each.
PlansHoldTheKeys ==
  archived # <<>> =>
    /\ \A batches \in {SequentialPlan(archived), GroupedPlan(archived)} :
         /\ HoldsAll(batches, archived)
         /\ \A i \in DOMAIN batches : FitsTransaction(batches[i])
         /\ InstanceFirst(batches)
    /\ \A i \in DOMAIN GroupedPlan(archived) : OneGroup(GroupedPlan(archived)[i])

AllLanded == \A b \in PlanBatches : Landed(b)

\* Whoever reports the whole plan restored is right: restoreConfirmed: true
\* from any method, and success: true under restoreConfirmationPolicy
\* "confirmed", whether this call, an earlier one or a retry restored a batch.
SuccessMeansRestored ==
  /\ result.confirmed => AllLanded
  /\ result.status = "success" /\ config.confirms /\ mode # "parallelAny"
       => AllLanded

\* Unless requireAllBatches is false, the original transaction waits for every
\* batch of the plan to be restored (policy "confirmed").
OriginalNeedsAllBatches ==
  pc = "original" /\ config.confirms /\ mode # "parallelAny" => AllLanded

\* getFailedKeys() leaves out only batches that are restored, also after
\* retries that failed again and executions of another kind in between.
RetryCoversPlan ==
  config.confirms /\ lastFailed.from # 0
    => \A b \in Batches : b < lastFailed.from => Landed(b)

\* Once the signal is aborted the wallet is asked for no further signature and
\* a signature it still gives is not sent, in whatever order the identity
\* check, the wallet and the slots of the pool answer.
AbortStopsPrompts ==
  [][aborted => \A b \in Tasks :
       stage'[b] # stage[b] => stage'[b] # "signing" /\
                               ~(stage[b] = "signing" /\ stage'[b] = "sending")]_vars

\* A call that has returned leaves nothing running behind it, given the three
\* methods.
NoWorkAfterReturn ==
  config.supplied /\ pc = "returned" => ~Running(stage)

\* Every call returns, and its submissions end.
CallReturns ==
  pc \in {"rebuild", "restore", "verify", "original"}
    ~> (pc = "returned" /\ ~Running(stage))
=============================================================================
