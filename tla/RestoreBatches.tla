--------------------------- MODULE RestoreBatches ---------------------------
(***************************************************************************)
(* The sequential restore pipeline of SorobanResurrect                     *)
(* (packages/sdk/src/soroban-resurrect.ts): building a plan of restore     *)
(* batches, executing it one batch at a time, refreshing sequence numbers  *)
(* after a stale rejection, running the original transaction afterwards,   *)
(* and the two ways to recover, retryFailedRestore and receipts.           *)
(*                                                                         *)
(* Callers are concurrent calls on one client.  They share the map of      *)
(* submissions in flight and _lastFailedRestoreState.  JavaScript runs     *)
(* each stretch of code between two awaits without interruption, so every  *)
(* action below is such a stretch: what a promise's settlement makes its   *)
(* awaiting callers do is part of the settlement.                          *)
(*                                                                         *)
(* Every batch restores one unit of keys, so totalKeysRestored counts      *)
(* batches.                                                                *)
(***************************************************************************)
EXTENDS RestoreLedger

CONSTANTS
  Callers,        \* concurrent calls on the client
  Fixed,           \* batches whose XDR rebuildRestoreBatches cannot rebuild
  MaxRetries,     \* retryPolicy.maxRetries
  Recovery,       \* the recovery methods the application uses
  MaxCalls,       \* bound: calls the application makes
  MaxCrashes      \* bound: crashes of the client process

ASSUME ParameterAssumption ==
  /\ MaxRetries \in Nat /\ MaxCalls \in Nat /\ MaxCrashes \in Nat
  /\ Recovery \subseteq {"retry", "resume"}

VARIABLES
  plan,        \* the built batches: their sequence numbers, and whether the
               \* application still holds them
  stage, tries,        \* inFlightSubmissions: per transaction
  pc, mode, src, at, seqs, status, refreshed, restored, carried, result,
               \* the local state of each call
  lastFailed,  \* _lastFailedRestoreState
  receipt,     \* the receipt the application persisted
  doubtful,    \* history: batches with an answer the client missed or lost
  repeated,    \* history: batches the application had executed again after a
               \* call returned them as restored
  replayed,    \* history: whether it executed a plan again at all
  calls, crashes

clientVars == <<stage, tries, pc, mode, src, at, seqs, status, refreshed,
                restored, carried, result, lastFailed>>
boundVars  == <<repeated, replayed, calls, crashes>>
vars == <<ledgerVars, clientVars, plan, receipt, doubtful, boundVars>>

Stages  == {"none", "signing", "sending", "lookup", "waiting"}
Points  == {"idle", "await", "refresh", "original", "returned"}
Modes   == {"batches", "originalAll", "originalAny", "retry", "resume"}
Status  == {"pending", "success", "failed"}
Results == {"none", "success", "failed", "threw"}
SeqMap  == [Batches -> SeqNos]

\* _lastFailedRestoreState; from = 0 is null.
NoFailure(s) == [from |-> 0, src |-> FALSE, seqs |-> s, restored |-> 0]

TypeOK ==
  /\ LedgerTypeOK
  /\ plan \in [state : {"none", "held", "lost"}, seqs : SeqMap]
  /\ stage \in [Tx -> Stages]
  /\ tries \in [Tx -> 0..MaxRetries + 1]
  /\ pc \in [Callers -> Points]
  /\ mode \in [Callers -> Modes]
  /\ src \in [Callers -> BOOLEAN]
  /\ at \in [Callers -> Batches]
  /\ seqs \in [Callers -> SeqMap]
  /\ status \in [Callers -> [Batches -> Status]]
  /\ refreshed \in [Callers -> BOOLEAN]
  /\ restored \in [Callers -> Nat]
  /\ carried \in [Callers -> Nat]
  /\ result \in [Callers -> Results]
  /\ lastFailed \in [from : 0..N, src : BOOLEAN, seqs : SeqMap, restored : Nat]
  /\ receipt \in [saved : BOOLEAN, seqs : SeqMap, status : [Batches -> Status]]
  /\ doubtful \subseteq Batches
  /\ repeated \subseteq Batches
  /\ replayed \in BOOLEAN
  /\ calls \in 0..MaxCalls
  /\ crashes \in 0..MaxCrashes

-----------------------------------------------------------------------------
(* Helpers of the executor.                                                *)

\* The queue of executeRestoreBatches is always a suffix of the plan: what
\* precedes it was restored before the call.
QueueFrom(k) == [b \in Batches |-> IF b < k THEN "success" ELSE "pending"]

\* Mutant: the first rebuilt batch skips a sequence number.
SkipOne(old, first) ==
  [b \in Batches |-> IF b < first \/ b \in Fixed THEN old[b]
                     ELSE acctSeq + 2 + b - first]

\* rebuildRestoreBatches: batch b of a queue starting at first gets the
\* account's sequence number plus its position.  A batch that cannot be rebuilt
\* keeps its transaction ("retrying with original XDR") and uses up its number
\* all the same.
Renumber(old, first) ==
  [b \in Batches |-> IF b < first \/ b \in Fixed THEN old[b]
                     ELSE acctSeq + 1 + b - first]

\* Mutant: the retry loop does not count its attempts.
Uncounted(t) == tries[t]

\* retryLoop: the next attempt.
NextTry(t) == tries[t] + 1

TxOf(c)   == <<at[c], seqs[c][at[c]]>>
Joined(t) == {c \in Callers : pc[c] = "await" /\ TxOf(c) = t}

\* submitSignedTransaction: a call for a transaction in flight joins it, any
\* other starts one.  T is the set of transactions the step submits.
Submit(st, T) ==
  [t \in Tx |-> IF t \in T /\ st[t] = "none" THEN "signing" ELSE st[t]]

\* Mutant: the failed batch itself is left out (queue.slice(i + 1) alone).
SliceAfterFailed(c) ==
  [from |-> IF at[c] < N THEN at[c] + 1 ELSE at[c], src |-> src[c],
   seqs |-> seqs[c], restored |-> restored[c]]

\* What the failing call c leaves in _lastFailedRestoreState: the failed batch
\* and the unexecuted ones, and totalKeysRestored of this call.
FailureOf(c) ==
  [from |-> at[c], src |-> src[c], seqs |-> seqs[c], restored |-> restored[c]]

\* One refresh per call, and only when the caller passed the source account.
MayRefresh(c, outcome) == outcome = "stale" /\ src[c] /\ ~refreshed[c]

\* executeRestoreThenOriginalBatches goes on to the original transaction after
\* a failed batch only with requireAllBatches: false and no ambiguity flag.
Proceeds(c, outcome) == mode[c] = "originalAny" /\ outcome # "unconfirmed"

AfterFailure(c, outcome) ==
  IF MayRefresh(c, outcome) THEN "refresh"
  ELSE IF Proceeds(c, outcome) THEN "original" ELSE "returned"

\* After the last batch: on to the original transaction, or back to the caller.
AfterLast(c) ==
  IF mode[c] \in {"originalAll", "originalAny"} THEN "original" ELSE "returned"

NextAt(c) == IF at[c] < N THEN at[c] + 1 ELSE at[c]

\* Mutant: a transaction not found is taken for restored.
FoundOrMissing(t) == t \in applied \/ t \notin refused

\* getTransaction status SUCCESS, read by the reconciling lookup and by the
\* polling loop.
FoundSuccess(t)  == t \in applied
PolledSuccess(t) == t \in applied

\* A batch of the receipt that resumeRestoreBatches executes.
Outstanding(b) == receipt.status[b] # "success"

\* Mutant: the receipt takes every batch as planned.
PlanOnly(c) ==
  [saved |-> TRUE, status |-> QueueFrom(1), seqs |-> plan.seqs]

\* createExecutionReceipt(result, source, plannedBatches): executed batches as
\* they ran, the others as planned.
ReceiptOf(c) ==
  [saved  |-> TRUE,
   status |-> status[c],
   seqs   |-> [b \in Batches |-> IF status[c][b] = "pending"
                                 THEN plan.seqs[b] ELSE seqs[c][b]]]

-----------------------------------------------------------------------------
(* Calls of the application.                                               *)

\* buildRestoreTransactionBatches: one getAccount, consecutive numbers.  The
\* application may persist the plan as a receipt before it executes it.
Build ==
  /\ plan.state = "none"
  /\ plan' = [state |-> "held", seqs |-> [b \in Batches |-> acctSeq + b]]
  /\ receipt' = [saved |-> "resume" \in Recovery, seqs |-> plan'.seqs,
                 status |-> QueueFrom(1)]
  /\ UNCHANGED <<ledgerVars, clientVars, doubtful, boundVars>>

Begin(c, m, s, first, numbers, done, where) ==
  /\ calls < MaxCalls
  /\ calls' = calls + 1
  /\ mode' = [mode EXCEPT ![c] = m]
  /\ src' = [src EXCEPT ![c] = s]
  /\ at' = [at EXCEPT ![c] = first]
  /\ seqs' = [seqs EXCEPT ![c] = numbers]
  /\ status' = [status EXCEPT ![c] = QueueFrom(first)]
  /\ refreshed' = [refreshed EXCEPT ![c] = FALSE]
  /\ restored' = [restored EXCEPT ![c] = 0]
  /\ carried' = [carried EXCEPT ![c] = done]
  /\ result' = [result EXCEPT ![c] = "none"]
  /\ pc' = [pc EXCEPT ![c] = where]
  /\ stage' = IF where = "await"
              THEN Submit(stage, {<<first, numbers[first]>>}) ELSE stage
  /\ UNCHANGED <<ledgerVars, tries, lastFailed, plan, receipt, doubtful, crashes>>

\* executeRestoreBatches, with or without a source account, and
\* executeRestoreThenOriginalBatches, which passes none: with the plan the
\* application holds, the first time or again after a call returned.
Execute(c) ==
  /\ pc[c] \in {"idle", "returned"} /\ plan.state = "held"
  /\ replayed' = (replayed \/ pc[c] = "returned")
  /\ repeated' = IF pc[c] = "idle" THEN repeated
                 ELSE repeated \cup {b \in Batches : status[c][b] = "success"}
  /\ \/ \E s \in BOOLEAN : Begin(c, "batches", s, 1, plan.seqs, 0, "await")
     \/ \E m \in {"originalAll", "originalAny"} :
          Begin(c, m, FALSE, 1, plan.seqs, 0, "await")

\* retryFailedRestore(getFailedKeys()): rebuilds first.
Retry(c) ==
  /\ "retry" \in Recovery
  /\ pc[c] \in {"idle", "returned"} /\ lastFailed.from # 0
  /\ Begin(c, "retry", lastFailed.src, lastFailed.from, lastFailed.seqs,
           lastFailed.restored, "refresh")
  /\ UNCHANGED <<repeated, replayed>>

\* The application persists a receipt of what a call returned, or of the
\* results a RESTORE_FAILED error carries.
HasReceipt(c) == result[c] \in {"success", "failed"} /\ mode[c] # "retry"

SaveReceipt(c) ==
  /\ "resume" \in Recovery
  /\ pc[c] = "returned" /\ HasReceipt(c)
  /\ receipt' = ReceiptOf(c)
  /\ receipt' # receipt
  /\ UNCHANGED <<ledgerVars, clientVars, plan, doubtful, boundVars>>

\* resumeRestoreBatches(parseExecutionReceipt(json)): executes the batches
\* the receipt does not record as restored.  The application resumes from a
\* receipt that covers its last call: not after a retry, whose result names
\* only the batches it retried, and not once only the original has failed.
Resume(c) ==
  /\ "resume" \in Recovery
  /\ pc[c] \in {"idle", "returned"} /\ receipt.saved
  /\ HasReceipt(c) => receipt = ReceiptOf(c)
  /\ result[c] # "none" => mode[c] # "retry"
  /\ result[c] = "threw" => mode[c] \notin {"originalAll", "originalAny"}
  /\ \E first \in Batches :
       /\ Outstanding(first)
       /\ \A b \in Batches : b < first => ~Outstanding(b)
       /\ Begin(c, "resume", TRUE, first, receipt.seqs, 0, "await")
  /\ UNCHANGED <<repeated, replayed>>

-----------------------------------------------------------------------------
(* Settlement: the promise of a submission resolves or rejects, and every  *)
(* caller that joined it runs on to its next await.                        *)
(*   ok           the transaction is in a ledger, with success             *)
(*   stale        ERROR txBadSeq / txTooLate (isStaleSequenceError)        *)
(*   unconfirmed  NETWORK_ERROR with a txHash (isAmbiguousSubmissionError) *)
(*   error        any other rejection                                      *)

Close(t) == [stage EXCEPT ![t] = "none"]

SettleOk(t) ==
  LET J      == Joined(t)
      finish == t[1] = N
  IN /\ status' = [c \in Callers |-> IF c \in J
                     THEN [status[c] EXCEPT ![t[1]] = "success"] ELSE status[c]]
     /\ restored' = [c \in Callers |-> restored[c] + IF c \in J THEN 1 ELSE 0]
     /\ at' = [c \in Callers |-> IF c \in J THEN NextAt(c) ELSE at[c]]
     /\ pc' = [c \in Callers |-> IF c \in J /\ finish THEN AfterLast(c) ELSE pc[c]]
     /\ result' = [c \in Callers |-> IF c \in J /\ finish THEN "success" ELSE result[c]]
     /\ lastFailed' = IF J # {} /\ finish THEN NoFailure(lastFailed.seqs) ELSE lastFailed
     /\ stage' = Submit(Close(t), IF finish THEN {}
                                  ELSE {<<t[1] + 1, seqs[c][t[1] + 1]>> : c \in J})
     /\ UNCHANGED <<mode, src, seqs, refreshed, carried, tries>>

\* The executor's catch block.  Callers that may refresh do so once; the
\* others record the failure and return, and the last to do so leaves its
\* FailedRestoreState behind.
SettleFailed(t, outcome) ==
  LET J == Joined(t)
      R == {c \in J : MayRefresh(c, outcome)}
      F == J \ R
  IN /\ refreshed' = [c \in Callers |-> refreshed[c] \/ c \in R]
     /\ status' = [c \in Callers |-> IF c \in F
                     THEN [status[c] EXCEPT ![t[1]] = "failed"] ELSE status[c]]
     /\ pc' = [c \in Callers |-> IF c \in J THEN AfterFailure(c, outcome) ELSE pc[c]]
     /\ result' = [c \in Callers |-> IF c \in F THEN "failed" ELSE result[c]]
     /\ \/ F = {} /\ UNCHANGED lastFailed
        \/ \E c \in F : lastFailed' = FailureOf(c)
     /\ stage' = Close(t)
     /\ UNCHANGED <<mode, src, at, seqs, restored, carried, tries>>

-----------------------------------------------------------------------------
(* One submission: sendSignedTransaction.                                  *)

Unseen(b) == doubtful' = doubtful \cup {b}

\* The wallet signs, or the user rejects.
Sign(t) ==
  /\ stage[t] = "signing"
  /\ \/ /\ stage' = [stage EXCEPT ![t] = "sending"]
        /\ tries' = [tries EXCEPT ![t] = 1]
        /\ UNCHANGED <<pc, mode, src, at, seqs, status, refreshed, restored,
                       carried, result, lastFailed>>
     \/ SettleFailed(t, "error")
  /\ UNCHANGED <<ledgerVars, plan, receipt, doubtful, boundVars>>

\* sendTransaction answered PENDING or DUPLICATE.
SendAccepted(t) ==
  /\ stage[t] = "sending"
  /\ Acceptable(t)
  /\ mempool' = mempool \cup {t}
  /\ stage' = [stage EXCEPT ![t] = "waiting"]
  /\ UNCHANGED <<acctSeq, applied, refused, tries, pc, mode, src, at, seqs,
                 status, refreshed, restored, carried, result, lastFailed,
                 plan, receipt, doubtful, boundVars>>

\* sendTransaction answered ERROR: txBadSeq when the number is not the next
\* one, another code, or TRY_AGAIN_LATER, at any time.
SendRejected(t) ==
  /\ stage[t] = "sending"
  /\ \/ BadSeq(t) /\ SettleFailed(t, "stale")
     \/ SettleFailed(t, "error")
  /\ UNCHANGED <<ledgerVars, plan, receipt, doubtful, boundVars>>

\* The request or its answer is lost: retryLoop sends again until the policy
\* or the attempts run out, then the hash is looked up.
SendLost(t) ==
  /\ stage[t] = "sending"
  /\ \/ UNCHANGED mempool
     \/ Acceptable(t) /\ mempool' = mempool \cup {t}
  /\ \/ /\ tries[t] <= MaxRetries
        /\ tries' = [tries EXCEPT ![t] = NextTry(t)]
        /\ UNCHANGED stage
     \/ /\ stage' = [stage EXCEPT ![t] = "lookup"]
        /\ UNCHANGED tries
  /\ Unseen(t[1])
  /\ UNCHANGED <<acctSeq, applied, refused, pc, mode, src, at, seqs, status,
                 refreshed, restored, carried, result, lastFailed, plan,
                 receipt, boundVars>>

\* reconcileAmbiguousSubmission: one getTransaction.  FAILED is an error;
\* NOT_FOUND or a lookup that fails is SUBMISSION_AMBIGUOUS, which
\* isAmbiguousSubmissionError takes for any other error.
Reconcile(t) ==
  /\ stage[t] = "lookup"
  /\ \/ FoundSuccess(t) /\ SettleOk(t)
     \/ SettleFailed(t, "error")
  /\ UNCHANGED <<ledgerVars, plan, receipt, doubtful, boundVars>>

\* waitForTransaction sees the transaction's result.
Confirm(t) ==
  /\ stage[t] = "waiting"
  /\ \/ PolledSuccess(t) /\ SettleOk(t)
     \/ t \in refused /\ SettleFailed(t, "error")
  /\ UNCHANGED <<ledgerVars, plan, receipt, doubtful, boundVars>>

\* waitForTransaction gives up.  Polling that runs out throws NETWORK_ERROR
\* with the hash; a getTransaction that throws, a WebSocket that times out,
\* closes or fails does so without it.
GiveUp(t) ==
  /\ stage[t] = "waiting"
  /\ \/ t \notin applied \cup refused /\ SettleFailed(t, "unconfirmed")
     \/ SettleFailed(t, "error")
  /\ Unseen(t[1])
  /\ UNCHANGED <<ledgerVars, plan, receipt, boundVars>>

-----------------------------------------------------------------------------
(* rebuildRestoreBatches: getAccount, then new numbers for the batches from *)
(* the current one on.  When getAccount fails the call rejects at once: the *)
(* results so far are lost and _lastFailedRestoreState stays as it was.     *)
Rebuild(c) ==
  /\ pc[c] = "refresh"
  /\ \/ LET new == Renumber(seqs[c], at[c])
        IN /\ src[c]
           /\ seqs' = [seqs EXCEPT ![c] = new]
           /\ pc' = [pc EXCEPT ![c] = "await"]
           /\ stage' = Submit(stage, {<<at[c], new[at[c]]>>})
           /\ UNCHANGED <<result, doubtful>>
     \/ /\ pc' = [pc EXCEPT ![c] = "returned"]
        /\ result' = [result EXCEPT ![c] = "threw"]
        /\ doubtful' = doubtful \cup {b \in Batches : status[c][b] = "success"}
        /\ UNCHANGED <<seqs, stage>>
  /\ UNCHANGED <<ledgerVars, tries, mode, src, at, status, refreshed, restored,
                 carried, lastFailed, plan, receipt, boundVars>>

\* The original transaction, of another account, settles.
OriginalSettles(c) ==
  /\ pc[c] = "original"
  /\ pc' = [pc EXCEPT ![c] = "returned"]
  /\ \/ UNCHANGED result
     \/ result' = [result EXCEPT ![c] = "threw"]
  /\ UNCHANGED <<ledgerVars, stage, tries, mode, src, at, seqs, status,
                 refreshed, restored, carried, lastFailed, plan, receipt,
                 doubtful, boundVars>>

\* The client process dies: everything but the network and the persisted
\* receipt is gone.
Crash ==
  /\ crashes < MaxCrashes /\ plan.state = "held"
  /\ crashes' = crashes + 1
  /\ plan' = [plan EXCEPT !.state = "lost"]
  /\ pc' = [c \in Callers |-> "idle"]
  /\ stage' = [t \in Tx |-> "none"]
  /\ result' = [c \in Callers |-> "none"]
  /\ lastFailed' = NoFailure(lastFailed.seqs)
  /\ doubtful' = doubtful \cup {b \in Batches : receipt.status[b] # "success"}
  /\ UNCHANGED <<ledgerVars, tries, mode, src, at, seqs, status, refreshed,
                 restored, carried, receipt, repeated, replayed, calls>>

-----------------------------------------------------------------------------
Init ==
  LET s == [b \in Batches |-> b] IN
  /\ LedgerInit
  /\ plan = [state |-> "none", seqs |-> s]
  /\ stage = [t \in Tx |-> "none"]
  /\ tries = [t \in Tx |-> 0]
  /\ pc = [c \in Callers |-> "idle"]
  /\ mode = [c \in Callers |-> "batches"]
  /\ src = [c \in Callers |-> FALSE]
  /\ at = [c \in Callers |-> 1]
  /\ seqs = [c \in Callers |-> s]
  /\ status = [c \in Callers |-> QueueFrom(1)]
  /\ refreshed = [c \in Callers |-> FALSE]
  /\ restored = [c \in Callers |-> 0]
  /\ carried = [c \in Callers |-> 0]
  /\ result = [c \in Callers |-> "none"]
  /\ lastFailed = NoFailure(s)
  /\ receipt = [saved |-> FALSE, seqs |-> s, status |-> QueueFrom(1)]
  /\ doubtful = {}
  /\ repeated = {}
  /\ replayed = FALSE
  /\ calls = 0
  /\ crashes = 0

\* What happens to one submission.
Submission(t) ==
  \/ Sign(t) \/ SendAccepted(t) \/ SendRejected(t) \/ SendLost(t)
  \/ Reconcile(t) \/ Confirm(t) \/ GiveUp(t)

\* What a running call does besides waiting for a submission.
Continue(c) == Rebuild(c) \/ OriginalSettles(c)

Application(c) == Execute(c) \/ Retry(c) \/ Resume(c) \/ SaveReceipt(c)

Environment ==
  LedgerNext /\ UNCHANGED <<clientVars, plan, receipt, doubtful, boundVars>>

Next ==
  \/ Build
  \/ \E c \in Callers : Application(c) \/ Continue(c)
  \/ \E t \in Tx : Submission(t)
  \/ Environment
  \/ Crash

\* The wallet answers, requests return or time out and polling stops after
\* maxPollAttempts: what a call waits for comes.  The network and the
\* application owe nothing.
Fairness ==
  /\ \A t \in Tx : WF_vars(Submission(t))
  /\ \A c \in Callers : WF_vars(Continue(c))

Spec     == Init /\ [][Next]_vars
FairSpec == Spec /\ Fairness

-----------------------------------------------------------------------------
(* Properties.                                                             *)

\* A batch the client calls restored is in a ledger, as the transaction the
\* client holds for it: in the results of every call and in the persisted
\* receipt (txHash and status 'success' of RestoreBatchResult).
SuccessIsLanded ==
  /\ \A c \in Callers, b \in Batches :
       status[c][b] = "success" => <<b, seqs[c][b]>> \in applied
  /\ \A b \in Batches :
       receipt.status[b] = "success" => <<b, receipt.seqs[b]>> \in applied

\* Retrying only failedBatches is enough: every batch of the plan that
\* getFailedKeys() leaves out is restored.
RetryCoversPlan ==
  \A b \in Batches : b < lastFailed.from => Landed(b)

\* success: true means that the whole plan is restored, whichever of
\* executeRestoreBatches, retryFailedRestore and resumeRestoreBatches says so.
SuccessMeansRestored ==
  \A c \in Callers : result[c] = "success" => \A b \in Batches : Landed(b)

\* With requireAllBatches (the default) the original transaction is submitted
\* only when every batch is restored.
OriginalNeedsAllBatches ==
  \A c \in Callers :
    pc[c] = "original" /\ mode[c] = "originalAll" => \A b \in Batches : Landed(b)

\* Batches land in the order of the plan, through refreshes, retries,
\* resumptions and concurrent calls.
LandedInOrder ==
  \A a, b \in Batches : a < b /\ Landed(b) => Landed(a)

\* A batch is restored (and paid for) twice only when the client missed or
\* lost an answer about it (a send whose answer was lost, a wait that gave up,
\* a crash, or a refresh that threw and took the call's results with it), or
\* when the application itself had it executed again: an older plan it still
\* held, after a call had returned the batch as restored.  So the ways to
\* recover, a retry, a refresh, a receipt, never pay twice for a batch whose
\* outcome is known.  One call at a time.
DoubleOnlyAfterDoubt ==
  \A t, u \in applied : t[1] = u[1] /\ t # u => t[1] \in doubtful \cup repeated

\* A rebuilt batch replaces a transaction that can no longer be included, so
\* two transactions of one batch are never alive together, even when the
\* first one's outcome was unknown.  One call at a time, and as long as nothing
\* starts from numbers older than the last call's: no crash, after which an old
\* receipt forgets how far the account had come, and no plan executed again.
NoSecondLiveTransaction ==
  [][\A c \in Callers, b \in Batches :
       crashes = 0 /\ ~replayed /\ pc[c] = "refresh" /\ seqs'[c][b] # seqs[c][b]
         => <<b, seqs[c][b]>> \notin mempool]_vars

\* Every call returns: the retry loop is bounded and a call refreshes its
\* sequence numbers at most once, also when the rebuilt batch is rejected
\* again.
CallsReturn ==
  \A c \in Callers :
    pc[c] \in {"await", "refresh", "original"} ~> pc[c] \in {"idle", "returned"}

-----------------------------------------------------------------------------
(* Statements of the repository that the code does not meet.               *)

\* executeRestoreThenOriginalBatches: "An ambiguous batch may have landed
\* on-chain. Submitting the original transaction now could run it against a
\* partially restored footprint, so stop here even when partial success is
\* allowed."  No batch is still undecided when the original is submitted.
OriginalNeverAfterUnknownBatch ==
  \A c \in Callers : pc[c] = "original" => mempool = {}

\* docs RESTORE_BATCHING.md, "Post-completion deduplication": a request that
\* is repeated after it "completed successfully" is "a no-op".  A batch that was
\* executed again after a call returned it as restored is not restored, and
\* paid for, a second time.
RepeatIsNoOp ==
  \A t, u \in applied : t[1] = u[1] /\ t # u => t[1] \notin repeated

=============================================================================
