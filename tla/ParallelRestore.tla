-------------------------- MODULE ParallelRestore ---------------------------
(***************************************************************************)
(* The concurrent restore flow of SorobanResurrect                         *)
(* (packages/sdk/src/soroban-resurrect.ts):                                *)
(* buildRestoreTransactionBatchesConcurrent,                               *)
(* executeRestoreBatchesConcurrent with its inline semaphore, and          *)
(* executeRestoreThenOriginalBatchesConcurrent.                            *)
(*                                                                         *)
(* One call builds the batches, each for its own contract, with            *)
(* consecutive sequence numbers of one account, starts all tasks at once   *)
(* and lets Limit of them run.  The semaphore's queue holds the tasks      *)
(* after the first Limit in the order of the plan, so it is known by its   *)
(* length and queueHead.  Every batch restores one unit of keys.           *)
(***************************************************************************)
EXTENDS RestoreLedger

CONSTANTS
  Limit,      \* concurrency, or maxConcurrency
  MaxRetries, \* retryPolicy.maxRetries
  Faults      \* whether the network loses, refuses or forgets anything and
              \* whether others use the account

ASSUME ParallelAssumption ==
  Limit \in Nat \ {0} /\ MaxRetries \in Nat /\ Faults \in BOOLEAN

VARIABLES
  phase, mode,      \* of the call
  base,             \* currentSequence as the call read it
  task,             \* runBatch, per batch
  tries,            \* attempts of its retry loop
  active, queueHead,          \* the semaphore
  restored, failedIndices,    \* totalKeysRestored, failedIndices
  outcome                     \* what the call returned

clientVars == <<phase, mode, base, task, tries, active, queueHead, restored,
                failedIndices, outcome>>
vars == <<ledgerVars, clientVars>>

InFlight == {"signing", "sending", "lookup", "waiting"}
Settled  == {"success", "failed"}

TypeOK ==
  /\ LedgerTypeOK
  /\ phase \in {"idle", "built", "running", "original", "returned"}
  /\ mode \in {"batches", "originalAll", "originalAny"}
  /\ base \in 0..MaxSeq
  /\ task \in [Batches -> {"queued"} \cup InFlight \cup Settled]
  /\ tries \in [Batches -> 0..MaxRetries + 1]
  /\ active \in Nat
  /\ queueHead \in Nat
  /\ restored \in Nat
  /\ failedIndices \subseteq Batches
  /\ outcome \in {"none", "success", "failed", "threw"}

TxOf(b) == <<b, base + b>>

-----------------------------------------------------------------------------
(* The semaphore.                                                          *)

\* Batches whose tasks acquire a slot at once.
First(b) == b <= Limit

\* Mutant: queue[queueHead] is read after the increment.
NextSkipping == Limit + 2 + queueHead

\* queue[queueHead]: the next waiting task, beyond N when there is none.
NextWaiter == Limit + 1 + queueHead

\* active after release().
ActiveAfterRelease == IF NextWaiter <= N THEN active ELSE active - 1

\* executeRestoreThenOriginalBatchesConcurrent goes on to the original
\* transaction: after success, or with requireAllBatches: false.
Proceeds(failures) ==
  mode = "originalAny" \/ (mode = "originalAll" /\ failures = {})

\* Promise.all(batches.map(runBatch)) resolves.
AllSettled(t) == \A b \in Batches : t[b] \in Settled

\* runBatch's try, catch and finally blocks: the outcome is recorded, the slot
\* goes to the next waiting task, and the call runs on after the last task.
Settle(b, ok) ==
  /\ task' = [c \in Batches |->
                IF c = b THEN IF ok THEN "success" ELSE "failed"
                ELSE IF c = NextWaiter THEN "signing" ELSE task[c]]
  /\ active' = ActiveAfterRelease
  /\ queueHead' = IF NextWaiter <= N THEN queueHead + 1 ELSE queueHead
  /\ restored' = IF ok THEN restored + 1 ELSE restored
  /\ failedIndices' = IF ok THEN failedIndices ELSE failedIndices \cup {b}
  /\ phase' = IF ~AllSettled(task') THEN phase
              ELSE IF Proceeds(failedIndices') THEN "original" ELSE "returned"
  /\ outcome' = IF ~AllSettled(task') THEN outcome
                ELSE IF failedIndices' = {} THEN "success"
                ELSE IF mode = "originalAll" THEN "threw" ELSE "failed"
  /\ UNCHANGED <<mode, base, tries>>

-----------------------------------------------------------------------------
\* buildRestoreTransactionBatchesConcurrent: one getAccount, consecutive
\* numbers.
Build ==
  /\ phase = "idle"
  /\ phase' = "built"
  /\ base' = acctSeq
  /\ UNCHANGED <<ledgerVars, mode, task, tries, active, queueHead, restored,
                 failedIndices, outcome>>

\* All tasks are fired; the first Limit of them start.
Execute ==
  /\ phase = "built"
  /\ phase' = "running"
  /\ mode' \in {"batches", "originalAll", "originalAny"}
  /\ task' = [b \in Batches |-> IF First(b) THEN "signing" ELSE "queued"]
  /\ active' = IF N <= Limit THEN N ELSE Limit
  /\ UNCHANGED <<ledgerVars, base, tries, queueHead, restored, failedIndices,
                 outcome>>

\* The wallet signs, or the user rejects.
Sign(b) ==
  /\ task[b] = "signing"
  /\ \/ /\ task' = [task EXCEPT ![b] = "sending"]
        /\ tries' = [tries EXCEPT ![b] = 1]
        /\ UNCHANGED <<phase, mode, base, active, queueHead, restored,
                       failedIndices, outcome>>
     \/ Faults /\ Settle(b, FALSE)
  /\ UNCHANGED ledgerVars

\* sendTransaction answered PENDING or DUPLICATE.
SendAccepted(b) ==
  /\ task[b] = "sending"
  /\ Acceptable(TxOf(b))
  /\ mempool' = mempool \cup {TxOf(b)}
  /\ task' = [task EXCEPT ![b] = "waiting"]
  /\ UNCHANGED <<acctSeq, applied, refused, phase, mode, base, tries, active,
                 queueHead, restored, failedIndices, outcome>>

\* It answered ERROR or TRY_AGAIN_LATER: always when the number is not the
\* account's next one or another transaction of the account is pending.
SendRejected(b) ==
  /\ task[b] = "sending"
  /\ Faults \/ ~Acceptable(TxOf(b))
  /\ Settle(b, FALSE)
  /\ UNCHANGED ledgerVars

\* The request or its answer is lost: retryLoop sends again until the policy
\* or the attempts run out, then the hash is looked up.
SendLost(b) ==
  /\ Faults /\ task[b] = "sending"
  /\ \/ UNCHANGED mempool
     \/ Acceptable(TxOf(b)) /\ mempool' = mempool \cup {TxOf(b)}
  /\ \/ /\ tries[b] <= MaxRetries
        /\ tries' = [tries EXCEPT ![b] = @ + 1]
        /\ UNCHANGED task
     \/ /\ task' = [task EXCEPT ![b] = "lookup"]
        /\ UNCHANGED tries
  /\ UNCHANGED <<acctSeq, applied, refused, phase, mode, base, active,
                 queueHead, restored, failedIndices, outcome>>

\* Mutant: any status other than NOT_FOUND is taken for SUCCESS.
InAnyLedger(b) == TxOf(b) \in applied \cup refused

\* getTransaction answered SUCCESS.
Found(b) == TxOf(b) \in applied

\* reconcileAmbiguousSubmission, and waitForTransaction: the transaction was
\* successful, it failed, or the client gives up.
Conclude(b) ==
  /\ task[b] \in {"lookup", "waiting"}
  /\ \/ Found(b) /\ Settle(b, TRUE)
     \/ (Faults \/ TxOf(b) \in refused) /\ Settle(b, FALSE)
  /\ UNCHANGED ledgerVars

\* The original transaction, of another account, settles.
OriginalSettles ==
  /\ phase = "original"
  /\ phase' = "returned"
  /\ outcome' \in {"success", "threw"}
  /\ UNCHANGED <<ledgerVars, mode, base, task, tries, active, queueHead,
                 restored, failedIndices>>

Environment ==
  /\ IF Faults THEN LedgerNext
     ELSE \E t \in mempool : Include(t) /\ UNCHANGED refused
  /\ UNCHANGED clientVars

-----------------------------------------------------------------------------
Init ==
  /\ LedgerInit
  /\ phase = "idle" /\ mode = "batches" /\ outcome = "none"
  /\ base = 0
  /\ task = [b \in Batches |-> "queued"]
  /\ tries = [b \in Batches |-> 0]
  /\ active = 0 /\ queueHead = 0
  /\ restored = 0 /\ failedIndices = {}

Submission(b) ==
  Sign(b) \/ SendAccepted(b) \/ SendRejected(b) \/ SendLost(b) \/ Conclude(b)

Next ==
  \/ Build \/ Execute \/ OriginalSettles
  \/ \E b \in Batches : Submission(b)
  \/ Environment

\* The wallet answers, requests return or time out, polling stops.
Fairness ==
  /\ \A b \in Batches : WF_vars(Submission(b))
  /\ WF_vars(OriginalSettles)

Spec     == Init /\ [][Next]_vars
FairSpec == Spec /\ Fairness

-----------------------------------------------------------------------------
(* Properties.                                                             *)

Running == {b \in Batches : task[b] \in InFlight}

\* The semaphore: its counter is the number of running tasks, never more than
\* the limit, and no slot is idle while a task waits, whatever the order in
\* which tasks end and however they end.
SlotsAreKept ==
  phase = "running" =>
    /\ active = Cardinality(Running)
    /\ active <= Limit
    /\ (\E b \in Batches : task[b] = "queued") => active = Limit

\* "All batches are attempted and any failures are collected": the result
\* names every batch once, the restored ones are in a ledger, and success
\* means that all are.
ResultIsComplete ==
  phase \in {"original", "returned"} =>
    /\ \A b \in Batches : task[b] \in Settled
    /\ \A b \in Batches : b \notin failedIndices => TxOf(b) \in applied
    /\ restored + Cardinality(failedIndices) = N

\* With requireAllBatches the original transaction is submitted only when
\* every batch is restored.
OriginalNeedsAllBatches ==
  phase = "original" /\ mode = "originalAll" => \A b \in Batches : Landed(b)

\* The call returns: no task waits for a slot that is never given back.
CallReturns == phase = "running" ~> phase = "returned"

=============================================================================
