----------------------- MODULE RestoreBatches_proofs -----------------------
(***************************************************************************)
(* Proofs about RestoreBatches, for every number of batches, callers,      *)
(* retries, calls and crashes.  The last two sections are about a client   *)
(* whose calls follow one another, Callers = {c}.                          *)
(***************************************************************************)
EXTENDS RestoreBatches, TLAPS

-----------------------------------------------------------------------------
(* Helpers keep their types.                                               *)

\* submitSignedTransaction keeps the map of submissions well typed.
LEMMA SubmitType ==
  ASSUME NEW st \in [Tx -> Stages], NEW T
  PROVE  Submit(st, T) \in [Tx -> Stages]
  BY DEF Submit, Stages

\* Rebuilt sequence numbers stay in range.
LEMMA RenumberType ==
  ASSUME NEW old \in SeqMap, NEW first \in Batches, acctSeq \in 0..MaxSeq
  PROVE  Renumber(old, first) \in SeqMap
  BY SizeAssumption DEF Renumber, SeqMap, SeqNos, Batches

\* The results a call starts from are statuses.
LEMMA QueueType == \A k : QueueFrom(k) \in [Batches -> Status]
  BY DEF QueueFrom, Status

\* A settlement that fails keeps every client variable well typed.
LEMMA SettleFailedType ==
  ASSUME TypeOK, NEW t \in Tx, NEW o, SettleFailed(t, o)
  PROVE  /\ stage' \in [Tx -> Stages]
         /\ refreshed' \in [Callers -> BOOLEAN]
         /\ status' \in [Callers -> [Batches -> Status]]
         /\ pc' \in [Callers -> Points]
         /\ result' \in [Callers -> Results]
         /\ lastFailed' \in [from : 0..N, src : BOOLEAN, seqs : SeqMap, restored : Nat]
         /\ UNCHANGED <<mode, src, at, seqs, restored, carried, tries>>
<1> DEFINE J == Joined(t)
           R == {c \in J : MayRefresh(c, o)}
           F == J \ R
<1>1. stage' \in [Tx -> Stages]
  BY DEF SettleFailed, Close, TypeOK, Stages
<1>2. refreshed' \in [Callers -> BOOLEAN]
  BY DEF SettleFailed, TypeOK
<1>3. status' \in [Callers -> [Batches -> Status]]
  <2>1. \A c \in Callers : [status[c] EXCEPT ![t[1]] = "failed"] \in [Batches -> Status]
    BY DEF TypeOK, Status
  <2>2. QED BY <2>1 DEF SettleFailed, TypeOK
<1>4. pc' \in [Callers -> Points]
  BY DEF SettleFailed, AfterFailure, TypeOK, Points
<1>5. result' \in [Callers -> Results]
  BY DEF SettleFailed, TypeOK, Results
<1>6. lastFailed' \in [from : 0..N, src : BOOLEAN, seqs : SeqMap, restored : Nat]
  <2>1. F \subseteq Callers  BY DEF Joined
  <2>2. \A c \in Callers : FailureOf(c) \in [from : 0..N, src : BOOLEAN, seqs : SeqMap, restored : Nat]
    BY SizeAssumption DEF FailureOf, TypeOK, Batches
  <2>3. \/ UNCHANGED lastFailed
        \/ \E c \in F : lastFailed' = FailureOf(c)
    BY DEF SettleFailed
  <2>4. QED BY <2>1, <2>2, <2>3 DEF TypeOK
<1>7. QED BY <1>1, <1>2, <1>3, <1>4, <1>5, <1>6 DEF SettleFailed

\* So does one that succeeds.
LEMMA SettleOkType ==
  ASSUME TypeOK, NEW t \in Tx, SettleOk(t)
  PROVE  /\ stage' \in [Tx -> Stages]
         /\ status' \in [Callers -> [Batches -> Status]]
         /\ restored' \in [Callers -> Nat]
         /\ at' \in [Callers -> Batches]
         /\ pc' \in [Callers -> Points]
         /\ result' \in [Callers -> Results]
         /\ lastFailed' \in [from : 0..N, src : BOOLEAN, seqs : SeqMap, restored : Nat]
         /\ UNCHANGED <<mode, src, seqs, refreshed, carried, tries>>
<1>1. stage' \in [Tx -> Stages]
  <2>1. Close(t) \in [Tx -> Stages]  BY DEF Close, TypeOK, Stages
  <2>2. QED BY <2>1, SubmitType DEF SettleOk
<1>2. status' \in [Callers -> [Batches -> Status]]
  <2>1. \A c \in Callers : [status[c] EXCEPT ![t[1]] = "success"] \in [Batches -> Status]
    BY DEF TypeOK, Status
  <2>2. QED BY <2>1 DEF SettleOk, TypeOK
<1>3. restored' \in [Callers -> Nat]
  BY DEF SettleOk, TypeOK
<1>4. at' \in [Callers -> Batches]
  <2>1. \A c \in Callers : NextAt(c) \in Batches
    BY SizeAssumption DEF NextAt, TypeOK, Batches
  <2>2. QED BY <2>1 DEF SettleOk, TypeOK
<1>5. pc' \in [Callers -> Points]
  BY DEF SettleOk, AfterLast, TypeOK, Points
<1>6. result' \in [Callers -> Results]
  BY DEF SettleOk, TypeOK, Results
<1>7. lastFailed' \in [from : 0..N, src : BOOLEAN, seqs : SeqMap, restored : Nat]
  BY SizeAssumption DEF SettleOk, TypeOK, NoFailure
<1>8. QED BY <1>1, <1>2, <1>3, <1>4, <1>5, <1>6, <1>7 DEF SettleOk

-----------------------------------------------------------------------------
(* Type correctness.                                                       *)

\* Starting a call keeps the types, given well-typed arguments.
LEMMA BeginType ==
  ASSUME TypeOK, NEW c \in Callers, NEW m \in Modes, NEW s \in BOOLEAN,
         NEW first \in Batches, NEW numbers \in SeqMap, NEW done \in Nat,
         NEW where \in {"await", "refresh"},
         Begin(c, m, s, first, numbers, done, where),
         repeated' \subseteq Batches, replayed' \in BOOLEAN
  PROVE  TypeOK'
<1>1. stage' \in [Tx -> Stages]
  BY SubmitType DEF Begin, TypeOK
<1>2. status' \in [Callers -> [Batches -> Status]]
  BY QueueType DEF Begin, TypeOK
<1>3. calls' \in 0..MaxCalls
  BY ParameterAssumption DEF Begin, TypeOK
<1>4. /\ pc' \in [Callers -> Points]
      /\ mode' \in [Callers -> Modes]
      /\ result' \in [Callers -> Results]
  BY DEF Begin, TypeOK, Points, Results
<1>5. /\ src' \in [Callers -> BOOLEAN]
      /\ at' \in [Callers -> Batches]
      /\ seqs' \in [Callers -> SeqMap]
      /\ refreshed' \in [Callers -> BOOLEAN]
      /\ restored' \in [Callers -> Nat]
      /\ carried' \in [Callers -> Nat]
  BY DEF Begin, TypeOK
<1>6. QED
  BY <1>1, <1>2, <1>3, <1>4, <1>5 DEF Begin, TypeOK, LedgerTypeOK, ledgerVars

\* The initial state is well typed.
LEMMA InitType == Init => TypeOK
<1> SUFFICES ASSUME Init PROVE TypeOK
  OBVIOUS
<1> DEFINE s == [b \in Batches |-> b]
<1>1. s \in SeqMap
  BY SizeAssumption DEF SeqMap, SeqNos, Batches
<1>2. 1 \in Batches
  BY SizeAssumption DEF Batches
<1>3. LedgerTypeOK
  BY SizeAssumption DEF Init, LedgerInit, LedgerTypeOK
<1>4. NoFailure(s) \in [from : 0..N, src : BOOLEAN, seqs : SeqMap, restored : Nat]
  BY <1>1, SizeAssumption DEF NoFailure
<1>5. /\ stage \in [Tx -> Stages]
      /\ tries \in [Tx -> 0..MaxRetries + 1]
      /\ calls \in 0..MaxCalls
      /\ crashes \in 0..MaxCrashes
  BY ParameterAssumption DEF Init, Stages
<1>6. /\ pc \in [Callers -> Points]
      /\ mode \in [Callers -> Modes]
      /\ result \in [Callers -> Results]
  BY DEF Init, Points, Modes, Results
<1>7. /\ src \in [Callers -> BOOLEAN]
      /\ at \in [Callers -> Batches]
      /\ refreshed \in [Callers -> BOOLEAN]
      /\ restored \in [Callers -> Nat]
      /\ carried \in [Callers -> Nat]
  BY <1>2 DEF Init
<1>8. /\ seqs \in [Callers -> SeqMap]
      /\ status \in [Callers -> [Batches -> Status]]
  BY <1>1, QueueType DEF Init
<1>9. /\ lastFailed \in [from : 0..N, src : BOOLEAN, seqs : SeqMap, restored : Nat]
      /\ plan \in [state : {"none", "held", "lost"}, seqs : SeqMap]
  BY <1>1, <1>4 DEF Init
<1>10. receipt \in [saved : BOOLEAN, seqs : SeqMap, status : [Batches -> Status]]
  BY <1>1, QueueType DEF Init
<1>11. QED
  BY <1>3, <1>5, <1>6, <1>7, <1>8, <1>9, <1>10 DEF Init, TypeOK

\* Every step keeps the types.
LEMMA NextType == TypeOK /\ [Next]_vars => TypeOK'
<1> SUFFICES ASSUME TypeOK, [Next]_vars PROVE TypeOK'
  OBVIOUS
<1>1. CASE Build
  <2>1. plan'.seqs \in SeqMap /\ plan' \in [state : {"none", "held", "lost"}, seqs : SeqMap]
    BY <1>1, SizeAssumption DEF Build, TypeOK, LedgerTypeOK, SeqMap, SeqNos, Batches
  <2>2. receipt' \in [saved : BOOLEAN, seqs : SeqMap, status : [Batches -> Status]]
    BY <1>1, <2>1, QueueType DEF Build
  <2>3. QED
    BY <1>1, <2>1, <2>2 DEF Build, TypeOK, LedgerTypeOK, ledgerVars, clientVars, boundVars
<1>2. ASSUME NEW c \in Callers, Execute(c) PROVE TypeOK'
  <2>1. 1 \in Batches /\ plan.seqs \in SeqMap
    BY SizeAssumption DEF Batches, TypeOK
  <2>2. repeated' \subseteq Batches
    BY <1>2 DEF Execute, TypeOK
  <2>3. replayed' \in BOOLEAN
    BY <1>2, Zenon DEF Execute
  <2>4. QED
    BY <1>2, <2>1, <2>2, <2>3, BeginType DEF Execute, Modes
<1>3. ASSUME NEW c \in Callers, Retry(c) PROVE TypeOK'
  <2>1. lastFailed.from \in Batches /\ lastFailed.seqs \in SeqMap
        /\ lastFailed.src \in BOOLEAN /\ lastFailed.restored \in Nat
    BY <1>3, SizeAssumption DEF Retry, TypeOK, Batches
  <2>2. repeated' \subseteq Batches /\ replayed' \in BOOLEAN
    BY <1>3 DEF Retry, TypeOK
  <2>3. QED
    BY <1>3, <2>1, <2>2, BeginType DEF Retry, Modes
<1>4. ASSUME NEW c \in Callers, Resume(c) PROVE TypeOK'
  <2>1. receipt.seqs \in SeqMap
    BY DEF TypeOK
  <2>2. repeated' \subseteq Batches /\ replayed' \in BOOLEAN
    BY <1>4 DEF Resume, TypeOK
  <2>3. QED
    BY <1>4, <2>1, <2>2, BeginType DEF Resume, Modes
<1>5. ASSUME NEW c \in Callers, SaveReceipt(c) PROVE TypeOK'
  <2>1. ReceiptOf(c) \in [saved : BOOLEAN, seqs : SeqMap, status : [Batches -> Status]]
    BY DEF ReceiptOf, TypeOK, SeqMap
  <2>2. QED
    BY <1>5, <2>1 DEF SaveReceipt, TypeOK, LedgerTypeOK, ledgerVars, clientVars, boundVars
<1>6. ASSUME NEW c \in Callers, Rebuild(c) PROVE TypeOK'
  <2>1. seqs' \in [Callers -> SeqMap] /\ stage' \in [Tx -> Stages]
    <3>1. Renumber(seqs[c], at[c]) \in SeqMap
      BY RenumberType DEF TypeOK, LedgerTypeOK
    <3>2. \A T : Submit(stage, T) \in [Tx -> Stages]
      BY SubmitType DEF TypeOK
    <3>3. seqs' \in [Callers -> SeqMap]
      <4>1. [seqs EXCEPT ![c] = Renumber(seqs[c], at[c])] \in [Callers -> SeqMap]
        BY <3>1 DEF TypeOK
      <4>2. QED BY <1>6, <4>1 DEF Rebuild, TypeOK
    <3>4. stage' \in [Tx -> Stages]
      BY <1>6, <3>2 DEF Rebuild, TypeOK
    <3>5. QED BY <3>3, <3>4
  <2>2. pc' \in [Callers -> Points] /\ result' \in [Callers -> Results]
        /\ doubtful' \subseteq Batches
    BY <1>6 DEF Rebuild, TypeOK, Points, Results
  <2>3. QED
    BY <1>6, <2>1, <2>2 DEF Rebuild, TypeOK, LedgerTypeOK, ledgerVars, boundVars
<1>7. ASSUME NEW c \in Callers, OriginalSettles(c) PROVE TypeOK'
  <2>1. pc' \in [Callers -> Points] /\ result' \in [Callers -> Results]
    BY <1>7 DEF OriginalSettles, TypeOK, Points, Results
  <2>2. QED
    BY <1>7, <2>1 DEF OriginalSettles, TypeOK, LedgerTypeOK, ledgerVars, boundVars
<1>8. ASSUME NEW t \in Tx, Submission(t) PROVE TypeOK'
  <2>0. t[1] \in Batches
    BY DEF Tx
  <2>1. ASSUME SettleOk(t), UNCHANGED <<ledgerVars, plan, receipt, doubtful, boundVars>>
        PROVE  TypeOK'
    BY <2>1, SettleOkType DEF TypeOK, LedgerTypeOK, ledgerVars, boundVars
  <2>2. ASSUME NEW o, SettleFailed(t, o), doubtful' \subseteq Batches,
               UNCHANGED <<ledgerVars, plan, receipt, boundVars>>
        PROVE  TypeOK'
    BY <2>2, SettleFailedType DEF TypeOK, LedgerTypeOK, ledgerVars, boundVars
  <2>3. CASE Sign(t)
    <3>1. CASE SettleFailed(t, "error")
      BY <2>3, <3>1, <2>2 DEF Sign, TypeOK
    <3>2. CASE ~SettleFailed(t, "error")
      <4>0. 1 \in 0..MaxRetries + 1
        BY ParameterAssumption
      <4>1. stage' \in [Tx -> Stages] /\ tries' \in [Tx -> 0..MaxRetries + 1]
        BY <2>3, <3>2, <4>0 DEF Sign, TypeOK, Stages
      <4>2. QED
        BY <2>3, <3>2, <4>1 DEF Sign, TypeOK, LedgerTypeOK, ledgerVars, boundVars
    <3>3. QED BY <3>1, <3>2
  <2>4. CASE SendAccepted(t)
    <3>1. stage' \in [Tx -> Stages] /\ mempool' \subseteq Tx
      BY <2>4 DEF SendAccepted, TypeOK, LedgerTypeOK, Stages
    <3>2. QED
      BY <2>4, <3>1 DEF SendAccepted, TypeOK, LedgerTypeOK, boundVars
  <2>5. CASE SendRejected(t)
    BY <2>5, <2>2 DEF SendRejected, TypeOK
  <2>6. CASE SendLost(t)
    <3>1. stage' \in [Tx -> Stages] /\ mempool' \subseteq Tx
      BY <2>6 DEF SendLost, TypeOK, LedgerTypeOK, Stages
    <3>2. tries' \in [Tx -> 0..MaxRetries + 1]
      BY <2>6, ParameterAssumption, SMTT(30) DEF SendLost, NextTry, TypeOK
    <3>3. doubtful' \subseteq Batches
      BY <2>6, <2>0 DEF SendLost, Unseen, TypeOK
    <3>4. QED
      BY <2>6, <3>1, <3>2, <3>3, SMTT(30) DEF SendLost, TypeOK, LedgerTypeOK, boundVars
  <2>7. CASE Reconcile(t)
    BY <2>7, <2>1, <2>2 DEF Reconcile, TypeOK
  <2>8. CASE Confirm(t)
    BY <2>8, <2>1, <2>2 DEF Confirm, TypeOK
  <2>9. CASE GiveUp(t)
    <3>1. doubtful' \subseteq Batches
      BY <2>9, <2>0 DEF GiveUp, Unseen, TypeOK
    <3>2. QED BY <2>9, <3>1, <2>2 DEF GiveUp
  <2>10. QED
    BY <1>8, <2>3, <2>4, <2>5, <2>6, <2>7, <2>8, <2>9 DEF Submission
<1>9. CASE Environment
  <2>1. LedgerTypeOK'
    <3>1. CASE OtherTx
      BY <3>1, SizeAssumption DEF OtherTx, TypeOK, LedgerTypeOK
    <3>2. ASSUME NEW t \in mempool, Include(t) PROVE LedgerTypeOK'
      BY <3>2, SizeAssumption DEF Include, TypeOK, LedgerTypeOK
    <3>3. ASSUME NEW t \in mempool, Evict(t) PROVE LedgerTypeOK'
      BY <3>3 DEF Evict, TypeOK, LedgerTypeOK
    <3>4. QED BY <1>9, <3>1, <3>2, <3>3 DEF Environment, LedgerNext
  <2>2. QED
    BY <1>9, <2>1 DEF Environment, TypeOK, clientVars, boundVars
<1>10. CASE Crash
  <2>1. plan' \in [state : {"none", "held", "lost"}, seqs : SeqMap]
    BY <1>10 DEF Crash, TypeOK
  <2>2. lastFailed' \in [from : 0..N, src : BOOLEAN, seqs : SeqMap, restored : Nat]
    BY <1>10, SizeAssumption DEF Crash, TypeOK, NoFailure
  <2>3. /\ pc' \in [Callers -> Points]
        /\ result' \in [Callers -> Results]
        /\ stage' \in [Tx -> Stages]
        /\ doubtful' \subseteq Batches
        /\ crashes' \in 0..MaxCrashes
    BY <1>10, ParameterAssumption DEF Crash, TypeOK, Points, Results, Stages
  <2>4. QED
    BY <1>10, <2>1, <2>2, <2>3 DEF Crash, TypeOK, LedgerTypeOK, ledgerVars
<1>11. CASE UNCHANGED vars
  BY <1>11 DEF vars, ledgerVars, clientVars, boundVars, TypeOK, LedgerTypeOK
<1>12. QED
  BY <1>1, <1>2, <1>3, <1>4, <1>5, <1>6, <1>7, <1>8, <1>9, <1>10, <1>11
     DEF Next, Application, Continue

\* Every variable keeps its type, for every value of the constants.
THEOREM TypeCorrect == Spec => []TypeOK
<1>1. QED BY InitType, NextType, PTL DEF Spec

-----------------------------------------------------------------------------
(* The inductive invariant.  SuccessIsLanded alone is not inductive: a call *)
(* that retries or resumes starts from a FailedRestoreState or a receipt,   *)
(* and a refresh renumbers the batches it has not executed, so the          *)
(* invariant also says what those hold and where a running call stands.     *)

\* A running call has restored the batches before the current one and none
\* after it.
QueueInv ==
  \A c \in Callers : pc[c] \in {"await", "refresh"} => status[c] = QueueFrom(at[c])

\* What a FailedRestoreState leaves out is in a ledger.
FailureInv ==
  \A b \in Batches : b < lastFailed.from => <<b, lastFailed.seqs[b]>> \in applied

\* A call that returned success has every batch marked.
ResultInv ==
  \A c \in Callers : result[c] = "success" =>
    \A b \in Batches : status[c][b] = "success"

\* With requireAllBatches the original follows only a success.
OriginalInv ==
  \A c \in Callers :
    pc[c] = "original" /\ mode[c] = "originalAll" => result[c] = "success"

\* A transaction is submitted, waits and lands only after the batches before
\* its own are restored.
PrefixInv ==
  \A t \in Tx : stage[t] # "none" \/ t \in mempool \cup applied =>
    \A a \in Batches : a < t[1] => Landed(a)

IInv ==
  /\ SuccessIsLanded /\ QueueInv /\ FailureInv
  /\ ResultInv /\ OriginalInv /\ PrefixInv

\* Executing a batch moves the queue's boundary by one.
LEMMA QueueStep ==
  ASSUME NEW k \in Batches
  PROVE  [QueueFrom(k) EXCEPT ![k] = "success"] = QueueFrom(k + 1)
<1> DEFINE f == [QueueFrom(k) EXCEPT ![k] = "success"]
           g == QueueFrom(k + 1)
<1>1. f = [b \in Batches |-> f[b]] /\ g = [b \in Batches |-> g[b]]
  BY DEF QueueFrom
<1>2. ASSUME NEW b \in Batches PROVE f[b] = g[b]
  BY SizeAssumption DEF QueueFrom, Batches
<1>3. QED BY <1>1, <1>2, Zenon

\* Submitting touches only the submitted transactions.
LEMMA SubmitStep ==
  ASSUME NEW st, NEW T, NEW t \in Tx, Submit(st, T)[t] # "none"
  PROVE  st[t] # "none" \/ t \in T
  BY DEF Submit

\* What a running call submits next has its predecessors restored.
LEMMA RunningPrefix ==
  ASSUME TypeOK, IInv, NEW c \in Callers, pc[c] \in {"await", "refresh"},
         NEW a \in Batches, a < at[c]
  PROVE  Landed(a)
<1>1. status[c][a] = "success"
  BY DEF IInv, QueueInv, QueueFrom
<1>2. QED BY <1>1 DEF IInv, SuccessIsLanded, Landed

\* A successful settlement keeps the invariant.
LEMMA SettleOkInv ==
  ASSUME TypeOK, IInv, NEW t \in Tx, t \in applied, SettleOk(t),
         UNCHANGED <<ledgerVars, receipt>>
  PROVE  IInv'
<1> DEFINE J == Joined(t)
<1>0. /\ J \subseteq Callers
      /\ \A c \in J : pc[c] = "await" /\ at[c] = t[1] /\ t = <<at[c], seqs[c][at[c]]>>
      /\ t[1] \in Batches /\ t = <<t[1], t[2]>>
      /\ UNCHANGED <<applied, mempool, seqs, mode, receipt>>
  BY DEF Joined, TxOf, Tx, SettleOk, ledgerVars
<1>1. SuccessIsLanded'
  <2>1. ASSUME NEW c \in Callers, NEW b \in Batches, status'[c][b] = "success"
        PROVE  <<b, seqs[c][b]>> \in applied
    <3>1. CASE c \in J /\ b = t[1]
      BY <1>0, <3>1
    <3>2. CASE ~(c \in J /\ b = t[1])
      <4>1. status[c][b] = "success"
        BY <2>1, <3>2 DEF SettleOk, TypeOK
      <4>2. QED BY <4>1 DEF IInv, SuccessIsLanded
    <3>3. QED BY <3>1, <3>2
  <2>2. QED BY <2>1, <1>0 DEF IInv, SuccessIsLanded
<1>2. QueueInv'
  <2> SUFFICES ASSUME NEW c \in Callers, pc'[c] \in {"await", "refresh"}
               PROVE  status'[c] = QueueFrom(at'[c])
    BY DEF QueueInv, QueueFrom
  <2>1. CASE c \in J
    <3>1. t[1] # N
      BY <2>1 DEF SettleOk, AfterLast
    <3>2. at'[c] = t[1] + 1
      BY <1>0, <2>1, <3>1, SizeAssumption, SMTT(30) DEF SettleOk, NextAt, Batches
    <3>3. status'[c] = [QueueFrom(t[1]) EXCEPT ![t[1]] = "success"]
      BY <1>0, <2>1 DEF SettleOk, IInv, QueueInv
    <3>4. QED BY <1>0, <3>2, <3>3, QueueStep
  <2>2. CASE c \notin J
    BY <2>2 DEF SettleOk, IInv, QueueInv
  <2>3. QED BY <2>1, <2>2
<1>3. FailureInv'
  <2>1. CASE J # {} /\ t[1] = N
    BY <2>1, SizeAssumption DEF SettleOk, NoFailure, FailureInv, Batches
  <2>2. CASE ~(J # {} /\ t[1] = N)
    BY <1>0, <2>2 DEF SettleOk, IInv, FailureInv
  <2>3. QED BY <2>1, <2>2
<1>4. ResultInv'
  <2> SUFFICES ASSUME NEW c \in Callers, result'[c] = "success", NEW b \in Batches
               PROVE  status'[c][b] = "success"
    BY DEF ResultInv
  <2>1. CASE c \in J /\ t[1] = N
    <3>1. status[c] = QueueFrom(N)
      BY <1>0, <2>1 DEF IInv, QueueInv
    <3>2. status'[c] = [status[c] EXCEPT ![N] = "success"]
      BY <2>1 DEF SettleOk
    <3>3. b < N \/ b = N
      BY SizeAssumption DEF Batches
    <3>4. QED BY <3>1, <3>2, <3>3 DEF QueueFrom
  <2>2. CASE ~(c \in J /\ t[1] = N)
    <3>1. result[c] = "success"
      BY <2>2 DEF SettleOk
    <3>2. status[c][b] = "success"
      BY <3>1 DEF IInv, ResultInv
    <3>3. QED BY <3>2 DEF SettleOk, TypeOK
  <2>3. QED BY <2>1, <2>2
<1>5. OriginalInv'
  <2> SUFFICES ASSUME NEW c \in Callers, pc'[c] = "original", mode[c] = "originalAll"
               PROVE  result'[c] = "success"
    BY <1>0 DEF OriginalInv
  <2>1. CASE c \in J /\ t[1] = N
    BY <2>1 DEF SettleOk
  <2>2. CASE ~(c \in J /\ t[1] = N)
    BY <2>2 DEF SettleOk, IInv, OriginalInv
  <2>3. QED BY <2>1, <2>2
<1>6. PrefixInv'
  <2> SUFFICES ASSUME NEW u \in Tx, stage'[u] # "none" \/ u \in mempool \cup applied,
                      NEW a \in Batches, a < u[1]
               PROVE  Landed(a)
    BY <1>0 DEF PrefixInv, Landed
  <2>1. CASE stage[u] # "none" \/ u \in mempool \cup applied
    BY <2>1 DEF IInv, PrefixInv
  <2>2. CASE \E c \in J : t[1] # N /\ u = <<t[1] + 1, seqs[c][t[1] + 1]>>
    <3>1. a < t[1] \/ a = t[1]
      BY <1>0, <2>2 DEF Batches
    <3>2. QED BY <1>0, <3>1 DEF IInv, PrefixInv, Landed
  <2>3. \/ Close(t)[u] # "none" \/ u \in mempool \cup applied
        \/ \E c \in J : t[1] # N /\ u = <<t[1] + 1, seqs[c][t[1] + 1]>>
    BY SubmitStep DEF SettleOk
  <2>4. Close(t)[u] # "none" => stage[u] # "none"
    BY DEF Close, TypeOK
  <2>5. QED BY <2>1, <2>2, <2>3, <2>4
<1>7. QED BY <1>1, <1>2, <1>3, <1>4, <1>5, <1>6 DEF IInv

\* A failing settlement keeps the invariant.
LEMMA SettleFailedInv ==
  ASSUME TypeOK, IInv, NEW t \in Tx, NEW o, SettleFailed(t, o),
         UNCHANGED <<ledgerVars, receipt>>
  PROVE  IInv'
<1> DEFINE J == Joined(t)
           R == {c \in J : MayRefresh(c, o)}
           F == J \ R
<1>0. /\ J \subseteq Callers
      /\ \A c \in J : pc[c] = "await" /\ at[c] = t[1]
      /\ UNCHANGED <<applied, mempool, seqs, mode, at, receipt>>
  BY DEF Joined, TxOf, Tx, SettleFailed, ledgerVars
<1>1. SuccessIsLanded'
  <2>1. ASSUME NEW c \in Callers, NEW b \in Batches, status'[c][b] = "success"
        PROVE  status[c][b] = "success"
    BY <2>1 DEF SettleFailed, TypeOK
  <2>2. QED BY <2>1, <1>0 DEF IInv, SuccessIsLanded
<1>2. QueueInv'
  <2> SUFFICES ASSUME NEW c \in Callers, pc'[c] \in {"await", "refresh"}
               PROVE  status'[c] = QueueFrom(at[c])
    BY <1>0 DEF QueueInv, QueueFrom
  <2>1. c \notin F
    BY DEF SettleFailed, AfterFailure
  <2>2. pc[c] \in {"await", "refresh"}
    BY <1>0, <2>1 DEF SettleFailed
  <2>3. QED BY <2>1, <2>2 DEF SettleFailed, IInv, QueueInv
<1>3. FailureInv'
  <2>1. CASE UNCHANGED lastFailed
    BY <1>0, <2>1 DEF IInv, FailureInv
  <2>2. ASSUME NEW c \in F, lastFailed' = FailureOf(c), NEW b \in Batches, b < at[c]
        PROVE  <<b, seqs[c][b]>> \in applied
    <3>1. status[c][b] = "success"
      BY <1>0, <2>2 DEF IInv, QueueInv, QueueFrom
    <3>2. QED BY <1>0, <3>1 DEF IInv, SuccessIsLanded
  <2>3. QED
    BY <1>0, <2>1, <2>2 DEF SettleFailed, FailureOf, FailureInv
<1>4. ResultInv'
  <2> SUFFICES ASSUME NEW c \in Callers, result'[c] = "success", NEW b \in Batches
               PROVE  status'[c][b] = "success"
    BY DEF ResultInv
  <2>1. c \notin F /\ result[c] = "success"
    BY DEF SettleFailed
  <2>2. QED BY <2>1 DEF SettleFailed, IInv, ResultInv
<1>5. OriginalInv'
  <2> SUFFICES ASSUME NEW c \in Callers, pc'[c] = "original", mode[c] = "originalAll"
               PROVE  result'[c] = "success"
    BY <1>0 DEF OriginalInv
  <2>1. c \notin J
    BY DEF SettleFailed, AfterFailure, Proceeds
  <2>2. QED BY <2>1 DEF SettleFailed, IInv, OriginalInv
<1>6. PrefixInv'
  <2>1. \A u \in Tx : stage'[u] # "none" => stage[u] # "none"
    BY DEF SettleFailed, Close, TypeOK
  <2>2. QED BY <1>0, <2>1 DEF IInv, PrefixInv, Landed
<1>7. QED BY <1>1, <1>2, <1>3, <1>4, <1>5, <1>6 DEF IInv

\* Starting a call keeps the invariant, when what precedes its queue is in a
\* ledger under the numbers it starts with.
LEMMA BeginInv ==
  ASSUME TypeOK, IInv, NEW c \in Callers, NEW m \in Modes, NEW s \in BOOLEAN,
         NEW first \in Batches, NEW numbers \in SeqMap, NEW done \in Nat,
         NEW where \in {"await", "refresh"},
         \A b \in Batches : b < first => <<b, numbers[b]>> \in applied,
         Begin(c, m, s, first, numbers, done, where)
  PROVE  IInv'
<1>0. UNCHANGED <<applied, mempool, lastFailed, receipt>>
  BY DEF Begin, ledgerVars
<1>1. SuccessIsLanded'
  <2>1. ASSUME NEW d \in Callers, NEW b \in Batches, status'[d][b] = "success"
        PROVE  <<b, seqs'[d][b]>> \in applied
    <3>1. CASE d = c
      BY <2>1, <3>1 DEF Begin, QueueFrom, TypeOK
    <3>2. CASE d # c
      BY <2>1, <3>2 DEF Begin, IInv, SuccessIsLanded, TypeOK
    <3>3. QED BY <3>1, <3>2
  <2>2. QED BY <2>1, <1>0 DEF IInv, SuccessIsLanded
<1>2. QueueInv'
  <2> SUFFICES ASSUME NEW d \in Callers, pc'[d] \in {"await", "refresh"}
               PROVE  status'[d] = QueueFrom(at'[d])
    BY DEF QueueInv, QueueFrom
  <2>1. CASE d = c
    BY <2>1 DEF Begin, TypeOK
  <2>2. CASE d # c
    BY <2>2 DEF Begin, IInv, QueueInv, TypeOK
  <2>3. QED BY <2>1, <2>2
<1>3. FailureInv'
  BY <1>0 DEF IInv, FailureInv
<1>4. ResultInv'
  BY DEF Begin, IInv, ResultInv, TypeOK
<1>5. OriginalInv'
  BY DEF Begin, IInv, OriginalInv, TypeOK
<1>6. PrefixInv'
  <2> SUFFICES ASSUME NEW u \in Tx, stage'[u] # "none" \/ u \in mempool \cup applied,
                      NEW a \in Batches, a < u[1]
               PROVE  Landed(a)
    BY <1>0 DEF PrefixInv, Landed
  <2>1. stage[u] # "none" \/ u \in mempool \cup applied \/ u = <<first, numbers[first]>>
    BY SubmitStep DEF Begin
  <2>2. CASE u = <<first, numbers[first]>>
    BY <2>2 DEF Landed
  <2>3. QED BY <2>1, <2>2 DEF IInv, PrefixInv
<1>7. QED BY <1>1, <1>2, <1>3, <1>4, <1>5, <1>6 DEF IInv

\* The initial state satisfies the invariant.
LEMMA InitInv == Init => IInv
<1> SUFFICES ASSUME Init PROVE IInv
  OBVIOUS
<1>1. \A b \in Batches : QueueFrom(1)[b] = "pending"
  BY DEF QueueFrom, Batches
<1>2. SuccessIsLanded
  BY <1>1 DEF Init, SuccessIsLanded
<1>3. QueueInv /\ ResultInv /\ OriginalInv
  BY DEF Init, QueueInv, ResultInv, OriginalInv
<1>4. FailureInv
  BY DEF Init, FailureInv, NoFailure, Batches
<1>5. PrefixInv
  BY DEF Init, PrefixInv, LedgerInit
<1>6. QED BY <1>2, <1>3, <1>4, <1>5 DEF IInv

\* A step of a submission keeps the invariant.
LEMMA SubmissionInv ==
  ASSUME TypeOK, IInv, NEW t \in Tx, Submission(t)
  PROVE  IInv'
<1>1. ASSUME stage[t] # "none", \A u \in Tx : u # t => stage'[u] = stage[u],
             mempool' \subseteq mempool \cup {t},
             UNCHANGED <<applied, pc, mode, at, seqs, status, result, lastFailed, receipt>>
      PROVE  IInv'
  <2>1. SuccessIsLanded'
    BY <1>1 DEF IInv, SuccessIsLanded
  <2>2. QueueInv' /\ ResultInv' /\ OriginalInv' /\ FailureInv'
    BY <1>1 DEF IInv, QueueInv, QueueFrom, ResultInv, OriginalInv, FailureInv
  <2>3. PrefixInv'
    BY <1>1 DEF IInv, PrefixInv, Landed
  <2>4. QED BY <2>1, <2>2, <2>3 DEF IInv
<1>2. CASE Sign(t)
  <2>1. CASE SettleFailed(t, "error")
    BY <1>2, <2>1, SettleFailedInv DEF Sign
  <2>2. CASE ~SettleFailed(t, "error")
    BY <1>1, <1>2, <2>2 DEF Sign, TypeOK, ledgerVars
  <2>3. QED BY <2>1, <2>2
<1>3. CASE SendAccepted(t)
  BY <1>1, <1>3 DEF SendAccepted, TypeOK
<1>4. CASE SendRejected(t)
  BY <1>4, SettleFailedInv DEF SendRejected
<1>5. CASE SendLost(t)
  BY <1>1, <1>5 DEF SendLost, TypeOK
<1>6. CASE Reconcile(t)
  BY <1>6, SettleOkInv, SettleFailedInv DEF Reconcile, FoundSuccess
<1>7. CASE Confirm(t)
  BY <1>7, SettleOkInv, SettleFailedInv DEF Confirm, PolledSuccess
<1>8. CASE GiveUp(t)
  BY <1>8, SettleFailedInv DEF GiveUp
<1>9. QED
  BY <1>2, <1>3, <1>4, <1>5, <1>6, <1>7, <1>8 DEF Submission

\* Every step keeps the invariant.
LEMMA NextInv == TypeOK /\ IInv /\ [Next]_vars => IInv'
<1> SUFFICES ASSUME TypeOK, IInv, [Next]_vars PROVE IInv'
  OBVIOUS
<1>1. CASE Build
  <2>1. UNCHANGED <<applied, mempool, stage, pc, mode, at, seqs, status, result, lastFailed>>
    BY <1>1 DEF Build, ledgerVars, clientVars
  <2>2. \A b \in Batches : receipt'.status[b] # "success"
    BY <1>1 DEF Build, QueueFrom, Batches
  <2>3. SuccessIsLanded' /\ FailureInv'
    BY <2>1, <2>2 DEF IInv, SuccessIsLanded, FailureInv
  <2>4. QueueInv' /\ ResultInv' /\ OriginalInv' /\ PrefixInv'
    BY <2>1 DEF IInv, QueueInv, QueueFrom, ResultInv, OriginalInv, PrefixInv, Landed
  <2>5. QED BY <2>3, <2>4 DEF IInv
<1>2. ASSUME NEW c \in Callers, Execute(c) PROVE IInv'
  <2>1. /\ 1 \in Batches /\ plan.seqs \in SeqMap
        /\ \A b \in Batches : ~(b < 1)
    BY SizeAssumption DEF Batches, TypeOK
  <2>2. QED BY <1>2, <2>1, BeginInv DEF Execute, Modes
<1>3. ASSUME NEW c \in Callers, Retry(c) PROVE IInv'
  <2>1. /\ lastFailed.from \in Batches /\ lastFailed.seqs \in SeqMap
        /\ lastFailed.src \in BOOLEAN /\ lastFailed.restored \in Nat
    BY <1>3, SizeAssumption DEF Retry, TypeOK, Batches
  <2>2. \A b \in Batches : b < lastFailed.from => <<b, lastFailed.seqs[b]>> \in applied
    BY DEF IInv, FailureInv
  <2>3. QED BY <1>3, <2>1, <2>2, BeginInv DEF Retry, Modes
<1>4. ASSUME NEW c \in Callers, Resume(c) PROVE IInv'
  <2>1. PICK first \in Batches :
          /\ \A b \in Batches : b < first => ~Outstanding(b)
          /\ Begin(c, "resume", TRUE, first, receipt.seqs, 0, "await")
    BY <1>4 DEF Resume
  <2>2. \A b \in Batches : b < first => <<b, receipt.seqs[b]>> \in applied
    BY <2>1 DEF Outstanding, IInv, SuccessIsLanded
  <2>3. receipt.seqs \in SeqMap
    BY DEF TypeOK
  <2>4. QED BY <2>1, <2>2, <2>3, BeginInv DEF Modes
<1>5. ASSUME NEW c \in Callers, SaveReceipt(c) PROVE IInv'
  <2>1. /\ UNCHANGED <<applied, mempool, stage, pc, mode, at, seqs, status, result, lastFailed>>
        /\ receipt' = ReceiptOf(c)
    BY <1>5 DEF SaveReceipt, ledgerVars, clientVars
  <2>2. \A b \in Batches :
          receipt'.status[b] = "success" => <<b, receipt'.seqs[b]>> \in applied
    BY <2>1 DEF ReceiptOf, IInv, SuccessIsLanded
  <2>3. SuccessIsLanded' /\ FailureInv'
    BY <2>1, <2>2 DEF IInv, SuccessIsLanded, FailureInv
  <2>4. QueueInv' /\ ResultInv' /\ OriginalInv' /\ PrefixInv'
    BY <2>1 DEF IInv, QueueInv, QueueFrom, ResultInv, OriginalInv, PrefixInv, Landed
  <2>5. QED BY <2>3, <2>4 DEF IInv
<1>6. ASSUME NEW c \in Callers, Rebuild(c) PROVE IInv'
  <2>0. /\ UNCHANGED <<applied, mempool, mode, at, status, lastFailed, receipt>>
        /\ pc[c] = "refresh"
        /\ \A d \in Callers : d # c => seqs'[d] = seqs[d] /\ pc'[d] = pc[d]
                                       /\ result'[d] = result[d]
        /\ result'[c] = result[c] \/ result'[c] = "threw"
    BY <1>6 DEF Rebuild, ledgerVars, TypeOK
  <2>1. \A b \in Batches : b < at[c] => seqs'[c][b] = seqs[c][b]
    BY <1>6 DEF Rebuild, Renumber, TypeOK
  <2>2. \A b \in Batches : status[c][b] = "success" => b < at[c]
    BY <2>0 DEF IInv, QueueInv, QueueFrom
  <2>3. SuccessIsLanded'
    BY <2>0, <2>1, <2>2 DEF IInv, SuccessIsLanded
  <2>4. QueueInv'
    <3> SUFFICES ASSUME NEW d \in Callers, pc'[d] \in {"await", "refresh"}
                 PROVE  status[d] = QueueFrom(at[d])
      BY <2>0 DEF QueueInv, QueueFrom
    <3>1. pc[d] \in {"await", "refresh"}
      BY <2>0
    <3>2. QED BY <3>1 DEF IInv, QueueInv
  <2>5. FailureInv' /\ ResultInv'
    BY <2>0 DEF IInv, FailureInv, ResultInv
  <2>6. OriginalInv'
    BY <1>6, <2>0 DEF IInv, OriginalInv, Rebuild, TypeOK
  <2>7. PrefixInv'
    <3> SUFFICES ASSUME NEW u \in Tx, stage'[u] # "none" \/ u \in mempool \cup applied,
                        NEW a \in Batches, a < u[1]
                 PROVE  Landed(a)
      BY <2>0 DEF PrefixInv, Landed
    <3>1. stage[u] # "none" \/ u \in mempool \cup applied \/ u[1] = at[c]
      BY <1>6, SubmitStep DEF Rebuild
    <3>2. CASE u[1] = at[c]
      BY <2>0, <3>2, RunningPrefix
    <3>3. QED BY <3>1, <3>2 DEF IInv, PrefixInv
  <2>8. QED BY <2>3, <2>4, <2>5, <2>6, <2>7 DEF IInv
<1>7. ASSUME NEW c \in Callers, OriginalSettles(c) PROVE IInv'
  <2>0. /\ UNCHANGED <<applied, mempool, stage, mode, at, seqs, status, lastFailed, receipt>>
        /\ \A d \in Callers : d # c => pc'[d] = pc[d] /\ result'[d] = result[d]
        /\ pc'[c] = "returned"
        /\ result'[c] = result[c] \/ result'[c] = "threw"
    BY <1>7 DEF OriginalSettles, ledgerVars, TypeOK
  <2>1. SuccessIsLanded' /\ FailureInv'
    BY <2>0 DEF IInv, SuccessIsLanded, FailureInv
  <2>2. QueueInv' /\ PrefixInv'
    BY <2>0 DEF IInv, QueueInv, QueueFrom, PrefixInv, Landed
  <2>3. ResultInv' /\ OriginalInv'
    BY <2>0 DEF IInv, ResultInv, OriginalInv
  <2>4. QED BY <2>1, <2>2, <2>3 DEF IInv
<1>8. ASSUME NEW t \in Tx, Submission(t) PROVE IInv'
  BY <1>8, SubmissionInv
<1>9. CASE Environment
  <2>0. UNCHANGED <<stage, pc, mode, at, seqs, status, result, lastFailed, receipt>>
    BY <1>9 DEF Environment, clientVars
  <2>1. /\ applied \subseteq applied'
        /\ mempool' \cup applied' \subseteq mempool \cup applied
    BY <1>9 DEF Environment, LedgerNext, OtherTx, Include, Evict
  <2>2. SuccessIsLanded' /\ FailureInv'
    BY <2>0, <2>1 DEF IInv, SuccessIsLanded, FailureInv
  <2>3. QueueInv' /\ ResultInv' /\ OriginalInv'
    BY <2>0 DEF IInv, QueueInv, QueueFrom, ResultInv, OriginalInv
  <2>4. PrefixInv'
    BY <2>0, <2>1 DEF IInv, PrefixInv, Landed
  <2>5. QED BY <2>2, <2>3, <2>4 DEF IInv
<1>10. CASE Crash
  <2>0. /\ UNCHANGED <<applied, mempool, mode, at, seqs, status, receipt>>
        /\ \A c \in Callers : pc'[c] = "idle" /\ result'[c] = "none"
        /\ \A t \in Tx : stage'[t] = "none"
        /\ lastFailed'.from = 0
    BY <1>10 DEF Crash, ledgerVars, NoFailure
  <2>1. SuccessIsLanded' /\ FailureInv'
    BY <2>0 DEF IInv, SuccessIsLanded, FailureInv, Batches
  <2>2. QueueInv' /\ ResultInv' /\ OriginalInv'
    BY <2>0 DEF QueueInv, ResultInv, OriginalInv
  <2>3. PrefixInv'
    BY <2>0 DEF IInv, PrefixInv, Landed
  <2>4. QED BY <2>1, <2>2, <2>3 DEF IInv
<1>11. CASE UNCHANGED vars
  BY <1>11 DEF vars, ledgerVars, clientVars, IInv, SuccessIsLanded, QueueInv,
     QueueFrom, FailureInv, ResultInv, OriginalInv, PrefixInv, Landed
<1>12. QED
  BY <1>1, <1>2, <1>3, <1>4, <1>5, <1>6, <1>7, <1>8, <1>9, <1>10, <1>11
     DEF Next, Application, Continue

-----------------------------------------------------------------------------
(* The theorems.                                                           *)

\* The inductive invariant holds throughout.
THEOREM Invariance == Spec => [](TypeOK /\ IInv)
<1>1. Init => TypeOK /\ IInv
  BY InitType, InitInv
<1>2. (TypeOK /\ IInv) /\ [Next]_vars => (TypeOK /\ IInv)'
  BY NextType, NextInv
<1>3. QED BY <1>1, <1>2, PTL DEF Spec

\* Whatever a call, a FailedRestoreState or a receipt counts as restored is
\* in a ledger.
THEOREM RestoredIsLanded == Spec => []SuccessIsLanded
<1>1. IInv => SuccessIsLanded  BY DEF IInv
<1>2. QED BY <1>1, Invariance, PTL

\* getFailedKeys() leaves out restored batches only.
THEOREM RetryIsEnough == Spec => []RetryCoversPlan
<1>1. IInv => RetryCoversPlan  BY DEF IInv, FailureInv, RetryCoversPlan, Landed
<1>2. QED BY <1>1, Invariance, PTL

\* A call that reports success leaves the whole plan restored.
THEOREM SuccessIsComplete == Spec => []SuccessMeansRestored
<1>1. IInv => SuccessMeansRestored
  BY DEF IInv, ResultInv, SuccessIsLanded, SuccessMeansRestored, Landed
<1>2. QED BY <1>1, Invariance, PTL

\* With requireAllBatches the original transaction is submitted last.
THEOREM OriginalComesLast == Spec => []OriginalNeedsAllBatches
<1>1. IInv => OriginalNeedsAllBatches
  BY DEF IInv, OriginalInv, ResultInv, SuccessIsLanded, OriginalNeedsAllBatches, Landed
<1>2. QED BY <1>1, Invariance, PTL

\* Batches land in plan order.
THEOREM PlanOrder == Spec => []LandedInOrder
<1>1. TypeOK /\ IInv => LandedInOrder
  <2> SUFFICES ASSUME TypeOK, IInv, NEW a \in Batches, NEW b \in Batches,
                      a < b, Landed(b)
               PROVE  Landed(a)
    BY DEF LandedInOrder
  <2>1. PICK t \in applied : t[1] = b
    BY DEF Landed
  <2>2. t \in Tx
    BY DEF TypeOK, LedgerTypeOK
  <2>3. QED BY <2>1, <2>2 DEF IInv, PrefixInv
<1>2. QED BY <1>1, Invariance, PTL

-----------------------------------------------------------------------------
(* One call at a time.  Whether a batch can be paid for twice depends on    *)
(* what the caller knows of every transaction it ever built, so the         *)
(* invariant follows each of them: through the mempool, into a ledger, and  *)
(* into the place the next call starts from (the results of the last call,  *)
(* _lastFailedRestoreState or the receipt).                                 *)

\* The batches that may be paid for twice: in doubt, or executed again although
\* a call had returned them as restored.
Excused == doubtful \cup repeated

\* A node holds the account's next sequence number only, and a number a
\* ledger consumed carries one outcome.
SequenceInv ==
  /\ \A t \in mempool : t[2] = acctSeq + 1
  /\ \A t \in applied \cup refused : t[2] <= acctSeq
  /\ applied \cap refused = {}

\* The one submission in flight is the one the call awaits.
StageInv(c) ==
  \A t \in Tx : stage[t] # "none" => pc[c] = "await" /\ t = TxOf(c)

\* A transaction the node holds is being waited for, or its batch is excused.
PendingInv ==
  \A t \in mempool : t[1] \notin Excused => stage[t] = "waiting"

\* A transaction in a ledger is being waited for, or it counts as restored
\* where the next call looks, or its batch is excused.
KnownInv(c) ==
  \A t \in applied : t[1] \notin Excused =>
    \/ stage[t] = "waiting"
    \/ pc[c] = "idle" /\ receipt.status[t[1]] = "success"
    \/ pc[c] # "idle" /\ status[c][t[1]] = "success"

\* The restored batches are a prefix of the plan.
ShapeInv(c) ==
  \A a, b \in Batches : a < b =>
    /\ status[c][b] = "success" => status[c][a] = "success"
    /\ receipt.status[b] = "success" => receipt.status[a] = "success"

\* Nothing runs before the plan is built, and nothing is restored before the
\* first call of a plan the application still holds.
PlanInv(c) ==
  /\ plan.state = "none" => ~receipt.saved /\ pc[c] = "idle"
  /\ plan.state # "lost" /\ pc[c] = "idle" =>
       \A b \in Batches : receipt.status[b] # "success"

\* A failed call stands at the batch that failed, and what a call that threw
\* forgets is in doubt.
OutcomeInv(c) ==
  /\ pc[c] = "idle" => lastFailed.from = 0
  /\ pc[c] = "original" => mode[c] \in {"originalAll", "originalAny"}
  /\ pc[c] \in {"original", "returned"} <=> result[c] # "none"
  /\ result[c] # "none" /\ lastFailed.from # 0 =>
       \A b \in Batches :
         status[c][b] = "success" => b \in doubtful \/ b < lastFailed.from
  /\ result[c] = "threw" /\ mode[c] \notin {"originalAll", "originalAny"} =>
       \A b \in Batches : status[c][b] = "success" => b \in doubtful
  /\ result[c] = "failed" =>
       /\ \A b \in Batches : status[c][b] = "success" <=> b < at[c]
       /\ status[c][at[c]] # "pending"

\* Without a crash and a plan executed again, what the node holds is the
\* transaction the call stands at, and a FailedRestoreState leads a retry back
\* to it.
LiveInv(c) ==
  crashes = 0 /\ ~replayed => \A u \in mempool :
    /\ pc[c] # "idle" /\ u = TxOf(c)
    /\ pc[c] = "refresh" => mode[c] = "retry"
    /\ pc[c] # "await" /\ lastFailed.from # 0 =>
         u = <<lastFailed.from, lastFailed.seqs[lastFailed.from]>>
    /\ result[c] = "threw" => mode[c] \notin {"batches", "resume"}

SoloInv(c) ==
  /\ SequenceInv /\ StageInv(c) /\ DoubleOnlyAfterDoubt /\ PendingInv
  /\ KnownInv(c) /\ ShapeInv(c) /\ PlanInv(c) /\ OutcomeInv(c) /\ LiveInv(c)

\* What a successful settlement does to the only call.
LEMMA SoloSettleOk ==
  ASSUME TypeOK, NEW c, Callers = {c}, StageInv(c), NEW t \in Tx,
         stage[t] # "none", SettleOk(t)
  PROVE  /\ pc[c] = "await" /\ at[c] = t[1] /\ t = TxOf(c)
         /\ status'[c] = [status[c] EXCEPT ![t[1]] = "success"]
         /\ UNCHANGED <<mode, seqs>>
         /\ t[1] = N => /\ pc'[c] \in {"original", "returned"}
                        /\ pc'[c] = "original" => mode[c] \in {"originalAll", "originalAny"}
                        /\ result'[c] = "success" /\ lastFailed'.from = 0
                        /\ \A u \in Tx : stage'[u] = "none"
         /\ t[1] # N => /\ pc'[c] = "await" /\ UNCHANGED <<result, lastFailed>>
                        /\ \A u \in Tx : stage'[u] # "none" =>
                             u = <<at'[c], seqs[c][at'[c]]>> /\ stage'[u] = "signing"
<1>1. pc[c] = "await" /\ t = TxOf(c) /\ at[c] = t[1]
  BY DEF StageInv, TxOf
<1>2. Joined(t) = {c}
  BY <1>1 DEF Joined
<1>3. /\ status'[c] = [status[c] EXCEPT ![t[1]] = "success"]
      /\ UNCHANGED <<mode, seqs>>
  BY <1>2 DEF SettleOk
<1>4. \A u \in Tx : Close(t)[u] = "none"
  BY DEF Close, StageInv, TypeOK
<1>5. ASSUME t[1] = N
      PROVE  /\ pc'[c] \in {"original", "returned"}
             /\ pc'[c] = "original" => mode[c] \in {"originalAll", "originalAny"}
             /\ result'[c] = "success" /\ lastFailed'.from = 0
             /\ \A u \in Tx : stage'[u] = "none"
  <2>1. stage' = Submit(Close(t), {})
    BY <1>5 DEF SettleOk
  <2>2. \A u \in Tx : stage'[u] = "none"
    BY <2>1, <1>4 DEF Submit
  <2>3. QED BY <1>2, <1>5, <2>2 DEF SettleOk, AfterLast, NoFailure
<1>6. ASSUME t[1] # N
      PROVE  /\ pc'[c] = "await" /\ UNCHANGED <<result, lastFailed>>
             /\ \A u \in Tx : stage'[u] # "none" =>
                  u = <<at'[c], seqs[c][at'[c]]>> /\ stage'[u] = "signing"
  <2>1. pc'[c] = "await" /\ result'[c] = result[c] /\ lastFailed' = lastFailed
    BY <1>1, <1>2, <1>6 DEF SettleOk
  <2>2. result' = result
    BY <1>6 DEF SettleOk, TypeOK
  <2>3. at'[c] = t[1] + 1
    <3>1. at'[c] = NextAt(c) /\ at[c] \in Batches
      BY <1>2 DEF SettleOk, TypeOK
    <3>2. QED BY <1>1, <1>6, <3>1, SizeAssumption DEF NextAt, Batches
  <2>4. stage' = Submit(Close(t), {<<t[1] + 1, seqs[c][t[1] + 1]>>})
    BY <1>2, <1>6 DEF SettleOk
  <2>5. QED BY <1>4, <2>1, <2>2, <2>3, <2>4 DEF Submit
<1>7. QED BY <1>1, <1>3, <1>5, <1>6

\* What a failing settlement does to the only call.
LEMMA SoloSettleFailed ==
  ASSUME TypeOK, NEW c, Callers = {c}, StageInv(c), NEW t \in Tx, NEW o,
         stage[t] # "none", SettleFailed(t, o)
  PROVE  /\ pc[c] = "await" /\ at[c] = t[1] /\ t = TxOf(c)
         /\ \A u \in Tx : stage'[u] = "none"
         /\ UNCHANGED <<mode, at, seqs>>
         /\ \/ /\ o = "stale" /\ pc'[c] = "refresh"
               /\ UNCHANGED <<result, lastFailed>> /\ status'[c] = status[c]
            \/ /\ pc'[c] \in {"original", "returned"} /\ result'[c] = "failed"
               /\ pc'[c] = "original" => mode[c] \in {"originalAll", "originalAny"}
               /\ status'[c] = [status[c] EXCEPT ![t[1]] = "failed"]
               /\ lastFailed' = FailureOf(c)
<1>1. pc[c] = "await" /\ t = TxOf(c) /\ at[c] = t[1]
  BY DEF StageInv, TxOf
<1>2. Joined(t) = {c}
  BY <1>1 DEF Joined
<1>3. \A u \in Tx : stage'[u] = "none"
  BY DEF SettleFailed, Close, StageInv, TypeOK
<1>4. CASE MayRefresh(c, o)
  <2>1. {d \in Joined(t) : MayRefresh(d, o)} = {c}
    BY <1>2, <1>4
  <2>2. o = "stale" /\ pc'[c] = "refresh"
    BY <1>2, <1>4 DEF SettleFailed, AfterFailure, MayRefresh
  <2>3. lastFailed' = lastFailed /\ status'[c] = status[c]
    BY <1>2, <2>1 DEF SettleFailed
  <2>4. result' = result
    BY <1>2, <2>1 DEF SettleFailed, TypeOK
  <2>5. QED BY <1>1, <1>3, <2>2, <2>3, <2>4 DEF SettleFailed
<1>5. CASE ~MayRefresh(c, o)
  <2>1. {d \in Joined(t) : MayRefresh(d, o)} = {}
    BY <1>2, <1>5
  <2>2. /\ pc'[c] \in {"original", "returned"}
        /\ pc'[c] = "original" => mode[c] \in {"originalAll", "originalAny"}
    BY <1>2, <1>5 DEF SettleFailed, AfterFailure, Proceeds
  <2>3. /\ result'[c] = "failed" /\ status'[c] = [status[c] EXCEPT ![t[1]] = "failed"]
        /\ lastFailed' = FailureOf(c)
    BY <1>2, <2>1 DEF SettleFailed
  <2>4. QED BY <1>1, <1>3, <2>2, <2>3 DEF SettleFailed
<1>6. QED BY <1>4, <1>5

\* While a call awaits, the batch it stands at is not restored and those
\* before it are.
LEMMA AwaitQueue ==
  ASSUME TypeOK, IInv, NEW c \in Callers, pc[c] \in {"await", "refresh"},
         NEW b \in Batches
  PROVE  /\ status[c][b] = "success" <=> b < at[c]
         /\ status[c][b] \in {"success", "pending"}
  BY DEF IInv, QueueInv, QueueFrom

\* A successful settlement of the only call keeps the invariant.
LEMMA SettleOkSolo ==
  ASSUME TypeOK, IInv, NEW c, Callers = {c}, SoloInv(c), NEW t \in Tx,
         stage[t] # "none", t \in applied, SettleOk(t),
         UNCHANGED <<ledgerVars, plan, receipt, doubtful, boundVars>>
  PROVE  SoloInv(c)'
<1>0. /\ UNCHANGED <<acctSeq, mempool, applied, refused, repeated, replayed, crashes>>
      /\ t[1] \in Batches
      /\ applied \subseteq Tx /\ mempool \subseteq Tx
  BY DEF ledgerVars, boundVars, Tx, TypeOK, LedgerTypeOK
<1>1. /\ pc[c] = "await" /\ at[c] = t[1] /\ t = TxOf(c)
      /\ status'[c] = [status[c] EXCEPT ![t[1]] = "success"]
      /\ UNCHANGED <<mode, seqs>>
      /\ pc'[c] \in {"await", "original", "returned"}
  BY SoloSettleOk DEF SoloInv
<1>2. SequenceInv' /\ DoubleOnlyAfterDoubt'
  BY <1>0 DEF SoloInv, SequenceInv, DoubleOnlyAfterDoubt, Excused
<1>3. StageInv(c)'
  BY SoloSettleOk, <1>1 DEF SoloInv, StageInv, TxOf
<1>4. \A u \in mempool : u # t
  <2>1. t[2] <= acctSeq /\ \A u \in mempool : u[2] = acctSeq + 1
    BY DEF SoloInv, SequenceInv
  <2>2. acctSeq \in Nat /\ t[2] \in Nat
    BY SizeAssumption DEF TypeOK, LedgerTypeOK, Tx, SeqNos
  <2>3. QED BY <2>1, <2>2
<1>5. PendingInv'
  <2>1. \A u \in mempool : u[1] \in Excused
    BY <1>0, <1>1, <1>4 DEF SoloInv, PendingInv, StageInv, Excused
  <2>2. QED BY <1>0, <2>1 DEF PendingInv, Excused
<1>6. KnownInv(c)'
  <2> SUFFICES ASSUME NEW u \in applied, u[1] \notin Excused
               PROVE  status'[c][u[1]] = "success"
    BY <1>0, <1>1 DEF KnownInv, Excused
  <2>1. u = t \/ status[c][u[1]] = "success"
    BY <1>0, <1>1 DEF SoloInv, KnownInv, StageInv, Excused
  <2>2. status[c] \in [Batches -> Status] /\ u[1] \in Batches
    BY <1>0 DEF TypeOK, Tx
  <2>3. QED BY <1>1, <2>1, <2>2
<1>7. ShapeInv(c)'
  <2> SUFFICES ASSUME NEW a \in Batches, NEW b \in Batches, a < b,
                      status'[c][b] = "success"
               PROVE  status'[c][a] = "success"
    BY DEF SoloInv, ShapeInv
  <2>1. status[c] \in [Batches -> Status]
    BY DEF TypeOK
  <2>2. b <= t[1]
    BY <1>0, <1>1, <2>1, AwaitQueue DEF Batches
  <2>3. a < at[c]
    BY <1>0, <1>1, <2>2 DEF Batches
  <2>4. status[c][a] = "success"
    BY <1>1, <2>3, AwaitQueue
  <2>5. QED BY <1>1, <2>1, <2>4
<1>8. PlanInv(c)'
  BY <1>1 DEF SoloInv, PlanInv
<1>9. OutcomeInv(c)'
  <2>1. result[c] = "none"
    BY <1>1 DEF SoloInv, OutcomeInv
  <2>2. CASE t[1] = N
    BY <1>1, <2>2, SoloSettleOk DEF SoloInv, OutcomeInv
  <2>3. CASE t[1] # N
    <3>1. pc'[c] = "await" /\ result'[c] = "none"
      BY <2>1, <2>3, SoloSettleOk DEF SoloInv
    <3>2. QED BY <3>1 DEF OutcomeInv
  <2>4. QED BY <2>2, <2>3
<1>10. LiveInv(c)'
  <2>1. crashes = 0 /\ ~replayed => mempool = {}
    BY <1>1, <1>4 DEF SoloInv, LiveInv
  <2>2. QED BY <1>0, <2>1 DEF LiveInv
<1>11. QED
  BY <1>2, <1>3, <1>5, <1>6, <1>7, <1>8, <1>9, <1>10 DEF SoloInv

\* So does one that fails, when the batch is in doubt, was refused, or never
\* got as far as a node that took it.
LEMMA SettleFailedSolo ==
  ASSUME TypeOK, IInv, NEW c, Callers = {c}, SoloInv(c), NEW t \in Tx, NEW o,
         stage[t] # "none", SettleFailed(t, o),
         doubtful \subseteq doubtful',
         t[1] \in Excused' \/ stage[t] # "waiting" \/ t \in refused,
         o = "stale" => BadSeq(t),
         UNCHANGED <<ledgerVars, plan, receipt, boundVars>>
  PROVE  SoloInv(c)'
<1> DEFINE Refreshes == /\ o = "stale" /\ pc'[c] = "refresh"
                        /\ UNCHANGED <<result, lastFailed>>
                        /\ status'[c] = status[c]
           Fails == /\ pc'[c] \in {"original", "returned"} /\ result'[c] = "failed"
                    /\ pc'[c] = "original" => mode[c] \in {"originalAll", "originalAny"}
                    /\ status'[c] = [status[c] EXCEPT ![t[1]] = "failed"]
                    /\ lastFailed' = FailureOf(c)
<1>0. /\ UNCHANGED <<acctSeq, mempool, applied, refused, repeated, replayed, crashes>>
      /\ t[1] \in Batches
      /\ applied \subseteq Tx /\ mempool \subseteq Tx
      /\ status[c] \in [Batches -> Status]
      /\ at[c] \in Batches
  BY DEF ledgerVars, boundVars, Tx, TypeOK, LedgerTypeOK
<1>1. /\ pc[c] = "await" /\ at[c] = t[1] /\ t = TxOf(c)
      /\ \A u \in Tx : stage'[u] = "none"
      /\ UNCHANGED <<mode, at, seqs>>
      /\ Refreshes \/ Fails
  BY SoloSettleFailed DEF SoloInv
<1>2. SequenceInv' /\ DoubleOnlyAfterDoubt'
  BY <1>0 DEF SoloInv, SequenceInv, DoubleOnlyAfterDoubt, Excused
<1>3. StageInv(c)'
  BY <1>1 DEF StageInv
<1>4. \A b \in Batches : status'[c][b] = "success" <=> status[c][b] = "success"
  <2>1. status[c][t[1]] # "success"
    <3>1. ~(at[c] < at[c])
      BY <1>0 DEF Batches
    <3>2. QED BY <1>0, <1>1, <3>1, AwaitQueue
  <2>2. QED BY <1>0, <1>1, <2>1
<1>5. t \in refused => t \notin applied /\ t \notin mempool
  <2>1. t \in refused => t[2] <= acctSeq
    BY DEF SoloInv, SequenceInv
  <2>2. t \in mempool => t[2] = acctSeq + 1
    BY DEF SoloInv, SequenceInv
  <2>3. acctSeq \in Nat /\ t[2] \in Nat
    BY SizeAssumption DEF TypeOK, LedgerTypeOK, Tx, SeqNos
  <2>4. QED BY <2>1, <2>2, <2>3 DEF SoloInv, SequenceInv
<1>6. PendingInv'
  <2>1. ASSUME NEW u \in mempool, u[1] \notin Excused'
        PROVE  FALSE
    <3>1. stage[u] = "waiting"
      BY <1>0, <2>1 DEF SoloInv, PendingInv, Excused
    <3>2. u = t
      BY <1>0, <1>1, <3>1 DEF SoloInv, StageInv
    <3>3. QED BY <1>5, <2>1, <3>1, <3>2
  <2>2. QED BY <1>0, <2>1 DEF PendingInv, Excused
<1>7. KnownInv(c)'
  <2> SUFFICES ASSUME NEW u \in applied, u[1] \notin Excused'
               PROVE  pc'[c] # "idle" /\ status'[c][u[1]] = "success"
    BY <1>0 DEF KnownInv, Excused
  <2>1. stage[u] # "waiting"
    <3>1. stage[u] = "waiting" => u = t
      BY <1>0, <1>1 DEF SoloInv, StageInv
    <3>2. QED BY <1>5, <3>1
  <2>2. status[c][u[1]] = "success" /\ u[1] \in Batches
    BY <1>0, <1>1, <2>1 DEF SoloInv, KnownInv, Tx, Excused
  <2>3. QED BY <1>1, <1>4, <2>2
<1>8. ShapeInv(c)'
  BY <1>4 DEF SoloInv, ShapeInv
<1>9. PlanInv(c)'
  BY <1>1 DEF SoloInv, PlanInv
<1>10. OutcomeInv(c)'
  <2>1. CASE Refreshes
    <3>1. result'[c] = "none" /\ pc'[c] = "refresh"
      BY <1>1, <2>1 DEF SoloInv, OutcomeInv
    <3>2. QED BY <3>1 DEF OutcomeInv
  <2>2. CASE Fails
    <3>1. \A b \in Batches : status'[c][b] = "success" <=> b < at[c]
      BY <1>1, <1>4, AwaitQueue
    <3>2. lastFailed'.from = at[c]
      BY <2>2 DEF FailureOf
    <3>3. status'[c][at[c]] = "failed"
      BY <1>0, <1>1, <2>2
    <3>4. QED BY <1>1, <2>2, <3>1, <3>2, <3>3 DEF OutcomeInv
  <2>3. QED BY <1>1, <2>1, <2>2
<1>11. LiveInv(c)'
  <2> SUFFICES ASSUME crashes = 0 /\ ~replayed, NEW u \in mempool
               PROVE  /\ u = TxOf(c) /\ pc'[c] \in {"original", "returned"}
                      /\ u = <<lastFailed'.from, lastFailed'.seqs[lastFailed'.from]>>
                      /\ result'[c] = "failed"
    BY <1>0, <1>1 DEF LiveInv, TxOf
  <2>1. u = TxOf(c) /\ ~BadSeq(t)
    BY <1>0, <1>1 DEF SoloInv, LiveInv, SequenceInv, BadSeq
  <2>2. Fails
    BY <1>1, <2>1
  <2>3. QED BY <2>1, <2>2 DEF FailureOf, TxOf
<1>12. QED
  BY <1>2, <1>3, <1>6, <1>7, <1>8, <1>9, <1>10, <1>11 DEF SoloInv

\* Between two calls nothing is in flight, and what the node holds is in doubt.
LEMMA Quiet ==
  ASSUME NEW c, SoloInv(c), TypeOK, pc[c] # "await"
  PROVE  /\ \A t \in Tx : stage[t] = "none"
         /\ \A t \in mempool : t[1] \in Excused
  BY DEF SoloInv, StageInv, PendingInv, TypeOK, LedgerTypeOK, Excused

\* Starting a call keeps the invariant, when its queue starts after every
\* batch restored beyond doubt and with the transaction the node may hold.
LEMMA BeginSolo ==
  ASSUME TypeOK, NEW c, Callers = {c}, SoloInv(c),
         NEW m \in Modes, NEW s \in BOOLEAN, NEW first \in Batches,
         NEW numbers \in SeqMap, NEW done \in Nat, NEW where \in {"await", "refresh"},
         pc[c] \in {"idle", "returned"}, plan.state # "none",
         where = "refresh" => /\ m = "retry" /\ lastFailed.from = first
                              /\ lastFailed.seqs = numbers,
         repeated \subseteq repeated',
         \A t \in applied : t[1] \notin Excused' => t[1] < first,
         crashes = 0 /\ ~replayed' => \A t \in mempool : t = <<first, numbers[first]>>,
         Begin(c, m, s, first, numbers, done, where)
  PROVE  SoloInv(c)'
<1>0. /\ UNCHANGED <<acctSeq, mempool, applied, refused, crashes, receipt, plan,
                     doubtful, lastFailed>>
      /\ applied \subseteq Tx /\ mempool \subseteq Tx
  BY DEF Begin, ledgerVars, TypeOK, LedgerTypeOK
<1>1. /\ pc'[c] = where /\ at'[c] = first /\ seqs'[c] = numbers /\ mode'[c] = m
      /\ status'[c] = QueueFrom(first) /\ result'[c] = "none"
  BY DEF Begin, TypeOK
<1>2. SequenceInv' /\ DoubleOnlyAfterDoubt'
  BY <1>0 DEF SoloInv, SequenceInv, DoubleOnlyAfterDoubt, Excused
<1>3. StageInv(c)'
  <2>1. \A t \in Tx : stage'[t] # "none" => where = "await" /\ t = <<first, numbers[first]>>
    BY Quiet, SubmitStep DEF Begin
  <2>2. QED BY <1>1, <2>1 DEF StageInv, TxOf
<1>4. PendingInv'
  BY <1>0, Quiet DEF PendingInv, Excused
<1>5. KnownInv(c)'
  <2>1. \A b \in Batches : b < first => status'[c][b] = "success"
    BY <1>1 DEF QueueFrom
  <2>2. QED BY <1>0, <1>1, <2>1 DEF KnownInv, Tx, Excused
<1>6. ShapeInv(c)'
  <2>1. \A a, b \in Batches : a < b /\ status'[c][b] = "success" => status'[c][a] = "success"
    BY <1>1 DEF QueueFrom, Batches
  <2>2. QED BY <1>0, <2>1 DEF SoloInv, ShapeInv
<1>7. PlanInv(c)' /\ OutcomeInv(c)'
  BY <1>0, <1>1 DEF PlanInv, OutcomeInv
<1>8. LiveInv(c)'
  BY <1>0, <1>1 DEF LiveInv, TxOf
<1>9. QED BY <1>2, <1>3, <1>4, <1>5, <1>6, <1>7, <1>8 DEF SoloInv

\* What a caller calls restored, or the receipt does before the first call,
\* covers everything restored beyond doubt.
LEMMA KnownBetweenCalls ==
  ASSUME TypeOK, NEW c, SoloInv(c), pc[c] \in {"idle", "returned"},
         NEW t \in applied, t[1] \notin Excused
  PROVE  /\ t[1] \in Batches
         /\ pc[c] = "idle" => receipt.status[t[1]] = "success"
         /\ pc[c] = "returned" => status[c][t[1]] = "success"
<1>1. t \in Tx /\ t[1] \in Batches
  BY DEF TypeOK, LedgerTypeOK, Tx
<1>2. stage[t] = "none"
  BY <1>1, Quiet
<1>3. QED BY <1>1, <1>2 DEF SoloInv, KnownInv, Excused

\* The application's call of a plan: of the first one nothing is restored yet
\* beyond doubt, and what an earlier call restored is excused from then on.
LEMMA ExecuteSolo ==
  ASSUME TypeOK, NEW c, Callers = {c}, SoloInv(c), Execute(c)
  PROVE  SoloInv(c)'
<1>1. pc[c] \in {"idle", "returned"} /\ plan.state = "held" /\ repeated \subseteq repeated'
  BY DEF Execute
<1>2. \A t \in applied : t[1] \in Excused'
  <2>1. CASE pc[c] = "idle"
    BY <1>1, <2>1, KnownBetweenCalls DEF Execute, Begin, SoloInv, PlanInv, Excused
  <2>2. CASE pc[c] = "returned"
    BY <1>1, <2>2, KnownBetweenCalls DEF Execute, Begin, Excused
  <2>3. QED BY <1>1, <2>1, <2>2
<1>3. crashes = 0 /\ ~replayed' => mempool = {}
  BY <1>1 DEF Execute, SoloInv, LiveInv
<1>4. 1 \in Batches /\ plan.seqs \in SeqMap
  BY SizeAssumption DEF Batches, TypeOK
<1>5. QED
  BY <1>1, <1>2, <1>3, <1>4, BeginSolo DEF Execute, Modes

\* A retry starts at the batch whose failure was recorded.
LEMMA RetrySolo ==
  ASSUME TypeOK, NEW c, Callers = {c}, SoloInv(c), Retry(c)
  PROVE  SoloInv(c)'
<1>1. pc[c] = "returned" /\ lastFailed.from # 0
  BY DEF Retry, SoloInv, OutcomeInv
<1>2. /\ lastFailed.from \in Batches /\ lastFailed.seqs \in SeqMap
      /\ lastFailed.src \in BOOLEAN /\ lastFailed.restored \in Nat
  BY <1>1, SizeAssumption DEF TypeOK, Batches
<1>0. UNCHANGED <<doubtful, repeated, replayed>>
  BY DEF Retry, Begin
<1>3. \A t \in applied : t[1] \notin Excused' => t[1] < lastFailed.from
  BY <1>0, <1>1, KnownBetweenCalls DEF SoloInv, OutcomeInv, Excused
<1>4. crashes = 0 /\ ~replayed' =>
        \A t \in mempool : t = <<lastFailed.from, lastFailed.seqs[lastFailed.from]>>
  BY <1>0, <1>1 DEF SoloInv, LiveInv
<1>5. plan.state # "none"
  BY <1>1 DEF SoloInv, PlanInv
<1>6. Begin(c, "retry", lastFailed.src, lastFailed.from, lastFailed.seqs,
            lastFailed.restored, "refresh")
  BY DEF Retry
<1>7. QED
  BY <1>0, <1>1, <1>2, <1>3, <1>4, <1>5, <1>6, BeginSolo DEF Modes

\* A resumption starts at the first batch the receipt leaves open.
LEMMA ResumeSolo ==
  ASSUME TypeOK, IInv, NEW c, Callers = {c}, SoloInv(c), Resume(c)
  PROVE  SoloInv(c)'
<1>1. PICK first \in Batches :
        /\ Outstanding(first)
        /\ \A b \in Batches : b < first => ~Outstanding(b)
        /\ Begin(c, "resume", TRUE, first, receipt.seqs, 0, "await")
  BY DEF Resume
<1>2. pc[c] \in {"idle", "returned"} /\ plan.state # "none"
  BY DEF Resume, SoloInv, PlanInv
<1>3. ASSUME pc[c] = "returned"
      PROVE  /\ result[c] \in {"success", "failed", "threw"} /\ mode[c] # "retry"
             /\ result[c] = "threw" => mode[c] \in {"batches", "resume"}
             /\ result[c] # "threw" => receipt = ReceiptOf(c)
  <2>1. result[c] \in Results /\ result[c] # "none" /\ mode[c] \in Modes
    BY <1>3 DEF TypeOK, SoloInv, OutcomeInv
  <2>2. QED BY <2>1 DEF Resume, HasReceipt, Results, Modes
<1>4. \A b \in Batches : receipt.status[b] = "success" => b < first
  <2>1. \A b \in Batches : first < b => receipt.status[b] # "success"
    BY <1>1 DEF Outstanding, SoloInv, ShapeInv
  <2>2. QED BY <1>1, <2>1 DEF Outstanding, Batches
<1>0. UNCHANGED <<doubtful, repeated, replayed>>
  BY DEF Resume, Begin
<1>5. \A t \in applied : t[1] \notin Excused' => t[1] < first
  <2> SUFFICES ASSUME NEW t \in applied, t[1] \notin Excused PROVE t[1] < first
    BY <1>0 DEF Excused
  <2>1. CASE pc[c] = "idle"
    BY <1>4, <2>1, KnownBetweenCalls
  <2>2. CASE pc[c] = "returned"
    <3>1. t[1] \in Batches /\ status[c][t[1]] = "success"
      BY <2>2, KnownBetweenCalls
    <3>2. result[c] # "threw"
      BY <1>3, <2>2, <3>1 DEF SoloInv, OutcomeInv, Excused
    <3>3. QED BY <1>3, <1>4, <2>2, <3>1, <3>2 DEF ReceiptOf
  <2>3. QED BY <1>2, <2>1, <2>2
<1>6. crashes = 0 /\ ~replayed' => \A t \in mempool : t = <<first, receipt.seqs[first]>>
  <2> SUFFICES ASSUME crashes = 0 /\ ~replayed, NEW t \in mempool
               PROVE  t = <<first, receipt.seqs[first]>>
    BY <1>0
  <2>1. /\ pc[c] = "returned" /\ t = TxOf(c)
        /\ result[c] = "threw" => mode[c] \notin {"batches", "resume"}
    BY <1>2 DEF SoloInv, LiveInv
  <2>2. result[c] # "threw" /\ receipt = ReceiptOf(c)
    BY <1>3, <2>1
  <2>3. result[c] # "success"
    BY <1>1, <2>2 DEF Outstanding, ReceiptOf, IInv, ResultInv
  <2>4. /\ \A b \in Batches : status[c][b] = "success" <=> b < at[c]
        /\ status[c][at[c]] # "pending" /\ at[c] \in Batches
    BY <1>3, <2>1, <2>2, <2>3 DEF SoloInv, OutcomeInv, TypeOK
  <2>5. ~(first < at[c])
    BY <1>1, <2>2, <2>4 DEF Outstanding, ReceiptOf
  <2>6. ~(at[c] < first)
    BY <1>1, <2>2, <2>4 DEF Outstanding, ReceiptOf, Batches
  <2>7. first = at[c]
    BY <2>4, <2>5, <2>6 DEF Batches
  <2>8. QED BY <2>1, <2>2, <2>4, <2>7 DEF TxOf, ReceiptOf
<1>7. receipt.seqs \in SeqMap
  BY DEF TypeOK
<1>8. QED
  BY <1>0, <1>1, <1>2, <1>5, <1>6, <1>7, BeginSolo DEF Modes

\* A refresh gives the call's batches new numbers, or throws and leaves what
\* it had restored in doubt.
LEMMA RebuildSolo ==
  ASSUME TypeOK, IInv, NEW c, Callers = {c}, SoloInv(c), Rebuild(c)
  PROVE  SoloInv(c)'
<1> DEFINE new == Renumber(seqs[c], at[c])
           Rebuilds == /\ seqs' = [seqs EXCEPT ![c] = new]
                       /\ pc' = [pc EXCEPT ![c] = "await"]
                       /\ stage' = Submit(stage, {<<at[c], new[at[c]]>>})
                       /\ UNCHANGED <<result, doubtful>>
           Throws == /\ pc' = [pc EXCEPT ![c] = "returned"]
                     /\ result' = [result EXCEPT ![c] = "threw"]
                     /\ doubtful' = doubtful \cup {b \in Batches : status[c][b] = "success"}
                     /\ UNCHANGED <<seqs, stage>>
<1>0. /\ pc[c] = "refresh" /\ result[c] = "none"
      /\ UNCHANGED <<acctSeq, mempool, applied, refused, receipt, plan, lastFailed,
                     repeated, replayed, crashes>>
      /\ UNCHANGED <<at, mode, status>>
      /\ doubtful \subseteq doubtful'
      /\ Rebuilds \/ Throws
      /\ at[c] \in Batches /\ mempool \subseteq Tx /\ applied \subseteq Tx
  <2>1. pc[c] = "refresh" /\ (Rebuilds \/ Throws)
    BY DEF Rebuild
  <2>2. /\ UNCHANGED <<acctSeq, mempool, applied, refused, receipt, plan, lastFailed,
                     repeated, replayed, crashes>>
        /\ UNCHANGED <<at, mode, status>>
    BY DEF Rebuild, ledgerVars, boundVars
  <2>3. result[c] = "none" /\ at[c] \in Batches /\ mempool \subseteq Tx /\ applied \subseteq Tx
    BY <2>1 DEF TypeOK, LedgerTypeOK, SoloInv, OutcomeInv
  <2>4. QED BY <2>1, <2>2, <2>3
<1>1. SequenceInv' /\ DoubleOnlyAfterDoubt'
  BY <1>0 DEF SoloInv, SequenceInv, DoubleOnlyAfterDoubt, Excused
<1>2. /\ pc'[c] \in {"await", "returned"}
      /\ \A u \in Tx : stage'[u] # "none" =>
           Rebuilds /\ pc'[c] = "await" /\ u = <<at[c], new[at[c]]>>
  <2>1. CASE Rebuilds
    BY <1>0, <2>1, Quiet, SubmitStep DEF TypeOK
  <2>2. CASE Throws
    BY <1>0, <2>2, Quiet DEF TypeOK
  <2>3. QED BY <1>0, <2>1, <2>2
<1>3. StageInv(c)'
  BY <1>0, <1>2 DEF StageInv, TxOf, TypeOK
<1>4. PendingInv'
  BY <1>0, Quiet DEF PendingInv, Excused
<1>5. KnownInv(c)'
  <2>1. \A u \in applied : u[1] \notin Excused => status[c][u[1]] = "success"
    BY <1>0, Quiet DEF SoloInv, KnownInv, Excused
  <2>2. QED BY <1>0, <1>2, <2>1 DEF KnownInv, Excused
<1>6. ShapeInv(c)' /\ PlanInv(c)'
  BY <1>0, <1>2 DEF SoloInv, ShapeInv, PlanInv
<1>7. OutcomeInv(c)'
  <2>1. CASE Rebuilds
    BY <1>0, <2>1 DEF OutcomeInv, TypeOK
  <2>2. CASE Throws
    <3>1. pc'[c] = "returned" /\ result'[c] = "threw"
      BY <2>2 DEF TypeOK
    <3>2. \A b \in Batches : status[c][b] = "success" => b \in doubtful'
      BY <2>2
    <3>3. QED BY <1>0, <3>1, <3>2 DEF OutcomeInv
  <2>3. QED BY <1>0, <2>1, <2>2
<1>8. LiveInv(c)'
  <2> SUFFICES ASSUME crashes = 0 /\ ~replayed, NEW u \in mempool
               PROVE  /\ u = TxOf(c)'
                      /\ pc'[c] # "await" /\ lastFailed.from # 0 =>
                           u = <<lastFailed.from, lastFailed.seqs[lastFailed.from]>>
                      /\ result'[c] = "threw" => mode[c] \notin {"batches", "resume"}
    BY <1>0, <1>2 DEF LiveInv
  <2>1. /\ u = TxOf(c) /\ u[2] = acctSeq + 1 /\ mode[c] = "retry"
        /\ lastFailed.from # 0 =>
             u = <<lastFailed.from, lastFailed.seqs[lastFailed.from]>>
    BY <1>0 DEF SoloInv, LiveInv, SequenceInv
  <2>2. CASE Rebuilds
    <3>1. new[at[c]] = acctSeq + 1 \/ new[at[c]] = seqs[c][at[c]]
      BY <1>0, SizeAssumption DEF Renumber, Batches, TypeOK, LedgerTypeOK
    <3>2. QED BY <1>0, <2>1, <2>2, <3>1 DEF TxOf, TypeOK
  <2>3. CASE Throws
    BY <1>0, <2>1, <2>3 DEF TxOf
  <2>4. QED BY <1>0, <2>2, <2>3
<1>9. QED BY <1>1, <1>3, <1>4, <1>5, <1>6, <1>7, <1>8 DEF SoloInv

\* The original transaction's outcome changes what the call returns, nothing else.
LEMMA OriginalSolo ==
  ASSUME TypeOK, NEW c, Callers = {c}, SoloInv(c), OriginalSettles(c)
  PROVE  SoloInv(c)'
<1>0. /\ pc[c] = "original" /\ pc'[c] = "returned"
      /\ result'[c] = result[c] \/ result'[c] = "threw"
      /\ UNCHANGED <<acctSeq, mempool, applied, refused, receipt, plan, doubtful,
                     repeated, replayed, crashes>>
      /\ UNCHANGED <<stage, at, mode, seqs, status, lastFailed>>
  BY DEF OriginalSettles, ledgerVars, boundVars, TypeOK
<1>1. SequenceInv' /\ DoubleOnlyAfterDoubt' /\ PendingInv'
  BY <1>0 DEF SoloInv, SequenceInv, DoubleOnlyAfterDoubt, PendingInv, Excused
<1>2. StageInv(c)' /\ KnownInv(c)' /\ ShapeInv(c)' /\ PlanInv(c)'
  BY <1>0 DEF SoloInv, StageInv, KnownInv, ShapeInv, PlanInv, Excused
<1>3. OutcomeInv(c)'
  BY <1>0 DEF SoloInv, OutcomeInv
<1>4. LiveInv(c)'
  BY <1>0 DEF SoloInv, LiveInv, OutcomeInv, TxOf
<1>5. QED BY <1>1, <1>2, <1>3, <1>4 DEF SoloInv

\* Building the plan.
LEMMA BuildSolo ==
  ASSUME TypeOK, NEW c, Callers = {c}, SoloInv(c), Build
  PROVE  SoloInv(c)'
<1>0. /\ UNCHANGED <<acctSeq, mempool, applied, refused, repeated, replayed, crashes, doubtful>>
      /\ UNCHANGED <<stage, pc, at, mode, seqs, status, lastFailed, result>>
      /\ pc[c] = "idle" /\ plan'.state = "held"
      /\ \A b \in Batches : receipt.status[b] # "success" /\ receipt'.status[b] # "success"
  BY DEF Build, ledgerVars, clientVars, boundVars, SoloInv, PlanInv, QueueFrom, Batches
<1>1. SequenceInv' /\ DoubleOnlyAfterDoubt' /\ PendingInv'
  BY <1>0 DEF SoloInv, SequenceInv, DoubleOnlyAfterDoubt, PendingInv, Excused
<1>2. StageInv(c)' /\ ShapeInv(c)' /\ PlanInv(c)' /\ OutcomeInv(c)' /\ LiveInv(c)'
  BY <1>0 DEF SoloInv, StageInv, ShapeInv, PlanInv, OutcomeInv, LiveInv, TxOf
<1>3. KnownInv(c)'
  <2>1. \A t \in applied : t[1] \in Excused
    BY <1>0, KnownBetweenCalls
  <2>2. QED BY <1>0, <2>1 DEF KnownInv, Excused
<1>4. QED BY <1>1, <1>2, <1>3 DEF SoloInv

\* Persisting a receipt of the last call.
LEMMA SaveSolo ==
  ASSUME TypeOK, NEW c, Callers = {c}, SoloInv(c), SaveReceipt(c)
  PROVE  SoloInv(c)'
<1>0. /\ UNCHANGED <<acctSeq, mempool, applied, refused, plan, doubtful,
                     repeated, replayed, crashes>>
      /\ UNCHANGED <<stage, pc, at, mode, seqs, status, lastFailed, result>>
      /\ pc[c] = "returned" /\ receipt'.status = status[c]
  BY DEF SaveReceipt, ReceiptOf, ledgerVars, clientVars, boundVars
<1>1. SequenceInv' /\ DoubleOnlyAfterDoubt' /\ PendingInv'
  BY <1>0 DEF SoloInv, SequenceInv, DoubleOnlyAfterDoubt, PendingInv, Excused
<1>2. StageInv(c)' /\ ShapeInv(c)' /\ OutcomeInv(c)' /\ LiveInv(c)'
  BY <1>0 DEF SoloInv, StageInv, ShapeInv, OutcomeInv, LiveInv, TxOf
<1>3. KnownInv(c)' /\ PlanInv(c)'
  BY <1>0 DEF SoloInv, KnownInv, PlanInv, Excused
<1>4. QED BY <1>1, <1>2, <1>3 DEF SoloInv

\* The client process dies with its call: every batch the receipt does not
\* record is in doubt.
LEMMA CrashSolo ==
  ASSUME TypeOK, IInv, NEW c, Callers = {c}, SoloInv(c), Crash
  PROVE  SoloInv(c)'
<1>0. /\ UNCHANGED <<acctSeq, mempool, applied, refused, receipt, status, repeated>>
      /\ pc'[c] = "idle" /\ result'[c] = "none" /\ lastFailed'.from = 0
      /\ \A t \in Tx : stage'[t] = "none"
      /\ plan'.state = "lost" /\ crashes' # 0
      /\ doubtful \subseteq doubtful'
      /\ \A b \in Batches : b \notin Excused' => receipt.status[b] = "success"
      /\ mempool \subseteq Tx /\ applied \subseteq Tx
  <2>1. crashes \in Nat
    BY DEF TypeOK
  <2>2. QED BY <2>1 DEF Crash, ledgerVars, TypeOK, LedgerTypeOK, NoFailure, Excused
<1>1. SequenceInv' /\ DoubleOnlyAfterDoubt'
  BY <1>0 DEF SoloInv, SequenceInv, DoubleOnlyAfterDoubt, Excused
<1>2. PendingInv'
  <2>1. ASSUME NEW t \in mempool, t[1] \notin Excused'
        PROVE  FALSE
    <3> DEFINE u == <<t[1], receipt.seqs[t[1]]>>
    <3>1. t[1] \in Batches /\ stage[t] = "waiting"
      BY <1>0, <2>1 DEF Tx, SoloInv, PendingInv, Excused
    <3>2. pc[c] = "await" /\ t = TxOf(c) /\ at[c] = t[1] /\ at[c] \in Batches
      BY <1>0, <2>1, <3>1 DEF SoloInv, StageInv, TxOf
    <3>3. u \in applied
      BY <1>0, <2>1, <3>1 DEF IInv, SuccessIsLanded
    <3>4. status[c][t[1]] # "success"
      <4>1. ~(at[c] < at[c])
        BY <3>2 DEF Batches
      <4>2. QED BY <3>2, <4>1, AwaitQueue
    <3>5. stage[u] = "waiting"
      BY <1>0, <2>1, <3>2, <3>3, <3>4 DEF SoloInv, KnownInv, Excused
    <3>6. u = t
      BY <1>0, <3>2, <3>3, <3>5 DEF SoloInv, StageInv
    <3>7. t[2] = acctSeq + 1 /\ t[2] <= acctSeq /\ acctSeq \in Nat
      BY <2>1, <3>3, <3>6 DEF SoloInv, SequenceInv, TypeOK, LedgerTypeOK
    <3>8. QED BY <3>7
  <2>2. QED BY <1>0, <2>1 DEF PendingInv, Excused
<1>3. StageInv(c)' /\ KnownInv(c)' /\ ShapeInv(c)'
  <2>1. \A t \in applied : t[1] \in Batches
    BY <1>0 DEF Tx
  <2>2. QED BY <1>0, <2>1 DEF SoloInv, StageInv, KnownInv, ShapeInv, Excused
<1>4. PlanInv(c)' /\ OutcomeInv(c)' /\ LiveInv(c)'
  BY <1>0 DEF PlanInv, OutcomeInv, LiveInv
<1>5. QED BY <1>1, <1>2, <1>3, <1>4 DEF SoloInv

\* A submission that goes on (signed, sent, sent again, or looked up) keeps the
\* invariant: a transaction it hands to the node is waited for or in doubt.
LEMMA SubmitGoesOnSolo ==
  ASSUME TypeOK, NEW c, Callers = {c}, SoloInv(c), NEW t \in Tx,
         stage[t] \in {"signing", "sending"},
         \A u \in Tx : u # t => stage'[u] = stage[u],
         mempool' \subseteq mempool \cup {t},
         t \in mempool' => t \in mempool \/ ~BadSeq(t),
         t \in mempool' => t[1] \in Excused' \/ stage'[t] = "waiting",
         doubtful \subseteq doubtful',
         UNCHANGED <<acctSeq, applied, refused, pc, mode, at, seqs, status,
                     result, lastFailed, plan, receipt, repeated, replayed, crashes>>
  PROVE  SoloInv(c)'
<1>0. /\ pc[c] = "await" /\ t = TxOf(c) /\ result[c] = "none"
      /\ mempool \subseteq Tx /\ applied \subseteq Tx
  BY DEF SoloInv, StageInv, OutcomeInv, TypeOK, LedgerTypeOK
<1>1. SequenceInv' /\ DoubleOnlyAfterDoubt'
  BY DEF SoloInv, SequenceInv, DoubleOnlyAfterDoubt, BadSeq, Excused
<1>2. StageInv(c)'
  BY <1>0 DEF SoloInv, StageInv, TxOf
<1>3. PendingInv'
  BY <1>0 DEF SoloInv, PendingInv, Excused
<1>4. KnownInv(c)'
  BY <1>0 DEF SoloInv, KnownInv, Excused
<1>5. ShapeInv(c)' /\ PlanInv(c)' /\ OutcomeInv(c)'
  BY <1>0 DEF SoloInv, ShapeInv, PlanInv, OutcomeInv
<1>6. LiveInv(c)'
  BY <1>0 DEF SoloInv, LiveInv, TxOf
<1>7. QED BY <1>1, <1>2, <1>3, <1>4, <1>5, <1>6 DEF SoloInv

\* Every step of a submission keeps the invariant.
LEMMA SubmissionSolo ==
  ASSUME TypeOK, IInv, NEW c, Callers = {c}, SoloInv(c), NEW t \in Tx, Submission(t)
  PROVE  SoloInv(c)'
<1>1. CASE Sign(t)
  <2>1. CASE SettleFailed(t, "error")
    BY <1>1, <2>1, SettleFailedSolo DEF Sign
  <2>2. CASE ~SettleFailed(t, "error")
    <3>1. /\ stage[t] = "signing" /\ \A u \in Tx : u # t => stage'[u] = stage[u]
          /\ UNCHANGED <<mempool, doubtful>>
          /\ UNCHANGED <<acctSeq, applied, refused, pc, mode, at, seqs, status,
                         result, lastFailed, plan, receipt, repeated, replayed, crashes>>
      BY <1>1, <2>2 DEF Sign, TypeOK, ledgerVars, boundVars
    <3>2. t \in mempool => t[1] \in Excused'
      BY <3>1 DEF SoloInv, PendingInv, Excused
    <3>3. QED BY <3>1, <3>2, SubmitGoesOnSolo
  <2>3. QED BY <2>1, <2>2
<1>2. CASE SendAccepted(t)
  <2>1. /\ stage[t] = "sending" /\ \A u \in Tx : u # t => stage'[u] = stage[u]
        /\ stage'[t] = "waiting" /\ mempool' = mempool \cup {t} /\ ~BadSeq(t)
        /\ UNCHANGED doubtful
        /\ UNCHANGED <<acctSeq, applied, refused, pc, mode, at, seqs, status,
                       result, lastFailed, plan, receipt, repeated, replayed, crashes>>
    BY <1>2 DEF SendAccepted, Acceptable, TypeOK, boundVars
  <2>2. QED BY <2>1, SubmitGoesOnSolo
<1>3. CASE SendRejected(t)
  <2>1. CASE BadSeq(t) /\ SettleFailed(t, "stale")
    BY <1>3, <2>1, SettleFailedSolo DEF SendRejected
  <2>2. CASE SettleFailed(t, "error")
    BY <1>3, <2>2, SettleFailedSolo DEF SendRejected
  <2>3. QED BY <1>3, <2>1, <2>2 DEF SendRejected
<1>4. CASE SendLost(t)
  <2>1. /\ stage[t] = "sending" /\ \A u \in Tx : u # t => stage'[u] = stage[u]
        /\ mempool' = mempool \/ (mempool' = mempool \cup {t} /\ ~BadSeq(t))
        /\ t[1] \in Excused' /\ doubtful \subseteq doubtful'
        /\ UNCHANGED <<acctSeq, applied, refused, pc, mode, at, seqs, status,
                       result, lastFailed, plan, receipt, repeated, replayed, crashes>>
    BY <1>4 DEF SendLost, Acceptable, Unseen, TypeOK, boundVars, Excused
  <2>2. QED BY <2>1, SubmitGoesOnSolo
<1>5. CASE Reconcile(t)
  <2>1. CASE FoundSuccess(t) /\ SettleOk(t)
    BY <1>5, <2>1, SettleOkSolo DEF Reconcile, FoundSuccess
  <2>2. CASE SettleFailed(t, "error")
    BY <1>5, <2>2, SettleFailedSolo DEF Reconcile
  <2>3. QED BY <1>5, <2>1, <2>2 DEF Reconcile
<1>6. CASE Confirm(t)
  <2>1. CASE PolledSuccess(t) /\ SettleOk(t)
    BY <1>6, <2>1, SettleOkSolo DEF Confirm, PolledSuccess
  <2>2. CASE t \in refused /\ SettleFailed(t, "error")
    BY <1>6, <2>2, SettleFailedSolo DEF Confirm
  <2>3. QED BY <1>6, <2>1, <2>2 DEF Confirm
<1>7. CASE GiveUp(t)
  <2>1. /\ stage[t] = "waiting" /\ t[1] \in Excused' /\ doubtful \subseteq doubtful'
        /\ UNCHANGED <<ledgerVars, plan, receipt, boundVars>>
    BY <1>7 DEF GiveUp, Unseen, Excused
  <2>2. SettleFailed(t, "unconfirmed") \/ SettleFailed(t, "error")
    BY <1>7 DEF GiveUp
  <2>3. QED BY <2>1, <2>2, SettleFailedSolo
<1>8. QED
  BY <1>1, <1>2, <1>3, <1>4, <1>5, <1>6, <1>7 DEF Submission

\* A ledger that includes a transaction the client has not given up on
\* includes the one its call awaits, and no other of that batch.
LEMMA IncludeSolo ==
  ASSUME TypeOK, IInv, NEW c, Callers = {c}, SoloInv(c), NEW t \in mempool, Include(t),
         UNCHANGED <<clientVars, plan, receipt, doubtful, boundVars>>
  PROVE  SoloInv(c)'
<1>0. /\ UNCHANGED <<stage, pc, mode, at, seqs, status, result, lastFailed>>
      /\ UNCHANGED <<plan, receipt, doubtful, repeated, replayed, crashes>>
      /\ mempool' = {} /\ acctSeq' = acctSeq + 1 /\ t[2] = acctSeq + 1
      /\ \/ applied' = applied \cup {t} /\ refused' = refused
         \/ refused' = refused \cup {t} /\ applied' = applied
      /\ t \in Tx /\ applied \subseteq Tx /\ refused \subseteq Tx /\ acctSeq \in Nat
  BY DEF Include, clientVars, boundVars, BadSeq, TypeOK, LedgerTypeOK
<1>1. SequenceInv'
  <2>1. \A u \in applied \cup refused : u[2] \in Nat /\ u[2] <= acctSeq
    BY <1>0, SizeAssumption DEF SoloInv, SequenceInv, Tx, SeqNos
  <2>2. t \notin applied \cup refused
    BY <1>0, <2>1
  <2>3. QED BY <1>0, <2>1, <2>2 DEF SoloInv, SequenceInv
<1>2. ASSUME t[1] \notin Excused
      PROVE  /\ stage[t] = "waiting"
             /\ \A u \in applied : u[1] # t[1]
  <2>1. stage[t] = "waiting" /\ pc[c] = "await" /\ t = TxOf(c) /\ at[c] = t[1]
    BY <1>0, <1>2 DEF SoloInv, PendingInv, StageInv, TxOf, Excused
  <2>2. ASSUME NEW u \in applied, u[1] = t[1] PROVE FALSE
    <3>1. ~(at[c] < at[c]) /\ at[c] \in Batches
      BY DEF TypeOK, Batches
    <3>2. status[c][u[1]] # "success"
      BY <2>1, <2>2, <3>1, AwaitQueue
    <3>3. stage[u] = "waiting"
      BY <1>2, <2>1, <2>2, <3>2 DEF SoloInv, KnownInv, Excused
    <3>4. u = t
      BY <1>0, <2>1, <3>3 DEF SoloInv, StageInv
    <3>5. t[2] <= acctSeq
      BY <3>4 DEF SoloInv, SequenceInv
    <3>6. QED BY <1>0, <3>5
  <2>3. QED BY <2>1, <2>2
<1>3. DoubleOnlyAfterDoubt'
  BY <1>0, <1>2 DEF SoloInv, DoubleOnlyAfterDoubt, Excused
<1>4. StageInv(c)' /\ PendingInv' /\ ShapeInv(c)' /\ PlanInv(c)' /\ OutcomeInv(c)' /\ LiveInv(c)'
  BY <1>0 DEF SoloInv, StageInv, PendingInv, ShapeInv, PlanInv, OutcomeInv, LiveInv, TxOf, Excused
<1>5. KnownInv(c)'
  BY <1>0, <1>2 DEF SoloInv, KnownInv, Excused
<1>6. QED BY <1>1, <1>3, <1>4, <1>5 DEF SoloInv

\* The other ledger steps only forget what the node holds.
LEMMA ForgetSolo ==
  ASSUME TypeOK, NEW c, Callers = {c}, SoloInv(c),
         mempool' \subseteq mempool, acctSeq' = acctSeq \/ mempool' = {},
         acctSeq' \in {acctSeq, acctSeq + 1},
         UNCHANGED <<applied, refused, clientVars, plan, receipt, doubtful, boundVars>>
  PROVE  SoloInv(c)'
<1>0. UNCHANGED <<stage, pc, mode, at, seqs, status, result, lastFailed, repeated, replayed, crashes>>
  BY DEF clientVars, boundVars
<1>1. SequenceInv'
  <2>1. \A u \in applied \cup refused : u[2] \in Nat /\ u[2] <= acctSeq
    BY SizeAssumption DEF SoloInv, SequenceInv, TypeOK, LedgerTypeOK, Tx, SeqNos
  <2>2. acctSeq \in Nat
    BY DEF TypeOK, LedgerTypeOK
  <2>3. QED BY <2>1, <2>2 DEF SoloInv, SequenceInv
<1>2. DoubleOnlyAfterDoubt' /\ PendingInv' /\ KnownInv(c)'
  BY <1>0 DEF SoloInv, DoubleOnlyAfterDoubt, PendingInv, KnownInv, Excused
<1>3. StageInv(c)' /\ ShapeInv(c)' /\ PlanInv(c)' /\ OutcomeInv(c)' /\ LiveInv(c)'
  BY <1>0 DEF SoloInv, StageInv, ShapeInv, PlanInv, OutcomeInv, LiveInv, TxOf
<1>4. QED BY <1>1, <1>2, <1>3 DEF SoloInv

\* The first state.
LEMMA InitSolo == ASSUME NEW c, Callers = {c}, Init PROVE SoloInv(c)
<1>1. \A b \in Batches : QueueFrom(1)[b] = "pending"
  BY DEF QueueFrom, Batches
<1>2. SequenceInv /\ DoubleOnlyAfterDoubt /\ PendingInv /\ KnownInv(c) /\ LiveInv(c)
  BY DEF Init, LedgerInit, SequenceInv, DoubleOnlyAfterDoubt, PendingInv, KnownInv, LiveInv, Excused
<1>3. StageInv(c) /\ ShapeInv(c) /\ PlanInv(c) /\ OutcomeInv(c)
  BY <1>1 DEF Init, NoFailure, StageInv, ShapeInv, PlanInv, OutcomeInv
<1>4. QED BY <1>2, <1>3 DEF SoloInv

\* Every step of a client with one call at a time keeps the invariant.
LEMMA NextSolo ==
  ASSUME TypeOK, IInv, NEW c, Callers = {c}, SoloInv(c), [Next]_vars
  PROVE  SoloInv(c)'
<1>1. CASE Build
  BY <1>1, BuildSolo
<1>2. CASE Application(c)
  BY <1>2, ExecuteSolo, RetrySolo, ResumeSolo, SaveSolo DEF Application
<1>3. CASE Continue(c)
  BY <1>3, RebuildSolo, OriginalSolo DEF Continue
<1>4. ASSUME NEW t \in Tx, Submission(t) PROVE SoloInv(c)'
  BY <1>4, SubmissionSolo
<1>5. CASE Environment
  <2>1. CASE OtherTx
    BY <1>5, <2>1, ForgetSolo DEF OtherTx, Environment
  <2>2. ASSUME NEW t \in mempool, Include(t) PROVE SoloInv(c)'
    BY <1>5, <2>2, IncludeSolo DEF Environment
  <2>3. ASSUME NEW t \in mempool, Evict(t) PROVE SoloInv(c)'
    BY <1>5, <2>3, ForgetSolo DEF Evict, Environment
  <2>4. QED BY <1>5, <2>1, <2>2, <2>3 DEF Environment, LedgerNext
<1>6. CASE Crash
  BY <1>6, CrashSolo
<1>7. CASE UNCHANGED vars
  BY <1>7 DEF vars, ledgerVars, clientVars, boundVars, SoloInv, SequenceInv,
     StageInv, DoubleOnlyAfterDoubt, PendingInv, KnownInv, ShapeInv, PlanInv,
     OutcomeInv, LiveInv, TxOf, Excused
<1>8. QED
  BY <1>1, <1>2, <1>3, <1>4, <1>5, <1>6, <1>7 DEF Next

\* When the calls on a client follow one another, the invariant holds
\* throughout, through refreshes, retries, resumptions and crashes.
THEOREM SoloInvariance ==
  ASSUME NEW c, Callers = {c} PROVE Spec => [](TypeOK /\ IInv /\ SoloInv(c))
<1>1. Init => TypeOK /\ IInv /\ SoloInv(c)
  BY InitType, InitInv, InitSolo
<1>2. (TypeOK /\ IInv /\ SoloInv(c)) /\ [Next]_vars => (TypeOK /\ IInv /\ SoloInv(c))'
  BY NextType, NextInv, NextSolo
<1>3. QED BY <1>1, <1>2, PTL DEF Spec

\* A batch is paid for twice only when the client missed or lost an answer
\* about it, or when the application executed it again after a call had returned
\* it as restored: for every plan, executed any number of times, and whichever
\* of executeRestoreBatches, retryFailedRestore and resumeRestoreBatches it goes
\* through.
THEOREM PaidTwiceOnlyInDoubt ==
  ASSUME NEW c, Callers = {c} PROVE Spec => []DoubleOnlyAfterDoubt
<1>1. TypeOK /\ IInv /\ SoloInv(c) => DoubleOnlyAfterDoubt
  BY DEF SoloInv
<1>2. Spec => [](TypeOK /\ IInv /\ SoloInv(c))
  BY SoloInvariance
<1>3. QED BY <1>1, <1>2, PTL

\* rebuildRestoreBatches never renumbers a batch the node still holds: until
\* a crash or a plan that is executed again, a second transaction of a batch is
\* built only once the first can no longer be included.
THEOREM RebuildReplacesTheDead ==
  ASSUME NEW d, Callers = {d} PROVE Spec => NoSecondLiveTransaction
<1> DEFINE A == \A c \in Callers, b \in Batches :
                  crashes = 0 /\ ~replayed /\ pc[c] = "refresh" /\ seqs'[c][b] # seqs[c][b]
                    => <<b, seqs[c][b]>> \notin mempool
<1>1. (TypeOK /\ IInv /\ SoloInv(d)) /\ [Next]_vars => A
  <2> SUFFICES ASSUME TypeOK, IInv, SoloInv(d), [Next]_vars, NEW b \in Batches,
                      crashes = 0 /\ ~replayed, pc[d] = "refresh", seqs'[d][b] # seqs[d][b],
                      <<b, seqs[d][b]>> \in mempool
               PROVE  FALSE
    OBVIOUS
  <2>1. Rebuild(d)
    <3>1. seqs' # seqs
      OBVIOUS
    <3>2. ~(Execute(d) \/ Retry(d) \/ Resume(d) \/ OriginalSettles(d))
      BY DEF Execute, Retry, Resume, OriginalSettles
    <3>3. ~(Build \/ SaveReceipt(d) \/ Environment \/ Crash \/ UNCHANGED vars)
      BY <3>1 DEF Build, SaveReceipt, Environment, Crash, clientVars, vars
    <3>4. \A t \in Tx : ~Submission(t)
      BY <3>1 DEF Submission, Sign, SendAccepted, SendRejected, SendLost, Reconcile,
         Confirm, GiveUp, SettleOk, SettleFailed
    <3>5. QED BY <3>2, <3>3, <3>4 DEF Next, Application, Continue
  <2>2. b = at[d] /\ seqs[d][b] = acctSeq + 1
    BY DEF SoloInv, LiveInv, SequenceInv, TxOf
  <2>3. seqs'[d][b] = seqs[d][b] \/ seqs'[d][b] = Renumber(seqs[d], at[d])[b]
    BY <2>1 DEF Rebuild, TypeOK
  <2>4. Renumber(seqs[d], at[d])[b] \in {acctSeq + 1, seqs[d][b]}
    BY <2>2, SizeAssumption DEF Renumber, Batches, TypeOK, LedgerTypeOK
  <2>5. QED BY <2>2, <2>3, <2>4
<1>2. Spec => [](TypeOK /\ IInv /\ SoloInv(d))
  BY SoloInvariance
<1>3. QED BY <1>1, <1>2, PTL DEF Spec, NoSecondLiveTransaction
=============================================================================
