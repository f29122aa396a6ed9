----------------------- MODULE ParallelRestore_proofs -----------------------
(***************************************************************************)
(* The semaphore of the concurrent restore flow neither loses nor invents  *)
(* a slot, and what the flow returns is complete, for every number of      *)
(* batches and every limit.                                                *)
(*                                                                         *)
(* The inductive invariant says where the waiting tasks are (after         *)
(* NextWaiter), that active counts the running ones, that it is at the     *)
(* limit while anything waits, and that the result's fields follow the     *)
(* tasks.                                                                  *)
(***************************************************************************)
EXTENDS ParallelRestore, FiniteSetTheorems, TLAPS

LEMMA TypeInit == Init => TypeOK
<1> SUFFICES ASSUME Init PROVE TypeOK
  OBVIOUS
<1>1. LedgerTypeOK
  BY SizeAssumption DEF Init, LedgerInit, LedgerTypeOK
<1>2. base \in 0..MaxSeq /\ tries \in [Batches -> 0..MaxRetries + 1]
  BY SizeAssumption, ParallelAssumption DEF Init
<1>3. task \in [Batches -> {"queued"} \cup InFlight \cup Settled]
  BY DEF Init
<1>4. QED
  BY <1>1, <1>2, <1>3 DEF Init, TypeOK

LEMMA TxType == TypeOK => \A b \in Batches : TxOf(b) \in Tx
  BY SizeAssumption DEF TypeOK, TxOf, Tx, Batches, SeqNos

\* What the settlement of a task does to the types.
LEMMA SettleType ==
  ASSUME TypeOK, NEW b \in Batches, NEW ok \in BOOLEAN, Settle(b, ok),
         UNCHANGED ledgerVars, active \in Nat \ {0} \/ NextWaiter <= N
  PROVE  TypeOK'
<1>1. LedgerTypeOK'
  BY DEF ledgerVars, TypeOK, LedgerTypeOK
<1>2. task' \in [Batches -> {"queued"} \cup InFlight \cup Settled]
  BY DEF Settle, TypeOK, InFlight, Settled
<1>3. /\ active' \in Nat /\ queueHead' \in Nat /\ restored' \in Nat
      /\ failedIndices' \subseteq Batches
  BY DEF Settle, ActiveAfterRelease, TypeOK
<1>4. /\ phase' \in {"idle", "built", "running", "original", "returned"}
      /\ outcome' \in {"none", "success", "failed", "threw"}
  BY DEF Settle, TypeOK
<1>5. QED
  BY <1>1, <1>2, <1>3, <1>4 DEF Settle, TypeOK

-----------------------------------------------------------------------------
Succeeded == {b \in Batches : task[b] = "success"}

\* Before the tasks are fired nothing has happened.
NotStarted ==
  phase \in {"idle", "built"} =>
    /\ \A b \in Batches : task[b] = "queued"
    /\ active = 0 /\ queueHead = 0 /\ restored = 0 /\ failedIndices = {}

\* The tasks that wait are the last ones, and they wait for full slots.
Waiting ==
  phase \notin {"idle", "built"} =>
    /\ \A b \in Batches : task[b] = "queued" <=> b >= NextWaiter
    /\ active <= Limit
    /\ NextWaiter <= N => active = Limit

Counted ==
  /\ active = Cardinality(Running)
  /\ restored = Cardinality(Succeeded)
  /\ \A b \in Batches : b \in failedIndices <=> task[b] = "failed"

\* What has succeeded is in a ledger.
Kept == \A b \in Batches : task[b] = "success" => TxOf(b) \in applied

Finished ==
  /\ phase \in {"original", "returned"} => AllSettled(task)
  /\ phase = "original" /\ mode = "originalAll" => failedIndices = {}

IInv == NotStarted /\ Waiting /\ Counted /\ Kept /\ Finished

LEMMA BatchesFinite == IsFiniteSet(Batches) /\ Cardinality(Batches) = N
  BY FS_Interval, SizeAssumption DEF Batches

LEMMA SubFinite == IsFiniteSet(Running) /\ IsFiniteSet(Succeeded)
  BY BatchesFinite, FS_Subset DEF Running, Succeeded

LEMMA InitInv == Init => IInv
<1> SUFFICES ASSUME Init PROVE IInv
  OBVIOUS
<1>1. Running = {} /\ Succeeded = {}
  BY DEF Init, Running, InFlight, Succeeded
<1>2. Cardinality({}) = 0
  BY FS_EmptySet
<1>3. Counted
  BY <1>1, <1>2 DEF Init, Counted
<1>4. QED
  BY <1>3 DEF Init, IInv, NotStarted, Waiting, Kept, Finished

\* A task can only settle while the tasks run, and it holds a slot.
LEMMA HoldsSlot ==
  ASSUME TypeOK, IInv, NEW b \in Batches, task[b] \in InFlight
  PROVE  phase = "running" /\ active \in Nat \ {0} /\ b < NextWaiter
<1>1. phase = "running"
  BY DEF IInv, NotStarted, Finished, AllSettled, TypeOK, InFlight, Settled
<1>2. b \in Running
  BY DEF Running
<1>3. active # 0
  BY <1>2, SubFinite, FS_EmptySet DEF IInv, Counted
<1>4. ~(b >= NextWaiter)
  BY <1>1 DEF IInv, Waiting, InFlight
<1>5. QED
  BY <1>1, <1>3, <1>4, ParallelAssumption DEF TypeOK, NextWaiter, Batches

\* The slot of a settled task goes to the next waiting one, or is free.
LEMMA SettleSlots ==
  ASSUME TypeOK, IInv, NEW b \in Batches, NEW ok \in BOOLEAN,
         task[b] \in InFlight, Settle(b, ok)
  PROVE  Waiting' /\ active' = Cardinality(Running')
<1>1. /\ active \in Nat \ {0} /\ b < NextWaiter /\ b \in Running
      /\ NextWaiter \in Nat \ {0} /\ active = Cardinality(Running)
  BY HoldsSlot, ParallelAssumption DEF Running, NextWaiter, TypeOK, IInv, Counted
<1>2. /\ \A c \in Batches : task[c] = "queued" <=> c >= NextWaiter
      /\ active <= Limit
      /\ NextWaiter <= N => active = Limit
  BY HoldsSlot DEF IInv, Waiting
<1>3. \A c \in Batches : task'[c] = IF c = b THEN IF ok THEN "success" ELSE "failed"
                                    ELSE IF c = NextWaiter THEN "signing" ELSE task[c]
  BY DEF Settle
<1>4. Cardinality(Running \ {b}) = active - 1 /\ IsFiniteSet(Running \ {b})
  BY <1>1, SubFinite, FS_RemoveElement
<1>5. CASE NextWaiter <= N
  <2>1. NextWaiter \in Batches /\ NextWaiter # b /\ NextWaiter \notin Running
    <3>1. NextWaiter \in Batches
      BY <1>1, <1>5, SizeAssumption DEF Batches
    <3>2. task[NextWaiter] = "queued"
      BY <1>1, <1>2, <3>1
    <3>3. QED
      BY <1>1, <3>1, <3>2 DEF Running, InFlight, Batches
  <2>2. Running' = (Running \ {b}) \cup {NextWaiter}
    BY <1>3, <2>1 DEF Running, InFlight
  <2>3. Cardinality(Running') = active
    <3>1. NextWaiter \notin Running \ {b}
      BY <2>1
    <3>2. Cardinality((Running \ {b}) \cup {NextWaiter}) = Cardinality(Running \ {b}) + 1
      BY <1>4, <3>1, FS_AddElement
    <3>3. Cardinality((Running \ {b}) \cup {NextWaiter}) = active
      BY <1>1, <1>4, <3>2
    <3>4. QED
      BY <2>2, <3>3
  <2>4. active' = active /\ NextWaiter' = NextWaiter + 1
    BY <1>5, ParallelAssumption DEF Settle, ActiveAfterRelease, NextWaiter, TypeOK
  <2>5. \A c \in Batches : task'[c] = "queued" <=> c >= NextWaiter + 1
    BY <1>1, <1>2, <1>3 DEF Batches
  <2>6. QED
    BY <1>2, <1>5, <2>3, <2>4, <2>5 DEF Waiting
<1>6. CASE ~(NextWaiter <= N)
  <2>1. \A c \in Batches : c < NextWaiter
    BY <1>1, <1>6, SizeAssumption DEF Batches
  <2>2. Running' = Running \ {b}
    BY <1>1, <1>3, <2>1 DEF Running, InFlight, Batches
  <2>3. active' = active - 1 /\ NextWaiter' = NextWaiter
    BY <1>6 DEF Settle, ActiveAfterRelease, NextWaiter
  <2>4. \A c \in Batches : task'[c] # "queued" /\ ~(c >= NextWaiter)
    BY <1>1, <1>2, <1>3, <2>1 DEF Batches
  <2>5. active' <= Limit /\ ~(NextWaiter' <= N)
    BY <1>1, <1>2, <1>6, <2>3, ParallelAssumption
  <2>6. QED
    BY <1>4, <2>2, <2>3, <2>4, <2>5 DEF Waiting
<1>7. QED
  BY <1>5, <1>6

\* The fields of the result follow the tasks.
LEMMA SettleResult ==
  ASSUME TypeOK, IInv, NEW b \in Batches, NEW ok \in BOOLEAN,
         task[b] \in InFlight, Settle(b, ok), ok => TxOf(b) \in applied,
         UNCHANGED ledgerVars
  PROVE  /\ restored' = Cardinality(Succeeded')
         /\ \A c \in Batches : c \in failedIndices' <=> task'[c] = "failed"
         /\ NotStarted' /\ Kept' /\ Finished'
<1>1. \A c \in Batches : task'[c] = IF c = b THEN IF ok THEN "success" ELSE "failed"
                                    ELSE IF c = NextWaiter THEN "signing" ELSE task[c]
  BY DEF Settle
<1>2. phase = "running" /\ b # NextWaiter
  BY HoldsSlot, ParallelAssumption DEF Batches, NextWaiter, TypeOK
<1>3. NextWaiter \in Batches => task[NextWaiter] = "queued"
  BY <1>2, ParallelAssumption DEF IInv, Waiting, NextWaiter, TypeOK
<1>4. restored' = Cardinality(Succeeded')
  <2>1. CASE ok
    <3>1. Succeeded' = Succeeded \cup {b} /\ b \notin Succeeded
      BY <1>1, <1>2, <1>3, <2>1 DEF Succeeded, InFlight
    <3>2. Cardinality(Succeeded') = Cardinality(Succeeded) + 1
      BY <3>1, SubFinite, FS_AddElement
    <3>3. QED
      BY <2>1, <3>2 DEF Settle, IInv, Counted
  <2>2. CASE ~ok
    <3>1. Succeeded' = Succeeded
      BY <1>1, <1>2, <1>3, <2>2 DEF Succeeded, InFlight
    <3>2. QED
      BY <2>2, <3>1 DEF Settle, IInv, Counted
  <2>3. QED
    BY <2>1, <2>2
<1>5. \A c \in Batches : c \in failedIndices' <=> task'[c] = "failed"
  <2>1. \A c \in Batches : c \in failedIndices <=> task[c] = "failed"
    BY DEF IInv, Counted
  <2>2. failedIndices' = IF ok THEN failedIndices ELSE failedIndices \cup {b}
    BY DEF Settle
  <2>3. QED
    BY <1>1, <1>2, <1>3, <2>1, <2>2 DEF InFlight
<1>6. Kept'
  <2>1. \A c \in Batches : TxOf(c)' = TxOf(c) /\ applied' = applied
    BY DEF Settle, TxOf, ledgerVars
  <2>2. QED
    BY <1>1, <2>1 DEF Kept, IInv
<1>7. phase' = (IF ~AllSettled(task') THEN phase
                ELSE IF Proceeds(failedIndices') THEN "original" ELSE "returned")
      /\ mode' = mode
  BY DEF Settle
<1>8. Finished'
  <2>1. AllSettled(task)' = AllSettled(task')
    BY DEF AllSettled
  <2>2. phase' \in {"original", "returned"} => AllSettled(task)'
    BY <1>2, <1>7, <2>1
  <2>3. phase' = "original" => Proceeds(failedIndices')
    BY <1>2, <1>7
  <2>4. QED
    BY <1>7, <2>2, <2>3 DEF Finished, Proceeds
<1>9. NotStarted'
  BY <1>2, <1>7 DEF NotStarted
<1>10. QED
  BY <1>4, <1>5, <1>6, <1>8, <1>9

LEMMA SettleInv ==
  ASSUME TypeOK, IInv, NEW b \in Batches, NEW ok \in BOOLEAN,
         task[b] \in InFlight, Settle(b, ok), ok => TxOf(b) \in applied,
         UNCHANGED ledgerVars
  PROVE  TypeOK' /\ IInv'
<1>1. TypeOK'
  BY HoldsSlot, SettleType
<1>2. QED
  BY <1>1, SettleSlots, SettleResult DEF IInv, Counted

\* A step that moves a task from one stage of its submission to another.
LEMMA MoveInv ==
  ASSUME TypeOK, IInv, NEW b \in Batches, NEW to \in InFlight,
         task[b] \in InFlight, task' = [task EXCEPT ![b] = to], applied' = applied,
         UNCHANGED <<phase, mode, base, active, queueHead, restored, failedIndices>>
  PROVE  IInv'
<1>1. \A c \in Batches : task'[c] = IF c = b THEN to ELSE task[c]
  BY DEF TypeOK
<1>2. Running' = Running /\ Succeeded' = Succeeded
  BY <1>1 DEF Running, Succeeded, InFlight
<1>3. Counted'
  BY <1>1, <1>2 DEF IInv, Counted, InFlight
<1>4. phase = "running"
  BY HoldsSlot
<1>5. NotStarted' /\ Finished'
  BY <1>4 DEF NotStarted, Finished
<1>6. Waiting'
  BY <1>1 DEF IInv, Waiting, NextWaiter, InFlight
<1>7. Kept'
  BY <1>1 DEF IInv, Kept, TxOf, InFlight
<1>8. QED
  BY <1>3, <1>5, <1>6, <1>7 DEF IInv

\* The start: the first Limit tasks run, the others wait.
LEMMA ExecuteInv == TypeOK /\ IInv /\ Execute => IInv'
<1> SUFFICES ASSUME TypeOK, IInv, Execute PROVE IInv'
  OBVIOUS
<1>1. /\ queueHead = 0 /\ restored = 0 /\ failedIndices = {}
      /\ phase' = "running" /\ UNCHANGED <<queueHead, restored, failedIndices>>
      /\ active' = IF N <= Limit THEN N ELSE Limit
  BY DEF Execute, IInv, NotStarted
<1>2. \A b \in Batches : task'[b] = IF b <= Limit THEN "signing" ELSE "queued"
  BY DEF Execute, First
<1>3. Running' = 1..active' /\ Succeeded' = {}
  BY <1>1, <1>2, SizeAssumption, ParallelAssumption DEF Running, Succeeded, InFlight, Batches
<1>4. Cardinality(1..active') = active' /\ Cardinality({}) = 0
  BY <1>1, FS_Interval, FS_EmptySet, SizeAssumption, ParallelAssumption
<1>5. Counted'
  BY <1>1, <1>2, <1>3, <1>4 DEF Counted
<1>6. Waiting'
  <2>1. NextWaiter' = Limit + 1
    BY <1>1, ParallelAssumption DEF NextWaiter
  <2>2. QED
    BY <1>1, <1>2, <2>1, SizeAssumption, ParallelAssumption DEF Waiting, Batches
<1>7. NotStarted' /\ Kept' /\ Finished'
  BY <1>1, <1>2 DEF NotStarted, Kept, Finished
<1>8. QED
  BY <1>5, <1>6, <1>7 DEF IInv

\* The network's steps leave the call alone and keep what has landed.
LEMMA EnvironmentKeeps ==
  TypeOK /\ Environment => LedgerTypeOK' /\ applied \subseteq applied'
<1> SUFFICES ASSUME TypeOK, Environment
             PROVE  LedgerTypeOK' /\ applied \subseteq applied'
  OBVIOUS
<1>1. ASSUME NEW t \in mempool, Include(t) \/ Evict(t)
      PROVE  LedgerTypeOK' /\ applied \subseteq applied'
  BY <1>1, SizeAssumption DEF Include, Evict, TypeOK, LedgerTypeOK
<1>2. CASE OtherTx
  BY <1>2, SizeAssumption DEF OtherTx, TypeOK, LedgerTypeOK
<1>3. QED
  BY <1>1, <1>2 DEF Environment, LedgerNext

LEMMA NextInv == TypeOK /\ IInv /\ [Next]_vars => TypeOK' /\ IInv'
<1> SUFFICES ASSUME TypeOK, IInv, [Next]_vars PROVE TypeOK' /\ IInv'
  OBVIOUS
<1>1. CASE Build
  <2>1. TypeOK'
    BY <1>1 DEF Build, ledgerVars, TypeOK, LedgerTypeOK
  <2>2. Running' = Running /\ Succeeded' = Succeeded
    BY <1>1 DEF Build, Running, Succeeded
  <2>3. Kept'
    BY <1>1 DEF Build, IInv, NotStarted, Kept
  <2>4. QED
    BY <1>1, <2>1, <2>2, <2>3 DEF Build, IInv, NotStarted, Waiting, Counted, Finished
<1>2. CASE Execute
  <2>1. task' \in [Batches -> {"queued"} \cup InFlight \cup Settled] /\ active' \in Nat
    BY <1>2, SizeAssumption, ParallelAssumption DEF Execute, InFlight
  <2>2. TypeOK'
    BY <1>2, <2>1 DEF Execute, ledgerVars, TypeOK, LedgerTypeOK
  <2>3. QED
    BY <1>2, <2>2, ExecuteInv
<1>3. CASE OriginalSettles
  <2>1. TypeOK'
    BY <1>3 DEF OriginalSettles, ledgerVars, TypeOK, LedgerTypeOK
  <2>2. Running' = Running /\ Succeeded' = Succeeded
    BY <1>3 DEF OriginalSettles, Running, Succeeded
  <2>3. Kept' /\ Waiting'
    BY <1>3 DEF OriginalSettles, IInv, Kept, TxOf, ledgerVars, Waiting, NextWaiter
  <2>4. Finished'
    BY <1>3 DEF OriginalSettles, IInv, Finished, AllSettled
  <2>5. QED
    BY <1>3, <2>1, <2>2, <2>3, <2>4 DEF OriginalSettles, IInv, NotStarted, Counted
<1>4. ASSUME NEW b \in Batches, Sign(b)
      PROVE  TypeOK' /\ IInv'
  <2>1. task[b] \in InFlight
    BY <1>4 DEF Sign, InFlight
  <2>2. CASE Settle(b, FALSE)
    BY <1>4, <2>1, <2>2, SettleInv DEF Sign
  <2>3. CASE ~Settle(b, FALSE)
    <3>1. task' = [task EXCEPT ![b] = "sending"] /\ tries' = [tries EXCEPT ![b] = 1]
      BY <1>4, <2>3 DEF Sign
    <3>2. 1 \in 0..MaxRetries + 1
      BY ParallelAssumption
    <3>3. TypeOK'
      BY <1>4, <2>3, <3>1, <3>2 DEF Sign, ledgerVars, TypeOK, LedgerTypeOK, InFlight
    <3>4. IInv'
      BY <1>4, <2>1, <2>3, <3>1, MoveInv DEF Sign, ledgerVars, InFlight
    <3>5. QED
      BY <3>3, <3>4
  <2>4. QED
    BY <2>2, <2>3
<1>5. ASSUME NEW b \in Batches, SendAccepted(b)
      PROVE  TypeOK' /\ IInv'
  <2>1. TypeOK'
    BY <1>5, TxType DEF SendAccepted, TypeOK, LedgerTypeOK, InFlight
  <2>2. QED
    BY <1>5, <2>1, MoveInv DEF SendAccepted, InFlight
<1>6. ASSUME NEW b \in Batches, SendRejected(b)
      PROVE  TypeOK' /\ IInv'
  BY <1>6, SettleInv DEF SendRejected, InFlight
<1>7. ASSUME NEW b \in Batches, SendLost(b)
      PROVE  TypeOK' /\ IInv'
  <2>1. task[b] = "sending" /\ mempool' \subseteq Tx
    BY <1>7, TxType DEF SendLost, TypeOK, LedgerTypeOK
  <2>2. tries' \in [Batches -> 0..MaxRetries + 1]
    <3>1. tries[b] <= MaxRetries => tries[b] + 1 \in 0..MaxRetries + 1
      BY ParallelAssumption DEF TypeOK
    <3>2. QED
      BY <1>7, <3>1 DEF SendLost, TypeOK
  <2>3. PICK to \in {"sending", "lookup"} : task' = [task EXCEPT ![b] = to]
    BY <1>7, <2>1 DEF SendLost, TypeOK
  <2>4. TypeOK'
    BY <1>7, <2>1, <2>2, <2>3 DEF SendLost, TypeOK, LedgerTypeOK, InFlight
  <2>5. QED
    BY <1>7, <2>1, <2>3, <2>4, MoveInv DEF SendLost, InFlight
<1>8. ASSUME NEW b \in Batches, Conclude(b)
      PROVE  TypeOK' /\ IInv'
  <2>1. task[b] \in InFlight /\ UNCHANGED ledgerVars
    BY <1>8 DEF Conclude, InFlight
  <2>2. CASE Found(b) /\ Settle(b, TRUE)
    BY <2>1, <2>2, SettleInv DEF Found
  <2>3. CASE Settle(b, FALSE)
    BY <2>1, <2>3, SettleInv
  <2>4. QED
    BY <1>8, <2>2, <2>3 DEF Conclude
<1>9. CASE Environment
  <2>1. UNCHANGED clientVars
    BY <1>9 DEF Environment
  <2>2. TypeOK'
    BY <1>9, <2>1, EnvironmentKeeps DEF clientVars, TypeOK
  <2>3. Running' = Running /\ Succeeded' = Succeeded
    BY <2>1 DEF clientVars, Running, Succeeded
  <2>4. Kept'
    BY <1>9, <2>1, EnvironmentKeeps DEF clientVars, IInv, Kept, TxOf
  <2>5. QED
    BY <2>1, <2>2, <2>3, <2>4 DEF clientVars, IInv, NotStarted, Waiting,
       NextWaiter, Counted, Finished, AllSettled
<1>10. CASE UNCHANGED vars
  <2>1. TypeOK'
    BY <1>10 DEF vars, clientVars, ledgerVars, TypeOK, LedgerTypeOK
  <2>2. Running' = Running /\ Succeeded' = Succeeded
    BY <1>10 DEF vars, clientVars, Running, Succeeded
  <2>3. QED
    BY <1>10, <2>1, <2>2 DEF vars, clientVars, ledgerVars, IInv, NotStarted,
       Waiting, NextWaiter, Counted, Finished, AllSettled, Kept, TxOf
<1>11. QED
  BY <1>1, <1>2, <1>3, <1>4, <1>5, <1>6, <1>7, <1>8, <1>9, <1>10 DEF Next, Submission

\* Type correctness and the inductive invariant of ParallelRestore.
THEOREM Invariance == Spec => [](TypeOK /\ IInv)
  BY TypeInit, InitInv, NextInv, PTL DEF Spec

\* The semaphore of executeRestoreBatchesConcurrent counts its running tasks,
\* respects the limit and leaves no slot idle.
THEOREM Slots == Spec => []SlotsAreKept
<1>1. TypeOK /\ IInv => SlotsAreKept
  <2> SUFFICES ASSUME TypeOK, IInv, phase = "running"
               PROVE  /\ active = Cardinality(Running)
                      /\ active <= Limit
                      /\ \A b \in Batches : task[b] = "queued" => active = Limit
    BY DEF SlotsAreKept
  <2>1. \A b \in Batches : b >= NextWaiter => NextWaiter <= N
    BY SizeAssumption, ParallelAssumption DEF Batches, NextWaiter, TypeOK
  <2>2. QED
    BY <2>1 DEF IInv, Waiting, Counted
<1>2. QED
  BY <1>1, Invariance, PTL

\* What executeRestoreBatchesConcurrent returns accounts for every batch.
THEOREM Complete == Spec => []ResultIsComplete
<1>1. TypeOK /\ IInv => ResultIsComplete
  <2> SUFFICES ASSUME TypeOK, IInv, phase \in {"original", "returned"}
               PROVE  /\ \A b \in Batches : task[b] \in Settled
                      /\ \A b \in Batches : b \notin failedIndices => TxOf(b) \in applied
                      /\ restored + Cardinality(failedIndices) = N
    BY DEF ResultIsComplete
  <2>1. \A b \in Batches : task[b] \in Settled
    BY DEF IInv, Finished, AllSettled
  <2>2. \A b \in Batches : b \in failedIndices <=> task[b] = "failed"
    BY DEF IInv, Counted
  <2>3. failedIndices \subseteq Batches /\ IsFiniteSet(failedIndices)
    BY BatchesFinite, FS_Subset DEF TypeOK
  <2>4. Succeeded \cup failedIndices = Batches /\ Succeeded \cap failedIndices = {}
    BY <2>1, <2>2, <2>3 DEF Succeeded, Settled
  <2>5. Cardinality(Batches) =
          Cardinality(Succeeded) + Cardinality(failedIndices) - Cardinality({})
    BY <2>3, <2>4, SubFinite, FS_Union
  <2>6. Cardinality(failedIndices) \in Nat /\ Cardinality({}) = 0
    BY <2>3, FS_CardinalityType, FS_EmptySet
  <2>7. restored + Cardinality(failedIndices) = N
    BY <2>5, <2>6, BatchesFinite DEF IInv, Counted, TypeOK
  <2>8. QED
    BY <2>1, <2>2, <2>7 DEF IInv, Kept, Settled
<1>2. QED
  BY <1>1, Invariance, PTL

\* The original transaction waits for every batch when they are required.
THEOREM OriginalComesLast == Spec => []OriginalNeedsAllBatches
<1>1. TypeOK /\ IInv => OriginalNeedsAllBatches
  <2> SUFFICES ASSUME TypeOK, IInv, phase = "original", mode = "originalAll",
                      NEW b \in Batches
               PROVE  Landed(b)
    BY DEF OriginalNeedsAllBatches
  <2>1. task[b] = "success"
    BY DEF IInv, Finished, AllSettled, Counted, Settled
  <2>2. TxOf(b) \in applied
    BY <2>1 DEF IInv, Kept
  <2>3. TxOf(b)[1] = b
    BY DEF TxOf
  <2>4. QED
    BY <2>2, <2>3 DEF Landed
<1>2. QED
  BY <1>1, Invariance, PTL
=============================================================================
