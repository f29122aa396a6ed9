------------------------ MODULE CoreRestore_proofs --------------------------
(***************************************************************************)
(* What the core client reports about a restore is true, for every number  *)
(* of batches, every retry policy and every account of the ledger.         *)
(*                                                                         *)
(* The inductive invariant says, for each point of a call, which of its    *)
(* tasks may still run and which batches of the plan are then restored.    *)
(***************************************************************************)
EXTENDS CoreRestore, Sifting_proofs

Restored(b)    == config.confirms => Landed(b)
RestoredTo(n)  == \A b \in Batches : b < n => Restored(b)
PlanRestored   == \A b \in PlanBatches : Restored(b)
NothingRuns    == ~Running(stage)

\* Before a plan is built nothing has been called.
NoPlanYet ==
  /\ plan.kind = "none" => /\ pc = "idle" /\ lastFailed.from = 0
                           /\ result = NoResult
  /\ plan.kind # "none" => plan.size \in Batches
  /\ plan.kind = "first" => plan.size = 1
  /\ pc # "idle" /\ mode = "single" => plan.kind = "first"

\* A task that the client calls restored is.
TasksRestored == \A b \in Batches : stage[b] = "success" => Restored(b)

\* A sequential call works on one batch, and those before it are restored.
OneByOne ==
  pc = "restore" /\ Sequential =>
    \E i \in 1..LastBatch :
      /\ stage[i] \notin Settled
      /\ \A b \in Tasks : b # i => stage[b] \in {"off", "success"}
      /\ RestoredTo(i)

\* A pool has a task for every batch of the plan.
SideBySide ==
  pc = "restore" /\ ~Sequential =>
    /\ \A b \in PlanBatches : stage[b] # "off"
    /\ stage[0] \in Settled

\* After the last batch nothing of the restore is left to do.
Afterwards ==
  /\ pc \in {"verify", "original"} =>
       /\ \A b \in Batches : stage[b] \in Settled
       /\ Failures(stage) = {} => PlanRestored
       /\ mode # "parallelAny" => Failures(stage) = {}
  /\ pc = "verify" => stage[0] \in Settled

\* Outside a call nothing runs, except what an early rejection left behind.
Quiet ==
  /\ pc \in {"idle", "rebuild"} => NothingRuns
  /\ pc = "returned" => stage[0] \in Settled
  /\ pc = "returned" /\ (Sequential \/ config.supplied) => NothingRuns

\* What getFailedKeys() and a retry leave out is restored.
LeftOut ==
  /\ lastFailed.from <= plan.size
  /\ lastFailed.from # 0 => RestoredTo(lastFailed.from)
  /\ pc = "rebuild" => first <= plan.size /\ RestoredTo(first) /\ mode = "retry"

Reported ==
  /\ result.confirmed => config.confirms /\ PlanRestored
  /\ result.status = "success" /\ mode # "parallelAny" => PlanRestored

IInv == /\ NoPlanYet /\ TasksRestored /\ OneByOne /\ SideBySide /\ Afterwards
        /\ Quiet /\ LeftOut /\ Reported

-----------------------------------------------------------------------------
(* Types.                                                                  *)

LEMMA Sizes == /\ Batches \subseteq Nat /\ Batches \subseteq Tasks
               /\ 0 \in Tasks /\ 0 \notin Batches
               /\ \A b \in Tasks : b # 0 => b \in Batches
               /\ 1 \in Batches
  BY SizeAssumption DEF Batches, Tasks

LEMMA TypeInit == Init => TypeOK
<1> SUFFICES ASSUME Init PROVE TypeOK
  OBVIOUS
<1>1. LedgerTypeOK
  BY SizeAssumption DEF Init, LedgerInit, LedgerTypeOK
<1>2. [b \in Batches |-> b] \in SeqMap
  BY SizeAssumption DEF SeqMap, Batches, SeqNos
<1>3. AllOff \in [Tasks -> Stages]
  BY DEF AllOff, Stages
<1>4. [b \in Tasks |-> 0] \in [Tasks -> 0..(MaxRetries + MaxPolls + 1)]
  BY CoreAssumption
<1>5. archived \in Seq(Keys)
  BY DEF Init
<1>6. calls \in 0..MaxCalls
  BY CoreAssumption DEF Init
<1>7. plan \in [kind : {"none", "first", "sequential", "grouped"},
                size : 0..N, seqs : SeqMap]
  BY <1>2, SizeAssumption DEF Init
<1>8. result \in Results /\ lastFailed \in [from : 0..N, src : BOOLEAN]
  BY SizeAssumption DEF Init, NoResult, NoFailure, Results
<1>9. QED
  BY <1>1, <1>2, <1>3, <1>4, <1>5, <1>6, <1>7, <1>8, Sizes
     DEF Init, TypeOK, Modes, Points

LEMMA EnterType ==
  ASSUME NEW st \in [Tasks -> Stages], NEW T
  PROVE  Enter(st, T) \in [Tasks -> Stages]
  BY DEF Enter, Stages

LEMMA CheckingType ==
  ASSUME TypeOK, identity' = Checking(stage')
  PROVE  identity' \in {"none", "checking", "ok"}
  BY DEF TypeOK, Checking

LEMMA NumbersType ==
  ASSUME TypeOK, NEW from \in Batches
  PROVE  NumbersFrom(from) \in SeqMap
<1> SUFFICES ASSUME NEW b \in Batches
             PROVE  (IF b < from THEN seqs[b] ELSE acctSeq + 1 + b - from) \in SeqNos
  BY DEF NumbersFrom, SeqMap
<1>1. CASE b < from
  BY <1>1 DEF TypeOK, SeqMap
<1>2. CASE ~(b < from)
  BY <1>2, SizeAssumption DEF TypeOK, LedgerTypeOK, Batches, SeqNos
<1>3. QED
  BY <1>1, <1>2

LEMMA TxType == TypeOK => \A b \in Batches : TxOf(b) \in Tx
  BY DEF TypeOK, TxOf, Tx, SeqMap

\* What a step of a submission leaves to the types once the ledger, the result
\* and the tasks are typed.
LEMMA SubmissionType ==
  ASSUME TypeOK, UNCHANGED fixedVars, LedgerTypeOK',
         stage' \in [Tasks -> Stages],
         attempts' \in [Tasks -> 0..(MaxRetries + MaxPolls + 1)],
         identity' \in {"none", "checking", "ok"},
         pc' \in Points, result' \in Results,
         lastFailed' \in [from : 0..N, src : BOOLEAN]
  PROVE  TypeOK'
  BY DEF TypeOK, fixedVars

LEMMA ReleaseType ==
  ASSUME NEW st \in [Tasks -> Stages], Release(st)
  PROVE  stage' \in [Tasks -> Stages]
  BY EnterType DEF Release

LEMMA ResultTypes ==
  /\ Threw \in Results /\ Failed \in Results /\ NoResult \in Results
  /\ Simulated \in Results
  /\ \A flag \in BOOLEAN : Success(flag) \in Results
  /\ NoFailure \in [from : 0..N, src : BOOLEAN]
  BY SizeAssumption DEF Threw, Failed, NoResult, Simulated, Success, NoFailure, Results

LEMMA SettlesType ==
  ASSUME TypeOK, IInv, NEW b \in Tasks, stage[b] \notin Settled,
         NEW ok \in BOOLEAN, Settles(b, ok)
  PROVE  /\ stage' \in [Tasks -> Stages]
         /\ attempts' \in [Tasks -> 0..(MaxRetries + MaxPolls + 1)]
         /\ identity' \in {"none", "checking", "ok"}
         /\ pc' \in Points /\ result' \in Results
         /\ lastFailed' \in [from : 0..N, src : BOOLEAN]
<1> DEFINE outcome == IF ok THEN "success" ELSE "failed"
<1> USE ResultTypes
<1>1. [stage EXCEPT ![b] = outcome] \in [Tasks -> Stages]
  BY DEF TypeOK, Stages
<1>2. identity' = Checking(stage')
  BY DEF Settles, Succeed, Fail
<1>3. attempts' \in [Tasks -> 0..(MaxRetries + MaxPolls + 1)]
  BY CoreAssumption DEF Settles, TypeOK
<1>4. \A all \in BOOLEAN : ConfirmedFlag(all) \in BOOLEAN
  BY DEF ConfirmedFlag, TypeOK, Config
<1>5. (Failures(stage) = {}) \in BOOLEAN /\ (mode = "retry" /\ ConfirmedFlag(TRUE)) \in BOOLEAN
  BY <1>4
<1>6. CASE b = 0
  <2>1. OriginalEnds(outcome)
    BY <1>6 DEF Settles, Succeed, Fail
  <2>2. QED
    BY <2>1, <1>1, <1>2, <1>3, <1>4, <1>5, CheckingType
       DEF OriginalEnds, Return, Points, TypeOK
<1>7. CASE b # 0 /\ Sequential /\ ok
  <2>1. AfterBatch(b)
    BY <1>7 DEF Settles, Succeed
  <2>2. [stage EXCEPT ![b] = "success"] \in [Tasks -> Stages]
    BY <1>1, <1>7
  <2>3. stage' \in [Tasks -> Stages]
    BY <2>1, <2>2, EnterType DEF AfterBatch
  <2>4. pc' \in Points /\ lastFailed' \in [from : 0..N, src : BOOLEAN]
    BY <2>1 DEF AfterBatch, Return, Points, TypeOK
  <2>5. result' \in Results
    BY <2>1, <1>5 DEF AfterBatch, Return, TypeOK
  <2>6. QED
    BY <2>3, <2>4, <2>5, <1>2, <1>3, CheckingType
<1>8. CASE b # 0 /\ Sequential /\ ~ok
  <2>1. BatchFails(b)
    BY <1>8 DEF Settles, Fail
  <2>2. FailureFrom(b) \in [from : 0..N, src : BOOLEAN]
    BY SizeAssumption DEF FailureFrom, Tasks, TypeOK
  <2>3. stage' \in [Tasks -> Stages]
    BY <2>1, <1>1, <1>8 DEF BatchFails
  <2>4. pc' \in Points /\ result' \in Results
    BY <2>1 DEF BatchFails, Return, Points
  <2>5. lastFailed' \in [from : 0..N, src : BOOLEAN]
    BY <2>1, <2>2 DEF BatchFails, TypeOK
  <2>6. QED
    BY <2>3, <2>4, <2>5, <1>2, <1>3, CheckingType
<1>9. CASE b # 0 /\ ~Sequential
  <2>1. PoolTaskEnds(b, outcome)
    BY <1>9 DEF Settles, Succeed, Fail
  <2>2. stage' \in [Tasks -> Stages]
    BY <2>1, <1>1, ReleaseType DEF PoolTaskEnds
  <2>3. pc' \in Points /\ result' \in Results
    BY <2>1 DEF PoolTaskEnds, AllSettled, PoolResult, Return, Points, TypeOK
  <2>4. QED
    BY <2>1, <2>2, <2>3, <1>2, <1>3, CheckingType DEF PoolTaskEnds, TypeOK
<1>10. QED
  BY <1>6, <1>7, <1>8, <1>9

-----------------------------------------------------------------------------
(* The invariant through a settlement.                                     *)

LEMMA Monotone ==
  ASSUME applied \subseteq applied', config' = config, plan' = plan
  PROVE  /\ \A b \in Batches : Restored(b) => Restored(b)'
         /\ \A n : RestoredTo(n) => RestoredTo(n)'
         /\ PlanRestored => PlanRestored'
<1>1. \A b : Landed(b) => Landed(b)'
  BY DEF Landed
<1>2. \A b : Restored(b) => Restored(b)'
  BY <1>1 DEF Restored
<1>3. QED
  BY <1>2 DEF RestoredTo, PlanRestored, PlanBatches

\* A step that settles and starts no task keeps the invariant.
LEMMA SameShape ==
  ASSUME TypeOK, IInv, applied \subseteq applied',
         UNCHANGED <<config, plan, mode, src, first, pc, result, lastFailed>>,
         \A b \in Tasks : /\ stage[b] \in Settled => stage'[b] = stage[b]
                          /\ stage[b] \notin Settled => stage'[b] \notin Settled
  PROVE  IInv'
<1>0. Sequential' = Sequential /\ LastBatch' = LastBatch /\ PlanBatches' = PlanBatches
  BY DEF Sequential, LastBatch, PlanBatches
<1>a. /\ \A b \in Batches : Restored(b) => Restored(b)'
      /\ \A n : RestoredTo(n) => RestoredTo(n)'
      /\ PlanRestored => PlanRestored'
  BY Monotone
<1>b. \A b \in Batches : /\ stage[b] \in Settled => stage'[b] = stage[b]
                         /\ stage[b] \notin Settled => stage'[b] \notin Settled
  BY Sizes
<1>c. /\ stage[0] \in Settled => stage'[0] = stage[0]
      /\ stage[0] \notin Settled => stage'[0] \notin Settled
  BY Sizes
<1>d. \A b \in Tasks : stage'[b] \in Settled <=> stage[b] \in Settled
  OBVIOUS
<1>1. NothingRuns' <=> NothingRuns
  BY <1>d DEF NothingRuns, Running
<1>e. \A b \in Batches : /\ stage'[b] = "failed" <=> stage[b] = "failed"
                         /\ stage'[b] = "success" <=> stage[b] = "success"
                         /\ stage'[b] = "off" <=> stage[b] = "off"
  BY <1>b DEF Settled
<1>f. Failures(stage)' = Failures(stage)
  BY <1>e DEF Failures
<1>2. NoPlanYet'
  BY DEF IInv, NoPlanYet
<1>3. TasksRestored'
  BY <1>a, <1>e DEF IInv, TasksRestored
<1>4. OneByOne'
  <2> SUFFICES ASSUME pc = "restore", Sequential
               PROVE  \E i \in 1..LastBatch :
                        /\ stage'[i] \notin Settled
                        /\ \A b \in Tasks : b # i => stage'[b] \in {"off", "success"}
                        /\ RestoredTo(i)'
    BY <1>0 DEF OneByOne
  <2>1. PICK i \in 1..LastBatch : /\ stage[i] \notin Settled
                                  /\ \A b \in Tasks : b # i => stage[b] \in {"off", "success"}
                                  /\ RestoredTo(i)
    BY DEF IInv, OneByOne
  <2>2. i \in Tasks
    BY SizeAssumption DEF LastBatch, Tasks, TypeOK
  <2>3. stage'[i] \notin Settled
    BY <2>1, <2>2
  <2>4. \A b \in Tasks : b # i => stage'[b] \in {"off", "success"}
    BY <2>1 DEF Settled
  <2>5. RestoredTo(i)'
    BY <2>1, <1>a
  <2>6. QED
    BY <2>3, <2>4, <2>5
<1>5. SideBySide'
  <2>1. PlanBatches \subseteq Batches
    BY SizeAssumption DEF PlanBatches, Batches, TypeOK
  <2>2. \A b \in PlanBatches : stage[b] # "off" => stage'[b] # "off"
    BY <2>1, <1>e
  <2>3. QED
    BY <1>0, <1>c, <2>2 DEF IInv, SideBySide
<1>6. Afterwards'
  <2>1. \A b \in Batches : stage[b] \in Settled => stage'[b] \in Settled
    BY <1>b
  <2>2. pc' = pc /\ mode' = mode /\ Failures(stage)' = Failures(stage)
    BY <1>f
  <2>3. QED
    BY <1>a, <1>c, <2>1, <2>2 DEF IInv, Afterwards
<1>7. Quiet'
  BY <1>0, <1>1, <1>c DEF IInv, Quiet
<1>8. LeftOut' /\ Reported'
  BY <1>a DEF IInv, LeftOut, Reported
<1>9. QED
  BY <1>2, <1>3, <1>4, <1>5, <1>6, <1>7, <1>8 DEF IInv
\* Where the call stands when a task is under way.
LEMMA WhereTasksRun ==
  ASSUME TypeOK, IInv, NEW b \in Tasks, stage[b] \notin Settled
  PROVE  /\ b = 0 => pc = "original"
         /\ b # 0 /\ Sequential => pc = "restore"
         /\ b # 0 /\ ~Sequential => pc \in {"restore", "returned"}
<1>1. Running(stage)
  BY DEF Running
<1>2. pc \notin {"idle", "rebuild"}
  BY <1>1 DEF IInv, Quiet, NothingRuns
<1>3. pc \in {"restore", "verify", "original", "returned"}
  BY <1>2 DEF TypeOK, Points
<1>4. CASE b = 0
  <2>1. pc # "returned" /\ pc # "verify"
    BY <1>4 DEF IInv, Quiet, Afterwards
  <2>2. ~(pc = "restore" /\ ~Sequential)
    BY <1>4 DEF IInv, SideBySide
  <2>3. ~(pc = "restore" /\ Sequential)
    <3>1. SUFFICES ASSUME pc = "restore", Sequential PROVE FALSE
      OBVIOUS
    <3>2. PICK i \in 1..LastBatch : \A x \in Tasks : x # i => stage[x] \in Settled
      BY <3>1 DEF IInv, OneByOne, Settled
    <3>3. i # 0
      BY <3>2 DEF LastBatch, TypeOK
    <3>4. QED
      BY <1>4, <3>2, <3>3
  <2>4. QED
    BY <1>3, <1>4, <2>1, <2>2, <2>3
<1>5. CASE b # 0
  <2>1. b \in Batches
    BY <1>5, Sizes
  <2>2. pc # "original" /\ pc # "verify"
    BY <2>1 DEF IInv, Afterwards
  <2>3. Sequential => pc # "returned"
    BY <1>1 DEF IInv, Quiet, NothingRuns
  <2>4. QED
    BY <1>3, <1>5, <2>2, <2>3
<1>6. QED
  BY <1>4, <1>5

\* What the call has planned is there, and stays.
LEMMA PlanStays ==
  ASSUME TypeOK, IInv, pc # "idle", UNCHANGED <<plan, mode>>
  PROVE  /\ plan.kind # "none" /\ plan.size \in Batches /\ PlanBatches \subseteq Batches
         /\ NoPlanYet'
<1>1. plan.kind # "none" /\ plan.size \in Batches
  BY DEF IInv, NoPlanYet
<1>2. PlanBatches \subseteq Batches
  BY <1>1, SizeAssumption DEF PlanBatches, Batches
<1>3. NoPlanYet'
  BY <1>1 DEF IInv, NoPlanYet
<1>4. QED
  BY <1>1, <1>2, <1>3

LEMMA OriginalInv ==
  ASSUME TypeOK, IInv, stage[0] \notin Settled, NEW outcome \in {"success", "failed"},
         OriginalEnds(outcome), UNCHANGED <<config, plan, mode, src, first>>,
         applied \subseteq applied'
  PROVE  IInv'
<1>1. pc = "original" /\ pc' = "returned"
  BY WhereTasksRun, Sizes DEF OriginalEnds, Return
<1>2. /\ \A b \in Batches : Restored(b) => Restored(b)'
      /\ \A n : RestoredTo(n) => RestoredTo(n)'
      /\ PlanRestored => PlanRestored'
  BY Monotone
<1>3. /\ stage'[0] = outcome
      /\ \A b \in Batches : stage'[b] = stage[b]
  BY Sizes DEF OriginalEnds, TypeOK
<1>4. \A b \in Tasks : stage'[b] \in Settled
  BY <1>1, <1>3, Sizes DEF IInv, Afterwards, Settled
<1>5. NothingRuns'
  BY <1>4 DEF NothingRuns, Running
<1>6. NoPlanYet'
  BY <1>1, PlanStays DEF OriginalEnds
<1>7. TasksRestored'
  BY <1>2, <1>3 DEF IInv, TasksRestored
<1>8. OneByOne' /\ SideBySide' /\ Afterwards'
  BY <1>1 DEF OneByOne, SideBySide, Afterwards
<1>9. Quiet'
  BY <1>1, <1>4, <1>5, Sizes DEF Quiet
<1>10. LeftOut'
  BY <1>1, <1>2 DEF IInv, LeftOut, OriginalEnds
<1>11. Reported'
  <2>1. result' = IF outcome = "failed" THEN Threw
                  ELSE Success(ConfirmedFlag(Failures(stage) = {}))
    BY DEF OriginalEnds, Return
  <2>2. result'.confirmed => config.confirms /\ Failures(stage) = {}
    BY <2>1 DEF Threw, Success, ConfirmedFlag
  <2>3. mode # "parallelAny" => Failures(stage) = {}
    BY <1>1 DEF IInv, Afterwards
  <2>4. Failures(stage) = {} => PlanRestored'
    BY <1>1, <1>2 DEF IInv, Afterwards
  <2>5. QED
    BY <2>2, <2>3, <2>4 DEF Reported
<1>12. QED
  BY <1>6, <1>7, <1>8, <1>9, <1>10, <1>11 DEF IInv
\* The one task of a sequential call.
LEMMA TheTask ==
  ASSUME TypeOK, IInv, NEW b \in Batches, stage[b] \notin Settled, Sequential
  PROVE  /\ pc = "restore" /\ b \in 1..LastBatch
         /\ \A x \in Tasks : x # b => stage[x] \in {"off", "success"}
         /\ RestoredTo(b)
<1>1. pc = "restore"
  BY WhereTasksRun, Sizes
<1>2. PICK i \in 1..LastBatch : /\ \A x \in Tasks : x # i => stage[x] \in {"off", "success"}
                                /\ RestoredTo(i)
  BY <1>1 DEF IInv, OneByOne
<1>3. i = b
  BY <1>2, Sizes DEF Settled
<1>4. QED
  BY <1>1, <1>2, <1>3

LEMMA AfterBatchInv ==
  ASSUME TypeOK, IInv, NEW b \in Batches, stage[b] \notin Settled, Sequential,
         AfterBatch(b), UNCHANGED <<config, plan, mode, src, first>>,
         applied \subseteq applied', Restored(b)'
  PROVE  IInv'
<1>1. /\ pc = "restore" /\ b \in 1..LastBatch
      /\ \A x \in Tasks : x # b => stage[x] \in {"off", "success"}
      /\ RestoredTo(b)
  BY TheTask
<1>2. /\ \A x \in Batches : Restored(x) => Restored(x)'
      /\ \A n : RestoredTo(n) => RestoredTo(n)'
      /\ PlanRestored => PlanRestored'
  BY Monotone
<1>3. /\ plan.kind # "none" /\ plan.size \in Batches
      /\ PlanBatches \subseteq Batches /\ NoPlanYet'
  BY <1>1, PlanStays
<1>4. LastBatch \in Batches /\ LastBatch' = LastBatch /\ Sequential' = Sequential
      /\ LastBatch = plan.size
  BY <1>1, <1>3, Sizes DEF LastBatch, Sequential, IInv, NoPlanYet
<1>5. RestoredTo(b + 1)'
  <2>1. SUFFICES ASSUME NEW x \in Batches, x < b + 1 PROVE Restored(x)'
    BY DEF RestoredTo
  <2>2. x = b \/ x < b
    BY <2>1, Sizes
  <2>3. x < b => Restored(x)'
    BY <1>1, <1>2 DEF RestoredTo
  <2>4. QED
    BY <2>2, <2>3
<1>6. DEFINE st == [stage EXCEPT ![b] = "success"]
<1>7. /\ \A x \in Tasks : st[x] \in {"off", "success"}
      /\ \A x \in Batches : st[x] = "success" => Restored(x)'
  BY <1>1, <1>2, Sizes DEF TypeOK, Settled, IInv, TasksRestored
<1>8. CASE b < LastBatch
  <2>1. /\ stage' = Enter(st, {b + 1}) /\ UNCHANGED <<pc, result, lastFailed>>
    BY <1>8 DEF AfterBatch
  <2>2. b + 1 \in 1..LastBatch /\ b + 1 \in Tasks
    BY <1>4, <1>8, Sizes, SizeAssumption DEF Batches, Tasks
  <2>3. /\ stage'[b + 1] = "identity"
        /\ \A x \in Tasks : x # b + 1 => stage'[x] = st[x]
    BY <2>1, <2>2 DEF Enter
  <2>4. OneByOne'
    <3>1. stage'[b + 1] \notin Settled
      BY <2>3 DEF Settled
    <3>2. \A x \in Tasks : x # b + 1 => stage'[x] \in {"off", "success"}
      BY <1>7, <2>3
    <3>3. QED
      BY <1>4, <1>5, <2>2, <3>1, <3>2 DEF OneByOne
  <2>5. TasksRestored'
    <3>1. \A x \in Batches : stage'[x] = "success" => st[x] = "success"
      BY <2>3, Sizes
    <3>2. QED
      BY <1>7, <3>1 DEF TasksRestored
  <2>6. SideBySide' /\ Afterwards' /\ Quiet'
    BY <1>1, <1>4, <2>1 DEF SideBySide, Afterwards, Quiet
  <2>7. LeftOut' /\ Reported'
    BY <1>1, <1>2, <2>1 DEF IInv, LeftOut, Reported
  <2>8. QED
    BY <1>3, <2>4, <2>5, <2>6, <2>7 DEF IInv
<1>9. CASE ~(b < LastBatch)
  <2>1. b = LastBatch
    BY <1>1, <1>4, <1>9, SizeAssumption DEF Batches
  <2>2. PlanRestored'
    <3>1. SUFFICES ASSUME NEW x \in PlanBatches PROVE Restored(x)'
      BY DEF PlanRestored, PlanBatches
    <3>2. x \in Batches /\ x < b + 1
      BY <1>3, <1>4, <2>1, Sizes DEF PlanBatches
    <3>3. QED
      BY <1>5, <3>2 DEF RestoredTo
  <2>3. 0 <= plan.size
    BY <1>3, SizeAssumption DEF Batches
  <2>5. CASE mode = "single"
    <3>1. stage' = Enter(st, {0}) /\ pc' = "original" /\ UNCHANGED <<result, lastFailed>>
      BY <1>9, <2>5 DEF AfterBatch
    <3>2. \A x \in Batches : stage'[x] = st[x]
      BY <3>1, Sizes DEF Enter
    <3>3. TasksRestored'
      BY <1>7, <3>2 DEF TasksRestored
    <3>4. OneByOne' /\ SideBySide' /\ Quiet'
      BY <3>1 DEF OneByOne, SideBySide, Quiet
    <3>5. LeftOut'
      BY <1>2, <3>1 DEF IInv, LeftOut
    <3>6. Reported'
      BY <2>2, <3>1 DEF IInv, Reported
    <3>7. Afterwards'
      <4>1. \A x \in Batches : stage'[x] \in {"off", "success"}
        BY <1>7, <3>2, Sizes
      <4>2. Failures(stage)' = {} /\ \A x \in Batches : stage'[x] \in Settled
        BY <4>1 DEF Failures, Settled
      <4>3. QED
        BY <2>2, <3>1, <4>2 DEF Afterwards
    <3>8. QED
      BY <1>3, <3>3, <3>4, <3>5, <3>6, <3>7 DEF IInv
  <2>6. CASE mode = "batchesOriginal"
    <3>1. stage' = st /\ pc' = "verify" /\ lastFailed' = NoFailure /\ UNCHANGED result
      BY <1>9, <2>6 DEF AfterBatch
    <3>2. TasksRestored'
      BY <1>7, <3>1 DEF TasksRestored
    <3>3. OneByOne' /\ SideBySide' /\ Quiet'
      BY <3>1 DEF OneByOne, SideBySide, Quiet
    <3>4. LeftOut'
      BY <2>3, <3>1 DEF LeftOut, NoFailure
    <3>5. Reported'
      BY <2>2, <3>1 DEF IInv, Reported
    <3>6. Afterwards'
      <4>1. \A x \in Tasks : stage'[x] \in {"off", "success"}
        BY <1>7, <3>1
      <4>2. Failures(stage)' = {} /\ \A x \in Tasks : stage'[x] \in Settled
        BY <4>1, Sizes DEF Failures, Settled
      <4>3. QED
        BY <2>2, <3>1, <4>2, Sizes DEF Afterwards
    <3>7. QED
      BY <1>3, <3>2, <3>3, <3>4, <3>5, <3>6 DEF IInv
  <2>7. CASE mode \in {"batches", "retry"}
    <3>1. /\ stage' = st /\ pc' = "returned" /\ lastFailed' = NoFailure
          /\ result' = Success(mode = "retry" /\ ConfirmedFlag(TRUE))
      BY <1>9, <2>7 DEF AfterBatch, Return
    <3>2. TasksRestored'
      BY <1>7, <3>1 DEF TasksRestored
    <3>3. OneByOne' /\ SideBySide' /\ Afterwards'
      BY <3>1 DEF OneByOne, SideBySide, Afterwards
    <3>4. Quiet'
      <4>1. NothingRuns'
        BY <1>7, <3>1 DEF NothingRuns, Running, Settled
      <4>2. QED
        BY <1>7, <3>1, <4>1, Sizes DEF Quiet, Settled
    <3>5. LeftOut'
      BY <2>3, <3>1 DEF LeftOut, NoFailure
    <3>6. Reported'
      BY <2>2, <3>1 DEF Reported, Success, ConfirmedFlag
    <3>7. QED
      BY <1>3, <3>2, <3>3, <3>4, <3>5, <3>6 DEF IInv
  <2>8. QED
    BY <2>5, <2>6, <2>7 DEF Sequential
<1>10. QED
  BY <1>8, <1>9
LEMMA BatchFailsInv ==
  ASSUME TypeOK, IInv, NEW b \in Batches, stage[b] \notin Settled, Sequential,
         BatchFails(b), UNCHANGED <<config, plan, mode, src, first>>,
         applied \subseteq applied'
  PROVE  IInv'
<1>1. /\ pc = "restore" /\ b \in 1..LastBatch
      /\ \A x \in Tasks : x # b => stage[x] \in {"off", "success"}
      /\ RestoredTo(b)
  BY TheTask
<1>2. /\ \A x \in Batches : Restored(x) => Restored(x)'
      /\ \A n : RestoredTo(n) => RestoredTo(n)'
  BY Monotone
<1>3. /\ plan.kind # "none" /\ plan.size \in Batches
      /\ PlanBatches \subseteq Batches /\ NoPlanYet'
  BY <1>1, PlanStays
<1>4. LastBatch = plan.size
  BY <1>1, <1>3 DEF LastBatch, IInv, NoPlanYet
<1>5. stage' = [stage EXCEPT ![b] = "failed"] /\ pc' = "returned"
  BY DEF BatchFails, Return
<1>6. /\ \A x \in Tasks : stage'[x] \in Settled
      /\ \A x \in Batches : stage'[x] = "success" => stage[x] = "success"
  BY <1>1, <1>5, Sizes DEF TypeOK, Settled
<1>7. result' = Threw \/ result' = Failed
  BY DEF BatchFails, Return
<1>8. lastFailed' = lastFailed \/ lastFailed' = FailureFrom(b)
  BY DEF BatchFails
<1>9. TasksRestored'
  BY <1>2, <1>6 DEF IInv, TasksRestored
<1>10. OneByOne' /\ SideBySide' /\ Afterwards'
  BY <1>5 DEF OneByOne, SideBySide, Afterwards
<1>11. Quiet'
  <2>1. NothingRuns'
    BY <1>6 DEF NothingRuns, Running
  <2>2. QED
    BY <1>5, <1>6, <2>1, Sizes DEF Quiet
<1>12. LeftOut'
  <2>1. b <= plan.size /\ b # 0
    BY <1>1, <1>3, <1>4, SizeAssumption DEF Batches
  <2>2. CASE lastFailed' = lastFailed
    BY <1>2, <1>5, <2>2 DEF IInv, LeftOut
  <2>3. CASE lastFailed' = FailureFrom(b)
    BY <1>1, <1>2, <1>5, <2>1, <2>3 DEF LeftOut, FailureFrom
  <2>4. QED
    BY <1>8, <2>2, <2>3
<1>13. Reported'
  BY <1>7 DEF Reported, Threw, Failed
<1>14. QED
  BY <1>3, <1>9, <1>10, <1>11, <1>12, <1>13 DEF IInv

LEMMA PoolInv ==
  ASSUME TypeOK, IInv, NEW b \in Batches, stage[b] \notin Settled \cup {"queued"},
         ~Sequential, NEW outcome \in {"success", "failed"},
         PoolTaskEnds(b, outcome), UNCHANGED <<config, plan, mode, src, first>>,
         applied \subseteq applied', outcome = "success" => Restored(b)'
  PROVE  IInv'
<1>1. pc \in {"restore", "returned"}
  BY WhereTasksRun, Sizes
<1>2. /\ \A x \in Batches : Restored(x) => Restored(x)'
      /\ \A n : RestoredTo(n) => RestoredTo(n)'
      /\ PlanRestored => PlanRestored'
  BY Monotone
<1>3. /\ plan.kind # "none" /\ plan.size \in Batches
      /\ PlanBatches \subseteq Batches /\ NoPlanYet'
  BY <1>1, PlanStays
<1>4. PlanBatches' = PlanBatches /\ ~Sequential'
  BY DEF PlanBatches, Sequential
<1> DEFINE st == [stage EXCEPT ![b] = outcome]
<1>5. /\ st[b] = outcome
      /\ \A x \in Tasks : x # b => st[x] = stage[x]
  BY Sizes DEF TypeOK
<1>6. \A x \in Tasks : \/ stage'[x] = st[x]
                       \/ st[x] = "queued" /\ stage'[x] = "identity"
  <2>1. Release(st)
    BY DEF PoolTaskEnds
  <2>2. st \in [Tasks -> Stages]
    BY DEF TypeOK, Stages
  <2>3. CASE stage' = st
    BY <2>3
  <2>4. CASE \E c \in {x \in Batches : st[x] = "queued"} : stage' = Enter(st, {c})
    BY <2>2, <2>4 DEF Enter
  <2>5. QED
    BY <2>1, <2>3, <2>4 DEF Release
<1>7. /\ stage'[b] = outcome
      /\ \A x \in Tasks : x # b =>
           \/ stage'[x] = stage[x]
           \/ stage[x] \notin Settled /\ stage'[x] \notin Settled
  BY <1>5, <1>6, Sizes DEF Settled
<1>8. stage'[0] \in Settled
  <2>1. stage[0] \in Settled
    BY <1>1 DEF IInv, SideBySide, Quiet
  <2>2. QED
    BY <1>7, <2>1, Sizes
<1>9. TasksRestored'
  <2>1. SUFFICES ASSUME NEW x \in Batches, stage'[x] = "success"
                 PROVE  Restored(x)'
    BY DEF TasksRestored
  <2>2. CASE x = b
    BY <1>7, <2>1, <2>2
  <2>3. CASE x # b
    <3>1. stage[x] = "success"
      BY <1>7, <2>1, <2>3, Sizes DEF Settled
    <3>2. QED
      BY <1>2, <3>1 DEF IInv, TasksRestored
  <2>4. QED
    BY <2>2, <2>3
<1>10. LeftOut' /\ OneByOne'
  <2>1. pc' # "rebuild" /\ lastFailed' = lastFailed
    BY <1>1 DEF PoolTaskEnds, AllSettled, PoolResult, Return
  <2>2. QED
    BY <1>2, <1>4, <2>1 DEF IInv, LeftOut, OneByOne
<1>11. CASE pc = "restore" /\ outcome = "failed" /\ ~config.supplied
  <2>1. pc' = "returned" /\ result' = Threw
    BY <1>11 DEF PoolTaskEnds, Return
  <2>2. SideBySide' /\ Afterwards' /\ Quiet'
    BY <1>4, <1>8, <1>11, <2>1 DEF SideBySide, Afterwards, Quiet
  <2>3. Reported'
    BY <2>1 DEF Reported, Threw
  <2>4. QED
    BY <1>3, <1>9, <1>10, <2>2, <2>3 DEF IInv
<1>12. CASE pc = "returned"
  <2>1. pc' = pc /\ result' = result
    BY <1>12 DEF PoolTaskEnds
  <2>2. ~config.supplied
    <3>1. Running(stage)
      BY Sizes DEF Running
    <3>2. QED
      BY <1>12, <3>1 DEF IInv, Quiet, NothingRuns
  <2>3. SideBySide' /\ Afterwards' /\ Quiet'
    BY <1>4, <1>8, <1>12, <2>1, <2>2 DEF SideBySide, Afterwards, Quiet
  <2>4. Reported'
    BY <1>2, <2>1 DEF IInv, Reported
  <2>5. QED
    BY <1>3, <1>9, <1>10, <2>3, <2>4 DEF IInv
<1>13. CASE pc = "restore" /\ ~(outcome = "failed" /\ ~config.supplied)
  <2>1. \A x \in PlanBatches : stage'[x] # "off"
    <3>1. \A x \in PlanBatches : stage[x] # "off"
      BY <1>13 DEF IInv, SideBySide
    <3>2. QED
      BY <1>3, <1>7, <3>1, Sizes DEF Settled
  <2>2. CASE Running(stage')
    <3>1. pc' = pc /\ result' = result
      BY <1>13, <2>2 DEF PoolTaskEnds
    <3>2. SideBySide' /\ Afterwards' /\ Quiet'
      BY <1>4, <1>8, <1>13, <2>1, <3>1 DEF SideBySide, Afterwards, Quiet
    <3>3. Reported'
      BY <1>2, <3>1 DEF IInv, Reported
    <3>4. QED
      BY <1>3, <1>9, <1>10, <3>2, <3>3 DEF IInv
  <2>3. CASE ~Running(stage')
    <3>1. AllSettled(stage')
      BY <1>13, <2>3 DEF PoolTaskEnds
    <3>2. NothingRuns' /\ \A x \in Tasks : stage'[x] \in Settled
      BY <2>3 DEF NothingRuns, Running
    <3>3. Failures(stage') = {} => PlanRestored'
      <4>1. SUFFICES ASSUME Failures(stage') = {}, NEW x \in PlanBatches
                     PROVE  Restored(x)'
        BY <1>4 DEF PlanRestored
      <4>2. stage'[x] = "success"
        BY <1>3, <2>1, <3>2, <4>1, Sizes DEF Failures, Settled
      <4>3. QED
        BY <1>3, <1>9, <4>2 DEF TasksRestored
    <3>4. Failures(stage)' = Failures(stage')
      BY DEF Failures
    <3>5. mode \in {"parallel", "parallelAll", "parallelAny"}
      BY DEF TypeOK, Modes, Sequential
    <3>6. CASE mode = "parallel" \/ (mode = "parallelAll" /\ Failures(stage') # {})
      <4>1. /\ pc' = "returned"
            /\ \/ result' = Threw \/ result' = Failed
               \/ result' = Success(FALSE) /\ Failures(stage') = {}
        BY <3>1, <3>6 DEF AllSettled, PoolResult, Return
      <4>2. SideBySide' /\ Afterwards' /\ Quiet'
        BY <1>8, <3>2, <4>1 DEF SideBySide, Afterwards, Quiet
      <4>3. Reported'
        BY <3>3, <4>1 DEF Reported, Threw, Failed, Success
      <4>4. QED
        BY <1>3, <1>9, <1>10, <4>2, <4>3 DEF IInv
    <3>7. CASE ~(mode = "parallel" \/ (mode = "parallelAll" /\ Failures(stage') # {}))
      <4>1. pc' = "verify" /\ result' = result
        BY <3>1, <3>7 DEF AllSettled, PoolResult
      <4>2. mode # "parallelAny" => Failures(stage') = {}
        BY <3>5, <3>7
      <4>3. Afterwards'
        BY <1>8, <3>2, <3>3, <3>4, <4>1, <4>2, Sizes DEF Afterwards
      <4>4. SideBySide' /\ Quiet'
        BY <4>1 DEF SideBySide, Quiet
      <4>5. Reported'
        BY <1>2, <4>1 DEF IInv, Reported
      <4>6. QED
        BY <1>3, <1>9, <1>10, <4>3, <4>4, <4>5 DEF IInv
    <3>8. QED
      BY <3>6, <3>7
  <2>4. QED
    BY <2>2, <2>3
<1>14. QED
  BY <1>1, <1>11, <1>12, <1>13

\* A settlement keeps the invariant when a success is one.
LEMMA SettlesInv ==
  ASSUME TypeOK, IInv, NEW b \in Tasks, stage[b] \notin Settled \cup {"queued"},
         NEW ok \in BOOLEAN, Settles(b, ok), UNCHANGED fixedVars,
         applied \subseteq applied', ok /\ b # 0 => Restored(b)'
  PROVE  IInv'
<1>1. UNCHANGED <<config, plan, mode, src, first>>
  BY DEF fixedVars
<1>2. CASE b = 0
  BY <1>1, <1>2, OriginalInv DEF Settles, Succeed, Fail
<1>3. CASE b # 0 /\ Sequential
  BY <1>1, <1>3, Sizes, AfterBatchInv, BatchFailsInv DEF Settles, Succeed, Fail
<1>4. CASE b # 0 /\ ~Sequential
  BY <1>1, <1>4, Sizes, PoolInv DEF Settles, Succeed, Fail
<1>5. QED
  BY <1>2, <1>3, <1>4
-----------------------------------------------------------------------------
(* The steps of a submission.                                              *)

Settling(b) ==
  \E ok \in BOOLEAN : Settles(b, ok) /\ (ok /\ b # 0 => Restored(b)')

Moving(b) ==
  \E to \in Stages \ Settled, tries \in 0..(MaxRetries + MaxPolls + 1) :
    Move(b, to, tries)

LEMMA AcceptType ==
  ASSUME TypeOK, NEW b \in Batches, mempool' = mempool \cup {TxOf(b)},
         UNCHANGED <<acctSeq, applied, refused>>
  PROVE  LedgerTypeOK'
  BY TxType DEF TypeOK, LedgerTypeOK

LEMMA SubmissionShape ==
  ASSUME TypeOK, NEW b \in Tasks, Submission(b)
  PROVE  /\ stage[b] \notin Settled \cup {"queued"}
         /\ UNCHANGED fixedVars /\ UNCHANGED <<acctSeq, applied, refused>>
         /\ LedgerTypeOK'
         /\ Settling(b) \/ Moving(b)
<1> DEFINE Same == UNCHANGED ledgerVars
<1>0. Same => LedgerTypeOK' /\ UNCHANGED <<acctSeq, applied, refused>>
  BY DEF ledgerVars, TypeOK, LedgerTypeOK
<1>a. \A to \in {"signing", "sending", "probing", "socket", "polling", "asking"} :
        to \in Stages \ Settled
  BY DEF Stages, Settled
<1>b. {0, 1} \subseteq 0..(MaxRetries + MaxPolls + 1)
  BY CoreAssumption
<1>c. Settles(b, FALSE) => Settling(b)
  BY DEF Settling
<1>d. attempts[b] \in 0..(MaxRetries + MaxPolls + 1)
  BY DEF TypeOK
<1>e. config' = config /\ applied' = applied /\ TxOf(b) \in applied
        => (b # 0 => Restored(b)')
  BY DEF Restored, Landed, TxOf
<1>1. CASE IdentityRefused(b)
  BY <1>1, <1>0, <1>c DEF IdentityRefused, Settled
<1>2. CASE Prompt(b)
  BY <1>2, <1>0, <1>a, <1>b, <1>c DEF Prompt, Settled, Moving
<1>3. CASE Sign(b)
  BY <1>3, <1>0, <1>a, <1>b, <1>c DEF Sign, Settled, Moving
<1>4. CASE SendAccepted(b)
  <2>1. stage[b] = "sending" /\ UNCHANGED <<acctSeq, applied, refused>>
        /\ UNCHANGED fixedVars
    BY <1>4 DEF SendAccepted
  <2>2. LedgerTypeOK'
    <3>1. CASE mempool' = mempool
      BY <2>1, <3>1 DEF TypeOK, LedgerTypeOK
    <3>2. CASE mempool' # mempool
      BY <1>4, <2>1, <3>2, AcceptType, Sizes DEF SendAccepted
    <3>3. QED
      BY <3>1, <3>2
  <2>3. Accepted(b)
    BY <1>4 DEF SendAccepted
  <2>4. Settling(b) \/ Moving(b)
    <3>1. CASE b # 0 /\ ~config.confirms /\ Settles(b, TRUE)
      <4>1. config' = config
        BY <2>1 DEF fixedVars
      <4>2. Restored(b)'
        BY <3>1, <4>1 DEF Restored
      <4>3. QED
        BY <3>1, <4>2 DEF Settling
    <3>2. CASE Settles(b, FALSE)
      BY <3>2, <1>c
    <3>3. CASE \E to \in {"probing", "polling"} : Move(b, to, 0)
      BY <3>3, <1>a, <1>b DEF Moving
    <3>4. QED
      BY <2>3, <3>1, <3>2, <3>3 DEF Accepted
  <2>5. QED
    BY <2>1, <2>2, <2>4 DEF Settled
<1>5. CASE SendRejected(b)
  BY <1>5, <1>0, <1>c DEF SendRejected, Settled
<1>6. CASE SendLost(b)
  <2>1. stage[b] = "sending" /\ UNCHANGED <<acctSeq, applied, refused>>
        /\ UNCHANGED fixedVars
    BY <1>6 DEF SendLost, RequestLost
  <2>2. LedgerTypeOK'
    <3>1. CASE mempool' = mempool
      BY <2>1, <3>1 DEF TypeOK, LedgerTypeOK
    <3>2. CASE mempool' # mempool
      BY <1>6, <2>1, <3>2, AcceptType, Sizes DEF SendLost, RequestLost
    <3>3. QED
      BY <3>1, <3>2
  <2>3. attempts[b] + 1 \in 0..(MaxRetries + MaxPolls + 1)
    BY <1>6, <1>d, CoreAssumption DEF SendLost, RequestLost
  <2>4. Moving(b)
    BY <1>6, <2>3, <1>a DEF SendLost, RequestLost, Moving
  <2>5. QED
    BY <2>1, <2>2, <2>4 DEF Settled
<1>7. CASE ProbeAnswers(b)
  BY <1>7, <1>0, <1>a, <1>b DEF ProbeAnswers, Settled, Moving
<1>8. CASE SocketEnds(b)
  <2>1. stage[b] = "socket" /\ Same /\ UNCHANGED fixedVars
    BY <1>8 DEF SocketEnds
  <2>2. config' = config /\ applied' = applied
    BY <2>1 DEF fixedVars, ledgerVars
  <2>3. OnLedger(b) /\ Settles(b, TRUE) => Settling(b)
    BY <1>e, <2>2 DEF OnLedger, Settling
  <2>4. Settling(b) \/ Moving(b)
    BY <1>8, <2>3, <1>a, <1>b, <1>c DEF SocketEnds, Moving
  <2>5. QED
    BY <1>0, <2>1, <2>4 DEF Settled
<1>9. CASE Poll(b)
  <2>1. ~(attempts[b] >= MaxPolls)
          => attempts[b] + 1 \in 0..(MaxRetries + MaxPolls + 1)
    BY <1>d, CoreAssumption
  <2>2. QED
    BY <1>9, <2>1, <1>0, <1>a, <1>c DEF Poll, Settled, Moving
<1>10. CASE Receipt(b)
  <2>1. stage[b] = "asking" /\ Same /\ UNCHANGED fixedVars
    BY <1>10 DEF Receipt
  <2>2. config' = config /\ applied' = applied
    BY <2>1 DEF fixedVars, ledgerVars
  <2>3. OnLedger(b) /\ Settles(b, TRUE) => Settling(b)
    BY <1>e, <2>2 DEF OnLedger, Settling
  <2>4. Settling(b) \/ Moving(b)
    BY <1>10, <2>3, <1>a, <1>c, <1>d DEF Receipt, Moving
  <2>5. QED
    BY <1>0, <2>1, <2>4 DEF Settled
<1>11. QED
  BY <1>1, <1>2, <1>3, <1>4, <1>5, <1>6, <1>7, <1>8, <1>9, <1>10 DEF Submission
LEMMA SubmissionPreserves ==
  ASSUME TypeOK, IInv, NEW b \in Tasks, Submission(b)
  PROVE  TypeOK' /\ IInv'
<1>1. /\ stage[b] \notin Settled \cup {"queued"}
      /\ UNCHANGED fixedVars /\ UNCHANGED <<acctSeq, applied, refused>>
      /\ LedgerTypeOK'
  BY SubmissionShape
<1>2. applied \subseteq applied'
  BY <1>1
<1>3. CASE Settling(b)
  <2>1. PICK ok \in BOOLEAN : Settles(b, ok) /\ (ok /\ b # 0 => Restored(b)')
    BY <1>3 DEF Settling
  <2>2. TypeOK'
    BY <1>1, <2>1, SettlesType, SubmissionType
  <2>3. IInv'
    BY <1>1, <1>2, <2>1, SettlesInv
  <2>4. QED
    BY <2>2, <2>3
<1>4. CASE Moving(b)
  <2>1. PICK to \in Stages \ Settled, tries \in 0..(MaxRetries + MaxPolls + 1) :
          Move(b, to, tries)
    BY <1>4 DEF Moving
  <2>2. /\ stage' = [stage EXCEPT ![b] = to]
        /\ attempts' = [attempts EXCEPT ![b] = tries]
        /\ UNCHANGED <<pc, result, lastFailed, identity>>
    BY <2>1 DEF Move
  <2>3. /\ stage' \in [Tasks -> Stages]
        /\ attempts' \in [Tasks -> 0..(MaxRetries + MaxPolls + 1)]
    BY <2>2 DEF TypeOK
  <2>4. TypeOK'
    <3>1. /\ identity' \in {"none", "checking", "ok"}
          /\ pc' \in Points /\ result' \in Results
          /\ lastFailed' \in [from : 0..N, src : BOOLEAN]
      BY <2>2 DEF TypeOK
    <3>2. QED
      BY <1>1, <2>3, <3>1, SubmissionType
  <2>5. UNCHANGED <<config, plan, mode, src, first, pc, result, lastFailed>>
    BY <1>1, <2>2 DEF fixedVars
  <2>6. \A x \in Tasks : (stage[x] \in Settled => stage'[x] = stage[x])
                         /\ (stage[x] \notin Settled => stage'[x] \notin Settled)
    BY <1>1, <2>1, <2>2 DEF TypeOK
  <2>7. IInv'
    BY <1>2, <2>5, <2>6, SameShape
  <2>8. QED
    BY <2>4, <2>7
<1>5. QED
  BY <1>3, <1>4, SubmissionShape

-----------------------------------------------------------------------------
(* The other actions.                                                      *)

LEMMA InitInv == Init => IInv
<1> SUFFICES ASSUME Init PROVE IInv
  OBVIOUS
<1>1. \A b \in Tasks : stage[b] = "off"
  BY DEF Init, AllOff
<1>2. NothingRuns
  BY <1>1 DEF NothingRuns, Running, Settled
<1>3. NoPlanYet /\ OneByOne /\ SideBySide /\ Afterwards
  BY DEF Init, NoPlanYet, OneByOne, SideBySide, Afterwards, NoFailure
<1>4. TasksRestored
  BY <1>1, Sizes DEF TasksRestored
<1>5. Quiet
  BY <1>2 DEF Init, Quiet
<1>6. LeftOut
  BY DEF Init, LeftOut, NoFailure
<1>7. Reported
  BY DEF Init, Reported, NoResult
<1>8. QED
  BY <1>2, <1>3, <1>4, <1>5, <1>6, <1>7 DEF IInv

LEMMA IdentityPreserves ==
  ASSUME TypeOK, IInv, IdentityAnswer
  PROVE  TypeOK' /\ IInv'
<1>1. /\ identity' \in {"none", "ok"} /\ UNCHANGED fixedVars /\ UNCHANGED ledgerVars
      /\ UNCHANGED <<pc, result, lastFailed, attempts>>
  BY DEF IdentityAnswer
<1>2. stage' \in [Tasks -> Stages]
  BY DEF IdentityAnswer, TypeOK, Stages
<1>3. \A x \in Tasks : (stage[x] \in Settled => stage'[x] = stage[x])
                       /\ (stage[x] \notin Settled => stage'[x] \notin Settled)
  BY DEF IdentityAnswer, Settled
<1>4. TypeOK'
  <2>1. LedgerTypeOK'
    BY <1>1 DEF ledgerVars, TypeOK, LedgerTypeOK
  <2>2. /\ attempts' \in [Tasks -> 0..(MaxRetries + MaxPolls + 1)]
        /\ pc' \in Points /\ result' \in Results
        /\ lastFailed' \in [from : 0..N, src : BOOLEAN]
    BY <1>1 DEF TypeOK
  <2>3. QED
    BY <1>1, <1>2, <2>1, <2>2, SubmissionType
<1>5. applied \subseteq applied'
  BY <1>1 DEF ledgerVars
<1>6. UNCHANGED <<config, plan, mode, src, first, pc, result, lastFailed>>
  BY <1>1 DEF fixedVars
<1>7. IInv'
  BY <1>3, <1>5, <1>6, SameShape
<1>8. QED
  BY <1>4, <1>7

\* When a call begins, nothing of an earlier one is left but what it recorded.
LEMMA CleanStart ==
  ASSUME TypeOK, IInv, UNCHANGED <<config, plan, lastFailed, applied>>,
         plan.kind # "none", result' \in {NoResult, Simulated},
         mode' = "single" => plan.kind = "first"
  PROVE  /\ NoPlanYet' /\ Reported' /\ plan.size \in Batches
         /\ pc' # "rebuild" => LeftOut'
         /\ \A n : RestoredTo(n)' <=> RestoredTo(n)
<1>1. \A n : RestoredTo(n)' <=> RestoredTo(n)
  BY DEF RestoredTo, Restored, Landed
<1>2. NoPlanYet' /\ plan.size \in Batches
  BY DEF IInv, NoPlanYet
<1>3. Reported'
  BY DEF Reported, NoResult, Simulated
<1>4. pc' # "rebuild" => LeftOut'
  BY <1>1 DEF IInv, LeftOut
<1>5. QED
  BY <1>1, <1>2, <1>3, <1>4

LEMMA AllOffInv ==
  ASSUME stage' = AllOff, pc' \in {"rebuild", "returned"}
  PROVE  /\ TasksRestored' /\ OneByOne' /\ SideBySide' /\ Afterwards' /\ Quiet'
         /\ stage' \in [Tasks -> Stages]
<1>1. \A b \in Tasks : stage'[b] = "off"
  BY DEF AllOff
<1>2. NothingRuns' /\ stage'[0] \in Settled
  BY <1>1, Sizes DEF NothingRuns, Running, Settled
<1>3. TasksRestored'
  BY <1>1, Sizes DEF TasksRestored
<1>4. Quiet'
  BY <1>2 DEF Quiet
<1>5. QED
  BY <1>3, <1>4 DEF OneByOne, SideBySide, Afterwards, AllOff, Stages

\* A sequential call starts with batch `from'.
LEMMA StartInv ==
  ASSUME NEW from \in Batches, from <= plan.size, plan' = plan,
         mode' = "single" => from = 1 /\ plan.kind = "first", Sequential',
         plan.size \in Batches, StartAt(from), RestoredTo(from)'
  PROVE  /\ TasksRestored' /\ OneByOne' /\ SideBySide' /\ Afterwards' /\ Quiet'
         /\ stage' \in [Tasks -> Stages]
<1>1. stage'[from] = "identity" /\ \A b \in Tasks : b # from => stage'[b] = "off"
  BY Sizes DEF StartAt, Enter, AllOff
<1>2. pc' = "restore"
  BY DEF StartAt
<1>3. TasksRestored'
  BY <1>1, Sizes DEF TasksRestored
<1>4. from \in 1..LastBatch'
  BY SizeAssumption DEF LastBatch, Batches
<1>5. OneByOne'
  <2>1. stage'[from] \notin Settled
    BY <1>1 DEF Settled
  <2>2. \A b \in Tasks : b # from => stage'[b] \in {"off", "success"}
    BY <1>1
  <2>3. QED
    BY <1>4, <2>1, <2>2 DEF OneByOne
<1>6. stage' \in [Tasks -> Stages]
  BY DEF StartAt, Enter, AllOff, Stages
<1>7. QED
  BY <1>2, <1>3, <1>5, <1>6 DEF SideBySide, Afterwards, Quiet

LEMMA BeginType ==
  ASSUME TypeOK, NEW m \in Modes, NEW s \in BOOLEAN, NEW from \in Batches,
         NEW numbers \in SeqMap, Begin(m, s, from, numbers),
         stage' \in [Tasks -> Stages], pc' \in Points, result' \in Results,
         identity' \in {"none", "checking", "ok"}
  PROVE  TypeOK'
<1>1. LedgerTypeOK'
  BY DEF Begin, ledgerVars, TypeOK, LedgerTypeOK
<1>2. calls' \in 0..MaxCalls
  BY CoreAssumption DEF Begin, TypeOK
<1>3. attempts' \in [Tasks -> 0..(MaxRetries + MaxPolls + 1)]
  BY CoreAssumption DEF Begin
<1>4. QED
  BY <1>1, <1>2, <1>3 DEF Begin, TypeOK

LEMMA ExecutePreserves ==
  ASSUME TypeOK, IInv, NEW m \in {"single", "batches", "batchesOriginal"}, Execute(m)
  PROVE  TypeOK' /\ IInv'
<1>1. PICK s \in BOOLEAN : Begin(m, s, 1, plan.seqs)
  BY DEF Execute
<1>2. /\ UNCHANGED <<config, plan, lastFailed, applied>> /\ plan.kind # "none"
      /\ mode' = m /\ (m = "single" => plan.kind = "first")
  BY <1>1 DEF Execute, Begin, ledgerVars
<1>3. m \in Modes /\ plan.seqs \in SeqMap /\ 1 \in Batches
  BY Sizes DEF Modes, TypeOK
<1>4. Sequential'
  BY <1>2 DEF Sequential
<1>5. CASE StartAt(1)
  <2>1. pc' = "restore" /\ result' = NoResult
    BY <1>5 DEF StartAt
  <2>2. NoPlanYet' /\ Reported' /\ LeftOut' /\ plan.size \in Batches
    BY <1>2, <2>1, CleanStart
  <2>3. RestoredTo(1)' /\ 1 <= plan.size
    BY <2>2, SizeAssumption DEF RestoredTo, Batches
  <2>4. /\ TasksRestored' /\ OneByOne' /\ SideBySide' /\ Afterwards' /\ Quiet'
        /\ stage' \in [Tasks -> Stages]
    BY <1>2, <1>3, <1>4, <1>5, <2>2, <2>3, StartInv
  <2>5. identity' \in {"none", "checking", "ok"}
    BY <1>5, CheckingType DEF StartAt
  <2>6. TypeOK'
    BY <1>1, <1>3, <2>1, <2>4, <2>5, BeginType, ResultTypes DEF Points
  <2>7. QED
    BY <2>2, <2>4, <2>6 DEF IInv
<1>6. CASE stage' = AllOff /\ Return(Simulated) /\ UNCHANGED identity
  <2>1. pc' = "returned" /\ result' = Simulated
    BY <1>6 DEF Return
  <2>2. NoPlanYet' /\ Reported' /\ LeftOut'
    BY <1>2, <2>1, CleanStart
  <2>3. /\ TasksRestored' /\ OneByOne' /\ SideBySide' /\ Afterwards' /\ Quiet'
        /\ stage' \in [Tasks -> Stages]
    BY <1>6, <2>1, AllOffInv
  <2>4. identity' \in {"none", "checking", "ok"}
    BY <1>6 DEF TypeOK
  <2>5. TypeOK'
    BY <1>1, <1>3, <2>1, <2>3, <2>4, BeginType, ResultTypes DEF Points
  <2>6. QED
    BY <2>2, <2>3, <2>5 DEF IInv
<1>7. QED
  BY <1>5, <1>6 DEF Execute

LEMMA ParallelPreserves ==
  ASSUME TypeOK, IInv, NEW m \in {"parallel", "parallelAll", "parallelAny"},
         NEW n \in Batches, ExecuteParallel(m, n)
  PROVE  TypeOK' /\ IInv'
<1> DEFINE numbers == IF m = "parallel" THEN plan.seqs ELSE NumbersFrom(1)
<1>1. Begin(m, FALSE, 1, numbers)
  BY DEF ExecuteParallel, PoolStart
<1>2. /\ UNCHANGED <<config, plan, lastFailed, applied>> /\ plan.kind # "none"
      /\ mode' = m
  BY <1>1 DEF ExecuteParallel, PoolStart, Begin, ledgerVars
<1>3. m \in Modes /\ numbers \in SeqMap /\ 1 \in Batches
  BY Sizes, NumbersType DEF Modes, TypeOK
<1>4. ~Sequential' /\ PlanBatches' = PlanBatches
  BY <1>2 DEF Sequential, PlanBatches
<1>5. pc' = "restore" /\ result' = NoResult
  BY DEF ExecuteParallel, PoolStart
<1>6. NoPlanYet' /\ Reported' /\ LeftOut' /\ plan.size \in Batches
  BY <1>2, <1>5, CleanStart
<1>7. PlanBatches \subseteq Batches
  BY <1>6, SizeAssumption DEF PlanBatches, Batches
<1>8. /\ stage' \in [Tasks -> {"off", "identity", "queued"}]
      /\ \A b \in PlanBatches : stage'[b] # "off"
      /\ stage'[0] = "off"
  BY <1>7, Sizes DEF ExecuteParallel, PoolStart
<1>9. stage' \in [Tasks -> Stages]
  BY <1>8 DEF Stages
<1>10. TasksRestored'
  BY <1>8, Sizes DEF TasksRestored
<1>11. SideBySide'
  BY <1>4, <1>8 DEF SideBySide, Settled
<1>12. OneByOne' /\ Afterwards' /\ Quiet'
  BY <1>4, <1>5 DEF OneByOne, Afterwards, Quiet
<1>13. identity' \in {"none", "checking", "ok"}
  BY CheckingType DEF ExecuteParallel, PoolStart
<1>14. TypeOK'
  BY <1>1, <1>3, <1>5, <1>9, <1>13, BeginType, ResultTypes DEF Points
<1>15. QED
  BY <1>6, <1>10, <1>11, <1>12, <1>14 DEF IInv

LEMMA RetryPreserves ==
  ASSUME TypeOK, IInv, Retry
  PROVE  TypeOK' /\ IInv'
<1>1. /\ Begin("retry", lastFailed.src, lastFailed.from, seqs)
      /\ lastFailed.from # 0 /\ stage' = AllOff /\ pc' = "rebuild"
      /\ result' = NoResult /\ identity' = identity
  BY DEF Retry
<1>2. /\ UNCHANGED <<config, plan, lastFailed, applied>>
      /\ mode' = "retry" /\ first' = lastFailed.from
  BY <1>1 DEF Begin, ledgerVars
<1>3. plan.kind # "none"
  BY <1>1 DEF IInv, NoPlanYet
<1>4. lastFailed.from \in Batches /\ lastFailed.src \in BOOLEAN /\ seqs \in SeqMap
      /\ "retry" \in Modes
  BY <1>1, SizeAssumption DEF TypeOK, Batches, Modes
<1>5. /\ NoPlanYet' /\ Reported' /\ \A n : RestoredTo(n)' <=> RestoredTo(n)
  BY <1>1, <1>2, <1>3, CleanStart
<1>6. LeftOut'
  BY <1>2, <1>1, <1>5 DEF IInv, LeftOut
<1>7. /\ TasksRestored' /\ OneByOne' /\ SideBySide' /\ Afterwards' /\ Quiet'
      /\ stage' \in [Tasks -> Stages]
  BY <1>1, AllOffInv
<1>8. identity' \in {"none", "checking", "ok"}
  BY <1>1 DEF TypeOK
<1>9. TypeOK'
  BY <1>1, <1>4, <1>7, <1>8, BeginType, ResultTypes DEF Points
<1>10. QED
  BY <1>5, <1>6, <1>7, <1>9 DEF IInv
LEMMA RebuildPreserves ==
  ASSUME TypeOK, IInv, Rebuild
  PROVE  TypeOK' /\ IInv'
<1>1. /\ pc = "rebuild" /\ UNCHANGED ledgerVars
      /\ UNCHANGED <<config, aborted, archived, plan, mode, src, first,
                     attempts, lastFailed, calls>>
  BY DEF Rebuild
<1>2. /\ first <= plan.size /\ RestoredTo(first) /\ mode = "retry"
  BY <1>1 DEF IInv, LeftOut
<1>3. plan.kind # "none" /\ plan.size \in Batches /\ NoPlanYet'
  BY <1>1, PlanStays
<1>4. first \in Batches
  BY DEF TypeOK
<1>5. /\ \A b \in Batches : Restored(b) => Restored(b)'
      /\ \A n : RestoredTo(n) => RestoredTo(n)'
  BY <1>1, Monotone DEF ledgerVars
<1>6. pc' # "rebuild" => LeftOut'
  BY <1>1, <1>5 DEF IInv, LeftOut
<1>7. LedgerTypeOK'
  BY <1>1 DEF ledgerVars, TypeOK, LedgerTypeOK
<1>8. CASE seqs' = Rebuilt /\ StartAt(first)
  <2>1. pc' = "restore" /\ result' = NoResult /\ identity' = Checking(stage')
    BY <1>8 DEF StartAt
  <2>2. Sequential' /\ mode' # "single"
    BY <1>1, <1>2 DEF Sequential
  <2>3. /\ TasksRestored' /\ OneByOne' /\ SideBySide' /\ Afterwards' /\ Quiet'
        /\ stage' \in [Tasks -> Stages]
    BY <1>1, <1>2, <1>3, <1>4, <1>5, <1>8, <2>2, StartInv
  <2>4. Reported'
    BY <2>1 DEF Reported, NoResult
  <2>5. identity' \in {"none", "checking", "ok"}
    BY <2>1, CheckingType
  <2>6. seqs' \in SeqMap
    <3>1. NumbersFrom(first) \in SeqMap
      BY <1>4, NumbersType
    <3>2. seqs \in SeqMap
      BY DEF TypeOK
    <3>3. QED BY <1>8, <3>1, <3>2 DEF Rebuilt, SeqMap
  <2>7. TypeOK'
    BY <1>1, <1>7, <2>1, <2>3, <2>5, <2>6, ResultTypes DEF TypeOK, Points
  <2>8. QED
    BY <1>3, <1>6, <2>1, <2>3, <2>4, <2>7 DEF IInv
<1>9. CASE Return(Threw) /\ UNCHANGED <<seqs, stage, identity>>
  <2>1. pc' = "returned" /\ result' = Threw
    BY <1>9 DEF Return
  <2>2. NothingRuns
    BY <1>1 DEF IInv, Quiet
  <2>3. NothingRuns' /\ stage'[0] \in Settled
    BY <1>9, <2>2, Sizes DEF NothingRuns, Running
  <2>4. TasksRestored'
    BY <1>5, <1>9 DEF IInv, TasksRestored
  <2>5. OneByOne' /\ SideBySide' /\ Afterwards' /\ Quiet'
    BY <2>1, <2>3 DEF OneByOne, SideBySide, Afterwards, Quiet
  <2>6. Reported'
    BY <2>1 DEF Reported, Threw
  <2>7. TypeOK'
    BY <1>1, <1>7, <1>9, <2>1, ResultTypes DEF TypeOK, Points
  <2>8. QED
    BY <1>3, <1>6, <2>1, <2>4, <2>5, <2>6, <2>7 DEF IInv
<1>10. QED
  BY <1>8, <1>9 DEF Rebuild

LEMMA VerifyPreserves ==
  ASSUME TypeOK, IInv, Verify
  PROVE  TypeOK' /\ IInv'
<1>1. /\ pc = "verify" /\ UNCHANGED ledgerVars /\ UNCHANGED fixedVars
      /\ UNCHANGED <<attempts, lastFailed>> /\ identity' = Checking(stage')
  BY DEF Verify
<1>2. /\ \A b \in Batches : stage[b] \in Settled
      /\ stage[0] \in Settled
      /\ Failures(stage) = {} => PlanRestored
      /\ mode # "parallelAny" => Failures(stage) = {}
  BY <1>1 DEF IInv, Afterwards
<1>3. UNCHANGED <<config, plan, mode, src, first>> /\ applied \subseteq applied'
  BY <1>1 DEF fixedVars, ledgerVars
<1>4. /\ \A b \in Batches : Restored(b) => Restored(b)'
      /\ \A n : RestoredTo(n) => RestoredTo(n)'
      /\ PlanRestored => PlanRestored'
  BY <1>3, Monotone
<1>5. NoPlanYet'
  BY <1>1, <1>3, PlanStays
<1>6. LedgerTypeOK'
  BY <1>1 DEF ledgerVars, TypeOK, LedgerTypeOK
<1>7. pc' # "rebuild" => LeftOut'
  BY <1>1, <1>3, <1>4 DEF IInv, LeftOut
<1>8. CASE stage' = Enter(stage, {0}) /\ pc' = "original" /\ result' = result
  <2>1. \A b \in Batches : stage'[b] = stage[b]
    BY <1>8, Sizes DEF Enter
  <2>2. Failures(stage)' = Failures(stage)
    BY <2>1 DEF Failures
  <2>3. Afterwards'
    BY <1>2, <1>3, <1>4, <1>8, <2>1, <2>2 DEF Afterwards
  <2>4. TasksRestored'
    BY <1>4, <2>1 DEF IInv, TasksRestored
  <2>5. OneByOne' /\ SideBySide' /\ Quiet'
    BY <1>8 DEF OneByOne, SideBySide, Quiet
  <2>6. Reported'
    BY <1>3, <1>4, <1>8 DEF IInv, Reported
  <2>7. stage' \in [Tasks -> Stages]
    BY <1>8, EnterType DEF TypeOK
  <2>8. TypeOK'
    <3>1. /\ pc' \in Points /\ result' \in Results
          /\ attempts' \in [Tasks -> 0..(MaxRetries + MaxPolls + 1)]
          /\ lastFailed' \in [from : 0..N, src : BOOLEAN]
          /\ identity' \in {"none", "checking", "ok"}
      BY <1>1, <1>8, CheckingType DEF TypeOK, Points
    <3>2. QED
      BY <1>1, <1>6, <2>7, <3>1, SubmissionType
  <2>9. QED
    BY <1>5, <1>7, <1>8, <2>3, <2>4, <2>5, <2>6, <2>8 DEF IInv
<1>9. CASE Return(Threw) /\ stage' = stage
  <2>1. pc' = "returned" /\ result' = Threw
    BY <1>9 DEF Return
  <2>2. NothingRuns' /\ stage'[0] \in Settled
    BY <1>2, <1>9, Sizes DEF NothingRuns, Running
  <2>3. TasksRestored'
    BY <1>4, <1>9 DEF IInv, TasksRestored
  <2>4. OneByOne' /\ SideBySide' /\ Afterwards' /\ Quiet'
    BY <2>1, <2>2 DEF OneByOne, SideBySide, Afterwards, Quiet
  <2>5. Reported'
    BY <2>1 DEF Reported, Threw
  <2>6. TypeOK'
    <3>1. /\ pc' \in Points /\ result' \in Results
          /\ attempts' \in [Tasks -> 0..(MaxRetries + MaxPolls + 1)]
          /\ lastFailed' \in [from : 0..N, src : BOOLEAN]
          /\ identity' \in {"none", "checking", "ok"}
      BY <1>1, <2>1, CheckingType, ResultTypes DEF TypeOK, Points
    <3>2. stage' \in [Tasks -> Stages]
      BY <1>9 DEF TypeOK
    <3>3. QED
      BY <1>1, <1>6, <3>1, <3>2, SubmissionType
  <2>7. QED
    BY <1>5, <1>7, <2>1, <2>3, <2>4, <2>5, <2>6 DEF IInv
<1>10. QED
  BY <1>8, <1>9 DEF Verify

LEMMA BuildPreserves ==
  ASSUME TypeOK, IInv, NEW kind \in {"first", "sequential", "grouped"}, Build(kind)
  PROVE  TypeOK' /\ IInv'
<1>1. /\ plan.kind = "none" /\ PlanSize(kind) \in Batches
      /\ plan' = [kind |-> kind, size |-> PlanSize(kind), seqs |-> NumbersFrom(1)]
      /\ archived' = <<>> /\ UNCHANGED ledgerVars
      /\ UNCHANGED <<config, aborted, identity, callVars, taskVars, result,
                     lastFailed, calls>>
  BY DEF Build, Built, NeedsRestoration
<1>2. pc = "idle" /\ lastFailed.from = 0 /\ result = NoResult
  BY <1>1 DEF IInv, NoPlanYet
<1>3. UNCHANGED <<mode, pc, src, first, seqs, stage, attempts>>
  BY <1>1 DEF callVars, taskVars
<1>4. plan' \in [kind : {"none", "first", "sequential", "grouped"},
                 size : 0..N, seqs : SeqMap]
  BY <1>1, NumbersType, Sizes, SizeAssumption DEF Batches
<1>5. TypeOK'
  BY <1>1, <1>3, <1>4 DEF TypeOK, LedgerTypeOK, ledgerVars
<1>6. NoPlanYet'
  BY <1>1, <1>2, <1>3 DEF NoPlanYet, PlanSize
<1>7. \A b : Restored(b)' <=> Restored(b)
  BY <1>1 DEF Restored, Landed, ledgerVars
<1>8. TasksRestored'
  BY <1>3, <1>7 DEF IInv, TasksRestored
<1>9. OneByOne' /\ SideBySide' /\ Afterwards'
  BY <1>2, <1>3 DEF OneByOne, SideBySide, Afterwards
<1>10. Quiet'
  BY <1>2, <1>3 DEF IInv, Quiet, NothingRuns, Running
<1>11. LeftOut'
  BY <1>1, <1>2, <1>3, SizeAssumption DEF LeftOut, Batches
<1>12. Reported'
  BY <1>1, <1>2 DEF Reported, NoResult
<1>13. QED
  BY <1>5, <1>6, <1>8, <1>9, <1>10, <1>11, <1>12 DEF IInv

\* Simulation, cancellation and the ledger touch no call.
LEMMA OutsidePreserves ==
  ASSUME TypeOK, IInv, Simulate \/ Abort \/ Environment \/ UNCHANGED vars
  PROVE  TypeOK' /\ IInv'
<1>1. UNCHANGED <<config, identity, plan, callVars, taskVars, result, lastFailed, calls>>
  BY DEF Simulate, Abort, Environment, vars
<1>2. UNCHANGED <<mode, pc, src, first, seqs, stage, attempts>>
  BY <1>1 DEF callVars, taskVars
<1>3. applied \subseteq applied'
  BY DEF Simulate, Abort, Environment, LedgerNext, Include, Evict, OtherTx,
         ledgerVars, vars
<1>4. IInv'
  BY <1>1, <1>2, <1>3, SameShape
<1>5. LedgerTypeOK'
  <2>1. CASE LedgerNext
    <3>1. CASE OtherTx
      BY <3>1, SizeAssumption DEF OtherTx, TypeOK, LedgerTypeOK
    <3>2. CASE \E t \in mempool : Include(t)
      BY <3>2, SizeAssumption DEF Include, TypeOK, LedgerTypeOK
    <3>3. CASE \E t \in mempool : Evict(t)
      BY <3>3 DEF Evict, TypeOK, LedgerTypeOK
    <3>4. QED
      BY <2>1, <3>1, <3>2, <3>3 DEF LedgerNext
  <2>2. CASE UNCHANGED ledgerVars
    BY <2>2 DEF ledgerVars, TypeOK, LedgerTypeOK
  <2>3. QED
    BY <2>1, <2>2 DEF Simulate, Abort, Environment, vars
<1>6. aborted' \in BOOLEAN
  BY DEF Simulate, Abort, Environment, vars, TypeOK
<1>7. archived' \in Seq(Keys)
  <2>1. CASE Simulate
    <3>1. PICK n \in 1..MaxKeys : archived' \in [1..n -> Keys]
      BY <2>1 DEF Simulate
    <3>2. n \in Nat
      BY <3>1, CoreAssumption
    <3>3. QED
      BY <3>1, <3>2
  <2>2. CASE archived' = archived
    BY <2>2 DEF TypeOK
  <2>3. QED
    BY <2>1, <2>2 DEF Abort, Environment, vars
<1>8. TypeOK'
  BY <1>1, <1>2, <1>5, <1>6, <1>7 DEF TypeOK
<1>9. QED
  BY <1>4, <1>8

LEMMA NextPreserves == TypeOK /\ IInv /\ [Next]_vars => TypeOK' /\ IInv'
<1> SUFFICES ASSUME TypeOK, IInv, [Next]_vars
             PROVE  TypeOK' /\ IInv'
  OBVIOUS
<1>1. CASE \E b \in Tasks : Submission(b)
  BY <1>1, SubmissionPreserves
<1>2. CASE IdentityAnswer
  BY <1>2, IdentityPreserves
<1>3. CASE Rebuild
  BY <1>3, RebuildPreserves
<1>4. CASE Verify
  BY <1>4, VerifyPreserves
<1>5. CASE \E kind \in {"first", "sequential", "grouped"} : Build(kind)
  BY <1>5, BuildPreserves
<1>6. CASE \E m \in {"single", "batches", "batchesOriginal"} : Execute(m)
  BY <1>6, ExecutePreserves
<1>7. CASE \E m \in {"parallel", "parallelAll", "parallelAny"}, n \in Batches :
             ExecuteParallel(m, n)
  BY <1>7, ParallelPreserves
<1>8. CASE Retry
  BY <1>8, RetryPreserves
<1>9. CASE Simulate \/ Abort \/ Environment \/ UNCHANGED vars
  BY <1>9, OutsidePreserves
<1>10. QED
  BY <1>1, <1>2, <1>3, <1>4, <1>5, <1>6, <1>7, <1>8, <1>9 DEF Next, Application

-----------------------------------------------------------------------------
(* Theorems.                                                               *)

\* The invariant is inductive and holds in every reachable state.
THEOREM Invariant == Spec => [](TypeOK /\ IInv)
<1>1. Init => TypeOK /\ IInv
  BY TypeInit, InitInv
<1>2. QED
  BY <1>1, NextPreserves, PTL DEF Spec

\* Every variable keeps its type.
THEOREM TypeCorrect == Spec => []TypeOK
<1>1. TypeOK /\ IInv => TypeOK
  OBVIOUS
<1>2. QED
  BY <1>1, Invariant, PTL

\* restoreConfirmed: true, and success: true of a call that waits for its
\* batches, are said only when every batch of the plan is in a ledger.
THEOREM ReportsAreTrue == Spec => []SuccessMeansRestored
<1>1. TypeOK /\ IInv => SuccessMeansRestored
  <2> SUFFICES ASSUME TypeOK, IInv PROVE SuccessMeansRestored
    OBVIOUS
  <2>1. plan.size = 0 \/ plan.size \in Batches
    BY SizeAssumption DEF TypeOK, Batches
  <2>2. PlanRestored /\ config.confirms => AllLanded
    BY DEF PlanRestored, Restored, AllLanded
  <2>3. QED
    BY <2>2 DEF IInv, Reported, SuccessMeansRestored
<1>2. QED
  BY <1>1, Invariant, PTL

\* The original transaction is submitted only after every batch is restored.
THEOREM OriginalComesLast == Spec => []OriginalNeedsAllBatches
<1>1. TypeOK /\ IInv => OriginalNeedsAllBatches
  BY DEF IInv, Afterwards, OriginalNeedsAllBatches, PlanRestored, Restored, AllLanded
<1>2. QED
  BY <1>1, Invariant, PTL

\* What getFailedKeys() leaves out is restored.
THEOREM RetryIsEnough == Spec => []RetryCoversPlan
<1>1. TypeOK /\ IInv => RetryCoversPlan
  BY DEF IInv, LeftOut, RestoredTo, Restored, RetryCoversPlan
<1>2. QED
  BY <1>1, Invariant, PTL

\* With the three methods supplied, a returned call has no submission left.
THEOREM NothingLeftBehind == Spec => []NoWorkAfterReturn
<1>1. TypeOK /\ IInv => NoWorkAfterReturn
  BY DEF IInv, Quiet, NothingRuns, NoWorkAfterReturn
<1>2. QED
  BY <1>1, Invariant, PTL

-----------------------------------------------------------------------------
(* Cancellation.  A step of the client takes a task only to the stages a    *)
(* cancelled call may still reach; this needs no more than the types.       *)

\* Where a task may go once the signal is aborted.
Unprompted(b) == stage'[b] = stage[b] \/ stage'[b] \notin {"signing", "sending"}

\* The end of one task lets others in, and in means the identity check.
LEMMA SettlingPromptsNobody ==
  ASSUME TypeOK, NEW a \in Tasks, NEW ok \in BOOLEAN, Settles(a, ok), NEW b \in Tasks
  PROVE  Unprompted(b)
<1> DEFINE outcome == IF ok THEN "success" ELSE "failed"
           st == [stage EXCEPT ![a] = outcome]
<1>1. stage' = st \/ \E T : stage' = Enter(st, T)
  <2>1. CASE a = 0
    BY <2>1 DEF Settles, Succeed, Fail, OriginalEnds
  <2>2. CASE a # 0 /\ Sequential /\ ok
    BY <2>2 DEF Settles, Succeed, AfterBatch
  <2>3. CASE a # 0 /\ Sequential /\ ~ok
    BY <2>3 DEF Settles, Fail, BatchFails
  <2>4. CASE a # 0 /\ ~Sequential
    BY <2>4 DEF Settles, Succeed, Fail, PoolTaskEnds, Release
  <2>5. QED BY <2>1, <2>2, <2>3, <2>4
<1>2. QED BY <1>1 DEF Enter, Unprompted, TypeOK

\* A step inside a submission asks the wallet, or sends what it signed, only
\* while the signal is not aborted.
LEMMA SubmissionPromptsNobody ==
  ASSUME TypeOK, aborted, NEW a \in Tasks, Submission(a), NEW b \in Tasks
  PROVE  Unprompted(b)
<1>1. ASSUME NEW to, NEW n, Move(a, to, n), to \notin {"signing", "sending"} \/ to = stage[a]
      PROVE  Unprompted(b)
  BY <1>1 DEF Move, Unprompted, TypeOK
<1>2. ASSUME \E ok \in BOOLEAN : Settles(a, ok)
      PROVE  Unprompted(b)
  BY <1>2, SettlingPromptsNobody
<1>3. CASE IdentityRefused(a) \/ Prompt(a) \/ Sign(a)
  BY <1>2, <1>3 DEF IdentityRefused, Prompt, Sign
<1>4. CASE SendAccepted(a)
  BY <1>1, <1>2, <1>4 DEF SendAccepted, Accepted
<1>5. CASE SendRejected(a) \/ SendLost(a)
  BY <1>1, <1>2, <1>5 DEF SendRejected, SendLost
<1>6. CASE ProbeAnswers(a) \/ SocketEnds(a)
  BY <1>1, <1>2, <1>6 DEF ProbeAnswers, SocketEnds
<1>7. CASE Poll(a) \/ Receipt(a)
  BY <1>1, <1>2, <1>7 DEF Poll, Receipt
<1>8. QED BY <1>3, <1>4, <1>5, <1>6, <1>7 DEF Submission

\* No step asks for a signature or sends one once config.signal is aborted,
\* whichever method runs and however many tasks it has in the pool.
THEOREM AbortIsHeeded == Spec => AbortStopsPrompts
<1>1. TypeOK /\ [Next]_vars =>
        (aborted => \A b \in Tasks :
           stage'[b] # stage[b] => stage'[b] # "signing" /\
                                   ~(stage[b] = "signing" /\ stage'[b] = "sending"))
  <2> SUFFICES ASSUME TypeOK, [Next]_vars, aborted, NEW b \in Tasks
               PROVE  Unprompted(b)
    BY DEF Unprompted
  <2>1. CASE UNCHANGED stage
    BY <2>1 DEF Unprompted
  <2>2. ASSUME NEW a \in Tasks, Submission(a) PROVE Unprompted(b)
    BY <2>2, SubmissionPromptsNobody
  <2>3. CASE IdentityAnswer
    BY <2>3 DEF IdentityAnswer, Unprompted
  <2>4. \A from : Enter(AllOff, {from})[b] \in {"off", "identity"}
    BY DEF Enter, AllOff
  <2>5. ASSUME NEW m, Execute(m) PROVE Unprompted(b)
    BY <2>4, <2>5 DEF Execute, StartAt, AllOff, Unprompted
  <2>6. ASSUME NEW m, NEW n, ExecuteParallel(m, n) PROVE Unprompted(b)
    BY <2>6 DEF ExecuteParallel, PoolStart, Unprompted
  <2>7. CASE Retry \/ Rebuild
    BY <2>1, <2>4, <2>7 DEF Retry, Rebuild, StartAt, AllOff, Unprompted
  <2>8. CASE Verify
    BY <2>8 DEF Verify, Enter, Unprompted
  <2>9. CASE Simulate \/ Abort \/ Environment \/ \E kind : Build(kind)
    BY <2>1, <2>9 DEF Simulate, Abort, Environment, Build, taskVars
  <2>10. CASE UNCHANGED vars
    BY <2>1, <2>10 DEF vars, taskVars
  <2>11. QED
    BY <2>2, <2>3, <2>5, <2>6, <2>7, <2>8, <2>9, <2>10 DEF Next, Application
<1>2. QED
  BY <1>1, TypeCorrect, PTL DEF Spec, AbortStopsPrompts

-----------------------------------------------------------------------------
(* The plans.  The loop of batchKeys has an invariant over the keys it has  *)
(* seen; classifyDeferredKeys is a stable sort; the groups divide the keys. *)

LEMMA LengthsAreNatural == \A key \in Keys : key.length \in Nat
  BY PlanAssumption DEF Keys

LEMMA SizeAdds ==
  /\ EstimatedSize(<<>>) = 0
  /\ \A batch \in Seq(Keys) : EstimatedSize(batch) \in Nat
  /\ \A batch \in Seq(Keys), key \in Keys :
       EstimatedSize(Append(batch, key)) = EstimatedSize(batch) + key.length + HeaderOverhead
<1> DEFINE step == [n \in Nat |-> [key \in Keys |-> n + key.length + HeaderOverhead]]
           V == Nat
<1>1. step \in [V -> [Keys -> V]] /\ 0 \in V
  BY LengthsAreNatural, PlanAssumption
<1>2. \A n \in V, key \in Keys : step[n][key] = n + key.length + HeaderOverhead
  OBVIOUS
<1>3. \A batch : EstimatedSize(batch) = Loop(step, 0, batch)
  BY DEF EstimatedSize
<1> HIDE DEF step, V
<1>4. Steps(step, 0, V, Keys)
  BY <1>1 DEF Steps
<1>5. /\ Loop(step, 0, <<>>) = 0
      /\ \A batch \in Seq(Keys) : Loop(step, 0, batch) \in V
      /\ \A batch \in Seq(Keys), key \in Keys :
           Loop(step, 0, Append(batch, key)) = step[Loop(step, 0, batch)][key]
  BY <1>4, LoopRuns
<1>7. \A batch \in Seq(Keys), key \in Keys :
        EstimatedSize(Append(batch, key)) = EstimatedSize(batch) + key.length + HeaderOverhead
  BY <1>2, <1>3, <1>5
<1>8. \A batch \in Seq(Keys) : EstimatedSize(batch) \in Nat
  BY <1>3, <1>5 DEF V
<1> QED BY <1>3, <1>5, <1>7, <1>8

\* Where the loop of batchKeys stands after the keys u.
Start == [done |-> <<>>, current |-> <<>>, size |-> 0]

Turn == [acc \in Packing |-> [key \in Keys |-> AddKey(acc, key)]]

After(u) == Loop(Turn, Start, u)

LEMMA AddKeyType ==
  ASSUME NEW acc \in Packing, NEW key \in Keys
  PROVE  /\ AddKey(acc, key) \in Packing
         /\ \/ /\ acc.current # <<>>
               /\ AddKey(acc, key) = [done    |-> Append(acc.done, acc.current),
                                      current |-> <<key>>, size |-> key.length]
            \/ /\ acc.size + key.length + HeaderOverhead <= MaxXdrSize \/ acc.current = <<>>
               /\ AddKey(acc, key) = [done    |-> acc.done, current |-> Append(acc.current, key),
                                      size |-> acc.size + key.length + HeaderOverhead]
<1>1. /\ acc.done \in Seq(Seq(Keys)) /\ acc.current \in Seq(Keys) /\ acc.size \in Nat
      /\ acc = [done |-> acc.done, current |-> acc.current, size |-> acc.size]
  BY DEF Packing
<1>2. key.length \in Nat /\ HeaderOverhead \in Nat /\ MaxXdrSize \in Nat
  BY LengthsAreNatural, PlanAssumption
<1>3. acc.size + key.length + HeaderOverhead \in Nat
  BY <1>1, <1>2
<1> DEFINE total == acc.size + key.length + HeaderOverhead
<1> HIDE DEF total
<1>4. total \in Nat
  BY <1>3 DEF total
<1>5. CASE total > MaxXdrSize /\ acc.current # <<>>
  <2>1. AddKey(acc, key) = [done |-> Append(acc.done, acc.current),
                            current |-> <<key>>, size |-> key.length]
    BY <1>5 DEF AddKey, total
  <2>2. Append(acc.done, acc.current) \in Seq(Seq(Keys)) /\ <<key>> \in Seq(Keys)
    BY <1>1
  <2> QED BY <1>2, <1>5, <2>1, <2>2 DEF Packing
<1>6. CASE ~(total > MaxXdrSize /\ acc.current # <<>>)
  <2>1. AddKey(acc, key) = [acc EXCEPT !.current = Append(@, key), !.size = total]
    BY <1>6 DEF AddKey, total
  <2>2. AddKey(acc, key)
          = [done |-> acc.done, current |-> Append(acc.current, key), size |-> total]
    BY <1>1, <2>1
  <2>3. Append(acc.current, key) \in Seq(Keys)
    BY <1>1
  <2>4. total <= MaxXdrSize \/ acc.current = <<>>
    BY <1>2, <1>4, <1>6
  <2> QED BY <1>1, <1>4, <2>2, <2>3, <2>4 DEF Packing, total
<1> QED BY <1>5, <1>6

LEMMA AfterUnfolds ==
  /\ After(<<>>) = Start
  /\ \A u \in Seq(Keys) : After(u) \in Packing
  /\ \A u \in Seq(Keys), key \in Keys : After(Append(u, key)) = AddKey(After(u), key)
<1>1. Turn \in [Packing -> [Keys -> Packing]] /\ Start \in Packing
  <2>1. \A acc \in Packing, key \in Keys : AddKey(acc, key) \in Packing
    BY AddKeyType
  <2>2. Start \in Packing
    BY DEF Start, Packing
  <2> QED BY <2>1, <2>2 DEF Turn
<1>2. \A acc \in Packing, key \in Keys : Turn[acc][key] = AddKey(acc, key)
  BY DEF Turn
<1>3. Steps(Turn, Start, Packing, Keys)
  BY <1>1 DEF Steps
<1>4. /\ Loop(Turn, Start, <<>>) = Start
      /\ \A u \in Seq(Keys) : Loop(Turn, Start, u) \in Packing
      /\ \A u \in Seq(Keys), key \in Keys :
           Loop(Turn, Start, Append(u, key)) = Turn[Loop(Turn, Start, u)][key]
  BY <1>3, LoopRuns
<1> QED BY <1>2, <1>4 DEF After

\* batchKeys keeps the keys and their order, and the limit.
PackingInv(acc, u) ==
  /\ acc \in Packing
  /\ FlattenSeq(acc.done) \o acc.current = u
  /\ acc.current = <<>> => u = <<>> /\ acc.done = <<>> /\ acc.size = 0
  /\ \A i \in DOMAIN acc.done : FitsTransaction(acc.done[i])
  /\ EstimatedSize(acc.current) <= acc.size + HeaderOverhead
  /\ Len(acc.current) > 1 => acc.size <= MaxXdrSize

LEMMA PackingHolds ==
  ASSUME NEW u \in Seq(Keys)
  PROVE  PackingInv(After(u), u)
<1> DEFINE T == {v \in Seq(Keys) : PackingInv(After(v), v)}
<1>1. <<>> \in T
  <2>1. /\ Start \in Packing /\ Start.done = <<>> /\ Start.current = <<>> /\ Start.size = 0
    BY DEF Start, Packing
  <2>2. FlattenSeq(Start.done) \o Start.current = <<>>
    <3>1. FlattenSeq(Start.done) = <<>>
      BY <2>1, FlattenEmpty
    <3> QED BY <2>1, <3>1
  <2>3. EstimatedSize(Start.current) = 0 /\ Len(Start.current) = 0 /\ DOMAIN Start.done = {}
    BY <2>1, SizeAdds
  <2>4. PackingInv(Start, <<>>)
    BY <2>1, <2>2, <2>3, PlanAssumption DEF PackingInv
  <2>5. PackingInv(After(<<>>), <<>>)
    BY <2>4, AfterUnfolds
  <2> QED BY <2>5
<1>2. ASSUME NEW v \in Seq(Keys), NEW key \in Keys, v \in T PROVE Append(v, key) \in T
  <2> DEFINE acc == After(v)
             new == AddKey(acc, key)
  <2>1. After(Append(v, key)) = new /\ PackingInv(acc, v)
    BY <1>2, AfterUnfolds
  <2>2. /\ acc \in Packing /\ acc.done \in Seq(Seq(Keys)) /\ acc.current \in Seq(Keys)
        /\ acc.size \in Nat
    BY <2>1 DEF PackingInv, Packing
  <2>3. key.length \in Nat /\ HeaderOverhead \in Nat /\ MaxXdrSize \in Nat
    BY LengthsAreNatural, PlanAssumption
  <2> HIDE DEF acc, new
  <2>4. new \in Packing
    BY <2>2, AddKeyType DEF new
  <2>5. FlattenSeq(acc.done) \in Seq(Keys)
    BY <2>2, FlattenType
  <2>6. /\ EstimatedSize(<<>>) = 0 /\ EstimatedSize(acc.current) \in Nat
        /\ EstimatedSize(Append(acc.current, key)) = EstimatedSize(acc.current) + key.length + HeaderOverhead
    BY <2>2, SizeAdds
  <2>7. ASSUME acc.current # <<>>,
               new = [done |-> Append(acc.done, acc.current), current |-> <<key>>, size |-> key.length]
        PROVE  PackingInv(new, Append(v, key))
    <3>1. new.done = Append(acc.done, acc.current) /\ new.current = <<key>> /\ new.size = key.length
      BY <2>7
    <3>2. FlattenSeq(new.done) \o new.current = Append(v, key)
      <4>1. FlattenSeq(new.done) = FlattenSeq(acc.done) \o acc.current
        BY <2>2, <3>1, FlattenAppend
      <4>2. FlattenSeq(acc.done) \o acc.current = v
        BY <2>1 DEF PackingInv
      <4>3. v \o <<key>> = Append(v, key)
        OBVIOUS
      <4> QED BY <3>1, <4>1, <4>2, <4>3
    <3>3. FitsTransaction(acc.current)
      BY <2>1, <2>2, <2>3, <2>6 DEF PackingInv, FitsTransaction
    <3>4. ASSUME NEW i \in DOMAIN new.done PROVE FitsTransaction(new.done[i])
      <4>1. /\ i \in DOMAIN acc.done /\ new.done[i] = acc.done[i]
            \/ new.done[i] = acc.current
        BY <2>2, <3>1
      <4> QED BY <2>1, <3>3, <4>1 DEF PackingInv
    <3>5. <<key>> # <<>> /\ Len(<<key>>) = 1 /\ <<key>> = Append(<<>>, key) /\ <<>> \in Seq(Keys)
      OBVIOUS
    <3>6. EstimatedSize(<<key>>) = key.length + HeaderOverhead
      <4>1. EstimatedSize(Append(<<>>, key)) = EstimatedSize(<<>>) + key.length + HeaderOverhead
        BY <3>5, SizeAdds
      <4> QED BY <2>3, <2>6, <3>5, <4>1
    <3>7. /\ new.current # <<>> /\ ~(Len(new.current) > 1)
          /\ EstimatedSize(new.current) <= new.size + HeaderOverhead
      BY <2>3, <3>1, <3>5, <3>6
    <3> QED BY <2>4, <3>2, <3>4, <3>7 DEF PackingInv
  <2>8. ASSUME acc.size + key.length + HeaderOverhead <= MaxXdrSize \/ acc.current = <<>>,
               new = [done |-> acc.done, current |-> Append(acc.current, key),
                      size |-> acc.size + key.length + HeaderOverhead]
        PROVE  PackingInv(new, Append(v, key))
    <3>1. /\ new.done = acc.done /\ new.current = Append(acc.current, key)
          /\ new.size = acc.size + key.length + HeaderOverhead
      BY <2>8
    <3>2. FlattenSeq(new.done) \o new.current = Append(v, key)
      <4>1. FlattenSeq(acc.done) \o acc.current = v
        BY <2>1 DEF PackingInv
      <4>2. FlattenSeq(acc.done) \o Append(acc.current, key)
              = Append(FlattenSeq(acc.done) \o acc.current, key)
        <5> DEFINE a == FlattenSeq(acc.done)
                   b == acc.current
        <5>1. a \in Seq(Keys) /\ b \in Seq(Keys)
          BY <2>2, <2>5
        <5> HIDE DEF a, b, T
        <5>2. a \o Append(b, key) = Append(a \o b, key)
          BY <5>1, ConcatAppend
        <5> QED BY <5>2 DEF a, b
      <4> QED BY <3>1, <4>1, <4>2
    <3>3. new.current # <<>> /\ (Len(new.current) > 1 => acc.current # <<>>)
      BY <2>2, <3>1
    <3>4. /\ \A i \in DOMAIN acc.done : FitsTransaction(acc.done[i])
          /\ EstimatedSize(acc.current) <= acc.size + HeaderOverhead
      BY <2>1 DEF PackingInv
    <3>5. EstimatedSize(new.current) <= new.size + HeaderOverhead
      BY <2>2, <2>3, <2>6, <3>1, <3>4
    <3>6. Len(new.current) > 1 => new.size <= MaxXdrSize
      BY <2>8, <3>1, <3>3
    <3> QED BY <2>1, <2>4, <3>1, <3>2, <3>3, <3>4, <3>5, <3>6 DEF PackingInv
  <2>9. PackingInv(new, Append(v, key))
    <3> HIDE DEF T
    <3> QED BY <2>2, <2>7, <2>8, AddKeyType DEF new
  <2> QED BY <2>1, <2>9
<1> HIDE DEF T
<1>3. u \in T
  BY <1>1, <1>2, SequenceInduction
<1> QED BY <1>3 DEF T

LEMMA BatchKeysHold ==
  ASSUME NEW u \in Seq(Keys)
  PROVE  /\ BatchKeys(u) \in Seq(Seq(Keys)) /\ FlattenSeq(BatchKeys(u)) = u
         /\ \A i \in DOMAIN BatchKeys(u) : FitsTransaction(BatchKeys(u)[i])
<1> DEFINE acc == After(u)
<1>1. BatchKeys(u) = IF acc.current = <<>> THEN acc.done ELSE Append(acc.done, acc.current)
  BY DEF BatchKeys, After, Turn, Start
<1>2. PackingInv(acc, u)
  BY PackingHolds
<1> HIDE DEF acc
<1>3. acc.done \in Seq(Seq(Keys)) /\ acc.current \in Seq(Keys) /\ acc.size \in Nat
  BY <1>2 DEF PackingInv, Packing
<1>4. CASE acc.current = <<>>
  <2>1. BatchKeys(u) = <<>> /\ u = <<>>
    BY <1>1, <1>2, <1>4 DEF PackingInv
  <2>2. DOMAIN BatchKeys(u) = {} /\ BatchKeys(u) \in Seq(Seq(Keys))
    BY <2>1
  <2> QED BY <2>1, <2>2, FlattenEmpty
<1>5. CASE acc.current # <<>>
  <2>1. BatchKeys(u) = Append(acc.done, acc.current)
    BY <1>1, <1>5
  <2>2. FlattenSeq(BatchKeys(u)) = u
    <3>1. FlattenSeq(BatchKeys(u)) = FlattenSeq(acc.done) \o acc.current
      BY <1>3, <2>1, FlattenAppend
    <3> QED BY <1>2, <3>1 DEF PackingInv
  <2>3. FitsTransaction(acc.current)
    <3>1. EstimatedSize(acc.current) \in Nat /\ MaxXdrSize \in Nat /\ HeaderOverhead \in Nat
      BY <1>3, SizeAdds, PlanAssumption
    <3> QED BY <1>2, <1>3, <3>1 DEF PackingInv, FitsTransaction
  <2>4. ASSUME NEW i \in DOMAIN BatchKeys(u) PROVE FitsTransaction(BatchKeys(u)[i])
    <3>1. \/ i \in DOMAIN acc.done /\ BatchKeys(u)[i] = acc.done[i]
          \/ BatchKeys(u)[i] = acc.current
      BY <1>3, <2>1
    <3> QED BY <1>2, <2>3, <3>1 DEF PackingInv
  <2>5. BatchKeys(u) \in Seq(Seq(Keys))
    BY <1>3, <2>1
  <2> QED BY <2>2, <2>4, <2>5
<1> QED BY <1>4, <1>5

Rank == [key \in Keys |-> Priority[key.kind]]

LEMMA RankOfKinds ==
  \A key \in Keys :
    /\ Rank[key] \in {0, 1, 2} /\ Rank[key] = Priority[key.kind]
    /\ key.kind = "instance" => Rank[key] = 0
    /\ key.kind = "data" => Rank[key] = 2
  BY DEF Rank, Priority, Kinds, Keys

LEMMA ClassifySorts ==
  ASSUME NEW keys \in Seq(Keys)
  PROVE  /\ Classify(keys) \in Seq(Keys) /\ Sorted(Rank, Classify(keys))
         /\ \A key \in Keys : Kept(Classify(keys), {key}) = Kept(keys, {key})
<1> DEFINE P(p) == {key \in Keys : Priority[key.kind] = p}
           Of(p) == Kept(keys, P(p))
<1>1. Classify(keys) = Of(0) \o Of(1) \o Of(2)
  BY DEF Classify
<1>2. ASSUME NEW p PROVE Of(p) \in Seq(Keys) /\ \A i \in DOMAIN Of(p) : Rank[Of(p)[i]] = p
  <2>1. Of(p) \in Seq(Keys \cap P(p))
    BY KeptType
  <2>2. \A key \in Keys \cap P(p) : Rank[key] = p
    BY RankOfKinds
  <2> HIDE DEF Of, P
  <2> QED BY <2>1, <2>2
<1> DEFINE a == Of(0)
           b == Of(1)
           c == Of(2)
<1>3. /\ a \in Seq(Keys) /\ b \in Seq(Keys) /\ c \in Seq(Keys)
      /\ \A i \in DOMAIN a : Rank[a[i]] = 0
      /\ \A i \in DOMAIN b : Rank[b[i]] = 1
      /\ \A i \in DOMAIN c : Rank[c[i]] = 2
  BY <1>2
<1>4. ASSUME NEW key \in Keys PROVE Kept(Classify(keys), {key}) = Kept(keys, {key})
  <2>1. ASSUME NEW p
        PROVE  Kept(Of(p), {key}) = IF Rank[key] = p THEN Kept(keys, {key}) ELSE <<>>
    <3>1. Kept(Of(p), {key}) = Kept(keys, P(p) \cap {key})
      BY KeptKept
    <3>2. CASE Rank[key] = p
      <4>1. P(p) \cap {key} = {key}
        BY <3>2, RankOfKinds
      <4> QED BY <3>1, <3>2, <4>1
    <3>3. CASE Rank[key] # p
      <4>1. (P(p) \cap {key}) \cap Keys = {}
        BY <3>3, RankOfKinds
      <4>2. Kept(keys, P(p) \cap {key}) = <<>>
        BY <4>1, KeptNone
      <4> QED BY <3>1, <3>3, <4>2
    <3> QED BY <3>2, <3>3
  <2> HIDE DEF Of
  <2>2. /\ Kept(a, {key}) = IF Rank[key] = 0 THEN Kept(keys, {key}) ELSE <<>>
        /\ Kept(b, {key}) = IF Rank[key] = 1 THEN Kept(keys, {key}) ELSE <<>>
        /\ Kept(c, {key}) = IF Rank[key] = 2 THEN Kept(keys, {key}) ELSE <<>>
    BY <2>1
  <2> HIDE DEF a, b, c
  <2>3. a \o b \in Seq(Keys)
    BY <1>3
  <2>4. Kept(a \o b \o c, {key}) = Kept(a, {key}) \o Kept(b, {key}) \o Kept(c, {key})
    <3> DEFINE S == {key}
    <3> HIDE DEF S
    <3>1. Kept(a \o b, S) = Kept(a, S) \o Kept(b, S)
      BY <1>3, KeptConcat
    <3> DEFINE d == a \o b
    <3>2. d \in Seq(Keys) /\ c \in Seq(Keys)
      BY <1>3, <2>3
    <3> HIDE DEF d
    <3>3. Kept(d \o c, S) = Kept(d, S) \o Kept(c, S)
      BY <3>2, KeptConcat
    <3> QED BY <3>1, <3>3 DEF S, d
  <2> DEFINE k == Kept(keys, {key})
  <2>5. k \in Seq(Keys)
    BY SharesType
  <2> HIDE DEF k
  <2>6. k \o <<>> \o <<>> = k /\ <<>> \o k \o <<>> = k /\ <<>> \o <<>> \o k = k
    BY <2>5
  <2>7. Rank[key] \in {0, 1, 2}
    BY RankOfKinds
  <2>8. Kept(a, {key}) \o Kept(b, {key}) \o Kept(c, {key}) = k
    <3>1. CASE Rank[key] = 0
      <4>1. Kept(a, {key}) = k /\ Kept(b, {key}) = <<>> /\ Kept(c, {key}) = <<>>
        BY <2>2, <3>1 DEF k
      <4> QED BY <2>6, <4>1
    <3>2. CASE Rank[key] = 1
      <4>1. Kept(a, {key}) = <<>> /\ Kept(b, {key}) = k /\ Kept(c, {key}) = <<>>
        BY <2>2, <3>2 DEF k
      <4> QED BY <2>6, <4>1
    <3>3. CASE Rank[key] = 2
      <4>1. Kept(a, {key}) = <<>> /\ Kept(b, {key}) = <<>> /\ Kept(c, {key}) = k
        BY <2>2, <3>3 DEF k
      <4> QED BY <2>6, <4>1
    <3> QED BY <2>7, <3>1, <3>2, <3>3
  <2> QED BY <1>1, <2>4, <2>8 DEF a, b, c, k
<1> HIDE DEF Of
<1>5. Classify(keys) = a \o b \o c
  BY <1>1
<1> HIDE DEF a, b, c
<1>6. Sorted(Rank, a) /\ Sorted(Rank, b) /\ Sorted(Rank, c)
  BY <1>3 DEF Sorted
<1>7. a \o b \in Seq(Keys) /\ Sorted(Rank, a \o b)
  BY <1>3, <1>6, SortedConcat
<1>8. \A i \in DOMAIN (a \o b) : Rank[(a \o b)[i]] \in {0, 1}
  <2> SUFFICES ASSUME NEW i \in DOMAIN (a \o b) PROVE Rank[(a \o b)[i]] \in {0, 1}
    OBVIOUS
  <2>1. Has(a \o b, (a \o b)[i])
    BY DEF Has
  <2>2. Has(a, (a \o b)[i]) \/ Has(b, (a \o b)[i])
    BY <1>3, <2>1, HasConcat
  <2> QED BY <1>3, <2>2 DEF Has
<1>9. Sorted(Rank, (a \o b) \o c)
  <2> DEFINE d == a \o b
  <2>1. /\ d \in Seq(Keys) /\ Sorted(Rank, d)
        /\ \A i \in DOMAIN d, j \in DOMAIN c : Rank[d[i]] <= Rank[c[j]]
    BY <1>3, <1>7, <1>8
  <2> HIDE DEF d
  <2>2. Sorted(Rank, d \o c)
    BY <1>3, <1>6, <2>1, SortedConcat
  <2> QED BY <2>2 DEF d
<1>10. a \o b \o c \in Seq(Keys)
  BY <1>3
<1> QED BY <1>4, <1>5, <1>9, <1>10

LEMMA GroupsByContract ==
  \A x, y \in Keys : x.kind = "instance" /\ y.kind = "data" /\ x.contract = y.contract
                     => GroupOf(x) = GroupOf(y)
  BY DEF GroupOf, Keys, Kinds

LEMMA SortedIsInstanceFirst ==
  ASSUME NEW batches \in Seq(Seq(Keys)), Sorted(Rank, FlattenSeq(batches))
  PROVE  InstanceFirst(batches)
<1> SUFFICES ASSUME NEW i \in DOMAIN batches, NEW j \in DOMAIN batches,
                    NEW x \in ToSet(batches[i]), NEW y \in ToSet(batches[j]),
                    x.kind = "instance", y.kind = "data", ~(i <= j)
             PROVE  FALSE
  BY DEF InstanceFirst
<1>1. j < i /\ Has(batches[i], x) /\ Has(batches[j], y) /\ x \in Keys /\ y \in Keys
  BY ToSetHas DEF Has
<1>2. Rank[y] <= Rank[x]
  BY <1>1, FlattenOrder
<1> QED BY <1>1, <1>2, RankOfKinds

LEMMA BatchKeyGroupsAppend ==
  /\ BatchKeyGroups(<<>>) = <<>>
  /\ \A u \in Seq(Seq(Keys)) : BatchKeyGroups(u) \in Seq(Seq(Keys))
  /\ \A u \in Seq(Seq(Keys)), s \in Seq(Keys) :
       BatchKeyGroups(Append(u, s)) = BatchKeyGroups(u) \o BatchKeys(s)
<1> DEFINE Each(u) == [i \in DOMAIN u |-> BatchKeys(u[i])]
<1>1. \A u : BatchKeyGroups(u) = FlattenSeq(Each(u))
  BY DEF BatchKeyGroups
<1>2. BatchKeyGroups(<<>>) = <<>>
  <2>1. Each(<<>>) = <<>>
    OBVIOUS
  <2> QED BY <1>1, <2>1, FlattenEmpty
<1>3. ASSUME NEW u \in Seq(Seq(Keys)) PROVE Each(u) \in Seq(Seq(Seq(Keys))) /\ Len(Each(u)) = Len(u)
  <2>1. DOMAIN u = 1..Len(u) /\ Len(u) \in Nat /\ \A i \in 1..Len(u) : BatchKeys(u[i]) \in Seq(Seq(Keys))
    BY BatchKeysHold
  <2> QED BY <2>1
<1>4. ASSUME NEW u \in Seq(Seq(Keys)) PROVE BatchKeyGroups(u) \in Seq(Seq(Keys))
  <2> HIDE DEF Each
  <2> QED BY <1>1, <1>3, FlattenType
<1>5. ASSUME NEW u \in Seq(Seq(Keys)), NEW s \in Seq(Keys)
      PROVE  BatchKeyGroups(Append(u, s)) = BatchKeyGroups(u) \o BatchKeys(s)
  <2> DEFINE t == Append(u, s)
             n == Len(u)
  <2>1. /\ n \in Nat /\ DOMAIN u = 1..n /\ DOMAIN t = 1..(n + 1)
        /\ t[n + 1] = s /\ \A i \in 1..n : t[i] = u[i]
        /\ \A i \in 1..(n + 1) : i \in 1..n \/ i = n + 1
    OBVIOUS
  <2> HIDE DEF t, n
  <2> DEFINE q == Each(u)
             last == BatchKeys(s)
  <2>2. q \in Seq(Seq(Seq(Keys))) /\ Len(q) = n /\ last \in Seq(Seq(Keys))
    BY <1>3, BatchKeysHold DEF n
  <2>3. Each(t) = [i \in 1..(n + 1) |-> IF i = n + 1 THEN last ELSE q[i]]
    BY <2>1
  <2> HIDE DEF Each, q, last
  <2>4. Append(q, last) = [i \in 1..(n + 1) |-> IF i = n + 1 THEN last ELSE q[i]]
    BY <2>2, AppendEntries
  <2>5. FlattenSeq(Append(q, last)) = FlattenSeq(q) \o last
    BY <2>2, FlattenAppend
  <2> QED BY <1>1, <2>3, <2>4, <2>5 DEF q, last, t
<1> QED BY <1>2, <1>4, <1>5

\* The groups divide the keys, and each is sorted.
Divided(u) ==
  /\ \A i \in DOMAIN u : Sorted(Rank, u[i]) /\ OneGroup(u[i])
  /\ \A i, j \in DOMAIN u : i # j =>
       \A x \in ToSet(u[i]), y \in ToSet(u[j]) : GroupOf(x) # GroupOf(y)

\* What BatchKeyGroups makes of them.
Planned(batches, u) ==
  /\ FlattenSeq(batches) = FlattenSeq(u) /\ InstanceFirst(batches)
  /\ \A i \in DOMAIN batches : FitsTransaction(batches[i]) /\ OneGroup(batches[i])

LEMMA GroupsArePlanned ==
  ASSUME NEW groups \in Seq(Seq(Keys)), Divided(groups)
  PROVE  Planned(BatchKeyGroups(groups), groups)
<1> DEFINE T == {u \in Seq(Seq(Keys)) : Divided(u) => Planned(BatchKeyGroups(u), u)}
<1>1. <<>> \in T
  <2> DEFINE none == <<>>
  <2>1. none \in Seq(Seq(Keys)) /\ DOMAIN none = {} /\ BatchKeyGroups(none) = none
    BY BatchKeyGroupsAppend
  <2> HIDE DEF none
  <2>2. Planned(none, none)
    BY <2>1 DEF Planned, InstanceFirst
  <2>3. none \in T
    BY <2>1, <2>2
  <2> QED BY <2>3 DEF none
<1>2. ASSUME NEW u \in Seq(Seq(Keys)), NEW s \in Seq(Keys), u \in T PROVE Append(u, s) \in T
  <2> DEFINE t == Append(u, s)
             n == Len(u)
             v == BatchKeyGroups(u)
             w == BatchKeys(s)
  <2>1. /\ t \in Seq(Seq(Keys)) /\ n \in Nat /\ DOMAIN u = 1..n /\ DOMAIN t = 1..(n + 1)
        /\ t[n + 1] = s /\ \A i \in 1..n : t[i] = u[i]
    OBVIOUS
  <2>2. /\ v \in Seq(Seq(Keys)) /\ w \in Seq(Seq(Keys)) /\ FlattenSeq(w) = s
        /\ \A i \in DOMAIN w : FitsTransaction(w[i])
    BY BatchKeysHold, BatchKeyGroupsAppend
  <2>3. BatchKeyGroups(t) = v \o w
    BY BatchKeyGroupsAppend
  <2>4. Divided(u) => Planned(v, u)
    BY <1>2
  <2>5. FlattenSeq(t) = FlattenSeq(u) \o s
    BY FlattenAppend
  <2> HIDE DEF t, n, v, w, T
  <2> SUFFICES ASSUME Divided(t) PROVE Planned(v \o w, t)
    BY <2>1, <2>3 DEF T, t
  <2>6. /\ Divided(u) /\ Sorted(Rank, s) /\ OneGroup(s)
        /\ \A i \in DOMAIN u : \A x \in ToSet(u[i]), y \in ToSet(s) : GroupOf(x) # GroupOf(y)
    <3>1. /\ n + 1 \in DOMAIN t /\ t[n + 1] = s
          /\ \A i \in DOMAIN u : i \in DOMAIN t /\ i # n + 1 /\ t[i] = u[i]
      BY <2>1
    <3>2. \A i \in DOMAIN t : Sorted(Rank, t[i]) /\ OneGroup(t[i])
      BY DEF Divided
    <3>3. \A i, j \in DOMAIN t : i # j =>
            \A x \in ToSet(t[i]), y \in ToSet(t[j]) : GroupOf(x) # GroupOf(y)
      BY DEF Divided
    <3>4. Divided(u)
      <4>1. \A i \in DOMAIN u : Sorted(Rank, u[i]) /\ OneGroup(u[i])
        BY <3>1, <3>2
      <4>2. ASSUME NEW i \in DOMAIN u, NEW j \in DOMAIN u, i # j,
                   NEW x \in ToSet(u[i]), NEW y \in ToSet(u[j])
            PROVE  GroupOf(x) # GroupOf(y)
        BY <3>1, <3>3, <4>2
      <4> QED BY <4>1, <4>2 DEF Divided
    <3>5. ASSUME NEW i \in DOMAIN u, NEW x \in ToSet(u[i]), NEW y \in ToSet(s)
          PROVE  GroupOf(x) # GroupOf(y)
      BY <3>1, <3>3
    <3> QED BY <3>1, <3>2, <3>4, <3>5
  <2>7. Planned(v, u)
    BY <2>4, <2>6
  <2>8. FlattenSeq(v \o w) = FlattenSeq(t)
    <3>1. FlattenSeq(v \o w) = FlattenSeq(v) \o FlattenSeq(w)
      BY <2>2, FlattenConcat
    <3> QED BY <2>2, <2>5, <2>7, <3>1 DEF Planned
  <2>9. \A j \in DOMAIN w : \A y : Has(w[j], y) => Has(s, y)
    BY <2>2, FlattenHas
  <2>10. \A i \in DOMAIN v, j \in DOMAIN w :
           \A x \in ToSet(v[i]), y \in ToSet(w[j]) : GroupOf(x) # GroupOf(y)
    <3> SUFFICES ASSUME NEW i \in DOMAIN v, NEW j \in DOMAIN w,
                        NEW x \in ToSet(v[i]), NEW y \in ToSet(w[j])
                 PROVE  GroupOf(x) # GroupOf(y)
      OBVIOUS
    <3>1. Has(v[i], x) /\ Has(s, y)
      BY <2>9, ToSetHas
    <3>2. Has(FlattenSeq(u), x)
      <4>1. Has(FlattenSeq(v), x)
        BY <2>2, <3>1, FlattenHas
      <4> QED BY <2>7, <4>1 DEF Planned
    <3>3. PICK k \in DOMAIN u : Has(u[k], x)
      BY <3>2, FlattenHas
    <3> QED BY <2>6, <3>1, <3>3, ToSetHas
  <2>11. \A j \in DOMAIN w : OneGroup(w[j])
    BY <2>6, <2>9, ToSetHas DEF OneGroup
  <2>12. InstanceFirst(w)
    BY <2>2, <2>6, SortedIsInstanceFirst
  <2> DEFINE b == v \o w
             m == Len(v)
             k == Len(w)
  <2>13. /\ m \in Nat /\ k \in Nat /\ DOMAIN v = 1..m /\ DOMAIN w = 1..k /\ DOMAIN b = 1..(m + k)
         /\ b \in Seq(Seq(Keys))
         /\ \A i \in 1..m : b[i] = v[i]
         /\ \A i \in (m + 1)..(m + k) : i - m \in 1..k /\ b[i] = w[i - m]
    BY <2>2
  <2>14. \A i \in 1..(m + k) : i \in 1..m \/ i \in (m + 1)..(m + k)
    BY <2>13
  <2> HIDE DEF b, m, k
  <2>15. ASSUME NEW i \in DOMAIN b PROVE FitsTransaction(b[i]) /\ OneGroup(b[i])
    BY <2>2, <2>7, <2>11, <2>13, <2>14 DEF Planned
  <2>16. InstanceFirst(b)
    <3> SUFFICES ASSUME NEW i \in DOMAIN b, NEW j \in DOMAIN b,
                        NEW x \in ToSet(b[i]), NEW y \in ToSet(b[j]),
                        x.kind = "instance", y.kind = "data", x.contract = y.contract
                 PROVE  i <= j
      BY DEF InstanceFirst
    <3>1. x \in Keys /\ y \in Keys
      <4>1. b[i] \in Seq(Keys) /\ b[j] \in Seq(Keys)
        BY <2>13
      <4> QED BY <4>1 DEF ToSet
    <3>2. GroupOf(x) = GroupOf(y)
      BY <3>1, GroupsByContract
    <3>3. CASE i \in 1..m /\ j \in 1..m
      BY <2>7, <2>13, <3>3 DEF Planned, InstanceFirst
    <3>4. CASE i \in 1..m /\ j \in (m + 1)..(m + k)
      BY <2>13, <3>4
    <3>5. CASE i \in (m + 1)..(m + k) /\ j \in 1..m
      <4>1. i - m \in DOMAIN w /\ b[i] = w[i - m] /\ j \in DOMAIN v /\ b[j] = v[j]
        BY <2>13, <3>5
      <4> QED BY <2>10, <3>2, <4>1
    <3>6. CASE i \in (m + 1)..(m + k) /\ j \in (m + 1)..(m + k)
      <4>1. i - m \in DOMAIN w /\ b[i] = w[i - m] /\ j - m \in DOMAIN w /\ b[j] = w[j - m]
        BY <2>13, <3>6
      <4>2. i - m <= j - m
        BY <2>12, <4>1 DEF InstanceFirst
      <4> QED BY <2>13, <3>6, <4>2
    <3> QED BY <2>13, <2>14, <3>3, <3>4, <3>5, <3>6
  <2> QED BY <2>8, <2>15, <2>16 DEF Planned, b
<1> HIDE DEF T
<1>3. groups \in T
  BY <1>1, <1>2, SequenceInduction
<1> QED BY <1>3 DEF T

LEMMA HoldsAllKeys ==
  ASSUME NEW keys \in Seq(Keys), NEW batches \in Seq(Seq(Keys)),
         \A key \in Keys : Kept(FlattenSeq(batches), {key}) = Kept(keys, {key})
  PROVE  HoldsAll(batches, keys)
<1>1. FlattenSeq(batches) \in Seq(Keys)
  BY FlattenType
<1>2. \A key \in ToSet(keys) \cup ToSet(FlattenSeq(batches)) : key \in Keys
  BY <1>1 DEF ToSet
<1> QED BY <1>2 DEF HoldsAll

\* What PlansHoldTheKeys says of each plan.
LEMMA SequentialPlanHolds ==
  ASSUME NEW keys \in Seq(Keys)
  PROVE  LET batches == SequentialPlan(keys)
         IN  /\ HoldsAll(batches, keys) /\ InstanceFirst(batches)
             /\ \A i \in DOMAIN batches : FitsTransaction(batches[i])
<1> DEFINE sorted == Classify(keys)
           batches == BatchKeys(sorted)
<1>1. /\ sorted \in Seq(Keys) /\ Sorted(Rank, sorted)
      /\ \A key \in Keys : Kept(sorted, {key}) = Kept(keys, {key})
  BY ClassifySorts
<1> HIDE DEF sorted
<1>2. /\ batches \in Seq(Seq(Keys)) /\ FlattenSeq(batches) = sorted
      /\ \A i \in DOMAIN batches : FitsTransaction(batches[i])
  BY <1>1, BatchKeysHold
<1> HIDE DEF batches
<1>3. HoldsAll(batches, keys)
  BY <1>1, <1>2, HoldsAllKeys
<1>4. InstanceFirst(batches)
  BY <1>1, <1>2, SortedIsInstanceFirst
<1> QED BY <1>2, <1>3, <1>4 DEF SequentialPlan, batches, sorted

LEMMA GroupedPlanHolds ==
  ASSUME NEW keys \in Seq(Keys)
  PROVE  LET batches == GroupedPlan(keys)
         IN  /\ HoldsAll(batches, keys) /\ InstanceFirst(batches)
             /\ \A i \in DOMAIN batches : FitsTransaction(batches[i]) /\ OneGroup(batches[i])
<1> DEFINE sorted == Classify(keys)
           g == [key \in Keys |-> GroupOf(key)]
           labels == {GroupOf(key) : key \in Keys}
           groups == GroupedBy(g, sorted)
           batches == BatchKeyGroups(groups)
<1>1. /\ sorted \in Seq(Keys) /\ Sorted(Rank, sorted)
      /\ \A key \in Keys : Kept(sorted, {key}) = Kept(keys, {key})
  BY ClassifySorts
<1>2. g \in [Keys -> labels] /\ \A key \in Keys : g[key] = GroupOf(key)
  OBVIOUS
<1>3. GroupedPlan(keys) = batches
  BY DEF GroupedPlan, GroupKeysByContract
<1> HIDE DEF sorted, g, labels, groups, batches
<1>4. PICK names : Groups(groups, names, g, Keys, sorted)
  BY <1>1, <1>2, GroupsHold DEF groups
<1>5. groups \in Seq(Seq(Keys))
  BY <1>4 DEF Groups
<1>6. ASSUME NEW i \in DOMAIN groups
      PROVE  /\ Sorted(Rank, groups[i])
             /\ \A x \in ToSet(groups[i]) : x \in Keys /\ GroupOf(x) = names[i]
  <2> DEFINE S == {x \in Keys : g[x] = names[i]}
  <2>1. groups[i] = Kept(sorted, S)
    BY <1>4 DEF Groups
  <2>2. \A x \in S : x \in Keys /\ GroupOf(x) = names[i]
    BY <1>2
  <2> HIDE DEF S
  <2>3. Sorted(Rank, groups[i])
    BY <1>1, <2>1, KeptSorted
  <2>4. \A x : Has(groups[i], x) => x \in S
    BY <1>1, <2>1, KeptFrom DEF Has
  <2> QED BY <2>2, <2>3, <2>4, ToSetHas
<1>7. Divided(groups)
  <2>1. \A i \in DOMAIN groups : Sorted(Rank, groups[i]) /\ OneGroup(groups[i])
    BY <1>6 DEF OneGroup
  <2>2. \A i, j \in DOMAIN groups : i # j => names[i] # names[j]
    BY <1>4 DEF Groups, Distinct
  <2> QED BY <1>6, <2>1, <2>2 DEF Divided
<1>8. Planned(batches, groups)
  BY <1>5, <1>7, GroupsArePlanned DEF batches
<1>9. batches \in Seq(Seq(Keys))
  BY <1>5, BatchKeyGroupsAppend DEF batches
<1>10. ASSUME NEW key \in Keys PROVE Kept(FlattenSeq(batches), {key}) = Kept(keys, {key})
  <2>1. {key} \in SUBSET Keys /\ \A x, y \in {key} : g[x] = g[y]
    OBVIOUS
  <2>2. Kept(FlattenSeq(groups), {key}) = Kept(sorted, {key})
    BY <1>4, <2>1 DEF Groups
  <2>3. FlattenSeq(batches) = FlattenSeq(groups)
    BY <1>8 DEF Planned
  <2> QED BY <1>1, <2>2, <2>3
<1>11. HoldsAll(batches, keys)
  BY <1>9, <1>10, HoldsAllKeys
<1> QED BY <1>3, <1>8, <1>11 DEF Planned

\* The batches of a plan hold the archived keys, each as often as it was found,
\* fit a transaction and restore an instance no later than its data: the loops
\* of batchKeys, groupKeysByContract and batchKeyGroups do this to every list
\* of keys that a simulation can find.
THEOREM PlansAreWhole == Spec => []PlansHoldTheKeys
<1>1. TypeOK => PlansHoldTheKeys
  <2> SUFFICES ASSUME archived \in Seq(Keys) PROVE PlansHoldTheKeys
    BY DEF TypeOK
  <2>1. /\ HoldsAll(SequentialPlan(archived), archived)
        /\ InstanceFirst(SequentialPlan(archived))
        /\ \A i \in DOMAIN SequentialPlan(archived) :
             FitsTransaction(SequentialPlan(archived)[i])
    BY SequentialPlanHolds
  <2>2. /\ HoldsAll(GroupedPlan(archived), archived)
        /\ InstanceFirst(GroupedPlan(archived))
        /\ \A i \in DOMAIN GroupedPlan(archived) :
             FitsTransaction(GroupedPlan(archived)[i]) /\ OneGroup(GroupedPlan(archived)[i])
    BY GroupedPlanHolds
  <2> QED BY <2>1, <2>2 DEF PlansHoldTheKeys
<1> QED BY TypeCorrect, <1>1, PTL
=============================================================================
