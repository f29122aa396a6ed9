----------------------------- MODULE Rpc_proofs -----------------------------
(***************************************************************************)
(* The transport and the failover of packages/rpc: RpcTransport implements *)
(* Slots and a retry's wait ends within the deadline, for every number of  *)
(* callers, limit, bound on retries and set of delays; RpcFailover keeps its *)
(* counters consistent, serves healthy endpoints and honours the sticky    *)
(* window, for every number of endpoints, calls and rounds and every       *)
(* threshold.                                                              *)
(*                                                                         *)
(* The counter of the limiter is not enough for the refinement: the inductive *)
(* invariant also says that the queue holds exactly the queued callers, each *)
(* once, so that the slot that is handed on goes to a caller that waits and *)
(* nobody else loses its own.                                              *)
(***************************************************************************)
EXTENDS RpcTransport, RpcFailover, FiniteSetTheorems, SequenceTheorems, TLAPS

QueueHoldsQueued ==
  /\ \A c \in Callers : pc[c] = "queued" <=> \E i \in 1..Len(queue) : queue[i] = c
  /\ \A i, j \in 1..Len(queue) : queue[i] = queue[j] => i = j

CountsRunning == active = Cardinality(Running)

\* A sleeping call has an attempt left.
MayRetry == \A c \in Callers : pc[c] = "sleeping" => attempt[c] <= MaxRetries

SInv ==
  TypeOK /\ QueueHoldsQueued /\ CountsRunning /\ MayRetry /\ SleepsWithinBudget

LEMMA RunningFinite == IsFiniteSet(Running)
  BY TransportAssumption, FS_Subset DEF Running

LEMMA InitInv == Init => SInv
<1> SUFFICES ASSUME Init PROVE SInv
  OBVIOUS
<1>1. TypeOK
  BY TransportAssumption DEF Init, TypeOK
<1>2. QueueHoldsQueued
  BY DEF Init, QueueHoldsQueued
<1>3. Running = {}
  BY DEF Init, Running
<1>4. CountsRunning
  BY <1>3, FS_EmptySet DEF Init, CountsRunning
<1>5. SleepsWithinBudget
  BY DEF Init, SleepsWithinBudget
<1>6. MayRetry
  BY DEF Init, MayRetry
<1>7. QED
  BY <1>1, <1>2, <1>4, <1>5, <1>6 DEF SInv

\* Slots counts with a Cardinality of its own.
LEMMA SameCount == \A S : Limiter!Cardinality(S) = Cardinality(S)
  BY DEF Limiter!Cardinality, Cardinality

-----------------------------------------------------------------------------
(* What the limiter does to the invariant, and that it is Slots' doing.    *)

\* A caller that is neither queued nor running acquires.
LEMMA AcquireSlot ==
  ASSUME TypeOK, QueueHoldsQueued, CountsRunning,
         NEW c \in Callers, pc[c] \in {"idle", "sleeping"}, Acquire(c)
  PROVE  /\ pc' \in [Callers -> {"idle", "queued", "running", "sleeping"}]
         /\ queue' \in Seq(Callers) /\ active' \in Nat
         /\ QueueHoldsQueued' /\ CountsRunning'
         /\ Limiter!Enter(c)
         /\ \A d \in Callers : pc'[d] = "sleeping" => pc[d] = "sleeping" /\ d # c
<1>1. c \notin Running /\ \A i \in 1..Len(queue) : queue[i] # c
  BY DEF TypeOK, QueueHoldsQueued, Running
<1>2. active = Cardinality(Running)
  BY DEF CountsRunning
<1>3. CASE active < Limit
  <2>1. pc' = [pc EXCEPT ![c] = "running"] /\ active' = active + 1 /\ queue' = queue
    BY <1>3 DEF Acquire
  <2>2. Running' = Running \cup {c}
    BY <2>1 DEF Running, TypeOK
  <2>3. Cardinality(Running') = Cardinality(Running) + 1
    BY <1>1, <2>2, RunningFinite, FS_AddElement
  <2>4. QueueHoldsQueued'
    BY <2>1 DEF QueueHoldsQueued, TypeOK
  <2>5. CountsRunning'
    BY <1>2, <2>1, <2>3 DEF CountsRunning
  <2>6. Limiter!Enter(c)
    BY <1>1, <1>2, <1>3, <2>1, <2>2, SameCount DEF Limiter!Enter
  <2>7. QED
    BY <2>1, <2>4, <2>5, <2>6 DEF TypeOK
<1>4. CASE ~(active < Limit)
  <2>1. pc' = [pc EXCEPT ![c] = "queued"] /\ queue' = Append(queue, c) /\ active' = active
    BY <1>4 DEF Acquire, Joined
  <2>2. Running' = Running
    BY <1>1, <2>1 DEF Running, TypeOK
  <2>3. /\ Len(queue') = Len(queue) + 1 /\ queue' \in Seq(Callers)
        /\ \A i \in 1..Len(queue) : queue'[i] = queue[i]
        /\ queue'[Len(queue) + 1] = c
    BY <2>1 DEF TypeOK
  <2>4. QueueHoldsQueued'
    <3> Len(queue) \in Nat
      BY DEF TypeOK
    <3>1. ASSUME NEW d \in Callers
          PROVE  pc'[d] = "queued" <=> \E i \in 1..Len(queue') : queue'[i] = d
      <4>1. CASE d = c
        <5>1. Len(queue) + 1 \in 1..Len(queue')
          BY <2>3
        <5>2. QED
          BY <2>1, <2>3, <4>1, <5>1 DEF TypeOK
      <4>2. CASE d # c
        <5>1. pc'[d] = pc[d]
          BY <2>1, <4>2 DEF TypeOK
        <5>2. (\E i \in 1..Len(queue') : queue'[i] = d)
                <=> (\E i \in 1..Len(queue) : queue[i] = d)
          BY <2>3, <4>2
        <5>3. QED
          BY <5>1, <5>2 DEF QueueHoldsQueued
      <4>3. QED
        BY <4>1, <4>2
    <3>2. ASSUME NEW i \in 1..Len(queue'), NEW j \in 1..Len(queue'),
                 queue'[i] = queue'[j]
          PROVE  i = j
      BY <1>1, <2>3, <3>2 DEF QueueHoldsQueued
    <3>3. QED
      BY <3>1, <3>2 DEF QueueHoldsQueued
  <2>5. CountsRunning'
    BY <1>2, <2>1, <2>2 DEF CountsRunning
  <2>6. Limiter!Enter(c)
    BY <1>1, <1>2, <1>4, <2>1, <2>2, SameCount DEF Limiter!Enter
  <2>7. QED
    BY <2>1, <2>3, <2>4, <2>5, <2>6 DEF TypeOK
<1>5. QED
  BY <1>3, <1>4

\* A running caller's task ends and the caller goes on to there.
LEMMA ReleaseSlot ==
  ASSUME TypeOK, QueueHoldsQueued, CountsRunning,
         NEW c \in Callers, pc[c] = "running",
         NEW there \in {"idle", "sleeping"}, Release(c, there)
  PROVE  /\ pc' \in [Callers -> {"idle", "queued", "running", "sleeping"}]
         /\ queue' \in Seq(Callers) /\ active' \in Nat
         /\ QueueHoldsQueued' /\ CountsRunning'
         /\ Limiter!Finish(c)
         /\ pc'[c] = there
         /\ \A d \in Callers \ {c} : pc'[d] = "sleeping" => pc[d] = "sleeping"
<1>1. c \in Running /\ active = Cardinality(Running)
  BY DEF CountsRunning, Running
<1>2. CASE queue = <<>>
  <2>1. pc' = [pc EXCEPT ![c] = there] /\ active' = active - 1 /\ queue' = queue
    BY <1>2 DEF Release, ActiveAfterRelease
  <2>2. Running' = Running \ {c}
    BY <2>1 DEF Running, TypeOK
  <2>3. Cardinality(Running') = Cardinality(Running) - 1 /\ Cardinality(Running') \in Nat
    BY <1>1, <2>2, RunningFinite, FS_RemoveElement, FS_CardinalityType, FS_Subset
  <2>4. QueueHoldsQueued'
    BY <2>1 DEF QueueHoldsQueued, TypeOK
  <2>5. CountsRunning' /\ active' \in Nat
    BY <1>1, <2>1, <2>3 DEF CountsRunning
  <2>6. Limiter!Finish(c)
    BY <1>1, <1>2, <2>1, <2>2 DEF Limiter!Finish
  <2>7. QED
    BY <2>1, <2>4, <2>5, <2>6 DEF TypeOK
<1>3. CASE queue # <<>>
  <2> DEFINE h == Head(queue)
  <2>1. /\ pc' = [pc EXCEPT ![c] = there, ![h] = "running"]
        /\ queue' = Tail(queue) /\ active' = active
    BY <1>3 DEF Release, ActiveAfterRelease
  <2>2. /\ Len(queue) \in Nat \ {0} /\ h \in Callers /\ h = queue[1]
        /\ Len(queue') = Len(queue) - 1 /\ queue' \in Seq(Callers)
        /\ \A i \in 1..Len(queue') : queue'[i] = queue[i + 1]
    BY <1>3, <2>1, EmptySeq, HeadTailProperties DEF TypeOK
  <2>3. pc[h] = "queued" /\ h # c /\ h \notin Running
    <3>1. 1 \in 1..Len(queue)
      BY <2>2
    <3>2. pc[h] = "queued"
      BY <2>2, <3>1 DEF QueueHoldsQueued
    <3>3. QED
      BY <3>2 DEF Running
  <2> HIDE DEF h
  <2>4. Running' = (Running \ {c}) \cup {h}
    BY <2>1, <2>2, <2>3 DEF Running, TypeOK
  <2>5. Cardinality(Running') = Cardinality(Running)
    <3>1. IsFiniteSet(Running \ {c}) /\ Cardinality(Running \ {c}) = Cardinality(Running) - 1
      BY <1>1, RunningFinite, FS_RemoveElement
    <3>2. Cardinality((Running \ {c}) \cup {h}) = Cardinality(Running \ {c}) + 1
      BY <2>3, <3>1, FS_AddElement
    <3>3. Cardinality(Running) \in Nat
      BY RunningFinite, FS_CardinalityType
    <3>4. QED
      BY <2>4, <3>1, <3>2, <3>3
  <2>6. QueueHoldsQueued'
    <3>1. ASSUME NEW d \in Callers
          PROVE  pc'[d] = "queued" <=> \E i \in 1..Len(queue') : queue'[i] = d
      <4>1. CASE d = h
        <5>1. pc'[d] # "queued"
          BY <2>1, <2>2, <4>1 DEF TypeOK
        <5>2. ASSUME NEW i \in 1..Len(queue'), queue'[i] = d PROVE FALSE
          BY <2>2, <4>1, <5>2 DEF QueueHoldsQueued
        <5>3. QED
          BY <5>1, <5>2
      <4>2. CASE d # h
        <5>1. pc'[d] = "queued" <=> pc[d] = "queued"
          BY <2>1, <4>2 DEF TypeOK
        <5>2. ASSUME NEW i \in 1..Len(queue), queue[i] = d
              PROVE  \E k \in 1..Len(queue') : queue'[k] = d
          <6>1. i # 1 /\ i - 1 \in 1..Len(queue') /\ queue'[i - 1] = queue[i]
            BY <2>2, <4>2, <5>2
          <6>2. QED
            BY <5>2, <6>1
        <5>3. ASSUME NEW i \in 1..Len(queue'), queue'[i] = d
              PROVE  \E k \in 1..Len(queue) : queue[k] = d
          <6>1. i + 1 \in 1..Len(queue) /\ queue[i + 1] = d
            BY <2>2, <5>3
          <6>2. QED
            BY <6>1
        <5>4. QED
          BY <5>1, <5>2, <5>3 DEF QueueHoldsQueued
      <4>3. QED
        BY <4>1, <4>2
    <3>2. ASSUME NEW i \in 1..Len(queue'), NEW j \in 1..Len(queue'),
                 queue'[i] = queue'[j]
          PROVE  i = j
      <4>1. i + 1 \in 1..Len(queue) /\ j + 1 \in 1..Len(queue)
            /\ queue[i + 1] = queue[j + 1]
        BY <2>2, <3>2
      <4>2. i + 1 = j + 1
        BY <4>1 DEF QueueHoldsQueued
      <4>3. QED
        BY <4>2
    <3>3. QED
      BY <3>1, <3>2 DEF QueueHoldsQueued
  <2>7. CountsRunning' /\ active' \in Nat
    BY <1>1, <2>1, <2>5 DEF CountsRunning, TypeOK
  <2>8. Limiter!Finish(c)
    BY <1>1, <1>3, <2>1, <2>4 DEF Limiter!Finish, h
  <2>9. pc'[c] = there /\ \A d \in Callers \ {c} : pc'[d] = "sleeping" => pc[d] = "sleeping"
    BY <2>1, <2>3 DEF TypeOK
  <2>10. pc' \in [Callers -> {"idle", "queued", "running", "sleeping"}]
    BY <2>1, <2>2 DEF TypeOK
  <2>11. QED
    BY <2>2, <2>6, <2>7, <2>8, <2>9, <2>10
<1>4. QED
  BY <1>2, <1>3

-----------------------------------------------------------------------------
(* The steps.                                                              *)

LEMMA StepInv == SInv /\ [Next]_vars => SInv' /\ [Limiter!Next]_<<Running, queue>>
<1> SUFFICES ASSUME SInv, [Next]_vars
             PROVE  SInv' /\ [Limiter!Next]_<<Running, queue>>
  OBVIOUS
<1> USE DEF SInv
<1> Deadline \in Nat /\ MaxRetries \in Nat /\ Delays \subseteq Nat
  BY TransportAssumption
<1>1. ASSUME NEW c \in Callers, Call(c)
      PROVE  SInv' /\ Limiter!Enter(c)
  <2>1. pc[c] \in {"idle", "sleeping"} /\ Acquire(c)
    BY <1>1 DEF Call
  <2>2. /\ pc' \in [Callers -> {"idle", "queued", "running", "sleeping"}]
        /\ queue' \in Seq(Callers) /\ active' \in Nat
        /\ QueueHoldsQueued' /\ CountsRunning' /\ Limiter!Enter(c)
        /\ \A d \in Callers : pc'[d] = "sleeping" => pc[d] = "sleeping" /\ d # c
    BY <2>1, AcquireSlot
  <2>3. /\ attempt' = [attempt EXCEPT ![c] = 1] /\ wait' = wait
        /\ left' = [left EXCEPT ![c] = Deadline]
    BY <1>1 DEF Call
  <2>4. PICK b \in BOOLEAN : timed' = [timed EXCEPT ![c] = b]
    BY <1>1 DEF Call
  <2>5. attempt' \in [Callers -> 1..MaxRetries + 1] /\ left' \in [Callers -> -1..Deadline]
    BY <2>3 DEF TypeOK
  <2>6. timed' \in [Callers -> BOOLEAN]
    BY <2>4 DEF TypeOK
  <2>7. TypeOK'
    BY <2>2, <2>3, <2>5, <2>6 DEF TypeOK
  <2>8. MayRetry' /\ SleepsWithinBudget'
    BY <2>2, <2>3, <2>4 DEF TypeOK, MayRetry, SleepsWithinBudget
  <2>9. QED
    BY <2>2, <2>7, <2>8
<1>2. ASSUME NEW c \in Callers, Settle(c)
      PROVE  SInv' /\ Limiter!Finish(c)
  <2>1. pc[c] = "running" /\ Release(c, "idle") /\ UNCHANGED callVars
    BY <1>2 DEF Settle
  <2>2. /\ pc' \in [Callers -> {"idle", "queued", "running", "sleeping"}]
        /\ queue' \in Seq(Callers) /\ active' \in Nat
        /\ QueueHoldsQueued' /\ CountsRunning' /\ Limiter!Finish(c)
        /\ pc'[c] = "idle"
        /\ \A d \in Callers \ {c} : pc'[d] = "sleeping" => pc[d] = "sleeping"
    BY <2>1, ReleaseSlot
  <2>3. TypeOK'
    BY <2>1, <2>2 DEF callVars, TypeOK
  <2>4. MayRetry' /\ SleepsWithinBudget'
    BY <2>1, <2>2 DEF callVars, MayRetry, SleepsWithinBudget
  <2>5. QED
    BY <2>2, <2>3, <2>4
<1>3. ASSUME NEW c \in Callers, Fail(c)
      PROVE  SInv' /\ Limiter!Finish(c)
  <2>1. /\ pc[c] = "running" /\ UNCHANGED <<attempt, timed, left>>
    BY <1>3 DEF Fail
  <2>2. PICK d \in Delays :
          \/ GivesUp(c, d) /\ Release(c, "idle") /\ UNCHANGED wait
          \/ ~GivesUp(c, d) /\ Release(c, "sleeping") /\ wait' = [wait EXCEPT ![c] = d]
    BY <1>3 DEF Fail
  <2>3. PICK there \in {"idle", "sleeping"} : Release(c, there)
    BY <2>2
  <2>4. /\ pc' \in [Callers -> {"idle", "queued", "running", "sleeping"}]
        /\ queue' \in Seq(Callers) /\ active' \in Nat
        /\ QueueHoldsQueued' /\ CountsRunning' /\ Limiter!Finish(c)
        /\ \A e \in Callers \ {c} : pc'[e] = "sleeping" => pc[e] = "sleeping"
    BY <2>1, <2>3, ReleaseSlot
  <2>5. TypeOK'
    BY <2>1, <2>2, <2>4 DEF TypeOK
  <2>6. SleepsWithinBudget'
    <3>1. CASE GivesUp(c, d) /\ Release(c, "idle") /\ UNCHANGED wait
      <4>1. pc'[c] = "idle"
        BY <2>1, <3>1, ReleaseSlot
      <4>2. QED
        BY <2>1, <2>4, <3>1, <4>1 DEF SleepsWithinBudget
    <3>2. CASE ~GivesUp(c, d) /\ wait' = [wait EXCEPT ![c] = d]
      <4>1. timed'[c] => wait'[c] <= left'[c]
        BY <2>1, <3>2 DEF GivesUp, TypeOK
      <4>2. \A e \in Callers \ {c} : wait'[e] = wait[e]
        BY <3>2 DEF TypeOK
      <4>3. QED
        BY <2>1, <2>4, <4>1, <4>2 DEF SleepsWithinBudget
    <3>3. QED
      BY <2>2, <3>1, <3>2
  <2>7. MayRetry'
    <3>1. CASE GivesUp(c, d) /\ Release(c, "idle")
      <4>1. pc'[c] = "idle"
        BY <2>1, <3>1, ReleaseSlot
      <4>2. QED
        BY <2>1, <2>4, <4>1 DEF MayRetry
    <3>2. CASE ~GivesUp(c, d)
      BY <2>1, <2>4, <3>2 DEF GivesUp, MayRetry, TypeOK
    <3>3. QED
      BY <2>2, <3>1, <3>2
  <2>8. QED
    BY <2>4, <2>5, <2>6, <2>7
<1>4. ASSUME NEW c \in Callers, Wake(c)
      PROVE  SInv' /\ Limiter!Enter(c)
  <2>1. pc[c] \in {"idle", "sleeping"} /\ Acquire(c) /\ UNCHANGED <<timed, left, wait>>
    BY <1>4 DEF Wake
  <2>2. /\ pc' \in [Callers -> {"idle", "queued", "running", "sleeping"}]
        /\ queue' \in Seq(Callers) /\ active' \in Nat
        /\ QueueHoldsQueued' /\ CountsRunning' /\ Limiter!Enter(c)
        /\ \A d \in Callers : pc'[d] = "sleeping" => pc[d] = "sleeping" /\ d # c
    BY <2>1, AcquireSlot
  <2>3. attempt' = [attempt EXCEPT ![c] = attempt[c] + 1] /\ attempt[c] <= MaxRetries
    BY <1>4 DEF Wake, NextAttempt, MayRetry
  <2>4. TypeOK'
    BY <2>1, <2>2, <2>3 DEF TypeOK
  <2>5. MayRetry' /\ SleepsWithinBudget'
    BY <2>1, <2>2, <2>3 DEF TypeOK, MayRetry, SleepsWithinBudget
  <2>6. QED
    BY <2>2, <2>4, <2>5
<1>5. CASE Tick
  <2>1. UNCHANGED <<pc, queue, active, attempt, timed>>
    BY <1>5 DEF Tick, limiterVars
  <2>2. left' \in [Callers -> -1..Deadline] /\ wait' \in [Callers -> Nat]
    BY <1>5 DEF Tick, TypeOK
  <2>3. TypeOK'
    BY <2>1, <2>2 DEF TypeOK
  <2>4. UNCHANGED Running
    BY <2>1 DEF Running
  <2>5. QueueHoldsQueued' /\ CountsRunning'
    BY <2>1, <2>4 DEF QueueHoldsQueued, CountsRunning
  <2>6. MayRetry' /\ SleepsWithinBudget'
    <3>1. ASSUME NEW c \in Callers, pc[c] = "sleeping", timed[c], wait'[c] > 0
          PROVE  wait'[c] <= left'[c]
      <4>1. wait[c] \in Nat /\ left[c] \in Int
        BY DEF TypeOK
      <4>2. wait'[c] = IF wait[c] = 0 THEN 0 ELSE wait[c] - 1
        BY <1>5 DEF Tick
      <4>3. wait[c] > 0 /\ wait'[c] = wait[c] - 1
        BY <3>1, <4>1, <4>2
      <4>4. wait[c] <= left[c]
        BY <3>1, <4>3 DEF SleepsWithinBudget
      <4>5. left'[c] = left[c] - 1
        BY <1>5, <3>1, <4>1, <4>3, <4>4 DEF Tick
      <4>6. QED
        BY <4>1, <4>3, <4>4, <4>5
    <3>2. SleepsWithinBudget'
      BY <2>1, <3>1 DEF SleepsWithinBudget
    <3>3. MayRetry'
      BY <2>1 DEF MayRetry
    <3>4. QED
      BY <3>2, <3>3
  <2>7. QED
    BY <2>1, <2>3, <2>4, <2>5, <2>6
<1>6. CASE UNCHANGED vars
  <2>1. UNCHANGED <<pc, queue, active, attempt, timed, left, wait>>
    BY <1>6 DEF vars, limiterVars, callVars
  <2>2. UNCHANGED Running
    BY <2>1 DEF Running
  <2>3. QED
    BY <2>1, <2>2 DEF TypeOK, QueueHoldsQueued, CountsRunning, MayRetry, SleepsWithinBudget
<1>7. QED
  BY <1>1, <1>2, <1>3, <1>4, <1>5, <1>6 DEF Next, Limiter!Next

-----------------------------------------------------------------------------
(* TypeOK, the queue and the counter at all times: the inductive invariant *)
(* of the limiter and of withRetry.                                        *)
THEOREM Invariance == Spec => []SInv
<1>1. QED
  BY InitInv, StepInv, PTL DEF Spec

(* A retry waits within its call's deadline, whatever the earlier attempts *)
(* and the queue have used of it.                                          *)
THEOREM WithinBudget == Spec => []SleepsWithinBudget
<1>1. SInv => SleepsWithinBudget
  BY DEF SInv
<1>2. QED
  BY Invariance, <1>1, PTL

(* The limiter under the transport implements Slots: first come, first     *)
(* served, and a slot for every request that runs and for no other.        *)
THEOREM Refinement == Spec => ImplementsSlots
<1>1. Init => Limiter!Init
  <2>1. Init => Running = {}
    BY DEF Init, Running
  <2>2. QED
    BY <2>1 DEF Init, Limiter!Init
<1>2. SInv /\ [Next]_vars => [Limiter!Next]_<<Running, queue>>
  BY StepInv
<1>3. QED
  BY <1>1, <1>2, Invariance, PTL DEF Spec, ImplementsSlots, Limiter!Spec

\* No more requests are in flight than the limit allows.
AtMostLimit == Cardinality(Running) <= Limit

(* The transport never has more than maxInFlight requests in flight, and   *)
(* none waits beside a free slot.                                          *)
THEOREM InFlightBounded ==
  Spec => [](AtMostLimit /\ (queue # <<>> => Cardinality(Running) = Limit))
<1> DEFINE Full == AtMostLimit /\ (queue # <<>> => Cardinality(Running) = Limit)
<1>1. Init => Full
  <2> SUFFICES ASSUME Init PROVE Full
    OBVIOUS
  <2>1. Running = {} /\ queue = <<>>
    BY DEF Init, Running
  <2>2. QED
    BY <2>1, FS_EmptySet, TransportAssumption DEF AtMostLimit
<1>2. SInv /\ SInv' /\ Full /\ [Next]_vars => Full'
  <2> SUFFICES ASSUME SInv, SInv', Full, [Next]_vars PROVE Full'
    OBVIOUS
  <2>1. /\ active = Cardinality(Running) /\ active' = Cardinality(Running')
        /\ active \in Nat /\ Limit \in Nat
    BY TransportAssumption DEF SInv, CountsRunning, TypeOK
  <2>2. ASSUME NEW c \in Callers, Acquire(c) PROVE Full'
    BY <2>1, <2>2 DEF Acquire, AtMostLimit
  <2>3. ASSUME NEW c \in Callers, NEW there \in {"idle", "sleeping"}, Release(c, there)
        PROVE  Full'
    <3>1. CASE queue = <<>>
      BY <2>1, <2>3, <3>1 DEF Release, ActiveAfterRelease, AtMostLimit
    <3>2. CASE queue # <<>>
      BY <2>1, <2>3, <3>2 DEF Release, ActiveAfterRelease, AtMostLimit
    <3>3. QED
      BY <3>1, <3>2
  <2>4. CASE UNCHANGED <<queue, active>>
    BY <2>1, <2>4 DEF AtMostLimit
  <2>5. QED
    BY <2>2, <2>3, <2>4
       DEF Next, Call, Settle, Fail, Wake, Tick, vars, limiterVars
<1>3. QED
  BY <1>1, <1>2, Invariance, PTL DEF Spec

-----------------------------------------------------------------------------
(* The failover.                                                           *)

LEMMA IncrementType ==
  \A n \in 0..CountCap : Increment(n) \in 0..CountCap /\ Increment(n) # -1
  BY FailoverAssumption DEF Increment

LEMMA TypeInit == FailoverInit => FailoverTypeOK
<1>1. 0 \in Endpoints /\ 0 \in 0..CountCap
  BY FailoverAssumption DEF Endpoints
<1>2. QED
  BY <1>1 DEF FailoverInit, FailoverTypeOK

\* What a report does to the types.
LEMMA RecordType ==
  ASSUME FailoverTypeOK, NEW e \in Endpoints, NEW ok \in BOOLEAN, Record(e, ok)
  PROVE  /\ isHealthy' \in [Endpoints -> BOOLEAN]
         /\ consecutiveFailures' \in [Endpoints -> 0..CountCap]
         /\ consecutiveSuccesses' \in [Endpoints -> 0..CountCap]
         /\ current' \in Endpoints
<1>1. 0 \in 0..CountCap
  BY FailoverAssumption
<1>2. /\ Increment(consecutiveFailures[e]) \in 0..CountCap
      /\ Increment(consecutiveSuccesses[e]) \in 0..CountCap
  BY IncrementType DEF FailoverTypeOK
<1>3. CASE ok
  BY <1>1, <1>2, <1>3 DEF FailoverTypeOK, Record, RecordSuccess, Restored
<1>4. CASE ~ok
  BY <1>1, <1>2, <1>4 DEF FailoverTypeOK, Record, RecordFailure, GivenUp
<1>5. QED
  BY <1>3, <1>4

LEMMA TypeNext == FailoverTypeOK /\ [FailoverNext]_failoverVars => FailoverTypeOK'
<1> SUFFICES ASSUME FailoverTypeOK, [FailoverNext]_failoverVars PROVE FailoverTypeOK'
  OBVIOUS
<1>1. ASSUME NEW c \in Calls, GetCurrentUrl(c)
      PROVE  FailoverTypeOK'
  <2>1. CASE StickyHolds
    BY <1>1, <2>1 DEF GetCurrentUrl, FailoverTypeOK, StickyHolds
  <2>2. CASE ~StickyHolds
    <3>1. current' \in Endpoints
      BY <1>1, <2>2 DEF GetCurrentUrl, FailoverTypeOK
    <3>2. QED
      BY <1>1, <2>2, <3>1 DEF GetCurrentUrl, FailoverTypeOK
  <2>3. QED
    BY <2>1, <2>2
<1>2. ASSUME NEW c \in Calls, Answer(c)
      PROVE  FailoverTypeOK'
  BY <1>2 DEF Answer, healthVars, FailoverTypeOK
<1>3. ASSUME NEW c \in Calls, Report(c)
      PROVE  FailoverTypeOK'
  BY <1>3, RecordType DEF Report, FailoverTypeOK
<1>4. ASSUME NEW r \in Rounds, HealthTick(r)
      PROVE  FailoverTypeOK'
  BY <1>4, FailoverAssumption DEF HealthTick, healthVars, FailoverTypeOK, Endpoints
<1>5. ASSUME NEW r \in Rounds, CheckEndpoint(r)
      PROVE  FailoverTypeOK'
  <2>1. check[r] \in Endpoints
    BY <1>5 DEF CheckEndpoint, FailoverTypeOK
  <2>2. (IF check[r] + 1 < N THEN check[r] + 1 ELSE Nobody) \in Endpoints \cup {Nobody}
    BY <2>1, FailoverAssumption DEF Endpoints
  <2>3. check' \in [Rounds -> Endpoints \cup {Nobody}]
    BY <1>5, <2>2 DEF CheckEndpoint, FailoverTypeOK
  <2>4. (check[r] \in up) \in BOOLEAN /\ Record(check[r], check[r] \in up)
    BY <1>5 DEF CheckEndpoint
  <2>5. /\ isHealthy' \in [Endpoints -> BOOLEAN]
        /\ consecutiveFailures' \in [Endpoints -> 0..CountCap]
        /\ consecutiveSuccesses' \in [Endpoints -> 0..CountCap]
        /\ current' \in Endpoints
    BY <2>1, <2>4, RecordType
  <2>6. QED
    BY <1>5, <2>3, <2>5 DEF CheckEndpoint, FailoverTypeOK
<1>6. ASSUME NEW e \in Endpoints, Outage(e)
      PROVE  FailoverTypeOK'
  BY <1>6 DEF Outage, healthVars, FailoverTypeOK
<1>7. CASE StickyExpires
  BY <1>7 DEF StickyExpires, healthVars, FailoverTypeOK
<1>8. CASE StartStop
  BY <1>8 DEF StartStop, healthVars, FailoverTypeOK
<1>9. CASE UNCHANGED failoverVars
  BY <1>9 DEF failoverVars, healthVars, FailoverTypeOK
<1>10. QED
  BY <1>1, <1>2, <1>3, <1>4, <1>5, <1>6, <1>7, <1>8, <1>9 DEF FailoverNext

\* Type correctness of RpcFailover.
THEOREM TypeCorrect == FailoverSpec => []FailoverTypeOK
  BY TypeInit, TypeNext, PTL DEF FailoverSpec

-----------------------------------------------------------------------------
LEMMA RecordCounters ==
  ASSUME FailoverTypeOK, CountersMatchHealth, NEW e \in Endpoints, NEW ok \in BOOLEAN,
         Record(e, ok)
  PROVE  CountersMatchHealth'
<1> SUFFICES ASSUME NEW f \in Endpoints
             PROVE  /\ isHealthy'[f] => consecutiveFailures'[f] < MaxFailures
                    /\ ~isHealthy'[f] => consecutiveSuccesses'[f] < SuccessThreshold
                    /\ consecutiveFailures'[f] = 0 \/ consecutiveSuccesses'[f] = 0
  BY DEF CountersMatchHealth
<1>1. /\ Increment(consecutiveFailures[e]) \in Nat
      /\ Increment(consecutiveSuccesses[e]) \in Nat
  BY IncrementType DEF FailoverTypeOK
<1>2. CASE f # e
  <2>1. /\ isHealthy'[f] = isHealthy[f]
        /\ consecutiveFailures'[f] = consecutiveFailures[f]
        /\ consecutiveSuccesses'[f] = consecutiveSuccesses[f]
    BY <1>2 DEF FailoverTypeOK, Record, RecordSuccess, RecordFailure
  <2>2. QED
    BY <2>1 DEF CountersMatchHealth
<1>3. CASE f = e /\ ok
  <2>1. /\ consecutiveFailures'[e] = 0
        /\ consecutiveSuccesses'[e] =
             IF Restored(e) THEN 0 ELSE Increment(consecutiveSuccesses[e])
        /\ isHealthy'[e] = (isHealthy[e] \/ Restored(e))
    BY <1>3 DEF FailoverTypeOK, Record, RecordSuccess
  <2>2. CASE Restored(e)
    BY <2>1, <2>2, <1>3, FailoverAssumption
  <2>3. CASE ~Restored(e)
    <3>1. ~isHealthy[e] => Increment(consecutiveSuccesses[e]) < SuccessThreshold
      BY <2>3, <1>1, FailoverAssumption DEF Restored
    <3>2. isHealthy'[e] = isHealthy[e] /\ isHealthy[e] \in BOOLEAN
      BY <2>1, <2>3 DEF FailoverTypeOK
    <3>3. consecutiveSuccesses'[e] = Increment(consecutiveSuccesses[e])
      BY <2>1, <2>3
    <3>4. QED
      BY <2>1, <3>1, <3>2, <3>3, <1>3, FailoverAssumption
  <2>4. QED
    BY <2>2, <2>3
<1>4. CASE f = e /\ ~ok
  <2>1. /\ consecutiveSuccesses'[e] = 0
        /\ consecutiveFailures'[e] =
             IF GivenUp(e) THEN 0 ELSE Increment(consecutiveFailures[e])
        /\ isHealthy'[e] = (isHealthy[e] /\ ~GivenUp(e))
    BY <1>4 DEF FailoverTypeOK, Record, RecordFailure
  <2>2. CASE GivenUp(e)
    BY <2>1, <2>2, <1>4, FailoverAssumption
  <2>3. CASE ~GivenUp(e)
    BY <2>1, <2>3, <1>1, <1>4, FailoverAssumption DEF GivenUp
  <2>4. QED
    BY <2>2, <2>3
<1>5. QED
  BY <1>2, <1>3, <1>4

\* The counters agree with the health of every endpoint, whoever reports and
\* in whatever order.
THEOREM Counters == FailoverSpec => []CountersMatchHealth
<1>1. FailoverInit => CountersMatchHealth
  BY FailoverAssumption DEF FailoverInit, CountersMatchHealth
<1>2. FailoverTypeOK /\ CountersMatchHealth /\ [FailoverNext]_failoverVars => CountersMatchHealth'
  <2> SUFFICES ASSUME FailoverTypeOK, CountersMatchHealth, [FailoverNext]_failoverVars
               PROVE  CountersMatchHealth'
    OBVIOUS
  <2>1. ASSUME NEW c \in Calls, Report(c)
        PROVE  CountersMatchHealth'
    BY <2>1, RecordCounters DEF Report, FailoverTypeOK
  <2>2. ASSUME NEW r \in Rounds, CheckEndpoint(r)
        PROVE  CountersMatchHealth'
    <3>1. check[r] \in Endpoints
      BY <2>2 DEF CheckEndpoint, FailoverTypeOK
    <3>2. (check[r] \in up) \in BOOLEAN /\ Record(check[r], check[r] \in up)
      BY <2>2 DEF CheckEndpoint
    <3>3. QED
      BY <3>1, <3>2, RecordCounters
  <2>3. CASE UNCHANGED <<isHealthy, consecutiveFailures, consecutiveSuccesses>>
    BY <2>3 DEF CountersMatchHealth
  <2>4. QED
    BY <2>1, <2>2, <2>3 DEF FailoverNext, failoverVars, healthVars, GetCurrentUrl, Answer,
       HealthTick, Outage, StickyExpires, StartStop
<1>3. QED
  BY <1>1, <1>2, TypeCorrect, PTL DEF FailoverSpec

-----------------------------------------------------------------------------
\* Only getCurrentUrl sends a call.
LEMMA OnlyGetSends ==
  ASSUME FailoverTypeOK, [FailoverNext]_failoverVars, NEW c \in Calls, stage[c] = "idle", stage'[c] = "sent"
  PROVE  GetCurrentUrl(c)
<1>1. ASSUME NEW d \in Calls, GetCurrentUrl(d)
      PROVE  GetCurrentUrl(c)
  <2>1. stage' = [stage EXCEPT ![d] = "sent"]
    BY <1>1 DEF GetCurrentUrl
  <2>2. c = d
    BY <2>1 DEF FailoverTypeOK
  <2>3. QED
    BY <1>1, <2>2
<1>2. ASSUME NEW d \in Calls, Answer(d)
      PROVE  FALSE
  <2>1. stage[d] = "sent" /\ stage' = [stage EXCEPT ![d] = IF url[d] \in up THEN "ok" ELSE "failed"]
    BY <1>2 DEF Answer
  <2>2. QED
    BY <2>1 DEF FailoverTypeOK
<1>3. ASSUME NEW d \in Calls, Report(d)
      PROVE  FALSE
  <2>1. stage' = [stage EXCEPT ![d] = "idle"]
    BY <1>3 DEF Report
  <2>2. QED
    BY <2>1 DEF FailoverTypeOK
<1>4. stage' # stage
  OBVIOUS
<1>5. QED
  BY <1>1, <1>2, <1>3, <1>4 DEF FailoverNext, failoverVars, HealthTick, CheckEndpoint, Outage,
     StickyExpires, StartStop

\* getCurrentUrl returns a healthy endpoint whenever there is one.
THEOREM HealthyServed == FailoverSpec => ServesHealthy
<1>1. ASSUME FailoverTypeOK, [FailoverNext]_failoverVars, NEW c \in Calls, stage[c] = "idle", stage'[c] = "sent"
      PROVE  isHealthy[url'[c]] \/ \A e \in Endpoints : ~isHealthy[e]
  <2>1. GetCurrentUrl(c)
    BY <1>1, OnlyGetSends
  <2>2. CASE StickyHolds
    BY <2>1, <2>2, <1>1 DEF GetCurrentUrl, StickyHolds, FailoverTypeOK
  <2>3. CASE ~StickyHolds
    <3>1. url'[c] = current'
      BY <2>1, <2>3, <1>1 DEF GetCurrentUrl, FailoverTypeOK
    <3>2. isHealthy[current'] \/ \A e \in Endpoints : ~isHealthy[e]
      BY <2>1, <2>3, <1>1 DEF GetCurrentUrl, PicksNext, FailoverTypeOK
    <3>3. QED
      BY <3>1, <3>2
  <2>4. QED
    BY <2>2, <2>3
<1>2. FailoverTypeOK /\ [FailoverNext]_failoverVars =>
        [\A c \in Calls : stage[c] = "idle" /\ stage'[c] = "sent" =>
           isHealthy[url'[c]] \/ \A e \in Endpoints : ~isHealthy[e]]_failoverVars
  BY <1>1
<1>3. QED
  BY <1>2, TypeCorrect, PTL DEF FailoverSpec, ServesHealthy

\* Within the sticky window a healthy endpoint keeps the calls.
THEOREM Stickiness == FailoverSpec => StaysSticky
<1>1. ASSUME FailoverTypeOK, [FailoverNext]_failoverVars, NEW c \in Calls,
             Sticky, sticky # Nobody, ~expired, isHealthy[sticky],
             stage[c] = "idle", stage'[c] = "sent"
      PROVE  url'[c] = sticky
  <2>1. GetCurrentUrl(c)
    BY <1>1, OnlyGetSends
  <2>2. StickyHolds
    BY <1>1 DEF StickyHolds
  <2>3. QED
    BY <2>1, <2>2, <1>1 DEF GetCurrentUrl, FailoverTypeOK
<1>2. FailoverTypeOK /\ [FailoverNext]_failoverVars =>
        [\A c \in Calls :
           Sticky /\ sticky # Nobody /\ ~expired /\ isHealthy[sticky]
             /\ stage[c] = "idle" /\ stage'[c] = "sent" => url'[c] = sticky]_failoverVars
  BY <1>1
<1>3. QED
  BY <1>2, TypeCorrect, PTL DEF FailoverSpec, StaysSticky
=============================================================================
