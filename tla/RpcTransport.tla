---------------------------- MODULE RpcTransport ----------------------------
(***************************************************************************)
(* Requests of concurrent callers through one JsonRpcTransport             *)
(* (packages/rpc/src/json-rpc-transport.ts), each under withRetry          *)
(* (retry.ts) and all under the transport's FIFO limiter (concurrency.ts). *)
(*                                                                         *)
(* A caller makes one call after the other without end.  A rejection of    *)
(* the fetch, HTTP 429 and 5xx are retryable; every other answer ends the  *)
(* call.  Time passes in units; a timer never fires early and may fire     *)
(* late.                                                                   *)
(***************************************************************************)
EXTENDS Integers, Sequences, FiniteSets

CONSTANTS
  Callers,
  Limit,       \* maxInFlight
  MaxRetries,  \* policy.maxRetries
  Deadline,    \* deadlineMs, for the calls that have one
  Delays       \* waits of the policy and of Retry-After headers

ASSUME TransportAssumption ==
  /\ IsFiniteSet(Callers)
  /\ Limit \in Nat \ {0} /\ MaxRetries \in Nat /\ Deadline \in Nat
  /\ Delays \subseteq Nat

VARIABLES
  pc,
  queue, active,  \* of the limiter
  attempt,        \* of the call
  timed,          \* whether the call has a deadline
  left,           \* what is left of it, -1 when it is over
  wait            \* what is left of the sleep between two attempts

limiterVars == <<queue, active>>
callVars    == <<attempt, timed, left, wait>>
vars        == <<pc, limiterVars, callVars>>

TypeOK ==
  /\ pc \in [Callers -> {"idle", "queued", "running", "sleeping"}]
  /\ queue \in Seq(Callers)
  /\ active \in Nat
  /\ attempt \in [Callers -> 1..MaxRetries + 1]
  /\ timed \in [Callers -> BOOLEAN]
  /\ left \in [Callers -> -1..Deadline]
  /\ wait \in [Callers -> Nat]

-----------------------------------------------------------------------------
(* The limiter.                                                            *)

\* The queue after c joins it.
Joined(c) == Append(queue, c)

\* Mutant: release() frees the slot it hands over.
AlwaysFreed == active - 1

\* active after release().
ActiveAfterRelease == IF queue = <<>> THEN active - 1 ELSE active

\* c takes a free slot or queues for one.
Acquire(c) ==
  IF active < Limit
  THEN /\ active' = active + 1
       /\ pc' = [pc EXCEPT ![c] = "running"]
       /\ UNCHANGED queue
  ELSE /\ queue' = Joined(c)
       /\ pc' = [pc EXCEPT ![c] = "queued"]
       /\ UNCHANGED active

\* The task of c is over, c goes on to there, and the slot is handed on.
Release(c, there) ==
  /\ active' = ActiveAfterRelease
  /\ IF queue = <<>>
     THEN pc' = [pc EXCEPT ![c] = there] /\ UNCHANGED queue
     ELSE /\ pc' = [pc EXCEPT ![c] = there, ![Head(queue)] = "running"]
          /\ queue' = Tail(queue)

-----------------------------------------------------------------------------
(* withRetry around request.                                               *)

\* After a retryable failure whose retry would wait d the error is thrown.
GivesUp(c, d) == attempt[c] > MaxRetries \/ (timed[c] /\ d > left[c])

\* Mutant: the attempt is not counted.
SameAttempt(c) == attempt[c]

NextAttempt(c) == attempt[c] + 1

Call(c) ==
  /\ pc[c] = "idle"
  /\ attempt' = [attempt EXCEPT ![c] = 1]
  /\ \E b \in BOOLEAN : timed' = [timed EXCEPT ![c] = b]
  /\ left' = [left EXCEPT ![c] = Deadline]
  /\ Acquire(c)
  /\ UNCHANGED wait

\* A result, a JSON-RPC error, a malformed envelope or an HTTP status that is
\* not retryable.
Settle(c) ==
  /\ pc[c] = "running"
  /\ Release(c, "idle")
  /\ UNCHANGED callVars

\* No answer, 429 or 5xx; d is the Retry-After or the policy's delay.
Fail(c) ==
  /\ pc[c] = "running"
  /\ \E d \in Delays :
       \/ GivesUp(c, d) /\ Release(c, "idle") /\ UNCHANGED wait
       \/ ~GivesUp(c, d) /\ Release(c, "sleeping") /\ wait' = [wait EXCEPT ![c] = d]
  /\ UNCHANGED <<attempt, timed, left>>

Wake(c) ==
  /\ pc[c] = "sleeping" /\ wait[c] = 0
  /\ attempt' = [attempt EXCEPT ![c] = NextAttempt(c)]
  /\ Acquire(c)
  /\ UNCHANGED <<timed, left, wait>>

\* One unit of time passes.
Tick ==
  /\ left' = [c \in Callers |-> IF pc[c] = "idle" \/ left[c] < 0 THEN left[c]
                                ELSE left[c] - 1]
  /\ wait' = [c \in Callers |-> IF wait[c] = 0 THEN 0 ELSE wait[c] - 1]
  /\ UNCHANGED <<pc, limiterVars, attempt, timed>>

-----------------------------------------------------------------------------
Init ==
  /\ pc = [c \in Callers |-> "idle"]
  /\ queue = <<>> /\ active = 0
  /\ attempt = [c \in Callers |-> 1]
  /\ timed = [c \in Callers |-> FALSE]
  /\ left = [c \in Callers |-> Deadline]
  /\ wait = [c \in Callers |-> 0]

Next == Tick \/ \E c \in Callers : Call(c) \/ Settle(c) \/ Fail(c) \/ Wake(c)

\* fetch settles, timers fire.  Nobody has to call.
Fairness ==
  /\ WF_vars(Tick)
  /\ \A c \in Callers : WF_vars(Settle(c) \/ Fail(c)) /\ WF_vars(Wake(c))

Spec     == Init /\ [][Next]_vars
FairSpec == Spec /\ Fairness

-----------------------------------------------------------------------------
(* Properties.                                                             *)

Running == {c \in Callers : pc[c] = "running"}

\* The limiter: a request that runs holds a slot, one that queues or waits out
\* a backoff does not, and slots go to the queue in its order.
Limiter == INSTANCE Slots WITH running <- Running, waiting <- queue
ImplementsSlots == Limiter!Spec

\* withRetry: "a retry is not started when its wait would run past this
\* budget", so time that passes while a call queued, ran and waited before
\* counts.
SleepsWithinBudget ==
  \A c \in Callers :
    pc[c] = "sleeping" /\ timed[c] /\ wait[c] > 0 => wait[c] <= left[c]

\* createConcurrencyLimiter: "a continuous stream of new calls cannot starve
\* tasks already waiting", and failing calls do not keep their slots.
QueuedRequestsRun ==
  \A c \in Callers : pc[c] = "queued" ~> pc[c] = "running"

\* A call ends whatever the endpoint answers, with or without a deadline.
CallsEnd == \A c \in Callers : pc[c] # "idle" ~> pc[c] = "idle"
=============================================================================
