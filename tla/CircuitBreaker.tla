--------------------------- MODULE CircuitBreaker ---------------------------
(***************************************************************************)
(* The circuit breaker of packages/rpc/src/retry-policy.ts, one object     *)
(* that all retry loops of a client share.  Date.now() is the variable     *)
(* now; the delay between two attempts is any time.                        *)
(***************************************************************************)
EXTENDS Naturals

CONSTANTS
  MaxRetries,        \* maxRetries
  FailureThreshold,  \* failureThreshold
  OpenTimeout,       \* openCircuitTimeoutMs, in ticks
  MaxNow             \* bound: ticks of the clock

ASSUME BreakerAssumption ==
  /\ MaxRetries \in Nat /\ MaxNow \in Nat /\ OpenTimeout \in Nat
  /\ FailureThreshold \in Nat \ {0}

VARIABLES now, breaker

Never    == MaxNow + 1     \* circuitOpenAt = null
Breakers == [failures : 0..FailureThreshold, openAt : 0..Never, probe : BOOLEAN]

\* The state that reset leaves.
Reset == [failures |-> 0, openAt |-> Never, probe |-> FALSE]

IsOpen   == breaker.openAt # Never
TimedOut == IsOpen /\ now - breaker.openAt > OpenTimeout

\* Mutant: the half-open circuit does not look at halfOpenProbeInFlight.
CountsAlways == IsOpen => TimedOut

\* A failed attempt counts while the circuit is closed, and as the probe of a
\* half-open one.
Counts == IsOpen => TimedOut /\ ~breaker.probe

Failures == IF TimedOut THEN 1 ELSE breaker.failures + 1
Trips    == Failures >= FailureThreshold

\* shouldRetry: what it answers and what it leaves behind.
ShouldRetry(attempt, retryable) ==
  Counts /\ ~Trips /\ attempt <= MaxRetries /\ retryable

AfterFailure ==
  IF ~Counts THEN breaker
  ELSE IF Trips THEN [failures |-> Failures, openAt |-> now, probe |-> FALSE]
  ELSE [breaker EXCEPT !.failures = Failures, !.probe = @ \/ TimedOut]
=============================================================================
