---------------------------- MODULE RpcFailover -----------------------------
(***************************************************************************)
(* RpcFailoverManager (packages/rpc/src/rpc-failover.ts): health of the    *)
(* RPC endpoints, the current one, the sticky one, and the background      *)
(* health checks, with calls that report an outcome long after they asked  *)
(* for the URL.                                                            *)
(*                                                                         *)
(* Endpoints are the indexes 0..N-1 of the array.  Reports come from the   *)
(* application, which owns the calls, and from runHealthChecks.  The       *)
(* counters saturate at CountCap.                                          *)
(***************************************************************************)
EXTENDS Integers

CONSTANTS
  N,                \* number of endpoints
  MaxFailures,      \* maxFailuresBeforeFallback
  SuccessThreshold, \* successThresholdToRestore
  Sticky,           \* stickyDurationMs > 0
  Calls,            \* concurrent calls of the application
  Rounds,           \* health-check rounds that may overlap
  CountCap          \* bound: where the counters saturate

ASSUME FailoverAssumption ==
  /\ N \in Nat \ {0}
  /\ MaxFailures \in Nat \ {0} /\ SuccessThreshold \in Nat \ {0}
  /\ Sticky \in BOOLEAN
  /\ CountCap \in Nat /\ CountCap >= MaxFailures /\ CountCap >= SuccessThreshold

Endpoints == 0..N - 1
Nobody    == -1

VARIABLES
  up,        \* endpoints that answer (external)
  isHealthy, consecutiveFailures, consecutiveSuccesses,
  current,   \* currentIndex
  sticky,    \* stickyEndpointUrl
  expired,   \* the sticky window is over
  stage, url,   \* of the application's calls: "idle", "sent", "ok" or "failed"
  timer,     \* the health-check interval is running
  check      \* per round: the endpoint being checked, or Nobody

healthVars == <<isHealthy, consecutiveFailures, consecutiveSuccesses, current>>
failoverVars == <<up, healthVars, sticky, expired, stage, url, timer, check>>

FailoverTypeOK ==
  /\ up \subseteq Endpoints
  /\ isHealthy \in [Endpoints -> BOOLEAN]
  /\ consecutiveFailures \in [Endpoints -> 0..CountCap]
  /\ consecutiveSuccesses \in [Endpoints -> 0..CountCap]
  /\ current \in Endpoints
  /\ sticky \in Endpoints \cup {Nobody}
  /\ expired \in BOOLEAN
  /\ stage \in [Calls -> {"idle", "sent", "ok", "failed"}]
  /\ url \in [Calls -> Endpoints]
  /\ timer \in BOOLEAN
  /\ check \in [Rounds -> Endpoints \cup {Nobody}]

FailoverInit ==
  /\ up = Endpoints
  /\ isHealthy = [e \in Endpoints |-> TRUE]
  /\ consecutiveFailures = [e \in Endpoints |-> 0]
  /\ consecutiveSuccesses = [e \in Endpoints |-> 0]
  /\ current = 0
  /\ sticky = Nobody /\ expired = FALSE
  /\ stage = [c \in Calls |-> "idle"]
  /\ url = [c \in Calls |-> 0]
  /\ timer = FALSE
  /\ check = [r \in Rounds |-> Nobody]

-----------------------------------------------------------------------------
Increment(n) == IF n < CountCap THEN n + 1 ELSE n

\* How many steps of the round robin lead from the current endpoint to e.
Distance(e) == IF e > current THEN e - current ELSE e - current + N

\* pickNextHealthy: the next healthy endpoint in round-robin order, the
\* current one last, or, when there is none, the first with the fewest
\* consecutive failures.
PicksNext(health, failures, e) ==
  \/ /\ health[e]
     /\ \A f \in Endpoints : health[f] => Distance(e) <= Distance(f)
  \/ /\ \A f \in Endpoints : ~health[f]
     /\ \A f \in Endpoints : failures[e] <= failures[f]
     /\ \A f \in Endpoints : failures[f] = failures[e] => e <= f

\* Mutant: successes of an unhealthy endpoint are not accumulated.
NeverRestored(e) == ~isHealthy[e] /\ Increment(0) >= SuccessThreshold

\* recordSuccess: an unhealthy endpoint is restored.
Restored(e) ==
  ~isHealthy[e] /\ Increment(consecutiveSuccesses[e]) >= SuccessThreshold

\* recordFailure: a healthy endpoint is given up.
GivenUp(e) == isHealthy[e] /\ Increment(consecutiveFailures[e]) >= MaxFailures

\* Mutant: the sticky endpoint is returned whatever its health.
StickyEvenSick == Sticky /\ sticky # Nobody /\ ~expired

\* getCurrentUrl returns the sticky endpoint.
StickyHolds == Sticky /\ sticky # Nobody /\ ~expired /\ isHealthy[sticky]

RecordSuccess(e) ==
  /\ consecutiveFailures' = [consecutiveFailures EXCEPT ![e] = 0]
  /\ consecutiveSuccesses' = [consecutiveSuccesses EXCEPT ![e] =
                                IF Restored(e) THEN 0 ELSE Increment(@)]
  /\ isHealthy' = [isHealthy EXCEPT ![e] = @ \/ Restored(e)]
  /\ UNCHANGED current

RecordFailure(e) ==
  /\ consecutiveSuccesses' = [consecutiveSuccesses EXCEPT ![e] = 0]
  /\ consecutiveFailures' = [consecutiveFailures EXCEPT ![e] =
                               IF GivenUp(e) THEN 0 ELSE Increment(@)]
  /\ isHealthy' = [isHealthy EXCEPT ![e] = @ /\ ~GivenUp(e)]
  /\ IF GivenUp(e)
     THEN /\ current' \in Endpoints
          /\ PicksNext(isHealthy', consecutiveFailures', current')
     ELSE UNCHANGED current

Record(e, ok) == IF ok THEN RecordSuccess(e) ELSE RecordFailure(e)

-----------------------------------------------------------------------------
\* A call asks getCurrentUrl for its endpoint and sends the request.
GetCurrentUrl(c) ==
  /\ stage[c] = "idle"
  /\ stage' = [stage EXCEPT ![c] = "sent"]
  /\ \/ /\ StickyHolds
        /\ url' = [url EXCEPT ![c] = sticky]
        /\ UNCHANGED <<current, sticky, expired>>
     \/ /\ ~StickyHolds
        /\ \/ isHealthy[current] /\ UNCHANGED current
           \/ /\ ~isHealthy[current]
              /\ current' \in Endpoints
              /\ PicksNext(isHealthy, consecutiveFailures, current')
        /\ url' = [url EXCEPT ![c] = current']
        /\ sticky' = IF Sticky THEN current' ELSE sticky
        /\ expired' = FALSE
  /\ UNCHANGED <<up, isHealthy, consecutiveFailures, consecutiveSuccesses,
                 timer, check>>

\* The endpoint answers, or the request fails.
Answer(c) ==
  /\ stage[c] = "sent"
  /\ stage' = [stage EXCEPT ![c] = IF url[c] \in up THEN "ok" ELSE "failed"]
  /\ UNCHANGED <<up, healthVars, sticky, expired, url, timer, check>>

\* The application records the outcome against the URL it was given.
Report(c) ==
  /\ stage[c] \in {"ok", "failed"}
  /\ Record(url[c], stage[c] = "ok")
  /\ stage' = [stage EXCEPT ![c] = "idle"]
  /\ UNCHANGED <<up, sticky, expired, url, timer, check>>

StickyExpires ==
  /\ sticky # Nobody /\ ~expired
  /\ expired' = TRUE
  /\ UNCHANGED <<up, healthVars, sticky, stage, url, timer, check>>

-----------------------------------------------------------------------------
\* startHealthChecks and stopHealthChecks; rounds under way run on.
StartStop ==
  /\ timer' = ~timer
  /\ UNCHANGED <<up, healthVars, sticky, expired, stage, url, check>>

\* The interval fires: a new round starts, whether or not the last is over.
HealthTick(r) ==
  /\ timer /\ check[r] = Nobody
  /\ check' = [check EXCEPT ![r] = 0]
  /\ UNCHANGED <<up, healthVars, sticky, expired, stage, url, timer>>

\* runHealthChecks: checkFn settles for one endpoint, and the next follows.
CheckEndpoint(r) ==
  /\ check[r] # Nobody
  /\ Record(check[r], check[r] \in up)
  /\ check' = [check EXCEPT ![r] = IF @ + 1 < N THEN @ + 1 ELSE Nobody]
  /\ UNCHANGED <<up, sticky, expired, stage, url, timer>>

\* An endpoint goes down or comes back.
Outage(e) ==
  /\ up' = IF e \in up THEN up \ {e} ELSE up \cup {e}
  /\ UNCHANGED <<healthVars, sticky, expired, stage, url, timer, check>>

FailoverNext ==
  \/ \E c \in Calls : GetCurrentUrl(c) \/ Answer(c) \/ Report(c)
  \/ \E r \in Rounds : HealthTick(r) \/ CheckEndpoint(r)
  \/ \E e \in Endpoints : Outage(e)
  \/ StickyExpires \/ StartStop

\* The interval fires, checkFn settles (a check that hangs would keep its
\* round), and requests end.
FailoverFairness ==
  /\ \A r \in Rounds : WF_failoverVars(HealthTick(r)) /\ WF_failoverVars(CheckEndpoint(r))
  /\ \A c \in Calls : WF_failoverVars(Answer(c)) /\ WF_failoverVars(Report(c))

FailoverSpec     == FailoverInit /\ [][FailoverNext]_failoverVars
FailoverFairSpec == FailoverSpec /\ FailoverFairness

-----------------------------------------------------------------------------
(* Properties.                                                             *)

\* The counters never contradict the health they decide: a healthy endpoint
\* is short of MaxFailures, an unhealthy one short of SuccessThreshold, and
\* none counts both successes and failures, however the reports of calls and
\* of overlapping rounds interleave.
CountersMatchHealth ==
  \A e \in Endpoints :
    /\ isHealthy[e] => consecutiveFailures[e] < MaxFailures
    /\ ~isHealthy[e] => consecutiveSuccesses[e] < SuccessThreshold
    /\ consecutiveFailures[e] = 0 \/ consecutiveSuccesses[e] = 0

\* A call is never sent to an unhealthy endpoint while a healthy one exists,
\* although the index, the sticky endpoint and the health are changed by
\* different callers.
ServesHealthy ==
  [][\A c \in Calls : stage[c] = "idle" /\ stage'[c] = "sent" =>
       isHealthy[url'[c]] \/ \A e \in Endpoints : ~isHealthy[e]]_failoverVars

\* Stickiness: within the window the calls stay with the endpoint the last
\* one was given as long as it is healthy, although health checks of other
\* endpoints move currentIndex.
StaysSticky ==
  [][\A c \in Calls :
       Sticky /\ sticky # Nobody /\ ~expired /\ isHealthy[sticky]
         /\ stage[c] = "idle" /\ stage'[c] = "sent" => url'[c] = sticky]_failoverVars

\* With health checks running, an endpoint that comes back for good is
\* restored for good, late reports of old failures notwithstanding.
RecoversWhenUp ==
  \A e \in Endpoints :
    <>[](timer /\ e \in up) => <>[]isHealthy[e]
=============================================================================
