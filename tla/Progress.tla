------------------------------ MODULE Progress ------------------------------
(***************************************************************************)
(* useProgress of packages/react/src/hooks/useProgress.ts: reports are      *)
(* coalesced, at most one commit per throttle window.  Reports are numbered *)
(* in the order in which they are made.                                    *)
(***************************************************************************)
EXTENDS Integers

CONSTANTS
  ThrottleMs,   \* throttleMs, in ticks; 0 disables batching
  MaxReports,   \* bound: reports, resets and remounts
  MaxTime       \* bound: ticks

ASSUME ProgressAssumption ==
  ThrottleMs \in Nat /\ MaxReports \in Nat /\ MaxTime \in Nat

NoReport == 0

VARIABLES
  shown,      \* state: the report that is rendered
  pending,    \* pendingRef
  due,        \* the tick at which the timer of timerRef fires, or NoTimer
  committed,  \* lastCommitRef
  mounted,
  time, reports,
  latest      \* history: the last report since the last reset or mount

progressVars == <<shown, pending, due, committed, mounted, time, reports, latest>>

NoTimer == -1

ProgressTypeOK ==
  /\ shown \in 0..MaxReports /\ pending \in 0..MaxReports
  /\ due \in -1..(MaxTime + ThrottleMs) /\ committed \in (-ThrottleMs)..MaxTime
  /\ mounted \in BOOLEAN /\ time \in 0..MaxTime
  /\ reports \in 0..MaxReports /\ latest \in 0..MaxReports

\* flush with the report in pendingRef.
Flush(report) ==
  /\ due' = NoTimer /\ pending' = NoReport
  /\ IF mounted
     THEN shown' = report /\ committed' = time
     ELSE UNCHANGED <<shown, committed>>

\* Mutation: the first report of a window is the one that waits.
FirstWaits(report) == IF pending = NoReport THEN report ELSE pending
\* schedule keeps the most recent report of a window.
Coalesced(report) == report

WindowIsOver == time - committed >= ThrottleMs

\* setProgress with schedule.
SetProgress ==
  /\ reports < MaxReports /\ reports' = reports + 1
  /\ IF ~mounted
     THEN UNCHANGED <<shown, pending, due, committed, latest>>
     ELSE /\ latest' = reports + 1
          /\ IF WindowIsOver
             THEN Flush(reports + 1)
             ELSE /\ pending' = Coalesced(reports + 1)
                  /\ due' = IF due = NoTimer THEN committed + ThrottleMs ELSE due
                  /\ UNCHANGED <<shown, committed>>
  /\ UNCHANGED <<mounted, time>>

\* complete renders at once.
Complete ==
  /\ reports < MaxReports /\ reports' = reports + 1
  /\ Flush(reports + 1)
  /\ latest' = IF mounted THEN reports + 1 ELSE latest
  /\ UNCHANGED <<mounted, time>>

ThrottleTimer ==
  /\ due # NoTimer /\ due <= time
  /\ IF pending = NoReport
     THEN due' = NoTimer /\ UNCHANGED <<shown, pending, committed>>
     ELSE Flush(pending)
  /\ UNCHANGED <<mounted, time, reports, latest>>

ResetProgress ==
  /\ reports < MaxReports /\ reports' = reports + 1
  /\ due' = NoTimer /\ pending' = NoReport
  /\ IF mounted
     THEN committed' = time /\ shown' = NoReport /\ latest' = NoReport
     ELSE UNCHANGED <<committed, shown, latest>>
  /\ UNCHANGED <<mounted, time>>

\* The effect's clean-up, and the effect again (React's strict mode).
Unmount ==
  /\ mounted
  /\ mounted' = FALSE /\ due' = NoTimer /\ pending' = NoReport
  /\ latest' = shown
  /\ UNCHANGED <<shown, committed, time, reports>>

Remount ==
  /\ ~mounted
  /\ reports < MaxReports /\ reports' = reports + 1
  /\ mounted' = TRUE
  /\ UNCHANGED <<shown, pending, due, committed, time, latest>>

Elapse ==
  /\ time < MaxTime /\ time' = time + 1
  /\ UNCHANGED <<shown, pending, due, committed, mounted, reports, latest>>

ProgressInit ==
  /\ shown = NoReport /\ pending = NoReport /\ due = NoTimer
  /\ committed = -ThrottleMs /\ mounted = TRUE /\ time = 0 /\ reports = 0
  /\ latest = NoReport

ProgressNext ==
  \/ SetProgress
  \/ Complete
  \/ ThrottleTimer
  \/ ResetProgress
  \/ Unmount
  \/ Remount
  \/ Elapse

-----------------------------------------------------------------------------

\* Coalescing loses no last report: either it is rendered, or it waits for
\* a timer that is set and fires within one window.
LastReportIsShown ==
  \/ shown = latest /\ pending = NoReport
  \/ pending = latest /\ due # NoTimer /\ due <= committed + ThrottleMs
=============================================================================
