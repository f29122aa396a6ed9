-------------------------- MODULE RestoreComposable -------------------------
(***************************************************************************)
(* The restoration state that the Vue and Svelte composables and the       *)
(* Angular service keep for a user interface: checkTransaction,            *)
(* executeWithRestore and reset.  Each answer of the client is a step.      *)
(***************************************************************************)
EXTENDS Integers

CONSTANTS
  Uses,     \* calls of the composable that may be under way together
  MaxUses   \* bound: calls and resets in all

ASSUME ComposableAssumption == MaxUses \in Nat

VARIABLES
  ui, uses, used,
  \* History: calls overlapped, or a reset came in between; what the calls
  \* that ended have shown.
  mixed, ended

composableVars == <<ui, uses, used, mixed, ended>>

\* lastResult: nothing, a result that reports success, or one that does not;
\* archivedKeys is set and cleared with needsRestore.
Uis == [isChecking : BOOLEAN, isExecuting : BOOLEAN,
        lastResult : {"none", "success", "failure"},
        error : BOOLEAN, needsRestore : BOOLEAN]

InitialUi ==
  [isChecking |-> FALSE, isExecuting |-> FALSE, lastResult |-> "none",
   error |-> FALSE, needsRestore |-> FALSE]

Outcomes == [lastResult : {"none", "success", "failure"}, error : BOOLEAN,
             needsRestore : BOOLEAN]
Fresh == [lastResult |-> "none", error |-> FALSE, needsRestore |-> FALSE]

ComposableTypeOK ==
  /\ ui \in Uis /\ used \in 0..MaxUses
  /\ uses \in [Uses -> {"idle", "checking", "simulating", "signing",
                        "building", "executing"}]
  /\ mixed \in BOOLEAN
  /\ ended \in Outcomes

AllIdle == \A u \in Uses : uses[u] = "idle"

Use(u, stage) ==
  /\ uses[u] = "idle" /\ used < MaxUses
  /\ used' = used + 1
  /\ uses' = [uses EXCEPT ![u] = stage]
  /\ mixed' = (mixed \/ ~AllIdle)

\* Mutation: the error of the previous call stays.
KeptError == ui.error
NoError == FALSE

CheckTransaction(u) ==
  /\ Use(u, "checking")
  /\ ui' = [ui EXCEPT !.isChecking = TRUE, !.error = NoError]
  /\ UNCHANGED ended

\* simulate has answered, with the keys or with an error.
Checked(u) ==
  /\ uses[u] = "checking"
  /\ uses' = [uses EXCEPT ![u] = "idle"]
  /\ \/ \E needs \in BOOLEAN :
          /\ ui' = [ui EXCEPT !.needsRestore = needs, !.isChecking = FALSE]
          /\ ended' = [ended EXCEPT !.error = FALSE, !.needsRestore = needs]
     \/ /\ ui' = [ui EXCEPT !.error = TRUE, !.isChecking = FALSE]
        /\ ended' = [ended EXCEPT !.error = TRUE]
  /\ UNCHANGED <<used, mixed>>

ExecuteWithRestore(u) ==
  /\ Use(u, "simulating")
  /\ ui' = [ui EXCEPT !.isExecuting = TRUE, !.error = NoError]
  /\ UNCHANGED ended

\* The simulation of executeWithRestore: without archived keys only the
\* user's signature is asked for.
Simulated(u) ==
  /\ uses[u] = "simulating"
  /\ \/ /\ uses' = [uses EXCEPT ![u] = "signing"]
        /\ UNCHANGED <<ui, ended>>
     \/ /\ uses' = [uses EXCEPT ![u] = "building"]
        /\ ui' = [ui EXCEPT !.needsRestore = TRUE]
        /\ ended' = [ended EXCEPT !.needsRestore = TRUE]
  /\ UNCHANGED <<used, mixed>>

\* The signed transaction is reported as a success; nothing submits it.
Signed(u) ==
  /\ uses[u] = "signing"
  /\ uses' = [uses EXCEPT ![u] = "idle"]
  /\ ui' = [ui EXCEPT !.lastResult = "success", !.isExecuting = FALSE]
  /\ ended' = [ended EXCEPT !.lastResult = "success", !.error = FALSE]
  /\ UNCHANGED <<used, mixed>>

Built(u) ==
  /\ uses[u] = "building"
  /\ uses' = [uses EXCEPT ![u] = "executing"]
  /\ UNCHANGED <<ui, used, mixed, ended>>

\* executeRestoreThenOriginal has answered.
Executed(u) ==
  /\ uses[u] = "executing"
  /\ uses' = [uses EXCEPT ![u] = "idle"]
  /\ \E result \in {"success", "failure"} :
       /\ ui' = [ui EXCEPT !.lastResult = result, !.isExecuting = FALSE]
       /\ ended' = [ended EXCEPT !.lastResult = result, !.error = FALSE]
  /\ UNCHANGED <<used, mixed>>

\* The catch of executeWithRestore.
ExecutionThrows(u) ==
  /\ uses[u] \in {"simulating", "signing", "building", "executing"}
  /\ uses' = [uses EXCEPT ![u] = "idle"]
  /\ ui' = [ui EXCEPT !.error = TRUE, !.isExecuting = FALSE]
  /\ ended' = [ended EXCEPT !.error = TRUE]
  /\ UNCHANGED <<used, mixed>>

\* reset does not cancel what is under way.
ResetUi ==
  /\ used < MaxUses /\ used' = used + 1
  /\ ui' = InitialUi
  /\ ended' = Fresh
  /\ mixed' = (mixed \/ ~AllIdle)
  /\ UNCHANGED uses

ComposableInit ==
  /\ ui = InitialUi /\ uses = [u \in Uses |-> "idle"] /\ used = 0
  /\ mixed = FALSE /\ ended = Fresh

ComposableNext ==
  \/ \E u \in Uses :
       \/ CheckTransaction(u)
       \/ Checked(u)
       \/ ExecuteWithRestore(u)
       \/ Simulated(u)
       \/ Signed(u)
       \/ Built(u)
       \/ Executed(u)
       \/ ExecutionThrows(u)
  \/ ResetUi

-----------------------------------------------------------------------------

\* Whoever makes one call at a time, and resets only in between, sees the
\* outcome of the calls that have ended: an error exactly when the last one
\* failed, and the busy flags exactly while one is under way.
OutcomeIsShown ==
  ~mixed =>
    /\ ui.isChecking  <=> \E u \in Uses : uses[u] = "checking"
    /\ ui.isExecuting <=> \E u \in Uses : uses[u] \notin {"idle", "checking"}
    /\ ui.needsRestore = ended.needsRestore /\ ui.lastResult = ended.lastResult
    /\ AllIdle => ui.error = ended.error
=============================================================================
