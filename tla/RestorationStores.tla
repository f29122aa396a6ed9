-------------------------- MODULE RestorationStores -------------------------
(***************************************************************************)
(* The state stores of packages/react/src: a RestorationEventBus           *)
(* (middleware.ts) whose events a Zustand, a Redux (redux.ts) and a Jotai  *)
(* (jotai.ts) store each reduce to the same slice with a reducer of its    *)
(* own, and one listener of the application.                               *)
(*                                                                         *)
(* emit is synchronous and the bus is a Set of listeners: a listener that  *)
(* emits nests one round of calls in another, and one that throws ends all *)
(* rounds.  Keys, results and error texts are abstracted to their presence.*)
(***************************************************************************)
EXTENDS Sequences, SequencesExt, Sifting

CONSTANT MaxEmits   \* bound: emissions, nested ones included

ASSUME StoresAssumption == MaxEmits \in Nat

Stores == {"zustand", "redux", "jotai"}
App    == "app"

Events == {"checking", "needs-restore", "executing", "restored", "error", "reset"}

Slices == [isChecking : BOOLEAN, isExecuting : BOOLEAN, needsRestore : BOOLEAN,
           archivedKeys : BOOLEAN, lastResult : BOOLEAN, error : BOOLEAN]

VARIABLES
  listeners,  \* RestorationEventBus.listeners, in the order of insertion
  slices,     \* the slice of each store
  rounds,     \* the emit calls under way: the event, and who was called
  emits,
  split       \* history: an event was kept from a store that others gave it to

storesVars == <<listeners, slices, rounds, emits, split>>

initialRestorationSlice ==
  [isChecking |-> FALSE, isExecuting |-> FALSE, needsRestore |-> FALSE,
   archivedKeys |-> FALSE, lastResult |-> FALSE, error |-> FALSE]

StoresTypeOK ==
  /\ listeners \in Seq(Stores \cup {App}) /\ IsInjective(listeners)
  /\ slices \in [Stores -> Slices]
  /\ rounds \in Seq([event : Events, called : SUBSET (Stores \cup {App})])
  /\ emits \in 0..MaxEmits /\ split \in BOOLEAN

-----------------------------------------------------------------------------
(* The three reducers.                                                     *)

\* reduceRestoration of middleware.ts.
reduceRestoration(s, event) ==
  CASE event = "checking"  -> [s EXCEPT !.isChecking = TRUE, !.error = FALSE]
    [] event = "needs-restore" ->
         [s EXCEPT !.isChecking = FALSE, !.needsRestore = TRUE, !.archivedKeys = TRUE]
    [] event = "executing" -> [s EXCEPT !.isExecuting = TRUE]
    [] event = "restored"  ->
         [s EXCEPT !.isExecuting = FALSE, !.needsRestore = FALSE, !.lastResult = TRUE]
    [] event = "error"     ->
         [s EXCEPT !.isChecking = FALSE, !.isExecuting = FALSE, !.error = TRUE]
    [] event = "reset"     -> initialRestorationSlice

\* eventToAction of redux.ts; restorationActions creates the same actions.
eventToAction(event) ==
  LET constant == [checking |-> "RESTORATION_CHECKING",
                   executing |-> "RESTORATION_EXECUTING",
                   restored |-> "RESTORATION_RESTORED",
                   error |-> "RESTORATION_ERROR", reset |-> "RESTORATION_RESET"]
  IN  IF event = "needs-restore" THEN "RESTORATION_NEEDS_RESTORE" ELSE constant[event]

\* The flags that an action of redux.ts sets and clears.
ActionSets ==
  [RESTORATION_CHECKING |-> {"isChecking"},
   RESTORATION_NEEDS_RESTORE |-> {"needsRestore", "archivedKeys"},
   RESTORATION_EXECUTING |-> {"isExecuting"},
   RESTORATION_RESTORED |-> {"lastResult"}, RESTORATION_ERROR |-> {"error"},
   RESTORATION_RESET |-> {}]
\* Mutation: the copy of redux.ts leaves the busy flag set after an error.
StillBusy ==
  [RESTORATION_CHECKING |-> {"error"}, RESTORATION_NEEDS_RESTORE |-> {"isChecking"},
   RESTORATION_EXECUTING |-> {},
   RESTORATION_RESTORED |-> {"isExecuting", "needsRestore"},
   RESTORATION_ERROR |-> {"isChecking"},
   RESTORATION_RESET |-> DOMAIN initialRestorationSlice]
ActionClears ==
  [RESTORATION_CHECKING |-> {"error"}, RESTORATION_NEEDS_RESTORE |-> {"isChecking"},
   RESTORATION_EXECUTING |-> {},
   RESTORATION_RESTORED |-> {"isExecuting", "needsRestore"},
   RESTORATION_ERROR |-> {"isChecking", "isExecuting"},
   RESTORATION_RESET |-> DOMAIN initialRestorationSlice]

restorationReducer(s, action) ==
  [f \in DOMAIN s |-> f \in ActionSets[action] \/ (s[f] /\ f \notin ActionClears[action])]

\* applyEvent of jotai.ts, through its own copy of reduceRestoration.
applyEvent(s, event) ==
  IF event = "reset" THEN initialRestorationSlice
  ELSE [s EXCEPT
    !.isChecking   = event = "checking" \/ (@ /\ event \notin {"needs-restore", "error"}),
    !.isExecuting  = event = "executing" \/ (@ /\ event \notin {"restored", "error"}),
    !.needsRestore = event = "needs-restore" \/ (@ /\ event # "restored"),
    !.archivedKeys = @ \/ event = "needs-restore",
    !.lastResult   = @ \/ event = "restored",
    !.error        = event = "error" \/ (@ /\ event # "checking")]

\* What a store's listener does with an event.
Reduced(store, event) ==
  CASE store = "zustand" -> reduceRestoration(slices[store], event)
    [] store = "redux"   -> restorationReducer(slices[store], eventToAction(event))
    [] store = "jotai"   -> applyEvent(slices[store], event)

-----------------------------------------------------------------------------

Joined == ToSet(listeners) \cap Stores

\* zustandMiddleware, reduxMiddleware, or the application for jotaiAtoms; no
\* store ever unsubscribes.
Join(store) ==
  /\ rounds = <<>> /\ store \notin Joined
  /\ listeners' = Append(listeners, store)
  /\ split' = (split \/ \E s \in Joined : slices[s] # initialRestorationSlice)
  /\ UNCHANGED <<slices, rounds, emits>>

AppSubscribes ==
  /\ rounds = <<>> /\ App \notin ToSet(listeners)
  /\ listeners' = Append(listeners, App)
  /\ UNCHANGED <<slices, rounds, emits, split>>

AppUnsubscribes ==
  /\ rounds = <<>> /\ App \in ToSet(listeners)
  /\ listeners' = Kept(listeners, Joined)
  /\ UNCHANGED <<slices, rounds, emits, split>>

Round(event) == [event |-> event, called |-> {}]

\* The application reports a step of the restoration.
EmitEvent(event) ==
  /\ rounds = <<>> /\ emits < MaxEmits
  /\ emits' = emits + 1
  /\ rounds' = <<Round(event)>>
  /\ split' = (split /\ event # "reset")
  /\ UNCHANGED <<listeners, slices>>

\* Whom the innermost emit calls next.
Waiting == Kept(listeners, ToSet(listeners) \ Last(rounds).called)
NextIs(listener) == rounds # <<>> /\ Waiting # <<>> /\ Head(Waiting) = listener
Called == [rounds EXCEPT ![Len(rounds)].called = @ \cup {Head(Waiting)}]

\* The store's own subscriber: set, dispatch, or the application's store.set.
StoreReduces(store) ==
  /\ NextIs(store)
  /\ slices' = [slices EXCEPT ![store] = Reduced(store, Last(rounds).event)]
  /\ rounds' = Called
  /\ UNCHANGED <<listeners, emits, split>>

AppListens ==
  /\ NextIs(App)
  /\ rounds' = Called
  /\ UNCHANGED <<listeners, slices, emits, split>>

\* Stores that an emit under way has not reached.
Unreached == \E r \in ToSet(rounds) : Joined \ r.called # {}

\* The application's listener emits.
AppEmits(event) ==
  /\ NextIs(App) /\ emits < MaxEmits
  /\ emits' = emits + 1
  /\ rounds' = Append(Called, Round(event))
  /\ split' = (split \/ Unreached)
  /\ UNCHANGED <<listeners, slices>>

\* The application's listener throws, and nothing on the stack catches it.
AppThrows ==
  /\ NextIs(App)
  /\ rounds' = <<>>
  /\ split' = (split \/ Unreached)
  /\ UNCHANGED <<listeners, slices, emits>>

EmitReturns ==
  /\ rounds # <<>> /\ Waiting = <<>>
  /\ rounds' = Front(rounds)
  /\ UNCHANGED <<listeners, slices, emits, split>>

StoresInit ==
  /\ listeners = <<>> /\ slices = [s \in Stores |-> initialRestorationSlice]
  /\ rounds = <<>> /\ emits = 0 /\ split = FALSE

StoresNext ==
  \/ \E store \in Stores : Join(store) \/ StoreReduces(store)
  \/ AppSubscribes \/ AppUnsubscribes \/ AppListens \/ AppThrows
  \/ \E event \in Events : EmitEvent(event) \/ AppEmits(event)
  \/ EmitReturns

-----------------------------------------------------------------------------

\* The stores of one bus show the same state between two events: always when
\* no listener in front of a store emits or throws and no store joins late,
\* and again after the next reset that all of them receive.
StoresAgree ==
  rounds = <<>> /\ ~split => \A s, t \in Joined : slices[s] = slices[t]
=============================================================================
