------------------------------- MODULE Slots --------------------------------
(***************************************************************************)
(* What createConcurrencyLimiter promises (its doc comment): at most Limit *)
(* tasks run at once, the others wait in the order they came, and a task   *)
(* that ends hands its slot to the first of them.                          *)
(***************************************************************************)
EXTENDS Naturals, Sequences, FiniteSets

CONSTANTS Callers, Limit

VARIABLES
  running,  \* callers that hold a slot
  waiting   \* callers that wait for one, in the order they came

Init == running = {} /\ waiting = <<>>

Enter(c) ==
  /\ c \notin running /\ \A i \in 1..Len(waiting) : waiting[i] # c
  /\ IF Cardinality(running) < Limit
     THEN running' = running \cup {c} /\ UNCHANGED waiting
     ELSE waiting' = Append(waiting, c) /\ UNCHANGED running

Finish(c) ==
  /\ c \in running
  /\ IF waiting = <<>>
     THEN running' = running \ {c} /\ UNCHANGED waiting
     ELSE /\ running' = (running \ {c}) \cup {Head(waiting)}
          /\ waiting' = Tail(waiting)

Next == \E c \in Callers : Enter(c) \/ Finish(c)

Spec == Init /\ [][Next]_<<running, waiting>>
=============================================================================
