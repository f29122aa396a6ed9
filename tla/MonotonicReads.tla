--------------------------- MODULE MonotonicReads ---------------------------
(***************************************************************************)
(* What LedgerReadCoalescer promises the calls that share its requests:    *)
(* each entry has a register that only moves forward and never ahead of    *)
(* the ledger.  When entries are reported, every call that lacks one of    *)
(* them takes it, and a call that lacks nothing any more is given what it  *)
(* took.                                                                   *)
(***************************************************************************)
EXTENDS Naturals

CONSTANTS Callers, Keys

VARIABLES
  live,      \* version of each ledger entry
  reported,  \* the register of each entry
  pc,        \* "idle", "waiting", "resolved" or "rejected"
  lacks,     \* entries that a call still waits for
  result     \* versions that a call took

Init ==
  LET zero == [k \in Keys |-> 0] IN
  /\ live = zero /\ reported = zero
  /\ pc = [c \in Callers |-> "idle"]
  /\ lacks = [c \in Callers |-> {}]
  /\ result = [c \in Callers |-> zero]

Ask(c, K) ==
  /\ pc[c] # "waiting"
  /\ pc' = [pc EXCEPT ![c] = "waiting"]
  /\ lacks' = [lacks EXCEPT ![c] = K]
  /\ result' = [result EXCEPT ![c] = [k \in Keys |-> 0]]
  /\ UNCHANGED <<live, reported>>

Affected(K) == {c \in Callers : lacks[c] \cap K # {}}

Report(K) ==
  /\ reported' \in [Keys -> Nat]
  /\ \A k \in Keys : reported[k] <= reported'[k] /\ reported'[k] <= live[k]
  /\ \A k \in Keys \ K : reported'[k] = reported[k]
  /\ result' = [c \in Callers |-> [k \in Keys |->
                  IF k \in lacks[c] \cap K THEN reported'[k] ELSE result[c][k]]]
  /\ lacks' = [c \in Callers |-> lacks[c] \ K]
  /\ pc' = [c \in Callers |->
              IF c \in Affected(K) /\ lacks[c] \subseteq K THEN "resolved" ELSE pc[c]]
  /\ UNCHANGED live

Fail(K) ==
  /\ pc' = [c \in Callers |-> IF c \in Affected(K) THEN "rejected" ELSE pc[c]]
  /\ lacks' = [c \in Callers |-> IF c \in Affected(K) THEN {} ELSE lacks[c]]
  /\ UNCHANGED <<live, reported, result>>

Write(k) ==
  /\ live' = [live EXCEPT ![k] = @ + 1]
  /\ UNCHANGED <<reported, pc, lacks, result>>

Next ==
  \/ \E c \in Callers, K \in (SUBSET Keys) \ {{}} : Ask(c, K)
  \/ \E K \in SUBSET Keys : Report(K) \/ Fail(K)
  \/ \E k \in Keys : Write(k)

Spec == Init /\ [][Next]_<<live, reported, pc, lacks, result>>
=============================================================================
