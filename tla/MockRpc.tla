------------------------------- MODULE MockRpc ------------------------------
(***************************************************************************)
(* The ledger of the in-memory RPC server that tests use in place of a     *)
(* network: MockRpcServer and MockLedgerState of packages/mock-rpc/src.    *)
(*                                                                         *)
(* An entry is the last ledger at which it is live (lastLiveLedgerSeq +    *)
(* ttl), or Missing.  MockPipeline models the network conditions, method   *)
(* overrides, fixtures and statistics.                                     *)
(***************************************************************************)
EXTENDS Naturals

CONSTANTS
  Entries,      \* ledger keys
  MaxLedger     \* bound: ledger sequence numbers

ASSUME MockAssumption == MaxLedger \in Nat \ {0}

VARIABLES
  ledgerSeq,        \* currentLedgerSeq
  entries           \* MockLedgerState.entries

serverVars == <<ledgerSeq, entries>>

Missing == 0

ServerTypeOK ==
  /\ ledgerSeq \in 1..MaxLedger
  /\ entries \in [Entries -> 0..MaxLedger]

ServerInit ==
  /\ ledgerSeq = 1
  /\ entries = [e \in Entries |-> 1]

-----------------------------------------------------------------------------
IsArchived(e)   == entries[e] # Missing /\ ledgerSeq > entries[e]
LiveEntries(es) == {e \in es : entries[e] # Missing /\ ~IsArchived(e)}

-----------------------------------------------------------------------------
(* What a test does to the server.                                         *)

SetCurrentLedgerSeq(seq) ==
  /\ ledgerSeq' = seq
  /\ UNCHANGED entries

\* archiveAll: past the last expiry of all entries.
ArchiveAll ==
  /\ \E e \in Entries :
       /\ entries[e] # Missing
       /\ \A f \in Entries : entries[f] <= entries[e]
       /\ entries[e] < MaxLedger
       /\ ledgerSeq' = entries[e] + 1
  /\ UNCHANGED entries

AddEntry(e, expiry) ==
  /\ entries' = [entries EXCEPT ![e] = expiry]
  /\ UNCHANGED ledgerSeq

RemoveEntry(e) ==
  /\ entries' = [entries EXCEPT ![e] = Missing]
  /\ UNCHANGED ledgerSeq
=============================================================================
