--------------------------- MODULE RestoreLedger ---------------------------
(***************************************************************************)
(* The network as the restore pipeline of packages/sdk/src sees it: the    *)
(* source account's sequence number, the transaction waiting for a ledger  *)
(* and the transactions a ledger has included.  None of it is code of this *)
(* repository; it is what sendTransaction, getTransaction and getAccount   *)
(* of the RPC server let the client observe.                               *)
(*                                                                         *)
(* A restore transaction is <<b, s>>: batch b built with sequence number   *)
(* s.  The hash of a transaction is a function of its content (signatures  *)
(* are not hashed), so two builds of one batch with one sequence number    *)
(* are one transaction (the fee is config.restoreFee).                     *)
(***************************************************************************)
EXTENDS Naturals, FiniteSets

CONSTANTS
  N,        \* number of restore batches in the plan
  MaxSeq    \* bound: the last sequence number a ledger consumes

ASSUME SizeAssumption == N \in Nat \ {0} /\ MaxSeq \in Nat

VARIABLES
  acctSeq,  \* sequence number of the source account
  mempool,  \* transactions accepted and not yet in a ledger
  applied,  \* transactions a ledger included with success
  refused   \* transactions a ledger included with failure

ledgerVars == <<acctSeq, mempool, applied, refused>>

Batches == 1..N
SeqNos  == 1..(MaxSeq + N)
Tx      == Batches \X SeqNos

LedgerTypeOK ==
  /\ acctSeq \in 0..MaxSeq
  /\ mempool \subseteq Tx
  /\ applied \subseteq Tx
  /\ refused \subseteq Tx

LedgerInit ==
  /\ acctSeq = 0
  /\ mempool = {}
  /\ applied = {}
  /\ refused = {}

(***************************************************************************)
(* sendTransaction: the node takes the transaction with the account's next *)
(* sequence number, and one transaction of an account at a time.           *)
(***************************************************************************)
BadSeq(t)     == t[2] # acctSeq + 1
Acceptable(t) == ~BadSeq(t) /\ mempool \subseteq {t}

\* A ledger closes with t: the sequence number is consumed whether or not
\* the operation succeeds.
Include(t) ==
  /\ t \in mempool /\ ~BadSeq(t)
  /\ acctSeq < MaxSeq
  /\ acctSeq' = acctSeq + 1
  /\ mempool' = {}
  /\ \/ applied' = applied \cup {t} /\ UNCHANGED refused
     \/ refused' = refused \cup {t} /\ UNCHANGED applied

\* The node forgets a transaction it had accepted.
Evict(t) ==
  /\ t \in mempool
  /\ mempool' = mempool \ {t}
  /\ UNCHANGED <<acctSeq, applied, refused>>

\* Another user of the account consumes a sequence number.
OtherTx ==
  /\ acctSeq < MaxSeq
  /\ acctSeq' = acctSeq + 1
  /\ mempool' = {}
  /\ UNCHANGED <<applied, refused>>

LedgerNext == OtherTx \/ \E t \in mempool : Include(t) \/ Evict(t)

Landed(b) == \E t \in applied : t[1] = b
=============================================================================
