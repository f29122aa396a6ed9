----------------------------- MODULE KeyBatches -----------------------------
(***************************************************************************)
(* Batches of archived keys: createBatches of packages/utils/src/          *)
(* batching.ts, which the sdk re-exports, and the batching methods of the  *)
(* client in packages/sdk/src/soroban-resurrect.ts.                        *)
(*                                                                         *)
(* An archived key is its contractId, its restorePriority and the length   *)
(* of its base64 form.  ArchivedKey has neither id nor extendsKeyId, so a  *)
(* TTL key stays in the group of keys without a contract.                  *)
(***************************************************************************)
EXTENDS Integers, Sequences, FiniteSets, SequencesExt, FiniteSetsExt, Sifting

CONSTANTS
  ContractIds,    \* contracts
  CodeId,         \* the hash of some code, which is the contractId of its key
  UnknownId,      \* the group of keys without a contractId
  Sizes,          \* keyBase64.length
  XdrLimit,       \* MAX_XDR_SIZE_BYTES
  Overhead,       \* headerOverhead
  BatchSizes,     \* values of maxBatchSize
  MaxArchived     \* bound: archived keys

ASSUME BatchesAssumption ==
  /\ UnknownId \notin ContractIds \cup {CodeId} /\ CodeId \notin ContractIds
  /\ Sizes \subseteq Nat /\ XdrLimit \in Nat /\ Overhead \in Nat
  /\ 1 \in BatchSizes /\ BatchSizes \subseteq Nat \ {0}
  /\ MaxArchived \in Nat

\* Instances and data of the contracts, code, and TTL or unknown entries.
ArchivedKeys ==
  [contractId : ContractIds, restorePriority : {0, 2}, size : Sizes]
    \cup [contractId : {CodeId}, restorePriority : {1}, size : Sizes]
    \cup [contractId : {UnknownId}, restorePriority : {3}, size : Sizes]

VARIABLES
  archivedKeys,  \* the keys, in the order of the footprint
  maxBatchSize,  \* maxBatchSize, and maxRestoreBatchSize of the client
  overBudget     \* whether estimateRestoreFee exceeds maxRestoreFeeStroops

batchVars == <<archivedKeys, maxBatchSize, overBudget>>

-----------------------------------------------------------------------------
(* packages/utils/src/batching.ts.                                         *)

\* A map, in the order in which the contracts first appear.
batchKeysByContract(keys) == GroupedBy([key \in ArchivedKeys |-> key.contractId], keys)

ContractGroups == Seq(ArchivedKeys) \ {<<>>}

SortedBy(rank, seq) ==
  FlattenSeq([p \in 1..4 |-> Kept(seq, {x \in DOMAIN rank : rank[x] = p - 1})])

SortedKeys(keys) == SortedBy([key \in ArchivedKeys |-> key.restorePriority], keys)
SortedGroups(groups) ==
  SortedBy([group \in ContractGroups |-> group[1].restorePriority],
           Mapped([group \in ContractGroups |-> SortedKeys(group)], groups))

Flushed(acc) == IF acc.current = <<>> THEN acc.done ELSE Append(acc.done, acc.current)

\* The continuation batches of a group that is too large.
Slices(group, max) ==
  [i \in 1..((Len(group) + max - 1) \div max) |->
     SubSeq(group, (i - 1) * max + 1, Min({i * max, Len(group)}))]

\* Mutant: the group fills up the current batch and spills over.
Spill(acc, group, max) ==
  LET all == Slices(acc.current \o group, max)
  IN [done |-> acc.done \o Front(all), current |-> Last(all)]

\* One turn of the loop over the groups.
Pack(acc, group, max) ==
  IF Len(group) > max
  THEN [done |-> Flushed(acc) \o Slices(group, max), current |-> <<>>]
  ELSE IF Len(acc.current) + Len(group) > max
  THEN [done |-> Flushed(acc), current |-> group]
  ELSE [acc EXCEPT !.current = @ \o group]

createBatches(keys, max) ==
  Flushed(Loop([acc \in [done : Seq(ContractGroups), current : Seq(ArchivedKeys)] |->
                  [group \in ContractGroups |-> Pack(acc, group, max)]],
               [done |-> <<>>, current |-> <<>>],
               SortedGroups(batchKeysByContract(keys))))

-----------------------------------------------------------------------------
(* The client.                                                             *)

\* Mutant: the entry limit is compared after the key was added.
OneTooMany(batch, size, key) ==
  batch # <<>> /\ \/ size + key.size + Overhead > XdrLimit
                  \/ Len(batch) > maxBatchSize
                  \/ overBudget

\* Whether batchKeys opens a new batch for the key.
LimitExceeded(batch, size, key) ==
  batch # <<>> /\ \/ size + key.size + Overhead > XdrLimit
                  \/ Len(batch) >= maxBatchSize
                  \/ overBudget

AddToBatch(acc, key) ==
  IF LimitExceeded(acc.current, acc.size, key)
  THEN [done |-> Append(acc.done, acc.current), current |-> <<key>>,
        size |-> key.size]
  ELSE [acc EXCEPT !.current = Append(@, key), !.size = @ + key.size + Overhead]

batchKeys(keys) ==
  Flushed(Loop([acc \in [done : Seq(ContractGroups), current : Seq(ArchivedKeys), size : Nat] |->
                  [key \in ArchivedKeys |-> AddToBatch(acc, key)]],
               [done |-> <<>>, current |-> <<>>, size |-> 0], keys))

\* The same grouping as in utils; a key without a contractId is in the group
\* "__unknown__".
groupKeysByContract(keys) == batchKeysByContract(keys)

batchKeyGroups(groups) ==
  FlattenSeq(Mapped([group \in ContractGroups |-> batchKeys(group)], groups))

\* buildRestoreTransactionBatches and its concurrent form, on keys that
\* classifyDeferredKeys has sorted.
ClientBatches(keys)           == batchKeys(SortedKeys(keys))
ConcurrentClientBatches(keys) ==
  batchKeyGroups(groupKeysByContract(SortedKeys(keys)))

-----------------------------------------------------------------------------
\* estimateRestoreFee does not read the batch: its transaction has an empty
\* footprint, and its failure gives the configured fee.  So one verdict holds
\* for every batch.
BatchInit == archivedKeys = <<>> /\ maxBatchSize \in BatchSizes /\ overBudget \in BOOLEAN

\* detectArchivedKeys finds one more key.
FindArchived ==
  /\ Len(archivedKeys) < MaxArchived
  /\ \E key \in ArchivedKeys : archivedKeys' = Append(archivedKeys, key)
  /\ UNCHANGED <<maxBatchSize, overBudget>>

BatchNext == FindArchived

-----------------------------------------------------------------------------
(* Properties.                                                             *)

\* The same keys, as often as before.
SameKeys(batches, keys) ==
  LET all == FlattenSeq(batches)
      Times(s, key) == Len(Kept(s, {key}))
  IN \A key \in ToSet(keys) \cup ToSet(all) : Times(all, key) = Times(keys, key)

\* The batches that hold keys of the contract.
BatchesOf(batches, id) ==
  {i \in DOMAIN batches : \E key \in ToSet(batches[i]) : key.contractId = id}

\* createBatches of the utils loses and repeats no key, keeps the limit, puts a contract's
\* keys into different batches only when they do not fit into one, and then
\* in the order of their priorities.
UtilsBatchesFit ==
  LET batches == createBatches(archivedKeys, maxBatchSize)
      KeysOf(id) == Kept(archivedKeys, {key \in ArchivedKeys : key.contractId = id})
  IN /\ SameKeys(batches, archivedKeys)
     /\ \A i \in DOMAIN batches : Len(batches[i]) \in 1..maxBatchSize
     /\ \A id \in ContractIds \cup {CodeId, UnknownId} :
          /\ Len(KeysOf(id)) <= maxBatchSize => Cardinality(BatchesOf(batches, id)) <= 1
          /\ \A i, j \in BatchesOf(batches, id) : i < j =>
               \A x \in ToSet(batches[i]), y \in ToSet(batches[j]) :
                 x.contractId = id /\ y.contractId = id
                   => x.restorePriority <= y.restorePriority

BytesOf(batch) ==
  Loop([n \in Nat |-> [key \in ArchivedKeys |-> n + key.size + Overhead]], 0, batch)

KeepsLimits(batch) ==
  /\ Len(batch) \in 1..maxBatchSize
  /\ Len(batch) > 1 => ~overBudget /\ BytesOf(batch) <= XdrLimit + Overhead

\* The client's batches lose and repeat no key and keep all three limits, but
\* for the overhead of a batch's first key; the concurrent ones hold keys of
\* one contract each.
ClientBatchesFit ==
  /\ \A batches \in {ClientBatches(archivedKeys), ConcurrentClientBatches(archivedKeys)} :
       SameKeys(batches, archivedKeys) /\ \A i \in DOMAIN batches : KeepsLimits(batches[i])
  /\ \A i \in DOMAIN ConcurrentClientBatches(archivedKeys) :
       \A x, y \in ToSet(ConcurrentClientBatches(archivedKeys)[i]) :
         x.contractId = y.contractId

\* Both ways of dividing archived keys into batches are sound, whatever the
\* order, the sizes and the contracts of the keys and wherever a limit falls.
BatchesFit == UtilsBatchesFit /\ ClientBatchesFit
=============================================================================
