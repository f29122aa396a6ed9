---------------------------- MODULE RestorePlan -----------------------------
(***************************************************************************)
(* From archived ledger keys to restore batches: classifyDeferredKeys of   *)
(* packages/footprint-parser/src/index.ts and the batching methods of      *)
(* packages/core/src/soroban-resurrect.ts.  Pure functions.                *)
(*                                                                         *)
(* A ledger key is what the batching reads of it: the kind of entry, the   *)
(* contract named in it and the length of its base64 form.                 *)
(***************************************************************************)
EXTENDS Integers, Sequences, SequencesExt, Sifting

CONSTANTS
  Contracts,      \* contracts the footprint may name
  Lengths,        \* lengths of keyBase64
  MaxXdrSize,     \* MAX_XDR_SIZE_BYTES
  HeaderOverhead  \* headerOverhead of batchKeys

ASSUME PlanAssumption ==
  /\ Lengths \subseteq Nat
  /\ MaxXdrSize \in Nat /\ HeaderOverhead \in Nat

Kinds == {"instance", "code", "data", "ttl"}
Keys  == [kind : Kinds, contract : Contracts, length : Lengths]

-----------------------------------------------------------------------------
(* classifyLedgerKey.                                                      *)

Unknown == "__unknown__"

Priority == [k \in Kinds |-> CASE k = "instance" -> 0
                               [] k = "code"     -> 1
                               [] OTHER          -> 2]

\* A TTL key carries a hash, so extractContractIdFromTtlKey finds no contract.
\* The contract of contract code is the hash of the code, which no other key
\* of the contract names.
GroupOf(key) ==
  CASE key.kind = "ttl"  -> <<Unknown>>
    [] key.kind = "code" -> <<"code", key.contract>>
    [] OTHER             -> <<key.contract>>

\* classifyDeferredKeys: a stable sort by restorePriority.
Classify(keys) ==
  LET Of(p) == Kept(keys, {key \in Keys : Priority[key.kind] = p})
  IN Of(0) \o Of(1) \o Of(2)

-----------------------------------------------------------------------------
(* batchKeys, groupKeysByContract and batchKeyGroups.                      *)

\* The variables of the loop: batches, currentBatch and currentSize.
Packing == [done : Seq(Seq(Keys)), current : Seq(Keys), size : Nat]

\* Mutant: the key that overflows a batch opens no new one and is dropped.
DropOverflow(acc, key) ==
  LET total == acc.size + key.length + HeaderOverhead
  IN IF total > MaxXdrSize /\ acc.current # <<>>
     THEN [done |-> Append(acc.done, acc.current), current |-> <<>>, size |-> 0]
     ELSE [acc EXCEPT !.current = Append(@, key), !.size = total]

\* One turn of the loop of batchKeys.  The first key of a later batch is
\* counted without the overhead.
AddKey(acc, key) ==
  LET total == acc.size + key.length + HeaderOverhead
  IN IF total > MaxXdrSize /\ acc.current # <<>>
     THEN [done    |-> Append(acc.done, acc.current),
           current |-> <<key>>,
           size    |-> key.length]
     ELSE [acc EXCEPT !.current = Append(@, key), !.size = total]

BatchKeys(keys) ==
  LET end == Loop([acc \in Packing |-> [key \in Keys |-> AddKey(acc, key)]],
                  [done |-> <<>>, current |-> <<>>, size |-> 0], keys)
  IN IF end.current = <<>> THEN end.done ELSE Append(end.done, end.current)

\* The map of groupKeysByContract keeps the order in which groups first appear.
GroupKeysByContract(keys) == GroupedBy([key \in Keys |-> GroupOf(key)], keys)

BatchKeyGroups(groups) == FlattenSeq([i \in DOMAIN groups |-> BatchKeys(groups[i])])

\* The batches of buildRestoreTransactionBatches and of
\* buildRestoreTransactionBatchesConcurrent.
SequentialPlan(keys) == BatchKeys(Classify(keys))
GroupedPlan(keys)    == BatchKeyGroups(GroupKeysByContract(Classify(keys)))

-----------------------------------------------------------------------------
(* What a plan promises.                                                   *)

EstimatedSize(batch) ==
  Loop([n \in Nat |-> [key \in Keys |-> n + key.length + HeaderOverhead]], 0, batch)

\* Every key is in exactly one batch, as often as it was given.
HoldsAll(batches, keys) ==
  LET all == FlattenSeq(batches)
      Times(s, key) == Len(Kept(s, {key}))
  IN \A key \in ToSet(keys) \cup ToSet(all) : Times(all, key) = Times(keys, key)

\* No batch of several keys outgrows the limit by more than the overhead of
\* the first key, which batchKeys does not count.
FitsTransaction(batch) ==
  Len(batch) > 1 => EstimatedSize(batch) <= MaxXdrSize + HeaderOverhead

\* The instance of a contract is restored no later than its data.
InstanceFirst(batches) ==
  \A i, j \in DOMAIN batches : \A x \in ToSet(batches[i]), y \in ToSet(batches[j]) :
    x.kind = "instance" /\ y.kind = "data" /\ x.contract = y.contract => i <= j

OneGroup(batch) == \A x, y \in ToSet(batch) : GroupOf(x) = GroupOf(y)
=============================================================================
