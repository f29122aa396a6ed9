---------------------------- MODULE AuthEntries -----------------------------
(***************************************************************************)
(* packages/sdk/src/auth-entry-restoration.ts: which authorization entries *)
(* of a transaction depend on archived contract instances, and which       *)
(* ledger keys have to be restored for them.                               *)
(*                                                                         *)
(* An authorization entry is its tree of invocations: a node calls a       *)
(* contract, or does something else, and has sub-invocations.  A ledger    *)
(* key is the contract whose instance entry it names.                      *)
(***************************************************************************)
EXTENDS FiniteSets, Sequences, SequencesExt, Sifting

CONSTANTS
  Callees,       \* contracts
  OtherFn,       \* a function of another type, such as creating a contract
  MaxEntries     \* bound: authorization entries of a transaction

ASSUME AuthAssumption == OtherFn \notin Callees /\ MaxEntries \in Nat

Leaf(fn) == [fn |-> fn, subs |-> <<>>]
Callable == Callees \cup {OtherFn}

\* Invocations of depth up to three.
Invocations ==
  LET leaves == {Leaf(fn) : fn \in Callable}
      deep   == [fn : Callable, subs : {<<x>> : x \in leaves}]
  IN leaves \cup deep \cup [fn : Callable, subs : {<<Leaf(OtherFn), x>> : x \in deep}]

OwnKey(node) == IF node.fn = OtherFn THEN <<>> ELSE <<node.fn>>

\* Mutant: sub-invocations are not walked.
RootOnly(node) == OwnKey(node)

\* extractAuthEntryKeys, in the order of the walk.
extractAuthEntryKeys(node) ==
  LET keys[n \in Invocations] ==
        OwnKey(n) \o FlattenSeq([i \in DOMAIN n.subs |-> keys[n.subs[i]]])
  IN keys[node]

Expired(node, archivedSet) ==
  Kept(extractAuthEntryKeys(node), archivedSet)

\* detectExpiredAuthEntries.
Scan(list, archivedSet) ==
  LET needy == {node \in Invocations : Expired(node, archivedSet) # <<>>}
  IN [valid |-> Kept(list, Invocations \ needy), expired |-> Kept(list, needy)]

\* keysToRestoreForAuthEntries: the first occurrence of each key.
keysToRestoreForAuthEntries(list, archivedSet) ==
  LET expired == Scan(list, archivedSet).expired
  IN Firsts(Callees,
            FlattenSeq([i \in DOMAIN expired |-> Expired(expired[i], archivedSet)]))

-----------------------------------------------------------------------------
VARIABLES entries, archivedCallees

authVars == <<entries, archivedCallees>>

AuthInit == entries = <<>> /\ archivedCallees = {}

\* The transaction has one more authorization entry.
AddEntry ==
  /\ Len(entries) < MaxEntries
  /\ \E node \in Invocations : entries' = Append(entries, node)
  /\ UNCHANGED archivedCallees

\* One more contract instance is archived.
ArchiveCallee ==
  /\ \E c \in Callees \ archivedCallees :
       archivedCallees' = archivedCallees \cup {c}
  /\ UNCHANGED entries

AuthNext == AddEntry \/ ArchiveCallee

-----------------------------------------------------------------------------
\* The contracts a tree calls, whatever the order of the walk.
Calls(node) ==
  LET called[n \in Invocations] ==
        ({n.fn} \cap Callees) \cup UNION {called[sub] : sub \in ToSet(n.subs)}
  IN called[node]

\* Restoring the reported keys makes every authorization entry valid, none of
\* them is reported twice, and all of them are archived and needed.
AuthKeysSuffice ==
  LET keys == keysToRestoreForAuthEntries(entries, archivedCallees)
      left == archivedCallees \ ToSet(keys)
  IN /\ \A i \in DOMAIN entries : Calls(entries[i]) \cap left = {}
     /\ Cardinality(ToSet(keys)) = Len(keys)
     /\ \A key \in ToSet(keys) :
          key \in archivedCallees /\ \E i \in DOMAIN entries : key \in Calls(entries[i])
=============================================================================
