---------------------------- MODULE LedgerReads -----------------------------
(***************************************************************************)
(* LedgerReadCoalescer (packages/sdk/src/ledger-read-coalescer.ts) and its *)
(* caller detectArchivedKeys: concurrent simulations share the             *)
(* getLedgerEntries request that is already reading a key.                 *)
(*                                                                         *)
(* An entry is a version number, which every change of the ledger raises;  *)
(* an archived entry is a version like any other.  The counters of         *)
(* getStatistics are left out.  When a request settles, the release        *)
(* handlers of all its keys run before any caller continues, so a          *)
(* settlement is one step.  Promise.all gives a call its values only when  *)
(* every request it waits for has settled: until then they are its own.    *)
(***************************************************************************)
EXTENDS Naturals

CONSTANTS
  Askers,    \* callers of getLedgerEntries
  Keys,      \* encoded ledger keys
  Reads,     \* requests that may be in flight together
  NoRead,    \* not a request
  MaxWrites, \* bound: changes of one entry
  MaxCalls   \* bound: calls

ASSUME ReadsAssumption ==
  /\ NoRead \notin Reads
  /\ MaxWrites \in Nat /\ MaxCalls \in Nat

VARIABLES
  live,      \* version of each entry on the ledger (external)
  inFlight,  \* the coalescer's map: the request reading a key
  keysOf,    \* keys a request reads; {} when the request is not in flight
  served,    \* the RPC server has read the ledger for this request
  got,       \* the versions it read
  since,     \* history: versions when the request was issued
  readState, \* "idle", "waiting", "resolved" or "rejected"
  waits,     \* the request each key of a call still waits for
  result,    \* versions collected for a call, which it is given when it resolves
  reported,  \* history: version of each entry that a request settled with last
  called

readVars == <<live, inFlight, keysOf, served, got, since, readState, waits,
              result, reported, called>>

Versions == 0..MaxWrites

ReadTypeOK ==
  /\ live \in [Keys -> Versions]
  /\ inFlight \in [Keys -> Reads \cup {NoRead}]
  /\ keysOf \in [Reads -> SUBSET Keys]
  /\ served \in [Reads -> BOOLEAN]
  /\ got \in [Reads -> [Keys -> Versions]]
  /\ since \in [Reads -> [Keys -> Versions]]
  /\ readState \in [Askers -> {"idle", "waiting", "resolved", "rejected"}]
  /\ waits \in [Askers -> [Keys -> Reads \cup {NoRead}]]
  /\ result \in [Askers -> [Keys -> Versions]]
  /\ reported \in [Keys -> Versions]
  /\ called \in 0..MaxCalls

ReadInit ==
  LET zero == [k \in Keys |-> 0] IN
  /\ live = zero
  /\ inFlight = [k \in Keys |-> NoRead]
  /\ keysOf = [r \in Reads |-> {}]
  /\ served = [r \in Reads |-> FALSE]
  /\ got = [r \in Reads |-> zero]
  /\ since = [r \in Reads |-> zero]
  /\ readState = [c \in Askers |-> "idle"]
  /\ waits = [c \in Askers |-> [k \in Keys |-> NoRead]]
  /\ result = [c \in Askers |-> zero]
  /\ reported = zero
  /\ called = 0

-----------------------------------------------------------------------------
\* Mutant: the map is not consulted.
ToFetchUnchecked(K) == K

\* The keys of a call that no request is reading yet.
ToFetch(K) == {k \in K : inFlight[k] = NoRead}

\* release(id, p): the map forgets the request, unless another replaced it.
Released(r) == [k \in Keys |-> IF inFlight[k] = r THEN NoRead ELSE inFlight[k]]

Waiters(r) == {c \in Askers : \E k \in Keys : waits[c][k] = r}

\* Mutant: a failed request rejects only one of its waiters.
OneRejected(r) ==
  IF Waiters(r) = {} THEN {} ELSE {CHOOSE c \in Waiters(r) : TRUE}

\* A failed request rejects every call waiting on it.
Rejected(r) == Waiters(r)

-----------------------------------------------------------------------------
\* getLedgerEntries(keys): joins the requests in flight and issues one for the
\* keys that are left.  Duplicate keys within a call are read once.
getLedgerEntries(c, K) ==
  /\ readState[c] # "waiting" /\ called < MaxCalls
  /\ \/ ToFetch(K) = {} /\ UNCHANGED <<inFlight, keysOf, served, since>>
     \/ /\ ToFetch(K) # {}
        /\ \E r \in Reads :
             /\ keysOf[r] = {}
             /\ inFlight' = [k \in Keys |->
                  IF k \in ToFetch(K) THEN r ELSE inFlight[k]]
             /\ keysOf' = [keysOf EXCEPT ![r] = ToFetch(K)]
             /\ served' = [served EXCEPT ![r] = FALSE]
             /\ since' = [since EXCEPT ![r] = live]
  /\ waits' = [waits EXCEPT ![c] =
                 [k \in Keys |-> IF k \in K THEN inFlight'[k] ELSE NoRead]]
  /\ readState' = [readState EXCEPT ![c] = "waiting"]
  /\ result' = [result EXCEPT ![c] = [k \in Keys |-> 0]]
  /\ called' = called + 1
  /\ UNCHANGED <<live, got, reported>>

\* The RPC server reads the ledger.  retryOnFailure may send the request
\* again, and the last answer counts.
Serve(r) ==
  /\ keysOf[r] # {}
  /\ served' = [served EXCEPT ![r] = TRUE]
  /\ got' = [got EXCEPT ![r] = live]
  /\ UNCHANGED <<live, inFlight, keysOf, since, readState, waits, result,
                 reported, called>>

\* The answer arrives and is kept for the calls that wait for it.  A call
\* resolves, and is given what was kept, when nothing is left to wait for.
Resolve(r) ==
  /\ keysOf[r] # {} /\ served[r]
  /\ inFlight' = Released(r)
  /\ keysOf' = [keysOf EXCEPT ![r] = {}]
  /\ result' = [c \in Askers |-> [k \in Keys |->
                  IF waits[c][k] = r THEN got[r][k] ELSE result[c][k]]]
  /\ waits' = [c \in Askers |-> [k \in Keys |->
                 IF waits[c][k] = r THEN NoRead ELSE waits[c][k]]]
  /\ readState' = [c \in Askers |->
       IF c \in Waiters(r) /\ \A k \in Keys : waits'[c][k] = NoRead
       THEN "resolved" ELSE readState[c]]
  /\ reported' = [k \in Keys |-> IF k \in keysOf[r] THEN got[r][k] ELSE reported[k]]
  /\ UNCHANGED <<live, served, got, since, called>>

\* The request fails for good: Promise.all rejects every call that waits for
\* it, whatever else the call waits for.
Reject(r) ==
  /\ keysOf[r] # {}
  /\ inFlight' = Released(r)
  /\ keysOf' = [keysOf EXCEPT ![r] = {}]
  /\ waits' = [c \in Askers |-> IF c \in Rejected(r) THEN [k \in Keys |-> NoRead]
                                 ELSE waits[c]]
  /\ readState' = [c \in Askers |->
                     IF c \in Rejected(r) THEN "rejected" ELSE readState[c]]
  /\ UNCHANGED <<live, served, got, since, result, reported, called>>

\* The ledger changes: a restore, another transaction, an archival.
Write(k) ==
  /\ live[k] < MaxWrites
  /\ live' = [live EXCEPT ![k] = @ + 1]
  /\ UNCHANGED <<inFlight, keysOf, served, got, since, readState, waits, result,
                 reported, called>>

SettleRead(r) == Resolve(r) \/ Reject(r)

ReadNext ==
  \/ \E c \in Askers, K \in (SUBSET Keys) \ {{}} : getLedgerEntries(c, K)
  \/ \E r \in Reads : Serve(r) \/ SettleRead(r)
  \/ \E k \in Keys : Write(k)

\* A request is answered or fails; the ledger and the callers owe nothing.
ReadSpec     == ReadInit /\ [][ReadNext]_readVars
ReadFairSpec == ReadSpec /\ \A r \in Reads : WF_readVars(SettleRead(r))

-----------------------------------------------------------------------------
(* Properties.                                                             *)

\* A key is read by one request at a time, whatever calls overlap, and the
\* map knows it: no duplicate request, and no settled request left in the
\* map for later calls to join.
OneReadPerKey ==
  \A k \in Keys, r \in Reads : k \in keysOf[r] <=> inFlight[k] = r

\* Nobody is forgotten: a waiting call waits for a request that is in flight
\* and reads that key, also after another of its requests failed.
WaitsAreLive ==
  /\ \A c \in Askers, k \in Keys :
       waits[c][k] # NoRead => k \in keysOf[waits[c][k]]
  /\ \A c \in Askers :
       readState[c] = "waiting" <=> \E k \in Keys : waits[c][k] # NoRead

\* Joined requests are as good as one register per entry that only moves
\* forward and never ahead of the ledger: a call is given, for each of its
\* keys, what the register held at some moment of the call.  (Not at its end:
\* a call that waits for a second request may be given a version that is older
\* than what another call was given meanwhile.)
Lacks == [c \in Askers |-> {k \in Keys : waits[c][k] # NoRead}]
Abstract == INSTANCE MonotonicReads
              WITH Callers <- Askers, pc <- readState, lacks <- Lacks
ImplementsMonotonicReads == Abstract!Spec

\* Every call resolves or rejects.
CallsSettle ==
  \A c \in Askers : readState[c] = "waiting" ~> readState[c] # "waiting"
=============================================================================
