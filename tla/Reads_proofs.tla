---------------------------- MODULE Reads_proofs ----------------------------
(***************************************************************************)
(* What the client reads of the ledger.                                    *)
(*                                                                         *)
(* LedgerReads keeps its invariants and implements MonotonicReads, for every *)
(* number of callers, keys, requests and changes.  Monotonicity needs to know *)
(* what a request in flight can still report: ReportedInv says that no     *)
(* newer version of its keys was reported than the ledger held when the    *)
(* request was issued, which holds because no other request reads them     *)
(* meanwhile (OneReadPerKey).                                              *)
(*                                                                         *)
(* ClientReads: the circuit breaker that the retry loops share, for every  *)
(* number of calls, threshold, timeout and number of retries, and the age of *)
(* the answers that the simulation cache gives, for every size and time to *)
(* live.                                                                   *)
(***************************************************************************)
EXTENDS LedgerReads, ClientReads, Sifting_proofs, TLAPS

ReportedInv ==
  /\ \A k \in Keys : reported[k] <= live[k]
  /\ \A r \in Reads, k \in Keys : k \in keysOf[r] =>
       /\ reported[k] <= since[r][k] /\ since[r][k] <= live[k]
       /\ served[r] => since[r][k] <= got[r][k] /\ got[r][k] <= live[k]

IInv == OneReadPerKey /\ WaitsAreLive /\ ReportedInv

-----------------------------------------------------------------------------
(* Types.                                                                  *)

LEMMA TypeInit == ReadInit => ReadTypeOK
  BY ReadsAssumption DEF ReadInit, ReadTypeOK, Versions

LEMMA TypeNext == ReadTypeOK /\ [ReadNext]_readVars => ReadTypeOK'
<1> SUFFICES ASSUME ReadTypeOK, [ReadNext]_readVars PROVE ReadTypeOK'
  OBVIOUS
<1>1. ASSUME NEW c \in Askers, NEW K \in (SUBSET Keys) \ {{}}, getLedgerEntries(c, K)
      PROVE  ReadTypeOK'
  <2>2. inFlight' \in [Keys -> Reads \cup {NoRead}]
    BY <1>1 DEF ReadTypeOK, getLedgerEntries
  <2>3. waits' \in [Askers -> [Keys -> Reads \cup {NoRead}]]
    BY <1>1, <2>2 DEF ReadTypeOK, getLedgerEntries
  <2>5. /\ keysOf' \in [Reads -> SUBSET Keys]
        /\ served' \in [Reads -> BOOLEAN]
        /\ since' \in [Reads -> [Keys -> Versions]]
    <3>1. CASE ToFetch(K) = {}
      BY <1>1, <3>1 DEF ReadTypeOK, getLedgerEntries
    <3>2. CASE ToFetch(K) # {}
      <4>1. ToFetch(K) \in SUBSET Keys
        BY DEF ToFetch
      <4>2. PICK r \in Reads :
              /\ keysOf' = [keysOf EXCEPT ![r] = ToFetch(K)]
              /\ served' = [served EXCEPT ![r] = FALSE]
              /\ since' = [since EXCEPT ![r] = live]
        BY <1>1, <3>2 DEF getLedgerEntries
      <4>3. QED
        BY <4>1, <4>2 DEF ReadTypeOK
    <3>3. QED
      BY <3>1, <3>2
  <2>6. called' \in 0..MaxCalls
    BY <1>1, ReadsAssumption DEF ReadTypeOK, getLedgerEntries
  <2>7. 0 \in Versions /\ live \in [Keys -> Versions]
    BY ReadsAssumption DEF ReadTypeOK, Versions
  <2>8. result' \in [Askers -> [Keys -> Versions]]
    BY <1>1, <2>7 DEF ReadTypeOK, getLedgerEntries
  <2>10. QED
    BY <1>1, <2>2, <2>3, <2>5, <2>6, <2>8 DEF ReadTypeOK, getLedgerEntries
<1>2. ASSUME NEW r \in Reads, Serve(r)
      PROVE  ReadTypeOK'
  BY <1>2 DEF ReadTypeOK, Serve
<1>3. ASSUME NEW r \in Reads, Resolve(r)
      PROVE  ReadTypeOK'
  BY <1>3 DEF ReadTypeOK, Resolve, Released
<1>4. ASSUME NEW r \in Reads, Reject(r)
      PROVE  ReadTypeOK'
  BY <1>4 DEF ReadTypeOK, Reject, Released
<1>5. ASSUME NEW k \in Keys, Write(k)
      PROVE  ReadTypeOK'
  <2>1. live[k] + 1 \in Versions
    BY <1>5, ReadsAssumption DEF ReadTypeOK, Write, Versions
  <2>2. QED
    BY <1>5, <2>1 DEF ReadTypeOK, Write
<1>6. CASE UNCHANGED readVars
  BY <1>6 DEF ReadTypeOK, readVars
<1>7. QED
  BY <1>1, <1>2, <1>3, <1>4, <1>5, <1>6 DEF ReadNext, SettleRead

\* Type correctness of LedgerReads.
THEOREM TypeCorrect == ReadSpec => []ReadTypeOK
  BY TypeInit, TypeNext, PTL DEF ReadSpec

-----------------------------------------------------------------------------
(* The inductive invariant.                                                *)

LEMMA InvInit == ReadInit => IInv
  BY ReadsAssumption DEF ReadInit, IInv, OneReadPerKey, WaitsAreLive, ReportedInv

LEMMA CallInv ==
  ASSUME ReadTypeOK, IInv, NEW c \in Askers, NEW K \in (SUBSET Keys) \ {{}}, getLedgerEntries(c, K)
  PROVE  IInv'
<1>1. OneReadPerKey'
  <2>1. CASE ToFetch(K) = {}
    BY <2>1 DEF IInv, OneReadPerKey, getLedgerEntries
  <2>2. CASE ToFetch(K) # {}
    <3>1. PICK q \in Reads :
            /\ keysOf[q] = {}
            /\ inFlight' = [k \in Keys |-> IF k \in ToFetch(K) THEN q ELSE inFlight[k]]
            /\ keysOf' = [keysOf EXCEPT ![q] = ToFetch(K)]
      BY <2>2 DEF getLedgerEntries
    <3>2. QED
      BY <3>1, ReadsAssumption DEF IInv, OneReadPerKey, ReadTypeOK, ToFetch
  <2>3. QED
    BY <2>1, <2>2
<1>2. \A r \in Reads : keysOf[r] \subseteq keysOf'[r]
  BY DEF getLedgerEntries, ReadTypeOK
<1>3. \A k \in K : inFlight'[k] \in Reads
  <2>1. CASE ToFetch(K) = {}
    BY <2>1 DEF getLedgerEntries, ReadTypeOK, ToFetch
  <2>2. CASE ToFetch(K) # {}
    BY <2>2 DEF getLedgerEntries, ReadTypeOK, ToFetch
  <2>3. QED
    BY <2>1, <2>2
<1>4. waits' = [waits EXCEPT ![c] = [k \in Keys |-> IF k \in K THEN inFlight'[k] ELSE NoRead]]
  BY DEF getLedgerEntries
<1>5. WaitsAreLive'
  <2>1. \A d \in Askers, k \in Keys :
          waits'[d][k] # NoRead => k \in keysOf'[waits'[d][k]]
    <3> SUFFICES ASSUME NEW d \in Askers, NEW k \in Keys, waits'[d][k] # NoRead
                 PROVE  k \in keysOf'[waits'[d][k]]
      OBVIOUS
    <3>1. CASE d = c
      BY <3>1, <1>1, <1>3, <1>4, ReadsAssumption DEF OneReadPerKey, ReadTypeOK
    <3>2. CASE d # c
      BY <3>2, <1>2, <1>4 DEF IInv, WaitsAreLive, ReadTypeOK
    <3>3. QED
      BY <3>1, <3>2
  <2>2. readState' = [readState EXCEPT ![c] = "waiting"]
    BY DEF getLedgerEntries
  <2>3. \E k \in Keys : waits'[c][k] # NoRead
    <3>1. PICK k : k \in K
      BY K # {}
    <3>2. k \in Keys /\ inFlight'[k] # NoRead
      BY <3>1, <1>3, ReadsAssumption
    <3>3. waits'[c] = [j \in Keys |-> IF j \in K THEN inFlight'[j] ELSE NoRead]
      BY <1>4 DEF ReadTypeOK
    <3>4. waits'[c][k] = inFlight'[k]
      BY <3>1, <3>2, <3>3
    <3>5. QED
      BY <3>2, <3>4
  <2>4. QED
    BY <2>1, <2>2, <2>3, <1>4 DEF IInv, WaitsAreLive, ReadTypeOK
<1>6. ReportedInv'
  <2>1. CASE ToFetch(K) = {}
    BY <2>1 DEF IInv, ReportedInv, getLedgerEntries
  <2>2. CASE ToFetch(K) # {}
    <3>1. PICK q \in Reads :
            /\ keysOf' = [keysOf EXCEPT ![q] = ToFetch(K)]
            /\ served' = [served EXCEPT ![q] = FALSE]
            /\ since' = [since EXCEPT ![q] = live]
      BY <2>2 DEF getLedgerEntries
    <3>2. UNCHANGED <<live, got, reported>>
      BY DEF getLedgerEntries
    <3>3. \A k \in Keys : live[k] \in Nat /\ reported[k] \in Nat
      BY DEF ReadTypeOK, Versions
    <3>4. \A r \in Reads \ {q} : keysOf'[r] = keysOf[r] /\ served'[r] = served[r] /\ since'[r] = since[r]
      BY <3>1 DEF ReadTypeOK
    <3>5. served'[q] = FALSE /\ since'[q] = live
      BY <3>1 DEF ReadTypeOK
    <3>6. QED
      BY <3>2, <3>3, <3>4, <3>5 DEF IInv, ReportedInv
  <2>3. QED
    BY <2>1, <2>2
<1>7. QED
  BY <1>1, <1>5, <1>6 DEF IInv

LEMMA ServeInv ==
  ASSUME ReadTypeOK, IInv, NEW r \in Reads, Serve(r)
  PROVE  IInv'
<1>1. OneReadPerKey' /\ WaitsAreLive'
  BY DEF Serve, IInv, OneReadPerKey, WaitsAreLive
<1>2. \A k \in Keys : live[k] \in Nat
  BY DEF ReadTypeOK, Versions
<1>3. \A q \in Reads : got'[q] = IF q = r THEN live ELSE got[q]
  BY DEF Serve, ReadTypeOK
<1>4. \A q \in Reads \ {r} : served'[q] = served[q]
  BY DEF Serve, ReadTypeOK
<1>5. ReportedInv'
  BY <1>2, <1>3, <1>4 DEF Serve, IInv, ReportedInv
<1>6. QED
  BY <1>1, <1>5 DEF IInv

LEMMA SettleInv ==
  ASSUME ReadTypeOK, IInv, NEW r \in Reads, Resolve(r) \/ Reject(r)
  PROVE  OneReadPerKey' /\ WaitsAreLive'
<1>1. OneReadPerKey'
  <2>1. /\ inFlight' = [k \in Keys |-> IF inFlight[k] = r THEN NoRead ELSE inFlight[k]]
        /\ keysOf' = [keysOf EXCEPT ![r] = {}]
    BY DEF Resolve, Reject, Released
  <2>2. \A q \in Reads : keysOf'[q] = IF q = r THEN {} ELSE keysOf[q]
    BY <2>1 DEF ReadTypeOK
  <2>3. QED
    BY <2>1, <2>2, ReadsAssumption DEF IInv, OneReadPerKey
<1>2. CASE Resolve(r)
  <2>1. \A d \in Askers, k \in Keys :
          waits'[d][k] = IF waits[d][k] = r THEN NoRead ELSE waits[d][k]
    BY <1>2 DEF Resolve
  <2>2. \A q \in Reads \ {r} : keysOf'[q] = keysOf[q]
    BY <1>2 DEF Resolve, ReadTypeOK
  <2>3. \A d \in Askers, k \in Keys :
          waits'[d][k] # NoRead => k \in keysOf'[waits'[d][k]]
    BY <2>1, <2>2 DEF IInv, WaitsAreLive, ReadTypeOK
  <2>4. ASSUME NEW d \in Askers
        PROVE  readState'[d] = "waiting" <=> \E k \in Keys : waits'[d][k] # NoRead
    <3>1. readState'[d] = IF d \in Waiters(r) /\ \A k \in Keys : waits'[d][k] = NoRead
                   THEN "resolved" ELSE readState[d]
      BY <1>2 DEF Resolve
    <3>2. CASE d \in Waiters(r)
      BY <3>1, <3>2, <2>1, ReadsAssumption DEF IInv, WaitsAreLive, Waiters
    <3>3. CASE d \notin Waiters(r)
      BY <3>1, <3>3, <2>1 DEF IInv, WaitsAreLive, Waiters
    <3>4. QED
      BY <3>2, <3>3
  <2>5. QED
    BY <1>1, <2>3, <2>4 DEF WaitsAreLive
<1>3. CASE Reject(r)
  <2>1. \A d \in Askers : waits'[d] = IF d \in Waiters(r) THEN [k \in Keys |-> NoRead]
                                       ELSE waits[d]
    BY <1>3 DEF Reject, Rejected
  <2>2. \A d \in Askers : readState'[d] = IF d \in Waiters(r) THEN "rejected" ELSE readState[d]
    BY <1>3 DEF Reject, Rejected
  <2>3. \A q \in Reads \ {r} : keysOf'[q] = keysOf[q]
    BY <1>3 DEF Reject, ReadTypeOK
  <2>4. \A d \in Askers, k \in Keys :
          waits'[d][k] # NoRead => k \in keysOf'[waits'[d][k]]
    <3> SUFFICES ASSUME NEW d \in Askers, NEW k \in Keys, waits'[d][k] # NoRead
                 PROVE  k \in keysOf'[waits'[d][k]]
      OBVIOUS
    <3>1. d \notin Waiters(r) /\ waits'[d][k] = waits[d][k]
      BY <2>1
    <3>2. waits[d][k] # r /\ waits[d][k] \in Reads
      BY <3>1 DEF Waiters, ReadTypeOK
    <3>3. QED
      BY <2>3, <3>1, <3>2 DEF IInv, WaitsAreLive
  <2>5. \A d \in Askers : readState'[d] = "waiting" <=> \E k \in Keys : waits'[d][k] # NoRead
    BY <2>1, <2>2 DEF IInv, WaitsAreLive
  <2>6. QED
    BY <1>1, <2>4, <2>5 DEF WaitsAreLive
<1>4. QED
  BY <1>2, <1>3

\* What a request reports lies between what was reported and what the ledger
\* has.
LEMMA Delivery ==
  ASSUME ReadTypeOK, IInv, NEW r \in Reads, Resolve(r), NEW k \in Keys
  PROVE  /\ reported[k] <= reported'[k] /\ reported'[k] <= live[k]
         /\ k \notin keysOf[r] => reported'[k] = reported[k]
<1>1. reported'[k] = IF k \in keysOf[r] THEN got[r][k] ELSE reported[k]
  BY DEF Resolve
<1>2. /\ reported[k] \in Nat /\ live[k] \in Nat
      /\ got[r][k] \in Nat /\ since[r][k] \in Nat
  BY DEF ReadTypeOK, Versions
<1>3. CASE k \in keysOf[r]
  <2>1. served[r]
    BY DEF Resolve
  <2>2. QED
    BY <1>1, <1>2, <1>3, <2>1 DEF IInv, ReportedInv
<1>4. CASE k \notin keysOf[r]
  BY <1>1, <1>2, <1>4 DEF IInv, ReportedInv
<1>5. QED
  BY <1>3, <1>4

LEMMA InvNext == ReadTypeOK /\ IInv /\ [ReadNext]_readVars => IInv'
<1> SUFFICES ASSUME ReadTypeOK, IInv, [ReadNext]_readVars PROVE IInv'
  OBVIOUS
<1>1. ASSUME NEW r \in Reads, Resolve(r)
      PROVE  IInv'
  <2>1. \A q \in Reads : keysOf'[q] = IF q = r THEN {} ELSE keysOf[q]
    BY <1>1 DEF Resolve, ReadTypeOK
  <2>2. UNCHANGED <<live, served, got, since>>
    BY <1>1 DEF Resolve
  <2>3. \A q \in Reads, k \in Keys : q # r /\ k \in keysOf[q] => reported'[k] = reported[k]
    BY <1>1, Delivery DEF IInv, OneReadPerKey
  <2>4. \A k \in Keys : reported'[k] <= live[k]
    BY <1>1, Delivery
  <2>5. ReportedInv'
    BY <2>1, <2>2, <2>3, <2>4 DEF IInv, ReportedInv
  <2>6. QED
    BY <1>1, <2>5, SettleInv DEF IInv
<1>2. ASSUME NEW r \in Reads, Reject(r)
      PROVE  IInv'
  <2>1. \A q \in Reads : keysOf'[q] = IF q = r THEN {} ELSE keysOf[q]
    BY <1>2 DEF Reject, ReadTypeOK
  <2>2. ReportedInv'
    BY <1>2, <2>1 DEF Reject, IInv, ReportedInv
  <2>3. QED
    BY <1>2, <2>2, SettleInv DEF IInv
<1>3. ASSUME NEW k \in Keys, Write(k)
      PROVE  IInv'
  <2>1. \A j \in Keys : live[j] \in Nat /\ live'[j] \in Nat /\ live[j] <= live'[j]
    BY <1>3 DEF Write, ReadTypeOK, Versions
  <2>2. /\ \A j \in Keys : reported[j] \in Nat
        /\ \A r \in Reads, j \in Keys : since[r][j] \in Nat /\ got[r][j] \in Nat
    BY DEF ReadTypeOK, Versions
  <2>3. UNCHANGED <<reported, since, got, served, keysOf>>
    BY <1>3 DEF Write
  <2>4. ReportedInv'
    BY <2>1, <2>2, <2>3 DEF IInv, ReportedInv
  <2>5. QED
    BY <1>3, <2>4 DEF Write, IInv, OneReadPerKey, WaitsAreLive
<1>4. CASE UNCHANGED readVars
  BY <1>4 DEF readVars, IInv, OneReadPerKey, WaitsAreLive, ReportedInv
<1>5. QED
  BY <1>1, <1>2, <1>3, <1>4, CallInv, ServeInv DEF ReadNext, SettleRead

LEMMA Invariance == ReadSpec => [](ReadTypeOK /\ IInv)
  BY TypeInit, TypeNext, InvInit, InvNext, PTL DEF ReadSpec

-----------------------------------------------------------------------------
(* Each step of LedgerReads is one of MonotonicReads.                      *)

\* Exactly the calls that lack a key of a request in flight wait for it.
LEMMA LackersWait ==
  ASSUME ReadTypeOK, IInv, NEW r \in Reads
  PROVE  /\ \A c \in Askers : Lacks[c] = {k \in Keys : waits[c][k] # NoRead}
         /\ \A c \in Askers, k \in Keys :
              waits[c][k] = r <=> k \in Lacks[c] /\ k \in keysOf[r]
         /\ Abstract!Affected(keysOf[r]) = Waiters(r)
<1>1. \A c \in Askers : Lacks[c] = {k \in Keys : waits[c][k] # NoRead}
  BY DEF Lacks
<1>2. ASSUME NEW c \in Askers, NEW k \in Keys
      PROVE  waits[c][k] = r <=> k \in Lacks[c] /\ k \in keysOf[r]
  <2>1. waits[c][k] \in Reads \cup {NoRead} /\ r # NoRead
    BY ReadsAssumption DEF ReadTypeOK
  <2>2. waits[c][k] # NoRead => k \in keysOf[waits[c][k]]
    BY DEF IInv, WaitsAreLive
  <2>3. \A q \in Reads : k \in keysOf[q] <=> inFlight[k] = q
    BY DEF IInv, OneReadPerKey
  <2>4. k \in Lacks[c] <=> waits[c][k] # NoRead
    BY <1>1
  <2> QED BY <2>1, <2>2, <2>3, <2>4
<1>3. keysOf[r] \subseteq Keys
  BY DEF ReadTypeOK
<1>4. \A c \in Askers : Lacks[c] \cap keysOf[r] # {} <=> \E k \in Keys : waits[c][k] = r
  BY <1>2, <1>3
<1> QED BY <1>1, <1>2, <1>4 DEF Abstract!Affected, Waiters

LEMMA AskRefines ==
  ASSUME ReadTypeOK, IInv,
         NEW c \in Askers, NEW K \in (SUBSET Keys) \ {{}}, getLedgerEntries(c, K)
  PROVE  Abstract!Ask(c, K)
<1>1. waits' = [waits EXCEPT ![c] = [k \in Keys |-> IF k \in K THEN inFlight'[k] ELSE NoRead]]
  BY DEF getLedgerEntries
<1>2. \A k \in K : inFlight'[k] # NoRead
  BY ReadsAssumption DEF getLedgerEntries, ReadTypeOK, ToFetch
<1>3. \A d \in Askers : waits'[d] = IF d = c
        THEN [k \in Keys |-> IF k \in K THEN inFlight'[k] ELSE NoRead] ELSE waits[d]
  BY <1>1 DEF ReadTypeOK
<1>4. \A d \in Askers : {k \in Keys : waits'[d][k] # NoRead} =
        IF d = c THEN K ELSE {k \in Keys : waits[d][k] # NoRead}
  BY <1>2, <1>3
<1>5. Lacks' = [Lacks EXCEPT ![c] = K]
  BY <1>4 DEF Lacks
<1> QED BY <1>5 DEF getLedgerEntries, Abstract!Ask

LEMMA ReportRefines ==
  ASSUME ReadTypeOK, ReadTypeOK', IInv, NEW r \in Reads, Resolve(r)
  PROVE  Abstract!Report(keysOf[r])
<1> DEFINE K == keysOf[r]
<1>1. /\ \A c \in Askers : Lacks[c] = {k \in Keys : waits[c][k] # NoRead}
      /\ \A c \in Askers, k \in Keys : waits[c][k] = r <=> k \in Lacks[c] /\ k \in K
      /\ Abstract!Affected(K) = Waiters(r)
  BY LackersWait
<1>2. /\ reported' \in [Keys -> Nat]
      /\ \A k \in Keys : reported[k] <= reported'[k] /\ reported'[k] <= live[k]
      /\ \A k \in Keys \ K : reported'[k] = reported[k]
  BY Delivery DEF ReadTypeOK, Versions
<1>3. \A k \in K \cap Keys : reported'[k] = got[r][k]
  BY DEF Resolve
<1>4. result' = [c \in Askers |-> [k \in Keys |->
                   IF k \in Lacks[c] \cap K THEN reported'[k] ELSE result[c][k]]]
  BY <1>1, <1>3 DEF Resolve
<1>5. \A c \in Askers, k \in Keys :
        waits'[c][k] = IF waits[c][k] = r THEN NoRead ELSE waits[c][k]
  BY DEF Resolve
<1>6. \A c \in Askers : {k \in Keys : waits'[c][k] # NoRead} = Lacks[c] \ K
  BY <1>1, <1>5
<1>7. Lacks' = [c \in Askers |-> Lacks[c] \ K]
  BY <1>6 DEF Lacks
<1>8. \A c \in Askers :
        (\A k \in Keys : waits'[c][k] = NoRead) <=> Lacks[c] \subseteq K
  BY <1>1, <1>6
<1>9. readState' = [c \in Askers |-> IF c \in Abstract!Affected(K) /\ Lacks[c] \subseteq K
                               THEN "resolved" ELSE readState[c]]
  BY <1>1, <1>8 DEF Resolve
<1>10. UNCHANGED live
  BY DEF Resolve
<1> HIDE DEF K
<1> QED BY <1>2, <1>4, <1>7, <1>9, <1>10 DEF Abstract!Report, K

LEMMA FailRefines ==
  ASSUME ReadTypeOK, IInv, NEW r \in Reads, Reject(r)
  PROVE  Abstract!Fail(keysOf[r])
<1>1. Abstract!Affected(keysOf[r]) = Waiters(r)
  BY LackersWait
<1>2. \A c \in Askers : waits'[c] = IF c \in Waiters(r) THEN [k \in Keys |-> NoRead]
                                     ELSE waits[c]
  BY DEF Reject, Rejected
<1>3. \A c \in Askers : {k \in Keys : waits'[c][k] # NoRead} =
        IF c \in Waiters(r) THEN {} ELSE {k \in Keys : waits[c][k] # NoRead}
  BY <1>2
<1>4. Lacks' = [c \in Askers |-> IF c \in Waiters(r) THEN {} ELSE Lacks[c]]
  BY <1>3 DEF Lacks
<1> QED BY <1>1, <1>4 DEF Reject, Rejected, Abstract!Fail

-----------------------------------------------------------------------------
\* Overlapping calls never read a key twice at once, and a request that has
\* settled is never joined.
THEOREM ReadsExclusive == ReadSpec => []OneReadPerKey
  BY Invariance, PTL DEF IInv

\* No call is left waiting for a request that has settled.
THEOREM NobodyForgotten == ReadSpec => []WaitsAreLive
  BY Invariance, PTL DEF IInv

\* LedgerReadCoalescer implements MonotonicReads: what a call is given of an
\* entry was the newest version reported at some moment of the call, and no
\* request ever reports an older version than one before it.
THEOREM Monotonic == ReadSpec => ImplementsMonotonicReads
<1> DEFINE absVars == <<live, reported, readState, Lacks, result>>
<1>1. ReadInit => Abstract!Init
  BY DEF ReadInit, Abstract!Init, Lacks
<1>2. ReadTypeOK /\ ReadTypeOK' /\ IInv /\ [ReadNext]_readVars => [Abstract!Next]_absVars
  <2> SUFFICES ASSUME ReadTypeOK, ReadTypeOK', IInv, [ReadNext]_readVars
               PROVE  [Abstract!Next]_absVars
    OBVIOUS
  <2>1. ASSUME NEW r \in Reads, Resolve(r)
        PROVE  Abstract!Report(keysOf[r])
    BY <2>1, ReportRefines
  <2>2. ASSUME NEW r \in Reads, Reject(r)
        PROVE  Abstract!Fail(keysOf[r])
    BY <2>2, FailRefines
  <2>3. ASSUME NEW c \in Askers, NEW K \in (SUBSET Keys) \ {{}}, getLedgerEntries(c, K)
        PROVE  Abstract!Ask(c, K)
    BY <2>3, AskRefines
  <2>4. ASSUME NEW k \in Keys, Write(k)
        PROVE  Abstract!Write(k)
    BY <2>4 DEF Write, Abstract!Write, Lacks
  <2>5. ASSUME NEW r \in Reads, Serve(r)
        PROVE  UNCHANGED absVars
    BY <2>5 DEF Serve, Lacks
  <2>6. CASE UNCHANGED readVars
    BY <2>6 DEF readVars, Lacks
  <2>7. \A r \in Reads : keysOf[r] \in SUBSET Keys
    BY DEF ReadTypeOK
  <2>8. QED
    BY <2>1, <2>2, <2>3, <2>4, <2>5, <2>6, <2>7 DEF ReadNext, SettleRead, Abstract!Next
<1>3. QED
  BY <1>1, <1>2, TypeCorrect, Invariance, PTL
    DEF ReadSpec, ImplementsMonotonicReads, Abstract!Spec

-----------------------------------------------------------------------------
(* The circuit breaker.                                                    *)

\* The breaker counts no more failures than there were since the last success,
\* and the one retry that an open circuit granted has left its flag behind.
BreakerInv ==
  /\ now \in Nat /\ now <= MaxNow
  /\ breaker \in Breakers
  /\ streak \in [failures : 0..FailureThreshold, granted : {0, 1}]
  /\ ~IsOpen => breaker.failures < FailureThreshold
  /\ breaker.failures <= streak.failures
  /\ IsOpen => streak.failures >= FailureThreshold
  /\ streak.granted = 1 => IsOpen /\ breaker.probe

\* After a success everything is counted from zero.
LEMMA ResetKeeps ==
  ASSUME BreakerInv, breaker' = Reset, UNCHANGED now,
         streak' = [failures |-> 0, granted |-> 0]
  PROVE  BreakerInv'
  BY BreakerAssumption DEF BreakerInv, Breakers, Reset, IsOpen, Never

\* A failed attempt that the breaker hears of.
ReportedFailure(attempt, retryable) ==
  /\ breaker' = AfterFailure
  /\ streak' = [failures |-> Capped(streak.failures + 1),
                granted |-> streak.granted
                  + (IF IsOpen /\ Retries(attempt, retryable) THEN 1 ELSE 0)]

LEMMA ReportKeeps ==
  ASSUME BreakerInv, NEW attempt, NEW retryable, ReportedFailure(attempt, retryable),
         UNCHANGED now
  PROVE  BreakerInv'
<1> USE BreakerAssumption DEF BreakerInv, Breakers
<1>2. breaker' = AfterFailure
  BY DEF ReportedFailure
<1>3. /\ streak' = [failures |-> Capped(streak.failures + 1),
                    granted |-> streak'.granted]
      /\ streak'.failures = Capped(streak.failures + 1)
      /\ streak'.granted \in {streak.granted, streak.granted + 1}
      /\ streak'.granted # streak.granted
           => Counts /\ ~Trips /\ IsOpen
  BY DEF ReportedFailure, Retries, ShouldRetry
<1>4. /\ Capped(streak.failures + 1) \in 0..FailureThreshold
      /\ Capped(streak.failures + 1) >= streak.failures
      /\ streak.failures + 1 <= FailureThreshold
           => Capped(streak.failures + 1) = streak.failures + 1
      /\ streak.failures + 1 >= FailureThreshold
           => Capped(streak.failures + 1) = FailureThreshold
  BY DEF Capped
<1>5. CASE ~Counts
  BY <1>2, <1>3, <1>4, <1>5 DEF AfterFailure, IsOpen, Never
<1>6. CASE Counts /\ Trips
  <2>1. breaker' = [failures |-> Failures, openAt |-> now, probe |-> FALSE]
    BY <1>2, <1>6 DEF AfterFailure
  <2>2. Failures \in 0..FailureThreshold /\ Failures <= streak.failures + 1
    BY <1>6 DEF Failures, TimedOut, IsOpen, Never, Trips, Counts
  <2>3. streak'.granted = 0
    BY <1>3, <1>6 DEF Counts, IsOpen
  <2>4. streak.failures + 1 >= FailureThreshold
    BY <1>6, <2>2 DEF Trips
  <2> QED
    BY <1>3, <1>4, <2>1, <2>2, <2>3, <2>4 DEF IsOpen, Never, Trips
<1>7. CASE Counts /\ ~Trips
  <2>1. breaker' = [breaker EXCEPT !.failures = Failures, !.probe = @ \/ TimedOut]
    BY <1>2, <1>7 DEF AfterFailure
  <2>2. /\ Failures \in 0..FailureThreshold
        /\ Failures < FailureThreshold
        /\ Failures <= streak.failures + 1
    BY <1>7 DEF Failures, TimedOut, IsOpen, Never, Trips, Counts
  <2>3. /\ breaker'.failures = Failures
        /\ breaker'.openAt = breaker.openAt
        /\ breaker'.probe = (breaker.probe \/ TimedOut)
        /\ breaker' \in Breakers
    BY <2>1, <2>2 DEF TimedOut
  <2>4. streak'.granted = 1 => IsOpen' /\ breaker'.probe
    BY <1>3, <1>7, <2>3 DEF Counts, IsOpen, Never
  <2>5. streak'.granted \in {0, 1}
    BY <1>3, <1>7 DEF Counts
  <2> QED
    BY <1>3, <1>4, <2>2, <2>3, <2>4, <2>5 DEF IsOpen, Never
<1> QED
  BY <1>5, <1>6, <1>7

\* A failed attempt.
LEMMA FailureKeeps ==
  ASSUME BreakerInv, NEW attempt, NEW retryable, AttemptFails(attempt, retryable),
         UNCHANGED now
  PROVE  BreakerInv'
<1> USE BreakerAssumption DEF BreakerInv, Breakers
<1>1. CASE UNCHANGED <<breaker, streak>>
  BY <1>1 DEF IsOpen, Never
<1>2. CASE attempt <= MaxRetries /\ ReportedFailure(attempt, retryable)
  BY <1>2, ReportKeeps
<1> QED BY <1>1, <1>2 DEF AttemptFails, ReportedFailure

LEMMA BreakerInvariant == Spec => []BreakerInv
<1>1. Init => BreakerInv
  BY BreakerAssumption DEF Init, BreakerInv, Breakers, Reset, IsOpen, Never
<1>2. BreakerInv /\ [Next]_vars => BreakerInv'
  <2> SUFFICES ASSUME BreakerInv, [Next]_vars
               PROVE  BreakerInv'
    OBVIOUS
  <2>1. ASSUME UNCHANGED <<now, breaker, streak>>
        PROVE  BreakerInv'
    BY <2>1 DEF BreakerInv, IsOpen, Never
  <2>2. ASSUME NEW c \in Calls, NEW tx \in Txs,
               SimulateHit(c, tx) \/ SimulateMiss(c, tx)
        PROVE  BreakerInv'
    BY <2>1, <2>2 DEF SimulateHit, SimulateMiss, Begin
  <2>3. ASSUME AttemptSucceeds, UNCHANGED now
        PROVE  BreakerInv'
    BY <2>3, ResetKeeps DEF AttemptSucceeds
  <2>4. ASSUME NEW c \in Calls, SimulationFails(c) \/ SimulationSucceeds(c)
        PROVE  BreakerInv'
    BY <2>3, <2>4, FailureKeeps DEF SimulationFails, SimulationSucceeds
  <2>5. ASSUME NEW tx \in Txs, ServerReads(tx) \/ AnswerArrives(tx) \/ ReadFails(tx)
        PROVE  BreakerInv'
    BY <2>1, <2>3, <2>5, FailureKeeps DEF ServerReads, AnswerArrives, ReadFails
  <2>6. ASSUME Maintain \/ Control
        PROVE  BreakerInv'
    BY <2>1, <2>6 DEF Maintain, Control, historyVars
  <2>7. CASE Tick
    BY <2>7, BreakerAssumption DEF Tick, BreakerInv, IsOpen, Never
  <2>8. CASE UNCHANGED vars
    BY <2>1, <2>8 DEF vars, historyVars
  <2> QED
    BY <2>2, <2>4, <2>5, <2>6, <2>7, <2>8 DEF Next
<1> QED
  BY <1>1, <1>2, PTL DEF Spec

\* The circuit opens after enough failures in a row and then lets one retry
\* through, whatever number of retry loops share the breaker.
THEOREM SharedBreaker == Spec => []BreakerHolds
<1>1. BreakerInv => BreakerHolds
  BY DEF BreakerInv, BreakerHolds
<1> QED
  BY <1>1, BreakerInvariant, PTL

-----------------------------------------------------------------------------
(* The simulation cache.                                                   *)

\* What stays of a cache, and what is found in it.
LEMMA WithoutType ==
  ASSUME NEW E, NEW s \in Seq(E), NEW key
  PROVE  /\ Without(s, key) \in Seq(E)
         /\ Len(Without(s, key)) <= Len(s)
         /\ Holds(s, key) => /\ EntryOf(s, key) \in E
                             /\ EntryOf(s, key).key = key
                             /\ Len(Without(s, key)) < Len(s)
<1> DEFINE S == {e \in ToSet(s) : e.key # key}
<1>1. Without(s, key) = Kept(s, S)
  BY DEF Without
<1>2. \A i \in DOMAIN s : s[i] \in E /\ s[i] \in ToSet(s)
  BY DEF ToSet
<1>3. Holds(s, key) => \E j \in DOMAIN s : s[j].key = key /\ s[j] \notin S
  BY DEF Holds
<1> HIDE DEF S
<1>4. Kept(s, S) \in Seq(E \cap S) /\ Len(Kept(s, S)) <= Len(s)
  BY KeptType
<1>5. Holds(s, key) => Len(Kept(s, S)) < Len(s)
  BY <1>3, KeptType
<1>6. Kept(s, S) \in Seq(E)
  BY <1>4
<1>7. Holds(s, key) => EntryOf(s, key) \in ToSet(s) /\ EntryOf(s, key).key = key
  BY <1>2, <1>3 DEF EntryOf
<1>8. ToSet(s) \subseteq E
  BY DEF ToSet
<1> QED BY <1>1, <1>4, <1>5, <1>6, <1>7, <1>8

LEMMA AfterGetType ==
  ASSUME NEW E, NEW s \in Seq(E), Len(s) <= CacheSize, NEW key, NEW time
  PROVE  /\ AfterGet(s, key, time) \in Seq(E)
         /\ Len(AfterGet(s, key, time)) <= CacheSize
<1>1. Without(s, key) \in Seq(E) /\ Len(Without(s, key)) <= Len(s)
  BY WithoutType
<1>2. CASE Hit(s, key, time)
  <2>1. EntryOf(s, key) \in E /\ Len(Without(s, key)) < Len(s)
    BY <1>2, WithoutType DEF Hit
  <2> DEFINE w == Without(s, key)
             e == EntryOf(s, key)
  <2>2. AfterGet(s, key, time) = Append(w, e)
    BY <1>2 DEF AfterGet
  <2> HIDE DEF w, e
  <2>3. w \in Seq(E) /\ e \in E /\ Len(w) < Len(s)
    BY <1>1, <2>1 DEF w, e
  <2> QED BY <2>2, <2>3, CacheAssumption
<1>3. CASE ~Hit(s, key, time)
  BY <1>1, <1>3, CacheAssumption DEF AfterGet
<1> QED BY <1>2, <1>3

\* set evicts the entry that was used least recently when the cache is full,
\* so it never exceeds maxSize.
LEMMA AfterSetType ==
  ASSUME NEW E, NEW s \in Seq(E), Len(s) <= CacheSize, NEW key, NEW needs,
         NEW time,
         [key |-> key, result |-> needs, expiresAt |-> time + Ttl] \in E
  PROVE  /\ AfterSet(s, key, needs, time) \in Seq(E)
         /\ Len(AfterSet(s, key, needs, time)) <= CacheSize
<1> DEFINE e == [key |-> key, result |-> needs, expiresAt |-> time + Ttl]
           Full == Len(s) >= CacheSize /\ ~Holds(s, key)
           kept == IF Full THEN EvictLRU(s) ELSE s
           w == Without(kept, key)
<1>1. AfterSet(s, key, needs, time) = Append(w, e)
  BY DEF AfterSet
<1>2. kept \in Seq(E) /\ Len(kept) <= CacheSize /\ Len(s) \in Nat
  BY CacheAssumption DEF EvictLRU
<1>3. Len(kept) < CacheSize \/ Holds(kept, key)
  BY CacheAssumption DEF EvictLRU
<1> HIDE DEF kept
<1>4. w \in Seq(E) /\ Len(w) <= Len(kept) /\ (Holds(kept, key) => Len(w) < Len(kept))
  BY <1>2, WithoutType
<1>5. e \in E
  OBVIOUS
<1> HIDE DEF w, e
<1>6. Len(w) < CacheSize
  BY <1>2, <1>3, <1>4, CacheAssumption
<1> QED BY <1>1, <1>4, <1>5, <1>6, CacheAssumption

\* An answer was true of the ledger at a moment while its request was under
\* way.
WasTrue(tx, answer) ==
  \E t \in answer.asked..answer.arrived : answer.needs \in held[tx][t]

\* The entries that the cache may hold: their time to live began when the
\* answer arrived.
Recent ==
  {e \in [key : {Key(tx) : tx \in Txs}, result : Answers, expiresAt : 0..(MaxNow + Ttl)] :
     /\ e.expiresAt = e.result.arrived + Ttl
     /\ WasTrue(e.key[1], e.result)}

CallOK(call) ==
  /\ call \in CallRecords /\ call.start <= now
  /\ call.phase = "done" => /\ WasTrue(call.tx, call.answer)
                            /\ call.answer.arrived + Ttl >= call.start

\* What the server has read was true of the ledger after the request was sent.
ReadOK(tx, read) ==
  /\ read \in ReadRecords /\ read.asked <= now
  /\ read.phase = "served" => \E t \in read.asked..now : read.needs \in held[tx][t]

\* What the age of an answer depends on: the history is of the ledger, also
\* of this very moment, and what was read, stored and given was true in it.
AgeInv ==
  /\ now \in 0..MaxNow
  /\ held \in [Txs -> [0..MaxNow -> SUBSET BOOLEAN]]
  /\ \A tx \in Txs : Needs(tx) \in held[tx][now]
  /\ cache \in Seq(Recent) /\ Len(cache) <= CacheSize
  /\ calls \in [Calls -> CallRecords] /\ \A c \in Calls : CallOK(calls[c])
  /\ reads \in [Txs -> ReadRecords] /\ \A tx \in Txs : ReadOK(tx, reads[tx])

\* The history takes nothing back.
LEMMA HistoryGrows ==
  ASSUME NEW tx \in Txs, \A t \in 0..MaxNow : held[tx][t] \subseteq held'[tx][t]
  PROVE  \A answer \in Answers : WasTrue(tx, answer) => WasTrue(tx, answer)'
<1> SUFFICES ASSUME NEW answer \in Answers, WasTrue(tx, answer)
             PROVE  WasTrue(tx, answer)'
  OBVIOUS
<1>1. PICK t \in answer.asked..answer.arrived : answer.needs \in held[tx][t]
  BY DEF WasTrue
<1>2. answer.asked \in 0..MaxNow /\ answer.arrived \in 0..MaxNow
  BY DEF Answers
<1>3. t \in 0..MaxNow
  BY <1>1, <1>2, BreakerAssumption
<1>4. answer.needs \in held'[tx][t]
  BY <1>1, <1>3
<1> QED BY <1>1, <1>4 DEF WasTrue

\* A step of the clock or the server is noted.
LEMMA NotedKeeps ==
  ASSUME AgeInv, Noted, now' \in 0..MaxNow, now <= now', UNCHANGED clientVars
  PROVE  AgeInv'
<1>1. \A tx \in Txs : Needs(tx)' \in BOOLEAN
  BY DEF Needs
<1>2. held' \in [Txs -> [0..MaxNow -> SUBSET BOOLEAN]]
  BY <1>1 DEF AgeInv, Noted
<1>3. \A tx \in Txs, t \in 0..MaxNow :
        held'[tx][t] = IF t = now' THEN held[tx][t] \cup {Needs(tx)'} ELSE held[tx][t]
  BY DEF AgeInv, Noted
<1>4. \A tx \in Txs, t \in 0..MaxNow : held[tx][t] \subseteq held'[tx][t]
  BY <1>3
<1>5. \A tx \in Txs : Needs(tx)' \in held'[tx][now']
  BY <1>3
<1>6. \A tx \in Txs : \A answer \in Answers : WasTrue(tx, answer) => WasTrue(tx, answer)'
  BY <1>4, HistoryGrows
<1>7. Recent \subseteq Recent'
  <2> SUFFICES ASSUME NEW e \in Recent PROVE e \in Recent'
    OBVIOUS
  <2>1. PICK tx \in Txs : e.key = Key(tx)
    BY DEF Recent
  <2>2. e.key[1] = tx
    BY <2>1 DEF Key
  <2>3. e.result \in Answers /\ WasTrue(tx, e.result)
    BY <2>2 DEF Recent
  <2>4. WasTrue(e.key[1], e.result)'
    BY <1>6, <2>2, <2>3
  <2> QED BY <2>4 DEF Recent
<1>8. cache' \in Seq(Recent') /\ Len(cache') <= CacheSize
  <2>1. cache \in Seq(Recent) /\ cache' = cache
    BY DEF AgeInv, clientVars
  <2> HIDE DEF Recent
  <2>2. cache \in Seq(Recent')
    BY <1>7, <2>1
  <2> QED BY <2>1, <2>2 DEF AgeInv
<1>9. ASSUME NEW c \in Calls PROVE CallOK(calls[c])'
  <2>1. CallOK(calls[c]) /\ calls' = calls /\ calls[c] \in CallRecords
    BY DEF AgeInv, clientVars
  <2>2. calls[c].tx \in Txs /\ calls[c].start \in 0..MaxNow /\ calls[c].answer \in Answers
    BY <2>1 DEF CallRecords
  <2>3. calls[c].start <= now'
    BY <2>1, <2>2, BreakerAssumption DEF AgeInv, CallOK
  <2>4. WasTrue(calls[c].tx, calls[c].answer) => WasTrue(calls[c].tx, calls[c].answer)'
    BY <1>6, <2>1, <2>2 DEF WasTrue
  <2> QED BY <2>1, <2>3, <2>4 DEF CallOK
<1>10. ASSUME NEW tx \in Txs PROVE ReadOK(tx, reads[tx])'
  <2>1. ReadOK(tx, reads[tx]) /\ reads' = reads /\ reads[tx] \in ReadRecords
    BY DEF AgeInv, clientVars
  <2>2. reads[tx].asked \in 0..MaxNow
    BY <2>1 DEF ReadRecords
  <2>3. reads[tx].asked <= now'
    BY <2>1, <2>2, BreakerAssumption DEF AgeInv, ReadOK
  <2>4. \A t \in reads[tx].asked..now : t \in reads[tx].asked..now' /\ t \in 0..MaxNow
    BY <2>2, BreakerAssumption DEF AgeInv
  <2>5. \A t \in 0..MaxNow : held[tx][t] \subseteq held'[tx][t]
    BY <1>4
  <2> QED BY <2>1, <2>3, <2>4, <2>5 DEF ReadOK
<1>11. calls' \in [Calls -> CallRecords] /\ reads' \in [Txs -> ReadRecords]
  BY DEF AgeInv, clientVars
<1> QED BY <1>2, <1>5, <1>8, <1>9, <1>10, <1>11 DEF AgeInv

\* A step that leaves the clock, the ledger and the history alone keeps the
\* invariant when it keeps the cache, the calls and the reads.
LEMMA ClientKeeps ==
  ASSUME AgeInv, UNCHANGED <<now, serverVars, held>>,
         cache' \in Seq(Recent), Len(cache') <= CacheSize,
         calls' \in [Calls -> CallRecords], \A c \in Calls : CallOK(calls'[c]),
         reads' \in [Txs -> ReadRecords], \A tx \in Txs : ReadOK(tx, reads'[tx])
  PROVE  AgeInv'
<1>1. \A tx \in Txs : Needs(tx)' = Needs(tx)
  BY DEF Needs, serverVars, LiveEntries, IsArchived
<1>2. \A tx, answer : WasTrue(tx, answer)' = WasTrue(tx, answer)
  BY DEF WasTrue
<1>3. Recent' = Recent
  BY <1>2 DEF Recent
<1>4. cache' \in Seq(Recent')
  BY <1>3
<1>5. \A c \in Calls : CallOK(calls[c])'
  BY <1>2 DEF CallOK
<1>6. \A tx \in Txs : ReadOK(tx, reads[tx])'
  BY DEF ReadOK
<1> QED BY <1>1, <1>4, <1>5, <1>6 DEF AgeInv

\* One call moves on, and what it is given was true.
LEMMA CallKeeps ==
  ASSUME AgeInv, UNCHANGED <<now, serverVars, held>>,
         cache' \in Seq(Recent), Len(cache') <= CacheSize,
         reads' \in [Txs -> ReadRecords], \A tx \in Txs : ReadOK(tx, reads'[tx]),
         NEW c \in Calls, NEW call \in CallRecords, CallOK(call),
         calls' = [calls EXCEPT ![c] = call]
  PROVE  AgeInv'
<1>1. calls' \in [Calls -> CallRecords]
  BY DEF AgeInv
<1>2. \A d \in Calls : calls'[d] = IF d = c THEN call ELSE calls[d]
  BY DEF AgeInv
<1>3. \A d \in Calls : CallOK(calls'[d])
  BY <1>2 DEF AgeInv
<1> QED BY <1>1, <1>3, ClientKeeps

\* The read of one key moves on; the cache stays.
LEMMA ReadKeeps ==
  ASSUME AgeInv, NEW tx \in Txs, NEW read \in ReadRecords, ReadOK(tx, read),
         reads' = [reads EXCEPT ![tx] = read]
  PROVE  reads' \in [Txs -> ReadRecords] /\ \A u \in Txs : ReadOK(u, reads'[u])
<1>1. reads \in [Txs -> ReadRecords] /\ \A u \in Txs : ReadOK(u, reads[u])
  BY DEF AgeInv
<1>2. \A u \in Txs : reads'[u] = IF u = tx THEN read ELSE reads[u]
  BY <1>1
<1>3. reads' \in [Txs -> ReadRecords]
  BY <1>1
<1> QED BY <1>1, <1>2, <1>3

LEMMA FirstAttempt == 1 \in Attempts /\ NotRead \in ReadRecords /\ NoAnswer \in Answers
  BY BreakerAssumption DEF Attempts, NotRead, ReadRecords, NoAnswer, Answers

LEMMA BeginKeeps ==
  ASSUME AgeInv, NEW c \in Calls, NEW tx \in Txs,
         SimulateHit(c, tx) \/ SimulateMiss(c, tx)
  PROVE  AgeInv'
<1>1. /\ cache \in Seq(Recent) /\ Len(cache) <= CacheSize /\ now \in 0..MaxNow
      /\ reads \in [Txs -> ReadRecords] /\ \A u \in Txs : ReadOK(u, reads[u])
  BY DEF AgeInv
<1>2. /\ cache' = AfterGet(cache, Key(tx), now)
      /\ UNCHANGED <<now, serverVars, held>> /\ reads' = reads
  BY DEF SimulateHit, SimulateMiss, Begin
<1>3. cache' \in Seq(Recent) /\ Len(cache') <= CacheSize
  BY <1>1, <1>2, AfterGetType
<1>4. now <= now
  BY <1>1, BreakerAssumption
<1>5. CASE SimulateHit(c, tx)
  <2> DEFINE e == EntryOf(cache, Key(tx))
             answer == e.result
             call == [tx |-> tx, phase |-> "done", attempt |-> 1, start |-> now,
                      answer |-> answer]
  <2>1. Holds(cache, Key(tx)) /\ now <= e.expiresAt
    BY <1>5 DEF SimulateHit, Hit
  <2>2. e \in Recent /\ e.key = Key(tx)
    BY <1>1, <2>1, WithoutType
  <2>3. /\ answer \in Answers /\ e.expiresAt = answer.arrived + Ttl
        /\ WasTrue(tx, answer)
    BY <2>2 DEF Recent, Key
  <2>4. calls' = [calls EXCEPT ![c] = call]
    BY <1>5 DEF SimulateHit
  <2>5. answer.arrived + Ttl >= now
    BY <1>1, <2>1, <2>3, CacheAssumption, BreakerAssumption DEF Answers
  <2> HIDE DEF answer, e
  <2>6. call \in CallRecords
    BY <1>1, <2>3, FirstAttempt DEF CallRecords
  <2>7. CallOK(call)
    BY <1>4, <2>3, <2>5, <2>6 DEF CallOK
  <2> HIDE DEF call
  <2> QED BY <1>1, <1>2, <1>3, <2>4, <2>6, <2>7, CallKeeps
<1>6. CASE SimulateMiss(c, tx)
  <2> DEFINE call == [tx |-> tx, phase |-> "simulating", attempt |-> 1, start |-> now,
                      answer |-> NoAnswer]
  <2>1. calls' = [calls EXCEPT ![c] = call]
    BY <1>6 DEF SimulateMiss
  <2>2. call \in CallRecords
    BY <1>1, FirstAttempt DEF CallRecords
  <2>3. CallOK(call)
    BY <1>4, <2>2 DEF CallOK
  <2> HIDE DEF call
  <2> QED BY <1>1, <1>2, <1>3, <2>1, <2>2, <2>3, CallKeeps
<1> QED BY <1>5, <1>6

LEMMA SimulationKeeps ==
  ASSUME AgeInv, NEW c \in Calls, SimulationFails(c) \/ SimulationSucceeds(c)
  PROVE  AgeInv'
<1>1. /\ calls \in [Calls -> CallRecords] /\ calls[c] \in CallRecords /\ CallOK(calls[c])
      /\ calls[c].tx \in Txs /\ calls[c].attempt \in Attempts
      /\ cache \in Seq(Recent) /\ Len(cache) <= CacheSize /\ now \in 0..MaxNow
      /\ reads \in [Txs -> ReadRecords] /\ \A u \in Txs : ReadOK(u, reads[u])
  BY DEF AgeInv, CallRecords
<1>2. UNCHANGED <<now, serverVars, held>> /\ cache' = cache
  BY DEF SimulationFails, SimulationSucceeds
<1>3. cache' \in Seq(Recent) /\ Len(cache') <= CacheSize
  BY <1>1, <1>2
<1>4. CASE SimulationFails(c)
  <2>1. calls[c].phase = "simulating" /\ reads' = reads
    BY <1>4 DEF SimulationFails
  <2>2. PICK retryable \in BOOLEAN :
          calls' = IF Retries(calls[c].attempt, retryable)
                   THEN [calls EXCEPT ![c].attempt = @ + 1]
                   ELSE [calls EXCEPT ![c].phase = "failed"]
    BY <1>4 DEF SimulationFails
  <2>3. CASE Retries(calls[c].attempt, retryable)
    <3> DEFINE call == [calls[c] EXCEPT !.attempt = @ + 1]
    <3>1. calls' = [calls EXCEPT ![c] = call]
      BY <1>1, <2>2, <2>3
    <3>2. calls[c].attempt + 1 \in Attempts
      BY <1>1, <2>3, BreakerAssumption DEF Retries, Attempts
    <3>3. call \in CallRecords
      BY <1>1, <3>2 DEF CallRecords
    <3>4. call.start = calls[c].start /\ call.phase = "simulating"
      BY <1>1, <2>1 DEF CallRecords
    <3> HIDE DEF call
    <3>5. CallOK(call)
      BY <1>1, <3>3, <3>4 DEF CallOK
    <3> QED BY <1>1, <1>2, <1>3, <2>1, <3>1, <3>3, <3>5, CallKeeps
  <2>4. CASE ~Retries(calls[c].attempt, retryable)
    <3> DEFINE call == [calls[c] EXCEPT !.phase = "failed"]
    <3>1. calls' = [calls EXCEPT ![c] = call]
      BY <1>1, <2>2, <2>4
    <3>2. call \in CallRecords /\ call.start = calls[c].start /\ call.phase = "failed"
      BY <1>1 DEF CallRecords
    <3> HIDE DEF call
    <3>3. CallOK(call)
      BY <1>1, <3>2 DEF CallOK
    <3> QED BY <1>1, <1>2, <1>3, <2>1, <3>1, <3>2, <3>3, CallKeeps
  <2> QED BY <2>3, <2>4
<1>5. CASE SimulationSucceeds(c)
  <2> DEFINE call == [calls[c] EXCEPT !.phase = "reading"]
             tx == calls[c].tx
             read == [phase |-> "asked", attempt |-> 1, asked |-> now, needs |-> FALSE]
  <2>1. /\ calls' = [calls EXCEPT ![c].phase = "reading"]
        /\ reads' = reads \/ reads' = [reads EXCEPT ![tx] = read]
    BY <1>5 DEF SimulationSucceeds
  <2>2. calls' = [calls EXCEPT ![c] = call]
    BY <1>1, <2>1
  <2>3. call \in CallRecords /\ call.start = calls[c].start /\ call.phase = "reading"
    BY <1>1 DEF CallRecords
  <2>4. read \in ReadRecords
    BY <1>1, FirstAttempt DEF ReadRecords
  <2>5. ReadOK(tx, read)
    BY <1>1, <2>4, BreakerAssumption DEF ReadOK
  <2> HIDE DEF call, read
  <2>6. CallOK(call)
    BY <1>1, <2>3 DEF CallOK
  <2>7. reads' \in [Txs -> ReadRecords] /\ \A u \in Txs : ReadOK(u, reads'[u])
    BY <1>1, <2>1, <2>4, <2>5, ReadKeeps
  <2> QED BY <1>2, <1>3, <2>2, <2>3, <2>6, <2>7, CallKeeps
<1> QED BY <1>4, <1>5

LEMMA ServedKeeps ==
  ASSUME AgeInv, NEW tx \in Txs, ServerReads(tx)
  PROVE  AgeInv'
<1>1. /\ cache \in Seq(Recent) /\ Len(cache) <= CacheSize /\ now \in 0..MaxNow
      /\ calls \in [Calls -> CallRecords] /\ \A c \in Calls : CallOK(calls[c])
      /\ reads \in [Txs -> ReadRecords] /\ ReadOK(tx, reads[tx])
      /\ reads[tx] \in ReadRecords
  BY DEF AgeInv
<1> DEFINE needs == Needs(tx)
           read == [reads[tx] EXCEPT !.phase = "served", !.needs = needs]
<1>2. /\ UNCHANGED <<now, serverVars, held>> /\ cache' = cache /\ calls' = calls
      /\ reads' = [reads EXCEPT ![tx].phase = "served", ![tx].needs = needs]
  BY DEF ServerReads
<1>3. needs \in BOOLEAN /\ needs \in held[tx][now]
  BY DEF AgeInv, Needs
<1> HIDE DEF needs
<1>4. reads' = [reads EXCEPT ![tx] = read]
  BY <1>1, <1>2
<1>5. read \in ReadRecords /\ read.asked = reads[tx].asked /\ read.needs = needs
  BY <1>1, <1>3 DEF ReadRecords
<1>6. reads[tx].asked \in 0..MaxNow /\ reads[tx].asked <= now
  BY <1>1 DEF ReadOK, ReadRecords
<1>7. now \in reads[tx].asked..now
  BY <1>1, <1>6, BreakerAssumption
<1> HIDE DEF read
<1>8. ReadOK(tx, read)
  BY <1>3, <1>5, <1>6, <1>7 DEF ReadOK
<1>9. reads' \in [Txs -> ReadRecords] /\ \A u \in Txs : ReadOK(u, reads'[u])
  BY <1>4, <1>5, <1>8, ReadKeeps
<1> QED BY <1>1, <1>2, <1>9, ClientKeeps

LEMMA ArrivalKeeps ==
  ASSUME AgeInv, NEW tx \in Txs, AnswerArrives(tx)
  PROVE  AgeInv'
<1>1. /\ cache \in Seq(Recent) /\ Len(cache) <= CacheSize /\ now \in 0..MaxNow
      /\ calls \in [Calls -> CallRecords] /\ \A c \in Calls : CallOK(calls[c])
      /\ reads \in [Txs -> ReadRecords] /\ ReadOK(tx, reads[tx])
      /\ reads[tx] \in ReadRecords
  BY DEF AgeInv
<1> DEFINE answer == [needs |-> reads[tx].needs, asked |-> reads[tx].asked, arrived |-> now]
           e == [key |-> Key(tx), result |-> answer, expiresAt |-> now + Ttl]
<1>2. /\ UNCHANGED <<now, serverVars, held>>
      /\ cache' = AfterSet(cache, Key(tx), answer, now)
      /\ calls' = [c \in Calls |->
           IF c \in Readers(tx)
           THEN [calls[c] EXCEPT !.phase = "done", !.answer = answer] ELSE calls[c]]
      /\ reads' = [reads EXCEPT ![tx] = NotRead]
      /\ reads[tx].phase = "served"
  BY DEF AnswerArrives
<1>3. answer \in Answers /\ answer.arrived = now
  BY <1>1 DEF Answers, ReadRecords
<1>4. WasTrue(tx, answer)
  BY <1>1, <1>2 DEF ReadOK, WasTrue
<1>5. now + Ttl \in 0..(MaxNow + Ttl)
  BY <1>1, CacheAssumption, BreakerAssumption
<1> HIDE DEF answer
<1>6. e \in Recent
  BY <1>3, <1>4, <1>5 DEF Recent, Key
<1>7. cache' \in Seq(Recent) /\ Len(cache') <= CacheSize
  BY <1>1, <1>2, <1>6, AfterSetType
<1>8. ASSUME NEW c \in Calls PROVE calls'[c] \in CallRecords /\ CallOK(calls'[c])
  <2>1. CASE c \in Readers(tx)
    <3>1. calls'[c] = [calls[c] EXCEPT !.phase = "done", !.answer = answer]
      BY <1>2, <2>1
    <3>2. /\ calls[c] \in CallRecords /\ calls[c].tx = tx
          /\ calls[c].start <= now /\ calls[c].start \in 0..MaxNow
      BY <1>1, <2>1 DEF Readers, CallOK, CallRecords
    <3> DEFINE call == [calls[c] EXCEPT !.phase = "done", !.answer = answer]
    <3>3. /\ call \in CallRecords /\ call.tx = tx /\ call.start = calls[c].start
          /\ call.answer = answer
      BY <1>3, <3>2 DEF CallRecords
    <3> HIDE DEF call
    <3>4. answer.arrived + Ttl >= call.start
      BY <1>1, <1>3, <3>2, <3>3, CacheAssumption, BreakerAssumption
    <3>5. CallOK(call)
      BY <1>4, <3>2, <3>3, <3>4 DEF CallOK
    <3> QED BY <3>1, <3>3, <3>5 DEF call
  <2>2. CASE c \notin Readers(tx)
    BY <1>1, <1>2, <2>2
  <2> QED BY <2>1, <2>2
<1>9. calls' \in [Calls -> CallRecords]
  <2>1. calls' = [c \in Calls |-> calls'[c]]
    BY <1>2
  <2> QED BY <1>8, <2>1
<1>10. ReadOK(tx, NotRead)
  BY <1>1, FirstAttempt, BreakerAssumption DEF ReadOK, NotRead
<1>11. reads' \in [Txs -> ReadRecords] /\ \A u \in Txs : ReadOK(u, reads'[u])
  BY <1>2, <1>10, FirstAttempt, ReadKeeps
<1> QED BY <1>2, <1>7, <1>8, <1>9, <1>11, ClientKeeps

LEMMA ReadFailsKeeps ==
  ASSUME AgeInv, NEW tx \in Txs, ReadFails(tx)
  PROVE  AgeInv'
<1>1. /\ cache \in Seq(Recent) /\ Len(cache) <= CacheSize /\ now \in 0..MaxNow
      /\ calls \in [Calls -> CallRecords] /\ \A c \in Calls : CallOK(calls[c])
      /\ reads \in [Txs -> ReadRecords] /\ reads[tx] \in ReadRecords
  BY DEF AgeInv
<1>2. /\ UNCHANGED <<now, serverVars, held>> /\ cache' = cache
  BY DEF ReadFails
<1> DEFINE read == [phase |-> "asked", attempt |-> reads[tx].attempt + 1,
                    asked |-> now, needs |-> FALSE]
<1>3. PICK retryable \in BOOLEAN :
        \/ /\ Retries(reads[tx].attempt, retryable)
           /\ reads' = [reads EXCEPT ![tx] = read]
           /\ UNCHANGED calls
        \/ /\ reads' = [reads EXCEPT ![tx] = NotRead]
           /\ calls' = [c \in Calls |->
                IF c \in Readers(tx) THEN [calls[c] EXCEPT !.phase = "failed"]
                ELSE calls[c]]
  BY DEF ReadFails
<1>4. CASE /\ Retries(reads[tx].attempt, retryable)
           /\ reads' = [reads EXCEPT ![tx] = read]
           /\ UNCHANGED calls
  <2>1. reads[tx].attempt + 1 \in Attempts
    BY <1>1, <1>4, BreakerAssumption DEF Retries, Attempts, ReadRecords
  <2>2. read \in ReadRecords
    BY <1>1, <2>1 DEF ReadRecords
  <2>3. ReadOK(tx, read)
    BY <1>1, <2>2, BreakerAssumption DEF ReadOK
  <2> HIDE DEF read
  <2>4. reads' \in [Txs -> ReadRecords] /\ \A u \in Txs : ReadOK(u, reads'[u])
    BY <1>4, <2>2, <2>3, ReadKeeps
  <2> QED BY <1>1, <1>2, <1>4, <2>4, ClientKeeps
<1>5. CASE /\ reads' = [reads EXCEPT ![tx] = NotRead]
           /\ calls' = [c \in Calls |->
                IF c \in Readers(tx) THEN [calls[c] EXCEPT !.phase = "failed"]
                ELSE calls[c]]
  <2>1. ReadOK(tx, NotRead)
    BY <1>1, FirstAttempt, BreakerAssumption DEF ReadOK, NotRead
  <2>2. reads' \in [Txs -> ReadRecords] /\ \A u \in Txs : ReadOK(u, reads'[u])
    BY <1>5, <2>1, FirstAttempt, ReadKeeps
  <2>3. ASSUME NEW c \in Calls PROVE calls'[c] \in CallRecords /\ CallOK(calls'[c])
    <3> DEFINE call == [calls[c] EXCEPT !.phase = "failed"]
    <3>1. calls[c] \in CallRecords /\ CallOK(calls[c])
      BY <1>1
    <3>2. call \in CallRecords /\ call.start = calls[c].start /\ call.phase = "failed"
      BY <3>1 DEF CallRecords
    <3>3. calls'[c] \in {call, calls[c]}
      BY <1>5
    <3> HIDE DEF call
    <3> QED BY <3>1, <3>2, <3>3 DEF CallOK
  <2>4. calls' \in [Calls -> CallRecords]
    <3>1. calls' = [c \in Calls |-> calls'[c]]
      BY <1>5
    <3> QED BY <2>3, <3>1
  <2> QED BY <1>1, <1>2, <2>2, <2>3, <2>4, ClientKeeps
<1> QED BY <1>3, <1>4, <1>5

\* What empties or thins the cache.
LEMMA MaintainKeeps ==
  ASSUME AgeInv, Maintain
  PROVE  AgeInv'
<1>1. /\ cache \in Seq(Recent) /\ Len(cache) <= CacheSize
      /\ calls \in [Calls -> CallRecords] /\ \A c \in Calls : CallOK(calls[c])
      /\ reads \in [Txs -> ReadRecords] /\ \A tx \in Txs : ReadOK(tx, reads[tx])
  BY DEF AgeInv
<1>2. UNCHANGED <<now, serverVars, held, calls, reads>>
  BY DEF Maintain, historyVars
<1>3. cache' \in Seq(Recent) /\ Len(cache') <= CacheSize
  <2>1. ASSUME NEW tx \in Txs, InvalidateSimulationCache(tx)
        PROVE  cache' \in Seq(Recent) /\ Len(cache') <= CacheSize
    <3>1. cache' = Without(cache, InvalidationKey(tx))
      BY <2>1 DEF InvalidateSimulationCache
    <3>2. Without(cache, InvalidationKey(tx)) \in Seq(Recent)
          /\ Len(Without(cache, InvalidationKey(tx))) <= Len(cache)
      BY <1>1, WithoutType
    <3> QED BY <1>1, <3>1, <3>2, CacheAssumption
  <2>2. CASE InvalidateAll
    BY <2>2, CacheAssumption DEF InvalidateAll
  <2>3. CASE GetStatistics
    <3> DEFINE S == {e \in ToSet(cache) : now <= e.expiresAt}
    <3>1. cache' = Kept(cache, S)
      BY <2>3 DEF GetStatistics, ClearExpired
    <3> HIDE DEF S
    <3>2. Kept(cache, S) \in Seq(Recent \cap S) /\ Len(Kept(cache, S)) <= Len(cache)
      BY <1>1, KeptType
    <3>3. Kept(cache, S) \in Seq(Recent)
      BY <3>2
    <3> QED BY <1>1, <3>1, <3>2, <3>3, CacheAssumption
  <2> QED BY <2>1, <2>2, <2>3 DEF Maintain
<1> QED BY <1>1, <1>2, <1>3, ClientKeeps

LEMMA AgeInit == Init => AgeInv
<1> SUFFICES ASSUME Init PROVE AgeInv
  OBVIOUS
<1>1. now = 0 /\ 0 \in 0..MaxNow /\ cache = <<>>
  BY BreakerAssumption DEF Init
<1>2. held \in [Txs -> [0..MaxNow -> SUBSET BOOLEAN]]
      /\ \A tx \in Txs : held[tx][0] = {FALSE}
  BY <1>1 DEF Init
<1>3. \A tx \in Txs : Needs(tx) = FALSE
  BY MockAssumption DEF Init, ServerInit, Needs, LiveEntries, IsArchived, Missing, Txs
<1>4. calls \in [Calls -> CallRecords] /\ \A c \in Calls : CallOK(calls[c])
  <2> DEFINE idle(tx) == [tx |-> tx, phase |-> "idle", attempt |-> 1, start |-> 0,
                          answer |-> NoAnswer]
  <2>1. calls \in [Calls -> {idle(tx) : tx \in Txs}]
    BY DEF Init
  <2>2. \A tx \in Txs :
          idle(tx) \in CallRecords /\ idle(tx).start = 0 /\ idle(tx).phase = "idle"
    BY <1>1, FirstAttempt DEF CallRecords
  <2> HIDE DEF idle
  <2> QED BY <1>1, <2>1, <2>2 DEF CallOK
<1>5. cache \in Seq(Recent) /\ Len(cache) <= CacheSize
  BY <1>1, CacheAssumption
<1>6. \A tx \in Txs : Needs(tx) \in held[tx][now]
  BY <1>1, <1>2, <1>3
<1>7. reads \in [Txs -> ReadRecords] /\ \A tx \in Txs : ReadOK(tx, reads[tx])
  <2>1. reads = [tx \in Txs |-> NotRead]
    BY DEF Init
  <2>2. NotRead.asked = 0 /\ NotRead.phase = "none"
    BY DEF NotRead
  <2> QED BY <1>1, <2>1, <2>2, FirstAttempt DEF ReadOK
<1> QED BY <1>1, <1>2, <1>4, <1>5, <1>6, <1>7 DEF AgeInv

LEMMA AgeNext == AgeInv /\ [Next]_vars => AgeInv'
<1> SUFFICES ASSUME AgeInv, [Next]_vars PROVE AgeInv'
  OBVIOUS
<1>1. ASSUME NEW c \in Calls, NEW tx \in Txs, SimulateHit(c, tx) \/ SimulateMiss(c, tx)
      PROVE  AgeInv'
  BY <1>1, BeginKeeps
<1>2. ASSUME NEW c \in Calls, SimulationFails(c) \/ SimulationSucceeds(c)
      PROVE  AgeInv'
  BY <1>2, SimulationKeeps
<1>3. ASSUME NEW tx \in Txs, ServerReads(tx) \/ AnswerArrives(tx) \/ ReadFails(tx)
      PROVE  AgeInv'
  BY <1>3, ServedKeeps, ArrivalKeeps, ReadFailsKeeps
<1>4. CASE Maintain
  BY <1>4, MaintainKeeps
<1>5. CASE Tick
  <2>1. now' = now + 1 /\ now' \in 0..MaxNow /\ now <= now'
    BY <1>5, BreakerAssumption DEF Tick, AgeInv
  <2> QED BY <1>5, <2>1, NotedKeeps DEF Tick
<1>6. CASE Control
  <2>1. now' = now /\ now' \in 0..MaxNow /\ now <= now'
    BY <1>6, BreakerAssumption DEF Control, AgeInv
  <2> QED BY <1>6, <2>1, NotedKeeps DEF Control
<1>7. CASE UNCHANGED vars
  <2>1. /\ UNCHANGED <<now, serverVars, held>> /\ cache' = cache /\ calls' = calls
        /\ reads' = reads
    BY <1>7 DEF vars, clientVars, historyVars
  <2>2. /\ cache' \in Seq(Recent) /\ Len(cache') <= CacheSize
        /\ calls' \in [Calls -> CallRecords] /\ \A c \in Calls : CallOK(calls'[c])
        /\ reads' \in [Txs -> ReadRecords] /\ \A tx \in Txs : ReadOK(tx, reads'[tx])
    BY <2>1 DEF AgeInv
  <2> QED BY <2>1, <2>2, ClientKeeps
<1> QED BY <1>1, <1>2, <1>3, <1>4, <1>5, <1>6, <1>7 DEF Next

\* The simulation cache never holds more than maxSize entries, and the time to
\* live of each began when an answer arrived that was true of the ledger while
\* its request was under way, also when the read was shared and retried.
THEOREM CacheIsRecent == Spec => []AgeInv
  BY AgeInit, AgeNext, PTL DEF Spec

\* However often an answer is read from the cache, and whatever happens to
\* the ledger meanwhile, simulate returns nothing that arrived longer than
\* ttlMs ago or was not true while it was being asked for.
THEOREM NothingStale == Spec => []AnswersAreRecent
<1>1. AgeInv => AnswersAreRecent
  BY DEF AgeInv, CallOK, AnswersAreRecent, WasTrue
<1> QED BY <1>1, CacheIsRecent, PTL
=============================================================================
