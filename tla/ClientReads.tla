----------------------------- MODULE ClientReads ----------------------------
(***************************************************************************)
(* SorobanResurrect.simulate of packages/sdk/src/soroban-resurrect.ts: the *)
(* simulation cache, the read of the ledger that concurrent calls share    *)
(* (LedgerReads), the retry loops with the shared circuit breaker, and a   *)
(* server whose ledger changes.                                            *)
(*                                                                         *)
(* The footprint of transaction t is one ledger key, named t as well.  The *)
(* answer of simulateTransaction is the footprint, as an RPC server gives  *)
(* it; the mock's own answer has no getFootprint, and an error member when *)
(* a key is archived, so that the library's predicates would reject it.    *)
(* A request may fail at any time while it is under way.                   *)
(***************************************************************************)
EXTENDS CircuitBreaker, SimulationCache, MockRpc

CONSTANTS
  Calls,         \* concurrent calls of simulate
  MaxBegun,      \* bound: calls of simulate in all
  MaxControls    \* bound: changes of the ledger

VARIABLES
  cache,     \* simulationCache
  calls,
  reads,     \* the read of a key that is under way
  begun, controls,
  \* History: what held of each entry in each tick, and since the last
  \* success the failures reported to the breaker and the retries that it
  \* granted while open.
  held, streak

clientVars  == <<cache, calls, reads>>
historyVars == <<held, streak>>
vars == <<now, breaker, serverVars, clientVars, begun, controls, historyVars>>

Txs      == Entries
Attempts == 1..(MaxRetries + 1)
\* A result, with the ticks (history) in which the request that was answered
\* could be sent and in which its answer arrived.
Answers  == [needs : BOOLEAN, asked : 0..MaxNow, arrived : 0..MaxNow]
NoAnswer == [needs |-> FALSE, asked |-> 0, arrived |-> 0]

CallRecords == [tx : Txs, phase : {"idle", "simulating", "reading", "done", "failed"},
                attempt : Attempts, start : 0..MaxNow, answer : Answers]
ReadRecords == [phase : {"none", "asked", "served"}, attempt : Attempts,
                asked : 0..MaxNow, needs : BOOLEAN]
NotRead == [phase |-> "none", attempt |-> 1, asked |-> 0, needs |-> FALSE]

\* SimulationCache.generateKey as simulate and as invalidateSimulationCache
\* call it: the latter adds the network passphrase.
Key(tx)             == <<tx, "noPassphrase">>
InvalidationKey(tx) == <<tx, "networkPassphrase">>

TypeOK ==
  /\ ServerTypeOK
  /\ now \in 0..MaxNow /\ breaker \in Breakers
  /\ calls \in [Calls -> CallRecords]
  /\ reads \in [Txs -> ReadRecords]
  /\ Len(cache) <= CacheSize
  /\ \A i \in DOMAIN cache :
       cache[i] \in [key : {Key(tx) : tx \in Txs}, result : Answers,
                     expiresAt : 0..(MaxNow + Ttl)]

-----------------------------------------------------------------------------
(* History.                                                                *)

Needs(tx) == tx \notin LiveEntries({tx})

\* What holds after a step of the clock or the server.
Noted ==
  held' = [tx \in Txs |->
             [held[tx] EXCEPT ![now'] = @ \cup {Needs(tx)'}]]

Capped(n) == IF n > FailureThreshold THEN FailureThreshold ELSE n

-----------------------------------------------------------------------------
(* retryLoop.  The breaker hears of a failed attempt only when it was not  *)
(* the last, and of every success.                                         *)

Retries(attempt, retryable) ==
  attempt <= MaxRetries /\ ShouldRetry(attempt, retryable)

AttemptFails(attempt, retryable) ==
  \/ /\ attempt > MaxRetries
     /\ UNCHANGED <<breaker, streak>>
  \/ /\ attempt <= MaxRetries
     /\ breaker' = AfterFailure
     /\ streak' = [failures |-> Capped(streak.failures + 1),
                   granted |-> streak.granted
                     + (IF IsOpen /\ Retries(attempt, retryable) THEN 1 ELSE 0)]

AttemptSucceeds ==
  /\ breaker' = Reset
  /\ streak' = [failures |-> 0, granted |-> 0]

-----------------------------------------------------------------------------
(* simulate.                                                               *)

Begin(c, tx) ==
  /\ calls[c].phase \in {"idle", "done", "failed"}
  /\ begun < MaxBegun
  /\ begun' = begun + 1
  /\ cache' = AfterGet(cache, Key(tx), now)
  /\ UNCHANGED <<now, breaker, serverVars, reads, controls, held, streak>>

\* The cached result.
SimulateHit(c, tx) ==
  /\ Begin(c, tx)
  /\ Hit(cache, Key(tx), now)
  /\ calls' = [calls EXCEPT ![c] =
       [tx |-> tx, phase |-> "done", attempt |-> 1, start |-> now,
        answer |-> EntryOf(cache, Key(tx)).result]]

SimulateMiss(c, tx) ==
  /\ Begin(c, tx)
  /\ ~Hit(cache, Key(tx), now)
  /\ calls' = [calls EXCEPT ![c] =
       [tx |-> tx, phase |-> "simulating", attempt |-> 1, start |-> now,
        answer |-> NoAnswer]]

SimulationFails(c) ==
  /\ calls[c].phase = "simulating"
  /\ \E retryable \in BOOLEAN :
       /\ AttemptFails(calls[c].attempt, retryable)
       /\ calls' = IF Retries(calls[c].attempt, retryable)
                   THEN [calls EXCEPT ![c].attempt = @ + 1]
                   ELSE [calls EXCEPT ![c].phase = "failed"]
  /\ UNCHANGED <<now, serverVars, cache, reads, begun, controls, held>>

\* detectArchivedKeys follows: it joins the read of its key that is under way,
\* or begins one.
SimulationSucceeds(c) ==
  /\ calls[c].phase = "simulating"
  /\ AttemptSucceeds
  /\ calls' = [calls EXCEPT ![c].phase = "reading"]
  /\ LET tx == calls[c].tx
     IN  reads' = IF reads[tx].phase = "none"
                  THEN [reads EXCEPT ![tx] = [phase |-> "asked", attempt |-> 1,
                                              asked |-> now, needs |-> FALSE]]
                  ELSE reads
  /\ UNCHANGED <<now, serverVars, cache, begun, controls, held>>

-----------------------------------------------------------------------------
(* The read of a key.                                                      *)

Readers(tx) == {c \in Calls : calls[c].phase = "reading" /\ calls[c].tx = tx}

\* The server looks the entry up; its answer is under way.
ServerReads(tx) ==
  /\ reads[tx].phase = "asked"
  /\ reads' = [reads EXCEPT ![tx].phase = "served", ![tx].needs = Needs(tx)]
  /\ UNCHANGED <<now, breaker, serverVars, cache, calls, begun, controls, held, streak>>

\* The answer arrives.  Each reader stores it, which the first of them does
\* already, and returns it.
AnswerArrives(tx) ==
  /\ reads[tx].phase = "served"
  /\ AttemptSucceeds
  /\ LET answer == [needs |-> reads[tx].needs, asked |-> reads[tx].asked, arrived |-> now]
     IN  /\ cache' = AfterSet(cache, Key(tx), answer, now)
         /\ calls' = [c \in Calls |->
              IF c \in Readers(tx)
              THEN [calls[c] EXCEPT !.phase = "done", !.answer = answer] ELSE calls[c]]
  /\ reads' = [reads EXCEPT ![tx] = NotRead]
  /\ UNCHANGED <<now, serverVars, begun, controls, held>>

\* A failed read is sent again, or rejects all its readers.
ReadFails(tx) ==
  /\ reads[tx].phase # "none"
  /\ \E retryable \in BOOLEAN :
       /\ AttemptFails(reads[tx].attempt, retryable)
       /\ \/ /\ Retries(reads[tx].attempt, retryable)
             /\ reads' = [reads EXCEPT ![tx] =
                  [phase |-> "asked", attempt |-> reads[tx].attempt + 1,
                   asked |-> now, needs |-> FALSE]]
             /\ UNCHANGED calls
          \/ /\ ~Retries(reads[tx].attempt, retryable)
             /\ reads' = [reads EXCEPT ![tx] = NotRead]
             /\ calls' = [c \in Calls |->
                  IF c \in Readers(tx) THEN [calls[c] EXCEPT !.phase = "failed"]
                  ELSE calls[c]]
  /\ UNCHANGED <<now, serverVars, cache, begun, controls, held>>

-----------------------------------------------------------------------------
(* The cache from outside.                                                 *)

InvalidateSimulationCache(tx) == cache' = Without(cache, InvalidationKey(tx))
InvalidateAll == cache' = <<>>
GetStatistics == cache' = ClearExpired(cache, now)

Maintain ==
  /\ \/ \E tx \in Txs : InvalidateSimulationCache(tx)
     \/ InvalidateAll
     \/ GetStatistics
  /\ UNCHANGED <<now, breaker, serverVars, calls, reads, begun, controls, historyVars>>

-----------------------------------------------------------------------------
Tick ==
  /\ now < MaxNow
  /\ now' = now + 1
  /\ UNCHANGED <<breaker, serverVars, clientVars, begun, controls, streak>>
  /\ Noted

Control ==
  /\ controls < MaxControls
  /\ controls' = controls + 1
  /\ \/ \E seq \in 1..MaxLedger : SetCurrentLedgerSeq(seq)
     \/ ArchiveAll
     \/ \E e \in Entries, expiry \in 1..MaxLedger : AddEntry(e, expiry)
     \/ \E e \in Entries : RemoveEntry(e)
  /\ UNCHANGED now
  /\ Noted
  /\ UNCHANGED <<breaker, clientVars, begun, streak>>

Init ==
  /\ now = 0
  /\ breaker = Reset
  /\ ServerInit
  /\ cache = <<>>
  /\ calls \in [Calls -> {[tx |-> tx, phase |-> "idle", attempt |-> 1, start |-> 0,
                           answer |-> NoAnswer] : tx \in Txs}]
  /\ reads = [tx \in Txs |-> NotRead]
  /\ begun = 0 /\ controls = 0
  /\ held = [tx \in Txs |-> [t \in 0..MaxNow |-> IF t = 0 THEN {FALSE} ELSE {}]]
  /\ streak = [failures |-> 0, granted |-> 0]

Next ==
  \/ \E c \in Calls, tx \in Txs : SimulateHit(c, tx) \/ SimulateMiss(c, tx)
  \/ \E c \in Calls : SimulationFails(c) \/ SimulationSucceeds(c)
  \/ \E tx \in Txs : ServerReads(tx) \/ AnswerArrives(tx) \/ ReadFails(tx)
  \/ Maintain
  \/ Tick
  \/ Control

Spec == Init /\ [][Next]_vars
-----------------------------------------------------------------------------
(* Properties.                                                             *)

\* The time to live bounds how old an answer can be, however often the entry
\* was read in between and whoever asked for it: what simulate returns arrived
\* at most ttlMs before the call, and was true of the ledger at some moment
\* while the request that it answers was under way.
AnswersAreRecent ==
  \A c \in Calls :
    LET given == calls[c].answer
    IN  calls[c].phase = "done" =>
          /\ given.arrived + Ttl >= calls[c].start
          /\ \E t \in given.asked..given.arrived : given.needs \in held[calls[c].tx][t]

\* The circuit opens only after failureThreshold failures, each of an attempt
\* that was not the last of its loop, without a success in any loop in
\* between; and an open circuit lets one retry through until a call succeeds.
BreakerHolds ==
  /\ IsOpen => streak.failures >= FailureThreshold
  /\ streak.granted <= 1
=============================================================================
