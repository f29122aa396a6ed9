-------------------------- MODULE FootprintCaching --------------------------
(***************************************************************************)
(* The footprint cache of the client: FootprintCache of packages/rpc/src/  *)
(* footprint-cache.ts, extractFootprintCached, onLedgerClose,              *)
(* emitLedgerClose and invalidateFootprintCache of the client, and the     *)
(* EventDeduplicator of packages/sdk/src/event-deduplicator.ts.            *)
(*                                                                         *)
(* Ledgers close outside; the application reports each close when it       *)
(* hears of it, late, more than once, or not at all.  An entry is known by *)
(* the ledger in which it was parsed.  The LRU store is external: when it  *)
(* is full it drops whichever entry it likes.                              *)
(***************************************************************************)
EXTENDS Naturals, FiniteSets

CONSTANTS
  Envelopes,       \* transactions, known by the hash of their XDR
  MaxFootprints,   \* maxSize
  Window,          \* windowMs, in ticks
  MaxClosed,       \* bound: ledgers
  MaxClock         \* bound: ticks

ASSUME FootprintAssumption ==
  /\ IsFiniteSet(Envelopes) /\ MaxFootprints \in Nat \ {0}
  /\ Window \in Nat /\ MaxClosed \in Nat /\ MaxClock \in Nat

VARIABLES
  closed,            \* the ledger that closed last
  footprints,        \* the cache: [Envelopes -> entry]
  recentSequences,   \* when each sequence was emitted last, or Never
  clock,
  \* History: the closes reported with emitLedgerClose, and with
  \* onLedgerClose and their number.
  emitted, reported

footprintVars == <<closed, footprints, recentSequences, clock, emitted, reported>>

Uncached == [cached |-> FALSE, parsedIn |-> 0, sequenced |-> FALSE]
\* extractFootprintCached stores no ledger sequence; other users of the cache do.
Entry(sequenced) == [cached |-> TRUE, parsedIn |-> closed, sequenced |-> sequenced]
Never == MaxClock + 1

FootprintTypeOK ==
  /\ closed \in 0..MaxClosed /\ clock \in 0..MaxClock
  /\ footprints \in [Envelopes -> [cached : BOOLEAN, parsedIn : 0..MaxClosed,
                                   sequenced : BOOLEAN]]
  /\ recentSequences \in [1..MaxClosed -> 0..Never]
  /\ emitted \subseteq 1..MaxClosed /\ reported \subseteq 1..MaxClosed

-----------------------------------------------------------------------------
InCache == {t \in Envelopes : footprints[t].cached}

\* FootprintCache.set; a full store drops an entry first.
Set(t, entry) ==
  IF Cardinality(InCache \ {t}) < MaxFootprints
  THEN footprints' = [footprints EXCEPT ![t] = entry]
  ELSE \E dropped \in InCache \ {t} :
         footprints' = [footprints EXCEPT ![dropped] = Uncached, ![t] = entry]

\* extractFootprintCached: a hit changes nothing that is modelled.
ExtractFootprintCached(t) ==
  /\ t \notin InCache
  /\ Set(t, Entry(FALSE))
  /\ UNCHANGED <<closed, recentSequences, clock, emitted, reported>>

\* set with a ledger sequence.
StoreFootprint(t) ==
  /\ Set(t, Entry(TRUE))
  /\ UNCHANGED <<closed, recentSequences, clock, emitted, reported>>

Keep(entries) == [t \in Envelopes |-> IF t \in entries THEN footprints[t] ELSE Uncached]

\* onLedgerClose(sequence): of the entries only those that have a sequence.
OnLedgerClose(sequence) ==
  /\ footprints' =
       Keep({t \in InCache : footprints[t].sequenced => footprints[t].parsedIn > sequence - 1})
  /\ reported' = reported \cup {sequence}
  /\ UNCHANGED <<closed, recentSequences, clock, emitted>>

Recent(sequence) ==
  recentSequences[sequence] # Never /\ clock - recentSequences[sequence] < Window

\* pruneOldEntries.
Pruned == [s \in 1..MaxClosed |-> IF Recent(s) THEN recentSequences[s] ELSE Never]

\* Mutation: any close within the window counts as a repetition.
AnyRecent(sequence) == \E s \in 1..MaxClosed : Recent(s)
isDuplicate(sequence) == Recent(sequence)

\* emitLedgerClose: isDuplicate, and else onLedgerClose without a number.
EmitLedgerClose(sequence) ==
  /\ IF isDuplicate(sequence)
     THEN recentSequences' = Pruned /\ UNCHANGED footprints
     ELSE /\ recentSequences' = [Pruned EXCEPT ![sequence] = clock]
          /\ footprints' = Keep({})
  /\ emitted' = emitted \cup {sequence}
  /\ UNCHANGED <<closed, clock, reported>>

\* invalidateFootprintCache, onLedgerClose without a number, and clear.
InvalidateFootprints(entries) ==
  /\ footprints' = Keep(InCache \ entries)
  /\ UNCHANGED <<closed, recentSequences, clock, emitted, reported>>

LedgerCloses ==
  /\ closed < MaxClosed /\ closed' = closed + 1
  /\ UNCHANGED <<footprints, recentSequences, clock, emitted, reported>>

ClockTicks ==
  /\ clock < MaxClock /\ clock' = clock + 1
  /\ UNCHANGED <<closed, footprints, recentSequences, emitted, reported>>

FootprintInit ==
  /\ closed = 0 /\ clock = 0 /\ footprints = [t \in Envelopes |-> Uncached]
  /\ recentSequences = [s \in 1..MaxClosed |-> Never] /\ emitted = {} /\ reported = {}

FootprintNext ==
  \/ \E t \in Envelopes :
       ExtractFootprintCached(t) \/ StoreFootprint(t) \/ InvalidateFootprints({t})
  \/ InvalidateFootprints(Envelopes)
  \/ \E s \in 1..closed : OnLedgerClose(s) \/ EmitLedgerClose(s)
  \/ LedgerCloses \/ ClockTicks

-----------------------------------------------------------------------------

\* However late and often closes are reported, no entry in the cache is older
\* than a close that was reported through emitLedgerClose, and none that has a
\* sequence is older than one reported to onLedgerClose with its number.
FootprintsAreCurrent ==
  \A t \in InCache :
    /\ \A s \in emitted : s <= footprints[t].parsedIn
    /\ footprints[t].sequenced => \A s \in reported : s <= footprints[t].parsedIn
=============================================================================
