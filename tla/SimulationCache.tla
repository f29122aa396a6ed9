--------------------------- MODULE SimulationCache --------------------------
(***************************************************************************)
(* packages/rpc/src/simulation-cache.ts: an LRU cache of simulation        *)
(* results with a time to live.  A cache is the sequence of its entries in *)
(* the order of the Map that holds them, least recently used first.        *)
(* packages/rpc/src/footprint-cache.ts and the event deduplicator of the   *)
(* sdk keep timed entries of the same kind.                                *)
(***************************************************************************)
EXTENDS Naturals, Sequences, SequencesExt, Sifting

CONSTANTS
  CacheSize,    \* maxSize
  Ttl           \* ttlMs, in ticks

ASSUME CacheAssumption == CacheSize \in Nat \ {0} /\ Ttl \in Nat

Without(cache, key) == Kept(cache, {e \in ToSet(cache) : e.key # key})
Holds(cache, key)   == \E i \in DOMAIN cache : cache[i].key = key
EntryOf(cache, key) == CHOOSE e \in ToSet(cache) : e.key = key

\* get and has find an entry that has not expired.
Hit(cache, key, time) == Holds(cache, key) /\ time <= EntryOf(cache, key).expiresAt

\* Mutant: a hit also prolongs the life of the entry.
Prolonged(cache, key, time) ==
  IF Hit(cache, key, time)
  THEN Append(Without(cache, key),
              [EntryOf(cache, key) EXCEPT !.expiresAt = time + Ttl])
  ELSE Without(cache, key)

\* get: a hit moves the entry to the end, an expired entry goes.
AfterGet(cache, key, time) ==
  IF Hit(cache, key, time) THEN Append(Without(cache, key), EntryOf(cache, key))
  ELSE Without(cache, key)

\* evictLRU.
EvictLRU(cache) == Tail(cache)

\* set.
AfterSet(cache, key, result, time) ==
  LET kept == IF Len(cache) >= CacheSize /\ ~Holds(cache, key)
              THEN EvictLRU(cache) ELSE cache
  IN Append(Without(kept, key), [key |-> key, result |-> result,
                                 expiresAt |-> time + Ttl])

\* clearExpired, called by getStatistics.
ClearExpired(cache, time) == Kept(cache, {e \in ToSet(cache) : time <= e.expiresAt})
=============================================================================
