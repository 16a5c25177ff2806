-------------------------- MODULE DiskCacheEviction --------------------------
(***************************************************************************)
(* engine/core/diskcache: eviction. Every commit starts a goroutine that    *)
(* calls Evict; the flags evicting and evictAgain make concurrent calls     *)
(* share passes. A pass scans the directory, and when the entries exceed    *)
(* the limit removes the oldest of what it scanned, by name, one by one,    *)
(* while further commits, cache hits (which refresh an entry's time) and    *)
(* Clear go on. Every entry has size one; Limit is a number of entries.     *)
(***************************************************************************)
EXTENDS Integers, FiniteSets

CONSTANTS CacheNames,      \* cache file names
          Evictors,   \* the goroutines that commits start
          Limit,      \* the configured limit, not zero (zero is "unlimited")
          MaxTime     \* bound: how many commits and cache hits happen

EvictionAssumption == /\ IsFiniteSet(CacheNames)
                      /\ Limit \in Nat \ {0}
                      /\ MaxTime \in Nat

VARIABLES mtime,      \* per name, its entry's modification time, 0 if absent
          clock,      \* the time of the last commit or hit
          evicting, evictAgain,   \* the two atomic flags
          at,         \* per evictor, where it is in Evict
          victims     \* per evictor, what is left to remove: names and the time
                      \* scanned for each

vars == <<mtime, clock, evicting, evictAgain, at, victims>>

Entries == {n \in CacheNames : mtime[n] > 0}
Total == Cardinality(Entries)

Init == /\ mtime = [n \in CacheNames |-> 0]
        /\ clock = 0
        /\ evicting = FALSE /\ evictAgain = FALSE
        /\ at = [e \in Evictors |-> "idle"]
        /\ victims = [e \in Evictors |-> {}]

Go(e, to) == at' = [at EXCEPT ![e] = to]

\* A commit renames a file to its name (a new entry, or a replaced one) and
\* starts a goroutine that calls Evict.
Commit(n, e) ==
  /\ at[e] = "idle" /\ clock < MaxTime
  /\ clock' = clock + 1
  /\ mtime' = [mtime EXCEPT ![n] = clock + 1]
  /\ Go(e, "call")
  /\ UNCHANGED <<evicting, evictAgain, victims>>

\* Path and Get refresh the time of an entry they return.
Touch(n) ==
  /\ n \in Entries /\ clock < MaxTime
  /\ clock' = clock + 1
  /\ mtime' = [mtime EXCEPT ![n] = clock + 1]
  /\ UNCHANGED <<evicting, evictAgain, at, victims>>

\* Clear, Remove, and the entries the time-to-live takes.
Delete(n) ==
  /\ n \in Entries
  /\ mtime' = [mtime EXCEPT ![n] = 0]
  /\ UNCHANGED <<clock, evicting, evictAgain, at, victims>>

\* The compare-and-swap: run passes, or ask the goroutine that does.
Begin(e) ==
  /\ at[e] = "call"
  /\ IF evicting THEN Go(e, "ask") /\ UNCHANGED evicting
                 ELSE Go(e, "scan") /\ evicting' = TRUE
  /\ UNCHANGED <<mtime, clock, evictAgain, victims>>

Ask(e) ==
  /\ at[e] = "ask"
  /\ evictAgain' = TRUE
  /\ Go(e, "idle")
  /\ UNCHANGED <<mtime, clock, evicting, victims>>

\* The oldest entries, as many as exceed the limit.
Oldest(excess) ==
  {n \in Entries : Cardinality({m \in Entries : mtime[m] < mtime[n]}) < excess}

Scan(e) ==
  /\ at[e] = "scan"
  /\ victims' = [victims EXCEPT ![e] =
       {[name |-> n, time |-> mtime[n]] : n \in Oldest(Total - Limit)}]
  /\ Go(e, "remove")
  /\ UNCHANGED <<mtime, clock, evicting, evictAgain>>

\* os.Remove by name, oldest first; an entry that is gone by now is ignored.
RemoveVictim(e) ==
  /\ at[e] = "remove"
  /\ \E v \in victims[e] :
       /\ \A w \in victims[e] : v.time <= w.time
       /\ victims' = [victims EXCEPT ![e] = @ \ {v}]
       /\ mtime' = [mtime EXCEPT ![v.name] = 0]
  /\ UNCHANGED <<clock, evicting, evictAgain, at>>

PassEndOnce(e) ==                                                    \* mutant
  /\ at[e] = "remove" /\ victims[e] = {}
  /\ evictAgain' = FALSE
  /\ Go(e, "reset")
  /\ UNCHANGED <<mtime, clock, evicting, victims>>
\* evictAgain.Swap(false): once more, or return.
PassEnd(e) ==
  /\ at[e] = "remove" /\ victims[e] = {}
  /\ evictAgain' = FALSE
  /\ Go(e, IF evictAgain THEN "scan" ELSE "reset")
  /\ UNCHANGED <<mtime, clock, evicting, victims>>

\* The deferred evicting.Store(false).
Reset(e) ==
  /\ at[e] = "reset"
  /\ evicting' = FALSE
  /\ Go(e, "idle")
  /\ UNCHANGED <<mtime, clock, evictAgain, victims>>

EvictStep(e) == Begin(e) \/ Ask(e) \/ Scan(e) \/ RemoveVictim(e) \/ PassEnd(e) \/ Reset(e)

Next == \/ \E n \in CacheNames : Touch(n) \/ Delete(n) \/ (\E e \in Evictors : Commit(n, e))
        \/ \E e \in Evictors : EvictStep(e)

Spec == Init /\ [][Next]_vars /\ \A e \in Evictors : WF_vars(EvictStep(e))
-----------------------------------------------------------------------------
TypeOK == /\ mtime \in [CacheNames -> 0..MaxTime]
          /\ clock \in 0..MaxTime
          /\ evicting \in BOOLEAN /\ evictAgain \in BOOLEAN
          /\ at \in [Evictors -> {"idle", "call", "ask", "scan", "remove", "reset"}]
          /\ victims \in [Evictors -> SUBSET [name : CacheNames, time : 1..MaxTime]]

AtRest == \A e \in Evictors : at[e] = "idle"

\* Two passes never run at the same time: each would scan what the other is
\* about to remove and together they would remove too much (diskcache.go:42-45,
\* 250-253).
OnePassAtATime ==
  \A e, f \in Evictors : at[e] \in {"scan", "remove", "reset"}
                           /\ at[f] \in {"scan", "remove", "reset"} => e = f

\* When all is quiet the cache is within its limit, however commits, hits and
\* passes overlapped, as long as no request was left in evictAgain.
RestWithinLimit == AtRest /\ ~evictAgain => Total <= Limit

Called(e)   == at[e] = "call"
Returned(e) == at[e] = "idle"

\* Every call of Evict returns: requests do not keep a pass going for ever.
EvictReturns == \A e \in Evictors : Called(e) ~> Returned(e)

\* streaming_test.go:347-348: "the last request must not be lost": once every
\* Evict has returned, the limit holds.
LastRequestServed == AtRest => Total <= Limit
=============================================================================
