---------------------------- MODULE MetadataCache ----------------------------
(***************************************************************************)
(* The cache of operation metadata in front of an ERP client, and the      *)
(* connection pool of that client (crates/oracle-automate-erp/src/         *)
(* metadata_cache.rs, pool.rs; the client is client.rs MockErpClient).     *)
(*                                                                         *)
(* A lookup asks for one operation (operation_metadata) or several         *)
(* (bulk_operation_metadata).  It reads the cache key by key, counts hits  *)
(* and misses, fetches what it missed in one call of the inner client,     *)
(* stores the answers one by one and returns.  Each step takes its lock    *)
(* for itself: between two steps other lookups run, time passes, and an    *)
(* operator may drop every entry, as one does after a release that changed *)
(* the ERP's operations.                                                   *)
(*                                                                         *)
(* Time is kept as ages, so the clock needs no bound: what the ERP said    *)
(* ages from its reading the operation, in the cache and in the hands of a *)
(* lookup; an entry ages from its being stored, a lookup from its begin    *)
(* until it returns.                                                       *)
(*                                                                         *)
(* Operators named Bad... are mutants, plausible bugs of the definition    *)
(* that follows them, and no part of the specification.                    *)
(***************************************************************************)
EXTENDS Integers, FiniteSets

CONSTANTS
  Lookups,      \* the lookups
  Keys,         \* (function, language) pairs
  Ttl,          \* time to live of an entry, in ticks; 0 disables the cache
  Latency,      \* bound: ticks from the ERP's reading an operation to its last store
  MaxWait,      \* bound: ticks of a lookup that are counted
  PoolCap       \* size of the connection pool

ASSUME CacheAssumption ==
  /\ Ttl \in Nat /\ Latency \in Nat /\ MaxWait \in Nat
  /\ PoolCap \in Nat \ {0}
  /\ IsFiniteSet(Keys)

VARIABLES
  entries,      \* the cached entries, a set with at most one entry a key
  stats,        \* the counters hits, misses and evictions
  stage,        \* lookup -> phase
  asked,        \* lookup -> keys it was asked for
  toFetch,      \* lookup -> keys it missed
  fetched,      \* lookup -> answers of the ERP it has not yet stored
  got,          \* lookup -> answers it will return
  missing,      \* lookup -> keys it will report as unknown to the ERP
  waited        \* lookup -> ticks since it began, counted up to MaxWait

cacheVars == <<entries, stats, stage, asked, toFetch, fetched, got, missing, waited>>

\* Ages saturate one tick above what the count of a lookup's ticks can tell.
MaxAge == Ttl + Latency + MaxWait
Older(a, most) == IF a < most THEN a + 1 ELSE a

\* What the ERP said of a key, and how long ago.
Metas == [key : Keys, age : 0..MaxAge]
Entries == [meta : Metas, age : 0..(Ttl + 1)]

CacheInit ==
  /\ entries = {}
  /\ stats = [hits |-> 0, misses |-> 0, evictions |-> 0]
  /\ stage = [l \in Lookups |-> "idle"]
  /\ asked = [l \in Lookups |-> {}]
  /\ toFetch = [l \in Lookups |-> {}]
  /\ fetched = [l \in Lookups |-> {}]
  /\ got = [l \in Lookups |-> {}]
  /\ missing = [l \in Lookups |-> {}]
  /\ waited = [l \in Lookups |-> 0]

EntryOf(k) == {e \in entries : e.meta.key = k}

\* get_fresh: an entry exactly as old as the time to live is still served.
BadFresh(e) == Ttl = 0 \/ e.age <= Ttl + 1
Fresh(e) == Ttl = 0 \/ e.age <= Ttl
Hits(k) == {e \in EntryOf(k) : Fresh(e)}

\* Permits of the pool in use: a lookup holds one during its inner call.
BadHolders == {l \in Lookups : stage[l] \in {"fetching", "replying", "failed"}}
Holders == {l \in Lookups : stage[l] \in {"fetching", "replying"}}

-----------------------------------------------------------------------------
(* A lookup.                                                               *)

Begin(l) ==
  /\ stage[l] = "idle"
  /\ \E ks \in SUBSET Keys \ {{}} : asked' = [asked EXCEPT ![l] = ks]
  /\ stage' = [stage EXCEPT ![l] = "reading"]
  /\ UNCHANGED <<entries, stats, toFetch, fetched, got, missing, waited>>

\* The keys not yet looked up in the cache.
Unread(l) == asked[l] \ (toFetch[l] \cup {m.key : m \in got[l]})

\* One key under the read lock of the map.
ReadKey(l, k) ==
  /\ stage[l] = "reading" /\ k \in Unread(l)
  /\ IF Hits(k) = {}
     THEN toFetch' = [toFetch EXCEPT ![l] = @ \cup {k}] /\ UNCHANGED got
     ELSE /\ got' = [got EXCEPT ![l] = @ \cup {e.meta : e \in Hits(k)}]
          /\ UNCHANGED toFetch
  /\ UNCHANGED <<entries, stats, stage, asked, fetched, missing, waited>>

Misses(l) == Cardinality(toFetch[l])

\* Hits and misses are counted together under the lock of the counters.
Count(l) ==
  /\ stage[l] = "reading" /\ Unread(l) = {}
  /\ stats' = [stats EXCEPT !.hits = @ + Cardinality(got[l]),
                            !.misses = @ + Misses(l)]
  /\ stage' = [stage EXCEPT ![l] = IF toFetch[l] = {} THEN "done" ELSE "queued"]
  /\ UNCHANGED <<entries, asked, toFetch, fetched, got, missing, waited>>

\* The inner client waits for a permit of its pool.
Acquire(l) ==
  /\ stage[l] = "queued"
  /\ Cardinality(Holders) < PoolCap
  /\ stage' = [stage EXCEPT ![l] = "fetching"]
  /\ UNCHANGED <<entries, stats, asked, toFetch, fetched, got, missing, waited>>

\* The ERP reads the definitions asked for, of which it may not know some;
\* its reply is on the way.
ErpReads(l) ==
  /\ stage[l] = "fetching"
  /\ \E known \in SUBSET toFetch[l] :
       /\ fetched' = [fetched EXCEPT ![l] = {[key |-> k, age |-> 0] : k \in known}]
       /\ missing' = [missing EXCEPT ![l] = toFetch[l] \ known]
  /\ stage' = [stage EXCEPT ![l] = "replying"]
  /\ UNCHANGED <<entries, stats, asked, toFetch, got, waited>>

\* What a lookup returns: its hits and what it fetched.
Merged(hits, news) == hits \cup news

\* The reply arrives and the permit is released.
Receive(l) ==
  /\ stage[l] = "replying"
  /\ got' = [got EXCEPT ![l] = Merged(@, fetched[l])]
  /\ stage' = [stage EXCEPT ![l] = "storing"]
  /\ UNCHANGED <<entries, stats, asked, toFetch, fetched, missing, waited>>

\* The inner call fails: the lookup returns the error and stores nothing.
FetchFails(l) ==
  /\ stage[l] \in {"fetching", "replying"}
  /\ fetched' = [fetched EXCEPT ![l] = {}]
  /\ missing' = [missing EXCEPT ![l] = {}]
  /\ stage' = [stage EXCEPT ![l] = "failed"]
  /\ UNCHANGED <<entries, stats, asked, toFetch, got, waited>>

\* HashMap::insert.
Inserted(m) == (entries \ EntryOf(m.key)) \cup {[meta |-> m, age |-> 0]}

\* store: the answer replaces whatever entry the key has by now, unless the
\* cache is disabled.
Store(l, m) ==
  /\ stage[l] = "storing" /\ m \in fetched[l]
  /\ entries' = IF Ttl = 0 THEN entries ELSE Inserted(m)
  /\ fetched' = [fetched EXCEPT ![l] = @ \ {m}]
  /\ UNCHANGED <<stats, stage, asked, toFetch, got, missing, waited>>

Return(l) ==
  /\ stage[l] = "storing" /\ fetched[l] = {}
  /\ stage' = [stage EXCEPT ![l] = "done"]
  /\ UNCHANGED <<entries, stats, asked, toFetch, fetched, got, missing, waited>>

\* invalidate_all holds the map's lock until it has counted the evictions.
\* Answers on their way into the cache are stored after it all the same.
InvalidateAll ==
  /\ entries' = {}
  /\ stats' = [stats EXCEPT !.evictions = @ + Cardinality(entries)]
  /\ UNCHANGED <<stage, asked, toFetch, fetched, got, missing, waited>>

-----------------------------------------------------------------------------
(* Time passes, but never past the latency of an answer on its way into    *)
(* the cache.                                                              *)

Aged(m) == [m EXCEPT !.age = Older(@, MaxAge)]

\* The lookups under way, whose answers age: a bulk lookup holds its hits while
\* it waits for a permit and for the ERP.
Pending == {l \in Lookups : stage[l] \notin {"idle", "done", "failed"}}

TimePasses ==
  /\ \A l \in Lookups : \A m \in fetched[l] : m.age < Latency
  /\ entries' = {[meta |-> Aged(e.meta), age |-> Older(e.age, Ttl + 1)] : e \in entries}
  /\ fetched' = [l \in Lookups |-> {Aged(m) : m \in fetched[l]}]
  /\ got' = [l \in Lookups |-> IF l \in Pending THEN {Aged(m) : m \in got[l]} ELSE got[l]]
  /\ waited' = [l \in Lookups |-> IF l \in Pending THEN Older(waited[l], MaxWait) ELSE waited[l]]
  /\ UNCHANGED <<stats, stage, asked, toFetch, missing>>

LookupStep(l) ==
  \/ \E k \in Keys : ReadKey(l, k)
  \/ Count(l) \/ Acquire(l) \/ ErpReads(l) \/ Receive(l) \/ FetchFails(l)
  \/ \E m \in fetched[l] : Store(l, m)
  \/ Return(l)

CacheNext ==
  \/ \E l \in Lookups : Begin(l) \/ LookupStep(l)
  \/ InvalidateAll
  \/ TimePasses

CacheSpec == CacheInit /\ [][CacheNext]_cacheVars

(***************************************************************************)
(* Fairness: every lookup is a task the runtime polls, the ERP answers or  *)
(* fails (its client has a timeout), and the semaphore of the pool hands   *)
(* out permits first come first served, which strong fairness stands for.  *)
(***************************************************************************)
CacheFairSpec == CacheSpec /\ \A l \in Lookups : WF_cacheVars(LookupStep(l)) /\ SF_cacheVars(Acquire(l))

-----------------------------------------------------------------------------
(* Properties.                                                             *)

\* Types; a key has at most one entry and the pool's bound holds.
CacheTypeOK ==
  /\ entries \subseteq Entries
  /\ \A k \in Keys : Cardinality(EntryOf(k)) <= 1
  /\ stats \in [hits : Nat, misses : Nat, evictions : Nat]
  /\ stage \in [Lookups -> {"idle", "reading", "queued", "fetching", "replying", "storing",
                         "done", "failed"}]
  /\ asked \in [Lookups -> SUBSET Keys] /\ toFetch \in [Lookups -> SUBSET Keys]
  /\ fetched \in [Lookups -> SUBSET Metas] /\ got \in [Lookups -> SUBSET Metas]
  /\ missing \in [Lookups -> SUBSET Keys] /\ waited \in [Lookups -> 0..MaxWait]
  /\ Cardinality(Holders) <= PoolCap

\* What a lookup holds, and returns, the ERP said no longer ago than the time to
\* live, the latency of a fetch and the time the lookup itself has taken.  The
\* latency is in it because cached_at is the time of the store, the lookup's own
\* time because a hit goes on ageing while its bulk waits for a permit and for
\* the ERP: counted from the lookup's begin, no answer is older than the first
\* two.  (The ticks counted end at MaxWait, which is any number.)
StalenessIsBounded ==
  \A l \in Lookups : \A m \in got[l] : m.age <= Ttl + Latency + waited[l]

\* A lookup always comes back, though the pool may be smaller than the
\* number of lookups.
EveryLookupReturns ==
  \A l \in Lookups : (stage[l] = "reading") ~> (stage[l] \in {"done", "failed"})
=============================================================================
