---------------------------- MODULE MetadataCache ----------------------------
(***************************************************************************)
(* The TTL cache for RFC metadata (metadata_cache.rs) in front of a client *)
(* with a bounded pool (pool.rs), used by sap.rfc.metadata,                *)
(* sap.rfc.bulk_metadata and sap.system.cache_invalidate.  Every await is  *)
(* a point where other requests, an invalidation or a transport import on  *)
(* the SAP side can come in between.                                       *)
(*                                                                         *)
(* A signature is abstracted to its version, 0 meaning that there is none; *)
(* a key (function, language) is one member of Functions.                  *)
(***************************************************************************)
EXTENDS Naturals, FiniteSets

CONSTANTS
    Functions,    \* keys of the cache
    Readers,      \* requests made during the run, one each
    PoolCap,      \* concurrent calls the inner client allows
    MaxVersion    \* bound: signature changes of one function

ASSUME CacheAssumption ==
    /\ IsFiniteSet(Functions) /\ IsFiniteSet(Readers)
    /\ PoolCap \in Nat \ {0}
    /\ MaxVersion \in Nat

VARIABLES
    ttlZero,      \* caching is disabled (--metadata-cache-ttl-secs 0)
    sap,          \* sap[f]: the version SAP has now
    entry,        \* entry[f]: the version in the map, 0 if none
    expired,      \* keys whose entry is older than the TTL
    stats,        \* CacheStats: hits, misses, evictions
    kind,         \* kind[r]: rfc_metadata ("single") or bulk_rfc_metadata
    want,         \* want[r]: the functions requested
    todo,         \* todo[r]: those not looked up yet
    found,        \* found[r][f]: the version a hit returned, 0 on a miss
    pc,           \* pc[r]: where the request is suspended
    got,          \* got[r][f]: the version SAP answered, 0 if it has none
    unstored,     \* unstored[r]: answered, not yet stored
    result,       \* result[r]: "ok" or "error" once the request returned
    floor,        \* history: floor[f], SAP's version at the last invalidation
    overtaken     \* history: keys with an answer on its way at that time

cacheVars == <<ttlZero, entry, expired, stats>>
readerVars == <<kind, want, todo, found, pc, got, unstored, result>>
historyVars == <<floor, overtaken>>
vars == <<sap, cacheVars, readerVars, historyVars>>

Versions == 0..MaxVersion
NoVersions == [f \in Functions |-> 0]
Live == {f \in Functions : entry[f] # 0}

TypeOK ==
    /\ ttlZero \in BOOLEAN
    /\ sap \in [Functions -> Versions]
    /\ entry \in [Functions -> Versions]
    /\ expired \subseteq Functions
    /\ stats \in [hits : Nat, misses : Nat, evictions : Nat]
    /\ kind \in [Readers -> {"none", "single", "bulk"}]
    /\ want \in [Readers -> SUBSET Functions]
    /\ todo \in [Readers -> SUBSET Functions]
    /\ found \in [Readers -> [Functions -> Versions]]
    /\ pc \in [Readers -> {"idle", "looking", "acquiring", "fetching", "storing", "done"}]
    /\ got \in [Readers -> [Functions -> Versions]]
    /\ unstored \in [Readers -> SUBSET Functions]
    /\ result \in [Readers -> {"none", "ok", "error"}]
    /\ floor \in [Functions -> Versions]
    /\ overtaken \subseteq Functions

Init ==
    /\ ttlZero \in BOOLEAN
    /\ sap = NoVersions
    /\ entry = NoVersions
    /\ expired = {}
    /\ stats = [hits |-> 0, misses |-> 0, evictions |-> 0]
    /\ kind = [r \in Readers |-> "none"]
    /\ want = [r \in Readers |-> {}]
    /\ todo = [r \in Readers |-> {}]
    /\ found = [r \in Readers |-> NoVersions]
    /\ pc = [r \in Readers |-> "idle"]
    /\ got = [r \in Readers |-> NoVersions]
    /\ unstored = [r \in Readers |-> {}]
    /\ result = [r \in Readers |-> "none"]
    /\ floor = NoVersions
    /\ overtaken = {}

-----------------------------------------------------------------------------
(***************************************************************************)
(* A request.                                                              *)
(***************************************************************************)

Request(r, k, fs) ==
    /\ pc[r] = "idle"
    /\ fs # {} /\ (k = "single" => Cardinality(fs) = 1)
    /\ kind' = [kind EXCEPT ![r] = k]
    /\ want' = [want EXCEPT ![r] = fs]
    /\ todo' = [todo EXCEPT ![r] = fs]
    /\ pc' = [pc EXCEPT ![r] = "looking"]
    /\ UNCHANGED <<sap, cacheVars, found, got, unstored, result, historyVars>>

\* get_fresh: the entry, if it is there and not older than the TTL.
GetFresh(f) == IF f \in expired THEN 0 ELSE entry[f]

\* One key at a time, the read lock released in between.
Lookup(r, f) ==
    /\ pc[r] = "looking"
    /\ f \in todo[r]
    /\ todo' = [todo EXCEPT ![r] = @ \ {f}]
    /\ found' = [found EXCEPT ![r][f] = GetFresh(f)]
    /\ UNCHANGED <<sap, cacheVars, kind, want, pc, got, unstored, result, historyVars>>

Hits(r) == {f \in want[r] : found[r][f] # 0}
Misses(r) == want[r] \ Hits(r)

\* Mutant: the whole request is counted as missed.
CountAll(r) ==
    /\ pc[r] = "looking"
    /\ todo[r] = {}
    /\ stats' = [hits |-> stats.hits + Cardinality(Hits(r)),
                 misses |-> stats.misses + Cardinality(want[r]),
                 evictions |-> stats.evictions]
    /\ IF Misses(r) = {}
       THEN /\ pc' = [pc EXCEPT ![r] = "done"]
            /\ result' = [result EXCEPT ![r] = "ok"]
       ELSE /\ pc' = [pc EXCEPT ![r] = "acquiring"]
            /\ UNCHANGED result
    /\ UNCHANGED <<sap, ttlZero, entry, expired, kind, want, todo, found, got, unstored,
                   historyVars>>

\* The counters, under their own lock; all hits return at once.
Count(r) ==
    /\ pc[r] = "looking"
    /\ todo[r] = {}
    /\ stats' = [hits |-> stats.hits + Cardinality(Hits(r)),
                 misses |-> stats.misses + Cardinality(Misses(r)),
                 evictions |-> stats.evictions]
    /\ IF Misses(r) = {}
       THEN /\ pc' = [pc EXCEPT ![r] = "done"]
            /\ result' = [result EXCEPT ![r] = "ok"]
       ELSE /\ pc' = [pc EXCEPT ![r] = "acquiring"]
            /\ UNCHANGED result
    /\ UNCHANGED <<sap, ttlZero, entry, expired, kind, want, todo, found, got, unstored,
                   historyVars>>

\* ConnectionPool::acquire suspends while no permit is left.
Acquire(r) ==
    /\ pc[r] = "acquiring"
    /\ Cardinality({x \in Readers : pc[x] = "fetching"}) < PoolCap
    /\ pc' = [pc EXCEPT ![r] = "fetching"]
    /\ UNCHANGED <<sap, cacheVars, kind, want, todo, found, got, unstored, result,
                   historyVars>>

\* The inner client answers, one call for all misses, and the permit is
\* dropped.  rfc_metadata turns an unknown function into NotFound.
Answer(r) ==
    /\ pc[r] = "fetching"
    /\ LET known == {f \in Misses(r) : sap[f] # 0}
       IN  IF kind[r] = "single" /\ known = {}
           THEN /\ pc' = [pc EXCEPT ![r] = "done"]
                /\ result' = [result EXCEPT ![r] = "error"]
                /\ UNCHANGED <<got, unstored>>
           ELSE /\ pc' = [pc EXCEPT ![r] = "storing"]
                /\ got' = [got EXCEPT ![r] = [f \in Functions |->
                                                IF f \in known THEN sap[f] ELSE 0]]
                /\ unstored' = [unstored EXCEPT ![r] = known]
                /\ UNCHANGED result
    /\ UNCHANGED <<sap, cacheVars, kind, want, todo, found, historyVars>>

\* The inner call fails: nothing of it is cached, the hits are lost too.
FetchFails(r) ==
    /\ pc[r] = "fetching"
    /\ pc' = [pc EXCEPT ![r] = "done"]
    /\ result' = [result EXCEPT ![r] = "error"]
    /\ UNCHANGED <<sap, cacheVars, kind, want, todo, found, got, unstored, historyVars>>

\* Mutant: the TTL is not consulted when storing.
StoreAlways(r, f) ==
    /\ pc[r] = "storing"
    /\ f \in unstored[r]
    /\ unstored' = [unstored EXCEPT ![r] = @ \ {f}]
    /\ entry' = [entry EXCEPT ![f] = got[r][f]]
    /\ expired' = expired \ {f}
    /\ UNCHANGED <<sap, ttlZero, stats, kind, want, todo, found, pc, got, result,
                   historyVars>>

\* store: one write lock per key; with a TTL of 0 nothing is kept.
Store(r, f) ==
    /\ pc[r] = "storing"
    /\ f \in unstored[r]
    /\ unstored' = [unstored EXCEPT ![r] = @ \ {f}]
    /\ entry' = IF ttlZero THEN entry ELSE [entry EXCEPT ![f] = got[r][f]]
    /\ expired' = IF ttlZero THEN expired ELSE expired \ {f}
    /\ UNCHANGED <<sap, ttlZero, stats, kind, want, todo, found, pc, got, result,
                   historyVars>>

Return(r) ==
    /\ pc[r] = "storing"
    /\ unstored[r] = {}
    /\ pc' = [pc EXCEPT ![r] = "done"]
    /\ result' = [result EXCEPT ![r] = "ok"]
    /\ UNCHANGED <<sap, cacheVars, kind, want, todo, found, got, unstored, historyVars>>

Reading(r) ==
    \/ \E f \in Functions : Lookup(r, f) \/ Store(r, f)
    \/ Count(r) \/ Acquire(r) \/ Answer(r) \/ FetchFails(r) \/ Return(r)

\* What the caller gets: the version of each function, 0 if reported missing.
Returned(r, f) == IF f \in Hits(r) THEN found[r][f] ELSE got[r][f]

-----------------------------------------------------------------------------
(***************************************************************************)
(* What happens meanwhile.                                                 *)
(***************************************************************************)

\* Mutant: only what has expired is dropped.
InvalidateExpired ==
    /\ entry' = [f \in Functions |-> IF f \in expired THEN 0 ELSE entry[f]]
    /\ expired' = {}
    /\ stats' = [stats EXCEPT !.evictions = @ + Cardinality(expired)]
    /\ floor' = sap
    /\ overtaken' = UNION {unstored[r] : r \in Readers}
    /\ UNCHANGED <<sap, ttlZero, readerVars>>

\* invalidate_all holds the write lock until the counter is updated.
InvalidateAll ==
    /\ entry' = NoVersions
    /\ expired' = {}
    /\ stats' = [stats EXCEPT !.evictions = @ + Cardinality(Live)]
    /\ floor' = sap
    /\ overtaken' = UNION {unstored[r] : r \in Readers}
    /\ UNCHANGED <<sap, ttlZero, readerVars>>

\* cached_at.elapsed() passes the TTL; the entry stays in the map.
Expire(f) ==
    /\ entry[f] # 0 /\ f \notin expired
    /\ expired' = expired \cup {f}
    /\ UNCHANGED <<sap, ttlZero, entry, stats, readerVars, historyVars>>

\* A transport import changes or creates a function in SAP.
Import(f) ==
    /\ sap[f] < MaxVersion
    /\ sap' = [sap EXCEPT ![f] = @ + 1]
    /\ UNCHANGED <<cacheVars, readerVars, historyVars>>

Next ==
    \/ \E r \in Readers :
        \/ \E k \in {"single", "bulk"}, fs \in SUBSET Functions : Request(r, k, fs)
        \/ Reading(r)
    \/ InvalidateAll
    \/ \E f \in Functions : Expire(f) \/ Import(f)

Spec == Init /\ [][Next]_vars

-----------------------------------------------------------------------------
(***************************************************************************)
(* Properties.                                                             *)
(***************************************************************************)

\* The keys of counted requests that were hits, and that were misses.
Counted(r) == pc[r] \notin {"idle", "looking"}
HitKeys == {k \in Readers \X Functions : Counted(k[1]) /\ k[2] \in Hits(k[1])}
MissedKeys == {k \in Readers \X Functions : Counted(k[1]) /\ k[2] \in Misses(k[1])}

\* The counters account for what happened: every key looked up is counted
\* once, as a hit or as a miss, and no entry exists or was evicted without a
\* miss that fetched it, however lookups, stores and invalidations interleave.
StatsAccount ==
    /\ stats.hits = Cardinality(HitKeys)
    /\ stats.misses = Cardinality(MissedKeys)
    /\ stats.evictions + Cardinality(Live) <= stats.misses

\* A successful request accounts for each function it was asked for, with a
\* version that SAP has had; a function that SAP does not know is never taken
\* from the cache, and with a TTL of 0 nothing is.
ResultComplete ==
    \A r \in Readers :
        /\ result[r] = "ok" => \A f \in want[r] :
              /\ Returned(r, f) <= sap[f]
              /\ Returned(r, f) = 0 => kind[r] = "bulk"
        /\ ttlZero => Hits(r) = {}

\* After an invalidation that no answer on its way overtook, the cache holds
\* no version from before it: the next request sees the imported signature.
InvalidationHolds ==
    \A f \in Functions \ overtaken : entry[f] # 0 => entry[f] >= floor[f]

\* "Drop every entry ... so the next sap.rfc.metadata / bulk_metadata call
\* re-fetches from SAP" (tools.rs): nothing older than the invalidation is
\* served after it.
InvalidationIsFinal ==
    \A f \in Functions : entry[f] # 0 => entry[f] >= floor[f]
=============================================================================
