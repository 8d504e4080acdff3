------------------------- MODULE MetadataCacheProofs -------------------------
(***************************************************************************)
(* Machine-checked facts about MetadataCache, for every set of keys, every *)
(* number of requests and permits and any number of transport imports.     *)
(***************************************************************************)
EXTENDS MetadataCache, FiniteSetTheorems, TLAPS

-----------------------------------------------------------------------------
(***************************************************************************)
(* Counting keys.                                                          *)
(***************************************************************************)

\* Keys, and keys of requests, are finitely many.
LEMMA PairsFinite ==
    ASSUME NEW P \in SUBSET (Readers \X Functions)
    PROVE  IsFiniteSet(P) /\ Cardinality(P) \in Nat
  <1>1. IsFiniteSet(Readers \X Functions)
    BY CacheAssumption, FS_Product
  <1>2. IsFiniteSet(P)
    BY <1>1, FS_Subset
  <1> QED
    BY <1>2, FS_CardinalityType

LEMMA KeysFinite ==
    ASSUME NEW S \in SUBSET Functions
    PROVE  IsFiniteSet(S) /\ Cardinality(S) \in Nat
  <1>1. IsFiniteSet(S)
    BY CacheAssumption, FS_Subset
  <1> QED
    BY <1>1, FS_CardinalityType

\* The keys of one more request are added to the count.
LEMMA AddRow ==
    ASSUME NEW r \in Readers, NEW P \in SUBSET (Readers \X Functions), NEW S \in SUBSET Functions,
           \A k \in P : k[1] # r
    PROVE  Cardinality(P \cup ({r} \X S)) = Cardinality(P) + Cardinality(S)
  <1> DEFINE row == {r} \X S
  <1>1. IsFiniteSet(P) /\ Cardinality(P) \in Nat /\ IsFiniteSet(S) /\ Cardinality(S) \in Nat
    BY PairsFinite, KeysFinite
  <1>2. IsFiniteSet({r}) /\ Cardinality({r}) = 1
    BY FS_Singleton
  <1>3. IsFiniteSet(row) /\ Cardinality(row) = Cardinality({r}) * Cardinality(S)
    BY ONLY <1>1, <1>2, FS_Product
  <1>4. Cardinality(row) = Cardinality(S)
    BY <1>1, <1>2, <1>3
  <1>5. P \cap row = {}
    OBVIOUS
  <1> HIDE DEF row
  <1>5a. Cardinality(P \cap row) = 0
    BY <1>5, FS_EmptySet
  <1>6. Cardinality(P \cup row) = Cardinality(P) + Cardinality(row) - Cardinality(P \cap row)
    BY ONLY <1>1, <1>3, FS_Union
  <1>7. Cardinality(P \cup row) = Cardinality(P) + Cardinality(S)
    BY <1>1, <1>4, <1>5a, <1>6
  <1> QED
    BY <1>7 DEF row

-----------------------------------------------------------------------------
(***************************************************************************)
(* Type correctness.                                                       *)
(***************************************************************************)

LEMMA TypeInit == Init => TypeOK
  BY CacheAssumption DEF Init, TypeOK, NoVersions, Versions

LEMMA TypeStep == TypeOK /\ [Next]_vars => TypeOK'
  <1> SUFFICES ASSUME TypeOK, [Next]_vars PROVE TypeOK'
    OBVIOUS
  <1> USE DEF TypeOK, vars, cacheVars, readerVars, historyVars
  <1>0. 0 \in Versions /\ Versions \subseteq Nat
    BY CacheAssumption DEF Versions
  <1>1. CASE UNCHANGED vars
    BY <1>1
  <1>2. ASSUME NEW r \in Readers, NEW k \in {"single", "bulk"}, NEW fs \in SUBSET Functions,
               Request(r, k, fs)
        PROVE  TypeOK'
    BY <1>2 DEF Request
  <1>3. ASSUME NEW r \in Readers, NEW f \in Functions, Lookup(r, f) PROVE TypeOK'
    BY <1>0, <1>3 DEF Lookup, GetFresh
  <1>4. ASSUME NEW r \in Readers, Count(r) PROVE TypeOK'
    <2>1. Hits(r) \in SUBSET Functions /\ Misses(r) \in SUBSET Functions
      BY DEF Hits, Misses
    <2>2. Cardinality(Hits(r)) \in Nat /\ Cardinality(Misses(r)) \in Nat
      BY <2>1, KeysFinite
    <2>4. stats' \in [hits : Nat, misses : Nat, evictions : Nat]
      BY <1>4, <2>2 DEF Count
    <2> QED
      BY <1>4, <2>4 DEF Count
  <1>5. ASSUME NEW r \in Readers, Acquire(r) PROVE TypeOK'
    BY <1>5 DEF Acquire
  <1>6. ASSUME NEW r \in Readers, Answer(r) PROVE TypeOK'
    <2> DEFINE known == {f \in Misses(r) : sap[f] # 0}
               ans == [f \in Functions |-> IF f \in known THEN sap[f] ELSE 0]
    <2>1. known \in SUBSET Functions /\ ans \in [Functions -> Versions]
      BY <1>0 DEF Misses, Hits
    <2>2. \/ UNCHANGED <<got, unstored>>
          \/ got' = [got EXCEPT ![r] = ans] /\ unstored' = [unstored EXCEPT ![r] = known]
      BY <1>6 DEF Answer
    <2> HIDE DEF known, ans
    <2>2a. got \in [Readers -> [Functions -> Versions]] /\ unstored \in [Readers -> SUBSET Functions]
      OBVIOUS
    <2>3. got' \in [Readers -> [Functions -> Versions]] /\ unstored' \in [Readers -> SUBSET Functions]
      BY ONLY <2>1, <2>2, <2>2a
    <2> QED
      BY <1>6, <2>3 DEF Answer
  <1>7. ASSUME NEW r \in Readers, FetchFails(r) PROVE TypeOK'
    BY <1>7 DEF FetchFails
  <1>8. ASSUME NEW r \in Readers, NEW f \in Functions, Store(r, f) PROVE TypeOK'
    BY <1>8 DEF Store
  <1>9. ASSUME NEW r \in Readers, Return(r) PROVE TypeOK'
    BY <1>9 DEF Return
  <1>10. CASE InvalidateAll
    <2>1. Cardinality(Live) \in Nat
      BY KeysFinite DEF Live
    <2>2. overtaken' \subseteq Functions
      BY <1>10 DEF InvalidateAll
    <2>3. ASSUME NEW n \in Nat, NEW s \in [hits : Nat, misses : Nat, evictions : Nat]
          PROVE  [s EXCEPT !.evictions = @ + n] \in [hits : Nat, misses : Nat, evictions : Nat]
      BY ONLY TRUE
    <2>4. stats' \in [hits : Nat, misses : Nat, evictions : Nat]
      BY <1>10, <2>1, <2>3 DEF InvalidateAll
    <2>5. entry' \in [Functions -> Versions]
      BY <1>0, <1>10 DEF InvalidateAll, NoVersions
    <2> QED
      BY <1>10, <2>2, <2>4, <2>5 DEF InvalidateAll
  <1>11. ASSUME NEW f \in Functions, Expire(f) PROVE TypeOK'
    BY <1>11 DEF Expire
  <1>12. ASSUME NEW f \in Functions, Import(f) PROVE TypeOK'
    BY <1>12, CacheAssumption DEF Import, Versions
  <1> QED
    BY <1>1, <1>2, <1>3, <1>4, <1>5, <1>6, <1>7, <1>8, <1>9, <1>10, <1>11, <1>12
       DEF Next, Reading

\* Counters never go below zero and every request holds what its state needs.
THEOREM CacheTypeCorrect == Spec => []TypeOK
  BY TypeInit, TypeStep, PTL DEF Spec

-----------------------------------------------------------------------------
(***************************************************************************)
(* What the cache holds.                                                   *)
(***************************************************************************)

\* Versions only grow, so nothing held anywhere is newer than SAP's own.
NothingFromTheFuture ==
    \A f \in Functions :
        /\ entry[f] <= sap[f]
        /\ floor[f] <= sap[f]
        /\ \A r \in Readers : found[r][f] <= sap[f] /\ got[r][f] <= sap[f]

\* An answer still to be stored is as new as the last invalidation, unless it
\* was already on its way then.
AnswersHold ==
    \A r \in Readers : \A f \in unstored[r] \ overtaken : got[r][f] >= floor[f]

\* With caching disabled the map stays empty, so no lookup finds anything.
DisabledStaysEmpty ==
    ttlZero => \A f \in Functions : entry[f] = 0 /\ \A r \in Readers : found[r][f] = 0

CInv == TypeOK /\ NothingFromTheFuture /\ AnswersHold /\ InvalidationHolds
          /\ DisabledStaysEmpty

LEMMA CacheInit == Init => CInv
  BY CacheAssumption, TypeInit DEF Init, CInv, NothingFromTheFuture, AnswersHold,
     InvalidationHolds, DisabledStaysEmpty, NoVersions, Versions

LEMMA CacheStep == CInv /\ [Next]_vars => CInv'
  <1> SUFFICES ASSUME CInv, [Next]_vars PROVE CInv'
    OBVIOUS
  <1>0. TypeOK /\ TypeOK'
    BY TypeStep DEF CInv
  <1> USE CacheAssumption, <1>0 DEF CInv, TypeOK, NothingFromTheFuture, AnswersHold,
          InvalidationHolds, DisabledStaysEmpty, Versions, vars, cacheVars, readerVars,
          historyVars
  <1>1. CASE UNCHANGED vars
    BY <1>1
  <1>2. ASSUME NEW r \in Readers, NEW k, NEW fs \in SUBSET Functions,
               Request(r, k, fs)
        PROVE  CInv'
    BY <1>2 DEF Request
  <1>3. ASSUME NEW r \in Readers, NEW f \in Functions, Lookup(r, f) PROVE CInv'
    BY <1>3 DEF Lookup, GetFresh
  <1>4. ASSUME NEW r \in Readers, Count(r) PROVE CInv'
    BY <1>4 DEF Count
  <1>5. ASSUME NEW r \in Readers, Acquire(r) PROVE CInv'
    BY <1>5 DEF Acquire
  <1>6. ASSUME NEW r \in Readers, Answer(r) PROVE CInv'
    <2> DEFINE known == {f \in Misses(r) : sap[f] # 0}
               ans == [f \in Functions |-> IF f \in known THEN sap[f] ELSE 0]
    <2>1. CASE UNCHANGED <<got, unstored>>
      BY <1>6, <2>1 DEF Answer
    <2>2. CASE got' = [got EXCEPT ![r] = ans] /\ unstored' = [unstored EXCEPT ![r] = known]
      <3>1. known \subseteq Functions
        BY DEF Misses, Hits
      <3>2. /\ ans \in [Functions -> Versions]
            /\ \A f \in Functions : ans[f] <= sap[f]
            /\ \A f \in known : ans[f] = sap[f]
        <4>1. sap \in [Functions -> Versions]
          OBVIOUS
        <4> QED
          BY ONLY <3>1, <4>1, CacheAssumption DEF Versions
      <3>3. UNCHANGED <<sap, ttlZero, entry, found, floor, overtaken>>
        BY <1>6 DEF Answer
      <3> HIDE DEF known, ans
      <3>4. \A x \in Readers :
               /\ got'[x] = IF x = r THEN ans ELSE got[x]
               /\ unstored'[x] = IF x = r THEN known ELSE unstored[x]
        BY <2>2
      <3>6. NothingFromTheFuture'
        BY <3>2, <3>3, <3>4
      <3>7. AnswersHold'
        BY <3>1, <3>2, <3>3, <3>4, ZenonT(30)
      <3>8. InvalidationHolds' /\ DisabledStaysEmpty'
        BY <3>3
      <3> QED
        BY <3>6, <3>7, <3>8
    <2> QED
      BY <1>6, <2>1, <2>2 DEF Answer
  <1>7. ASSUME NEW r \in Readers, FetchFails(r) PROVE CInv'
    BY <1>7 DEF FetchFails
  <1>8. ASSUME NEW r \in Readers, NEW f \in Functions, Store(r, f) PROVE CInv'
    BY <1>8 DEF Store
  <1>9. ASSUME NEW r \in Readers, Return(r) PROVE CInv'
    BY <1>9 DEF Return
  <1>10. CASE InvalidateAll
    BY <1>10 DEF InvalidateAll, NoVersions
  <1>11. ASSUME NEW f \in Functions, Expire(f) PROVE CInv'
    BY <1>11 DEF Expire
  <1>12. ASSUME NEW f \in Functions, Import(f) PROVE CInv'
    BY <1>12 DEF Import
  <1> QED
    BY <1>1, <1>2, <1>3, <1>4, <1>5, <1>6, <1>7, <1>8, <1>9, <1>10, <1>11, <1>12
       DEF Next, Reading

\* invalidate_all takes effect for every key whose answer was not already on
\* its way: no entry written later is older than SAP was at that moment.
THEOREM InvalidationTakesEffect == Spec => []InvalidationHolds
  <1>1. CInv => InvalidationHolds
    BY DEF CInv
  <1> QED
    BY <1>1, CacheInit, CacheStep, PTL DEF Spec

-----------------------------------------------------------------------------
(***************************************************************************)
(* The counters.  Misses pay for entries: a miss that was counted is owed  *)
(* at most one store, so the entries there are, the entries evicted and    *)
(* the stores still owed never exceed the misses.                          *)
(***************************************************************************)
OwedKeys ==
    {k \in Readers \X Functions :
        \/ pc[k[1]] \in {"acquiring", "fetching"} /\ k[2] \in Misses(k[1])
        \/ pc[k[1]] = "storing" /\ k[2] \in unstored[k[1]]}

SInv ==
    /\ stats.hits = Cardinality(HitKeys)
    /\ stats.misses = Cardinality(MissedKeys)
    /\ stats.evictions + Cardinality(Live) + Cardinality(OwedKeys) <= stats.misses

LEMMA CountTypes ==
    ASSUME TypeOK
    PROVE  /\ HitKeys \in SUBSET (Readers \X Functions) /\ MissedKeys \in SUBSET (Readers \X Functions)
           /\ OwedKeys \in SUBSET (Readers \X Functions) /\ Live \in SUBSET Functions
           /\ Cardinality(HitKeys) \in Nat /\ Cardinality(MissedKeys) \in Nat
           /\ IsFiniteSet(OwedKeys) /\ Cardinality(OwedKeys) \in Nat
           /\ IsFiniteSet(Live) /\ Cardinality(Live) \in Nat
           /\ stats.hits \in Nat /\ stats.misses \in Nat /\ stats.evictions \in Nat
  <1>1. /\ HitKeys \in SUBSET (Readers \X Functions) /\ MissedKeys \in SUBSET (Readers \X Functions)
        /\ OwedKeys \in SUBSET (Readers \X Functions) /\ Live \in SUBSET Functions
    BY DEF HitKeys, MissedKeys, OwedKeys, Live
  <1>2. stats.hits \in Nat /\ stats.misses \in Nat /\ stats.evictions \in Nat
    BY DEF TypeOK
  <1> QED
    BY <1>1, <1>2, PairsFinite, KeysFinite

LEMMA StatsInit == Init => SInv
  <1> SUFFICES ASSUME Init PROVE SInv
    OBVIOUS
  <1>1. HitKeys = {} /\ MissedKeys = {} /\ OwedKeys = {} /\ Live = {}
    BY DEF Init, HitKeys, MissedKeys, OwedKeys, Live, Counted, NoVersions
  <1>2. stats.hits = 0 /\ stats.misses = 0 /\ stats.evictions = 0
    BY DEF Init
  <1> QED
    BY <1>1, <1>2, FS_EmptySet DEF SInv

\* A step that counts nothing and adds no entry.
LEMMA StatsQuiet ==
    ASSUME TypeOK, SInv, HitKeys' = HitKeys, MissedKeys' = MissedKeys,
           OwedKeys' \subseteq OwedKeys, Live' = Live, stats' = stats
    PROVE  SInv'
  <1>1. Cardinality(OwedKeys') <= Cardinality(OwedKeys) /\ Cardinality(OwedKeys') \in Nat
    <2>1. IsFiniteSet(OwedKeys) /\ OwedKeys' \in SUBSET OwedKeys
      BY CountTypes
    <2>2. Cardinality(OwedKeys') <= Cardinality(OwedKeys) /\ IsFiniteSet(OwedKeys')
      BY ONLY <2>1, FS_Subset
    <2> QED
      BY <2>2, FS_CardinalityType
  <1>2. /\ stats.evictions \in Nat /\ Cardinality(Live) \in Nat /\ Cardinality(OwedKeys) \in Nat
        /\ stats.misses \in Nat
    BY CountTypes
  <1>3. Cardinality(Live') = Cardinality(Live) /\ Cardinality(HitKeys') = Cardinality(HitKeys)
        /\ Cardinality(MissedKeys') = Cardinality(MissedKeys)
    OBVIOUS
  <1>4. stats.evictions + Cardinality(Live) + Cardinality(OwedKeys') <= stats.misses
    BY <1>1, <1>2 DEF SInv
  <1> QED
    BY <1>3, <1>4 DEF SInv

LEMMA StatsCount ==
    ASSUME TypeOK, SInv, NEW r \in Readers, Count(r)
    PROVE  SInv'
  <1>0. /\ Hits(r) \in SUBSET Functions /\ Misses(r) \in SUBSET Functions
        /\ Cardinality(Hits(r)) \in Nat /\ Cardinality(Misses(r)) \in Nat
    <2>1. Hits(r) \in SUBSET Functions /\ Misses(r) \in SUBSET Functions
      BY DEF Hits, Misses, TypeOK
    <2> QED
      BY <2>1, KeysFinite
  <1>1. /\ pc[r] = "looking" /\ pc'[r] \in {"acquiring", "done"}
        /\ \A x \in Readers \ {r} : pc'[x] = pc[x]
        /\ pc'[r] = "done" => Misses(r) = {}
        /\ UNCHANGED <<want, found, unstored, entry>>
    BY DEF Count, TypeOK
  <1>2. \A x \in Readers : Hits(x)' = Hits(x) /\ Misses(x)' = Misses(x)
    BY <1>1 DEF Hits, Misses
  <1>3. HitKeys' = HitKeys \cup ({r} \X Hits(r)) /\ \A k \in HitKeys : k[1] # r
    BY <1>0, <1>1, <1>2 DEF HitKeys, Counted
  <1>4. MissedKeys' = MissedKeys \cup ({r} \X Misses(r)) /\ \A k \in MissedKeys : k[1] # r
    BY <1>0, <1>1, <1>2 DEF MissedKeys, Counted
  <1>5. OwedKeys' = OwedKeys \cup ({r} \X Misses(r)) /\ \A k \in OwedKeys : k[1] # r
    BY <1>0, <1>1, <1>2 DEF OwedKeys
  <1>6. Live' = Live
    BY <1>1 DEF Live
  <1>7. /\ HitKeys \in SUBSET (Readers \X Functions) /\ MissedKeys \in SUBSET (Readers \X Functions)
        /\ OwedKeys \in SUBSET (Readers \X Functions)
    BY CountTypes
  <1>8. /\ Cardinality(HitKeys') = Cardinality(HitKeys) + Cardinality(Hits(r))
        /\ Cardinality(MissedKeys') = Cardinality(MissedKeys) + Cardinality(Misses(r))
        /\ Cardinality(OwedKeys') = Cardinality(OwedKeys) + Cardinality(Misses(r))
    BY <1>0, <1>3, <1>4, <1>5, <1>7, AddRow
  <1>9. /\ stats'.hits = stats.hits + Cardinality(Hits(r))
        /\ stats'.misses = stats.misses + Cardinality(Misses(r))
        /\ stats'.evictions = stats.evictions
    BY DEF Count
  <1>10. Cardinality(Live') = Cardinality(Live)
    BY <1>6
  <1> QED
    BY <1>0, <1>8, <1>9, <1>10, CountTypes DEF SInv

LEMMA StatsStore ==
    ASSUME TypeOK, SInv, NEW r \in Readers, NEW f \in Functions, Store(r, f)
    PROVE  SInv'
  <1>1. /\ pc[r] = "storing" /\ f \in unstored[r]
        /\ \A x \in Readers : unstored'[x] = IF x = r THEN unstored[r] \ {f} ELSE unstored[x]
        /\ \A g \in Functions \ {f} : entry'[g] = entry[g]
        /\ UNCHANGED <<want, found, pc, stats>>
    BY DEF Store, TypeOK
  <1>2. \A x \in Readers : Hits(x)' = Hits(x) /\ Misses(x)' = Misses(x)
    BY <1>1 DEF Hits, Misses
  <1>3. HitKeys' = HitKeys /\ MissedKeys' = MissedKeys
    BY <1>1, <1>2 DEF HitKeys, MissedKeys, Counted
  <1>4. OwedKeys' = OwedKeys \ {<<r, f>>} /\ <<r, f>> \in OwedKeys
    BY <1>1, <1>2 DEF OwedKeys
  <1>5. Live' \in SUBSET (Live \cup {f})
    BY <1>1 DEF Live
  <1>6. Cardinality(OwedKeys') = Cardinality(OwedKeys) - 1
    <2>1. IsFiniteSet(OwedKeys)
      BY CountTypes
    <2>2. Cardinality(OwedKeys \ {<<r, f>>})
            = IF <<r, f>> \in OwedKeys THEN Cardinality(OwedKeys) - 1 ELSE Cardinality(OwedKeys)
      BY ONLY <2>1, FS_RemoveElement
    <2> QED
      BY <1>4, <2>2
  <1>7. Cardinality(Live') <= Cardinality(Live) + 1 /\ Cardinality(Live') \in Nat
    <2>1. IsFiniteSet(Live) /\ Cardinality(Live) \in Nat
      BY CountTypes
    <2>2. IsFiniteSet(Live \cup {f}) /\ Cardinality(Live \cup {f}) <= Cardinality(Live) + 1
      <3>1. /\ IsFiniteSet(Live \cup {f})
            /\ Cardinality(Live \cup {f})
                 = IF f \in Live THEN Cardinality(Live) ELSE Cardinality(Live) + 1
        BY ONLY <2>1, FS_AddElement
      <3> QED
        BY <2>1, <3>1
    <2>3. IsFiniteSet(Live') /\ Cardinality(Live') <= Cardinality(Live \cup {f})
      BY ONLY <1>5, <2>2, FS_Subset
    <2>4. Cardinality(Live') \in Nat /\ Cardinality(Live \cup {f}) \in Nat
      BY <2>2, <2>3, FS_CardinalityType
    <2> QED
      BY <2>1, <2>2, <2>3, <2>4
  <1>8. Cardinality(HitKeys') = Cardinality(HitKeys) /\ Cardinality(MissedKeys') = Cardinality(MissedKeys)
    BY <1>3
  <1> QED
    BY <1>1, <1>6, <1>7, <1>8, CountTypes DEF SInv

LEMMA StatsInvalidate ==
    ASSUME TypeOK, SInv, InvalidateAll
    PROVE  SInv'
  <1>1. Live' = {} /\ UNCHANGED <<pc, want, found, unstored>>
    BY DEF InvalidateAll, Live, NoVersions, readerVars
  <1>2. HitKeys' = HitKeys /\ MissedKeys' = MissedKeys /\ OwedKeys' = OwedKeys
    BY <1>1 DEF HitKeys, MissedKeys, OwedKeys, Counted, Hits, Misses
  <1>3. /\ stats'.hits = stats.hits /\ stats'.misses = stats.misses
        /\ stats'.evictions = stats.evictions + Cardinality(Live)
    BY DEF InvalidateAll, TypeOK
  <1>4. /\ Cardinality(Live') = 0 /\ Cardinality(HitKeys') = Cardinality(HitKeys)
        /\ Cardinality(MissedKeys') = Cardinality(MissedKeys)
        /\ Cardinality(OwedKeys') = Cardinality(OwedKeys)
    BY <1>1, <1>2, FS_EmptySet
  <1> QED
    BY <1>3, <1>4, CountTypes DEF SInv

LEMMA StatsStep == TypeOK /\ SInv /\ [Next]_vars => SInv'
  <1> SUFFICES ASSUME TypeOK, SInv, [Next]_vars PROVE SInv'
    OBVIOUS
  <1>1. ASSUME UNCHANGED <<pc, want, found, unstored, entry, stats>> PROVE SInv'
    <2>1. /\ HitKeys' = HitKeys /\ MissedKeys' = MissedKeys /\ OwedKeys' = OwedKeys
          /\ Live' = Live /\ stats' = stats
      BY <1>1 DEF HitKeys, MissedKeys, OwedKeys, Live, Counted, Hits, Misses
    <2> QED
      BY <2>1, StatsQuiet
  <1>2. ASSUME NEW r \in Readers, pc[r] \in {"idle", "looking"}, pc'[r] = "looking",
               \A x \in Readers \ {r} : pc'[x] = pc[x] /\ want'[x] = want[x] /\ found'[x] = found[x],
               UNCHANGED <<unstored, entry, stats>>
        PROVE  SInv'
    <2>1. /\ HitKeys' = HitKeys /\ MissedKeys' = MissedKeys /\ OwedKeys' = OwedKeys
          /\ Live' = Live /\ stats' = stats
      BY <1>2 DEF HitKeys, MissedKeys, OwedKeys, Live, Counted, Hits, Misses
    <2> QED
      BY <2>1, StatsQuiet
  <1>3. ASSUME NEW r \in Readers, pc[r] \in {"acquiring", "fetching", "storing"},
               pc'[r] \in {"fetching", "storing", "done"},
               pc'[r] = "fetching" => pc[r] = "acquiring",
               pc'[r] = "storing" => pc[r] = "fetching" /\ unstored'[r] \subseteq Misses(r),
               \A x \in Readers \ {r} : pc'[x] = pc[x] /\ unstored'[x] = unstored[x],
               UNCHANGED <<want, found, entry, stats>>
        PROVE  SInv'
    <2>1. \A x \in Readers : Hits(x)' = Hits(x) /\ Misses(x)' = Misses(x)
      BY <1>3 DEF Hits, Misses
    <2>2. /\ HitKeys' = HitKeys /\ MissedKeys' = MissedKeys /\ Live' = Live /\ stats' = stats
      BY <1>3, <2>1 DEF HitKeys, MissedKeys, Live, Counted
    <2>3. OwedKeys' \subseteq OwedKeys
      BY <1>3, <2>1 DEF OwedKeys
    <2> QED
      BY <2>2, <2>3, StatsQuiet
  <1>4. ASSUME NEW r \in Readers, Reading(r) PROVE SInv'
    <2>1. ASSUME NEW f \in Functions, Lookup(r, f) PROVE SInv'
      BY <1>2, <2>1 DEF Lookup, TypeOK, cacheVars
    <2>2. CASE Acquire(r) \/ FetchFails(r) \/ Return(r)
      BY <1>3, <2>2 DEF Acquire, FetchFails, Return, TypeOK, cacheVars
    <2>3. CASE Answer(r)
      <3>1. /\ pc[r] = "fetching" /\ pc'[r] \in {"storing", "done"}
            /\ pc'[r] = "storing" => unstored'[r] \subseteq Misses(r)
            /\ \A x \in Readers \ {r} : pc'[x] = pc[x] /\ unstored'[x] = unstored[x]
            /\ UNCHANGED <<want, found, entry, stats>>
        BY <2>3 DEF Answer, TypeOK, cacheVars
      <3> QED
        BY <1>3, <3>1
    <2> QED
      BY <1>4, <2>1, <2>2, <2>3, StatsCount, StatsStore DEF Reading
  <1>5. ASSUME NEW r \in Readers, NEW k, NEW fs \in SUBSET Functions, Request(r, k, fs)
        PROVE  SInv'
    BY <1>2, <1>5 DEF Request, TypeOK, cacheVars
  <1>6. ASSUME NEW f \in Functions, Expire(f) \/ Import(f) PROVE SInv'
    BY <1>1, <1>6 DEF Expire, Import, cacheVars, readerVars
  <1>7. CASE UNCHANGED vars
    BY <1>1, <1>7 DEF vars, cacheVars, readerVars
  <1> QED
    BY <1>4, <1>5, <1>6, <1>7, StatsInvalidate DEF Next

\* Hits, misses and evictions account for every key looked up and every entry
\* made, for any number of requests in flight (metadata_cache.rs).
THEOREM CountersAccount == Spec => []StatsAccount
  <1>1. TypeOK /\ SInv => StatsAccount
    BY CountTypes DEF SInv, StatsAccount
  <1> QED
    BY <1>1, TypeInit, TypeStep, StatsInit, StatsStep, PTL DEF Spec

-----------------------------------------------------------------------------
(***************************************************************************)
(* What a request returns.                                                 *)
(***************************************************************************)

\* A single request is for one key, a result is there only at the end, and
\* from the answer on a single request has a version for its key.
PInv ==
    \A r \in Readers :
        /\ kind[r] = "single" => \A f, g \in want[r] : f = g
        /\ pc[r] # "idle" => kind[r] \in {"single", "bulk"}
        /\ result[r] # "none" => pc[r] = "done"
        /\ kind[r] = "single" /\ (pc[r] = "storing" \/ result[r] = "ok") =>
              \A f \in want[r] : Returned(r, f) # 0

LEMMA ResultInit == Init => PInv
  BY DEF Init, PInv

\* Requests that are not the one that moves stay as they are.
LEMMA ResultFrame ==
    ASSUME PInv, NEW r \in Readers,
           \A x \in Readers \ {r} : /\ kind'[x] = kind[x] /\ want'[x] = want[x] /\ pc'[x] = pc[x]
                                    /\ result'[x] = result[x] /\ found'[x] = found[x]
                                    /\ got'[x] = got[x],
           /\ kind'[r] = "single" => \A f, g \in want'[r] : f = g
           /\ pc'[r] # "idle" => kind'[r] \in {"single", "bulk"}
           /\ result'[r] # "none" => pc'[r] = "done"
           /\ kind'[r] = "single" /\ (pc'[r] = "storing" \/ result'[r] = "ok") =>
                 \A f \in want'[r] : Returned(r, f)' # 0
    PROVE  PInv'
  <1>1. \A x \in Readers \ {r} : \A f : Returned(x, f)' = Returned(x, f)
    BY DEF Returned, Hits
  <1> QED
    BY <1>1 DEF PInv

LEMMA ResultStep == TypeOK /\ PInv /\ [Next]_vars => PInv'
  <1> SUFFICES ASSUME TypeOK, PInv, [Next]_vars PROVE PInv'
    OBVIOUS
  <1>1. ASSUME UNCHANGED readerVars PROVE PInv'
    BY <1>1 DEF PInv, readerVars, Returned, Hits
  <1>2. ASSUME NEW r \in Readers, NEW k \in {"single", "bulk"}, NEW fs \in SUBSET Functions,
               Request(r, k, fs)
        PROVE  PInv'
    <2>1. k = "single" => \A f, g \in fs : f = g
      <3>1. ASSUME Cardinality(fs) = 1 PROVE \E x : fs = {x}
        <4>1. IsFiniteSet(fs)
          BY KeysFinite
        <4> QED
          BY <3>1, <4>1, FS_Singleton
      <3> QED
        BY <1>2, <3>1 DEF Request
    <2> QED
      BY <1>2, <2>1, ResultFrame DEF Request, TypeOK, PInv
  <1>3. ASSUME NEW r \in Readers, NEW f \in Functions, Lookup(r, f) PROVE PInv'
    <2>1. /\ pc[r] = "looking" /\ result[r] = "none" /\ UNCHANGED <<kind, want, pc, got, result>>
          /\ \A x \in Readers \ {r} : found'[x] = found[x]
      BY <1>3 DEF Lookup, TypeOK, PInv
    <2> QED
      BY <2>1, ResultFrame DEF PInv
  <1>4. ASSUME NEW r \in Readers, Count(r) PROVE PInv'
    <2>1. Misses(r) = {} => \A f \in want[r] : Returned(r, f) # 0
      BY DEF Misses, Hits, Returned
    <2>2. \A f : Returned(r, f)' = Returned(r, f)
      BY <1>4 DEF Count, Returned, Hits
    <2>3. /\ pc[r] = "looking" /\ result[r] = "none"
          /\ \/ Misses(r) = {} /\ pc'[r] = "done" /\ result'[r] = "ok"
             \/ pc'[r] = "acquiring" /\ result'[r] = "none"
          /\ \A x \in Readers \ {r} : pc'[x] = pc[x] /\ result'[x] = result[x]
          /\ UNCHANGED <<kind, want, found, got>>
      BY <1>4 DEF Count, TypeOK, PInv
    <2> QED
      BY <2>1, <2>2, <2>3, ResultFrame DEF PInv
  <1>5. ASSUME NEW r \in Readers, Acquire(r) PROVE PInv'
    <2>1. /\ pc[r] \in {"acquiring", "fetching"} /\ result[r] = "none"
          /\ pc'[r] = "fetching" /\ \A x \in Readers \ {r} : pc'[x] = pc[x]
          /\ UNCHANGED result
          /\ UNCHANGED <<kind, want, found, got>>
      BY <1>5 DEF Acquire, TypeOK, PInv
    <2> QED
      BY <2>1, ResultFrame DEF PInv
  <1>6. ASSUME NEW r \in Readers, Answer(r) PROVE PInv'
    <2> DEFINE known == {f \in Misses(r) : sap[f] # 0}
               ans == [f \in Functions |-> IF f \in known THEN sap[f] ELSE 0]
    <2>0. pc[r] = "fetching" /\ result[r] = "none" /\ UNCHANGED <<kind, want, found>>
      BY <1>6 DEF Answer, PInv
    <2>1. CASE pc' = [pc EXCEPT ![r] = "done"] /\ result' = [result EXCEPT ![r] = "error"]
                 /\ UNCHANGED got
      BY <2>0, <2>1, ResultFrame DEF TypeOK, PInv
    <2>2. CASE /\ ~(kind[r] = "single" /\ known = {}) /\ UNCHANGED result
               /\ pc' = [pc EXCEPT ![r] = "storing"] /\ got' = [got EXCEPT ![r] = ans]
      <3>1. kind[r] = "single" => \A f \in want[r] : Returned(r, f)' # 0
        <4> SUFFICES ASSUME kind[r] = "single", NEW f \in want[r] PROVE Returned(r, f)' # 0
          OBVIOUS
        <4>1. f \in Functions /\ Hits(r)' = Hits(r)
          BY <2>0 DEF TypeOK, Hits
        <4>2. f \in Hits(r) => found[r][f] # 0
          BY DEF Hits
        <4>3. f \notin Hits(r) => f \in known /\ got'[r][f] # 0
          <5>1. PICK g \in known : TRUE
            BY <2>2
          <5>2. g \in want[r] /\ g = f
            BY <5>1 DEF Misses, PInv
          <5>3. got'[r][f] = sap[f] /\ sap[f] # 0
            BY <2>2, <4>1, <5>1, <5>2 DEF TypeOK
          <5> QED
            BY <5>1, <5>2, <5>3
        <4> QED
          BY <2>0, <4>1, <4>2, <4>3 DEF Returned
      <3>2. /\ \A x \in Readers \ {r} : pc'[x] = pc[x] /\ got'[x] = got[x]
            /\ pc'[r] = "storing"
        BY <2>2 DEF TypeOK
      <3> HIDE DEF known, ans
      <3> QED
        BY <2>0, <2>2, <3>1, <3>2, ResultFrame DEF PInv
    <2> QED
      BY <1>6, <2>1, <2>2 DEF Answer
  <1>7. ASSUME NEW r \in Readers, FetchFails(r) PROVE PInv'
    <2>1. /\ pc[r] \in {"acquiring", "fetching"} /\ result[r] = "none"
          /\ pc'[r] = "done" /\ \A x \in Readers \ {r} : pc'[x] = pc[x]
          /\ result'[r] = "error"
          /\ \A x \in Readers \ {r} : result'[x] = result[x]
          /\ UNCHANGED <<kind, want, found, got>>
      BY <1>7 DEF FetchFails, TypeOK, PInv
    <2> QED
      BY <2>1, ResultFrame DEF PInv
  <1>8. ASSUME NEW r \in Readers, NEW f \in Functions, Store(r, f) PROVE PInv'
    BY <1>8 DEF Store, PInv, Returned, Hits
  <1>9. ASSUME NEW r \in Readers, Return(r) PROVE PInv'
    <2>1. \A f : Returned(r, f)' = Returned(r, f)
      BY <1>9 DEF Return, Returned, Hits
    <2>2. /\ pc[r] = "storing" /\ pc'[r] = "done" /\ result'[r] = "ok"
          /\ \A x \in Readers \ {r} : pc'[x] = pc[x] /\ result'[x] = result[x]
          /\ UNCHANGED <<kind, want, found, got>>
      BY <1>9 DEF Return, TypeOK
    <2> QED
      BY <2>1, <2>2, ResultFrame DEF PInv
  <1>10. ASSUME InvalidateAll \/ \E f \in Functions : Expire(f) \/ Import(f) PROVE PInv'
    BY <1>1, <1>10 DEF InvalidateAll, Expire, Import
  <1>11. CASE UNCHANGED vars
    BY <1>1, <1>11 DEF vars
  <1> QED
    BY <1>2, <1>3, <1>4, <1>5, <1>6, <1>7, <1>8, <1>9, <1>10, <1>11 DEF Next, Reading

\* A request that returns Ok has a version SAP has had for every key, or
\* reports it missing, which only the bulk form may; with caching disabled
\* nothing comes from the map (rfc_metadata and bulk_rfc_metadata).
THEOREM ResultsComplete == Spec => []ResultComplete
  <1>1. CInv /\ PInv => ResultComplete
    <2> SUFFICES ASSUME CInv, PInv, NEW r \in Readers
                 PROVE  /\ result[r] = "ok" => \A f \in want[r] :
                              /\ Returned(r, f) <= sap[f]
                              /\ Returned(r, f) = 0 => kind[r] = "bulk"
                        /\ ttlZero => Hits(r) = {}
      BY DEF ResultComplete
    <2>1. want[r] \subseteq Functions
      BY DEF CInv, TypeOK
    <2>2. \A f \in Functions : Returned(r, f) <= sap[f]
      BY DEF CInv, NothingFromTheFuture, Returned
    <2>3. result[r] = "ok" => \A f \in want[r] : Returned(r, f) = 0 => kind[r] = "bulk"
      BY DEF PInv
    <2>4. ttlZero => Hits(r) = {}
      BY <2>1 DEF CInv, DisabledStaysEmpty, Hits
    <2> QED
      BY <2>1, <2>2, <2>3, <2>4
  <1>2. CInv => TypeOK
    BY DEF CInv
  <1> QED
    BY <1>1, <1>2, CacheInit, CacheStep, ResultInit, ResultStep, PTL DEF Spec
=============================================================================
