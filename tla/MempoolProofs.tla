--------------------------- MODULE MempoolProofs ---------------------------
(***************************************************************************)
(* What an allocation and a free do to the stores of the pool, and how far *)
(* a cache grows.                                                          *)
(***************************************************************************)
EXTENDS Mempool, OwnershipFacts, TLAPS

(* An allocation keeps the pool's state well typed and touches no cache    *)
(* but the allocating lcore's; the mbufs are no longer in that cache or    *)
(* the common store, and every other mbuf of the two is still in one of    *)
(* them.                                                                   *)
LEMMA AllocTakes ==
  ASSUME NEW l \in Lcores, NEW ms, PoolTypeOK, AllocBulk(l, ms),
         common \cap cache[l] = {}
  PROVE  /\ PoolTypeOK'
         /\ ms \subseteq Mbufs
         /\ ms \subseteq common \cup cache[l]
         /\ \A k \in Lcores \ {l} : cache'[k] = cache[k]
         /\ common' \cup cache'[l] = (common \cup cache[l]) \ ms
         /\ common' \cap cache'[l] = {}
<1> USE DEF PoolTypeOK, Reachable
<1>1. CASE AllocFromCache(l, ms)
  BY <1>1 DEF AllocFromCache
<1>2. CASE AllocAndRefill(l, ms)
  <2>1. PICK refill \in SUBSET (common \ ms) :
          /\ cache' = [cache EXCEPT ![l] = refill]
          /\ common' = common \ (refill \cup ms)
    BY <1>2 DEF AllocAndRefill
  <2> QED BY <1>2, <2>1 DEF AllocAndRefill, ExhaustsCache
<1>3. CASE AllocFromCommon(l, ms)
  BY <1>3 DEF AllocFromCommon, ExhaustsCache
<1> QED BY <1>1, <1>2, <1>3 DEF AllocBulk

(* A free adds the mbufs to what the common store and the lcore's cache    *)
(* hold together and touches no other cache.                               *)
LEMMA FreeAdds ==
  ASSUME NEW l \in Lcores, NEW ms \in SUBSET Mbufs, PoolTypeOK,
         FreeBulk(l, ms),
         common \cap cache[l] = {}, ms \cap (common \cup cache[l]) = {}
  PROVE  /\ PoolTypeOK'
         /\ \A k \in Lcores \ {l} : cache'[k] = cache[k]
         /\ common' \cup cache'[l] = common \cup cache[l] \cup ms
         /\ common' \cap cache'[l] = {}
<1> USE DEF PoolTypeOK
<1>1. CASE FreeToCache(l, ms)
  BY <1>1 DEF FreeToCache
<1>2. CASE FreeAndFlush(l, ms)
  BY <1>2 DEF FreeAndFlush
<1>3. CASE FreeToCommon(l, ms)
  BY <1>3 DEF FreeToCommon
<1> QED BY <1>1, <1>2, <1>3 DEF FreeBulk

(* The same for the allocation of a single mbuf ...                        *)
LEMMA AllocTakesOne ==
  ASSUME NEW l \in Lcores, NEW m, PoolTypeOK, Alloc(l, m),
         common \cap cache[l] = {}
  PROVE  /\ PoolTypeOK'
         /\ m \in Mbufs
         /\ m \in common \cup cache[l]
         /\ \A k \in Lcores \ {l} : cache'[k] = cache[k]
         /\ common' \cup cache'[l] = (common \cup cache[l]) \ {m}
         /\ common' \cap cache'[l] = {}
<1>1. AllocBulk(l, {m})
  BY DEF Alloc
<1> QED BY <1>1, AllocTakes

(* ... and its free.                                                       *)
LEMMA FreeAddsOne ==
  ASSUME NEW l \in Lcores, NEW m \in Mbufs, PoolTypeOK, Free(l, m),
         common \cap cache[l] = {}, m \notin common \cup cache[l]
  PROVE  /\ PoolTypeOK'
         /\ \A k \in Lcores \ {l} : cache'[k] = cache[k]
         /\ common' \cup cache'[l] = common \cup cache[l] \cup {m}
         /\ common' \cap cache'[l] = {}
<1>1. FreeBulk(l, {m}) /\ {m} \in SUBSET Mbufs
  BY DEF Free
<1> QED BY <1>1, FreeAdds

-----------------------------------------------------------------------------
(* How much a cache holds.                                                 *)

(* A cache may keep as many mbufs as a refill gives it.                    *)
LEMMA ThresholdIsLarge ==
  FlushThresh \in Nat /\ CacheSize <= FlushThresh
BY MempoolAssumption DEF FlushThresh

(* Neither an allocation ...                                               *)
LEMMA AllocKeepsBound ==
  ASSUME NEW l \in Lcores, NEW ms, PoolTypeOK, CachesBounded, AllocBulk(l, ms)
  PROVE  CachesBounded'
<1> USE DEF PoolTypeOK
<1>1. /\ FlushThresh \in Nat /\ CacheSize <= FlushThresh /\ CacheSize \in Nat
      /\ FlushThresh' = FlushThresh
  BY ThresholdIsLarge, MempoolAssumption DEF FlushThresh
<1>2. /\ cache[l] \in SUBSET Mbufs /\ IsFiniteSet(cache[l])
      /\ Cardinality(cache[l]) <= FlushThresh
  BY MempoolAssumption, PartIsSmall DEF CachesBounded
<1>3. PICK kept : /\ cache' = [cache EXCEPT ![l] = kept]
                  /\ Cardinality(kept) <= FlushThresh
  <2>1. CASE AllocFromCache(l, ms)
    <3>1. cache[l] \ ms \in SUBSET cache[l]
      OBVIOUS
    <3>2. /\ Cardinality(cache[l] \ ms) <= Cardinality(cache[l])
          /\ Cardinality(cache[l] \ ms) \in Nat /\ Cardinality(cache[l]) \in Nat
      BY <1>2, <3>1, PartIsSmall
    <3>3. Cardinality(cache[l] \ ms) <= FlushThresh
      BY <1>1, <1>2, <3>2
    <3> QED BY <2>1, <3>3 DEF AllocFromCache
  <2>2. CASE AllocAndRefill(l, ms)
    BY <1>1, <2>2 DEF AllocAndRefill
  <2>3. CASE AllocFromCommon(l, ms)
    <3>1. Cardinality({}) <= FlushThresh
      BY <1>1, FS_EmptySet
    <3> QED BY <2>3, <3>1 DEF AllocFromCommon
  <2> QED BY <2>1, <2>2, <2>3 DEF AllocBulk
<1> QED BY <1>1, <1>3 DEF CachesBounded

(* ... nor a free lets a cache outgrow its threshold.                      *)
LEMMA FreeKeepsBound ==
  ASSUME NEW l \in Lcores, NEW ms \in SUBSET Mbufs, PoolTypeOK, CachesBounded,
         FreeBulk(l, ms)
  PROVE  CachesBounded'
<1> USE DEF PoolTypeOK
<1>1. FlushThresh \in Nat /\ FlushThresh' = FlushThresh
  BY ThresholdIsLarge DEF FlushThresh
<1>2. IsFiniteSet(cache[l]) /\ IsFiniteSet(ms)
  BY MempoolAssumption, PartIsSmall
<1>3. CASE FreeToCache(l, ms)
  <2>1. /\ Cardinality(cache[l] \cup ms) <= Cardinality(cache[l]) + Cardinality(ms)
        /\ Cardinality(cache[l] \cup ms) \in Nat
        /\ Cardinality(cache[l]) \in Nat /\ Cardinality(ms) \in Nat
    BY <1>2, UnionIsSmall
  <2>2. Cardinality(cache[l] \cup ms) <= FlushThresh
    BY <1>1, <1>3, <2>1 DEF FreeToCache
  <2> QED BY <1>1, <1>3, <2>2 DEF FreeToCache, CachesBounded
<1>4. CASE FreeAndFlush(l, ms)
  BY <1>1, <1>4 DEF FreeAndFlush, CachesBounded
<1>5. CASE FreeToCommon(l, ms)
  BY <1>1, <1>5 DEF FreeToCommon, CachesBounded
<1> QED BY <1>3, <1>4, <1>5 DEF FreeBulk

=============================================================================
