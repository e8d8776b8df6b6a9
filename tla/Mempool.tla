------------------------------ MODULE Mempool ------------------------------
(***************************************************************************)
(* The packet buffer pool every tutorial creates with                      *)
(* rte_pktmbuf_pool_create(name, n, cache_size, ...): a common store of    *)
(* mbufs and, for every logical core, a private cache in front of it.  The *)
(* pool itself is DPDK's; the tutorials fix its size and its cache size    *)
(* (3-processing-a-packet/main.cpp:192) and call the operations below.     *)
(*                                                                         *)
(* The order in which a store hands its mbufs out is abstracted: a store   *)
(* is a set and any of its members may be taken.                           *)
(***************************************************************************)
EXTENDS Integers, FiniteSets

CONSTANTS
  Mbufs,      \* the mbufs of the pool (1023 of them in tutorial 3)
  Lcores,     \* the logical cores that run the program's routines
  CacheSize   \* the pool's per-lcore cache size (512)

ASSUME MempoolAssumption ==
  /\ IsFiniteSet(Mbufs)
  /\ IsFiniteSet(Lcores)
  /\ CacheSize \in Nat \ {0}

VARIABLES
  common,     \* the mbufs in the pool's common store
  cache       \* the mbufs in the cache of each lcore

poolVars == <<common, cache>>

(* A cache is flushed when it would outgrow one and a half times its size. *)
FlushThresh == (3 * CacheSize) \div 2

PoolTypeOK ==
  /\ common \in SUBSET Mbufs
  /\ cache \in [Lcores -> SUBSET Mbufs]

PoolInit ==
  /\ common = Mbufs
  /\ cache = [l \in Lcores |-> {}]

(* An allocation on lcore l finds buffers in its own cache or in the       *)
(* common store, never in the cache of another lcore.                      *)
Reachable(l) == cache[l] \cup common
CanAlloc(l) == Reachable(l) # {}

AllocFromCache(l, ms) ==
  /\ ms \subseteq cache[l]
  /\ cache' = [cache EXCEPT ![l] = @ \ ms]
  /\ UNCHANGED common

(* A request that the cache cannot serve alone empties it, takes the rest  *)
(* from the common store and refills the cache with CacheSize mbufs ...    *)
ExhaustsCache(l, ms) ==
  /\ cache[l] \subseteq ms
  /\ ms # cache[l]
  /\ ms \subseteq Reachable(l)

AllocAndRefill(l, ms) ==
  /\ ExhaustsCache(l, ms)
  /\ \E refill \in SUBSET (common \ ms) :
       /\ Cardinality(refill) = CacheSize
       /\ cache' = [cache EXCEPT ![l] = refill]
       /\ common' = common \ (refill \cup ms)

(* ... unless the common store has too few, and then serves the request    *)
(* alone.                                                                  *)
AllocFromCommon(l, ms) ==
  /\ ExhaustsCache(l, ms)
  /\ Cardinality(common \ ms) < CacheSize
  /\ cache' = [cache EXCEPT ![l] = {}]
  /\ common' = common \ ms

(* rte_pktmbuf_alloc_bulk: lcore l takes the mbufs ms;                     *)
(* rte_pktmbuf_alloc, rte_mempool_get: it takes one.                       *)
AllocBulk(l, ms) ==
  \/ AllocFromCache(l, ms)
  \/ AllocAndRefill(l, ms)
  \/ AllocFromCommon(l, ms)

Alloc(l, m) == AllocBulk(l, {m})

(* rte_pktmbuf_free_bulk: lcore l returns the mbufs ms to its cache; a     *)
(* cache that would outgrow its threshold is first emptied into the common *)
(* store.  mbufs too many for the cache alone go straight to the common    *)
(* store.  rte_pktmbuf_free returns one.                                   *)
FreeToCache(l, ms) ==
  /\ Cardinality(cache[l]) + Cardinality(ms) <= FlushThresh
  /\ cache' = [cache EXCEPT ![l] = @ \cup ms]
  /\ UNCHANGED common

FreeAndFlush(l, ms) ==
  /\ Cardinality(ms) <= FlushThresh
  /\ Cardinality(cache[l]) + Cardinality(ms) > FlushThresh
  /\ cache' = [cache EXCEPT ![l] = ms]
  /\ common' = common \cup cache[l]

FreeToCommon(l, ms) ==
  /\ Cardinality(ms) > FlushThresh
  /\ common' = common \cup ms
  /\ UNCHANGED cache

FreeBulk(l, ms) ==
  \/ FreeToCache(l, ms)
  \/ FreeAndFlush(l, ms)
  \/ FreeToCommon(l, ms)

Free(l, m) == FreeBulk(l, {m})

(* A cache never holds more than its threshold: the mbufs out of the reach *)
(* of the other lcores are that few.                                       *)
CachesBounded == \A l \in Lcores : Cardinality(cache[l]) <= FlushThresh

=============================================================================
