---------------------- MODULE ReceiveSideScalingProofs ----------------------
(***************************************************************************)
(* What is proved of ReceiveSideScaling for every pool, queue and burst    *)
(* size: every reachable state is well typed, every mbuf has exactly one   *)
(* owner, the program ends only after its second lcore has, and a worker   *)
(* that reads its queue id in time never meets main in one queue.          *)
(***************************************************************************)
EXTENDS ReceiveSideScaling, PortBringUpProofs, MempoolProofs

(* The two routines run on two lcores.                                     *)
LEMMA TwoLcores ==
  MainLcore \in Lcores /\ Worker \in Lcores /\ MainLcore # Worker
    /\ \A l \in Lcores : l = MainLcore \/ l = Worker
BY ScalingAssumption

-----------------------------------------------------------------------------
(* Who holds an mbuf.                                                      *)

(* Where in Held the mbufs of a lcore and of a queue are.                  *)
CacheAt(l) == IF l = MainLcore THEN 2 ELSE 3
PostedAt(q) == 4 + q
FilledAt(q) == 6 + q
BurstAt(l) == IF l = MainLcore THEN 8 ELSE 9

(* The nine places by their number ...                                     *)
LEMMA Places ==
  /\ Held[1] = common
  /\ \A l \in Lcores : /\ Held[CacheAt(l)] = cache[l]
                       /\ Held[BurstAt(l)] = Range(rx_packets[l])
  /\ \A q \in Queues : /\ Held[PostedAt(q)] = posted[q]
                       /\ Held[FilledAt(q)] = Range(filled[q])
BY TwoLcores DEF Held, CacheAt, PostedAt, FilledAt, BurstAt, Queues

(* ... the same after a step ...                                           *)
LEMMA PlacesAfter ==
  /\ (Held')[1] = common'
  /\ \A l \in Lcores : /\ (Held')[CacheAt(l)] = cache'[l]
                       /\ (Held')[BurstAt(l)] = Range(rx_packets'[l])
  /\ \A q \in Queues : /\ (Held')[PostedAt(q)] = posted'[q]
                       /\ (Held')[FilledAt(q)] = Range(filled'[q])
BY TwoLcores DEF Held, CacheAt, PostedAt, FilledAt, BurstAt, Queues

(* ... which are all different, and all there are.                         *)
LEMMA PlacesDiffer ==
  ASSUME NEW l \in Lcores, NEW q \in Queues
  PROVE  /\ CacheAt(l) \in 2 .. 3 /\ PostedAt(q) \in 4 .. 5
         /\ FilledAt(q) \in 6 .. 7 /\ BurstAt(l) \in 8 .. 9
         /\ \A k \in Lcores : k # l => CacheAt(k) # CacheAt(l)
         /\ \A r \in Queues : r # q => PostedAt(r) # PostedAt(q)
BY TwoLcores DEF CacheAt, PostedAt, FilledAt, BurstAt, Queues

(* There is no tenth place.                                                *)
LEMMA PlacesAreAll ==
  ASSUME NEW h \in 1 .. 9
  PROVE  \/ h = 1
         \/ \E l \in Lcores : h = CacheAt(l) \/ h = BurstAt(l)
         \/ \E q \in Queues : h = PostedAt(q) \/ h = FilledAt(q)
<1>1. /\ CacheAt(MainLcore) = 2 /\ CacheAt(Worker) = 3
      /\ BurstAt(MainLcore) = 8 /\ BurstAt(Worker) = 9
      /\ PostedAt(0) = 4 /\ PostedAt(1) = 5 /\ FilledAt(0) = 6 /\ FilledAt(1) = 7
      /\ 0 \in Queues /\ 1 \in Queues
  BY TwoLcores DEF CacheAt, PostedAt, FilledAt, BurstAt, Queues
<1>2. \/ h = 1 \/ h = 2 \/ h = 3 \/ h = 4 \/ h = 5 \/ h = 6 \/ h = 7 \/ h = 8
      \/ h = 9
  OBVIOUS
<1> QED BY <1>1, <1>2, TwoLcores

(* A place whose mbufs are where they were is as it was.                   *)
LEMMA Untouched ==
  ASSUME NEW H,
         1 \in H \/ UNCHANGED common,
         \A l \in Lcores : /\ CacheAt(l) \in H \/ cache'[l] = cache[l]
                           /\ BurstAt(l) \in H \/ rx_packets'[l] = rx_packets[l],
         \A q \in Queues : /\ PostedAt(q) \in H \/ posted'[q] = posted[q]
                           /\ FilledAt(q) \in H \/ filled'[q] = filled[q]
  PROVE  \A h \in (1 .. 9) \ H : (Held')[h] = Held[h]
<1> TAKE h \in (1 .. 9) \ H
<1>1. CASE h = 1
  BY <1>1, Places, PlacesAfter
<1>2. CASE \E l \in Lcores : h = CacheAt(l) \/ h = BurstAt(l)
  BY <1>2, Places, PlacesAfter
<1>3. CASE \E q \in Queues : h = PostedAt(q) \/ h = FilledAt(q)
  BY <1>3, Places, PlacesAfter
<1> QED BY <1>1, <1>2, <1>3, PlacesAreAll

(* The stores, the descriptors and the bursts are well typed.              *)
StoresTyped ==
  /\ PoolTypeOK
  /\ posted \in [Queues -> SUBSET Mbufs]
  /\ filled \in [Queues -> Seq(Mbufs)]
  /\ rx_packets \in [Lcores -> Seq(Mbufs)]
  /\ \A l \in Lcores : Len(rx_packets[l]) <= BurstSize

(* No queue and no burst holds an mbuf twice.                              *)
NoRepeats ==
  /\ \A q \in Queues : IsInjective(filled[q])
  /\ \A l \in Lcores : IsInjective(rx_packets[l])

(* To have one owner is what OwnershipFacts is about, before a step ...    *)
LEMMA OwnerMeans ==
  OneOwner <=> Apart(9, Held) /\ HoldAll(9, Held, Mbufs) /\ NoRepeats
BY DEF OneOwner, Apart, HoldAll, NoRepeats

(* ... and after it.                                                       *)
LEMMA OwnerAfterMeans ==
  OneOwner' <=> Apart(9, Held') /\ HoldAll(9, Held', Mbufs) /\ NoRepeats'
BY DEF OneOwner, Apart, HoldAll, NoRepeats

(* Owners that are kept are kept by the program.                           *)
LEMMA OwnerStays ==
  ASSUME OneOwner, OwnersKept(9, Held, Held'), NoRepeats'
  PROVE  OneOwner'
BY OwnerMeans, OwnerAfterMeans DEF OwnersKept

(* No mbuf is in two of the places.                                        *)
LEMMA StoresApart ==
  ASSUME OneOwner, NEW l \in Lcores, NEW q \in Queues
  PROVE  /\ common \cap cache[l] = {}
         /\ Range(rx_packets[l]) \cap (common \cup cache[l]) = {}
         /\ posted[q] \cap Range(filled[q]) = {}
         /\ Range(filled[q]) \cap Range(rx_packets[l]) = {}
<1>1. Apart(9, Held)
  BY OwnerMeans
<1>2. /\ CacheAt(l) \in 1 .. 9 /\ PostedAt(q) \in 1 .. 9 /\ FilledAt(q) \in 1 .. 9
      /\ BurstAt(l) \in 1 .. 9 /\ 1 \in 1 .. 9
      /\ CacheAt(l) # 1 /\ BurstAt(l) # 1 /\ BurstAt(l) # CacheAt(l)
      /\ PostedAt(q) # FilledAt(q) /\ FilledAt(q) # BurstAt(l)
  BY PlacesDiffer
<1>3. /\ Held[1] \cap Held[CacheAt(l)] = {} /\ Held[BurstAt(l)] \cap Held[1] = {}
      /\ Held[BurstAt(l)] \cap Held[CacheAt(l)] = {}
      /\ Held[PostedAt(q)] \cap Held[FilledAt(q)] = {}
      /\ Held[FilledAt(q)] \cap Held[BurstAt(l)] = {}
  BY <1>1, <1>2 DEF Apart
<1> QED BY <1>3, Places

(* Before main has set anything up, the common store holds every mbuf.     *)
LEMMA OwnerInit == Init => StoresTyped /\ OneOwner
<1> SUFFICES ASSUME Init PROVE StoresTyped /\ OneOwner
  OBVIOUS
<1>1. /\ common = Mbufs /\ \A l \in Lcores : cache[l] = {}
      /\ \A q \in Queues : posted[q] = {} /\ filled[q] = <<>>
      /\ \A l \in Lcores : rx_packets[l] = <<>>
      /\ cache \in [Lcores -> SUBSET Mbufs]
  BY DEF Init, PoolInit
<1>2. <<>> \in Seq(Mbufs) /\ Len(<<>>) = 0 /\ Range(<<>>) = {} /\ IsInjective(<<>>)
  BY EmptySeq, NothingInEmptySeq
<1>3. /\ posted \in [Queues -> SUBSET Mbufs] /\ filled \in [Queues -> Seq(Mbufs)]
      /\ rx_packets \in [Lcores -> Seq(Mbufs)]
  BY <1>2 DEF Init
<1>4. StoresTyped
  BY <1>1, <1>2, <1>3, ScalingAssumption DEF StoresTyped, PoolTypeOK
<1>5. NoRepeats
  BY <1>1, <1>2 DEF NoRepeats
<1>6. Held[1] = Mbufs /\ \A h \in 2 .. 9 : Held[h] = {}
  <2>1. ASSUME NEW h \in 2 .. 9 PROVE Held[h] = {}
    <3>1. CASE \E l \in Lcores : h = CacheAt(l) \/ h = BurstAt(l)
      BY <1>1, <1>2, <3>1, Places
    <3>2. CASE \E q \in Queues : h = PostedAt(q) \/ h = FilledAt(q)
      BY <1>1, <1>2, <3>2, Places
    <3>3. h \in 1 .. 9 /\ h # 1
      OBVIOUS
    <3> QED BY <3>1, <3>2, <3>3, PlacesAreAll
  <2> QED BY <1>1, <2>1, Places
<1> QED BY <1>4, <1>5, <1>6, OwnerMeans DEF Apart, HoldAll

(* The port writes a packet to a descriptor.                               *)
LEMMA ReceiveStep ==
  ASSUME StoresTyped, OneOwner, Receive
  PROVE  StoresTyped' /\ OneOwner' /\ UNCHANGED rx_packets
<1>1. PICK q \in Queues : \E m \in posted[q] :
        /\ posted' = [posted EXCEPT ![q] = @ \ {m}]
        /\ filled' = [filled EXCEPT ![q] = Append(@, m)]
  BY DEF Receive
<1>2. PICK m \in posted[q] :
        /\ posted' = [posted EXCEPT ![q] = @ \ {m}]
        /\ filled' = [filled EXCEPT ![q] = Append(@, m)]
  BY <1>1
<1>3. UNCHANGED <<common, cache, rx_packets>>
  BY DEF Receive
<1>4. /\ filled[q] \in Seq(Mbufs) /\ m \in Mbufs /\ IsInjective(filled[q])
      /\ m \notin Range(filled[q])
  BY StoresApart, TwoLcores DEF StoresTyped, OneOwner
<1>5. /\ Append(filled[q], m) \in Seq(Mbufs) /\ IsInjective(Append(filled[q], m))
      /\ Range(Append(filled[q], m)) = Range(filled[q]) \cup {m}
  BY <1>4, AppendSeq
<1>6. /\ posted'[q] = posted[q] \ {m} /\ filled'[q] = Append(filled[q], m)
      /\ \A r \in Queues \ {q} : posted'[r] = posted[r] /\ filled'[r] = filled[r]
  BY <1>2 DEF StoresTyped
<1>7. StoresTyped'
  <2>1. posted' \in [Queues -> SUBSET Mbufs]
    BY <1>2 DEF StoresTyped
  <2>2. filled' \in [Queues -> Seq(Mbufs)]
    BY <1>2, <1>5 DEF StoresTyped
  <2> QED BY <1>3, <2>1, <2>2 DEF StoresTyped, PoolTypeOK
<1>8. NoRepeats'
  BY <1>3, <1>5, <1>6 DEF NoRepeats, OneOwner
<1>9. Moved(9, Held, Held', PostedAt(q), FilledAt(q), {m})
  <2>1. \A h \in (1 .. 9) \ {PostedAt(q), FilledAt(q)} : (Held')[h] = Held[h]
    BY <1>3, <1>6, Untouched
  <2>2. /\ (Held')[PostedAt(q)] = Held[PostedAt(q)] \ {m}
        /\ (Held')[FilledAt(q)] = Held[FilledAt(q)] \cup {m}
        /\ {m} \subseteq Held[PostedAt(q)]
    BY <1>5, <1>6, Places, PlacesAfter
  <2> QED BY <2>1, <2>2 DEF Moved
<1>10. OwnersKept(9, Held, Held')
  <2>1. /\ PostedAt(q) \in 1 .. 9 /\ FilledAt(q) \in 1 .. 9
        /\ PostedAt(q) # FilledAt(q)
    BY TwoLcores, PlacesDiffer
  <2> QED BY <1>9, <2>1, OwnerMeans, MovedKeepsOwners
<1> QED BY <1>3, <1>7, <1>8, <1>10, OwnerStays

(* A lcore gives a descriptor a new mbuf.                                  *)
LEMMA PostStep ==
  ASSUME StoresTyped, OneOwner, NEW l \in Lcores, NEW q \in Queues,
         NEW m \in Mbufs, Alloc(l, m),
         posted' = [posted EXCEPT ![q] = @ \cup {m}],
         UNCHANGED <<filled, rx_packets>>
  PROVE  StoresTyped' /\ OneOwner'
<1>1. PoolTypeOK /\ common \cap cache[l] = {}
  BY StoresApart DEF StoresTyped
<1>2. /\ PoolTypeOK' /\ m \in common \cup cache[l]
      /\ \A k \in Lcores \ {l} : cache'[k] = cache[k]
      /\ common' \cup cache'[l] = (common \cup cache[l]) \ {m}
      /\ common' \cap cache'[l] = {}
  BY <1>1, AllocTakesOne
<1>3. /\ posted'[q] = posted[q] \cup {m}
      /\ \A r \in Queues \ {q} : posted'[r] = posted[r]
      /\ posted' \in [Queues -> SUBSET Mbufs]
  BY DEF StoresTyped
<1>4. StoresTyped' /\ NoRepeats'
  BY <1>2, <1>3 DEF StoresTyped, NoRepeats, OneOwner
<1>5. /\ 1 \in 1 .. 9 /\ CacheAt(l) \in 1 .. 9 /\ PostedAt(q) \in 1 .. 9
      /\ 1 # CacheAt(l) /\ 1 # PostedAt(q) /\ CacheAt(l) # PostedAt(q)
  BY PlacesDiffer
<1>6. TakenFrom(9, Held, Held', 1, CacheAt(l), PostedAt(q), {m})
  <2>1. \A h \in (1 .. 9) \ {1, CacheAt(l), PostedAt(q)} : (Held')[h] = Held[h]
    BY <1>2, <1>3, Untouched
  <2>2. /\ {m} \subseteq Held[1] \cup Held[CacheAt(l)]
        /\ (Held')[1] \cup (Held')[CacheAt(l)]
             = (Held[1] \cup Held[CacheAt(l)]) \ {m}
        /\ (Held')[1] \cap (Held')[CacheAt(l)] = {}
        /\ (Held')[PostedAt(q)] = Held[PostedAt(q)] \cup {m}
    BY <1>2, <1>3, Places, PlacesAfter
  <2> QED BY <2>1, <2>2 DEF TakenFrom
<1>7. OwnersKept(9, Held, Held')
  BY <1>5, <1>6, OwnerMeans, TakenKeepsOwners
<1> QED BY <1>4, <1>7, OwnerStays

(* A lcore takes a packet out of its queue; a driver that refills first    *)
(* has put a new mbuf into the descriptor by then.                         *)
LEMMA TakePacketStep ==
  ASSUME StoresTyped, OneOwner, NEW l \in Lcores, queue_id[l] \in Queues,
         TakePacket(l)
  PROVE  /\ StoresTyped' /\ OneOwner'
         /\ \A k \in Lcores \ {l} : rx_packets'[k] = rx_packets[k]
<1> DEFINE q == queue_id[l]
           e == Head(filled[q])
           burst == rx_packets[l]
           delivered == [h \in 1 .. 9 |-> IF h = FilledAt(q) THEN Range(filled[q]) \ {e}
                                          ELSE IF h = BurstAt(l) THEN Range(burst) \cup {e}
                                          ELSE Held[h]]
<1>1. /\ filled[q] # <<>> /\ Len(burst) < BurstSize
      /\ rx_packets' = [rx_packets EXCEPT ![l] = Append(burst, e)]
      /\ filled' = [filled EXCEPT ![q] = Tail(filled[q])]
  BY DEF TakePacket, CanTakePacket
<1>2. /\ q \in Queues /\ filled[q] \in Seq(Mbufs) /\ IsInjective(filled[q])
      /\ burst \in Seq(Mbufs) /\ IsInjective(burst)
      /\ Range(filled[q]) \cap Range(burst) = {}
      /\ PoolTypeOK /\ common \cap cache[l] = {}
  BY StoresApart DEF StoresTyped, OneOwner
<1>3. /\ rx_packets'[l] = Append(burst, e) /\ filled'[q] = Tail(filled[q])
      /\ \A k \in Lcores \ {l} : rx_packets'[k] = rx_packets[k]
      /\ \A r \in Queues \ {q} : filled'[r] = filled[r]
  BY <1>1, <1>2 DEF StoresTyped
<1>4. \/ UNCHANGED <<common, cache, posted>>
      \/ \E m \in Mbufs : Alloc(l, m) /\ posted' = [posted EXCEPT ![q] = @ \cup {m}]
  BY DEF TakePacket
<1> HIDE DEF q
<1>5. /\ e \in Mbufs /\ e \in Range(filled[q])
      /\ Tail(filled[q]) \in Seq(Mbufs) /\ IsInjective(Tail(filled[q]))
      /\ Range(Tail(filled[q])) = Range(filled[q]) \ {e}
  BY <1>1, <1>2, TailSeq
<1> HIDE DEF e
<1>6. /\ Append(burst, e) \in Seq(Mbufs) /\ IsInjective(Append(burst, e))
      /\ Len(Append(burst, e)) = Len(burst) + 1 /\ Len(burst) \in Nat
      /\ Range(Append(burst, e)) = Range(burst) \cup {e}
  BY <1>2, <1>5, AppendSeq
<1>7. /\ filled' \in [Queues -> Seq(Mbufs)]
      /\ rx_packets' \in [Lcores -> Seq(Mbufs)]
      /\ \A k \in Lcores : Len(rx_packets'[k]) <= BurstSize
  <2>1. /\ filled' \in [Queues -> Seq(Mbufs)]
        /\ rx_packets' \in [Lcores -> Seq(Mbufs)]
    BY <1>1, <1>5, <1>6 DEF StoresTyped
  <2>2. \A k \in Lcores : Len(rx_packets'[k]) <= BurstSize
    BY <1>1, <1>3, <1>6, ScalingAssumption DEF StoresTyped
  <2> QED BY <2>1, <2>2
<1>8. NoRepeats'
  BY <1>3, <1>5, <1>6 DEF NoRepeats, OneOwner
<1>9. /\ FilledAt(q) \in 6 .. 7 /\ BurstAt(l) \in 8 .. 9
      /\ CacheAt(l) \in 2 .. 3 /\ PostedAt(q) \in 4 .. 5
  BY <1>2, PlacesDiffer
<1>10. /\ delivered[FilledAt(q)] = Held[FilledAt(q)] \ {e}
       /\ delivered[BurstAt(l)] = Held[BurstAt(l)] \cup {e}
       /\ {e} \subseteq Held[FilledAt(q)]
       /\ \A h \in (1 .. 9) \ {FilledAt(q), BurstAt(l)} : delivered[h] = Held[h]
  BY <1>2, <1>5, <1>9, Places
<1>11. /\ (Held')[FilledAt(q)] = delivered[FilledAt(q)]
       /\ (Held')[BurstAt(l)] = delivered[BurstAt(l)]
  <2>1. /\ (Held')[FilledAt(q)] = Range(filled[q]) \ {e}
        /\ (Held')[BurstAt(l)] = Range(burst) \cup {e}
    BY <1>2, <1>3, <1>5, <1>6, PlacesAfter
  <2>2. /\ Held[FilledAt(q)] = Range(filled[q])
        /\ Held[BurstAt(l)] = Range(burst)
    BY <1>2, Places
  <2> HIDE DEF delivered
  <2> QED BY <1>10, <2>1, <2>2
<1> HIDE DEF delivered
<1>12. OwnersKept(9, Held, delivered)
  <2>1. Moved(9, Held, delivered, FilledAt(q), BurstAt(l), {e})
    BY <1>10 DEF Moved
  <2> QED BY <1>9, <2>1, OwnerMeans, MovedKeepsOwners
<1>13. CASE UNCHANGED <<common, cache, posted>>
  <2>1. \A h \in (1 .. 9) \ {FilledAt(q), BurstAt(l)} : (Held')[h] = Held[h]
    BY <1>3, <1>13, Untouched
  <2>2. \A h \in 1 .. 9 : (Held')[h] = delivered[h]
    BY <1>10, <1>11, <2>1
  <2>3. OwnersKept(9, Held, Held')
    BY <1>12, <2>2 DEF OwnersKept, Apart, HoldAll, HoldOnly
  <2>4. StoresTyped'
    BY <1>7, <1>13 DEF StoresTyped, PoolTypeOK
  <2> QED BY <1>3, <1>8, <2>3, <2>4, OwnerStays
<1>14. CASE \E m \in Mbufs :
              Alloc(l, m) /\ posted' = [posted EXCEPT ![q] = @ \cup {m}]
  <2>1. PICK m \in Mbufs :
          Alloc(l, m) /\ posted' = [posted EXCEPT ![q] = posted[q] \cup {m}]
    BY <1>14
  <2>2. /\ PoolTypeOK' /\ m \in common \cup cache[l]
        /\ \A k \in Lcores \ {l} : cache'[k] = cache[k]
        /\ common' \cup cache'[l] = (common \cup cache[l]) \ {m}
        /\ common' \cap cache'[l] = {}
    BY <1>2, <2>1, AllocTakesOne
  <2>3. /\ posted'[q] = posted[q] \cup {m}
        /\ \A r \in Queues \ {q} : posted'[r] = posted[r]
        /\ posted' \in [Queues -> SUBSET Mbufs]
    BY <1>2, <2>1 DEF StoresTyped
  <2> DEFINE H == {FilledAt(q), BurstAt(l), 1, CacheAt(l), PostedAt(q)}
  <2>4. \A h \in (1 .. 9) \ H : (Held')[h] = Held[h]
    BY <1>3, <2>2, <2>3, Untouched
  <2>5. TakenFrom(9, delivered, Held', 1, CacheAt(l), PostedAt(q), {m})
    <3>1. /\ delivered[1] = common /\ delivered[CacheAt(l)] = cache[l]
          /\ delivered[PostedAt(q)] = posted[q]
      BY <1>2, <1>9, <1>10, Places
    <3>2. /\ (Held')[1] = common' /\ (Held')[CacheAt(l)] = cache'[l]
          /\ (Held')[PostedAt(q)] = posted'[q]
      BY <1>2, PlacesAfter
    <3>3. \A h \in (1 .. 9) \ {1, CacheAt(l), PostedAt(q)} : (Held')[h] = delivered[h]
      BY <1>10, <1>11, <2>4
    <3> QED BY <2>2, <2>3, <3>1, <3>2, <3>3 DEF TakenFrom
  <2>6. OwnersKept(9, delivered, Held')
    <3>1. /\ 1 \in 1 .. 9 /\ CacheAt(l) \in 1 .. 9 /\ PostedAt(q) \in 1 .. 9
          /\ 1 # CacheAt(l) /\ 1 # PostedAt(q) /\ CacheAt(l) # PostedAt(q)
      BY <1>9
    <3> QED BY <1>12, <2>5, <3>1, TakenKeepsOwners DEF OwnersKept
  <2>7. OwnersKept(9, Held, Held')
    BY <1>12, <2>6 DEF OwnersKept
  <2>8. StoresTyped'
    BY <1>7, <2>2, <2>3 DEF StoresTyped
  <2> QED BY <1>3, <1>8, <2>7, <2>8, OwnerStays
<1> QED BY <1>4, <1>13, <1>14

(* A lcore frees its burst.                                                *)
LEMMA FreePacketsStep ==
  ASSUME StoresTyped, OneOwner, NEW l \in Lcores, FreePackets(l)
  PROVE  /\ StoresTyped' /\ OneOwner' /\ rx_packets'[l] = <<>>
         /\ \A k \in Lcores \ {l} : rx_packets'[k] = rx_packets[k]
<1> DEFINE ms == Range(rx_packets[l])
<1>1. /\ FreeBulk(l, ms) /\ rx_packets' = [rx_packets EXCEPT ![l] = <<>>]
      /\ UNCHANGED <<posted, filled>>
  BY DEF FreePackets, Freed, nicVars
<1>2. /\ PoolTypeOK /\ ms \in SUBSET Mbufs
      /\ common \cap cache[l] = {} /\ ms \cap (common \cup cache[l]) = {}
  <2>1. rx_packets[l] \in Seq(Mbufs) /\ 0 \in Queues
    BY DEF StoresTyped, Queues
  <2> QED BY <2>1, RangeInSet, StoresApart DEF StoresTyped
<1>3. /\ PoolTypeOK' /\ \A k \in Lcores \ {l} : cache'[k] = cache[k]
      /\ common' \cup cache'[l] = common \cup cache[l] \cup ms
      /\ common' \cap cache'[l] = {}
  BY <1>1, <1>2, FreeAdds
<1>4. /\ rx_packets'[l] = <<>>
      /\ \A k \in Lcores \ {l} : rx_packets'[k] = rx_packets[k]
  BY <1>1 DEF StoresTyped
<1>5. <<>> \in Seq(Mbufs) /\ Len(<<>>) = 0 /\ Range(<<>>) = {} /\ IsInjective(<<>>)
  BY EmptySeq, NothingInEmptySeq
<1>6. StoresTyped'
  <2>1. rx_packets' \in [Lcores -> Seq(Mbufs)]
    BY <1>1, <1>5 DEF StoresTyped
  <2>2. \A k \in Lcores : Len(rx_packets'[k]) <= BurstSize
    BY <1>4, <1>5, ScalingAssumption DEF StoresTyped
  <2> QED BY <1>1, <1>3, <2>1, <2>2 DEF StoresTyped
<1>7. NoRepeats'
  BY <1>1, <1>4, <1>5 DEF NoRepeats, OneOwner
<1>8. /\ 1 \in 1 .. 9 /\ CacheAt(l) \in 1 .. 9 /\ BurstAt(l) \in 1 .. 9
      /\ 1 # CacheAt(l) /\ 1 # BurstAt(l) /\ CacheAt(l) # BurstAt(l)
  BY PlacesDiffer DEF Queues
<1>9. GivenTo(9, Held, Held', 1, CacheAt(l), BurstAt(l), ms)
  <2>1. \A h \in (1 .. 9) \ {1, CacheAt(l), BurstAt(l)} : (Held')[h] = Held[h]
    BY <1>1, <1>3, <1>4, Untouched
  <2>2. /\ (Held')[1] \cup (Held')[CacheAt(l)]
             = Held[1] \cup Held[CacheAt(l)] \cup ms
        /\ (Held')[1] \cap (Held')[CacheAt(l)] = {}
        /\ Held[BurstAt(l)] = ms /\ (Held')[BurstAt(l)] = {}
    BY <1>3, <1>4, <1>5, Places, PlacesAfter
  <2> QED BY <2>1, <2>2 DEF GivenTo
<1>10. OwnersKept(9, Held, Held')
  BY <1>8, <1>9, OwnerMeans, GivenKeepsOwners
<1> QED BY <1>4, <1>6, <1>7, <1>10, OwnerStays

(* Every step leaves the stores well typed and every mbuf with one owner.  *)
LEMMA StoresNext ==
  ASSUME StoresTyped, OneOwner, queue_id \in [Lcores -> Queues], [Next]_vars
  PROVE  StoresTyped' /\ OneOwner'
<1>1. CASE UNCHANGED <<common, cache, posted, filled, rx_packets>>
  <2>1. Held' = Held
    BY <1>1 DEF Held
  <2> QED BY <1>1, <2>1 DEF StoresTyped, PoolTypeOK, OneOwner
<1>2. CASE SetupRxQueue
  <2>1. PICK q \in Queues : PostTo(q)
    BY <1>2 DEF SetupRxQueue
  <2>2. UNCHANGED <<filled, rx_packets>>
    BY <1>2 DEF SetupRxQueue
  <2> QED BY <2>1, <2>2, TwoLcores, PostStep DEF PostTo
<1>3. CASE \E l \in Lcores : Refill(l)
  <2>1. PICK l \in Lcores : Refill(l)
    BY <1>3
  <2>2. queue_id[l] \in Queues /\ UNCHANGED <<filled, rx_packets>>
    BY <2>1 DEF Refill
  <2> QED BY <2>1, <2>2, PostStep DEF Refill
<1>4. CASE \E l \in Lcores : TakePacket(l) \/ FreePackets(l)
  BY <1>4, TakePacketStep, FreePacketsStep
<1>5. CASE Receive
  BY <1>5, ReceiveStep
<1>6. \/ UNCHANGED <<common, cache, posted, filled, rx_packets>>
      \/ SetupRxQueue \/ Receive
      \/ \E l \in Lcores : Refill(l) \/ TakePacket(l) \/ FreePackets(l)
  BY TwoLcores, Zenon
  DEF Next, MainStep, WorkerStep, PollStep, Ended, vars, readVars, nicVars,
      Terminate, BringUp, BringUpFails, LaunchFails, Launch, Overwrite, WaitLcore,
      ReadPortId, ReadQueueId, CheckExit, RxBurst, EndOfBurst, ReturnBurst
<1> QED BY <1>1, <1>2, <1>3, <1>4, <1>5, <1>6

-----------------------------------------------------------------------------
(* Where the lcores are, and what they have read.                          *)

(* The variable and the numbers in it.                                     *)
LEMMA Words ==
  /\ Pack(0, 0) # Pack(0, 1)
  /\ \A q \in Queues : /\ Pack(0, q) \in {Pack(0, r) : r \in Queues}
                       /\ QueueRead(Pack(0, q)) = q
                       /\ PortOf(Pack(0, q)) \in 0 .. Half - 1
BY DEF Pack, QueueRead, QueueOf, PortOf, Half, Queues

(* The control state is well typed, and follows main.                      *)
ControlTyped ==
  /\ exit_indicator \in BOOLEAN /\ refill_first \in BOOLEAN
  /\ port_and_queue_id \in {Pack(0, q) : q \in Queues}
  /\ port_id \in [Lcores -> 0 .. Half - 1]
  /\ queue_id \in [Lcores -> Queues]
  /\ arrived \in 0 .. MaxArrivals
  /\ pc \in [Lcores -> MainLabels \cup WorkerLabels]
  /\ pc[MainLcore] \in MainLabels
  /\ pc[Worker] \in WorkerLabels

Control == ControlTyped /\ WorkerInsideMain /\ QueuesFollowMain

(* It holds when main begins.                                              *)
LEMMA ControlInit == Init => Control /\ BurstsMatch
<1> SUFFICES ASSUME Init PROVE Control /\ BurstsMatch
  OBVIOUS
<1>1. /\ pc[MainLcore] = "setup" /\ pc[Worker] = "idle"
      /\ pc \in [Lcores -> {"setup", "idle"}]
      /\ \A l \in Lcores : rx_packets[l] = <<>>
      /\ port_and_queue_id = Pack(0, 1)
  BY TwoLcores DEF Init
<1>2. /\ exit_indicator \in BOOLEAN /\ refill_first \in BOOLEAN
      /\ arrived \in 0 .. MaxArrivals
      /\ port_id \in [Lcores -> 0 .. Half - 1] /\ queue_id \in [Lcores -> Queues]
  <2>0. exit_indicator = FALSE /\ arrived = 0 /\ refill_first \in BOOLEAN
    BY Zenon DEF Init
  <2>1. exit_indicator \in BOOLEAN /\ arrived \in 0 .. MaxArrivals
    <3>1. exit_indicator \in BOOLEAN
      BY <2>0, Zenon
    <3>2. arrived \in 0 .. MaxArrivals
      <4>1. 0 \in 0 .. MaxArrivals
        BY ScalingAssumption
      <4> QED BY <2>0, <4>1
    <3> QED BY <3>1, <3>2
  <2>2. 0 \in 0 .. Half - 1 /\ 0 \in Queues
    BY DEF Half, Queues
  <2>3. port_id = [l \in Lcores |-> 0] /\ queue_id = [l \in Lcores |-> 0]
    BY DEF Init
  <2> QED BY <2>0, <2>1, <2>2, <2>3
<1>3. ControlTyped
  BY <1>1, <1>2, Words
  DEF ControlTyped, MainLabels, WorkerLabels, PollLabels, Queues
<1>4. WorkerInsideMain /\ QueuesFollowMain
  BY <1>1 DEF WorkerInsideMain, QueuesFollowMain, PollLabels, Polling
<1>5. \A l \in Lcores : pc[l] = "setup" \/ pc[l] = "idle"
  BY <1>1
<1> QED BY <1>1, <1>3, <1>4, <1>5 DEF Control, BurstsMatch

(* A routine that polls goes on polling, ends or does what is undefined.   *)
LEMMA PollControl ==
  ASSUME Control, BurstsMatch, StoresTyped, NEW l \in Lcores, PollStep(l)
  PROVE  /\ \A k \in Lcores \ {l} : /\ pc'[k] = pc[k]
                                    /\ queue_id'[k] = queue_id[k]
                                    /\ rx_packets'[k] = rx_packets[k]
         /\ pc' \in [Lcores -> MainLabels \cup WorkerLabels]
         /\ pc[l] \in PollLabels \ {"raced"}
         /\ \/ pc'[l] \in PollLabels
            \/ pc'[l] = IF l = MainLcore THEN "wait" ELSE "finished"
         /\ pc'[l] \in PollLabels \ {"port", "queue"} /\ pc[l] \in {"port", "queue"}
              => queue_id'[l] = QueueRead(port_and_queue_id)
         /\ pc[l] \notin {"port", "queue"}
              => pc'[l] \notin {"port", "queue"} /\ queue_id'[l] = queue_id[l]
         /\ queue_id' \in [Lcores -> Queues] /\ port_id' \in [Lcores -> 0 .. Half - 1]
         /\ UNCHANGED <<exit_indicator, port_and_queue_id, arrived, refill_first>>
         /\ pc'[l] \notin {"burst", "refill", "free"} => rx_packets'[l] = <<>>
         /\ pc'[l] = "free" => rx_packets'[l] # <<>>
<1> USE DEF readVars, nicVars
<1>1. /\ pc \in [Lcores -> MainLabels \cup WorkerLabels]
      /\ rx_packets \in [Lcores -> Seq(Mbufs)]
      /\ queue_id \in [Lcores -> Queues] /\ port_id \in [Lcores -> 0 .. Half - 1]
      /\ PortOf(port_and_queue_id) \in 0 .. Half - 1
      /\ QueueRead(port_and_queue_id) \in Queues
      /\ pc[l] \notin {"burst", "refill", "free"} => rx_packets[l] = <<>>
      /\ pc[l] = "free" => rx_packets[l] # <<>>
  BY Words DEF Control, ControlTyped, StoresTyped, BurstsMatch
<1> USE <1>1 DEF Goto, PollLabels, MainLabels, WorkerLabels
<1>2. CASE ReadPortId(l)
  BY <1>2 DEF ReadPortId
<1>3. CASE ReadQueueId(l)
  BY <1>3 DEF ReadQueueId
<1>4. CASE CheckExit(l)
  BY <1>4 DEF CheckExit
<1>5. CASE RxBurst(l)
  BY <1>5 DEF RxBurst
<1>6. CASE TakePacket(l)
  BY <1>6 DEF TakePacket
<1>7. CASE EndOfBurst(l)
  BY <1>7 DEF EndOfBurst
<1>8. CASE Refill(l)
  BY <1>8 DEF Refill
<1>9. CASE ReturnBurst(l)
  BY <1>9 DEF ReturnBurst, AfterEmptyBurst
<1>10. CASE FreePackets(l)
  BY <1>10 DEF FreePackets
<1> QED BY <1>2, <1>3, <1>4, <1>5, <1>6, <1>7, <1>8, <1>9, <1>10 DEF PollStep

(* Every step follows main.                                                *)
LEMMA ControlNext ==
  ASSUME Control, BurstsMatch, StoresTyped, [Next]_vars
  PROVE  Control' /\ BurstsMatch'
<1> USE DEF readVars, nicVars
<1>1. /\ pc \in [Lcores -> MainLabels \cup WorkerLabels]
      /\ pc[MainLcore] \in MainLabels /\ pc[Worker] \in WorkerLabels
      /\ ControlTyped /\ WorkerInsideMain /\ QueuesFollowMain
  BY DEF Control, ControlTyped
<1>2. SUFFICES ControlTyped' /\ WorkerInsideMain' /\ QueuesFollowMain'
               /\ BurstsMatch'
  BY DEF Control
<1>3. CASE PollStep(MainLcore)
  <2>1. /\ pc'[Worker] = pc[Worker] /\ queue_id'[Worker] = queue_id[Worker]
        /\ rx_packets'[Worker] = rx_packets[Worker]
        /\ pc' \in [Lcores -> MainLabels \cup WorkerLabels]
        /\ pc[MainLcore] \in PollLabels \ {"raced"}
        /\ pc'[MainLcore] \in PollLabels \cup {"wait"}
        /\ pc'[MainLcore] \in PollLabels \ {"port", "queue"}
             /\ pc[MainLcore] \in {"port", "queue"}
             => queue_id'[MainLcore] = QueueRead(port_and_queue_id)
        /\ pc[MainLcore] \notin {"port", "queue"}
             => /\ pc'[MainLcore] \notin {"port", "queue"}
                /\ queue_id'[MainLcore] = queue_id[MainLcore]
        /\ queue_id' \in [Lcores -> Queues]
        /\ port_id' \in [Lcores -> 0 .. Half - 1]
        /\ UNCHANGED <<exit_indicator, port_and_queue_id, arrived, refill_first>>
        /\ pc'[MainLcore] \notin {"burst", "refill", "free"}
             => rx_packets'[MainLcore] = <<>>
        /\ pc'[MainLcore] = "free" => rx_packets'[MainLcore] # <<>>
    BY <1>3, TwoLcores, PollControl
  <2>2. port_and_queue_id = Pack(0, 0) /\ QueueRead(port_and_queue_id) = 0
    BY <1>1, <2>1, Words DEF QueuesFollowMain, Queues
  <2>3. ControlTyped'
    BY <1>1, <2>1 DEF ControlTyped, MainLabels, PollLabels
  <2>4. WorkerInsideMain'
    BY <2>1 DEF WorkerInsideMain, PollLabels
  <2>5. QueuesFollowMain'
    BY <1>1, <2>1, <2>2 DEF QueuesFollowMain, PollLabels
  <2>6. BurstsMatch'
    BY <2>1, TwoLcores DEF BurstsMatch
  <2> QED BY <2>3, <2>4, <2>5, <2>6
<1>4. CASE PollStep(Worker)
  <2>1. /\ pc'[MainLcore] = pc[MainLcore]
        /\ queue_id'[MainLcore] = queue_id[MainLcore]
        /\ rx_packets'[MainLcore] = rx_packets[MainLcore]
        /\ pc' \in [Lcores -> MainLabels \cup WorkerLabels]
        /\ pc[Worker] \in PollLabels \ {"raced"}
        /\ pc'[Worker] \in PollLabels \cup {"finished"}
        /\ pc'[Worker] \in PollLabels \ {"port", "queue"}
             /\ pc[Worker] \in {"port", "queue"}
             => queue_id'[Worker] = QueueRead(port_and_queue_id)
        /\ pc[Worker] \notin {"port", "queue"}
             => /\ pc'[Worker] \notin {"port", "queue"}
                /\ queue_id'[Worker] = queue_id[Worker]
        /\ queue_id' \in [Lcores -> Queues]
        /\ port_id' \in [Lcores -> 0 .. Half - 1]
        /\ UNCHANGED <<exit_indicator, port_and_queue_id, arrived, refill_first>>
        /\ pc'[Worker] \notin {"burst", "refill", "free"}
             => rx_packets'[Worker] = <<>>
        /\ pc'[Worker] = "free" => rx_packets'[Worker] # <<>>
    BY <1>4, TwoLcores, PollControl
  <2>2. QueueRead(Pack(0, 1)) = 1
    BY Words DEF Queues
  <2>3. ControlTyped'
    BY <1>1, <2>1 DEF ControlTyped, WorkerLabels, PollLabels
  <2>4. WorkerInsideMain'
    BY <1>1, <2>1 DEF WorkerInsideMain, PollLabels
  <2>5. QueuesFollowMain'
    <3>1. pc[MainLcore] = "overwrite" /\ Polling(Worker)' => queue_id'[Worker] = 1
      <4>1. CASE pc[Worker] \in {"port", "queue"}
        BY <1>1, <2>1, <2>2, <4>1 DEF QueuesFollowMain, Polling, PollLabels
      <4>2. CASE pc[Worker] \notin {"port", "queue"}
        BY <1>1, <2>1, <4>2 DEF QueuesFollowMain, Polling, PollLabels
      <4> QED BY <4>1, <4>2
    <3> QED BY <1>1, <2>1, <3>1 DEF QueuesFollowMain
  <2>6. BurstsMatch'
    BY <2>1, TwoLcores DEF BurstsMatch
  <2> QED BY <2>3, <2>4, <2>5, <2>6
<1>5. CASE \/ Terminate \/ Receive \/ SetupRxQueue \/ UNCHANGED vars
  <2>1. /\ UNCHANGED <<port_and_queue_id, port_id, queue_id, rx_packets, pc>>
        /\ exit_indicator' \in BOOLEAN /\ arrived' \in 0 .. MaxArrivals
        /\ refill_first' = refill_first
    <3>1. CASE Terminate
      BY <1>1, <3>1 DEF Terminate, ControlTyped
    <3>2. CASE Receive
      BY <1>1, <3>2, ScalingAssumption DEF Receive, ControlTyped
    <3>3. CASE SetupRxQueue
      BY <1>1, <3>3 DEF SetupRxQueue, ControlTyped
    <3>4. CASE UNCHANGED vars
      BY <1>1, <3>4 DEF vars, ControlTyped
    <3> QED BY <1>5, <3>1, <3>2, <3>3, <3>4
  <2>2. ControlTyped'
    BY <1>1, <2>1 DEF ControlTyped
  <2> QED BY <1>1, <2>1, <2>2
          DEF WorkerInsideMain, QueuesFollowMain, BurstsMatch, Polling
<1>6. CASE BringUp \/ BringUpFails \/ LaunchFails \/ Launch \/ Overwrite \/ WaitLcore
  <2>1. /\ UNCHANGED <<exit_indicator, port_id, queue_id, arrived, refill_first, rx_packets>>
        /\ pc' \in [Lcores -> MainLabels \cup WorkerLabels]
        /\ pc'[MainLcore] \in {"setup", "launch", "overwrite", "port", "exited"}
        /\ pc'[Worker] \in WorkerLabels
        /\ pc[MainLcore] \notin PollLabels
    BY <1>1, <1>6, TwoLcores
    DEF BringUp, BringUpFails, LaunchFails, Launch, Overwrite, WaitLcore, Goto,
        MainLabels, WorkerLabels, PollLabels
  <2>2. port_and_queue_id' \in {Pack(0, q) : q \in Queues}
    BY <1>1, <1>6, Words
    DEF BringUp, BringUpFails, LaunchFails, Launch, Overwrite, WaitLcore,
        ControlTyped, Queues
  <2>3. ControlTyped'
    BY <1>1, <2>1, <2>2 DEF ControlTyped, MainLabels, PollLabels
  <2>4. WorkerInsideMain'
    BY <1>1, <1>6, <2>1, TwoLcores
    DEF BringUp, BringUpFails, LaunchFails, Launch, Overwrite, WaitLcore, Goto,
        WorkerJoined, WorkerInsideMain
  <2>5. QueuesFollowMain'
    BY <1>1, <1>6, <2>1, TwoLcores
    DEF BringUp, BringUpFails, LaunchFails, Launch, Overwrite, WaitLcore, Goto,
        QueuesFollowMain, WorkerInsideMain, Polling, PollLabels
  <2>6. BurstsMatch'
    <3>1. \/ pc'[Worker] = pc[Worker]
          \/ pc[Worker] = "idle" /\ pc'[Worker] = "port"
      BY <1>1, <1>6, TwoLcores
      DEF BringUp, BringUpFails, LaunchFails, Launch, Overwrite, WaitLcore, Goto,
          WorkerInsideMain
    <3> QED BY <2>1, <3>1, TwoLcores DEF BurstsMatch, PollLabels
  <2> QED BY <2>3, <2>4, <2>5, <2>6
<1> QED BY <1>3, <1>4, <1>5, <1>6 DEF Next, MainStep, WorkerStep, Ended

-----------------------------------------------------------------------------
(* The bring-up.                                                           *)

(* main starts with everything to do and the EAL down.                     *)
LEMMA BringUpBegins == Init => BringUpTypeOK /\ EalFollowsMain
<1> SUFFICES ASSUME Init PROVE BringUpTypeOK /\ EalFollowsMain
  OBVIOUS
<1>1. tutorial = 6 /\ BringUpInit /\ pc[MainLcore] = "setup" /\ eal = "down"
  BY TwoLcores DEF Init, BringUpInit
<1>2. BringUpTypeOK /\ EalIsFirst
  BY <1>1, BringUpTypedInit
<1>3. todo # <<>>
  BY <1>1, CallsAreOrdered DEF BringUpInit
<1> QED BY <1>1, <1>2, <1>3 DEF EalFollowsMain

(* The steps that leave the bring-up alone neither begin nor end main.     *)
LEMMA BringUpLeftAlone ==
  ASSUME ControlTyped, [Next]_vars
  PROVE  \/ BringUp \/ BringUpFails \/ LaunchFails \/ WaitLcore
         \/ /\ UNCHANGED bringUpVars
            /\ pc[MainLcore] \in {"setup", "exited"}
                 => pc'[MainLcore] = pc[MainLcore]
            /\ pc'[MainLcore] \in {"setup", "exited"}
                 => pc'[MainLcore] = pc[MainLcore]
<1> DEFINE Stays == /\ pc[MainLcore] \in {"setup", "exited"}
                         => pc'[MainLcore] = pc[MainLcore]
                    /\ pc'[MainLcore] \in {"setup", "exited"}
                         => pc'[MainLcore] = pc[MainLcore]
<1>1. DOMAIN pc = Lcores
  BY DEF ControlTyped
<1>2. ASSUME NEW l \in Lcores, PollStep(l)
      PROVE  UNCHANGED bringUpVars /\ Stays
  BY <1>1, <1>2, TwoLcores, Zenon
  DEF PollStep, ReadPortId, ReadQueueId, CheckExit, RxBurst, TakePacket, EndOfBurst,
      Refill, ReturnBurst, FreePackets, AfterEmptyBurst, Goto
<1>3. CASE Terminate \/ Receive \/ SetupRxQueue \/ Launch \/ Overwrite
           \/ UNCHANGED vars
  BY <1>1, <1>3, TwoLcores, Zenon
  DEF Terminate, Receive, SetupRxQueue, Launch, Overwrite, vars, bringUpVars, Goto
<1> QED
  BY <1>2, <1>3, TwoLcores DEF Next, MainStep, WorkerStep, Ended

(* The EAL is brought up first and cleaned up last.                        *)
LEMMA BringUpGoesOn ==
  ASSUME ControlTyped, BringUpTypeOK, EalFollowsMain, [Next]_vars
  PROVE  BringUpTypeOK' /\ EalFollowsMain'
<1> USE TwoLcores DEF EalFollowsMain, Goto
<1>1. DOMAIN pc = Lcores
  BY DEF ControlTyped
<1>2. CASE BringUp
  <2>1. /\ CallSucceeds \/ RxQueueIsSetUp
        /\ pc[MainLcore] = "setup"
        /\ pc'[MainLcore] = IF todo' = <<>> THEN "launch" ELSE "setup"
    BY <1>1, <1>2 DEF BringUp, RxQueuesAreSetUp
  <2>2. eal' \in {eal, "up"} /\ tutorial' = tutorial
    BY <2>1
    DEF CallSucceeds, RxQueueIsSetUp, StartEal, DetectPorts, FindPortByName,
        ReadDeviceInfo, CheckCapability, CreatePool, Configure, OtherCall, Succeeds
  <2>3. BringUpTypeOK' /\ EalIsFirst'
    BY <2>1, BringUpTypedNext, EalIsFirstNext DEF BringUpStep
  <2> QED BY <2>1, <2>2, <2>3 DEF BroughtUp
<1>3. CASE BringUpFails
  <2>1. /\ CallFails /\ pc[MainLcore] = "setup" /\ pc'[MainLcore] = "exited"
    BY <1>1, <1>3 DEF BringUpFails
  <2>2. /\ todo # <<>> /\ todo' = todo /\ tutorial' = tutorial
        /\ eal' = EalAfterFailure(Head(todo))
    BY <2>1 DEF CallFails
  <2>3. todo \in Seq(Members(ScalingCalls))
    BY DEF BringUpTypeOK, CallsOf
  <2>4. Head(todo) \in Members(todo) /\ Head(todo) \in Members(ScalingCalls)
    BY <2>2, <2>3 DEF Members
  <2>5. Head(todo) # "arguments"
    BY <2>4 DEF Members, ScalingCalls
  <2>6. eal' = "up" => Head(todo) = "lcores"
    BY <2>2, <2>4, <2>5 DEF EalAfterFailure, LeavesEalUp, EalIsFirst
  <2>7. BringUpTypeOK' /\ EalIsFirst'
    BY <2>1, BringUpTypedNext, EalIsFirstNext DEF BringUpStep
  <2> QED BY <2>1, <2>2, <2>6, <2>7
<1>4. CASE LaunchFails \/ WaitLcore
  <2>1. /\ CleanUpEal /\ BroughtUp /\ pc'[MainLcore] = "exited"
        /\ eal' = "cleaned" /\ tutorial' = tutorial
    BY <1>1, <1>4 DEF LaunchFails, WaitLcore, CleanUpEal
  <2>2. BringUpTypeOK' /\ EalIsFirst'
    BY <2>1, BringUpTypedNext, EalIsFirstNext DEF BringUpStep
  <2> QED BY <2>1, <2>2
<1>5. CASE /\ UNCHANGED bringUpVars
           /\ pc[MainLcore] \in {"setup", "exited"}
                => pc'[MainLcore] = pc[MainLcore]
           /\ pc'[MainLcore] \in {"setup", "exited"}
                => pc'[MainLcore] = pc[MainLcore]
  <2>1. BringUpTypeOK' /\ EalIsFirst' /\ BroughtUp' = BroughtUp
    BY <1>5, BringUpKept, Zenon
  <2> QED BY <1>5, <2>1 DEF bringUpVars
<1> QED BY <1>2, <1>3, <1>4, <1>5, BringUpLeftAlone

-----------------------------------------------------------------------------
(* The theorems.                                                           *)

(* The type invariant is that of the stores, the bring-up and the lcores.  *)
LEMMA TypeParts == TypeOK <=> StoresTyped /\ BringUpTypeOK /\ ControlTyped
BY Zenon DEF TypeOK, StoresTyped, ControlTyped

(* main starts where the invariant holds.                                  *)
LEMMA IInvBegins == Init => IInv
BY OwnerInit, ControlInit, BringUpBegins, TypeParts DEF IInv, Control

(* Every step keeps the invariant.                                         *)
LEMMA IInvGoesOn == IInv /\ [Next]_vars => IInv'
<1> SUFFICES ASSUME IInv, [Next]_vars PROVE IInv'
  OBVIOUS
<1>1. /\ StoresTyped /\ BringUpTypeOK /\ ControlTyped /\ OneOwner /\ BurstsMatch
      /\ WorkerInsideMain /\ EalFollowsMain /\ QueuesFollowMain
  BY TypeParts DEF IInv
<1>2. StoresTyped' /\ OneOwner'
  BY <1>1, StoresNext DEF ControlTyped
<1>3. Control' /\ BurstsMatch'
  BY <1>1, ControlNext DEF Control
<1>4. BringUpTypeOK' /\ EalFollowsMain'
  BY <1>1, BringUpGoesOn
<1>5. ControlTyped' /\ WorkerInsideMain' /\ QueuesFollowMain'
  BY <1>3 DEF Control
<1>6. TypeOK'
  BY <1>2, <1>4, <1>5, Zenon DEF TypeOK, StoresTyped, ControlTyped
<1> QED BY <1>2, <1>3, <1>4, <1>5, <1>6 DEF IInv

(* The invariant the theorems rest on.                                     *)
THEOREM ScalingInductive == Spec => []IInv
BY IInvBegins, IInvGoesOn, PTL DEF Spec

(* Every variable keeps its type, and no burst outgrows its array.         *)
THEOREM ScalingTypes == Spec => []TypeOK
<1>1. IInv => TypeOK
  BY DEF IInv
<1> QED BY <1>1, ScalingInductive, PTL

(* Two lcores that refill and free over one pool leave every mbuf with     *)
(* exactly one owner (main.cpp:51, 61).                                    *)
THEOREM ScalingOwnership == Spec => []OneOwner
<1>1. IInv => OneOwner
  BY DEF IInv
<1> QED BY <1>1, ScalingInductive, PTL

(* main cleans up, and ends the program, only after the worker has left    *)
(* the port, and ends it with the EAL up only for want of a second lcore   *)
(* (main.cpp:123, 251-254).                                                *)
THEOREM ScalingCleanupLast == Spec => []CleanupIsLast
<1>1. IInv => CleanupIsLast
  <2> SUFFICES ASSUME IInv PROVE CleanupIsLast
    OBVIOUS
  <2>1. BurstsMatch /\ WorkerInsideMain /\ EalFollowsMain
    BY DEF IInv
  <2>2. ASSUME eal = "cleaned" \/ pc[MainLcore] = "exited"
        PROVE  /\ pc[Worker] \in {"idle", "finished"}
               /\ \A l \in Lcores : rx_packets[l] = <<>>
    <3>1. pc[MainLcore] = "exited"
      BY <2>1, <2>2 DEF EalFollowsMain
    <3>2. pc[Worker] \in {"idle", "finished"}
      BY <2>1, <3>1 DEF WorkerInsideMain
    <3>3. \A l \in Lcores : pc[l] \notin {"burst", "refill", "free"}
      BY <3>1, <3>2, TwoLcores
    <3> QED BY <2>1, <3>2, <3>3 DEF BurstsMatch
  <2>3. pc[MainLcore] = "exited" /\ eal = "up" => Head(todo) = "lcores"
    BY <2>1 DEF EalFollowsMain
  <2> QED BY <2>2, <2>3 DEF CleanupIsLast
<1> QED BY <1>1, ScalingInductive, PTL

-----------------------------------------------------------------------------
(* The worker that has read its queue in time.                             *)

(* It has queue 1, and main has, or is about to read, queue 0.             *)
OwnQueues ==
  /\ queue_id[Worker] = 1
  /\ pc[Worker] \in (PollLabels \ {"port", "queue", "raced"}) \cup {"finished"}
  /\ pc[MainLcore] \in {"overwrite", "wait", "exited"}
                         \cup (PollLabels \ {"raced"})

(* No call of rte_eth_rx_burst then meets the other lcore in its queue.    *)
LEMMA NoneInUse ==
  ASSUME Control, OwnQueues, NEW l \in Lcores, pc[l] = "rx"
  PROVE  ~QueueInUse(l)
<1>1. pc[MainLcore] \in PollLabels \ {"port", "queue"} => queue_id[MainLcore] = 0
  BY DEF Control, QueuesFollowMain
<1>2. ASSUME NEW k \in Lcores \ {l}, InBurst(k)
      PROVE  queue_id[k] # queue_id[l]
  <2>1. pc[k] \in {"burst", "refill"}
    BY <1>2 DEF InBurst
  <2> QED BY <1>1, <2>1, TwoLcores DEF OwnQueues, PollLabels
<1> QED BY <1>2 DEF QueueInUse

(* A routine's step leaves "raced" aside when its queue is its own.        *)
LEMMA PollsAlone ==
  ASSUME ControlTyped, NEW l \in Lcores, PollStep(l), pc[l] = "rx" => ~QueueInUse(l)
  PROVE  pc'[l] # "raced"
<1>1. DOMAIN pc = Lcores
  BY DEF ControlTyped
<1>2. CASE RxBurst(l)
  BY <1>1, <1>2 DEF RxBurst, Goto
<1>3. CASE TakePacket(l) \/ Refill(l)
  BY <1>3 DEF TakePacket, Refill
<1>4. CASE \/ ReadPortId(l) \/ ReadQueueId(l) \/ CheckExit(l) \/ EndOfBurst(l)
           \/ ReturnBurst(l) \/ FreePackets(l)
  BY <1>1, <1>4
  DEF ReadPortId, ReadQueueId, CheckExit, EndOfBurst, ReturnBurst, AfterEmptyBurst,
      FreePackets, Goto
<1> QED BY <1>2, <1>3, <1>4 DEF PollStep

(* The two lcores keep their queues.                                       *)
LEMMA OwnQueuesKept ==
  ASSUME IInv, OwnQueues, [Next]_vars
  PROVE  OwnQueues'
<1>1. /\ Control /\ ControlTyped /\ BurstsMatch /\ StoresTyped
      /\ DOMAIN pc = Lcores
  BY TypeParts DEF IInv, Control, ControlTyped
<1>2. CASE PollStep(Worker)
  <2>1. /\ pc'[MainLcore] = pc[MainLcore]
        /\ pc'[Worker] \in PollLabels \cup {"finished"}
        /\ pc[Worker] \notin {"port", "queue"}
             => /\ pc'[Worker] \notin {"port", "queue"}
                /\ queue_id'[Worker] = queue_id[Worker]
    BY <1>1, <1>2, TwoLcores, PollControl
  <2>2. pc'[Worker] # "raced"
    BY <1>1, <1>2, TwoLcores, NoneInUse, PollsAlone
  <2> QED BY <2>1, <2>2 DEF OwnQueues, PollLabels
<1>3. CASE PollStep(MainLcore)
  <2>1. /\ pc'[Worker] = pc[Worker] /\ queue_id'[Worker] = queue_id[Worker]
        /\ pc'[MainLcore] \in PollLabels \cup {"wait"}
    BY <1>1, <1>3, TwoLcores, PollControl
  <2>2. pc'[MainLcore] # "raced"
    BY <1>1, <1>3, TwoLcores, NoneInUse, PollsAlone
  <2> QED BY <2>1, <2>2 DEF OwnQueues
<1>4. CASE \/ Terminate \/ Receive \/ SetupRxQueue \/ UNCHANGED vars
  <2>1. pc' = pc /\ queue_id' = queue_id
    BY <1>4, Zenon DEF Terminate, Receive, SetupRxQueue, vars, readVars
  <2> QED BY <2>1 DEF OwnQueues
<1>5. CASE BringUp \/ BringUpFails \/ LaunchFails \/ Launch
  <2>1. pc[MainLcore] \in {"setup", "launch"}
    BY <1>5 DEF BringUp, BringUpFails, LaunchFails, Launch
  <2> QED BY <2>1 DEF OwnQueues, PollLabels
<1>6. CASE Overwrite \/ WaitLcore
  <2>1. /\ queue_id' = queue_id /\ pc'[Worker] = pc[Worker]
        /\ pc'[MainLcore] \in {"port", "exited"}
    BY <1>1, <1>6, TwoLcores DEF Overwrite, WaitLcore, Goto, readVars
  <2> QED BY <2>1 DEF OwnQueues, PollLabels
<1> QED BY <1>2, <1>3, <1>4, <1>5, <1>6 DEF Next, MainStep, WorkerStep, Ended

(* A worker that has read its queue id by the time main overwrites the     *)
(* variable has its own queue for good: the two lcores never meet in one   *)
(* (main.cpp:42, 246).                                                     *)
THEOREM EarlyReaderIsSafe == Spec => EarlyReaderNeverRaces
<1>1. IInv /\ (pc[MainLcore] = "overwrite" /\ Polling(Worker)) => OwnQueues
  BY DEF IInv, QueuesFollowMain, OwnQueues, Polling, PollLabels
<1>2. IInv /\ OwnQueues /\ [Next]_vars => OwnQueues'
  BY OwnQueuesKept
<1>3. OwnQueues => ~raced
  BY TwoLcores DEF OwnQueues, raced, PollLabels
<1> QED BY <1>1, <1>2, <1>3, ScalingInductive, PTL DEF EarlyReaderNeverRaces, Spec

=============================================================================
