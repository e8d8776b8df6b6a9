------------------------ MODULE PacketGeneratorProofs ------------------------
(***************************************************************************)
(* What is proved of PacketGenerator for every pool, rate and burst size:  *)
(* type correctness, that every mbuf has one owner, that the routine never *)
(* skips a burst for want of mbufs, never runs ahead of the rate and sends *)
(* prepared packets only, and how the program ends.                        *)
(***************************************************************************)
EXTENDS PacketGenerator, PortBringUpProofs, MempoolProofs

(* The two routines run on two lcores.                                     *)
LEMMA TwoLcores ==
  /\ MainLcore \in Lcores /\ TxLcore \in Lcores /\ MainLcore # TxLcore
  /\ \A l \in Lcores : l = MainLcore \/ l = TxLcore
BY PacketGeneratorAssumption

-----------------------------------------------------------------------------
(* Who holds an mbuf.                                                      *)

(* The seven places by their number.                                       *)
LEMMA Places ==
  /\ Held[1] = common /\ Held[2] = cache[MainLcore] /\ Held[3] = cache[TxLcore]
  /\ Held[4] = buffers /\ Held[5] = packets /\ Held[6] = queued /\ Held[7] = done
BY DEF Held

(* The same after a step.                                                  *)
LEMMA PlacesAfter ==
  /\ (Held')[1] = common' /\ (Held')[2] = cache'[MainLcore]
  /\ (Held')[3] = cache'[TxLcore] /\ (Held')[4] = buffers'
  /\ (Held')[5] = packets' /\ (Held')[6] = queued' /\ (Held')[7] = done'
BY DEF Held

(* The places share no mbuf and hold those of the pool, all and only.      *)
Owned == OneOwner /\ OwnPoolOnly

(* To own is what OwnershipFacts is about, before a step ...               *)
LEMMA OwnedMeans ==
  Owned <=> Apart(7, Held) /\ HoldAll(7, Held, pool) /\ HoldOnly(7, Held, pool)
BY DEF Owned, OneOwner, OwnPoolOnly, Apart, HoldAll, HoldOnly

(* ... and after it.                                                       *)
LEMMA OwnedAfterMeans ==
  Owned' <=> /\ Apart(7, Held') /\ HoldAll(7, Held', pool')
             /\ HoldOnly(7, Held', pool')
BY DEF Owned, OneOwner, OwnPoolOnly, Apart, HoldAll, HoldOnly

(* Owners that are kept are kept by the program.                           *)
LEMMA OwnedStays ==
  ASSUME Owned, pool' = pool, OwnersKept(7, Held, Held')
  PROVE  Owned'
BY OwnedMeans, OwnedAfterMeans DEF OwnersKept

(* The stores of the pool share no mbuf with each other or with what the   *)
(* routines and the port hold.                                             *)
LEMMA StoresApart ==
  ASSUME Owned
  PROVE  /\ common \cap cache[MainLcore] = {} /\ common \cap cache[TxLcore] = {}
         /\ buffers \cap (common \cup cache[MainLcore]) = {}
         /\ done \cap (common \cup cache[TxLcore]) = {}
         /\ packets \cap queued = {} /\ packets \cap done = {}
         /\ queued \cap done = {}
<1>1. Apart(7, Held)
  BY OwnedMeans
<1>2. /\ Held[1] \cap Held[2] = {} /\ Held[1] \cap Held[3] = {}
      /\ Held[4] \cap Held[1] = {} /\ Held[4] \cap Held[2] = {}
      /\ Held[7] \cap Held[1] = {} /\ Held[7] \cap Held[3] = {}
      /\ Held[5] \cap Held[6] = {} /\ Held[5] \cap Held[7] = {}
      /\ Held[6] \cap Held[7] = {}
  BY <1>1 DEF Apart
<1> QED BY <1>2, Places

(* The program's pool, and what any place holds of it, is finite.          *)
LEMMA PoolIsFinite ==
  ASSUME TypeOK, Owned
  PROVE  /\ pool \in SUBSET Mbufs /\ IsFiniteSet(pool)
         /\ IsFiniteSet(common) /\ IsFiniteSet(cache[MainLcore])
         /\ IsFiniteSet(cache[TxLcore]) /\ IsFiniteSet(buffers)
         /\ IsFiniteSet(packets) /\ IsFiniteSet(queued) /\ IsFiniteSet(done)
         /\ common \cup cache[TxLcore] \subseteq pool
         /\ queued \subseteq pool /\ done \subseteq pool
<1>1. pool \in SUBSET Mbufs
  BY PacketGeneratorAssumption DEF TypeOK
<1>2. IsFiniteSet(pool)
  BY <1>1, MempoolAssumption, PartIsSmall
<1>3. \A h \in 1 .. 7 : Held[h] \in SUBSET pool /\ IsFiniteSet(Held[h])
  BY <1>2, OwnedMeans, PartIsSmall DEF HoldOnly
<1>4. \A h \in {1, 2, 3, 4, 5, 6, 7} :
        Held[h] \in SUBSET pool /\ IsFiniteSet(Held[h])
  BY <1>3
<1> QED BY <1>1, <1>2, <1>4, Places

(* Before main has prepared it, the pool's common store holds all of it.   *)
LEMMA OwnerInit == Init => Owned
<1> SUFFICES ASSUME Init PROVE Owned
  OBVIOUS
<1>1. /\ Held[1] = pool
      /\ \A h \in 2 .. 7 : Held[h] = {}
  BY Places, TwoLcores DEF Init, TxInit
<1> QED BY <1>1, OwnedMeans DEF Apart, HoldAll, HoldOnly

(* main takes an mbuf out of the pool ...                                  *)
LEMMA TakeBufferStep ==
  ASSUME TypeOK, Owned, CachesBounded, TakeBuffer
  PROVE  /\ PoolTypeOK' /\ CachesBounded' /\ Owned'
         /\ \E m \in pool : buffers' = buffers \cup {m}
<1>1. PICK m \in pool : Alloc(MainLcore, m) /\ buffers' = buffers \cup {m}
  BY DEF TakeBuffer
<1>2. UNCHANGED <<pool, packets, queued, done>>
  BY DEF TakeBuffer, txVars
<1>3. PoolTypeOK /\ common \cap cache[MainLcore] = {}
  BY StoresApart DEF TypeOK
<1>4. /\ PoolTypeOK' /\ m \in common \cup cache[MainLcore]
      /\ cache'[TxLcore] = cache[TxLcore]
      /\ common' \cup cache'[MainLcore] = (common \cup cache[MainLcore]) \ {m}
      /\ common' \cap cache'[MainLcore] = {}
  BY <1>1, <1>3, TwoLcores, AllocTakesOne
<1>5. CachesBounded'
  BY <1>1, <1>3, TwoLcores, AllocKeepsBound DEF Alloc
<1>6. TakenFrom(7, Held, Held', 1, 2, 4, {m})
  BY <1>1, <1>2, <1>4, Places, PlacesAfter DEF TakenFrom
<1>7. OwnersKept(7, Held, Held')
  BY <1>6, OwnedMeans, TakenKeepsOwners
<1> QED BY <1>1, <1>2, <1>4, <1>5, <1>7, OwnedStays

(* ... and gives it back.                                                  *)
LEMMA WriteBufferStep ==
  ASSUME TypeOK, Owned, CachesBounded, WriteBuffer
  PROVE  PoolTypeOK' /\ CachesBounded' /\ Owned'
<1>1. PICK m \in buffers : Free(MainLcore, m) /\ buffers' = buffers \ {m}
  BY DEF WriteBuffer
<1>2. UNCHANGED <<pool, packets, queued, done>>
  BY DEF WriteBuffer, txVars
<1>3. /\ PoolTypeOK /\ common \cap cache[MainLcore] = {} /\ m \in Mbufs
      /\ m \notin common \cup cache[MainLcore]
  BY <1>1, StoresApart, PoolIsFinite DEF TypeOK
<1>4. /\ PoolTypeOK' /\ cache'[TxLcore] = cache[TxLcore]
      /\ common' \cup cache'[MainLcore] = common \cup cache[MainLcore] \cup {m}
      /\ common' \cap cache'[MainLcore] = {}
  BY <1>1, <1>3, TwoLcores, FreeAddsOne
<1>5. CachesBounded'
  BY <1>1, <1>3, TwoLcores, FreeKeepsBound DEF Free
<1>6. GivenTo(7, Held, Held', 1, 2, 4, {m})
  BY <1>1, <1>2, <1>4, Places, PlacesAfter DEF GivenTo
<1>7. OwnersKept(7, Held, Held')
  BY <1>6, OwnedMeans, GivenKeepsOwners
<1> QED BY <1>2, <1>4, <1>5, <1>7, OwnedStays

(* The routine takes a burst's mbufs out of the pool ...                   *)
LEMMA AllocBurstStep ==
  ASSUME TypeOK, Owned, CachesBounded, packets = {}, AllocBurst
  PROVE  /\ PoolTypeOK' /\ CachesBounded' /\ Owned'
         /\ packets' \subseteq pool /\ Cardinality(packets') = BurstSize
<1>1. PICK ms \in SUBSET Reachable(TxLcore) :
        /\ Cardinality(ms) = BurstSize
        /\ AllocBulk(TxLcore, ms) /\ packets' = ms
  BY DEF AllocBurst, Wanted
<1>2. UNCHANGED <<pool, buffers, queued, done>>
  BY DEF AllocBurst, txVars, prepareVars
<1>3. PoolTypeOK /\ common \cap cache[TxLcore] = {}
  BY StoresApart DEF TypeOK
<1>4. /\ PoolTypeOK' /\ ms \subseteq common \cup cache[TxLcore]
      /\ cache'[MainLcore] = cache[MainLcore]
      /\ common' \cup cache'[TxLcore] = (common \cup cache[TxLcore]) \ ms
      /\ common' \cap cache'[TxLcore] = {}
  BY <1>1, <1>3, TwoLcores, AllocTakes
<1>5. CachesBounded'
  BY <1>1, <1>3, TwoLcores, AllocKeepsBound
<1>6. TakenFrom(7, Held, Held', 1, 3, 5, ms)
  BY <1>1, <1>2, <1>4, Places, PlacesAfter DEF TakenFrom
<1>7. OwnersKept(7, Held, Held')
  BY <1>6, OwnedMeans, TakenKeepsOwners
<1>8. packets' \subseteq pool
  BY <1>1, <1>4, PoolIsFinite
<1> QED BY <1>1, <1>2, <1>4, <1>5, <1>7, <1>8, OwnedStays

(* ... and hands some of them to the port, which first gives back some of  *)
(* those it has sent.                                                      *)
LEMMA SendBurstStep ==
  ASSUME TypeOK, Owned, CachesBounded, SendBurst
  PROVE  /\ PoolTypeOK' /\ TxTypeOK' /\ CachesBounded' /\ Owned'
         /\ \E accepted \in SUBSET packets :
              packets' = packets \ accepted /\ queued' = queued \cup accepted
<1>1. PICK accepted \in SUBSET packets :
        /\ TxBurst(TxLcore, packets, accepted)
        /\ packets' = packets \ accepted
  BY DEF SendBurst, Unsent
<1>2. PICK freed \in SUBSET done :
        /\ accepted \in AcceptedSets(packets, Room(freed))
        /\ FreeBulk(TxLcore, freed)
        /\ done' = done \ freed
        /\ queued' = queued \cup accepted
  BY <1>1 DEF TxBurst
<1>3. UNCHANGED <<pool, buffers>>
  BY DEF SendBurst, prepareVars
<1>4. /\ IsFiniteSet(queued) /\ IsFiniteSet(done) /\ IsFiniteSet(packets)
      /\ queued \subseteq pool /\ done \subseteq pool /\ pool \subseteq Mbufs
      /\ packets \subseteq Mbufs /\ IsFiniteSet(accepted)
  <2>1. packets \subseteq pool
    BY DEF TypeOK
  <2>2. IsFiniteSet(packets)
    BY PoolIsFinite
  <2>3. IsFiniteSet(accepted)
    BY <2>2, PartIsSmall
  <2> QED BY <2>1, <2>3, PoolIsFinite
<1>5. TxTypeOK'
  <2>1. Cardinality(accepted) <= Room(freed)
    <3>1. done \ freed \in SUBSET done
      OBVIOUS
    <3>2. Cardinality(queued) \in Nat /\ Cardinality(done \ freed) \in Nat
      BY <1>4, <3>1, PartIsSmall, FS_CardinalityType
    <3>3. Room(freed) \in Int
      BY <3>2, TxQueueAssumption DEF Room
    <3> QED BY <1>2, <3>3 DEF AcceptedSets
  <2>2. Cardinality(queued) + Cardinality(done) <= TxDescs
    BY DEF TypeOK, TxTypeOK
  <2>3. TxDescs \in Nat
    BY TxQueueAssumption
  <2>4. Cardinality(queued \cup accepted) + Cardinality(done \ freed) <= TxDescs
    BY <1>4, <2>1, <2>2, <2>3, BurstFits DEF Room
  <2> QED BY <1>2, <1>4, <2>4 DEF TxTypeOK
<1>6. /\ PoolTypeOK /\ common \cap cache[TxLcore] = {} /\ freed \in SUBSET Mbufs
      /\ freed \cap (common \cup cache[TxLcore]) = {}
  BY <1>4, StoresApart DEF TypeOK
<1>7. /\ PoolTypeOK' /\ cache'[MainLcore] = cache[MainLcore]
      /\ common' \cup cache'[TxLcore] = common \cup cache[TxLcore] \cup freed
      /\ common' \cap cache'[TxLcore] = {}
  BY <1>2, <1>6, TwoLcores, FreeAdds
<1>8. CachesBounded'
  BY <1>2, <1>6, TwoLcores, FreeKeepsBound
<1>9. OwnersKept(7, Held, Held')
  <2> DEFINE \* the places once the driver has freed, before it accepts
             mid == [Held' EXCEPT ![5] = packets, ![6] = queued]
  <2>1. /\ mid[5] = packets /\ mid[6] = queued
        /\ \A h \in (1 .. 7) \ {5, 6} : mid[h] = (Held')[h]
    BY DEF Held
  <2> HIDE DEF mid
  <2>2. GivenTo(7, Held, mid, 1, 3, 7, freed)
    BY <1>2, <1>3, <1>7, <2>1, Places, PlacesAfter DEF GivenTo
  <2>3. Moved(7, mid, Held', 5, 6, accepted)
    BY <1>1, <1>2, <2>1, Places, PlacesAfter DEF Moved
  <2>4. OwnersKept(7, Held, mid)
    BY <2>2, OwnedMeans, GivenKeepsOwners
  <2>5. OwnersKept(7, mid, Held')
    BY <2>3, <2>4, MovedKeepsOwners DEF OwnersKept
  <2> QED BY <2>4, <2>5 DEF OwnersKept
<1> QED BY <1>1, <1>2, <1>3, <1>5, <1>7, <1>8, <1>9, OwnedStays

(* The port sends a packet.                                                *)
LEMMA PortSendsStep ==
  ASSUME TypeOK, Owned, PortSends
  PROVE  /\ TxTypeOK' /\ Owned'
         /\ \E m \in queued : queued' = queued \ {m}
<1>1. PICK m \in queued : queued' = queued \ {m} /\ done' = done \cup {m}
  BY DEF PortSends, Transmit
<1>2. UNCHANGED <<pool, common, cache, buffers, packets>>
  BY DEF PortSends, poolVars, prepareVars
<1>3. /\ IsFiniteSet(queued) /\ IsFiniteSet(done)
      /\ queued \subseteq Mbufs /\ done \subseteq Mbufs /\ m \notin done
  BY <1>1, PoolIsFinite, StoresApart
<1>4. TxTypeOK'
  <2>1. /\ Cardinality(queued \ {m}) = Cardinality(queued) - 1
        /\ Cardinality(done \cup {m}) = Cardinality(done) + 1
        /\ Cardinality(queued) \in Nat /\ Cardinality(done) \in Nat
    BY <1>3, OneMoreOneLess
  <2>2. Cardinality(queued) + Cardinality(done) <= TxDescs
    BY DEF TypeOK, TxTypeOK
  <2> QED BY <1>1, <1>3, <2>1, <2>2 DEF TxTypeOK
<1>5. Moved(7, Held, Held', 6, 7, {m})
  BY <1>1, <1>2, Places, PlacesAfter DEF Moved
<1>6. OwnersKept(7, Held, Held')
  BY <1>5, OwnedMeans, MovedKeepsOwners
<1> QED BY <1>1, <1>2, <1>4, <1>6, OwnedStays

-----------------------------------------------------------------------------
(* The rate.                                                               *)

(* Quotients of natural numbers.                                           *)
LEMMA Quotient ==
  ASSUME NEW a \in Nat, NEW b \in Nat \ {0}
  PROVE  a \div b \in 0 .. a
OBVIOUS

(* The time between two bursts is at most a second.                        *)
LEMMA IntervalBound ==
  ASSUME TypeOK, BurstsPerSecond(packets_per_second) > 0
  PROVE  interburst_time \in 0 .. Second
<1>1. requested \in Nat /\ RateSpace \in Nat \ {0} /\ BurstSize \in Nat \ {0}
      /\ Second \in Nat
  BY PacketGeneratorAssumption DEF TypeOK
<1>2. requested % RateSpace \in Nat
  BY <1>1
<1>3. BurstsPerSecond(packets_per_second) \in Nat
  BY <1>1, <1>2, Quotient DEF BurstsPerSecond, packets_per_second
<1>4. BurstsPerSecond(packets_per_second) \in Nat \ {0}
  BY <1>3
<1> QED BY <1>1, <1>4, Quotient DEF interburst_time, Interval

-----------------------------------------------------------------------------
(* The steps.                                                              *)

(* All other steps leave the stores and what is held alone.                *)
LEMMA StoresLeftAlone ==
  ASSUME [Next]_vars
  PROVE  \/ PortSends \/ TakeBuffer \/ WriteBuffer \/ AllocBurst \/ SendBurst
         \/ UNCHANGED <<common, cache, queued, done, pool, buffers, packets>>
BY Zenon
DEF Next, Running, MainStep, TxStep, Ended, vars, Terminate, Tick, BringUp,
    BringUpFails, StopAndExit, Launch, PrintStatistics, LeaveStatistics, WaitLcore,
    StartRoutine, DivideByZero, CheckExit, ReadClock, BurstIsDue, AllocFails,
    poolVars, txVars, prepareVars

(* Every step keeps the stores well typed, the caches small, and one owner *)
(* for every mbuf.                                                         *)
LEMMA StoresNext ==
  ASSUME TypeOK, Owned, CachesBounded, PhasesMatch, [Next]_vars
  PROVE  PoolTypeOK' /\ TxTypeOK' /\ CachesBounded' /\ Owned'
<1>1. PoolTypeOK /\ TxTypeOK
  BY DEF TypeOK
<1>2. CASE PortSends
  <2>1. UNCHANGED <<common, cache>>
    BY <1>2 DEF PortSends, poolVars
  <2>2. PoolTypeOK' /\ CachesBounded'
    BY <1>1, <2>1 DEF PoolTypeOK, CachesBounded, FlushThresh
  <2> QED BY <1>2, <2>2, PortSendsStep
<1>3. CASE TakeBuffer
  <2>1. TxTypeOK'
    BY <1>1, <1>3, Zenon DEF TakeBuffer, TxTypeOK, txVars
  <2> QED BY <1>3, <2>1, TakeBufferStep
<1>4. CASE WriteBuffer
  <2>1. TxTypeOK'
    BY <1>1, <1>4, Zenon DEF WriteBuffer, TxTypeOK, txVars
  <2> QED BY <1>4, <2>1, WriteBufferStep
<1>5. CASE AllocBurst
  <2>1. TxTypeOK'
    BY <1>1, <1>5, Zenon DEF AllocBurst, TxTypeOK, txVars
  <2>2. packets = {}
    BY <1>5 DEF AllocBurst, PhasesMatch
  <2> QED BY <1>5, <2>1, <2>2, AllocBurstStep
<1>6. CASE SendBurst
  BY <1>6, SendBurstStep
<1>7. CASE UNCHANGED <<common, cache, queued, done, pool, buffers, packets>>
  <2>1. PoolTypeOK' /\ CachesBounded' /\ TxTypeOK'
    BY <1>1, <1>7 DEF PoolTypeOK, CachesBounded, TxTypeOK, FlushThresh
  <2>2. Held' = Held
    BY <1>7 DEF Held
  <2>3. Owned'
    BY <1>7, <2>2, OwnedMeans, OwnedAfterMeans
  <2> QED BY <2>1, <2>3
<1> QED BY <1>2, <1>3, <1>4, <1>5, <1>6, <1>7, StoresLeftAlone

(* What is left of the type invariant.                                     *)
RestTypeOK ==
  /\ exit_indicator \in BOOLEAN
  /\ pool \in Pools /\ requested \in Requests
  /\ buffers \in SUBSET pool /\ prepared \in SUBSET pool
  /\ now \in 0 .. Horizon /\ t0 \in 0 .. now
  /\ t1 \in 0 .. Horizon + Second
  /\ packets \in SUBSET pool /\ Cardinality(packets) <= BurstSize
  /\ opackets \in Nat /\ last_tx_packets \in 0 .. opackets /\ printed \in Nat
  /\ main_pc \in MainLabels /\ tx_pc \in TxLabels

(* Every step keeps it.                                                    *)
LEMMA RestNext ==
  ASSUME TypeOK, Owned, CachesBounded, PhasesMatch, RateKept, [Next]_vars
  PROVE  RestTypeOK'
<1> USE PacketGeneratorAssumption
    DEF prepareVars, statVars, clockVars, MainLabels, TxLabels, RestTypeOK
<1>1. RestTypeOK
  BY DEF TypeOK
<1>2. CASE Terminate
  BY <1>1, <1>2 DEF Terminate
<1>3. CASE PortSends
  BY <1>1, <1>3 DEF PortSends
<1>4. CASE Tick
  BY <1>1, <1>4 DEF Tick
<1>5. CASE BringUp \/ BringUpFails
  BY <1>1, <1>5 DEF BringUp, BringUpFails
<1>6. CASE StopAndExit \/ WaitLcore
  BY <1>1, <1>6 DEF StopAndExit, WaitLcore
<1>7. CASE TakeBuffer
  BY <1>1, <1>7 DEF TakeBuffer
<1>8. CASE WriteBuffer
  BY <1>1, <1>8 DEF WriteBuffer
<1>9. CASE Launch \/ LeaveStatistics
  BY <1>1, <1>9 DEF Launch, LeaveStatistics
<1>10. CASE PrintStatistics
  BY <1>1, <1>10 DEF PrintStatistics
<1>11. CASE StartRoutine
  <2>1. interburst_time \in 0 .. Second
    BY <1>11, IntervalBound DEF StartRoutine
  <2>2. t1' \in 0 .. Horizon + Second /\ t0' = now
    BY <1>1, <1>11, <2>1 DEF StartRoutine, FirstBurst
  <2> QED BY <1>1, <1>11, <2>2 DEF StartRoutine
<1>12. CASE DivideByZero \/ AllocFails \/ CheckExit
  BY <1>1, <1>12 DEF DivideByZero, AllocFails, CheckExit
<1>13. CASE ReadClock
  BY <1>1, <1>13 DEF ReadClock
<1>14. CASE BurstIsDue
  <2>1. /\ interburst_time \in 0 .. Second /\ t1 <= Horizon
    BY <1>14, IntervalBound DEF BurstIsDue, RateKept, TxRunning
  <2>2. t1' \in 0 .. Horizon + Second
    BY <1>1, <1>14, <2>1 DEF BurstIsDue, NextBurst
  <2> QED BY <1>1, <1>14, <2>2 DEF BurstIsDue
<1>15. CASE AllocBurst
  <2>1. packets' \subseteq pool /\ Cardinality(packets') = BurstSize
    BY <1>15, AllocBurstStep DEF AllocBurst, PhasesMatch
  <2> QED BY <1>1, <1>15, <2>1 DEF AllocBurst
<1>16. CASE SendBurst
  <2>1. PICK accepted \in SUBSET packets : packets' = packets \ accepted
    BY <1>16, SendBurstStep
  <2>2. packets' \in SUBSET packets
    BY <2>1
  <2>3. /\ Cardinality(packets') <= Cardinality(packets)
        /\ Cardinality(packets') \in Nat /\ Cardinality(packets) \in Nat
    BY <2>2, PoolIsFinite, PartIsSmall
  <2>4. packets' \subseteq pool /\ Cardinality(packets') <= BurstSize
    BY <1>1, <2>2, <2>3
  <2> QED BY <1>1, <1>16, <2>4 DEF SendBurst
<1>17. CASE UNCHANGED vars
  BY <1>1, <1>17 DEF vars
<1> QED
  BY <1>2, <1>3, <1>4, <1>5, <1>6, <1>7, <1>8, <1>9, <1>10, <1>11, <1>12, <1>13,
     <1>14, <1>15, <1>16, <1>17
  DEF Next, Running, MainStep, TxStep, Ended

(* Every step keeps what is held and prepared in step with where the two   *)
(* routines are.                                                           *)
LEMMA PhasesNext ==
  ASSUME TypeOK, Owned, CachesBounded, PhasesMatch, [Next]_vars
  PROVE  PhasesMatch'
<1> USE DEF PhasesMatch, prepareVars, statVars, clockVars, txVars, bringUpVars
<1>1. main_pc \in MainLabels /\ tx_pc \in TxLabels
  BY DEF TypeOK
<1>2. CASE Terminate \/ Tick
  BY <1>2 DEF Terminate, Tick
<1>3. CASE PortSends
  BY <1>3 DEF PortSends, Transmit
<1>4. CASE BringUp
  BY <1>4 DEF BringUp
<1>5. CASE BringUpFails
  BY <1>5 DEF BringUpFails
<1>6. CASE StopAndExit
  BY <1>6 DEF StopAndExit, CleanUpEal
<1>7. CASE WaitLcore
  BY <1>7 DEF WaitLcore, TxJoined, CleanUpEal
<1>8. CASE TakeBuffer
  <2>1. buffers' \in SUBSET pool /\ prepared \subseteq pool /\ pool' = pool
    BY <1>8, TakeBufferStep DEF TakeBuffer, TypeOK
  <2>2. main_pc' = "write" => buffers' = pool
    BY <1>8, <2>1, PoolIsFinite, PartIsSmall DEF TakeBuffer, PoolSize
  <2> QED BY <1>8, <2>1, <2>2 DEF TakeBuffer
<1>9. CASE WriteBuffer
  <2>1. PICK m \in buffers :
          /\ buffers' = buffers \ {m} /\ prepared' = prepared \cup {m}
          /\ main_pc' = IF buffers = {m} THEN "launch" ELSE "write"
    BY <1>9 DEF WriteBuffer, LastBuffer
  <2>2. buffers' \cup prepared' = pool
    BY <1>9, <2>1 DEF WriteBuffer
  <2>3. main_pc' = "launch" => buffers' = {}
    BY <2>1
  <2>4. main_pc' = "launch" => prepared' = pool
    BY <2>2, <2>3
  <2> QED BY <1>9, <2>1, <2>2, <2>3, <2>4 DEF WriteBuffer
<1>10. CASE Launch
  BY <1>10 DEF Launch
<1>11. CASE PrintStatistics \/ LeaveStatistics
  BY <1>11 DEF PrintStatistics, LeaveStatistics
<1>12. CASE StartRoutine \/ DivideByZero
  BY <1>12 DEF StartRoutine, DivideByZero
<1>13. CASE CheckExit
  BY <1>13 DEF CheckExit
<1>14. CASE ReadClock \/ BurstIsDue
  BY <1>14 DEF ReadClock, BurstIsDue
<1>15. CASE AllocFails
  BY <1>15 DEF AllocFails, NoBurstLeft
<1>16. CASE AllocBurst
  BY <1>16 DEF AllocBurst
<1>17. CASE SendBurst
  BY <1>17 DEF SendBurst
<1>18. CASE UNCHANGED vars
  BY <1>18 DEF vars
<1> QED
  BY <1>2, <1>3, <1>4, <1>5, <1>6, <1>7, <1>8, <1>9, <1>10, <1>11, <1>12, <1>13,
     <1>14, <1>15, <1>16, <1>17, <1>18
  DEF Next, Running, MainStep, TxStep, Ended

(* What the steps that do not touch the counters of the rate do to them.   *)
LEMMA ProductsGrow ==
  ASSUME NEW x \in Nat, NEW y \in Nat, NEW z \in Nat, x <= y
  PROVE  /\ x * z \in Nat /\ y * z \in Nat /\ x * z <= y * z
OBVIOUS

(* Products are summed up term by term.                                    *)
LEMMA ProductOfSum ==
  ASSUME NEW x \in Nat, NEW y \in Nat, NEW z \in Nat
  PROVE  (x + y) * z = x * z + y * z
OBVIOUS

(* The packets of the bursts begun are counted in natural numbers.         *)
LEMMA TakenType ==
  ASSUME TypeOK, Owned
  PROVE  /\ Cardinality(queued) \in Nat /\ Cardinality(packets) \in Nat
         /\ opackets \in Nat /\ Handed \in Nat /\ Taken \in Nat
<1>1. Cardinality(queued) \in Nat /\ Cardinality(packets) \in Nat
  BY PoolIsFinite, FS_CardinalityType
<1> QED BY <1>1, PacketGeneratorAssumption DEF TypeOK, Handed, Taken

(* No step but the one that finds a burst due adds to the packets taken.   *)
LEMMA TakenNext ==
  ASSUME TypeOK, Owned, CachesBounded, PhasesMatch, TxRunning, [Next]_vars
  PROVE  /\ tx_pc' \in {"check", "clock", "alloc", "send", "returned"}
         /\ ~BurstIsDue => Taken' <= Taken /\ t1' = t1 /\ t0' >= t0
         /\ BurstIsDue => /\ Taken' = Taken + BurstSize
                          /\ t1' = t1 + interburst_time /\ t0' = t0
<1> USE TakenType, PacketGeneratorAssumption
    DEF TxRunning, Taken, Handed, prepareVars, statVars, clockVars, txVars
<1>1. now \in Nat /\ t0 \in 0 .. now
  BY DEF TypeOK
<1>2. CASE Terminate \/ Tick
  BY <1>1, <1>2 DEF Terminate, Tick, BurstIsDue
<1>3. CASE PortSends
  <2>1. PICK m \in queued : queued' = queued \ {m}
    BY <1>3, PortSendsStep
  <2>2. Cardinality(queued') = Cardinality(queued) - 1
    BY <2>1, PoolIsFinite, OneMoreOneLess
  <2> QED BY <1>1, <1>3, <2>2 DEF PortSends, BurstIsDue
<1>4. CASE BringUp \/ BringUpFails \/ StopAndExit \/ WaitLcore
  BY <1>1, <1>4 DEF BringUp, BringUpFails, StopAndExit, WaitLcore, BurstIsDue
<1>5. CASE TakeBuffer \/ WriteBuffer
  BY <1>1, <1>5 DEF TakeBuffer, WriteBuffer, BurstIsDue
<1>6. CASE Launch
  BY <1>6 DEF Launch, PhasesMatch
<1>7. CASE PrintStatistics \/ LeaveStatistics
  BY <1>1, <1>7 DEF PrintStatistics, LeaveStatistics, BurstIsDue
<1>8. CASE StartRoutine \/ DivideByZero
  BY <1>8 DEF StartRoutine, DivideByZero
<1>9. CASE CheckExit \/ ReadClock
  BY <1>1, <1>9 DEF CheckExit, ReadClock, BurstIsDue
<1>10. CASE BurstIsDue
  BY <1>1, <1>10 DEF BurstIsDue, NextBurst
<1>11. CASE AllocFails
  BY <1>1, <1>11 DEF AllocFails, NoBurstLeft, BurstIsDue
<1>12. CASE AllocBurst
  <2>1. packets = {} /\ Cardinality(packets) = 0 /\ ~BurstIsDue
    BY <1>12, FS_EmptySet DEF AllocBurst, PhasesMatch, BurstIsDue
  <2>2. Cardinality(packets') = BurstSize
    BY <1>12, <2>1, AllocBurstStep
  <2> QED BY <1>1, <1>12, <2>1, <2>2 DEF AllocBurst
<1>13. CASE SendBurst
  <2>1. PICK accepted \in SUBSET packets :
          packets' = packets \ accepted /\ queued' = queued \cup accepted
    BY <1>13, SendBurstStep
  <2>2. /\ IsFiniteSet(accepted) /\ IsFiniteSet(packets \ accepted)
        /\ IsFiniteSet(queued)
    <3>1. packets \ accepted \in SUBSET packets
      OBVIOUS
    <3> QED BY <3>1, PoolIsFinite, PartIsSmall
  <2>3. /\ Cardinality(queued') <= Cardinality(queued) + Cardinality(accepted)
        /\ Cardinality(queued') \in Nat /\ Cardinality(accepted) \in Nat
    BY <2>1, <2>2, UnionIsSmall
  <2>4. /\ Cardinality(packets') \in Nat
        /\ Cardinality(packets') + Cardinality(accepted) = Cardinality(packets)
    <3>1. (packets \ accepted) \cap accepted = {}
          /\ (packets \ accepted) \cup accepted = packets
      OBVIOUS
    <3> QED BY <2>1, <2>2, <3>1, UnionIsSmall
  <2> QED BY <1>1, <1>13, <2>3, <2>4 DEF SendBurst, BurstIsDue
<1>14. CASE UNCHANGED vars
  BY <1>1, <1>14 DEF vars, BurstIsDue
<1> QED
  BY <1>2, <1>3, <1>4, <1>5, <1>6, <1>7, <1>8, <1>9, <1>10, <1>11, <1>12, <1>13,
     <1>14
  DEF Next, Running, MainStep, TxStep, Ended

(* No step changes the rate.                                               *)
LEMMA RateIsConstant ==
  ASSUME [Next]_vars
  PROVE  requested' = requested /\ interburst_time' = interburst_time
         /\ BurstsPerSecond(packets_per_second)'
              = BurstsPerSecond(packets_per_second)
<1>1. requested' = requested
  BY Zenon
  DEF Next, Running, MainStep, TxStep, Ended, vars, Terminate, PortSends, Tick,
      BringUp, BringUpFails, StopAndExit, TakeBuffer, WriteBuffer, Launch,
      PrintStatistics, LeaveStatistics, WaitLcore, StartRoutine, DivideByZero,
      CheckExit, ReadClock, BurstIsDue, AllocBurst, AllocFails, SendBurst
<1> QED BY <1>1, Zenon
        DEF interburst_time, Interval, BurstsPerSecond, packets_per_second

(* The routine begins with the first burst an interval away ...            *)
LEMMA RateBegins ==
  ASSUME TypeOK, Owned, PhasesMatch, [Next]_vars, ~TxRunning, TxRunning'
  PROVE  /\ BurstsPerSecond(packets_per_second) > 0
         /\ Taken' = 0 /\ t1' - interburst_time \in 0 .. t0'
         /\ tx_pc' # "clock"
<1>1. StartRoutine
  <2>1. \/ tx_pc' = tx_pc \/ tx_pc' = "start" \/ tx_pc' = "undefined"
        \/ StartRoutine \/ TxRunning
    BY Zenon
    DEF TxRunning, Next, Running, MainStep, TxStep, Ended, vars, Terminate,
        PortSends, Tick, BringUp, BringUpFails, StopAndExit, TakeBuffer,
        WriteBuffer, Launch, PrintStatistics, LeaveStatistics, WaitLcore,
        DivideByZero, CheckExit, ReadClock, BurstIsDue, AllocBurst, AllocFails,
        NoBurstLeft, SendBurst
  <2> QED BY <2>1 DEF TxRunning
<1>2. /\ queued' = {} /\ packets' = {} /\ opackets' = 0 /\ tx_pc' = "check"
  BY <1>1 DEF StartRoutine, PhasesMatch, txVars
<1>3. Taken' = 0
  BY <1>2, FS_EmptySet DEF Taken, Handed
<1>4. interburst_time \in Nat /\ now \in Nat
  BY <1>1, IntervalBound, PacketGeneratorAssumption DEF StartRoutine, TypeOK
<1>5. t1' - interburst_time = now /\ t0' = now
  BY <1>1, <1>4 DEF StartRoutine, FirstBurst
<1> QED BY <1>1, <1>2, <1>3, <1>4, <1>5 DEF StartRoutine

(* ... and every step keeps to the rate.                                   *)
LEMMA RateNext ==
  ASSUME TypeOK, Owned, CachesBounded, PhasesMatch, RateKept, [Next]_vars
  PROVE  RateKept'
<1> DEFINE I == interburst_time
<1>1. /\ now \in Nat /\ t0 \in 0 .. now /\ t1 \in Nat /\ BurstSize \in Nat \ {0}
      /\ Taken \in Nat
  BY TakenType, PacketGeneratorAssumption DEF TypeOK
<1>2. /\ I' = I
      /\ BurstsPerSecond(packets_per_second)'
           = BurstsPerSecond(packets_per_second)
  BY RateIsConstant
<1>3. printed' = last_tx_packets'
  BY DEF RateKept, TypeOK, Next, Running, MainStep, TxStep, Ended, vars, Terminate,
         PortSends, Tick, BringUp, BringUpFails, StopAndExit, TakeBuffer,
         WriteBuffer, Launch, PrintStatistics, LeaveStatistics, WaitLcore,
         StartRoutine, DivideByZero, CheckExit, ReadClock, BurstIsDue, AllocBurst,
         AllocFails, SendBurst, statVars
<1>4. tx_pc' = "clock" => t1' <= Horizon
  BY DEF RateKept, Next, Running, MainStep, TxStep, Ended, vars, Terminate,
         PortSends, Tick, BringUp, BringUpFails, StopAndExit, TakeBuffer,
         WriteBuffer, Launch, PrintStatistics, LeaveStatistics, WaitLcore,
         StartRoutine, DivideByZero, CheckExit, ReadClock, BurstIsDue, AllocBurst,
         AllocFails, SendBurst, clockVars
<1>5. ASSUME TxRunning'
      PROVE  /\ BurstsPerSecond(packets_per_second) > 0
             /\ t1' - I \in 0 .. t0'
             /\ Taken' * I <= (t1' - I) * BurstSize
  <2>1. BurstsPerSecond(packets_per_second) > 0
    BY <1>5, RateBegins DEF RateKept
  <2>2. I \in Nat
    BY <2>1, IntervalBound, PacketGeneratorAssumption
  <2>3. CASE ~TxRunning
    <3>1. Taken' = 0 /\ t1' - I \in 0 .. t0'
      BY <1>5, <2>3, RateBegins
    <3>2. t1' - I \in Nat
      BY <3>1
    <3>3. Taken' * I = 0 /\ (t1' - I) * BurstSize \in Nat
      BY <1>1, <2>2, <3>1, <3>2
    <3> QED BY <2>1, <3>1, <3>3
  <2>4. CASE TxRunning /\ ~BurstIsDue
    <3>1. Taken' <= Taken /\ t1' = t1 /\ t0' >= t0
      BY <2>4, TakenNext
    <3>2. /\ t1 - I \in 0 .. t0 /\ Taken * I <= (t1 - I) * BurstSize
      BY <2>4 DEF RateKept
    <3>3. Taken' \in Nat /\ t0' \in Nat
      <4>1. TxTypeOK' /\ RestTypeOK'
        BY StoresNext, RestNext
      <4>2. queued' \in SUBSET Mbufs /\ packets' \in SUBSET Mbufs
        BY <4>1, PacketGeneratorAssumption DEF TxTypeOK, RestTypeOK
      <4>3. Cardinality(queued') \in Nat /\ Cardinality(packets') \in Nat
        BY <4>2, MempoolAssumption, PartIsSmall
      <4>4. opackets' \in Nat /\ t0' \in Nat
        BY <4>1 DEF RestTypeOK
      <4> QED BY <1>1, <4>3, <4>4 DEF Taken, Handed
    <3>4. Taken' * I <= Taken * I /\ Taken' * I \in Nat /\ Taken * I \in Nat
      BY <1>1, <2>2, <3>1, <3>3, ProductsGrow
    <3>5. (t1 - I) * BurstSize \in Nat
      BY <1>1, <2>2, <3>2
    <3> HIDE DEF I
    <3>6. Taken' * I <= (t1 - I) * BurstSize
      BY <3>2, <3>4, <3>5
    <3> QED BY <1>1, <2>1, <3>1, <3>2, <3>3, <3>6
  <2>5. CASE TxRunning /\ BurstIsDue
    <3>1. Taken' = Taken + BurstSize /\ t1' = t1 + I /\ t0' = t0
      BY <2>5, TakenNext
    <3>2. /\ t1 - I \in 0 .. t0 /\ Taken * I <= (t1 - I) * BurstSize /\ t0 >= t1
      BY <2>5 DEF RateKept, BurstIsDue
    <3> HIDE DEF I
    <3>3. t1 - I \in Nat /\ t1 = (t1 - I) + I /\ t1' - I = t1
      BY <1>1, <2>2, <3>1, <3>2
    <3>4. /\ (Taken + BurstSize) * I = Taken * I + BurstSize * I
          /\ t1 * BurstSize = (t1 - I) * BurstSize + I * BurstSize
      BY <1>1, <2>2, <3>3, ProductOfSum
    <3>5. /\ Taken * I \in Nat /\ BurstSize * I \in Nat /\ I * BurstSize \in Nat
          /\ (t1 - I) * BurstSize \in Nat /\ BurstSize * I = I * BurstSize
      BY <1>1, <2>2, <3>3
    <3>6. (Taken + BurstSize) * I <= t1 * BurstSize
      BY <3>2, <3>4, <3>5
    <3>7. t1' - I \in 0 .. t0'
      BY <1>1, <3>1, <3>2, <3>3
    <3> QED BY <2>1, <3>1, <3>3, <3>6, <3>7
  <2> QED BY <2>3, <2>4, <2>5
<1> HIDE DEF I
<1> QED BY <1>2, <1>3, <1>4, <1>5 DEF RateKept, I

(* Every step hands only prepared mbufs over.                              *)
LEMMA PreparedNext ==
  ASSUME TypeOK, Owned, CachesBounded, PhasesMatch, OnlyPreparedSent, [Next]_vars
  PROVE  OnlyPreparedSent'
<1> USE DEF OnlyPreparedSent
<1>1. CASE PortSends
  <2>1. queued' \subseteq queued
    BY <1>1, PortSendsStep
  <2> QED BY <1>1, <2>1 DEF PortSends, prepareVars
<1>2. CASE TakeBuffer
  BY <1>2 DEF TakeBuffer, txVars
<1>3. CASE WriteBuffer
  <2>1. prepared \subseteq prepared'
    BY <1>3 DEF WriteBuffer
  <2> QED BY <1>3, <2>1 DEF WriteBuffer, txVars
<1>4. CASE AllocBurst
  <2>1. packets = {} /\ prepared = pool
    BY <1>4 DEF AllocBurst, PhasesMatch
  <2>2. packets' \subseteq pool
    BY <1>4, <2>1, AllocBurstStep
  <2> QED BY <1>4, <2>1, <2>2 DEF AllocBurst, txVars, prepareVars
<1>5. CASE SendBurst
  <2>1. packets' \cup queued' \subseteq packets \cup queued
    BY <1>5, SendBurstStep
  <2> QED BY <1>5, <2>1 DEF SendBurst, prepareVars
<1>6. CASE UNCHANGED <<common, cache, queued, done, pool, buffers, packets>>
  <2>1. prepared \subseteq prepared'
    BY DEF Next, Running, MainStep, TxStep, Ended, vars, Terminate,
           PortSends, Tick, BringUp, BringUpFails, StopAndExit, TakeBuffer,
           WriteBuffer, Launch, PrintStatistics, LeaveStatistics, WaitLcore,
           StartRoutine, DivideByZero, CheckExit, ReadClock, BurstIsDue, AllocBurst,
           AllocFails, SendBurst, prepareVars
  <2> QED BY <1>6, <2>1
<1> QED BY <1>1, <1>2, <1>3, <1>4, <1>5, <1>6, StoresLeftAlone

-----------------------------------------------------------------------------
(* The bring-up.                                                           *)

(* The other steps leave the bring-up alone and neither begin nor end      *)
(* main.                                                                   *)
LEMMA BringUpLeftAlone ==
  ASSUME [Next]_vars
  PROVE  \/ BringUp \/ BringUpFails \/ StopAndExit \/ WaitLcore
         \/ /\ UNCHANGED bringUpVars
            /\ main_pc \in {"bringUp", "exited"} => main_pc' = main_pc
            /\ main_pc' \in {"bringUp", "exited"} => main_pc' = main_pc
BY Zenon
DEF vars, bringUpVars, Next, Running, MainStep, TxStep, Ended, Terminate, PortSends,
    Tick, TakeBuffer, WriteBuffer, Launch, PrintStatistics, LeaveStatistics,
    StartRoutine, DivideByZero, CheckExit, ReadClock, BurstIsDue, AllocBurst,
    AllocFails, SendBurst

(* The EAL is brought up first and cleaned up last, and what main learns   *)
(* of the port stays so.                                                   *)
LEMMA BringUpGoesOn ==
  ASSUME BringUpTypeOK, EalFollowsMain, [Next]_vars
  PROVE  BringUpTypeOK' /\ EalFollowsMain'
<1> USE DEF EalFollowsMain
<1>1. CASE BringUp
  <2>1. /\ CallSucceeds /\ main_pc = "bringUp"
        /\ main_pc' = IF todo' = <<>> THEN "prepare" ELSE "bringUp"
    BY <1>1 DEF BringUp
  <2>2. eal' \in {eal, "up"} /\ tutorial' = tutorial
    BY <2>1
    DEF CallSucceeds, StartEal, DetectPorts, FindPortByName, ReadDeviceInfo,
        CheckCapability, CreatePool, Configure, OtherCall, Succeeds
  <2>3. /\ BringUpTypeOK' /\ EalIsFirst' /\ CallsMadeInOrder' /\ ResultsKept'
    BY <2>1, BringUpTypedNext, EalIsFirstNext, BringUpLearnsNext DEF BringUpStep
  <2> QED BY <2>1, <2>2, <2>3 DEF BroughtUp
<1>2. CASE BringUpFails
  <2>1. CallFails /\ main_pc = "bringUp" /\ main_pc' = "exited"
    BY <1>2 DEF BringUpFails
  <2>2. /\ todo # <<>> /\ todo' = todo /\ tutorial' = tutorial
        /\ eal' = EalAfterFailure(Head(todo))
    BY <2>1 DEF CallFails
  <2>3. todo \in Seq(Members(CallsOf(tutorial)))
    BY DEF BringUpTypeOK
  <2>4. Head(todo) \in Members(todo)
    BY <2>2, <2>3 DEF Members
  <2>5. eal' = "up" => Head(todo) = "arguments"
    BY <2>2, <2>4 DEF EalAfterFailure, LeavesEalUp, EalIsFirst
  <2>6. /\ BringUpTypeOK' /\ EalIsFirst' /\ CallsMadeInOrder' /\ ResultsKept'
    BY <2>1, BringUpTypedNext, EalIsFirstNext, BringUpLearnsNext DEF BringUpStep
  <2> QED BY <2>1, <2>2, <2>5, <2>6
<1>3. CASE StopAndExit \/ WaitLcore
  <2>1. /\ CleanUpEal /\ BroughtUp /\ main_pc' = "exited"
        /\ eal' = "cleaned" /\ tutorial' = tutorial
    BY <1>3 DEF StopAndExit, WaitLcore, CleanUpEal
  <2>2. /\ BringUpTypeOK' /\ EalIsFirst' /\ CallsMadeInOrder' /\ ResultsKept'
    BY <2>1, BringUpTypedNext, EalIsFirstNext, BringUpLearnsNext DEF BringUpStep
  <2> QED BY <2>1, <2>2
<1>4. CASE /\ UNCHANGED bringUpVars
           /\ main_pc \in {"bringUp", "exited"} => main_pc' = main_pc
           /\ main_pc' \in {"bringUp", "exited"} => main_pc' = main_pc
  <2>1. /\ BringUpTypeOK' /\ EalIsFirst' /\ BroughtUp' = BroughtUp
        /\ CallsMadeInOrder' /\ ResultsKept'
    BY <1>4, BringUpKept, Zenon
  <2> QED BY <1>4, <2>1 DEF bringUpVars
<1> QED BY <1>1, <1>2, <1>3, <1>4, BringUpLeftAlone

-----------------------------------------------------------------------------
(* The theorems.                                                           *)

(* The inductive invariant holds when main starts ...                      *)
LEMMA Begins == Init => IInv
<1> SUFFICES ASSUME Init PROVE IInv
  OBVIOUS
<1> USE PacketGeneratorAssumption DEF Init, TxInit
<1>1. pool \in SUBSET Mbufs
  OBVIOUS
<1>2. PoolTypeOK /\ TxTypeOK /\ CachesBounded
  <2>1. Cardinality({}) = 0 /\ TxDescs \in Nat /\ FlushThresh \in Nat
    BY FS_EmptySet, TxQueueAssumption, ThresholdIsLarge
  <2> QED BY <1>1, <2>1 DEF PoolTypeOK, TxTypeOK, CachesBounded
<1>3. /\ BringUpTypeOK /\ EalIsFirst /\ CallsMadeInOrder /\ ResultsKept
      /\ eal = "down"
  BY BringUpTypedInit, BringUpLearnsInit, Zenon DEF BringUpInit
<1>4. RestTypeOK
  <2>1. packets = {} /\ Cardinality(packets) <= BurstSize
    BY FS_EmptySet
  <2>2. /\ now \in 0 .. Horizon /\ t0 \in 0 .. now /\ t1 \in 0 .. Horizon + Second
        /\ opackets \in Nat /\ last_tx_packets \in 0 .. opackets
        /\ printed \in Nat
    OBVIOUS
  <2>3. main_pc \in MainLabels /\ tx_pc \in TxLabels
    BY DEF MainLabels, TxLabels
  <2>4. /\ exit_indicator \in BOOLEAN /\ pool \in Pools /\ requested \in Requests
        /\ buffers \in SUBSET pool /\ prepared \in SUBSET pool
        /\ packets \in SUBSET pool
    OBVIOUS
  <2> QED BY ONLY <2>1, <2>2, <2>3, <2>4 DEF RestTypeOK
<1>5. TypeOK /\ OneOwner /\ OwnPoolOnly
  BY <1>2, <1>3, <1>4, OwnerInit DEF TypeOK, RestTypeOK, Owned
<1>6. PhasesMatch /\ EalFollowsMain /\ RateKept /\ OnlyPreparedSent
  BY <1>3 DEF PhasesMatch, EalFollowsMain, RateKept, TxRunning, OnlyPreparedSent
<1> QED BY <1>2, <1>5, <1>6 DEF IInv

(* ... and in every reachable state.                                       *)
THEOREM GeneratorInductive == Spec => []IInv
<1>1. IInv /\ [Next]_vars => IInv'
  <2> SUFFICES ASSUME IInv, [Next]_vars PROVE IInv'
    OBVIOUS
  <2>1. /\ TypeOK /\ Owned /\ CachesBounded /\ PhasesMatch /\ EalFollowsMain
        /\ RateKept /\ OnlyPreparedSent /\ BringUpTypeOK
    BY DEF IInv, Owned, TypeOK
  <2>2. PoolTypeOK' /\ TxTypeOK' /\ CachesBounded' /\ Owned'
    BY <2>1, StoresNext
  <2>3. RestTypeOK' /\ PhasesMatch' /\ RateKept' /\ OnlyPreparedSent'
    BY <2>1, RestNext, PhasesNext, RateNext, PreparedNext
  <2>4. BringUpTypeOK' /\ EalFollowsMain'
    BY <2>1, BringUpGoesOn
  <2> QED BY <2>2, <2>3, <2>4 DEF IInv, TypeOK, RestTypeOK, Owned
<1> QED BY <1>1, Begins, PTL DEF Spec

(* Type correctness: memory_buffers never holds more than the pool, the    *)
(* routine's array never more than a burst, and the descriptors are never  *)
(* more than the queue has (main.cpp:204-275, 391).                        *)
THEOREM GeneratorTypes == Spec => []TypeOK
<1>1. IInv => TypeOK
  BY DEF IInv
<1> QED BY <1>1, GeneratorInductive, PTL

(* Every mbuf has one owner, however the port accepts a burst in pieces    *)
(* (main.cpp:391, 410-413).                                                *)
THEOREM GeneratorOwnership == Spec => []OneOwner
<1>1. IInv => OneOwner
  BY DEF IInv
<1> QED BY <1>1, GeneratorInductive, PTL

(* Outside the routine's reach there are at most the mbufs in main's cache *)
(* and those in descriptors.                                               *)
LEMMA BurstInReach ==
  ASSUME IInv, PoolSuffices, tx_pc = "alloc"
  PROVE  Cardinality(Reachable(TxLcore)) >= BurstSize
<1>1. TypeOK /\ Owned /\ CachesBounded /\ PhasesMatch
  BY DEF IInv, Owned
<1>2. packets = {} /\ buffers = {}
  <2>1. main_pc \notin {"prepare", "write"}
    BY <1>1 DEF PhasesMatch
  <2> QED BY <1>1, <2>1 DEF PhasesMatch
<1> DEFINE away == cache[MainLcore] \cup (queued \cup done)
<1>3. pool \in SUBSET (Reachable(TxLcore) \cup away)
  <2> SUFFICES ASSUME NEW m \in pool PROVE m \in Reachable(TxLcore) \cup away
    OBVIOUS
  <2>1. PICK h \in 1 .. 7 : m \in Held[h]
    BY <1>1, OwnedMeans DEF HoldAll
  <2>2. h \in {1, 2, 3, 4, 5, 6, 7}
    BY <2>1
  <2> QED BY <1>2, <2>1, <2>2, Places DEF Reachable
<1>4. /\ IsFiniteSet(Reachable(TxLcore)) /\ IsFiniteSet(queued \cup done)
      /\ IsFiniteSet(away)
      /\ Cardinality(queued \cup done) <= Cardinality(queued) + Cardinality(done)
      /\ Cardinality(away)
           <= Cardinality(cache[MainLcore]) + Cardinality(queued \cup done)
      /\ Cardinality(queued) \in Nat /\ Cardinality(done) \in Nat
      /\ Cardinality(queued \cup done) \in Nat /\ Cardinality(away) \in Nat
      /\ Cardinality(cache[MainLcore]) \in Nat
  BY <1>1, PoolIsFinite, UnionIsSmall DEF Reachable
<1> HIDE DEF away
<1>5. /\ IsFiniteSet(Reachable(TxLcore) \cup away)
      /\ Cardinality(Reachable(TxLcore)) \in Nat
      /\ Cardinality(Reachable(TxLcore) \cup away) \in Nat
      /\ Cardinality(Reachable(TxLcore) \cup away)
           <= Cardinality(Reachable(TxLcore)) + Cardinality(away)
  BY <1>4, UnionIsSmall
<1>6. /\ Cardinality(pool) \in Nat
      /\ Cardinality(pool) <= Cardinality(Reachable(TxLcore) \cup away)
  BY <1>3, <1>5, PartIsSmall
<1>7. /\ Cardinality(cache[MainLcore]) <= FlushThresh /\ FlushThresh \in Nat
      /\ Cardinality(queued) + Cardinality(done) <= TxDescs
      /\ Cardinality(pool) >= FlushThresh + TxDescs + BurstSize
      /\ TxDescs \in Nat /\ BurstSize \in Nat
  BY <1>1, TwoLcores, ThresholdIsLarge, TxQueueAssumption,
     PacketGeneratorAssumption
  DEF CachesBounded, TypeOK, TxTypeOK, PoolSuffices
<1> QED BY <1>4, <1>5, <1>6, <1>7

(* A pool with a burst more mbufs than main's cache and the descriptors    *)
(* can hold never makes the routine skip one (main.cpp:274, 391-396).      *)
THEOREM GeneratorNotStarved == Spec => []TxNotStarved
<1>1. IInv => TxNotStarved
  <2> SUFFICES ASSUME IInv, PoolSuffices, NoBurstLeft PROVE FALSE
    BY DEF TxNotStarved
  <2>1. IsFiniteSet(Reachable(TxLcore))
    BY PoolIsFinite, UnionIsSmall DEF IInv, Owned, Reachable
  <2>2. Cardinality(Reachable(TxLcore)) \in Nat /\ BurstSize \in Nat
    BY <2>1, FS_CardinalityType, PacketGeneratorAssumption
  <2> QED BY <2>2, BurstInReach DEF NoBurstLeft
<1> QED BY <1>1, GeneratorInductive, PTL

(* The packets handed to the port never exceed those due, and the rates    *)
(* printed never those sent (main.cpp:301-308, 370-381).                   *)
THEOREM GeneratorKeepsRate == Spec => []NeverAheadOfRate
<1>1. IInv => NeverAheadOfRate
  <2> SUFFICES ASSUME IInv PROVE NeverAheadOfRate
    OBVIOUS
  <2>1. TypeOK /\ Owned /\ RateKept
    BY DEF IInv, Owned
  <2>2. printed <= opackets
    BY <2>1 DEF RateKept, TypeOK
  <2>3. ASSUME tx_pc \in TxLabels \ {"idle", "start", "undefined"}
        PROVE  Handed * interburst_time <= now * BurstSize
    <3> DEFINE I == interburst_time
               a == IF tx_pc = "alloc" THEN BurstSize ELSE 0
    <3>1. TxRunning
      BY <2>3 DEF TxLabels, TxRunning
    <3>2. /\ t1 - I \in 0 .. t0 /\ Taken * I <= (t1 - I) * BurstSize
          /\ I \in Nat
      BY <2>1, <3>1, IntervalBound, PacketGeneratorAssumption DEF RateKept
    <3>3. /\ Handed \in Nat /\ Taken \in Nat /\ BurstSize \in Nat
          /\ now \in Nat /\ t0 \in 0 .. now /\ Cardinality(packets) \in Nat
      BY <2>1, TakenType, PacketGeneratorAssumption DEF TypeOK
    <3>4. Handed <= Taken
      BY <3>3 DEF Taken
    <3> HIDE DEF I
    <3>5. t1 - I \in Nat /\ t1 - I <= now
      BY <3>2, <3>3
    <3>6. /\ Handed * I <= Taken * I /\ Handed * I \in Nat /\ Taken * I \in Nat
      BY <3>2, <3>3, <3>4, ProductsGrow
    <3>7. /\ (t1 - I) * BurstSize <= now * BurstSize
          /\ (t1 - I) * BurstSize \in Nat /\ now * BurstSize \in Nat
      BY <3>3, <3>5, ProductsGrow
    <3>8. Handed * I <= now * BurstSize
      BY <3>2, <3>6, <3>7
    <3> QED BY <3>8 DEF I
  <2> QED BY <2>2, <2>3 DEF NeverAheadOfRate
<1> QED BY <1>1, GeneratorInductive, PTL

(* Only mbufs that main has written a packet into are sent                 *)
(* (main.cpp:204-275, 401-406).                                            *)
THEOREM GeneratorSendsPrepared == Spec => []OnlyPreparedSent
<1>1. IInv => OnlyPreparedSent
  BY DEF IInv
<1> QED BY <1>1, GeneratorInductive, PTL

(* main reaches its loop only with a port, cleans up only once the routine *)
(* has returned, and leaves the EAL up only for wrong arguments            *)
(* (main.cpp:473-504, 539-542, 638-672).                                   *)
THEOREM GeneratorEndsCleanly == Spec => []EndsCleanly
<1>1. IInv => EndsCleanly
  <2> SUFFICES ASSUME IInv PROVE EndsCleanly
    OBVIOUS
  <2>1. BringUpTypeOK /\ ResultsKept /\ EalFollowsMain /\ PhasesMatch
    BY DEF IInv, TypeOK, EalFollowsMain
  <2>2. PortIsUsable
    BY <2>1, UsableOnceBroughtUp
  <2> QED BY <2>1, <2>2 DEF EndsCleanly, EalFollowsMain, PhasesMatch
<1> QED BY <1>1, GeneratorInductive, PTL

=============================================================================
