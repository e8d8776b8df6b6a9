-------------------------- MODULE SingleLcoreProofs --------------------------
(***************************************************************************)
(* What is proved of SingleLcore for every pool, queue and burst size:     *)
(* type correctness, that every mbuf has one owner, that the loop is not   *)
(* starved, that the bring-up is sound, that every checksum is computed    *)
(* once, and what the counts the program tells may miss.                   *)
(***************************************************************************)
EXTENDS SingleLcore, PortBringUpProofs, MempoolProofs

(* The loop runs on the main lcore.                                        *)
LEMMA OneLcore == MainLcore \in Lcores
BY SingleLcoreAssumption

(* The calls the five programs make and do not make.                       *)
LEMMA CallsOfFive ==
  ASSUME NEW t \in {1, 2, 4, 5, 7}
  PROVE  LET Has(call) == call \in Members(CallsOf(t))
         IN  /\ Has("configure") /\ ~Has("arguments")
             /\ t = 1 => Has("rxq")
             /\ t # 1 => Has("txq")
             /\ t = 5 => Has("capability")
             /\ Has("telemetry") => t = 7
<1> DEFINE In(call, c) == call \in Members(c)
           Usual(c) == In("configure", c) /\ ~In("arguments", c)
<1>1. Usual(ReadingCalls) /\ In("rxq", ReadingCalls) /\ ~In("telemetry", ReadingCalls)
  BY DEF Members, ReadingCalls
<1>2. Usual(SendingCalls) /\ In("txq", SendingCalls) /\ ~In("telemetry", SendingCalls)
  BY DEF Members, SendingCalls
<1>3. /\ Usual(StatisticsCalls) /\ In("txq", StatisticsCalls)
      /\ ~In("telemetry", StatisticsCalls)
  BY DEF Members, StatisticsCalls
<1>4. /\ Usual(ChecksumCalls) /\ In("txq", ChecksumCalls)
      /\ In("capability", ChecksumCalls) /\ ~In("telemetry", ChecksumCalls)
  BY DEF Members, ChecksumCalls
<1>5. Usual(TelemetryCalls) /\ In("txq", TelemetryCalls)
  BY DEF Members, TelemetryCalls
<1> HIDE DEF In
<1>6. /\ Usual(CallsOf(t))
      /\ t = 1 => In("rxq", CallsOf(t))
      /\ t # 1 => In("txq", CallsOf(t))
      /\ t = 5 => In("capability", CallsOf(t))
      /\ In("telemetry", CallsOf(t)) => t = 7
  BY <1>1, <1>2, <1>3, <1>4, <1>5 DEF CallsOf
<1> QED BY <1>6 DEF In

-----------------------------------------------------------------------------
(* Who holds an mbuf.                                                      *)

(* The seven places by their number, before a step and after.              *)
LEMMA Places ==
  /\ Held[1] = common /\ Held[2] = cache[MainLcore] /\ Held[3] = posted
  /\ Held[4] = filled /\ Held[5] = packets /\ Held[6] = queued /\ Held[7] = done
BY DEF Held

(* The same after a step.                                                  *)
LEMMA PlacesAfter ==
  /\ (Held')[1] = common' /\ (Held')[2] = cache'[MainLcore]
  /\ (Held')[3] = posted' /\ (Held')[4] = filled' /\ (Held')[5] = packets'
  /\ (Held')[6] = queued' /\ (Held')[7] = done'
BY DEF Held

(* To have one owner is what OwnershipFacts is about.                      *)
LEMMA OwnedMeans == OneOwner <=> Apart(7, Held) /\ HoldAll(7, Held, Mbufs)
BY DEF OneOwner, Apart, HoldAll

(* The same after a step.                                                  *)
LEMMA OwnedAfterMeans ==
  OneOwner' <=> Apart(7, Held') /\ HoldAll(7, Held', Mbufs)
BY DEF OneOwner, Apart, HoldAll

(* Owners that are kept are kept by the program.                           *)
LEMMA OwnedStays ==
  ASSUME OneOwner, OwnersKept(7, Held, Held')
  PROVE  OneOwner'
BY OwnedMeans, OwnedAfterMeans DEF OwnersKept

(* The stores of the pool share no mbuf with each other or with what the   *)
(* loop and the port hold.                                                 *)
LEMMA StoresApart ==
  ASSUME OneOwner
  PROVE  /\ common \cap cache[MainLcore] = {}
         /\ packets \cap (common \cup cache[MainLcore]) = {}
         /\ done \cap (common \cup cache[MainLcore]) = {}
         /\ packets \cap queued = {} /\ queued \cap done = {}
<1>1. Apart(7, Held)
  BY OwnedMeans
<1>2. /\ Held[1] \cap Held[2] = {}
      /\ Held[5] \cap Held[1] = {} /\ Held[5] \cap Held[2] = {}
      /\ Held[7] \cap Held[1] = {} /\ Held[7] \cap Held[2] = {}
      /\ Held[5] \cap Held[6] = {} /\ Held[6] \cap Held[7] = {}
  BY <1>1 DEF Apart
<1> QED BY <1>2, Places

(* What the program holds of the pool is finite.                           *)
LEMMA PoolIsFinite ==
  ASSUME TypeOK
  PROVE  /\ IsFiniteSet(posted) /\ IsFiniteSet(filled) /\ IsFiniteSet(packets)
         /\ IsFiniteSet(queued) /\ IsFiniteSet(done)
         /\ posted \cup filled \in SUBSET Mbufs /\ packets \in SUBSET Mbufs
         /\ queued \in SUBSET Mbufs /\ done \in SUBSET Mbufs
         /\ IsFiniteSet(posted \cup filled)
<1>1. /\ posted \cup filled \in SUBSET Mbufs /\ packets \in SUBSET Mbufs
      /\ queued \in SUBSET Mbufs /\ done \in SUBSET Mbufs
      /\ posted \in SUBSET Mbufs /\ filled \in SUBSET Mbufs
  BY DEF TypeOK, TxTypeOK
<1> QED BY <1>1, MempoolAssumption, PartIsSmall

(* Before main begins, the pool's common store holds all of it.            *)
LEMMA OwnerInit == Init => OneOwner
<1> SUFFICES ASSUME Init PROVE OneOwner
  OBVIOUS
<1>1. /\ Held[1] = Mbufs
      /\ \A h \in 2 .. 7 : Held[h] = {}
  BY Places, OneLcore DEF Init, TxInit, PoolInit
<1> QED BY <1>1, OwnedMeans DEF Apart, HoldAll

(* main takes an mbuf for the receive queue or to send, and has it alone.  *)
LEMMA TakesOne ==
  ASSUME TypeOK, OneOwner, NEW m, Alloc(MainLcore, m)
  PROVE  /\ PoolTypeOK' /\ m \in Mbufs
         /\ m \in common \cup cache[MainLcore]
         /\ common' \cup cache'[MainLcore] = (common \cup cache[MainLcore]) \ {m}
         /\ common' \cap cache'[MainLcore] = {}
<1>1. PoolTypeOK /\ common \cap cache[MainLcore] = {}
  BY StoresApart DEF TypeOK
<1> QED BY <1>1, OneLcore, AllocTakesOne

(* Receive descriptors are posted before the loop and in it ...            *)
LEMMA PostStep ==
  ASSUME TypeOK, OneOwner, PostMbuf \/ Refill
  PROVE  /\ PoolTypeOK' /\ OneOwner'
         /\ \E m \in Mbufs : posted' = posted \cup {m}
<1>1. PICK m \in Mbufs : Alloc(MainLcore, m) /\ posted' = posted \cup {m}
  BY DEF PostMbuf, Refill
<1>2. UNCHANGED <<filled, packets, queued, done>>
  BY DEF PostMbuf, Refill, txVars
<1>3. /\ PoolTypeOK' /\ m \in common \cup cache[MainLcore]
      /\ common' \cup cache'[MainLcore] = (common \cup cache[MainLcore]) \ {m}
      /\ common' \cap cache'[MainLcore] = {}
  BY <1>1, TakesOne
<1>4. TakenFrom(7, Held, Held', 1, 2, 3, {m})
  BY <1>1, <1>2, <1>3, Places, PlacesAfter DEF TakenFrom
<1>5. OwnersKept(7, Held, Held')
  BY <1>4, OwnedMeans, TakenKeepsOwners
<1> QED BY <1>1, <1>3, <1>5, OwnedStays

(* ... the loop takes an mbuf to send ...                                  *)
LEMMA GetStep ==
  ASSUME TypeOK, OneOwner, packets = {}, GetPacket
  PROVE  PoolTypeOK' /\ OneOwner'
<1>1. PICK m \in Mbufs : Alloc(MainLcore, m) /\ packets' = {m}
  BY DEF GetPacket
<1>2. UNCHANGED <<posted, filled, queued, done>>
  BY DEF GetPacket, txVars, rxVars
<1>3. /\ PoolTypeOK' /\ m \in common \cup cache[MainLcore]
      /\ common' \cup cache'[MainLcore] = (common \cup cache[MainLcore]) \ {m}
      /\ common' \cap cache'[MainLcore] = {}
  BY <1>1, TakesOne
<1>4. TakenFrom(7, Held, Held', 1, 2, 5, {m})
  BY <1>1, <1>2, <1>3, Places, PlacesAfter DEF TakenFrom
<1>5. OwnersKept(7, Held, Held')
  BY <1>4, OwnedMeans, TakenKeepsOwners
<1> QED BY <1>3, <1>5, OwnedStays

(* ... and frees what it has received, or what was not accepted.           *)
LEMMA FreeStep ==
  ASSUME TypeOK, OneOwner, FreePackets \/ FreePacket
  PROVE  PoolTypeOK' /\ OneOwner'
<1>1. FreeBulk(MainLcore, packets) /\ packets' = {}
  BY DEF FreePackets, FreePacket, Freed
<1>2. UNCHANGED <<posted, filled, queued, done>>
  BY DEF FreePackets, FreePacket, txVars, rxVars
<1>3. /\ PoolTypeOK /\ common \cap cache[MainLcore] = {}
      /\ packets \in SUBSET Mbufs
      /\ packets \cap (common \cup cache[MainLcore]) = {}
  BY StoresApart DEF TypeOK
<1>4. /\ PoolTypeOK'
      /\ common' \cup cache'[MainLcore] = common \cup cache[MainLcore] \cup packets
      /\ common' \cap cache'[MainLcore] = {}
  BY <1>1, <1>3, OneLcore, FreeAdds
<1>5. GivenTo(7, Held, Held', 1, 2, 5, packets)
  BY <1>1, <1>2, <1>4, Places, PlacesAfter DEF GivenTo
<1>6. OwnersKept(7, Held, Held')
  BY <1>5, OwnedMeans, GivenKeepsOwners
<1> QED BY <1>4, <1>6, OwnedStays

(* A packet arrives, and the loop takes one out of the queue.              *)
LEMMA ReceiveStep ==
  ASSUME OneOwner, Receive
  PROVE  /\ OneOwner' /\ posted' \cup filled' = posted \cup filled
         /\ posted' \subseteq posted
<1>1. PICK m \in posted : posted' = posted \ {m} /\ filled' = filled \cup {m}
  BY DEF Receive
<1>2. UNCHANGED <<common, cache, packets, queued, done>>
  BY DEF Receive, poolVars, txVars
<1>3. Moved(7, Held, Held', 3, 4, {m})
  BY <1>1, <1>2, Places, PlacesAfter DEF Moved
<1>4. OwnersKept(7, Held, Held')
  BY <1>3, OwnedMeans, MovedKeepsOwners
<1>5. posted' \cup filled' = posted \cup filled /\ posted' \subseteq posted
  BY <1>1
<1> QED BY <1>4, <1>5, OwnedStays

(* A packet taken from the queue moves to the burst.                       *)
LEMMA TakeStep ==
  ASSUME OneOwner, TakePacket
  PROVE  /\ OneOwner' /\ filled' \subseteq filled
         /\ \E m \in filled : packets' = packets \cup {m}
<1>1. PICK m \in filled : filled' = filled \ {m} /\ packets' = packets \cup {m}
  BY DEF TakePacket
<1>2. UNCHANGED <<common, cache, posted, queued, done>>
  BY DEF TakePacket, poolVars, txVars
<1>3. Moved(7, Held, Held', 4, 5, {m})
  BY <1>1, <1>2, Places, PlacesAfter DEF Moved
<1>4. OwnersKept(7, Held, Held')
  BY <1>3, OwnedMeans, MovedKeepsOwners
<1> QED BY <1>1, <1>4, OwnedStays

(* The port sends a packet.                                                *)
LEMMA PortSendsStep ==
  ASSUME TypeOK, OneOwner, PortSends
  PROVE  /\ TxTypeOK' /\ OneOwner'
         /\ \E m \in queued : queued' = queued \ {m}
         /\ Cardinality(queued) \in Nat \ {0}
         /\ Cardinality(queued') = Cardinality(queued) - 1
<1>1. PICK m \in queued : queued' = queued \ {m} /\ done' = done \cup {m}
  BY DEF PortSends, Transmit
<1>2. UNCHANGED <<common, cache, posted, filled, packets>>
  BY DEF PortSends, poolVars, rxVars
<1>3. /\ IsFiniteSet(queued) /\ IsFiniteSet(done)
      /\ queued \in SUBSET Mbufs /\ done \in SUBSET Mbufs /\ m \notin done
  BY <1>1, PoolIsFinite, StoresApart
<1>4. /\ Cardinality(queued \ {m}) = Cardinality(queued) - 1
      /\ Cardinality(done \cup {m}) = Cardinality(done) + 1
      /\ Cardinality(queued) \in Nat /\ Cardinality(done) \in Nat
  BY <1>3, OneMoreOneLess
<1>5. Cardinality(queued \ {m}) \in Nat
  <2>1. queued \ {m} \in SUBSET queued
    OBVIOUS
  <2> QED BY <1>3, <2>1, PartIsSmall
<1>6. TxTypeOK'
  <2>1. Cardinality(queued) + Cardinality(done) <= TxDescs
    BY DEF TypeOK, TxTypeOK
  <2> QED BY <1>1, <1>3, <1>4, <2>1 DEF TxTypeOK
<1>7. Moved(7, Held, Held', 6, 7, {m})
  BY <1>1, <1>2, Places, PlacesAfter DEF Moved
<1>8. OwnersKept(7, Held, Held')
  BY <1>7, OwnedMeans, MovedKeepsOwners
<1>9. Cardinality(queued) \in Nat \ {0}
  BY <1>4, <1>5
<1> QED BY <1>1, <1>4, <1>6, <1>8, <1>9, OwnedStays

(* The loop hands its packet to the port, which accepts it or not and      *)
(* first gives back some mbufs of those it has sent.                       *)
LEMMA SendStep ==
  ASSUME TypeOK, OneOwner, NEW m, packets = {m}, Send
  PROVE  /\ PoolTypeOK' /\ TxTypeOK' /\ OneOwner'
         /\ \/ /\ pc' = "count" /\ packets' = {} /\ queued' = queued \cup {m}
               /\ Cardinality(queued') = Cardinality(queued) + 1
            \/ pc' = "refused" /\ packets' = packets /\ queued' = queued
<1>1. PICK accepted \in SUBSET packets :
        /\ TxBurst(MainLcore, packets, accepted)
        /\ \/ accepted = packets /\ pc' = "count"
           \/ accepted = {} /\ pc' = "refused"
        /\ packets' = packets \ accepted
  <2>1. CASE TxBurst(MainLcore, packets, packets) /\ pc' = "count"
    BY <2>1 DEF Send, AfterAcceptance
  <2>2. CASE TxBurst(MainLcore, packets, {}) /\ pc' = "refused"
    BY <2>2 DEF Send
  <2> QED BY <2>1, <2>2 DEF Send, AfterAcceptance, AfterRefusal
<1>2. PICK freed \in SUBSET done :
        /\ accepted \in AcceptedSets(packets, Room(freed))
        /\ FreeBulk(MainLcore, freed)
        /\ done' = done \ freed
        /\ queued' = queued \cup accepted
  BY <1>1 DEF TxBurst
<1>3. UNCHANGED <<posted, filled>>
  BY DEF Send, rxVars
<1>4. /\ IsFiniteSet(queued) /\ IsFiniteSet(done) /\ IsFiniteSet(accepted)
      /\ queued \subseteq Mbufs /\ done \subseteq Mbufs /\ packets \subseteq Mbufs
  BY PoolIsFinite, PartIsSmall
<1>5. TxTypeOK'
  <2>1. Cardinality(accepted) <= Room(freed)
    <3>1. done \ freed \in SUBSET done
      OBVIOUS
    <3>2. Cardinality(queued) \in Nat /\ Cardinality(done \ freed) \in Nat
      BY <1>4, <3>1, PartIsSmall, FS_CardinalityType
    <3>3. Room(freed) \in Int
      BY <3>2, TxQueueAssumption DEF Room
    <3> QED BY <1>2, <3>3 DEF AcceptedSets
  <2>2. Cardinality(queued) + Cardinality(done) <= TxDescs
    BY DEF TypeOK, TxTypeOK
  <2>3. TxDescs \in Nat
    BY TxQueueAssumption
  <2>4. Cardinality(queued \cup accepted) + Cardinality(done \ freed) <= TxDescs
    BY <1>4, <2>1, <2>2, <2>3, BurstFits DEF Room
  <2> QED BY <1>2, <1>4, <2>4 DEF TxTypeOK
<1>6. /\ PoolTypeOK /\ common \cap cache[MainLcore] = {} /\ freed \in SUBSET Mbufs
      /\ freed \cap (common \cup cache[MainLcore]) = {}
  BY <1>4, StoresApart DEF TypeOK
<1>7. /\ PoolTypeOK'
      /\ common' \cup cache'[MainLcore] = common \cup cache[MainLcore] \cup freed
      /\ common' \cap cache'[MainLcore] = {}
  BY <1>2, <1>6, OneLcore, FreeAdds
<1>8. OwnersKept(7, Held, Held')
  <2> DEFINE \* the places once the driver has freed, before it accepts
             mid == [Held' EXCEPT ![5] = packets, ![6] = queued]
  <2>1. /\ mid[5] = packets /\ mid[6] = queued
        /\ \A h \in (1 .. 7) \ {5, 6} : mid[h] = (Held')[h]
    BY DEF Held
  <2> HIDE DEF mid
  <2>2. GivenTo(7, Held, mid, 1, 2, 7, freed)
    <3>1. \A h \in (1 .. 7) \ {1, 2, 7} : mid[h] = Held[h]
      BY <1>3, <2>1, Places, PlacesAfter
    <3>2. /\ mid[1] = common' /\ mid[2] = cache'[MainLcore]
          /\ mid[7] = Held[7] \ freed /\ freed \subseteq Held[7]
      BY <1>2, <2>1, Places, PlacesAfter
    <3> QED BY <1>7, <3>1, <3>2, Places DEF GivenTo
  <2>3. Moved(7, mid, Held', 5, 6, accepted)
    BY <1>1, <1>2, <2>1, Places, PlacesAfter DEF Moved
  <2>4. OwnersKept(7, Held, mid)
    BY <2>2, OwnedMeans, GivenKeepsOwners
  <2>5. OwnersKept(7, mid, Held')
    BY <2>3, <2>4, MovedKeepsOwners DEF OwnersKept
  <2> QED BY <2>4, <2>5 DEF OwnersKept
<1>9. /\ m \notin queued
      /\ Cardinality(queued \cup {m}) = Cardinality(queued) + 1
  BY <1>4, StoresApart, OneMoreOneLess
<1>10. \/ /\ pc' = "count" /\ packets' = {} /\ queued' = queued \cup {m}
          /\ Cardinality(queued') = Cardinality(queued) + 1
       \/ pc' = "refused" /\ packets' = packets /\ queued' = queued
  BY <1>1, <1>2, <1>9
<1> QED BY <1>5, <1>7, <1>8, <1>10, OwnedStays

-----------------------------------------------------------------------------
(* The steps.                                                              *)

(* All other steps leave the stores and what is held alone.                *)
LEMMA StoresLeftAlone ==
  ASSUME [Next]_vars
  PROVE  \/ PostMbuf \/ Refill \/ GetPacket \/ FreePackets \/ FreePacket
         \/ Receive \/ TakePacket \/ PortSends \/ Send
         \/ UNCHANGED <<common, cache, posted, filled, packets, queued, done>>
BY Zenon
DEF Next, MainStep, Ended, vars, Terminate, TelemetryRequest, BringUp, BringUpFails,
    CheckExit, LeaveLoop, EndOfBurst, PrintStatistics, GetFails, Count, StoreCount,
    poolVars, txVars, rxVars

(* Every step keeps the stores well typed, and one owner for every mbuf.   *)
LEMMA StoresNext ==
  ASSUME TypeOK, OneOwner, LabelsMatch, [Next]_vars
  PROVE  PoolTypeOK' /\ TxTypeOK' /\ OneOwner'
<1>1. PoolTypeOK /\ TxTypeOK
  BY DEF TypeOK
<1>2. ASSUME UNCHANGED txVars PROVE TxTypeOK'
  BY <1>1, <1>2, Zenon DEF TxTypeOK, txVars
<1>3. ASSUME UNCHANGED poolVars PROVE PoolTypeOK'
  BY <1>1, <1>3, Zenon DEF PoolTypeOK, poolVars
<1>4. CASE PostMbuf \/ Refill
  BY <1>2, <1>4, PostStep DEF PostMbuf, Refill
<1>5. CASE GetPacket
  <2>1. packets = {}
    BY <1>5 DEF GetPacket, LabelsMatch
  <2> QED BY <1>2, <1>5, <2>1, GetStep DEF GetPacket
<1>6. CASE FreePackets \/ FreePacket
  BY <1>2, <1>6, FreeStep DEF FreePackets, FreePacket
<1>7. CASE Receive
  BY <1>2, <1>3, <1>7, ReceiveStep DEF Receive
<1>8. CASE TakePacket
  BY <1>2, <1>3, <1>8, TakeStep DEF TakePacket
<1>9. CASE PortSends
  BY <1>3, <1>9, PortSendsStep DEF PortSends
<1>10. CASE Send
  <2>1. \E m \in Mbufs : packets = {m}
    BY <1>10 DEF Send, LabelsMatch
  <2> QED BY <1>10, <2>1, SendStep
<1>11. CASE UNCHANGED <<common, cache, posted, filled, packets, queued, done>>
  <2>1. Held' = Held
    BY <1>11 DEF Held
  <2>2. OneOwner'
    BY <2>1, OwnedMeans, OwnedAfterMeans
  <2> QED BY <1>2, <1>3, <1>11, <2>2 DEF poolVars, txVars
<1> QED
  BY <1>4, <1>5, <1>6, <1>7, <1>8, <1>9, <1>10, <1>11, StoresLeftAlone

-----------------------------------------------------------------------------
(* The bring-up.                                                           *)

(* The other steps leave the bring-up alone and main in its loop or ended. *)
LEMMA BringUpLeftAlone ==
  ASSUME [Next]_vars
  PROVE  \/ BringUp \/ BringUpFails \/ LeaveLoop
         \/ /\ UNCHANGED bringUpVars
            /\ \/ pc' = pc
               \/ pc \in LoopLabels /\ pc' \in LoopLabels
            /\ pc \in LoopLabels \/ UNCHANGED <<filled, packets, queued, done, ol_flags>>
<1>1. CASE Send
  BY <1>1 DEF Send, AfterAcceptance, AfterRefusal, LoopLabels
<1>2. CASE ~Send
  BY <1>2
  DEF vars, bringUpVars, Next, MainStep, Ended, Terminate, TelemetryRequest,
      Receive, PortSends, PostMbuf, CheckExit, TakePacket, Refill, EndOfBurst,
      FreePackets, PrintStatistics, GetPacket, GetFails, FreePacket, Count,
      StoreCount, LoopLabels, txVars, rxVars
<1> QED BY <1>1, <1>2

(* The EAL is up from main's first call to its last, what main learns is   *)
(* kept, and the loop begins once all calls are made.                      *)
LEMMA BringUpGoesOn ==
  ASSUME BringUpTypeOK, tutorial \in Tutorials, pc \in Labels, EalFollowsMain,
         [Next]_vars
  PROVE  BringUpTypeOK' /\ EalFollowsMain'
<1> USE DEF EalFollowsMain, LoopLabels, Labels
<1>1. tutorial \in {1, 2, 4, 5, 7}
  BY SingleLcoreAssumption
<1>2. CASE BringUp
  <2>1. /\ CallSucceeds \/ RxQueueIsSetUp
        /\ pc = "bringUp" /\ pc' = IF todo' = <<>> THEN "check" ELSE "bringUp"
        /\ UNCHANGED <<filled, packets, queued, done, ol_flags>>
    BY <1>2 DEF BringUp, Goto, txVars, rxVars
  <2>2. eal' \in {eal, "up"} /\ tutorial' = tutorial
    BY <2>1
    DEF CallSucceeds, StartEal, DetectPorts, FindPortByName, ReadDeviceInfo,
        CheckCapability, CreatePool, Configure, OtherCall, RxQueueIsSetUp, Succeeds
  <2>3. /\ BringUpTypeOK' /\ EalIsFirst' /\ CallsMadeInOrder' /\ ResultsKept'
    BY <2>1, BringUpTypedNext, EalIsFirstNext, BringUpLearnsNext DEF BringUpStep
  <2>4. ~BroughtUp
    BY <2>1 DEF BroughtUp
  <2> QED BY <2>1, <2>2, <2>3, <2>4 DEF BroughtUp
<1>3. CASE BringUpFails
  <2>1. /\ CallFails /\ pc = "bringUp" /\ pc' = "exited"
        /\ UNCHANGED <<filled, packets, queued, done, ol_flags>>
    BY <1>3 DEF BringUpFails, txVars, rxVars
  <2>2. /\ todo # <<>> /\ todo' = todo /\ tutorial' = tutorial
        /\ eal' = EalAfterFailure(Head(todo))
    BY <2>1 DEF CallFails
  <2>3. todo \in Seq(Members(CallsOf(tutorial)))
    BY DEF BringUpTypeOK
  <2>4. Head(todo) \in Members(todo) /\ Head(todo) \in Members(CallsOf(tutorial))
    BY <2>2, <2>3 DEF Members
  <2>5. Head(todo) # "arguments"
    BY <1>1, <2>4, CallsOfFive
  <2>6. eal' # "up"
    BY <1>1, <2>2, <2>4, <2>5 DEF EalAfterFailure, LeavesEalUp, EalIsFirst
  <2>7. /\ BringUpTypeOK' /\ EalIsFirst' /\ CallsMadeInOrder' /\ ResultsKept'
    BY <2>1, BringUpTypedNext, EalIsFirstNext, BringUpLearnsNext DEF BringUpStep
  <2> QED BY <2>1, <2>2, <2>6, <2>7 DEF BroughtUp
<1>4. CASE LeaveLoop
  <2>1. /\ CleanUpEal /\ BroughtUp /\ pc' = "exited"
        /\ eal' = "cleaned" /\ todo' = todo
    BY <1>4 DEF LeaveLoop, CleanUpEal
  <2>2. /\ BringUpTypeOK' /\ EalIsFirst' /\ CallsMadeInOrder' /\ ResultsKept'
    BY <2>1, BringUpTypedNext, EalIsFirstNext, BringUpLearnsNext DEF BringUpStep
  <2> QED BY <2>1, <2>2 DEF BroughtUp
<1>5. CASE /\ UNCHANGED bringUpVars
           /\ \/ pc' = pc
              \/ pc \in LoopLabels /\ pc' \in LoopLabels
           /\ \/ pc \in LoopLabels
              \/ UNCHANGED <<filled, packets, queued, done, ol_flags>>
  <2>1. /\ BringUpTypeOK' /\ EalIsFirst' /\ BroughtUp' = BroughtUp
        /\ CallsMadeInOrder' /\ ResultsKept'
    BY <1>5, BringUpKept, Zenon
  <2>2. eal' = eal /\ todo' = todo
    BY <1>5 DEF bringUpVars
  <2>3. pc \in LoopLabels => BroughtUp
    OBVIOUS
  <2> QED BY <1>5, <2>1, <2>2, <2>3
<1> QED BY <1>2, <1>3, <1>4, <1>5, BringUpLeftAlone

-----------------------------------------------------------------------------
(* The loop.                                                               *)

(* Every program stays in the part of the loop that is its own.            *)
LEMMA LabelsNext ==
  ASSUME TypeOK, OneOwner, LabelsMatch, [Next]_vars
  PROVE  LabelsMatch' /\ pc' \in Labels /\ tutorial' = tutorial
<1> USE DEF LabelsMatch, Labels, LoopLabels
<1>1. tutorial \in {1, 2, 4, 5, 7} /\ pc \in Labels
  BY SingleLcoreAssumption DEF TypeOK
<1>2. tutorial' = tutorial
  BY Zenon
  DEF Next, MainStep, Ended, vars, Terminate, Receive, PortSends, TelemetryRequest,
      BringUp, PostMbuf, BringUpFails, CheckExit, LeaveLoop, TakePacket, Refill,
      EndOfBurst, FreePackets, PrintStatistics, GetPacket, GetFails, Send,
      FreePacket, Count, StoreCount, bringUpVars, CallSucceeds, StartEal,
      DetectPorts, FindPortByName, ReadDeviceInfo, CheckCapability, CreatePool,
      Configure, OtherCall, RxQueueIsSetUp, Succeeds, CallFails, CleanUpEal
<1>3. CASE Terminate \/ Receive \/ PortSends \/ TelemetryRequest
  <2>1. packets' = packets /\ pc' = pc
    BY <1>3 DEF Terminate, Receive, PortSends, TelemetryRequest
  <2> QED BY ONLY <1>1, <1>2, <2>1, LabelsMatch DEF LabelsMatch
<1>4. CASE BringUp \/ PostMbuf \/ BringUpFails
  BY <1>2, <1>4 DEF BringUp, Goto, PostMbuf, BringUpFails
<1>5. CASE CheckExit \/ LeaveLoop
  BY <1>1, <1>2, <1>5 DEF CheckExit, LeaveLoop
<1>6. CASE TakePacket \/ Refill
  BY <1>2, <1>6 DEF TakePacket, Refill
<1>7. CASE EndOfBurst \/ FreePackets
  BY <1>2, <1>7 DEF EndOfBurst, FreePackets
<1>8. CASE PrintStatistics
  BY <1>1, <1>2, <1>8 DEF PrintStatistics
<1>9. CASE GetPacket \/ GetFails
  BY <1>2, <1>9 DEF GetPacket, GetFails
<1>10. CASE Send
  <2>1. PICK m \in Mbufs : packets = {m}
    BY <1>10 DEF Send
  <2>2. \/ pc' = "count" /\ packets' = {}
        \/ pc' = "refused" /\ packets' = packets
    BY <1>10, <2>1, SendStep
  <2> QED BY <1>2, <1>10, <2>1, <2>2 DEF Send
<1>11. CASE FreePacket \/ Count \/ StoreCount
  BY <1>2, <1>11 DEF FreePacket, Count, StoreCount
<1>12. CASE UNCHANGED vars
  <2>1. packets' = packets /\ pc' = pc
    BY <1>12 DEF vars
  <2> QED BY ONLY <1>1, <1>2, <2>1, LabelsMatch DEF LabelsMatch
<1> QED BY <1>3, <1>4, <1>5, <1>6, <1>7, <1>8, <1>9, <1>10, <1>11, <1>12
        DEF Next, MainStep, Ended

(* Only the queues a program has set up hold mbufs, and no more than they  *)
(* have descriptors.                                                       *)
LEMMA QueuesNext ==
  ASSUME TypeOK, OneOwner, LabelsMatch, EalFollowsMain, QueuesMatch, [Next]_vars
  PROVE  QueuesMatch'
<1> USE DEF QueuesMatch
<1>1. tutorial' = tutorial /\ CallsOf(tutorial)' = CallsOf(tutorial)
  BY LabelsNext, Zenon DEF CallsOf
<1>2. tutorial \in {1, 2, 4, 5, 7}
  BY SingleLcoreAssumption DEF LabelsMatch
<1>3. CASE PostMbuf
  <2>1. /\ todo # <<>> /\ Head(todo) = "rxq" /\ filled = {} /\ filled' = filled
        /\ queued' = queued /\ done' = done
        /\ Cardinality(posted) < RxDescs
    BY <1>3 DEF PostMbuf, EalFollowsMain, BroughtUp, txVars
  <2>2. todo \in Seq(Members(CallsOf(tutorial)))
    BY DEF TypeOK, BringUpTypeOK
  <2>3. "rxq" \in Members(CallsOf(tutorial))
    BY <2>1, <2>2
  <2>4. PICK m \in Mbufs : posted' = posted \cup {m}
    BY <1>3, PostStep
  <2>5. /\ Cardinality(posted') <= Cardinality(posted) + 1
        /\ Cardinality(posted') \in Nat /\ Cardinality(posted) \in Nat
    <3>1. posted' \in SUBSET Mbufs
      BY <2>4 DEF TypeOK
    <3> QED BY <2>4, <3>1, PoolIsFinite, OneMoreOneLess, MempoolAssumption, PartIsSmall
  <2>6. Cardinality(posted' \cup filled') <= RxDescs
    <3>1. posted' \cup filled' = posted'
      BY <2>1
    <3> QED BY <2>1, <2>5, <3>1, SingleLcoreAssumption
  <2> QED BY <1>1, <2>1, <2>3, <2>6
<1>4. CASE Refill
  <2>1. /\ filled' = filled /\ queued' = queued /\ done' = done
        /\ Cardinality(posted \cup filled) < RxDescs /\ tutorial = 1
    BY <1>4 DEF Refill, LabelsMatch, txVars
  <2>2. "rxq" \in Members(CallsOf(tutorial))
    BY <1>2, <2>1, CallsOfFive
  <2>3. PICK m \in Mbufs : posted' = posted \cup {m}
    BY <1>4, PostStep
  <2>4. posted' \cup filled' = posted \cup filled \cup {m}
    BY <2>1, <2>3
  <2>5. /\ Cardinality(posted' \cup filled') <= Cardinality(posted \cup filled) + 1
        /\ Cardinality(posted' \cup filled') \in Nat
        /\ Cardinality(posted \cup filled) \in Nat
    <3>1. posted \cup filled \cup {m} \in SUBSET Mbufs
      BY DEF TypeOK
    <3>2. /\ Cardinality(posted \cup filled \cup {m})
               <= Cardinality(posted \cup filled) + 1
          /\ Cardinality(posted \cup filled) \in Nat
      BY PoolIsFinite, OneMoreOneLess
    <3>3. Cardinality(posted \cup filled \cup {m}) \in Nat
      BY <3>1, MempoolAssumption, PartIsSmall
    <3> QED BY <2>4, <3>2, <3>3
  <2>6. Cardinality(posted' \cup filled') <= RxDescs
    BY <2>1, <2>5, SingleLcoreAssumption
  <2> QED BY <1>1, <2>1, <2>2, <2>6
<1>5. CASE Receive
  BY <1>1, <1>5, ReceiveStep DEF Receive, txVars
<1>6. CASE TakePacket
  <2>1. /\ posted' \cup filled' \in SUBSET (posted \cup filled)
        /\ queued' = queued /\ done' = done
    BY <1>6, TakeStep DEF TakePacket, txVars
  <2>2. /\ Cardinality(posted' \cup filled') <= Cardinality(posted \cup filled)
        /\ Cardinality(posted' \cup filled') \in Nat
        /\ Cardinality(posted \cup filled) \in Nat
    BY <2>1, PoolIsFinite, PartIsSmall
  <2>3. Cardinality(posted' \cup filled') <= RxDescs
    BY <2>2, SingleLcoreAssumption
  <2>4. posted' \cup filled' # {} => posted \cup filled # {}
    BY <2>1
  <2> QED BY <1>1, <2>1, <2>3, <2>4
<1>7. CASE PortSends
  BY <1>1, <1>7 DEF PortSends, Transmit, rxVars
<1>8. CASE Send
  BY <1>1, <1>8 DEF Send, LabelsMatch, rxVars
<1>9. CASE GetPacket \/ FreePackets \/ FreePacket
  BY <1>1, <1>9 DEF GetPacket, FreePackets, FreePacket, rxVars, txVars
<1>10. CASE UNCHANGED <<common, cache, posted, filled, packets, queued, done>>
  BY <1>1, <1>10
<1> QED BY <1>3, <1>4, <1>5, <1>6, <1>7, <1>8, <1>9, <1>10, StoresLeftAlone

(* The flags agree with the program.                                       *)
LEMMA FlagsNext ==
  ASSUME TypeOK, OneOwner, LabelsMatch, FlagsMatch, [Next]_vars
  PROVE  FlagsMatch'
<1> USE DEF FlagsMatch
<1>1. tutorial' = tutorial
  BY LabelsNext
<1>2. CASE GetPacket
  <2>1. PICK m \in Mbufs : packets' = {m} /\ ol_flags' = Flagged(m)
    BY <1>2 DEF GetPacket
  <2>2. queued' = queued
    BY <1>2 DEF GetPacket, txVars
  <2> QED BY <1>1, <2>1, <2>2 DEF Flagged
<1>3. CASE Send
  <2>1. PICK m \in Mbufs : packets = {m}
    BY <1>3 DEF Send, LabelsMatch
  <2>2. packets' \cup queued' \subseteq packets \cup queued
    BY <1>3, <2>1, SendStep
  <2> QED BY <1>1, <1>3, <2>2 DEF Send
<1>4. CASE PortSends
  <2>1. queued' \subseteq queued
    BY <1>4, PortSendsStep
  <2> QED BY <1>1, <1>4, <2>1 DEF PortSends
<1>5. CASE TakePacket
  BY <1>1, <1>5 DEF TakePacket, LabelsMatch
<1>6. CASE FreePackets \/ FreePacket
  BY <1>1, <1>6 DEF FreePackets, FreePacket, txVars
<1>7. ASSUME UNCHANGED <<queued, packets, ol_flags>> PROVE FlagsMatch'
  BY <1>1, <1>7
<1> HIDE DEF FlagsMatch
<1>8. CASE ~(GetPacket \/ Send \/ PortSends \/ TakePacket \/ FreePackets \/ FreePacket)
  <2>1. UNCHANGED <<queued, packets, ol_flags>>
    BY <1>8, Zenon
    DEF Next, MainStep, Ended, vars, Terminate, Receive, TelemetryRequest, BringUp,
        PostMbuf, BringUpFails, CheckExit, LeaveLoop, Refill, EndOfBurst,
        PrintStatistics, GetFails, Count, StoreCount, txVars
  <2> QED BY <1>7, <2>1
<1> QED BY <1>2, <1>3, <1>4, <1>5, <1>6, <1>8

(* The counters, as far as the type invariant goes.                        *)
CountersTyped ==
  /\ transmitted_packet_count \in 0 .. MaxSent
  /\ tx_packet_count \in 0 .. MaxSent
  /\ opackets \in 0 .. MaxSent /\ reported \in 0 .. MaxSent

(* Every step but that of the port, and the acceptance of a packet, leaves *)
(* the queue of packets to send as long as it was.                         *)
LEMMA QueueLength ==
  ASSUME TypeOK, OneOwner, LabelsMatch, [Next]_vars
  PROVE  /\ Cardinality(queued) \in Nat
         /\ ~PortSends /\ ~Send => queued' = queued
         /\ Send => /\ pc' \in {"count", "refused"}
                    /\ Cardinality(queued')
                         = Cardinality(queued) + (IF pc' = "count" THEN 1 ELSE 0)
<1>1. Cardinality(queued) \in Nat
  BY PoolIsFinite, FS_CardinalityType
<1>2. ~PortSends /\ ~Send => queued' = queued
  BY Zenon
  DEF Next, MainStep, Ended, vars, Terminate, Receive, TelemetryRequest, BringUp,
      PostMbuf, BringUpFails, CheckExit, LeaveLoop, TakePacket, Refill, EndOfBurst,
      FreePackets, PrintStatistics, GetPacket, GetFails, FreePacket, Count,
      StoreCount, txVars
<1>3. ASSUME Send
      PROVE  /\ pc' \in {"count", "refused"}
             /\ Cardinality(queued')
                  = Cardinality(queued) + (IF pc' = "count" THEN 1 ELSE 0)
  <2>1. \E m \in Mbufs : packets = {m}
    BY <1>3 DEF Send, LabelsMatch
  <2> QED BY <1>1, <1>3, <2>1, SendStep
<1> QED BY <1>1, <1>2, <1>3

(* The counters go on agreeing with one another and with the queue.        *)
LEMMA CountsNext ==
  ASSUME TypeOK, OneOwner, LabelsMatch, CountsMatch, [Next]_vars
  PROVE  CountsMatch' /\ CountersTyped'
<1> USE DEF CountsMatch, CountersTyped, LoopLabels
<1>1. tutorial' = tutorial /\ tutorial \in {1, 2, 4, 5, 7} /\ pc \in Labels
  BY LabelsNext, SingleLcoreAssumption DEF LabelsMatch, TypeOK
<1>2. /\ Cardinality(queued) \in Nat /\ CountersTyped /\ MaxSent \in Nat
  BY QueueLength, SingleLcoreAssumption DEF TypeOK
<1>3. \/ PortSends \/ Send \/ queued' = queued
  BY QueueLength
<1>4. CASE PortSends
  <2>1. /\ Cardinality(queued) \in Nat \ {0}
        /\ Cardinality(queued') = Cardinality(queued) - 1
    BY <1>4, PortSendsStep
  <2>2. /\ opackets' = opackets + 1 /\ pc' = pc
        /\ UNCHANGED <<transmitted_packet_count, tx_packet_count, reported>>
    BY <1>4 DEF PortSends
  <2>3. pc = "count" => transmitted_packet_count < MaxSent
    OBVIOUS
  <2>4. opackets' \in 0 .. MaxSent
    BY <1>2, <2>1, <2>2, <2>3
  <2> QED BY ONLY <1>1, <1>2, <2>1, <2>2, <2>4, CountsMatch
             DEF CountsMatch, CountersTyped, LoopLabels
<1>5. CASE Send
  <2>1. /\ pc' \in {"count", "refused"} /\ pc = "send"
        /\ Cardinality(queued')
             = Cardinality(queued) + (IF pc' = "count" THEN 1 ELSE 0)
        /\ UNCHANGED countVars
    BY <1>5, QueueLength DEF Send
  <2> QED BY <1>1, <1>2, <2>1 DEF countVars
<1>6. CASE Count
  <2>1. /\ transmitted_packet_count' = transmitted_packet_count + 1
        /\ pc = "count" /\ pc' = IF tutorial = 7 THEN "store" ELSE "check"
        /\ UNCHANGED <<tx_packet_count, opackets, reported, queued>>
    BY <1>6 DEF Count, txVars
  <2> QED BY <1>1, <1>2, <2>1
<1>7. CASE StoreCount
  <2>1. /\ tx_packet_count' = transmitted_packet_count
        /\ pc = "store" /\ pc' = "check" /\ tutorial = 7
        /\ UNCHANGED <<transmitted_packet_count, opackets, reported, queued>>
    BY <1>7 DEF StoreCount, StoredCount, txVars, LabelsMatch
  <2> QED BY <1>1, <1>2, <2>1
<1>8. CASE TelemetryRequest
  <2>1. /\ reported' = tx_packet_count /\ pc' = pc
        /\ UNCHANGED <<transmitted_packet_count, tx_packet_count, opackets, queued>>
        /\ Made("telemetry")
    BY <1>8 DEF TelemetryRequest, txVars
  <2>2. tutorial = 7
    BY <1>1, <2>1, CallsOfFive DEF Made
  <2> QED BY <1>1, <1>2, <2>1, <2>2
<1>9. CASE PrintStatistics
  <2>1. /\ reported' \in {reported, opackets} /\ pc = "statistics" /\ pc' = "get"
        /\ tutorial \in {4, 5}
        /\ UNCHANGED <<transmitted_packet_count, tx_packet_count, opackets, queued>>
    BY <1>9 DEF PrintStatistics, LabelsMatch, txVars
  <2> QED BY <1>1, <1>2, <2>1
<1>10. CASE CheckExit
  <2>1. /\ pc = "check" /\ transmitted_packet_count < MaxSent
        /\ pc' \in {"poll", "statistics", "get"}
        /\ UNCHANGED countVars /\ queued' = queued
    BY <1>10 DEF CheckExit, txVars
  <2> QED BY <1>1, <1>2, <2>1 DEF countVars
<1>11. ASSUME ~PortSends, ~Send, ~Count, ~StoreCount, ~TelemetryRequest,
              ~PrintStatistics, ~CheckExit
       PROVE  CountsMatch' /\ CountersTyped'
  <2>1. /\ UNCHANGED countVars
        /\ \/ pc' = pc \/ pc' \in {"check", "exited"}
           \/ pc \in LoopLabels \ {"check", "store", "count"}
              /\ pc' \in {"free", "send"}
        /\ pc \in {"count", "store"} => pc' = pc
    BY <1>11
    DEF Next, MainStep, Ended, vars, Terminate, Receive, BringUp, Goto, PostMbuf,
        BringUpFails, LeaveLoop, TakePacket, Refill, EndOfBurst, FreePackets,
        GetPacket, GetFails, FreePacket, countVars
  <2>2. queued' = queued
    BY <1>11, QueueLength
  <2> QED BY <1>1, <1>2, <2>1, <2>2 DEF countVars
<1> QED BY <1>4, <1>5, <1>6, <1>7, <1>8, <1>9, <1>10, <1>11

(* What the program holds goes on being mbufs of the pool, at most a burst *)
(* of them in hand.                                                        *)
HeldTyped ==
  /\ exit_indicator \in BOOLEAN
  /\ posted \in SUBSET Mbufs /\ filled \in SUBSET Mbufs
  /\ packets \in SUBSET Mbufs /\ Cardinality(packets) <= BurstSize
  /\ ol_flags \in SUBSET Mbufs

(* Every step keeps it.                                                    *)
LEMMA HeldNext ==
  ASSUME TypeOK, OneOwner, LabelsMatch, [Next]_vars
  PROVE  HeldTyped'
<1> USE DEF HeldTyped
<1>1. /\ HeldTyped /\ BurstSize \in Nat \ {0}
      /\ Cardinality({}) = 0 /\ \A m : Cardinality({m}) = 1
  BY SingleLcoreAssumption, FS_EmptySet, FS_Singleton DEF TypeOK
<1>2. CASE PostMbuf \/ Refill
  BY <1>1, <1>2, PostStep DEF PostMbuf, Refill
<1>3. CASE GetPacket
  <2>1. PICK m \in Mbufs : packets' = {m} /\ ol_flags' = Flagged(m)
    BY <1>3 DEF GetPacket
  <2>2. Flagged(m) \in SUBSET Mbufs
    BY <1>1 DEF Flagged
  <2>3. UNCHANGED <<exit_indicator, posted, filled>>
    BY <1>3 DEF GetPacket, rxVars
  <2>4. packets' \in SUBSET Mbufs /\ Cardinality(packets') <= BurstSize
    BY <1>1, <2>1
  <2> QED BY <1>1, <2>1, <2>2, <2>3, <2>4
<1>4. CASE FreePackets \/ FreePacket
  BY <1>1, <1>4 DEF FreePackets, FreePacket, rxVars
<1>5. CASE Receive
  BY <1>1, <1>5 DEF Receive
<1>6. CASE TakePacket
  <2>1. PICK m \in filled : filled' = filled \ {m} /\ packets' = packets \cup {m}
    BY <1>6 DEF TakePacket
  <2>2. /\ Cardinality(packets') <= Cardinality(packets) + 1
        /\ Cardinality(packets) \in Nat /\ Cardinality(packets') \in Nat
    <3>1. packets' \in SUBSET Mbufs
      BY <1>1, <2>1
    <3> QED BY <2>1, <3>1, PoolIsFinite, OneMoreOneLess, MempoolAssumption, PartIsSmall
  <2>3. Cardinality(packets') <= BurstSize
    BY <1>1, <1>6, <2>2 DEF TakePacket
  <2> QED BY <1>1, <1>6, <2>1, <2>3 DEF TakePacket
<1>7. CASE PortSends
  BY <1>1, <1>7 DEF PortSends, rxVars
<1>8. CASE Send
  BY <1>1, <1>8 DEF Send, rxVars
<1>9. CASE UNCHANGED <<common, cache, posted, filled, packets, queued, done>>
  <2>1. /\ exit_indicator' \in {exit_indicator, TRUE}
        /\ GetPacket \/ ol_flags' = ol_flags
    BY Zenon
    DEF Next, MainStep, Ended, vars, Terminate, Receive, PortSends, TelemetryRequest,
        BringUp, PostMbuf, BringUpFails, CheckExit, LeaveLoop, TakePacket, Refill,
        EndOfBurst, FreePackets, PrintStatistics, GetPacket, GetFails, Send,
        FreePacket, Count, StoreCount
  <2> QED BY <1>1, <1>3, <1>9, <2>1
<1> QED BY <1>2, <1>3, <1>4, <1>5, <1>6, <1>7, <1>8, <1>9, StoresLeftAlone

-----------------------------------------------------------------------------
(* The theorems.                                                           *)

(* The inductive invariant holds when main starts ...                      *)
LEMMA Begins == Init => IInv
<1> SUFFICES ASSUME Init PROVE IInv
  OBVIOUS
<1> USE SingleLcoreAssumption, FS_EmptySet DEF Init, TxInit, PoolInit
<1>1. tutorial \in 1 .. 7 \cup {9} /\ tutorial \in {1, 2, 4, 5, 7}
  OBVIOUS
<1>2. PoolTypeOK /\ TxTypeOK
  BY TxQueueAssumption DEF PoolTypeOK, TxTypeOK
<1>3. /\ BringUpTypeOK /\ EalIsFirst /\ CallsMadeInOrder /\ ResultsKept
      /\ eal = "down"
  BY <1>1, BringUpTypedInit, BringUpLearnsInit, Zenon DEF BringUpInit
<1>4. todo # <<>>
  BY <1>1, CallsAreOrdered, Zenon DEF BringUpInit
<1>5. TypeOK
  <2>1. HeldTyped /\ CountersTyped /\ pc \in Labels
    <3>1. packets = {} /\ Cardinality({}) <= BurstSize
      BY FS_EmptySet
    <3>2. CountersTyped /\ pc \in Labels
      BY DEF CountersTyped, Labels
    <3> QED BY <3>1, <3>2 DEF HeldTyped
  <2> QED BY ONLY <1>2, <1>3, <2>1 DEF TypeOK, HeldTyped, CountersTyped
<1>6. EalFollowsMain
  BY <1>3, <1>4 DEF EalFollowsMain, LoopLabels
<1>7. LabelsMatch /\ QueuesMatch /\ CountsMatch /\ FlagsMatch
  BY DEF LabelsMatch, QueuesMatch, CountsMatch, FlagsMatch, LoopLabels
<1> QED BY <1>5, <1>6, <1>7, OwnerInit DEF IInv

(* ... and a step keeps it ...                                             *)
LEMMA GoesOn == IInv /\ [Next]_vars => IInv'
<1> SUFFICES ASSUME IInv, [Next]_vars PROVE IInv'
  OBVIOUS
<1>1. /\ TypeOK /\ OneOwner /\ EalFollowsMain /\ LabelsMatch /\ QueuesMatch
      /\ CountsMatch /\ FlagsMatch
  BY DEF IInv
<1>2. BringUpTypeOK /\ tutorial \in Tutorials /\ pc \in Labels
  BY <1>1 DEF TypeOK, LabelsMatch
<1>3. PoolTypeOK' /\ TxTypeOK' /\ OneOwner'
  BY <1>1, StoresNext
<1>4. BringUpTypeOK' /\ EalFollowsMain'
  BY <1>1, <1>2, BringUpGoesOn
<1>5. LabelsMatch' /\ (pc \in Labels)' /\ QueuesMatch' /\ FlagsMatch'
  BY <1>1, LabelsNext, QueuesNext, FlagsNext DEF Labels, LoopLabels
<1>6. CountsMatch' /\ CountersTyped' /\ HeldTyped'
  BY <1>1, CountsNext, HeldNext
<1>7. TypeOK'
  BY <1>3, <1>4, <1>5, <1>6 DEF TypeOK, CountersTyped, HeldTyped
<1> QED BY <1>3, <1>4, <1>5, <1>6, <1>7 DEF IInv

(* ... so it holds in every reachable state.                               *)
THEOREM LoopInductive == Spec => []IInv
BY Begins, GoesOn, PTL DEF Spec

(* Type correctness: the loop's array, the descriptors and the counters    *)
(* stay in their bounds (1-reading/main.cpp:166, 2-sending/main.cpp:244).  *)
THEOREM LoopTypes == Spec => []TypeOK
<1>1. IInv => TypeOK
  BY DEF IInv
<1> QED BY <1>1, LoopInductive, PTL

(* Every mbuf has one owner, whichever program runs                        *)
(* (1-reading/main.cpp:179, 2-sending/main.cpp:182, 244-247).              *)
THEOREM LoopOwnership == Spec => []OneOwner
<1>1. IInv => OneOwner
  BY DEF IInv
<1> QED BY <1>1, LoopInductive, PTL

(* A pool with an mbuf more than all the descriptors always has one for    *)
(* the loop (1-reading/main.cpp:166, 2-sending/main.cpp:182-187).          *)
THEOREM LoopIsNotStarved == Spec => []LoopNotStarved
<1>1. IInv => LoopNotStarved
  <2> SUFFICES ASSUME IInv, PoolSuffices, NeedsMbuf, Reachable(MainLcore) = {}
               PROVE  FALSE
    BY DEF LoopNotStarved, CanAlloc
  <2>1. TypeOK /\ OneOwner /\ QueuesMatch /\ LabelsMatch
    BY DEF IInv
  <2> DEFINE rx == posted \cup filled
             tx == queued \cup done
  <2>2. Mbufs \in SUBSET (rx \cup tx)
    <3> SUFFICES ASSUME NEW m \in Mbufs PROVE m \in rx \cup tx
      OBVIOUS
    <3>1. PICK h \in 1 .. 7 : m \in Held[h]
      BY <2>1 DEF OneOwner
    <3>2. h \in {1, 2, 3, 4, 5, 6, 7}
      BY <3>1
    <3> QED BY <3>1, <3>2, Places DEF Reachable, NeedsMbuf
  <2>3. /\ IsFiniteSet(rx) /\ IsFiniteSet(tx) /\ Cardinality(rx) \in Nat
        /\ Cardinality(tx) \in Nat
        /\ Cardinality(tx) <= Cardinality(queued) + Cardinality(done)
        /\ Cardinality(queued) \in Nat /\ Cardinality(done) \in Nat
    BY <2>1, PoolIsFinite, UnionIsSmall
  <2> DEFINE rxRoom == IF "rxq" \in Members(CallsOf(tutorial)) THEN RxDescs ELSE 0
             txRoom == IF "txq" \in Members(CallsOf(tutorial)) THEN TxDescs ELSE 0
  <2>4. Cardinality(rx) <= rxRoom /\ rxRoom \in Nat
    <3>1. Cardinality(rx) <= RxDescs /\ RxDescs \in Nat
      BY <2>1, SingleLcoreAssumption DEF QueuesMatch
    <3>2. "rxq" \notin Members(CallsOf(tutorial)) => rx = {} /\ Cardinality(rx) = 0
      BY <2>1, FS_EmptySet DEF QueuesMatch
    <3> QED BY <3>1, <3>2
  <2>5. Cardinality(tx) <= txRoom /\ txRoom \in Nat
    <3>1. Cardinality(tx) <= TxDescs /\ TxDescs \in Nat
      BY <2>1, <2>3, TxQueueAssumption DEF TypeOK, TxTypeOK
    <3>2. tutorial \in {1, 2, 4, 5, 7}
      BY <2>1, SingleLcoreAssumption DEF LabelsMatch
    <3>3. "txq" \notin Members(CallsOf(tutorial)) => tx = {} /\ Cardinality(tx) = 0
      BY <2>1, <3>2, CallsOfFive, FS_EmptySet DEF QueuesMatch
    <3> QED BY <3>1, <3>3
  <2>6. Cardinality(Mbufs) > rxRoom + txRoom
    BY DEF PoolSuffices, Descs
  <2> HIDE DEF rx, tx, rxRoom, txRoom
  <2>7. /\ IsFiniteSet(rx \cup tx) /\ Cardinality(rx \cup tx) \in Nat
        /\ Cardinality(rx \cup tx) <= Cardinality(rx) + Cardinality(tx)
    BY <2>3, UnionIsSmall
  <2>8. Cardinality(Mbufs) \in Nat /\ Cardinality(Mbufs) <= Cardinality(rx \cup tx)
    BY <2>2, <2>7, PartIsSmall
  <2> QED BY <2>3, <2>4, <2>5, <2>6, <2>7, <2>8
<1> QED BY <1>1, LoopInductive, PTL

(* The loop is reached only with a port and, where there is a receive      *)
(* queue, a pool, and the program never ends with the EAL still up         *)
(* (2-sending/main.cpp:84-168, 258).                                       *)
THEOREM LoopBringUpIsSound == Spec => []BringUpIsSound
<1>1. IInv => BringUpIsSound
  BY UsableOnceBroughtUp DEF IInv, TypeOK, EalFollowsMain, BringUpIsSound
<1> QED BY <1>1, LoopInductive, PTL

(* The checksum of every packet handed to the port is computed exactly     *)
(* once, by a device that can where the program does not                   *)
(* (5-ipv4-checksum/main.cpp:168, 195, 332; 2-sending/main.cpp:223).       *)
THEOREM LoopChecksumsOnce == Spec => []ChecksumComputedOnce
<1>1. IInv => ChecksumComputedOnce
  <2> SUFFICES ASSUME IInv, NEW m \in packets \cup queued
               PROVE  /\ (m \in ol_flags /\ offloads) <=> tutorial = 5
                      /\ m \in ol_flags => capa
    BY DEF ChecksumComputedOnce
  <2>1. BroughtUp /\ ResultsKept /\ FlagsMatch
    BY DEF IInv, EalFollowsMain
  <2>2. \A c : Made(c) <=> c \in Members(CallsOf(tutorial))
    BY <2>1 DEF BroughtUp, Made, Members
  <2>3. tutorial \in {1, 2, 4, 5, 7}
    BY SingleLcoreAssumption DEF IInv, LabelsMatch
  <2>4. Made("configure") /\ (tutorial = 5 => Made("capability"))
    BY <2>2, <2>3, CallsOfFive
  <2>5. offloads <=> tutorial = 5
    <3>1. offloads = TxOffloads
      BY <2>1, <2>4, Zenon DEF ResultsKept
    <3>2. tutorial # 9
      BY <2>3
    <3> QED BY <3>1, <3>2, Zenon DEF TxOffloads
  <2>6. tutorial = 5 => capa
    BY <2>1, <2>4, Zenon DEF ResultsKept
  <2> QED BY <2>1, <2>5, <2>6 DEF FlagsMatch
<1> QED BY <1>1, LoopInductive, PTL

(* What the program tells of the packets sent never falls, and never runs  *)
(* ahead of what the loop has sent (7-telemetry/main.cpp:44, 268-270;      *)
(* 4-getting-nic-statistics/main.cpp:191, 277).                            *)
THEOREM LoopReportsAscend == Spec => ReportsAscend
<1>1. IInv /\ [Next]_vars =>
        [ /\ reported' >= reported
          /\ transmitted_packet_count - reported' \in 0 .. MayMiss ]_reported
  <2> SUFFICES ASSUME IInv, [Next]_vars, reported' # reported
               PROVE  /\ reported' >= reported
                      /\ transmitted_packet_count - reported' \in 0 .. MayMiss
    OBVIOUS
  <2>1. /\ TypeOK /\ OneOwner /\ LabelsMatch /\ CountsMatch /\ CountersTyped
        /\ tutorial \in {1, 2, 4, 5, 7} /\ Cardinality(queued) \in Nat
    BY QueueLength, SingleLcoreAssumption
    DEF IInv, TypeOK, CountersTyped, LabelsMatch
  <2>2. TelemetryRequest \/ PrintStatistics
    BY Zenon
    DEF Next, MainStep, Ended, vars, Terminate, Receive, PortSends, BringUp,
        PostMbuf, BringUpFails, CheckExit, LeaveLoop, TakePacket, Refill,
        EndOfBurst, FreePackets, GetPacket, GetFails, Send, FreePacket, Count,
        StoreCount, countVars
  <2>3. CASE TelemetryRequest
    <3>1. reported' = tx_packet_count /\ Made("telemetry")
      BY <2>3 DEF TelemetryRequest
    <3>2. tutorial = 7
      BY <2>1, <3>1, CallsOfFive DEF Made
    <3> QED BY <2>1, <3>1, <3>2, SingleLcoreAssumption
            DEF CountsMatch, CountersTyped, MayMiss
  <2>4. CASE PrintStatistics
    <3>1. reported' = opackets /\ pc = "statistics" /\ tutorial \in {4, 5}
      BY <2>1, <2>4 DEF PrintStatistics, LabelsMatch
    <3> QED BY <2>1, <3>1, SingleLcoreAssumption
            DEF CountsMatch, CountersTyped, MayMiss
  <2> QED BY <2>2, <2>3, <2>4
<1> QED BY <1>1, LoopInductive, PTL DEF Spec, ReportsAscend

=============================================================================
