------------------------ MODULE PacketPipelineProofs ------------------------
(***************************************************************************)
(* What is proved of PacketPipeline for every pool, ring, queue and burst  *)
(* size: every reachable state is well typed, every mbuf has exactly one   *)
(* owner, packets keep their order and none is unaccounted for, the main   *)
(* lcore can go on receiving, the program ends only after the worker has,  *)
(* and the way from the port to the worker is that of PacketChannel.       *)
(***************************************************************************)
EXTENDS PacketPipeline, PortBringUpProofs, OwnershipFacts, MempoolProofs

-----------------------------------------------------------------------------
(* The parts of the inductive invariant.                                   *)

Typed == PipelineTypeOK /\ BurstsMatch /\ WorkerInsideMain

(* The two routines run on two lcores.                                     *)
LEMMA TwoLcores ==
  Reader \in Lcores /\ Worker \in Lcores /\ Reader # Worker
    /\ \A l \in Lcores : l = Reader \/ l = Worker
BY PipelineAssumption

(* Everything is well typed, and in no routine's hands, when main starts.  *)
LEMMA TypedInit == Init => Typed
<1> SUFFICES ASSUME Init PROVE Typed
  OBVIOUS
<1> USE TwoLcores, PipelineAssumption DEF Init
<1>1. PoolTypeOK
  BY DEF PoolInit, PoolTypeOK
<1>2. /\ posted \in SUBSET Mbufs /\ exit_indicator \in BOOLEAN
      /\ filled \in Seq(Mbufs) /\ ring_buffer \in Seq(Mbufs)
      /\ Len(ring_buffer) = 0
      /\ data \in [Mbufs -> Nat]
      /\ arrived \in 0 .. MaxArrivals
      /\ dropped \in Nat /\ total_rx_packets \in Nat /\ lastSeen \in Nat
  <2>1. <<>> \in Seq(Mbufs) /\ Len(<<>>) = 0
    BY EmptySeq
  <2>2. /\ filled \in Seq(Mbufs) /\ ring_buffer \in Seq(Mbufs)
        /\ Len(ring_buffer) = 0
    BY <2>1
  <2>3. data \in [Mbufs -> Nat]
    <3>1. data = [m \in Mbufs |-> 0]
      OBVIOUS
    <3> QED BY ONLY <3>1
  <2>4. arrived \in 0 .. MaxArrivals
    OBVIOUS
  <2>5. /\ posted \in SUBSET Mbufs /\ exit_indicator \in BOOLEAN
        /\ dropped \in Nat /\ total_rx_packets \in Nat /\ lastSeen \in Nat
    OBVIOUS
  <2> QED BY <2>2, <2>3, <2>4, <2>5
<1>3. rx_packets \in [Lcores -> Seq(Mbufs)]
      /\ \A l \in Lcores : rx_packets[l] = <<>> /\ Len(rx_packets[l]) = 0
  <2>1. rx_packets = [l \in Lcores |-> <<>>]
    OBVIOUS
  <2>2. <<>> \in Seq(Mbufs) /\ Len(<<>>) = 0
    BY EmptySeq
  <2> QED BY <2>1, <2>2
<1>4. /\ pc \in [Lcores -> ReaderLabels \cup WorkerLabels]
      /\ pc[Reader] = "setup" /\ pc[Worker] = "idle"
  BY DEF ReaderLabels, WorkerLabels
<1>5. PipelineTypeOK
  BY <1>1, <1>2, <1>3, <1>4 DEF PipelineTypeOK, ReaderLabels, WorkerLabels
<1> QED BY <1>3, <1>4, <1>5 DEF Typed, BurstsMatch, WorkerInsideMain

(* A step of NextOfBurst drops the head of a burst, and returns the lcore  *)
(* to the top of its loop when that was the last packet.                   *)
LEMMA NextOfBurstStep ==
  ASSUME NEW l \in Lcores, PipelineTypeOK, rx_packets[l] # <<>>, NextOfBurst(l)
  PROVE  /\ rx_packets' \in [Lcores -> Seq(Mbufs)]
         /\ rx_packets'[l] = Tail(rx_packets[l])
         /\ Len(rx_packets'[l]) <= BurstSize
         /\ \A k \in Lcores \ {l} : rx_packets'[k] = rx_packets[k] /\ pc'[k] = pc[k]
         /\ \/ rx_packets'[l] = <<>> /\ pc' = [pc EXCEPT ![l] = "check"]
            \/ rx_packets'[l] # <<>> /\ pc' = pc
<1>1. /\ rx_packets \in [Lcores -> Seq(Mbufs)] /\ DOMAIN pc = Lcores
      /\ Len(rx_packets[l]) <= BurstSize
      /\ BurstSize \in Nat
  BY PipelineAssumption DEF PipelineTypeOK
<1> DEFINE s == rx_packets[l]
<1>2. s \in Seq(Mbufs) /\ s # <<>>
  BY <1>1
<1>3. /\ Tail(s) \in Seq(Mbufs)
      /\ Len(s) \in Nat \ {0} /\ Len(Tail(s)) = Len(s) - 1
      /\ Tail(s) = <<>> <=> Len(s) = 1
  BY <1>2, TailSeq
<1>4. rx_packets' = [rx_packets EXCEPT ![l] = Tail(s)]
  BY DEF NextOfBurst
<1>5. rx_packets'[l] = Tail(s) /\ rx_packets' \in [Lcores -> Seq(Mbufs)]
      /\ \A k \in Lcores \ {l} : rx_packets'[k] = rx_packets[k]
  BY <1>1, <1>3, <1>4
<1>6. CASE Len(s) = 1
  <2>1. pc' = [pc EXCEPT ![l] = "check"]
    BY <1>6 DEF NextOfBurst, Goto
  <2> QED BY <1>1, <1>3, <1>5, <1>6, <2>1
<1>7. CASE Len(s) # 1
  <2>1. pc' = pc
    BY <1>7 DEF NextOfBurst
  <2> QED BY <1>1, <1>3, <1>5, <1>7, <2>1
<1> QED BY <1>6, <1>7

(* The stores of the pool share no mbuf with each other or with the packet *)
(* a routine is about to free.                                             *)
LEMMA StoresApart ==
  ASSUME OneOwner
  PROVE  \A l \in Lcores :
           /\ common \cap cache[l] = {}
           /\ (common \cup cache[l]) \cap Range(rx_packets[l]) = {}
<1> USE DEF OneOwner, Partition
<1>1. common \cap cache[Reader] = {}
  BY DEF Held
<1>2. common \cap cache[Worker] = {}
  BY DEF Held
<1>3. /\ common \cap Range(rx_packets[Reader]) = {}
      /\ cache[Reader] \cap Range(rx_packets[Reader]) = {}
  BY DEF Held
<1>4. /\ common \cap Range(rx_packets[Worker]) = {}
      /\ cache[Worker] \cap Range(rx_packets[Worker]) = {}
  BY DEF Held
<1> QED BY <1>1, <1>2, <1>3, <1>4, TwoLcores

(* What a lcore that holds a packet frees is an mbuf that no store holds.  *)
LEMMA ReleaseStep ==
  ASSUME NEW l \in Lcores, PipelineTypeOK, OneOwner, rx_packets[l] # <<>>, Release(l)
  PROVE  /\ PoolTypeOK'
         /\ \A k \in Lcores \ {l} : cache'[k] = cache[k]
         /\ common' \cup cache'[l]
              = common \cup cache[l] \cup {Head(rx_packets[l])}
         /\ common' \cap cache'[l] = {}
<1> DEFINE s == rx_packets[l]
           m == Head(s)
<1>1. s \in Seq(Mbufs) /\ s # <<>> /\ PoolTypeOK
  BY DEF PipelineTypeOK
<1>2. m \in Mbufs /\ m \in Range(s)
  BY <1>1, TailSeq
<1>3. common \cap cache[l] = {} /\ m \notin common \cup cache[l]
  BY <1>2, StoresApart
<1>4. Free(l, m)
  BY DEF Release
<1> HIDE DEF m
<1>5. /\ PoolTypeOK'
      /\ \A k \in Lcores \ {l} : cache'[k] = cache[k]
      /\ common' \cup cache'[l] = common \cup cache[l] \cup {m}
      /\ common' \cap cache'[l] = {}
  BY <1>1, <1>2, <1>3, <1>4, FreeAddsOne
<1> QED BY <1>5 DEF m

(* Every step keeps the state well typed and the routines in their places. *)
LEMMA TypedNext ==
  ASSUME Typed, OneOwner, [Next]_vars
  PROVE  Typed'
<1> USE TwoLcores, PipelineAssumption
    DEF Typed, ReaderLabels, WorkerLabels, Goto, nicVars, workVars
<1>1. CASE Terminate
  BY <1>1 DEF Terminate, PipelineTypeOK, BurstsMatch, WorkerInsideMain, PoolTypeOK
<1>2. CASE Receive
  <2>1. PICK m \in posted :
          /\ posted' = posted \ {m}
          /\ filled' = Append(filled, m)
          /\ data' = [data EXCEPT ![m] = arrived + 1]
    BY <1>2 DEF Receive
  <2>2. m \in Mbufs /\ filled' \in Seq(Mbufs)
    BY <2>1 DEF PipelineTypeOK
  <2>3. arrived + 1 \in 0 .. MaxArrivals /\ arrived + 1 \in Nat
    BY <1>2 DEF Receive, PipelineTypeOK
  <2>4. data' \in [Mbufs -> Nat]
    BY <2>1, <2>3 DEF PipelineTypeOK
  <2>5. PipelineTypeOK'
    BY <1>2, <2>1, <2>2, <2>3, <2>4 DEF Receive, PipelineTypeOK, PoolTypeOK
  <2> QED BY <1>2, <2>5 DEF Receive, BurstsMatch, WorkerInsideMain
<1>3. CASE SetupRxQueue
  <2>1. PICK m \in Mbufs : Alloc(Reader, m) /\ posted' = posted \cup {m}
    BY <1>3 DEF SetupRxQueue
  <2>2. PoolTypeOK'
    BY <2>1, StoresApart, AllocTakesOne DEF PipelineTypeOK
  <2>3. PipelineTypeOK'
    BY <1>3, <2>1, <2>2 DEF SetupRxQueue, PipelineTypeOK
  <2> QED BY <1>3, <2>3 DEF SetupRxQueue, BurstsMatch, WorkerInsideMain
<1>4. CASE BringUpFails
  BY <1>4 DEF BringUpFails, PipelineTypeOK, BurstsMatch, WorkerInsideMain, PoolTypeOK
<1>5. CASE BringUp
  BY <1>5 DEF BringUp, PipelineTypeOK, BurstsMatch, WorkerInsideMain, PoolTypeOK
<1>6. CASE Launch
  BY <1>6 DEF Launch, PipelineTypeOK, BurstsMatch, WorkerInsideMain, PoolTypeOK
<1>7. CASE LaunchFails
  BY <1>7 DEF LaunchFails, PipelineTypeOK, BurstsMatch, WorkerInsideMain, PoolTypeOK
<1>8. CASE WaitLcore
  BY <1>8 DEF WaitLcore, WorkerJoined, PipelineTypeOK, BurstsMatch, WorkerInsideMain,
              PoolTypeOK
<1>9. CASE ReaderCheck
  BY <1>9 DEF ReaderCheck, PipelineTypeOK, BurstsMatch, WorkerInsideMain, PoolTypeOK
<1>10. CASE TakePacket
  <2> DEFINE s == rx_packets[Reader]
             e == Head(filled)
  <2>1. /\ filled \in Seq(Mbufs) /\ filled # <<>>
        /\ s \in Seq(Mbufs) /\ Len(s) < BurstSize
    BY <1>10 DEF TakePacket, CanTakePacket, PipelineTypeOK
  <2>2. e \in Mbufs /\ Tail(filled) \in Seq(Mbufs)
    BY <2>1, TailSeq
  <2>3. /\ Append(s, e) \in Seq(Mbufs) /\ Len(Append(s, e)) = Len(s) + 1
        /\ Append(s, e) # <<>>
    BY <2>1, <2>2, AppendSeq, EmptySeq
  <2>4. rx_packets' = [rx_packets EXCEPT ![Reader] = Append(s, e)]
    BY <1>10 DEF TakePacket
  <2>5. /\ rx_packets' \in [Lcores -> Seq(Mbufs)]
        /\ rx_packets'[Reader] = Append(s, e)
        /\ rx_packets'[Worker] = rx_packets[Worker]
        /\ \A l \in Lcores : Len(rx_packets'[l]) <= BurstSize
    BY <2>1, <2>3, <2>4 DEF PipelineTypeOK
  <2>6. PoolTypeOK' /\ posted' \in SUBSET Mbufs
    <3>1. CASE RefillFirst
      <4>1. PICK m \in Mbufs : Alloc(Reader, m) /\ posted' = posted \cup {m}
        BY <1>10, <3>1 DEF TakePacket
      <4> QED BY <4>1, StoresApart, AllocTakesOne DEF PipelineTypeOK
    <3>2. CASE ~RefillFirst
      BY <1>10, <3>2 DEF TakePacket, PipelineTypeOK, PoolTypeOK, poolVars
    <3> QED BY <3>1, <3>2
  <2>7. PipelineTypeOK'
    BY <1>10, <2>2, <2>5, <2>6 DEF TakePacket, PipelineTypeOK
  <2> QED BY <1>10, <2>5, <2>7 DEF TakePacket, BurstsMatch, WorkerInsideMain
<1>11. CASE EndOfBurst
  BY <1>11 DEF EndOfBurst, PipelineTypeOK, BurstsMatch, WorkerInsideMain, PoolTypeOK
<1>12. CASE Refill
  <2>1. PICK m \in Mbufs : Alloc(Reader, m) /\ posted' = posted \cup {m}
    BY <1>12 DEF Refill
  <2>2. PoolTypeOK'
    BY <2>1, StoresApart, AllocTakesOne DEF PipelineTypeOK
  <2>3. PipelineTypeOK'
    BY <1>12, <2>1, <2>2 DEF Refill, PipelineTypeOK
  <2> QED BY <1>12, <2>3 DEF Refill, BurstsMatch, WorkerInsideMain
<1>13. CASE ReturnBurst
  BY <1>13 DEF ReturnBurst, PipelineTypeOK, BurstsMatch, WorkerInsideMain, PoolTypeOK
<1>14. CASE Enqueue
  <2> DEFINE e == Head(rx_packets[Reader])
  <2>1. rx_packets[Reader] # <<>> /\ rx_packets[Reader] \in Seq(Mbufs)
    BY <1>14 DEF Enqueue, BurstsMatch, PipelineTypeOK
  <2>2. e \in Mbufs
    BY <2>1, TailSeq
  <2>3. ring_buffer' = Append(ring_buffer, e) /\ Len(ring_buffer) < RingCapacity
    BY <1>14 DEF Enqueue, RingWith, RingFull, PipelineTypeOK
  <2>4. ring_buffer' \in Seq(Mbufs) /\ Len(ring_buffer') <= RingCapacity
    BY <2>2, <2>3, AppendSeq DEF PipelineTypeOK
  <2>5. NextOfBurst(Reader)
    BY <1>14 DEF Enqueue
  <2>6. /\ rx_packets' \in [Lcores -> Seq(Mbufs)]
        /\ Len(rx_packets'[Reader]) <= BurstSize
        /\ rx_packets'[Worker] = rx_packets[Worker] /\ pc'[Worker] = pc[Worker]
        /\ \/ rx_packets'[Reader] = <<>> /\ pc' = [pc EXCEPT ![Reader] = "check"]
           \/ rx_packets'[Reader] # <<>> /\ pc' = pc
    BY <2>1, <2>5, NextOfBurstStep
  <2>7. PipelineTypeOK'
    BY <1>14, <2>4, <2>6 DEF Enqueue, PipelineTypeOK, PoolTypeOK
  <2> QED BY <1>14, <2>6, <2>7 DEF Enqueue, PipelineTypeOK, BurstsMatch, WorkerInsideMain
<1>15. CASE EnqueueFails
  <2>1. rx_packets[Reader] # <<>>
    BY <1>15 DEF EnqueueFails, BurstsMatch
  <2>2. NextOfBurst(Reader) /\ Release(Reader)
    BY <1>15 DEF EnqueueFails
  <2>3. PoolTypeOK'
    BY <2>1, <2>2, ReleaseStep
  <2>4. /\ rx_packets' \in [Lcores -> Seq(Mbufs)]
        /\ Len(rx_packets'[Reader]) <= BurstSize
        /\ rx_packets'[Worker] = rx_packets[Worker] /\ pc'[Worker] = pc[Worker]
        /\ \/ rx_packets'[Reader] = <<>> /\ pc' = [pc EXCEPT ![Reader] = "check"]
           \/ rx_packets'[Reader] # <<>> /\ pc' = pc
    BY <2>1, <2>2, NextOfBurstStep
  <2>5. PipelineTypeOK'
    BY <1>15, <2>3, <2>4 DEF EnqueueFails, PipelineTypeOK
  <2> QED BY <1>15, <2>4, <2>5
          DEF EnqueueFails, PipelineTypeOK, BurstsMatch, WorkerInsideMain
<1>16. CASE WorkerCheck
  BY <1>16 DEF WorkerCheck, PipelineTypeOK, BurstsMatch, WorkerInsideMain, PoolTypeOK
<1>17. CASE Dequeue
  <2>1. BurstLen \in 0 .. Len(ring_buffer) /\ BurstLen <= BurstSize
    BY DEF BurstLen, PipelineTypeOK
  <2> DEFINE a == SubSeq(ring_buffer, 1, BurstLen)
             b == SubSeq(ring_buffer, BurstLen + 1, Len(ring_buffer))
  <2>2. /\ a \in Seq(Mbufs) /\ Len(a) = BurstLen
        /\ b \in Seq(Mbufs) /\ Len(b) = Len(ring_buffer) - BurstLen
    BY <2>1, CutSeq DEF PipelineTypeOK
  <2>3. a = <<>> <=> BurstLen = 0
    BY <2>1, <2>2, EmptySeq
  <2>4. /\ rx_packets' = [rx_packets EXCEPT ![Worker] = a]
        /\ ring_buffer' = b
        /\ pc' = [pc EXCEPT ![Worker] = IF BurstLen = 0 THEN "check" ELSE "process"]
    BY <1>17 DEF Dequeue, Rest
  <2> HIDE DEF a, b
  <2>5. /\ rx_packets' \in [Lcores -> Seq(Mbufs)]
        /\ rx_packets'[Worker] = a
        /\ rx_packets'[Reader] = rx_packets[Reader]
        /\ \A l \in Lcores : Len(rx_packets'[l]) <= BurstSize
    BY <2>1, <2>2, <2>4 DEF PipelineTypeOK
  <2>6. Len(ring_buffer') <= RingCapacity /\ ring_buffer' \in Seq(Mbufs)
    BY <2>1, <2>2, <2>4 DEF PipelineTypeOK
  <2>7. /\ pc' \in [Lcores -> ReaderLabels \cup WorkerLabels]
        /\ pc'[Reader] = pc[Reader] /\ pc'[Worker] \in WorkerLabels
    <3>1. CASE BurstLen = 0
      BY <2>4, <3>1 DEF PipelineTypeOK
    <3>2. CASE BurstLen # 0
      BY <2>4, <3>2 DEF PipelineTypeOK
    <3> QED BY <3>1, <3>2
  <2>8. PipelineTypeOK'
    BY <1>17, <2>5, <2>6, <2>7 DEF Dequeue, PipelineTypeOK, PoolTypeOK
  <2> QED BY <1>17, <2>3, <2>4, <2>5, <2>8
          DEF Dequeue, PipelineTypeOK, BurstsMatch, WorkerInsideMain
<1>18. CASE Process
  <2>1. rx_packets[Worker] # <<>> /\ rx_packets[Worker] \in Seq(Mbufs)
    BY <1>18 DEF Process, BurstsMatch, PipelineTypeOK
  <2>2. NextOfBurst(Worker) /\ Release(Worker)
    BY <1>18 DEF Process
  <2>3. PoolTypeOK'
    BY <2>1, <2>2, ReleaseStep
  <2>4. Head(rx_packets[Worker]) \in Mbufs
    BY <2>1, TailSeq
  <2>5. lastSeen' \in Nat
    BY <1>18, <2>4 DEF Process, PipelineTypeOK
  <2>6. /\ rx_packets' \in [Lcores -> Seq(Mbufs)]
        /\ Len(rx_packets'[Worker]) <= BurstSize
        /\ rx_packets'[Reader] = rx_packets[Reader] /\ pc'[Reader] = pc[Reader]
        /\ \/ rx_packets'[Worker] = <<>> /\ pc' = [pc EXCEPT ![Worker] = "check"]
           \/ rx_packets'[Worker] # <<>> /\ pc' = pc
    BY <2>1, <2>2, NextOfBurstStep
  <2>7. PipelineTypeOK'
    BY <1>18, <2>3, <2>5, <2>6 DEF Process, PipelineTypeOK
  <2> QED BY <1>18, <2>6, <2>7 DEF Process, PipelineTypeOK, BurstsMatch, WorkerInsideMain
<1>19. CASE UNCHANGED vars
  BY <1>19 DEF vars, PipelineTypeOK, BurstsMatch, WorkerInsideMain, PoolTypeOK
<1> QED
  BY <1>1, <1>2, <1>3, <1>4, <1>5, <1>6, <1>7, <1>8, <1>9, <1>10, <1>11, <1>12,
     <1>13, <1>14, <1>15, <1>16, <1>17, <1>18, <1>19
  DEF Next, ReaderStep, WorkerStep, Terminated

-----------------------------------------------------------------------------
(* The bring-up.                                                           *)

(* main starts with everything to do and the EAL down.                     *)
LEMMA BringUpBegins == Init => BringUpTypeOK /\ EalFollowsMain
<1> SUFFICES ASSUME Init PROVE BringUpTypeOK /\ EalFollowsMain
  OBVIOUS
<1>1. tutorial = 3 /\ BringUpInit /\ pc[Reader] = "setup" /\ eal = "down"
  BY TwoLcores DEF Init, BringUpInit
<1>2. /\ BringUpTypeOK /\ EalIsFirst /\ CallsMadeInOrder /\ ResultsKept
  BY <1>1, BringUpTypedInit, BringUpLearnsInit
<1>3. todo # <<>>
  BY <1>1, CallsAreOrdered DEF BringUpInit
<1> QED BY <1>1, <1>2, <1>3 DEF EalFollowsMain

(* The steps that leave the bring-up alone neither begin nor end main.     *)
LEMMA BringUpLeftAlone ==
  ASSUME Typed, [Next]_vars
  PROVE  \/ BringUp \/ BringUpFails \/ LaunchFails \/ WaitLcore
         \/ /\ UNCHANGED bringUpVars
            /\ pc[Reader] \in {"setup", "exited"} => pc'[Reader] = pc[Reader]
            /\ pc'[Reader] \in {"setup", "exited"} => pc'[Reader] = pc[Reader]
BY TwoLcores, Zenon
DEF Typed, PipelineTypeOK, Goto, NextOfBurst, vars, bringUpVars, Next, ReaderStep,
    WorkerStep, Terminated, Terminate, Receive, SetupRxQueue, Launch, ReaderCheck,
    TakePacket, EndOfBurst, Refill, ReturnBurst, Enqueue, EnqueueFails,
    WorkerCheck, Dequeue, Process

(* The EAL is brought up first and cleaned up last.                        *)
LEMMA BringUpGoesOn ==
  ASSUME Typed, BringUpTypeOK, EalFollowsMain, [Next]_vars
  PROVE  BringUpTypeOK' /\ EalFollowsMain'
<1> USE TwoLcores DEF EalFollowsMain, Goto
<1>1. DOMAIN pc = Lcores
  BY DEF Typed, PipelineTypeOK
<1>2. CASE BringUp
  <2>1. /\ CallSucceeds \/ RxQueueIsSetUp
        /\ pc[Reader] = "setup"
        /\ pc'[Reader] = IF todo' = <<>> THEN "launch" ELSE "setup"
    BY <1>1, <1>2 DEF BringUp
  <2>2. eal' \in {eal, "up"} /\ tutorial' = tutorial
    BY <2>1
    DEF CallSucceeds, RxQueueIsSetUp, StartEal, DetectPorts, FindPortByName,
        ReadDeviceInfo, CheckCapability, CreatePool, Configure, OtherCall, Succeeds
  <2>3. /\ BringUpTypeOK' /\ EalIsFirst' /\ CallsMadeInOrder' /\ ResultsKept'
    BY <2>1, BringUpTypedNext, EalIsFirstNext, BringUpLearnsNext DEF BringUpStep
  <2> QED BY <2>1, <2>2, <2>3 DEF BroughtUp
<1>3. CASE BringUpFails
  <2>1. /\ CallFails /\ pc[Reader] = "setup" /\ pc'[Reader] = "exited"
    BY <1>1, <1>3 DEF BringUpFails
  <2>2. /\ todo # <<>> /\ todo' = todo /\ tutorial' = tutorial
        /\ eal' = EalAfterFailure(Head(todo))
    BY <2>1 DEF CallFails
  <2>3. todo \in Seq(Members(PipelineCalls))
    BY DEF BringUpTypeOK, CallsOf
  <2>4. Head(todo) \in Members(todo) /\ Head(todo) \in Members(PipelineCalls)
    BY <2>2, <2>3 DEF Members
  <2>5. Head(todo) # "arguments"
    BY <2>4 DEF Members, PipelineCalls
  <2>6. eal' = "up" => Head(todo) = "lcores"
    BY <2>2, <2>4, <2>5 DEF EalAfterFailure, LeavesEalUp, EalIsFirst
  <2>7. /\ BringUpTypeOK' /\ EalIsFirst' /\ CallsMadeInOrder' /\ ResultsKept'
    BY <2>1, BringUpTypedNext, EalIsFirstNext, BringUpLearnsNext DEF BringUpStep
  <2> QED BY <2>1, <2>2, <2>6, <2>7
<1>4. CASE LaunchFails \/ WaitLcore
  <2>1. /\ CleanUpEal /\ BroughtUp /\ pc'[Reader] = "exited"
        /\ eal' = "cleaned" /\ tutorial' = tutorial
    BY <1>1, <1>4 DEF LaunchFails, WaitLcore, CleanUpEal
  <2>2. /\ BringUpTypeOK' /\ EalIsFirst' /\ CallsMadeInOrder' /\ ResultsKept'
    BY <2>1, BringUpTypedNext, EalIsFirstNext, BringUpLearnsNext DEF BringUpStep
  <2> QED BY <2>1, <2>2
<1>5. CASE /\ UNCHANGED bringUpVars
           /\ pc[Reader] \in {"setup", "exited"} => pc'[Reader] = pc[Reader]
           /\ pc'[Reader] \in {"setup", "exited"} => pc'[Reader] = pc[Reader]
  <2>1. /\ BringUpTypeOK' /\ EalIsFirst' /\ BroughtUp' = BroughtUp
        /\ CallsMadeInOrder' /\ ResultsKept'
    BY <1>5, BringUpKept, Zenon
  <2> QED BY <1>5, <2>1 DEF bringUpVars
<1> QED BY <1>2, <1>3, <1>4, <1>5, BringUpLeftAlone

-----------------------------------------------------------------------------
(* Who holds an mbuf.                                                      *)

(* An exchange among three places leaves every mbuf with one owner.        *)
LEMMA Redistribute ==
  ASSUME NEW a, NEW b, NEW i \in 1 .. 8, NEW j \in 1 .. 8, NEW k \in 1 .. 8,
         Partition(a), Exchange(8, a, b, i, j, k)
  PROVE  Partition(b)
<1>1. Apart(8, a) /\ HoldAll(8, a, Mbufs)
  BY DEF Partition, Apart, HoldAll
<1>2. OwnersKept(8, a, b)
  BY <1>1, ExchangeKeepsOwners
<1> QED BY <1>1, <1>2 DEF OwnersKept, Partition, Apart, HoldAll

(* The eight places by their number.                                       *)
LEMMA Places ==
  /\ Held[1] = common
  /\ Held[2] = cache[Reader]
  /\ Held[3] = cache[Worker]
  /\ Held[4] = posted
  /\ Held[5] = Range(filled)
  /\ Held[6] = Range(rx_packets[Reader])
  /\ Held[7] = Range(ring_buffer)
  /\ Held[8] = Range(rx_packets[Worker])
BY DEF Held

(* The same after a step.                                                  *)
LEMMA PlacesAfter ==
  /\ (Held')[1] = common'
  /\ (Held')[2] = cache'[Reader]
  /\ (Held')[3] = cache'[Worker]
  /\ (Held')[4] = posted'
  /\ (Held')[5] = Range(filled')
  /\ (Held')[6] = Range(rx_packets'[Reader])
  /\ (Held')[7] = Range(ring_buffer')
  /\ (Held')[8] = Range(rx_packets'[Worker])
BY DEF Held

(* Before main has set anything up, the common store holds every mbuf.     *)
LEMMA OwnerInit == Init => OneOwner
<1> SUFFICES ASSUME Init PROVE OneOwner
  OBVIOUS
<1>1. /\ common = Mbufs /\ posted = {}
      /\ cache[Reader] = {} /\ cache[Worker] = {}
      /\ filled = <<>> /\ ring_buffer = <<>>
      /\ rx_packets[Reader] = <<>> /\ rx_packets[Worker] = <<>>
  BY TwoLcores DEF Init, PoolInit
<1>2. Held[1] = Mbufs /\ \A h \in 2 .. 8 : Held[h] = {}
  <2>1. Range(<<>>) = {}
    BY NothingInEmptySeq
  <2> QED BY <1>1, <2>1, Places
<1>3. Partition(Held)
  BY <1>2 DEF Partition
<1> QED BY <1>1, <1>3, NothingInEmptySeq, TwoLcores DEF OneOwner

(* The main lcore allocates an mbuf and gives it to a descriptor.          *)
LEMMA PostMbuf ==
  ASSUME NEW a, NEW b, NEW m, PoolTypeOK, Alloc(Reader, m),
         posted' = posted \cup {m},
         Partition(a), a[1] = common, a[2] = cache[Reader], a[4] = posted,
         b[1] = common', b[2] = cache'[Reader], b[4] = posted',
         \A h \in {3, 5, 6, 7, 8} : b[h] = a[h]
  PROVE  Partition(b)
<1>1. /\ common \cap cache[Reader] = {}
      /\ common \cap posted = {}
      /\ cache[Reader] \cap posted = {}
  BY DEF Partition
<1>2. /\ m \in common \cup cache[Reader]
      /\ common' \cup cache'[Reader] = (common \cup cache[Reader]) \ {m}
      /\ common' \cap cache'[Reader] = {}
  BY <1>1, TwoLcores, AllocTakesOne
<1>3. Exchange(8, a, b, 1, 2, 4)
  <2>1. /\ b[1] \cup b[2] \cup b[4] = a[1] \cup a[2] \cup a[4]
        /\ b[1] \cap b[2] = {} /\ b[1] \cap b[4] = {} /\ b[2] \cap b[4] = {}
    BY <1>1, <1>2
  <2>2. \A h \in (1 .. 8) \ {1, 2, 4} : b[h] = a[h]
    OBVIOUS
  <2> QED BY <2>1, <2>2 DEF Exchange
<1> QED BY <1>3, Redistribute

(* An allocation changes no cache but the allocating lcore's.              *)
LEMMA AllocKeepsWorkerCache ==
  ASSUME PipelineTypeOK, OneOwner, NEW m, Alloc(Reader, m)
  PROVE  cache'[Worker] = cache[Worker]
BY TwoLcores, StoresApart, AllocTakesOne DEF PipelineTypeOK

(* Every step leaves every mbuf with exactly one owner.                    *)
LEMMA OwnerNext ==
  ASSUME Typed, OneOwner, [Next]_vars
  PROVE  OneOwner'
<1> USE DEF nicVars, workVars
<1>1. /\ Partition(Held) /\ IsInjective(filled) /\ IsInjective(ring_buffer)
      /\ IsInjective(rx_packets[Reader]) /\ IsInjective(rx_packets[Worker])
      /\ PipelineTypeOK /\ BurstsMatch /\ PoolTypeOK
      /\ filled \in Seq(Mbufs) /\ ring_buffer \in Seq(Mbufs)
      /\ rx_packets[Reader] \in Seq(Mbufs) /\ rx_packets[Worker] \in Seq(Mbufs)
  BY TwoLcores DEF OneOwner, Typed, PipelineTypeOK
<1>2. SUFFICES /\ Partition(Held')
               /\ IsInjective(filled') /\ IsInjective(ring_buffer')
               /\ IsInjective(rx_packets'[Reader])
               /\ IsInjective(rx_packets'[Worker])
  BY TwoLcores DEF OneOwner, Partition
<1>3. CASE UNCHANGED <<common, cache, posted, filled, ring_buffer, rx_packets>>
  <2>1. Held' = Held
    BY <1>3 DEF Held
  <2> QED BY <1>1, <1>3, <2>1
<1>4. CASE Receive
  <2>1. PICK m \in posted : posted' = posted \ {m} /\ filled' = Append(filled, m)
    BY <1>4 DEF Receive
  <2>2. m \in Mbufs /\ posted \cap Range(filled) = {}
    BY <1>1, Places DEF Partition, PipelineTypeOK
  <2>3. /\ Range(filled') = Range(filled) \cup {m}
        /\ IsInjective(filled')
    BY <1>1, <2>1, <2>2, AppendSeq
  <2>4. \A h \in (1 .. 8) \ {4, 5, 1} : (Held')[h] = Held[h]
    BY <1>4, Places, PlacesAfter DEF Receive
  <2>5. /\ (Held')[1] = Held[1]
        /\ (Held')[4] = posted \ {m}
        /\ (Held')[5] = Range(filled) \cup {m}
    BY <1>4, <2>1, <2>3, Places, PlacesAfter DEF Receive
  <2>6. Partition(Held')
    <3>1. /\ Held[4] \cap Held[5] = {} /\ Held[4] \cap Held[1] = {}
          /\ Held[5] \cap Held[1] = {}
      BY <1>1 DEF Partition
    <3>2. /\ (Held')[4] \cap (Held')[5] = {} /\ (Held')[4] \cap (Held')[1] = {}
          /\ (Held')[5] \cap (Held')[1] = {}
          /\ (Held')[4] \cup (Held')[5] \cup (Held')[1]
               = Held[4] \cup Held[5] \cup Held[1]
      BY <2>1, <2>5, <3>1, Places
    <3>3. Exchange(8, Held, Held', 4, 5, 1)
      BY <2>4, <3>2 DEF Exchange
    <3> QED BY <1>1, <3>3, Redistribute
  <2> QED BY <1>1, <1>4, <2>3, <2>6 DEF Receive
<1>5. CASE SetupRxQueue \/ Refill
  <2>1. PICK m \in Mbufs : Alloc(Reader, m) /\ posted' = posted \cup {m}
    BY <1>5 DEF SetupRxQueue, Refill
  <2>2. UNCHANGED <<filled, ring_buffer, rx_packets>>
    BY <1>5 DEF SetupRxQueue, Refill
  <2>3. cache'[Worker] = cache[Worker]
    BY <1>1, <2>1, AllocKeepsWorkerCache
  <2>4. \A h \in {3, 5, 6, 7, 8} : (Held')[h] = Held[h]
    BY <2>2, <2>3, Places, PlacesAfter
  <2>5. Partition(Held')
    BY <1>1, <2>1, <2>4, Places, PlacesAfter, PostMbuf
  <2> QED BY <1>1, <2>2, <2>5
<1>6. CASE TakePacket
  <2> DEFINE e == Head(filled)
             burst == rx_packets[Reader]
             \* the places once the packet is taken, before any refill
             mid == [Held EXCEPT ![5] = Range(filled'), ![6] = Range(rx_packets'[Reader])]
  <2>1. /\ filled # <<>> /\ filled' = Tail(filled)
        /\ rx_packets' = [rx_packets EXCEPT ![Reader] = Append(burst, e)]
        /\ ring_buffer' = ring_buffer
    BY <1>6 DEF TakePacket, CanTakePacket
  <2>2. /\ rx_packets'[Reader] = Append(burst, e)
        /\ rx_packets'[Worker] = rx_packets[Worker]
    BY <1>1, <2>1, TwoLcores DEF PipelineTypeOK
  <2>3. /\ e \in Mbufs /\ e \in Range(filled)
        /\ IsInjective(filled') /\ Range(filled') = Range(filled) \ {e}
    BY <1>1, <2>1, TailSeq
  <2>4. e \notin Range(burst) /\ Range(filled) \cap Range(burst) = {}
    BY <1>1, <2>3, Places DEF Partition
  <2>5. /\ Range(rx_packets'[Reader]) = Range(burst) \cup {e}
        /\ IsInjective(rx_packets'[Reader])
    BY <1>1, <2>2, <2>3, <2>4, AppendSeq
  <2>6. /\ mid[5] = Range(filled) \ {e} /\ mid[6] = Range(burst) \cup {e}
        /\ \A h \in (1 .. 8) \ {5, 6} : mid[h] = Held[h]
    BY <2>3, <2>5 DEF Held
  <2> HIDE DEF mid, e
  <2>7. Partition(mid)
    <3>1. /\ Held[5] \cap Held[6] = {} /\ Held[5] \cap Held[1] = {}
          /\ Held[6] \cap Held[1] = {}
      BY <1>1 DEF Partition
    <3>2. /\ mid[5] \cap mid[6] = {} /\ mid[5] \cap mid[1] = {}
          /\ mid[6] \cap mid[1] = {}
          /\ mid[5] \cup mid[6] \cup mid[1] = Held[5] \cup Held[6] \cup Held[1]
          /\ \A h \in (1 .. 8) \ {5, 6, 1} : mid[h] = Held[h]
      BY <2>3, <2>4, <2>6, <3>1, Places
    <3>3. Exchange(8, Held, mid, 5, 6, 1)
      BY <3>2 DEF Exchange
    <3> QED BY <1>1, <3>3, Redistribute
  <2>8. Partition(Held')
    <3>1. CASE RefillFirst
      <4>1. PICK m \in Mbufs : Alloc(Reader, m) /\ posted' = posted \cup {m}
        BY <1>6, <3>1 DEF TakePacket
      <4>2. cache'[Worker] = cache[Worker]
        BY <1>1, <4>1, AllocKeepsWorkerCache
      <4>3. \A h \in {3, 5, 6, 7, 8} : (Held')[h] = mid[h]
        <5>1. \A h \in {3, 7, 8} : (Held')[h] = mid[h]
          BY <2>1, <2>2, <2>6, <4>2, Places, PlacesAfter
        <5>2. (Held')[5] = mid[5] /\ (Held')[6] = mid[6]
          BY <2>3, <2>5, <2>6, PlacesAfter
        <5> QED BY <5>1, <5>2
      <4>4. mid[1] = common /\ mid[2] = cache[Reader] /\ mid[4] = posted
        BY <2>6, Places
      <4> QED BY <1>1, <2>7, <4>1, <4>3, <4>4, PlacesAfter, PostMbuf
    <3>2. CASE ~RefillFirst
      <4>1. UNCHANGED <<common, cache, posted>>
        BY <1>6, <3>2 DEF TakePacket, poolVars
      <4>2. \A h \in 1 .. 8 : (Held')[h] = mid[h]
        <5>1. \A h \in {1, 2, 3, 4, 7, 8} : (Held')[h] = mid[h]
          BY <2>1, <2>2, <2>6, <4>1, Places, PlacesAfter
        <5>2. (Held')[5] = mid[5] /\ (Held')[6] = mid[6]
          BY <2>3, <2>5, <2>6, PlacesAfter
        <5> QED BY <5>1, <5>2
      <4> QED BY <2>7, <4>2 DEF Partition
    <3> QED BY <3>1, <3>2
  <2> QED BY <1>1, <2>1, <2>2, <2>3, <2>5, <2>8
<1>7. CASE Enqueue
  <2> DEFINE e == Head(rx_packets[Reader])
  <2>1. /\ rx_packets[Reader] # <<>> /\ NextOfBurst(Reader)
        /\ ring_buffer' = Append(ring_buffer, e)
        /\ UNCHANGED <<common, cache, posted, filled>>
    BY <1>1, <1>7 DEF Enqueue, RingWith, BurstsMatch
  <2>2. /\ rx_packets'[Reader] = Tail(rx_packets[Reader])
        /\ rx_packets'[Worker] = rx_packets[Worker]
    BY <1>1, <2>1, TwoLcores, NextOfBurstStep
  <2>3. /\ e \in Mbufs /\ e \in Range(rx_packets[Reader])
        /\ IsInjective(rx_packets'[Reader])
        /\ Range(rx_packets'[Reader]) = Range(rx_packets[Reader]) \ {e}
    BY <1>1, <2>1, <2>2, TailSeq
  <2>4. e \notin Range(ring_buffer)
    BY <1>1, <2>3, Places DEF Partition
  <2>5. /\ Range(ring_buffer') = Range(ring_buffer) \cup {e}
        /\ IsInjective(ring_buffer')
    BY <1>1, <2>1, <2>3, <2>4, AppendSeq
  <2> HIDE DEF e
  <2>6. /\ (Held')[6] = Held[6] \ {e} /\ (Held')[7] = Held[7] \cup {e}
        /\ \A h \in (1 .. 8) \ {6, 7} : (Held')[h] = Held[h]
    BY <2>1, <2>2, <2>3, <2>5, Places, PlacesAfter
  <2>7. Partition(Held')
    <3>1. /\ Held[6] \cap Held[7] = {} /\ Held[6] \cap Held[1] = {}
          /\ Held[7] \cap Held[1] = {}
      BY <1>1 DEF Partition
    <3>2. /\ (Held')[6] \cap (Held')[7] = {} /\ (Held')[6] \cap (Held')[1] = {}
          /\ (Held')[7] \cap (Held')[1] = {}
          /\ (Held')[6] \cup (Held')[7] \cup (Held')[1]
               = Held[6] \cup Held[7] \cup Held[1]
          /\ \A h \in (1 .. 8) \ {6, 7, 1} : (Held')[h] = Held[h]
      BY <2>3, <2>6, <3>1, Places
    <3>3. Exchange(8, Held, Held', 6, 7, 1)
      BY <3>2 DEF Exchange
    <3> QED BY <1>1, <3>3, Redistribute
  <2> QED BY <1>1, <2>1, <2>2, <2>3, <2>5, <2>7
<1>8. CASE EnqueueFails
  <2> DEFINE e == Head(rx_packets[Reader])
  <2>1. /\ rx_packets[Reader] # <<>> /\ NextOfBurst(Reader) /\ Release(Reader)
        /\ UNCHANGED <<posted, filled, ring_buffer>>
    BY <1>1, <1>8 DEF EnqueueFails, BurstsMatch
  <2>2. /\ rx_packets'[Reader] = Tail(rx_packets[Reader])
        /\ rx_packets'[Worker] = rx_packets[Worker]
    BY <1>1, <2>1, TwoLcores, NextOfBurstStep
  <2>3. /\ e \in Range(rx_packets[Reader])
        /\ IsInjective(rx_packets'[Reader])
        /\ Range(rx_packets'[Reader]) = Range(rx_packets[Reader]) \ {e}
    BY <1>1, <2>1, <2>2, TailSeq
  <2>4. /\ cache'[Worker] = cache[Worker]
        /\ common' \cup cache'[Reader] = common \cup cache[Reader] \cup {e}
        /\ common' \cap cache'[Reader] = {}
    BY <1>1, <2>1, TwoLcores, ReleaseStep
  <2> HIDE DEF e
  <2>5. /\ \A h \in (1 .. 8) \ {1, 2, 6} : (Held')[h] = Held[h]
        /\ (Held')[1] \cup (Held')[2] = Held[1] \cup Held[2] \cup {e}
        /\ (Held')[1] \cap (Held')[2] = {}
        /\ (Held')[6] = Held[6] \ {e} /\ e \in Held[6]
    BY <2>1, <2>2, <2>3, <2>4, Places, PlacesAfter
  <2>6. Partition(Held')
    <3>1. Held[6] \cap Held[1] = {} /\ Held[6] \cap Held[2] = {}
      BY <1>1 DEF Partition
    <3>2. /\ (Held')[1] \cap (Held')[6] = {} /\ (Held')[2] \cap (Held')[6] = {}
          /\ (Held')[1] \cup (Held')[2] \cup (Held')[6]
               = Held[1] \cup Held[2] \cup Held[6]
      BY <2>5, <3>1
    <3>3. Exchange(8, Held, Held', 1, 2, 6)
      BY <2>5, <3>2 DEF Exchange
    <3> QED BY <1>1, <3>3, Redistribute
  <2> QED BY <1>1, <2>1, <2>2, <2>3, <2>6
<1>9. CASE Dequeue
  <2> DEFINE a == SubSeq(ring_buffer, 1, BurstLen)
             b == SubSeq(ring_buffer, BurstLen + 1, Len(ring_buffer))
  <2>1. /\ rx_packets[Worker] = <<>>
        /\ rx_packets' = [rx_packets EXCEPT ![Worker] = a]
        /\ ring_buffer' = b
        /\ UNCHANGED <<common, cache, posted, filled>>
    BY <1>1, <1>9 DEF Dequeue, Rest, BurstsMatch
  <2>2. BurstLen \in 0 .. Len(ring_buffer)
    BY <1>1, PipelineAssumption DEF BurstLen
  <2> HIDE DEF a, b
  <2>3. /\ IsInjective(a) /\ IsInjective(b)
        /\ Range(ring_buffer) = Range(a) \cup Range(b)
        /\ Range(a) \cap Range(b) = {}
    <3>1. ring_buffer \in Seq(Mbufs) /\ IsInjective(ring_buffer)
      BY <1>1
    <3>2. /\ Range(ring_buffer) = Range(a) \cup Range(b)
          /\ IsInjective(ring_buffer) => /\ IsInjective(a) /\ IsInjective(b)
                                         /\ Range(a) \cap Range(b) = {}
      BY <2>2, <3>1, CutSeq DEF a, b
    <3> QED BY <3>1, <3>2
  <2>4. rx_packets'[Worker] = a /\ rx_packets'[Reader] = rx_packets[Reader]
    BY <1>1, <2>1, TwoLcores DEF PipelineTypeOK
  <2>5. /\ \A h \in (1 .. 8) \ {7, 8} : (Held')[h] = Held[h]
        /\ (Held')[7] \cup (Held')[8] = Held[7]
        /\ (Held')[7] \cap (Held')[8] = {}
        /\ Held[8] = {}
    BY <2>1, <2>3, <2>4, Places, PlacesAfter, NothingInEmptySeq
  <2>6. Partition(Held')
    <3>1. Held[7] \cap Held[1] = {}
      BY <1>1 DEF Partition
    <3>2. /\ (Held')[7] \cap (Held')[1] = {} /\ (Held')[8] \cap (Held')[1] = {}
          /\ (Held')[7] \cup (Held')[8] \cup (Held')[1]
               = Held[7] \cup Held[8] \cup Held[1]
          /\ \A h \in (1 .. 8) \ {7, 8, 1} : (Held')[h] = Held[h]
      BY <2>5, <3>1
    <3>3. Exchange(8, Held, Held', 7, 8, 1)
      BY <2>5, <3>2 DEF Exchange
    <3> QED BY <1>1, <3>3, Redistribute
  <2> QED BY <1>1, <2>1, <2>3, <2>4, <2>6
<1>10. CASE Process
  <2> DEFINE e == Head(rx_packets[Worker])
  <2>1. /\ rx_packets[Worker] # <<>> /\ NextOfBurst(Worker) /\ Release(Worker)
        /\ UNCHANGED <<posted, filled, ring_buffer>>
    BY <1>1, <1>10 DEF Process, BurstsMatch
  <2>2. /\ rx_packets'[Worker] = Tail(rx_packets[Worker])
        /\ rx_packets'[Reader] = rx_packets[Reader]
    BY <1>1, <2>1, TwoLcores, NextOfBurstStep
  <2>3. /\ e \in Range(rx_packets[Worker])
        /\ IsInjective(rx_packets'[Worker])
        /\ Range(rx_packets'[Worker]) = Range(rx_packets[Worker]) \ {e}
    BY <1>1, <2>1, <2>2, TailSeq
  <2>4. /\ cache'[Reader] = cache[Reader]
        /\ common' \cup cache'[Worker] = common \cup cache[Worker] \cup {e}
        /\ common' \cap cache'[Worker] = {}
    BY <1>1, <2>1, TwoLcores, ReleaseStep
  <2> HIDE DEF e
  <2>5. /\ \A h \in (1 .. 8) \ {1, 3, 8} : (Held')[h] = Held[h]
        /\ (Held')[1] \cup (Held')[3] = Held[1] \cup Held[3] \cup {e}
        /\ (Held')[1] \cap (Held')[3] = {}
        /\ (Held')[8] = Held[8] \ {e} /\ e \in Held[8]
    BY <2>1, <2>2, <2>3, <2>4, Places, PlacesAfter
  <2>6. Partition(Held')
    <3>1. Held[8] \cap Held[1] = {} /\ Held[8] \cap Held[3] = {}
      BY <1>1 DEF Partition
    <3>2. /\ (Held')[1] \cap (Held')[8] = {} /\ (Held')[3] \cap (Held')[8] = {}
          /\ (Held')[1] \cup (Held')[3] \cup (Held')[8]
               = Held[1] \cup Held[3] \cup Held[8]
      BY <2>5, <3>1
    <3>3. Exchange(8, Held, Held', 1, 3, 8)
      BY <2>5, <3>2 DEF Exchange
    <3> QED BY <1>1, <3>3, Redistribute
  <2> QED BY <1>1, <2>1, <2>2, <2>3, <2>6
<1>11. CASE \/ Terminate \/ BringUpFails \/ BringUp \/ Launch \/ LaunchFails
            \/ WaitLcore \/ ReaderCheck \/ EndOfBurst \/ ReturnBurst
            \/ WorkerCheck \/ UNCHANGED vars
  BY <1>3, <1>11
  DEF Terminate, BringUpFails, BringUp, Launch, LaunchFails, WaitLcore,
      ReaderCheck, EndOfBurst, ReturnBurst, WorkerCheck, vars
<1> QED
  BY <1>4, <1>5, <1>6, <1>7, <1>8, <1>9, <1>10, <1>11
  DEF Next, ReaderStep, WorkerStep, Terminated

-----------------------------------------------------------------------------
(* How many mbufs the caches and the receive queue hold.                   *)

(* No cache outgrows its threshold.                                        *)
LEMMA CachesNext ==
  ASSUME Typed, OneOwner, CachesBounded, [Next]_vars
  PROVE  CachesBounded'
<1>1. PoolTypeOK /\ rx_packets \in [Lcores -> Seq(Mbufs)] /\ BurstsMatch
  BY DEF Typed, PipelineTypeOK
<1>2. CASE \E l \in Lcores, m \in Mbufs : Alloc(l, m)
  BY <1>1, <1>2, AllocKeepsBound DEF Alloc
<1>3. CASE EnqueueFails
  <2>1. Release(Reader) /\ rx_packets[Reader] # <<>>
    BY <1>1, <1>3 DEF EnqueueFails, BurstsMatch
  <2>2. Head(rx_packets[Reader]) \in Mbufs
    BY <1>1, <2>1, TwoLcores, TailSeq
  <2> QED BY <1>1, <2>1, <2>2, TwoLcores, FreeKeepsBound DEF Release, Free
<1>4. CASE Process
  <2>1. Release(Worker) /\ rx_packets[Worker] # <<>>
    BY <1>1, <1>4 DEF Process, BurstsMatch
  <2>2. Head(rx_packets[Worker]) \in Mbufs
    BY <1>1, <2>1, TwoLcores, TailSeq
  <2> QED BY <1>1, <2>1, <2>2, TwoLcores, FreeKeepsBound DEF Release, Free
<1>5. CASE UNCHANGED cache
  BY <1>5 DEF CachesBounded, FlushThresh
<1>6. CASE TakePacket
  BY <1>2, <1>5, <1>6, TwoLcores DEF TakePacket, poolVars
<1>7. CASE SetupRxQueue \/ Refill
  BY <1>2, <1>7, TwoLcores DEF SetupRxQueue, Refill
<1>8. \/ UNCHANGED cache \/ EnqueueFails \/ Process
      \/ TakePacket \/ SetupRxQueue \/ Refill
  BY Zenon
  DEF Next, ReaderStep, WorkerStep, Terminated, Terminate, Receive, BringUp,
      BringUpFails, Launch, LaunchFails, WaitLcore, ReaderCheck, EndOfBurst,
      ReturnBurst, Enqueue, WorkerCheck, Dequeue, vars
<1> QED BY <1>3, <1>4, <1>5, <1>6, <1>7, <1>8

(* The receive queue is empty when main starts, and so are the caches.     *)
LEMMA QueueInit == Init => CachesBounded /\ QueueFits
<1> SUFFICES ASSUME Init PROVE CachesBounded /\ QueueFits
  OBVIOUS
<1>1. /\ posted = {} /\ filled = <<>> /\ \A l \in Lcores : cache[l] = {}
      /\ Cardinality({}) = 0 /\ Len(<<>>) = 0
  BY EmptySeq, FS_EmptySet DEF Init, PoolInit
<1>2. CachesBounded
  <2>1. FlushThresh \in Nat /\ \A l \in Lcores : Cardinality(cache[l]) = 0
    BY <1>1, ThresholdIsLarge
  <2> QED BY <2>1 DEF CachesBounded
<1>3. QueueFits
  BY <1>1, PipelineAssumption DEF QueueFits
<1> QED BY <1>2, <1>3

(* The port has not been started while the receive queue is set up.        *)
LEMMA QueueIsSetUpFirst ==
  ASSUME BringUpTypeOK, CallsMadeInOrder, todo # <<>>, Head(todo) = "rxq"
  PROVE  ~Made("start")
<1>1. Precedes(CallsOf(tutorial), "rxq", "start")
  BY CallsAreDistinct DEF BringUpTypeOK, Ordered
<1> QED BY <1>1, NotMadeYet

(* A call once made stays made.                                            *)
LEMMA MadeStays ==
  ASSUME Typed, BringUpTypeOK, EalFollowsMain, [Next]_vars, Made("start")
  PROVE  Made("start")'
<1>1. CallsMadeInOrder
  BY DEF EalFollowsMain
<1>2. CASE \E call : Succeeds(call)
  BY <1>1, <1>2, CallIsMade
<1>3. CASE UNCHANGED <<todo, tutorial>>
  BY <1>3 DEF Made
<1>4. BringUp => \E call : Succeeds(call)
  BY DEF BringUp, CallSucceeds, RxQueueIsSetUp, StartEal, DetectPorts,
         FindPortByName, ReadDeviceInfo, CheckCapability, CreatePool, Configure,
         OtherCall
<1>5. BringUpFails \/ LaunchFails \/ WaitLcore => UNCHANGED <<todo, tutorial>>
  BY DEF BringUpFails, CallFails, LaunchFails, WaitLcore, CleanUpEal
<1>6. UNCHANGED bringUpVars => UNCHANGED <<todo, tutorial>>
  BY DEF bringUpVars
<1> QED BY <1>2, <1>3, <1>4, <1>5, <1>6, BringUpLeftAlone

(* The receive queue holds no more mbufs than it has descriptors: a packet *)
(* taken out of it leaves its descriptor to one mbuf at most.              *)
LEMMA QueueNext ==
  ASSUME Typed, BringUpTypeOK, EalFollowsMain, OneOwner, QueueFits, [Next]_vars
  PROVE  QueueFits'
<1>1. /\ posted \in SUBSET Mbufs /\ IsFiniteSet(posted)
      /\ filled \in Seq(Mbufs) /\ Len(filled) \in Nat
      /\ RxDescs \in Nat /\ Cardinality(posted) \in Nat
      /\ Cardinality(posted) + Len(filled) <= RxDescs
      /\ ~Made("start") => filled = <<>>
  <2>1. posted \in SUBSET Mbufs /\ filled \in Seq(Mbufs)
    BY DEF Typed, PipelineTypeOK
  <2>2. IsFiniteSet(posted)
    BY <2>1, MempoolAssumption, PartIsSmall
  <2> QED BY <2>1, <2>2, PipelineAssumption, FS_CardinalityType DEF QueueFits
<1>2. ASSUME NEW m
      PROVE  /\ Cardinality(posted \cup {m}) \in Nat
             /\ Cardinality(posted \cup {m}) <= Cardinality(posted) + 1
             /\ m \in posted => Cardinality(posted \ {m}) = Cardinality(posted) - 1
  <2>1. /\ Cardinality(posted \cup {m}) <= Cardinality(posted) + 1
        /\ m \in posted => Cardinality(posted \ {m}) = Cardinality(posted) - 1
        /\ m \notin posted =>
             Cardinality(posted \cup {m}) = Cardinality(posted) + 1
    BY <1>1, OneMoreOneLess
  <2>2. m \in posted => posted \cup {m} = posted
    OBVIOUS
  <2>3. Cardinality(posted \cup {m}) \in Nat
    <3>1. CASE m \in posted
      BY ONLY <1>1, <2>2, <3>1
    <3>2. CASE m \notin posted
      <4>1. Cardinality(posted \cup {m}) = Cardinality(posted) + 1
        BY <2>1, <3>2
      <4> QED BY ONLY <1>1, <4>1
    <3> QED BY <3>1, <3>2
  <2> QED BY <2>1, <2>3
<1>3. ~Made("start")' => ~Made("start")
  BY MadeStays
<1>4. CASE Receive
  <2>1. PICK m \in posted : posted' = posted \ {m} /\ filled' = Append(filled, m)
    BY <1>4 DEF Receive
  <2>2. Len(filled') = Len(filled) + 1
    BY <1>1, <2>1
  <2>3. Made("start")'
    BY <1>3, <1>4 DEF Receive
  <2>4. Cardinality(posted') = Cardinality(posted) - 1
    BY <1>2, <2>1
  <2> QED BY <1>1, <2>2, <2>3, <2>4 DEF QueueFits
<1>5. CASE SetupRxQueue
  <2>1. PICK m \in Mbufs : posted' = posted \cup {m}
    BY <1>5 DEF SetupRxQueue
  <2>2. /\ Head(todo) = "rxq" /\ todo # <<>> /\ CallsMadeInOrder
        /\ Cardinality(posted) < RxDescs /\ filled' = filled
    BY <1>5 DEF SetupRxQueue, EalFollowsMain
  <2>3. filled = <<>> /\ Len(filled) = 0
    BY <1>1, <2>2, QueueIsSetUpFirst
  <2>4. Cardinality(posted') <= Cardinality(posted) + 1 /\ Cardinality(posted') \in Nat
    BY <1>2, <2>1
  <2> QED BY <1>1, <2>2, <2>3, <2>4 DEF QueueFits
<1>6. CASE TakePacket
  <2>1. filled # <<>> /\ filled' = Tail(filled)
    BY <1>6 DEF TakePacket, CanTakePacket
  <2>2. Len(filled') = Len(filled) - 1
    BY <1>1, <2>1
  <2>3. \/ posted' = posted \/ \E m : posted' = posted \cup {m}
    BY <1>6 DEF TakePacket
  <2>4. Cardinality(posted') <= Cardinality(posted) + 1 /\ Cardinality(posted') \in Nat
    <3>1. CASE posted' = posted
      <4>1. Cardinality(posted') = Cardinality(posted)
        BY <3>1
      <4> QED BY <1>1, <4>1
    <3>2. CASE \E m : posted' = posted \cup {m}
      BY <1>2, <3>2
    <3> QED BY <2>3, <3>1, <3>2
  <2>5. Made("start")'
    BY <1>1, <1>3, <2>1
  <2> QED BY <1>1, <2>2, <2>4, <2>5 DEF QueueFits
<1>7. CASE Refill
  <2>1. PICK m \in Mbufs : posted' = posted \cup {m}
    BY <1>7 DEF Refill
  <2>2. Cardinality(posted) + Len(filled) < RxDescs /\ filled' = filled
    BY <1>7 DEF Refill, CanRefill
  <2>3. Cardinality(posted') <= Cardinality(posted) + 1 /\ Cardinality(posted') \in Nat
    BY <1>2, <2>1
  <2> QED BY <1>1, <1>3, <2>2, <2>3 DEF QueueFits
<1>8. CASE UNCHANGED <<posted, filled>>
  BY <1>1, <1>3, <1>8 DEF QueueFits
<1>9. \/ UNCHANGED <<posted, filled>> \/ Receive \/ SetupRxQueue \/ TakePacket
      \/ Refill
  BY Zenon
  DEF Next, ReaderStep, WorkerStep, Terminated, Terminate, BringUp, nicVars,
      BringUpFails, Launch, LaunchFails, WaitLcore, ReaderCheck, EndOfBurst,
      ReturnBurst, Enqueue, EnqueueFails, WorkerCheck, Dequeue, Process, vars
<1> QED BY <1>4, <1>5, <1>6, <1>7, <1>8, <1>9

(* The reader still holds the packet it enqueues: with the mbufs in the    *)
(* ring that makes one more than the ring holds, and no more than exist.   *)
LEMMA RingHasRoom ==
  ASSUME IInv, PoolFitsRing, pc[Reader] = "enqueue"
  PROVE  ~RingFull
<1> DEFINE e == Head(rx_packets[Reader])
           t == Append(ring_buffer, e)
<1>1. /\ rx_packets[Reader] \in Seq(Mbufs) /\ rx_packets[Reader] # <<>>
      /\ ring_buffer \in Seq(Mbufs) /\ IsInjective(ring_buffer)
  BY TwoLcores DEF IInv, TypeOK, PipelineTypeOK, BurstsMatch, OneOwner
<1>2. e \in Mbufs /\ e \in Range(rx_packets[Reader])
  BY <1>1, TailSeq
<1>3. e \notin Range(ring_buffer)
  <2>1. Held[6] \cap Held[7] = {}
    BY DEF IInv, OneOwner, Partition
  <2> QED BY <1>2, <2>1, Places
<1>4. t \in Seq(Mbufs) /\ Len(t) = Len(ring_buffer) + 1 /\ IsInjective(t)
  BY <1>1, <1>2, <1>3, AppendSeq
<1> HIDE DEF t
<1>5. Len(t) <= Cardinality(Mbufs)
  BY <1>4, MempoolAssumption, InjectiveIsShort
<1>6. Cardinality(Mbufs) \in Nat /\ Len(ring_buffer) \in Nat
  BY <1>1, MempoolAssumption, FS_CardinalityType
<1> QED BY <1>4, <1>5, <1>6, PipelineAssumption DEF PoolFitsRing, RingFull

-----------------------------------------------------------------------------
(* The packets under way.                                                  *)

(* The mbufs under way are those in the four places between the wire and   *)
(* the worker.                                                             *)
LEMMA WayTyped ==
  ASSUME Typed
  PROVE  /\ rx_packets[Worker] \in Seq(Mbufs) /\ ring_buffer \in Seq(Mbufs)
         /\ rx_packets[Reader] \in Seq(Mbufs) /\ filled \in Seq(Mbufs)
         /\ UnderWay \in Seq(Mbufs)
         /\ Len(UnderWay) = Len(rx_packets[Worker]) + Len(ring_buffer)
                              + Len(rx_packets[Reader]) + Len(filled)
         /\ Range(UnderWay) = Range(rx_packets[Worker]) \cup Range(ring_buffer)
                                \cup Range(rx_packets[Reader]) \cup Range(filled)
<1> DEFINE w == rx_packets[Worker]
           r == ring_buffer
           d == rx_packets[Reader]
           f == filled
<1>1. w \in Seq(Mbufs) /\ r \in Seq(Mbufs) /\ d \in Seq(Mbufs) /\ f \in Seq(Mbufs)
  BY TwoLcores DEF Typed, PipelineTypeOK
<1>2. UnderWay = ((w \o r) \o d) \o f
  BY DEF UnderWay
<1>3. \A s, t \in Seq(Mbufs) :
        /\ s \o t \in Seq(Mbufs) /\ Len(s \o t) = Len(s) + Len(t)
        /\ Range(s \o t) = Range(s) \cup Range(t)
  BY ConcatProperties, RangeConcatenation
<1> HIDE DEF w, r, d, f
<1> DEFINE u == w \o r
           v == u \o d
<1>4. /\ u \in Seq(Mbufs) /\ Len(u) = Len(w) + Len(r)
      /\ Range(u) = Range(w) \cup Range(r)
  BY <1>1, <1>3
<1> HIDE DEF u
<1>5. /\ v \in Seq(Mbufs) /\ Len(v) = Len(u) + Len(d)
      /\ Range(v) = Range(u) \cup Range(d)
  BY <1>1, <1>3, <1>4
<1> HIDE DEF v
<1>6. /\ v \o f \in Seq(Mbufs) /\ Len(v \o f) = Len(v) + Len(f)
      /\ Range(v \o f) = Range(v) \cup Range(f)
  BY <1>1, <1>3, <1>5
<1>7. UnderWay = v \o f
  BY <1>2 DEF u, v
<1>8. /\ UnderWay \in Seq(Mbufs)
      /\ Len(UnderWay) = Len(w) + Len(r) + Len(d) + Len(f)
      /\ Range(UnderWay) = Range(w) \cup Range(r) \cup Range(d) \cup Range(f)
  BY <1>4, <1>5, <1>6, <1>7
<1> QED BY <1>1, <1>8 DEF w, r, d, f

(* A packet joins the others under way, in an mbuf none of them is in.     *)
WayGrows ==
  /\ arrived < MaxArrivals
  /\ \E m \in Mbufs :
       /\ m \notin Range(UnderWay)
       /\ UnderWay' = Append(UnderWay, m)
       /\ data' = [data EXCEPT ![m] = arrived + 1]
  /\ arrived' = arrived + 1
  /\ UNCHANGED <<lastSeen, total_rx_packets, dropped>>

(* The worker takes the oldest.                                            *)
WayShrinks ==
  /\ UnderWay # <<>>
  /\ UnderWay' = Tail(UnderWay)
  /\ lastSeen' = data[Head(UnderWay)]
  /\ total_rx_packets' = total_rx_packets + 1
  /\ UNCHANGED <<data, arrived, dropped>>

(* The reader drops one, while there are more than the ring has slots.     *)
WayLoses ==
  /\ Len(UnderWay) > RingCapacity
  /\ \E k \in 1 .. Len(UnderWay) : UnderWay' = CutOut(UnderWay, k)
  /\ dropped' = dropped + 1
  /\ UNCHANGED <<data, arrived, lastSeen, total_rx_packets>>

WayKept == UNCHANGED <<UnderWay, data, arrived, lastSeen, total_rx_packets, dropped>>

(* The port writes the packet behind all others.                           *)
LEMMA ReceiveOnWay ==
  ASSUME Typed, OneOwner, Receive
  PROVE  WayGrows
<1>1. PICK m \in posted :
        /\ posted' = posted \ {m} /\ filled' = Append(filled, m)
        /\ data' = [data EXCEPT ![m] = arrived + 1]
  BY DEF Receive
<1>2. m \in Mbufs
  BY DEF Typed, PipelineTypeOK
<1>3. m \notin Range(UnderWay)
  <2>1. /\ Held[4] \cap Held[5] = {} /\ Held[4] \cap Held[6] = {}
        /\ Held[4] \cap Held[7] = {} /\ Held[4] \cap Held[8] = {}
    BY DEF OneOwner, Partition
  <2> QED BY <2>1, Places, WayTyped
<1>4. UnderWay' = Append(UnderWay, m)
  <2> DEFINE s == rx_packets[Worker] \o ring_buffer \o rx_packets[Reader]
  <2>1. s \in Seq(Mbufs) /\ filled \in Seq(Mbufs)
    <3>1. /\ rx_packets[Worker] \in Seq(Mbufs) /\ ring_buffer \in Seq(Mbufs)
          /\ rx_packets[Reader] \in Seq(Mbufs) /\ filled \in Seq(Mbufs)
      BY WayTyped
    <3> QED BY <3>1, ConcatProperties
  <2>2. UnderWay = s \o filled /\ UnderWay' = s \o filled'
    BY DEF UnderWay, Receive
  <2> HIDE DEF s
  <2> QED BY <1>1, <1>2, <2>1, <2>2, AppendToBoth
<1> QED BY <1>1, <1>2, <1>3, <1>4 DEF WayGrows, Receive, workVars

(* The worker reads the packet in front of all others.                     *)
LEMMA ProcessOnWay ==
  ASSUME Typed, Process
  PROVE  WayShrinks
<1> DEFINE w == rx_packets[Worker]
           r == ring_buffer
           d == rx_packets[Reader]
           f == filled
<1>1. /\ w \in Seq(Mbufs) /\ r \in Seq(Mbufs) /\ d \in Seq(Mbufs) /\ f \in Seq(Mbufs)
      /\ w # <<>>
  BY WayTyped DEF Process, Typed, BurstsMatch
<1>2. /\ rx_packets'[Worker] = Tail(w) /\ rx_packets'[Reader] = d
      /\ ring_buffer' = r /\ filled' = f
  BY <1>1, TwoLcores, NextOfBurstStep DEF Process, nicVars, Typed
<1>3. /\ UnderWay = ((w \o r) \o d) \o f
      /\ UnderWay' = ((Tail(w) \o r) \o d) \o f
  BY <1>2 DEF UnderWay
<1>4. lastSeen' = data[Head(w)]
  BY DEF Process
<1> HIDE DEF w, r, d, f
<1>5. /\ w \o r \in Seq(Mbufs) /\ w \o r # <<>>
      /\ Head(w \o r) = Head(w) /\ Tail(w \o r) = Tail(w) \o r
  BY <1>1, HeadOfBoth, ConcatProperties
<1>6. /\ (w \o r) \o d \in Seq(Mbufs) /\ (w \o r) \o d # <<>>
      /\ Head((w \o r) \o d) = Head(w \o r)
      /\ Tail((w \o r) \o d) = Tail(w \o r) \o d
  BY <1>1, <1>5, HeadOfBoth, ConcatProperties
<1>7. /\ ((w \o r) \o d) \o f # <<>>
      /\ Head(((w \o r) \o d) \o f) = Head((w \o r) \o d)
      /\ Tail(((w \o r) \o d) \o f) = Tail((w \o r) \o d) \o f
  BY <1>1, <1>6, HeadOfBoth
<1> QED BY <1>3, <1>4, <1>5, <1>6, <1>7 DEF WayShrinks, Process, nicVars

(* What the reader drops comes right after the mbufs in the full ring.     *)
LEMMA EnqueueFailsOnWay ==
  ASSUME Typed, EnqueueFails
  PROVE  WayLoses
<1> DEFINE p == rx_packets[Worker] \o ring_buffer
           d == rx_packets[Reader]
           f == filled
<1>1. /\ d \in Seq(Mbufs) /\ f \in Seq(Mbufs) /\ d # <<>>
      /\ p \in Seq(Mbufs) /\ Len(p) >= RingCapacity /\ Len(p) \in Nat
  <2>1. /\ rx_packets[Worker] \in Seq(Mbufs) /\ ring_buffer \in Seq(Mbufs)
        /\ d \in Seq(Mbufs) /\ f \in Seq(Mbufs) /\ d # <<>>
        /\ Len(ring_buffer) >= RingCapacity
    BY WayTyped DEF EnqueueFails, RingFull, Typed, BurstsMatch
  <2>2. p \in Seq(Mbufs) /\ Len(p) = Len(rx_packets[Worker]) + Len(ring_buffer)
    BY <2>1, ConcatProperties
  <2>3. Len(rx_packets[Worker]) \in Nat /\ Len(ring_buffer) \in Nat
    BY <2>1
  <2> QED BY <2>1, <2>2, <2>3, PipelineAssumption
<1>2. /\ rx_packets'[Reader] = Tail(d) /\ rx_packets'[Worker] = rx_packets[Worker]
      /\ ring_buffer' = ring_buffer /\ filled' = f
  BY <1>1, TwoLcores, NextOfBurstStep DEF EnqueueFails, nicVars, Typed
<1>3. UnderWay = (p \o d) \o f /\ UnderWay' = (p \o Tail(d)) \o f
  BY <1>2 DEF UnderWay
<1> HIDE DEF p, d, f
<1>4. /\ d \o f \in Seq(Mbufs) /\ d \o f # <<>> /\ Tail(d \o f) = Tail(d) \o f
      /\ Tail(d) \in Seq(Mbufs)
  BY <1>1, HeadOfBoth, ConcatProperties, TailSeq
<1>5. (p \o d) \o f = p \o (d \o f) /\ (p \o Tail(d)) \o f = p \o (Tail(d) \o f)
  <2>1. \A s, t, u \in Seq(Mbufs) : (s \o t) \o u = s \o (t \o u)
    BY ConcatAssociative
  <2> QED BY ONLY <1>1, <1>4, <2>1
<1>6. /\ Len(p) + 1 \in 1 .. Len(p \o (d \o f))
      /\ p \o Tail(d \o f) = CutOut(p \o (d \o f), Len(p) + 1)
  BY <1>1, <1>4, HeadOfSecondCutOut
<1>7. Len(UnderWay) > RingCapacity
  <2>1. Len(UnderWay) \in Nat /\ Len(UnderWay) >= Len(p) + 1
    BY <1>1, <1>3, <1>5, <1>6, WayTyped
  <2> QED BY <1>1, <2>1, PipelineAssumption
<1> QED BY <1>3, <1>4, <1>5, <1>6, <1>7 DEF WayLoses, EnqueueFails, nicVars, workVars

(* A packet the reader takes out of the descriptors, or puts into the      *)
(* ring, or the worker takes out of it, keeps its turn.                    *)
LEMMA MoveOnWay ==
  ASSUME Typed, TakePacket \/ Enqueue \/ Dequeue
  PROVE  WayKept
<1> DEFINE w == rx_packets[Worker]
           r == ring_buffer
           d == rx_packets[Reader]
           f == filled
<1>1. w \in Seq(Mbufs) /\ r \in Seq(Mbufs) /\ d \in Seq(Mbufs) /\ f \in Seq(Mbufs)
  BY WayTyped
<1>2. UnderWay = ((w \o r) \o d) \o f /\ w \o r \in Seq(Mbufs)
  BY <1>1, ConcatProperties DEF UnderWay
<1>3. CASE TakePacket
  <2>1. /\ f # <<>> /\ filled' = Tail(f) /\ ring_buffer' = r
        /\ rx_packets' = [rx_packets EXCEPT ![Reader] = Append(d, Head(f))]
    BY <1>3 DEF TakePacket, CanTakePacket
  <2>2. rx_packets'[Reader] = Append(d, Head(f)) /\ rx_packets'[Worker] = w
    BY <2>1, TwoLcores DEF Typed, PipelineTypeOK
  <2>3. UnderWay' = ((w \o r) \o Append(d, Head(f))) \o Tail(f)
    BY <2>1, <2>2 DEF UnderWay
  <2> HIDE DEF w, r, d, f
  <2>4. Head(f) \in Mbufs
    BY <1>1, <2>1, TailSeq
  <2>5. (w \o r) \o Append(d, Head(f)) = Append((w \o r) \o d, Head(f))
    BY <1>1, <1>2, <2>4, AppendToBoth
  <2>6. (w \o r) \o d \in Seq(Mbufs)
    BY <1>1, <1>2, ConcatProperties
  <2>7. Append((w \o r) \o d, Head(f)) \o Tail(f) = ((w \o r) \o d) \o f
    BY <1>1, <2>1, <2>6, HeadChangesSides
  <2>8. UnderWay' = UnderWay
    BY <1>2, <2>3, <2>5, <2>7
  <2> QED BY <1>3, <2>8 DEF WayKept, TakePacket, workVars
<1>4. CASE Enqueue
  <2>1. /\ d # <<>> /\ NextOfBurst(Reader)
        /\ ring_buffer' = Append(r, Head(d)) /\ filled' = f
    BY <1>4 DEF Enqueue, RingWith, Typed, BurstsMatch, nicVars
  <2>2. rx_packets'[Reader] = Tail(d) /\ rx_packets'[Worker] = w
    BY <2>1, TwoLcores, NextOfBurstStep DEF Typed
  <2>3. UnderWay' = ((w \o Append(r, Head(d))) \o Tail(d)) \o f
    BY <2>1, <2>2 DEF UnderWay
  <2> HIDE DEF w, r, d, f
  <2>4. Head(d) \in Mbufs
    BY <1>1, <2>1, TailSeq
  <2>5. w \o Append(r, Head(d)) = Append(w \o r, Head(d))
    BY <1>1, <2>4, AppendToBoth
  <2>6. Append(w \o r, Head(d)) \o Tail(d) = (w \o r) \o d
    BY <1>1, <1>2, <2>1, HeadChangesSides
  <2>7. UnderWay' = UnderWay
    BY <1>2, <2>3, <2>5, <2>6
  <2> QED BY <1>4, <2>7 DEF WayKept, Enqueue, nicVars, workVars
<1>5. CASE Dequeue
  <2> DEFINE a == SubSeq(r, 1, BurstLen)
             b == SubSeq(r, BurstLen + 1, Len(r))
  <2>1. /\ w = <<>> /\ ring_buffer' = b /\ filled' = f
        /\ rx_packets' = [rx_packets EXCEPT ![Worker] = a]
    BY <1>5 DEF Dequeue, Rest, Typed, BurstsMatch, nicVars
  <2>2. rx_packets'[Worker] = a /\ rx_packets'[Reader] = d
    BY <2>1, TwoLcores DEF Typed, PipelineTypeOK
  <2>3. UnderWay' = ((a \o b) \o d) \o f
    BY <2>1, <2>2 DEF UnderWay
  <2>4. BurstLen \in 0 .. Len(r)
    BY <1>1, PipelineAssumption DEF BurstLen
  <2>5. a \o b = r /\ w \o r = r
    BY <1>1, <2>1, <2>4, CutAndJoined, ConcatEmptySeq
  <2>6. UnderWay' = UnderWay
    BY <1>2, <2>3, <2>5
  <2> QED BY <1>5, <2>6 DEF WayKept, Dequeue, nicVars, workVars
<1> QED BY <1>3, <1>4, <1>5

(* No step does anything else to the packets under way.                    *)
LEMMA WayStep ==
  ASSUME Typed, OneOwner, [Next]_vars
  PROVE  WayGrows \/ WayShrinks \/ WayLoses \/ WayKept
<1>1. CASE \/ Terminate \/ SetupRxQueue \/ BringUp \/ BringUpFails \/ Launch
           \/ LaunchFails \/ WaitLcore \/ ReaderCheck \/ EndOfBurst \/ Refill
           \/ ReturnBurst \/ WorkerCheck \/ UNCHANGED vars
  <2>1. UNCHANGED <<rx_packets, ring_buffer, filled, data, arrived, lastSeen,
                    total_rx_packets, dropped>>
    BY <1>1, Zenon
    DEF Terminate, SetupRxQueue, BringUp, BringUpFails, Launch, LaunchFails,
        WaitLcore, ReaderCheck, EndOfBurst, Refill, ReturnBurst, WorkerCheck,
        vars, nicVars, workVars
  <2> QED BY <2>1 DEF WayKept, UnderWay
<1> QED
  BY <1>1, ReceiveOnWay, ProcessOnWay, EnqueueFailsOnWay, MoveOnWay
  DEF Next, ReaderStep, WorkerStep, Terminated

(* The numbers of the packets in a sequence of mbufs.                      *)
NumbersOf(f, u) == [i \in 1 .. Len(u) |-> f[u[i]]]

(* They are a sequence of numbers, as long as that of the mbufs.           *)
LEMMA NumbersAreSeq ==
  ASSUME NEW u \in Seq(Mbufs), NEW f \in [Mbufs -> Nat]
  PROVE  /\ NumbersOf(f, u) \in Seq(Nat) /\ Len(NumbersOf(f, u)) = Len(u)
         /\ \A i \in 1 .. Len(u) : NumbersOf(f, u)[i] = f[u[i]]
<1>1. Len(u) \in Nat /\ \A i \in 1 .. Len(u) : u[i] \in Mbufs
  OBVIOUS
<1>2. NumbersOf(f, u) \in [1 .. Len(u) -> Nat]
  BY <1>1 DEF NumbersOf
<1>3. NumbersOf(f, u) \in Seq(Nat) /\ Len(NumbersOf(f, u)) = Len(u)
  BY <1>1, <1>2, FunctionIsSeq
<1> QED BY <1>3 DEF NumbersOf

(* How they change when a packet is written to an mbuf behind the others ...*)
LEMMA NumbersGrow ==
  ASSUME NEW u \in Seq(Mbufs), NEW f \in [Mbufs -> Nat],
         NEW m \in Mbufs, m \notin Range(u), NEW n \in Nat
  PROVE  NumbersOf([f EXCEPT ![m] = n], Append(u, m)) = Append(NumbersOf(f, u), n)
<1> DEFINE g == [f EXCEPT ![m] = n]
           v == Append(u, m)
           s == NumbersOf(f, u)
           t == NumbersOf(g, v)
<1>1. /\ g \in [Mbufs -> Nat] /\ g[m] = n
      /\ \A x \in Mbufs : x # m => g[x] = f[x]
  OBVIOUS
<1>2. /\ v \in Seq(Mbufs) /\ Len(u) \in Nat /\ Len(v) = Len(u) + 1
      /\ v[Len(u) + 1] = m
      /\ \A i \in 1 .. Len(u) : v[i] = u[i] /\ u[i] \in Mbufs
  OBVIOUS
<1>3. \A i \in 1 .. Len(u) : u[i] # m
  BY RangeElement
<1> HIDE DEF g, v
<1>4. /\ s \in Seq(Nat) /\ Len(s) = Len(u)
      /\ \A i \in 1 .. Len(u) : s[i] = f[u[i]]
  BY NumbersAreSeq
<1>5. /\ t \in Seq(Nat) /\ Len(t) = Len(v)
      /\ \A i \in 1 .. Len(v) : t[i] = g[v[i]]
  BY <1>1, <1>2, NumbersAreSeq
<1> HIDE DEF s, t
<1>6. /\ Append(s, n) \in Seq(Nat) /\ Len(Append(s, n)) = Len(s) + 1
      /\ Append(s, n)[Len(s) + 1] = n
      /\ \A i \in 1 .. Len(s) : Append(s, n)[i] = s[i]
  BY <1>4
<1>7. ASSUME NEW i \in 1 .. Len(t)
      PROVE  t[i] = Append(s, n)[i]
  <2>1. CASE i = Len(u) + 1
    BY <1>1, <1>2, <1>4, <1>5, <1>6, <2>1
  <2>2. CASE i # Len(u) + 1
    <3>1. i \in 1 .. Len(u) /\ i \in 1 .. Len(v) /\ i \in 1 .. Len(s)
      BY <1>2, <1>4, <1>5, <2>2
    <3>2. u[i] \in Mbufs /\ u[i] # m /\ v[i] = u[i]
      BY <1>2, <1>3, <3>1
    <3> QED BY <1>1, <1>4, <1>5, <1>6, <3>1, <3>2
  <2> QED BY <2>1, <2>2
<1>8. Len(t) = Len(Append(s, n))
  BY <1>2, <1>4, <1>5, <1>6
<1>9. t = Append(s, n)
  BY <1>5, <1>6, <1>7, <1>8, SeqEqual
<1> QED BY <1>9 DEF g, v, s, t

(* ... when the oldest leaves ...                                          *)
LEMMA NumbersShrink ==
  ASSUME NEW u \in Seq(Mbufs), NEW f \in [Mbufs -> Nat], u # <<>>
  PROVE  /\ NumbersOf(f, u) # <<>> /\ Head(NumbersOf(f, u)) = f[Head(u)]
         /\ NumbersOf(f, Tail(u)) = Tail(NumbersOf(f, u))
<1> DEFINE v == Tail(u)
           s == NumbersOf(f, u)
           t == NumbersOf(f, v)
<1>1. /\ v \in Seq(Mbufs) /\ Len(u) \in Nat \ {0} /\ Len(v) = Len(u) - 1
      /\ \A i \in 1 .. Len(v) : v[i] = u[i + 1]
      /\ Head(u) = u[1]
  OBVIOUS
<1> HIDE DEF v
<1>2. /\ s \in Seq(Nat) /\ Len(s) = Len(u)
      /\ \A i \in 1 .. Len(u) : s[i] = f[u[i]]
  BY NumbersAreSeq
<1>3. /\ t \in Seq(Nat) /\ Len(t) = Len(v)
      /\ \A i \in 1 .. Len(v) : t[i] = f[v[i]]
  BY <1>1, NumbersAreSeq
<1> HIDE DEF s, t
<1>4. /\ s # <<>> /\ Head(s) = s[1] /\ Tail(s) \in Seq(Nat)
      /\ Len(Tail(s)) = Len(s) - 1
      /\ \A i \in 1 .. Len(s) - 1 : Tail(s)[i] = s[i + 1]
  BY <1>1, <1>2
<1>5. ASSUME NEW i \in 1 .. Len(t) PROVE t[i] = Tail(s)[i]
  <2>1. /\ i \in 1 .. Len(v) /\ i \in 1 .. Len(s) - 1 /\ i + 1 \in 1 .. Len(u)
    BY <1>1, <1>2, <1>3
  <2>2. /\ t[i] = f[v[i]] /\ v[i] = u[i + 1] /\ s[i + 1] = f[u[i + 1]]
        /\ Tail(s)[i] = s[i + 1]
    BY <1>1, <1>2, <1>3, <1>4, <2>1
  <2> QED BY ONLY <2>2
<1>6. Len(t) = Len(Tail(s))
  BY <1>1, <1>2, <1>3, <1>4
<1>7. t = Tail(s)
  BY <1>3, <1>4, <1>5, <1>6, SeqEqual
<1>8. Head(s) = f[Head(u)]
  BY <1>1, <1>2, <1>4
<1> QED BY <1>4, <1>7, <1>8 DEF v, s, t

(* ... and when one is dropped.                                            *)
LEMMA NumbersLose ==
  ASSUME NEW u \in Seq(Mbufs), NEW f \in [Mbufs -> Nat], NEW k \in 1 .. Len(u)
  PROVE  NumbersOf(f, CutOut(u, k)) = CutOut(NumbersOf(f, u), k)
<1> DEFINE v == CutOut(u, k)
           s == NumbersOf(f, u)
           t == NumbersOf(f, v)
           c == CutOut(s, k)
<1>1. /\ v \in Seq(Mbufs) /\ Len(u) \in Nat /\ Len(v) = Len(u) - 1
      /\ \A i \in 1 .. Len(u) - 1 : v[i] = IF i < k THEN u[i] ELSE u[i + 1]
  BY CutOutOne
<1> HIDE DEF v
<1>2. /\ s \in Seq(Nat) /\ Len(s) = Len(u)
      /\ \A i \in 1 .. Len(u) : s[i] = f[u[i]]
  BY NumbersAreSeq
<1>3. /\ t \in Seq(Nat) /\ Len(t) = Len(v)
      /\ \A i \in 1 .. Len(v) : t[i] = f[v[i]]
  BY <1>1, NumbersAreSeq
<1> HIDE DEF s, t
<1>4. /\ c \in Seq(Nat) /\ Len(c) = Len(s) - 1
      /\ \A i \in 1 .. Len(s) - 1 : c[i] = IF i < k THEN s[i] ELSE s[i + 1]
  BY <1>2, CutOutOne
<1> HIDE DEF c
<1>5. ASSUME NEW i \in 1 .. Len(t) PROVE t[i] = c[i]
  <2>1. /\ i \in 1 .. Len(v) /\ i \in 1 .. Len(u) - 1 /\ i \in 1 .. Len(s) - 1
        /\ i \in 1 .. Len(u) /\ i + 1 \in 1 .. Len(u)
    BY <1>1, <1>2, <1>3
  <2>2. t[i] = f[v[i]] /\ s[i] = f[u[i]] /\ s[i + 1] = f[u[i + 1]]
    BY <1>2, <1>3, <2>1
  <2>3. /\ v[i] = IF i < k THEN u[i] ELSE u[i + 1]
        /\ c[i] = IF i < k THEN s[i] ELSE s[i + 1]
    BY <1>1, <1>4, <2>1
  <2> QED BY ONLY <2>2, <2>3
<1>6. Len(t) = Len(c)
  BY <1>1, <1>2, <1>3, <1>4
<1>7. t = c
  BY <1>3, <1>4, <1>5, <1>6, SeqEqual
<1> QED BY <1>7 DEF v, s, t, c

(* Numbers ascend from above low to high at most.                          *)
Ascends(s, low, high) ==
  /\ \A i, j \in 1 .. Len(s) : i < j => s[i] < s[j]
  /\ \A i \in 1 .. Len(s) : low < s[i] /\ s[i] <= high

(* They go on doing so with the next number behind them, without the first *)
(* and without any other.                                                  *)
LEMMA AscendingGrows ==
  ASSUME NEW s \in Seq(Nat), NEW low \in Nat, NEW high \in Nat,
         low <= high, Ascends(s, low, high)
  PROVE  Ascends(Append(s, high + 1), low, high + 1)
<1> DEFINE t == Append(s, high + 1)
<1>1. /\ Len(s) \in Nat /\ Len(t) = Len(s) + 1 /\ t[Len(s) + 1] = high + 1
      /\ \A i \in 1 .. Len(s) : t[i] = s[i] /\ s[i] \in Nat
  OBVIOUS
<1> HIDE DEF t
<1>2. ASSUME NEW i \in 1 .. Len(t)
      PROVE  low < t[i] /\ t[i] <= high + 1
  <2>1. CASE i = Len(s) + 1
    BY <1>1, <2>1
  <2>2. CASE i # Len(s) + 1
    <3>1. i \in 1 .. Len(s)
      BY <1>1, <2>2
    <3>2. low < s[i] /\ s[i] <= high /\ s[i] \in Nat /\ t[i] = s[i]
      BY <1>1, <3>1 DEF Ascends
    <3> QED BY <3>2
  <2> QED BY <2>1, <2>2
<1>3. ASSUME NEW i \in 1 .. Len(t), NEW j \in 1 .. Len(t), i < j
      PROVE  t[i] < t[j]
  <2>1. i \in 1 .. Len(s) /\ t[i] = s[i] /\ s[i] \in Nat
    BY <1>1, <1>3
  <2>2. CASE j = Len(s) + 1
    <3>1. s[i] <= high /\ t[j] = high + 1
      BY <1>1, <2>1, <2>2 DEF Ascends
    <3> QED BY <2>1, <3>1
  <2>3. CASE j # Len(s) + 1
    <3>1. j \in 1 .. Len(s) /\ t[j] = s[j]
      BY <1>1, <2>3
    <3> QED BY <1>3, <2>1, <3>1 DEF Ascends
  <2> QED BY <2>2, <2>3
<1> QED BY <1>2, <1>3 DEF Ascends, t

(* Without its head the sequence ascends from the head on.                 *)
LEMMA AscendingShrinks ==
  ASSUME NEW s \in Seq(Nat), NEW low, NEW high, s # <<>>, Ascends(s, low, high)
  PROVE  Ascends(Tail(s), Head(s), high) /\ Head(s) \in Nat /\ Head(s) <= high
<1>1. /\ Len(s) \in Nat \ {0} /\ Len(Tail(s)) = Len(s) - 1
      /\ Head(s) = s[1] /\ s[1] \in Nat
      /\ \A i \in 1 .. Len(s) - 1 : Tail(s)[i] = s[i + 1]
  OBVIOUS
<1>2. 1 \in 1 .. Len(s) /\ \A i \in 1 .. Len(s) - 1 : i + 1 \in 1 .. Len(s) /\ 1 < i + 1
  BY <1>1
<1> QED BY <1>1, <1>2 DEF Ascends

(* Without any of its elements the sequence still ascends.                 *)
LEMMA AscendingLoses ==
  ASSUME NEW s \in Seq(Nat), NEW low, NEW high, NEW k \in 1 .. Len(s),
         Ascends(s, low, high)
  PROVE  Ascends(CutOut(s, k), low, high)
<1> DEFINE c == CutOut(s, k)
<1>1. /\ Len(s) \in Nat /\ Len(c) = Len(s) - 1
      /\ \A i \in 1 .. Len(s) - 1 : c[i] = IF i < k THEN s[i] ELSE s[i + 1]
  BY CutOutOne
<1> HIDE DEF c
<1>2. ASSUME NEW i \in 1 .. Len(c)
      PROVE  \E x \in 1 .. Len(s) : c[i] = s[x] /\ x = IF i < k THEN i ELSE i + 1
  BY <1>1
<1>3. ASSUME NEW i \in 1 .. Len(c), NEW j \in 1 .. Len(c), i < j
      PROVE  c[i] < c[j]
  <2>1. PICK x \in 1 .. Len(s) : c[i] = s[x] /\ x = IF i < k THEN i ELSE i + 1
    BY <1>2
  <2>2. PICK y \in 1 .. Len(s) : c[j] = s[y] /\ y = IF j < k THEN j ELSE j + 1
    BY <1>2
  <2>3. x < y
    BY <1>1, <1>3, <2>1, <2>2
  <2> QED BY <2>1, <2>2, <2>3 DEF Ascends
<1>4. \A i \in 1 .. Len(c) : low < c[i] /\ c[i] <= high
  BY <1>2 DEF Ascends
<1> QED BY <1>3, <1>4 DEF Ascends, c

-----------------------------------------------------------------------------
(* The theorems.                                                           *)

(* The inductive invariant holds in every reachable state.                 *)
THEOREM Inductive == Spec => []IInv
<1>1. Init => IInv
  BY TypedInit, BringUpBegins, OwnerInit, QueueInit DEF Typed, IInv, TypeOK
<1>2. IInv /\ [Next]_vars => IInv'
  <2> SUFFICES ASSUME IInv, [Next]_vars PROVE IInv'
    OBVIOUS
  <2>1. Typed /\ BringUpTypeOK /\ EalFollowsMain /\ OneOwner
    BY DEF IInv, Typed, TypeOK
  <2>2. Typed' /\ OneOwner'
    BY <2>1, TypedNext, OwnerNext
  <2>3. BringUpTypeOK' /\ EalFollowsMain'
    BY <2>1, BringUpGoesOn
  <2>4. CachesBounded' /\ QueueFits'
    BY <2>1, CachesNext, QueueNext DEF IInv
  <2> QED BY <2>2, <2>3, <2>4 DEF IInv, Typed, TypeOK
<1> QED BY <1>1, <1>2, PTL DEF Spec

(* Type correctness: no rx_packets array is ever written past its end, the *)
(* ring never holds more than it has slots for (main.cpp:43, 79, 259).     *)
THEOREM TypeCorrect == Spec => []TypeOK
<1>1. IInv => TypeOK
  BY DEF IInv
<1> QED BY <1>1, Inductive, PTL

(* Every mbuf has exactly one owner at any time: none is leaked, freed     *)
(* twice or used after it was freed (main.cpp:67, 98).                     *)
THEOREM Ownership == Spec => []OneOwner
<1>1. IInv => OneOwner
  BY DEF IInv
<1> QED BY <1>1, Inductive, PTL

(* The program ends, and cleans up, only when the worker is done and no    *)
(* routine holds a packet; it ends without cleaning up only when there are *)
(* too few lcores (main.cpp:162, 279-282).                                 *)
THEOREM CleanupLast == Spec => []CleanupIsLast
<1>1. IInv => CleanupIsLast
  <2> SUFFICES ASSUME IInv, pc[Reader] = "exited"
               PROVE  /\ pc[Worker] \in {"idle", "finished"}
                      /\ \A l \in Lcores : rx_packets[l] = <<>>
    BY DEF CleanupIsLast, IInv, EalFollowsMain
  <2>1. pc[Worker] \in {"idle", "finished"} /\ pc[Worker] # "process"
    BY DEF IInv, WorkerInsideMain
  <2>2. rx_packets[Reader] = <<>> /\ rx_packets[Worker] = <<>>
    BY <2>1 DEF IInv, BurstsMatch
  <2> QED BY <2>1, <2>2, TwoLcores
<1> QED BY <1>1, Inductive, PTL

(* With a pool no larger than the ring, as in the tutorial, the reader     *)
(* never finds the ring full and drops no packet (main.cpp:95).            *)
THEOREM NoDrop == Spec => []NoDropWhenPoolFits
<1>1. Init => NoDropWhenPoolFits
  BY DEF Init, NoDropWhenPoolFits
<1>2. IInv /\ NoDropWhenPoolFits /\ [Next]_vars => NoDropWhenPoolFits'
  <2> SUFFICES ASSUME IInv, NoDropWhenPoolFits, [Next]_vars, PoolFitsRing
               PROVE  dropped' = 0
    BY DEF NoDropWhenPoolFits, PoolFitsRing
  <2>1. dropped = 0
    BY DEF NoDropWhenPoolFits
  <2>2. ~EnqueueFails
    BY RingHasRoom DEF EnqueueFails
  <2>3. dropped' = dropped
    BY <2>2
    DEF vars, Next, ReaderStep, WorkerStep, Terminated, Terminate, Receive,
        SetupRxQueue, BringUpFails, BringUp, Launch, LaunchFails,
        WaitLcore, ReaderCheck, TakePacket, EndOfBurst, Refill, ReturnBurst,
        Enqueue, WorkerCheck, Dequeue, Process
  <2> QED BY <2>1, <2>3
<1> QED BY <1>1, <1>2, Inductive, PTL DEF Spec

-----------------------------------------------------------------------------
(* The packets on their way.                                               *)

(* The types of the packets under way and of their numbers.                *)
LEMMA NumbersTyped ==
  ASSUME Typed
  PROVE  /\ UnderWay \in Seq(Mbufs) /\ data \in [Mbufs -> Nat]
         /\ arrived \in Nat /\ lastSeen \in Nat
         /\ total_rx_packets \in Nat /\ dropped \in Nat
         /\ NumbersOf(data, UnderWay) \in Seq(Nat)
         /\ Len(NumbersOf(data, UnderWay)) = Len(UnderWay)
<1>1. UnderWay \in Seq(Mbufs)
  BY WayTyped
<1>2. /\ data \in [Mbufs -> Nat] /\ arrived \in Nat /\ lastSeen \in Nat
      /\ total_rx_packets \in Nat /\ dropped \in Nat
  BY PipelineAssumption DEF Typed, PipelineTypeOK
<1> QED BY <1>1, <1>2, NumbersAreSeq

(* Nothing is under way when main starts.                                  *)
LEMMA WayInit ==
  ASSUME Init
  PROVE  UnderWay = <<>> /\ NumbersOf(data, UnderWay) = <<>>
<1>1. /\ rx_packets[Worker] = <<>> /\ rx_packets[Reader] = <<>>
      /\ ring_buffer = <<>> /\ filled = <<>>
  BY TwoLcores DEF Init
<1>2. Typed
  BY TypedInit
<1>3. Len(<<>>) = 0
  BY EmptySeq
<1>4. UnderWay \in Seq(Mbufs) /\ Len(UnderWay) = 0
  BY <1>1, <1>2, <1>3, WayTyped
<1>5. /\ NumbersOf(data, UnderWay) \in Seq(Nat)
      /\ Len(NumbersOf(data, UnderWay)) = 0
  BY <1>2, <1>4, NumbersTyped
<1> QED BY <1>4, <1>5, EmptySeq

(* The numbers of the packets ascend, from above that of the packet last   *)
(* seen to that of the one that arrived last.                              *)
NumbersAscend ==
  Ascends(NumbersOf(data, UnderWay), lastSeen, arrived) /\ lastSeen <= arrived

(* That is what InOrder says.                                              *)
LEMMA NumbersAscendMeans ==
  ASSUME Typed, NumbersAscend
  PROVE  InOrder
<1> DEFINE u == UnderWay
           s == NumbersOf(data, u)
<1>1. /\ u \in Seq(Mbufs) /\ data \in [Mbufs -> Nat]
  BY NumbersTyped
<1>2. DOMAIN u = 1 .. Len(u)
  BY <1>1
<1>3. Len(s) = Len(u) /\ \A i \in 1 .. Len(u) : s[i] = data[u[i]]
  BY <1>1, NumbersAreSeq
<1>4. Ascends(s, lastSeen, arrived)
  BY DEF NumbersAscend
<1> HIDE DEF u, s
<1>5. /\ \A i, j \in DOMAIN u : i < j => data[u[i]] < data[u[j]]
      /\ \A i \in DOMAIN u : lastSeen < data[u[i]] /\ data[u[i]] <= arrived
  BY <1>2, <1>3, <1>4 DEF Ascends
<1> QED BY <1>5 DEF InOrder, u

(* A packet that arrives has the highest number, the one that is processed *)
(* the lowest; to drop one disturbs no other.                              *)
LEMMA NumbersAscendNext ==
  ASSUME Typed, OneOwner, NumbersAscend, [Next]_vars
  PROVE  NumbersAscend'
<1> DEFINE u == UnderWay
           s == NumbersOf(data, u)
<1>1. /\ u \in Seq(Mbufs) /\ data \in [Mbufs -> Nat]
      /\ arrived \in Nat /\ lastSeen \in Nat /\ s \in Seq(Nat) /\ Len(s) = Len(u)
  BY NumbersTyped
<1>2. Ascends(s, lastSeen, arrived) /\ lastSeen <= arrived
  BY DEF NumbersAscend
<1>3. SUFFICES /\ Ascends(NumbersOf(data', UnderWay'), lastSeen', arrived')
               /\ lastSeen' <= arrived'
  BY DEF NumbersAscend, NumbersOf
<1>4. CASE WayGrows
  <2>1. PICK m \in Mbufs :
          /\ m \notin Range(u) /\ UnderWay' = Append(u, m)
          /\ data' = [data EXCEPT ![m] = arrived + 1]
    BY <1>4 DEF WayGrows
  <2>2. arrived' = arrived + 1 /\ lastSeen' = lastSeen
    BY <1>4 DEF WayGrows
  <2> HIDE DEF u
  <2>3. NumbersOf(data', UnderWay') = Append(s, arrived + 1)
    <3>1. arrived + 1 \in Nat
      BY <1>1
    <3>2. NumbersOf([data EXCEPT ![m] = arrived + 1], Append(u, m))
            = Append(s, arrived + 1)
      BY <1>1, <2>1, <3>1, NumbersGrow
    <3> QED BY <2>1, <3>2
  <2> HIDE DEF s
  <2>4. Ascends(Append(s, arrived + 1), lastSeen, arrived + 1)
    BY <1>1, <1>2, AscendingGrows
  <2>5. lastSeen <= arrived + 1
    BY <1>1, <1>2
  <2> QED BY <2>2, <2>3, <2>4, <2>5
<1>5. CASE WayShrinks
  <2>1. /\ u # <<>> /\ UnderWay' = Tail(u) /\ lastSeen' = data[Head(u)]
        /\ data' = data /\ arrived' = arrived
    BY <1>5 DEF WayShrinks
  <2> HIDE DEF u
  <2>2. /\ s # <<>> /\ Head(s) = data[Head(u)]
        /\ NumbersOf(data, Tail(u)) = Tail(s)
    BY <1>1, <2>1, NumbersShrink
  <2> HIDE DEF s
  <2>3. Ascends(Tail(s), Head(s), arrived) /\ Head(s) <= arrived
    BY <1>1, <1>2, <2>2, AscendingShrinks
  <2> QED BY <2>1, <2>2, <2>3
<1>6. CASE WayLoses
  <2>1. PICK k \in 1 .. Len(u) : UnderWay' = CutOut(u, k)
    BY <1>6 DEF WayLoses
  <2>2. data' = data /\ arrived' = arrived /\ lastSeen' = lastSeen
    BY <1>6 DEF WayLoses
  <2> HIDE DEF u
  <2>3. NumbersOf(data, CutOut(u, k)) = CutOut(s, k)
    BY <1>1, NumbersLose
  <2> HIDE DEF s
  <2>4. Ascends(CutOut(s, k), lastSeen, arrived)
    BY <1>1, <1>2, AscendingLoses
  <2> QED BY <1>2, <2>1, <2>2, <2>3, <2>4
<1>7. CASE WayKept
  BY <1>2, <1>7 DEF WayKept
<1> QED BY <1>4, <1>5, <1>6, <1>7, WayStep

(* The packets under way are in the order of their arrival, and the worker *)
(* has seen none of them nor a later one: no packet overtakes another or   *)
(* is read twice, and no buffer is written before it is read               *)
(* (main.cpp:55, 95).                                                      *)
THEOREM WayInOrder == Spec => []InOrder
<1>1. Init => NumbersAscend
  <2> SUFFICES ASSUME Init PROVE NumbersAscend
    OBVIOUS
  <2>1. lastSeen = 0 /\ arrived = 0
    BY DEF Init
  <2>2. Ascends(<<>>, lastSeen, arrived)
    BY EmptySeq DEF Ascends
  <2> QED BY <2>1, <2>2, WayInit DEF NumbersAscend
<1>2. IInv /\ NumbersAscend /\ [Next]_vars => NumbersAscend'
  BY NumbersAscendNext DEF IInv, Typed, TypeOK
<1>3. IInv /\ NumbersAscend => InOrder
  BY NumbersAscendMeans DEF IInv, Typed, TypeOK
<1> QED BY <1>1, <1>2, <1>3, Inductive, PTL DEF Spec

(* Every packet received is under way until the worker counts it or the    *)
(* reader drops it (main.cpp:64, 95).                                      *)
THEOREM WayAccounted == Spec => []Accounting
<1>1. Init => Accounting
  <2> SUFFICES ASSUME Init PROVE Accounting
    OBVIOUS
  <2>1. Len(UnderWay) = 0
    BY WayInit, EmptySeq
  <2> QED BY <2>1 DEF Init, Accounting
<1>2. IInv /\ Accounting /\ [Next]_vars => Accounting'
  <2> SUFFICES ASSUME IInv, Accounting, [Next]_vars PROVE Accounting'
    OBVIOUS
  <2> DEFINE u == UnderWay
  <2>1. Typed /\ OneOwner
    BY DEF IInv, Typed, TypeOK
  <2>2. /\ u \in Seq(Mbufs) /\ Len(u) \in Nat /\ arrived \in Nat
        /\ total_rx_packets \in Nat /\ dropped \in Nat
    BY <2>1, NumbersTyped
  <2>3. arrived = total_rx_packets + dropped + Len(u)
    BY DEF Accounting
  <2>4. CASE WayGrows
    <3>1. PICK m \in Mbufs : UnderWay' = Append(u, m)
      BY <2>4 DEF WayGrows
    <3> HIDE DEF u
    <3>2. Len(UnderWay') = Len(u) + 1
      BY <2>2, <3>1
    <3> QED BY <2>2, <2>3, <2>4, <3>2 DEF Accounting, WayGrows
  <2>5. CASE WayShrinks
    <3>1. u # <<>> /\ UnderWay' = Tail(u)
      BY <2>5 DEF WayShrinks
    <3> HIDE DEF u
    <3>2. Len(UnderWay') = Len(u) - 1
      BY <2>2, <3>1
    <3> QED BY <2>2, <2>3, <2>5, <3>2 DEF Accounting, WayShrinks
  <2>6. CASE WayLoses
    <3>1. PICK k \in 1 .. Len(u) : UnderWay' = CutOut(u, k)
      BY <2>6 DEF WayLoses
    <3> HIDE DEF u
    <3>2. Len(UnderWay') = Len(u) - 1
      BY <2>2, <3>1, CutOutOne
    <3> QED BY <2>2, <2>3, <2>6, <3>2 DEF Accounting, WayLoses
  <2>7. CASE WayKept
    BY <2>3, <2>7 DEF Accounting, WayKept
  <2> QED BY <2>1, <2>4, <2>5, <2>6, <2>7, WayStep
<1> QED BY <1>1, <1>2, Inductive, PTL DEF Spec

(* The pipeline is a lossy channel that keeps the order: a packet arrives  *)
(* behind all others, is processed when it is the oldest, and is lost only *)
(* while more packets than the ring has slots are under way                *)
(* (README.md:8).                                                          *)
THEOREM ChannelRefined == Spec => ImplementsChannel
<1> DEFINE u == UnderWay
           s == NumbersOf(data, u)
<1>1. Init => Channel!Init
  <2> SUFFICES ASSUME Init PROVE Channel!Init
    OBVIOUS
  <2>1. s = <<>> /\ arrived = 0 /\ lastSeen = 0
    BY WayInit DEF Init
  <2> QED BY <2>1 DEF Channel!Init, NumbersOf
<1>2. IInv /\ [Next]_vars => [Channel!Next]_(Channel!chanVars)
  <2> SUFFICES ASSUME IInv, [Next]_vars
               PROVE  Channel!Next \/ UNCHANGED Channel!chanVars
    OBVIOUS
  <2>1. Typed /\ OneOwner
    BY DEF IInv, Typed, TypeOK
  <2>2. /\ u \in Seq(Mbufs) /\ data \in [Mbufs -> Nat] /\ arrived \in Nat
        /\ s \in Seq(Nat) /\ Len(s) = Len(u)
    BY <2>1, NumbersTyped
  <2>3. CASE WayGrows
    <3>1. PICK m \in Mbufs :
            /\ m \notin Range(u) /\ UnderWay' = Append(u, m)
            /\ data' = [data EXCEPT ![m] = arrived + 1]
      BY <2>3 DEF WayGrows
    <3>2. arrived + 1 \in Nat
      BY <2>2
    <3>3. NumbersOf([data EXCEPT ![m] = arrived + 1], Append(u, m))
            = Append(s, arrived + 1)
      BY <2>2, <3>1, <3>2, NumbersGrow
    <3>4. NumbersOf(data', UnderWay') = Append(s, arrived + 1)
      BY <3>1, <3>3
    <3>5. /\ arrived < MaxArrivals /\ arrived' = arrived + 1
          /\ lastSeen' = lastSeen
      BY <2>3 DEF WayGrows
    <3>6. Channel!Arrive
      BY <3>4, <3>5 DEF Channel!Arrive, NumbersOf
    <3> QED BY <3>6 DEF Channel!Next
  <2>4. CASE WayShrinks
    <3>1. /\ u # <<>> /\ UnderWay' = Tail(u) /\ lastSeen' = data[Head(u)]
          /\ data' = data /\ arrived' = arrived
      BY <2>4 DEF WayShrinks
    <3>2. /\ s # <<>> /\ Head(s) = data[Head(u)]
          /\ NumbersOf(data, Tail(u)) = Tail(s)
      BY <2>2, <3>1, NumbersShrink
    <3>3. NumbersOf(data', UnderWay') = Tail(s)
      BY <3>1, <3>2
    <3>4. Channel!Deliver
      BY <3>1, <3>2, <3>3 DEF Channel!Deliver, NumbersOf
    <3> QED BY <3>4 DEF Channel!Next
  <2>5. CASE WayLoses
    <3>1. PICK k \in 1 .. Len(u) : UnderWay' = CutOut(u, k)
      BY <2>5 DEF WayLoses
    <3>2. /\ data' = data /\ arrived' = arrived /\ lastSeen' = lastSeen
          /\ Len(u) > RingCapacity
      BY <2>5 DEF WayLoses
    <3>3. NumbersOf(data, CutOut(u, k)) = CutOut(s, k)
      BY <2>2, NumbersLose
    <3>4. NumbersOf(data', UnderWay') = CutOut(s, k) /\ k \in 1 .. Len(s)
      BY <2>2, <3>1, <3>2, <3>3
    <3>5. Channel!Overflow
      BY <2>2, <3>2, <3>4
      DEF Channel!Overflow, Channel!Without, CutOut, NumbersOf
    <3> QED BY <3>5 DEF Channel!Next
  <2>6. CASE WayKept
    BY <2>6 DEF WayKept, Channel!chanVars
  <2> QED BY <2>1, <2>3, <2>4, <2>5, <2>6, WayStep
<1> QED BY <1>1, <1>2, Inductive, PTL DEF Spec, ImplementsChannel, Channel!Spec

(* With the sizes the tutorial chooses, the main lcore can get an mbuf for *)
(* the port once all packets received have been freed: too few mbufs for   *)
(* that to fail fit in the worker's cache (main.cpp:192, 220).             *)
THEOREM ReaderIsNotStarved == Spec => []ReaderNotStarved
<1>1. IInv => ReaderNotStarved
  <2> SUFFICES ASSUME IInv, PoolOutgrowsCache, Idle, ~CanAlloc(Reader)
               PROVE  FALSE
    BY DEF ReaderNotStarved
  <2> DEFINE inQueue == posted \cup Range(filled)
  <2>1. /\ common = {} /\ cache[Reader] = {}
        /\ rx_packets[Reader] = <<>> /\ ring_buffer = <<>>
        /\ rx_packets[Worker] = <<>>
    BY DEF CanAlloc, Reachable, Idle
  <2>2. /\ posted \in SUBSET Mbufs /\ filled \in Seq(Mbufs)
        /\ cache[Worker] \in SUBSET Mbufs
    BY TwoLcores DEF IInv, TypeOK, PipelineTypeOK, PoolTypeOK
  <2>3. Mbufs = cache[Worker] \cup inQueue
    <3>1. /\ Held[1] = {} /\ Held[2] = {} /\ Held[6] = {} /\ Held[7] = {}
          /\ Held[8] = {}
      BY <2>1, Places, NothingInEmptySeq
    <3>2. \A m \in Mbufs : m \in Held[3] \/ m \in Held[4] \/ m \in Held[5]
      BY <3>1 DEF IInv, OneOwner, Partition
    <3>3. Range(filled) \subseteq Mbufs
      BY <2>2, RangeInSet
    <3> QED BY <2>2, <3>2, <3>3, Places
  <2>4. /\ IsFiniteSet(cache[Worker]) /\ IsFiniteSet(posted)
        /\ IsFiniteSet(Range(filled))
        /\ Cardinality(Range(filled)) <= Len(filled) /\ Len(filled) \in Nat
    BY <2>2, MempoolAssumption, PartIsSmall, RangeIsSmall
  <2>5. /\ IsFiniteSet(inQueue)
        /\ Cardinality(inQueue) <= Cardinality(posted) + Cardinality(Range(filled))
        /\ Cardinality(inQueue) \in Nat /\ Cardinality(posted) \in Nat
        /\ Cardinality(Range(filled)) \in Nat
    BY <2>4, UnionIsSmall
  <2> HIDE DEF inQueue
  <2>6. /\ Cardinality(cache[Worker] \cup inQueue)
             <= Cardinality(cache[Worker]) + Cardinality(inQueue)
        /\ Cardinality(cache[Worker] \cup inQueue) \in Nat
        /\ Cardinality(cache[Worker]) \in Nat
    BY <2>4, <2>5, UnionIsSmall
  <2>7. /\ Cardinality(cache[Worker]) <= FlushThresh
        /\ Cardinality(posted) + Len(filled) <= RxDescs
    BY TwoLcores DEF IInv, CachesBounded, QueueFits
  <2>8. Cardinality(Mbufs) - RxDescs > FlushThresh
    BY DEF PoolOutgrowsCache
  <2>9. Cardinality(Mbufs) <= Cardinality(cache[Worker]) + Cardinality(inQueue)
    BY <2>3, <2>6
  <2>10. Cardinality(Mbufs) \in Nat /\ FlushThresh \in Nat /\ RxDescs \in Nat
    BY MempoolAssumption, FS_CardinalityType, ThresholdIsLarge, PipelineAssumption
  <2> QED BY <2>4, <2>5, <2>6, <2>7, <2>8, <2>9, <2>10
<1> QED BY <1>1, Inductive, PTL

=============================================================================
