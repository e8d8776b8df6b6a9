--------------------------- MODULE PacketPipeline ---------------------------
(***************************************************************************)
(* Tutorial 3, processing-a-packet.  The main lcore (Reader) polls the     *)
(* ethernet port and puts every packet into a single-producer              *)
(* single-consumer ring; a second lcore (Worker) takes packets out of the  *)
(* ring, looks at them and returns their buffers to the pool.  A signal    *)
(* sets exit_indicator, which both routines test at the top of their loop. *)
(*                                                                         *)
(* The lcore of the second routine is launched last, after the calls of    *)
(* PortBringUp.                                                            *)
(***************************************************************************)
EXTENDS Mempool, PortBringUp, Functions

CONSTANTS
  Reader, Worker,   \* logicalCores[0] (main) and logicalCores[1]
  RxDescs,          \* receive descriptors of the port's queue (256)
  BurstSize,        \* the length of both rx_packets arrays (32)
  RingCapacity,     \* usable slots of the ring (1024 - 1)
  RefillFirst,      \* does the port's driver give a descriptor a new mbuf
                    \* before it hands over the received one?
  MaxArrivals       \* bound on the packets that arrive, for model checking

ASSUME PipelineAssumption ==
  /\ Reader # Worker
  /\ Lcores = {Reader, Worker}
  /\ RxDescs \in Nat \ {0}
  /\ BurstSize \in 1 .. 255        \* rx_count is a uint8_t
  /\ RingCapacity \in Nat \ {0}
  /\ RefillFirst \in BOOLEAN
  /\ MaxArrivals \in Nat

VARIABLES
  exit_indicator,   \* set by the signal handler
  posted,           \* empty mbufs in the descriptors of the receive queue
  filled,           \* mbufs holding received packets in the queue, in order
  data,             \* the number of the packet an mbuf holds
  arrived,          \* how many packets the port has received
  ring_buffer,      \* the ring, oldest mbuf first
  rx_packets,       \* what each routine still has to handle of its burst
  dropped,          \* packets freed because the ring was full
  total_rx_packets, \* the worker's count of packets
  lastSeen,         \* the number of the packet the worker saw last
  pc                \* where each lcore is

nicVars == <<posted, filled, data, arrived>>
workVars == <<total_rx_packets, lastSeen>>
vars == <<common, cache, tutorial, todo, eal, port_known, memory_pool, capa,
          offloads, exit_indicator, posted, filled, data, arrived,
          ring_buffer, rx_packets, dropped, total_rx_packets, lastSeen, pc>>

ReaderLabels ==
  {"setup", "launch", "check", "rx", "refill", "enqueue", "wait", "exited"}
WorkerLabels == {"idle", "check", "dequeue", "process", "finished"}

Init ==
  /\ tutorial = 3
  /\ PoolInit /\ BringUpInit
  /\ exit_indicator = FALSE
  /\ posted = {}
  /\ filled = <<>>
  /\ data = [m \in Mbufs |-> 0]
  /\ arrived = 0
  /\ ring_buffer = <<>>
  /\ rx_packets = [l \in Lcores |-> <<>>]
  /\ dropped = 0
  /\ total_rx_packets = 0
  /\ lastSeen = 0
  /\ pc = [l \in Lcores |-> IF l = Reader THEN "setup" ELSE "idle"]

(* while (!exit_indicator), at the top of both routines.                   *)
KeepPolling_Always == TRUE                                   \* faulty variant
KeepPolling == ~exit_indicator

(* What the main lcore waits for in rte_eal_wait_lcore.                    *)
WorkerJoined_NoWait == TRUE                                  \* faulty variant
WorkerJoined == pc[Worker] = "finished"

Goto(l, label) == pc' = [pc EXCEPT ![l] = label]

(* Every packet between the wire and the worker, oldest first.             *)
UnderWay == rx_packets[Worker] \o ring_buffer \o rx_packets[Reader] \o filled

-----------------------------------------------------------------------------
(* The environment: signals and the wire.                                  *)

(* SIGINT or SIGTERM.                                                      *)
Terminate ==
  /\ pc[Reader] # "exited"
  /\ exit_indicator' = TRUE
  /\ UNCHANGED <<bringUpVars, common, cache, nicVars, ring_buffer, rx_packets,
                 dropped, workVars, pc>>

(* The port writes a packet into an empty descriptor of the running queue. *)
(* A packet that finds none is lost on the wire and leaves no trace here.  *)
Receive ==
  /\ Made("start") /\ pc[Reader] # "exited"
  /\ arrived < MaxArrivals
  /\ \E m \in posted :
       /\ posted' = posted \ {m}
       /\ filled' = Append(filled, m)
       /\ data' = [data EXCEPT ![m] = arrived + 1]
  /\ arrived' = arrived + 1
  /\ UNCHANGED <<bringUpVars, common, cache, exit_indicator, ring_buffer,
                 rx_packets, dropped, workVars, pc>>

-----------------------------------------------------------------------------
(* main, before and after its polling loop.                                *)

(* rte_eth_rx_queue_setup gives every descriptor an mbuf.                  *)
SetupRxQueue ==
  /\ pc[Reader] = "setup"
  /\ Head(todo) = "rxq" /\ memory_pool
  /\ Cardinality(posted) < RxDescs
  /\ \E m \in Mbufs : Alloc(Reader, m) /\ posted' = posted \cup {m}
  /\ UNCHANGED <<bringUpVars, exit_indicator, filled, data, arrived,
                 ring_buffer, rx_packets, dropped, workVars, pc>>

BringUp ==
  /\ pc[Reader] = "setup"
  /\ CallSucceeds \/ (RxQueueIsSetUp /\ Cardinality(posted) = RxDescs)
  /\ Goto(Reader, IF todo' = <<>> THEN "launch" ELSE "setup")
  /\ UNCHANGED <<common, cache, exit_indicator, nicVars, ring_buffer,
                 rx_packets, dropped, workVars>>

BringUpFails ==
  /\ pc[Reader] = "setup"
  /\ CallFails
  /\ Goto(Reader, "exited")
  /\ UNCHANGED <<common, cache, exit_indicator, nicVars, ring_buffer,
                 rx_packets, dropped, workVars>>

Launch ==
  /\ pc[Reader] = "launch"
  /\ pc' = [l \in Lcores |-> "check"]
  /\ UNCHANGED <<bringUpVars, common, cache, exit_indicator, nicVars,
                 ring_buffer, rx_packets, dropped, workVars>>

LaunchFails ==
  /\ pc[Reader] = "launch"
  /\ CleanUpEal
  /\ Goto(Reader, "exited")
  /\ UNCHANGED <<common, cache, exit_indicator, nicVars, ring_buffer,
                 rx_packets, dropped, workVars>>

(* rte_eal_wait_lcore, then rte_eal_cleanup and the end of the program.    *)
WaitLcore ==
  /\ pc[Reader] = "wait"
  /\ WorkerJoined
  /\ CleanUpEal
  /\ Goto(Reader, "exited")
  /\ UNCHANGED <<common, cache, exit_indicator, nicVars, ring_buffer,
                 rx_packets, dropped, workVars>>

-----------------------------------------------------------------------------
(* read_packets_from_interface, on the main lcore.                         *)

ReaderCheck ==
  /\ pc[Reader] = "check"
  /\ Goto(Reader, IF KeepPolling THEN "rx" ELSE "wait")
  /\ UNCHANGED <<bringUpVars, common, cache, exit_indicator, nicVars,
                 ring_buffer, rx_packets, dropped, workVars>>

(* rte_eth_rx_burst takes packet after packet out of the descriptors.  A   *)
(* driver that refills first stops when it gets no replacement mbuf.       *)
CanTakePacket ==
  /\ Len(rx_packets[Reader]) < BurstSize
  /\ filled # <<>>
  /\ RefillFirst => CanAlloc(Reader)

TakePacket ==
  /\ pc[Reader] = "rx"
  /\ CanTakePacket
  /\ IF RefillFirst
       THEN \E m \in Mbufs : Alloc(Reader, m) /\ posted' = posted \cup {m}
       ELSE UNCHANGED <<poolVars, posted>>
  /\ rx_packets' = [rx_packets EXCEPT ![Reader] = Append(@, Head(filled))]
  /\ filled' = Tail(filled)
  /\ UNCHANGED <<bringUpVars, exit_indicator, data, arrived, ring_buffer,
                 dropped, workVars, pc>>

EndOfBurst ==
  /\ pc[Reader] = "rx"
  /\ ~CanTakePacket
  /\ Goto(Reader, "refill")
  /\ UNCHANGED <<bringUpVars, common, cache, exit_indicator, nicVars,
                 ring_buffer, rx_packets, dropped, workVars>>

(* Before it returns, the driver fills what empty descriptors it can.      *)
CanRefill ==
  Cardinality(posted) + Len(filled) < RxDescs /\ CanAlloc(Reader)

Refill ==
  /\ pc[Reader] = "refill"
  /\ CanRefill
  /\ \E m \in Mbufs : Alloc(Reader, m) /\ posted' = posted \cup {m}
  /\ UNCHANGED <<bringUpVars, exit_indicator, filled, data, arrived,
                 ring_buffer, rx_packets, dropped, workVars, pc>>

ReturnBurst ==
  /\ pc[Reader] = "refill"
  /\ ~CanRefill
  /\ Goto(Reader, IF rx_packets[Reader] = <<>> THEN "check" ELSE "enqueue")
  /\ UNCHANGED <<bringUpVars, common, cache, exit_indicator, nicVars,
                 ring_buffer, rx_packets, dropped, workVars>>

(* A lcore is done with the packet at the head of its burst and goes on    *)
(* with the next one, or returns to the top of its loop.                   *)
NextOfBurst(l) ==
  /\ rx_packets' = [rx_packets EXCEPT ![l] = Tail(@)]
  /\ IF Len(rx_packets[l]) = 1 THEN Goto(l, "check") ELSE UNCHANGED pc

(* The packet at the head of a burst goes back to the pool.                *)
Release_Never(l) == UNCHANGED poolVars                       \* faulty variant
Release(l) == Free(l, Head(rx_packets[l]))

RingFull == Len(ring_buffer) >= RingCapacity

RingWith_InFront(m) == <<m>> \o ring_buffer                  \* faulty variant
RingWith(m) == Append(ring_buffer, m)

Enqueue ==
  /\ pc[Reader] = "enqueue"
  /\ ~RingFull
  /\ ring_buffer' = RingWith(Head(rx_packets[Reader]))
  /\ NextOfBurst(Reader)
  /\ UNCHANGED <<bringUpVars, common, cache, exit_indicator, nicVars, dropped,
                 workVars>>

(* The ring has no room: the packet is freed.                              *)
EnqueueFails ==
  /\ pc[Reader] = "enqueue"
  /\ RingFull
  /\ Release(Reader)
  /\ dropped' = dropped + 1
  /\ NextOfBurst(Reader)
  /\ UNCHANGED <<bringUpVars, exit_indicator, nicVars, ring_buffer, workVars>>

-----------------------------------------------------------------------------
(* process_packets, on the second lcore.                                   *)

WorkerCheck ==
  /\ pc[Worker] = "check"
  /\ Goto(Worker, IF KeepPolling THEN "dequeue" ELSE "finished")
  /\ UNCHANGED <<bringUpVars, common, cache, exit_indicator, nicVars,
                 ring_buffer, rx_packets, dropped, workVars>>

(* How many packets rte_ring_dequeue_burst takes, and what it leaves.      *)
BurstLen_Unbounded == Len(ring_buffer)                       \* faulty variant
BurstLen == IF Len(ring_buffer) < BurstSize THEN Len(ring_buffer) ELSE BurstSize

Rest_SkipOne == SubSeq(ring_buffer, BurstLen + 2, Len(ring_buffer))
                                                             \* faulty variant
Rest_Unmoved == ring_buffer                                  \* faulty variant
Rest == SubSeq(ring_buffer, BurstLen + 1, Len(ring_buffer))

Dequeue ==
  /\ pc[Worker] = "dequeue"
  /\ rx_packets' = [rx_packets EXCEPT
                      ![Worker] = SubSeq(ring_buffer, 1, BurstLen)]
  /\ ring_buffer' = Rest
  /\ Goto(Worker, IF BurstLen = 0 THEN "check" ELSE "process")
  /\ UNCHANGED <<bringUpVars, common, cache, exit_indicator, nicVars, dropped,
                 workVars>>

(* One turn of the for loop: count the packet, read it, free it.           *)
Process ==
  /\ pc[Worker] = "process"
  /\ total_rx_packets' = total_rx_packets + 1
  /\ lastSeen' = data[Head(rx_packets[Worker])]
  /\ Release(Worker)
  /\ NextOfBurst(Worker)
  /\ UNCHANGED <<bringUpVars, exit_indicator, nicVars, ring_buffer, dropped>>

-----------------------------------------------------------------------------
ReaderStep ==
  \/ SetupRxQueue \/ BringUp \/ BringUpFails \/ Launch \/ LaunchFails
  \/ ReaderCheck \/ TakePacket \/ EndOfBurst \/ Refill \/ ReturnBurst
  \/ Enqueue \/ EnqueueFails \/ WaitLcore

WorkerStep == WorkerCheck \/ Dequeue \/ Process

(* The program has ended.                                                  *)
Terminated == pc[Reader] = "exited" /\ UNCHANGED vars

Next == Terminate \/ Receive \/ ReaderStep \/ WorkerStep \/ Terminated

Spec == Init /\ [][Next]_vars

(* Each lcore is a core of its own on which its routine never blocks.      *)
FairSpec == Spec /\ WF_vars(ReaderStep) /\ WF_vars(WorkerStep)

-----------------------------------------------------------------------------
(* The variables of this module.                                           *)
PipelineTypeOK ==
  /\ PoolTypeOK
  /\ exit_indicator \in BOOLEAN
  /\ posted \in SUBSET Mbufs
  /\ filled \in Seq(Mbufs)
  /\ data \in [Mbufs -> Nat]
  /\ arrived \in 0 .. MaxArrivals
  /\ ring_buffer \in Seq(Mbufs)
  /\ Len(ring_buffer) <= RingCapacity
  /\ rx_packets \in [Lcores -> Seq(Mbufs)]
  /\ \A l \in Lcores : Len(rx_packets[l]) <= BurstSize
  /\ dropped \in Nat
  /\ total_rx_packets \in Nat
  /\ lastSeen \in Nat
  /\ pc \in [Lcores -> ReaderLabels \cup WorkerLabels]
  /\ pc[Reader] \in ReaderLabels
  /\ pc[Worker] \in WorkerLabels

(* Type correctness; a burst never outgrows the rx_packets array of either *)
(* routine (main.cpp:43, 79).                                              *)
TypeOK == PipelineTypeOK /\ BringUpTypeOK

(* The places an mbuf can be in.                                           *)
Held ==
  << common, cache[Reader], cache[Worker], posted, Range(filled),
     Range(rx_packets[Reader]), Range(ring_buffer),
     Range(rx_packets[Worker]) >>

Partition(places) ==
  /\ \A m \in Mbufs : \E h \in 1 .. 8 : m \in places[h]
  /\ \A g, h \in 1 .. 8 : g # h => places[g] \cap places[h] = {}

(* Every mbuf of the pool has exactly one owner at any time: one store of  *)
(* the pool, one descriptor of the port, one slot of the ring or one       *)
(* routine.  No call sequence of the two lcores leaks a buffer, frees one  *)
(* twice or leaves one reachable after it was freed (main.cpp:67, 98).     *)
OneOwner ==
  /\ Partition(Held)
  /\ IsInjective(filled)
  /\ IsInjective(ring_buffer)
  /\ \A l \in Lcores : IsInjective(rx_packets[l])

(* The packets under way hold, oldest first, ever later packets, all later *)
(* than the one the worker saw last: the way through the descriptors, the  *)
(* two bursts and the ring keeps the order of arrival, and no buffer is    *)
(* written again before the worker has read it (main.cpp:55, 95).          *)
InOrder ==
  /\ \A i, j \in DOMAIN UnderWay :
       i < j => data[UnderWay[i]] < data[UnderWay[j]]
  /\ \A i \in DOMAIN UnderWay :
       lastSeen < data[UnderWay[i]] /\ data[UnderWay[i]] <= arrived

(* Every packet received is counted by the worker, was dropped at the ring *)
(* or is under way.                                                        *)
Accounting == arrived = total_rx_packets + dropped + Len(UnderWay)

(* With a pool no larger than the ring, as in the tutorial (1023 mbufs and *)
(* 1023 slots), the ring is never full when the reader has a packet for    *)
(* it: the error branch of main.cpp:95 is never taken.                     *)
PoolFitsRing == Cardinality(Mbufs) <= RingCapacity
NoDropWhenPoolFits == PoolFitsRing => dropped = 0

(* Once everything that was received has been freed, the main lcore can    *)
(* get an mbuf for the port: the worker's cache cannot hold all the mbufs  *)
(* that are not in descriptors (main.cpp:192 and 220 choose the sizes).    *)
PoolOutgrowsCache == Cardinality(Mbufs) - RxDescs > FlushThresh
Idle ==
  /\ pc[Reader] \in {"check", "rx"}
  /\ rx_packets[Reader] = <<>> /\ ring_buffer = <<>> /\ rx_packets[Worker] = <<>>
ReaderNotStarved == PoolOutgrowsCache /\ Idle => CanAlloc(Reader)

(* rte_eal_cleanup runs, and the program ends, only after the worker has   *)
(* left the ring and the pool, with no packet in its hands and none in the *)
(* reader's; the EAL stays up only for want of a second lcore              *)
(* (main.cpp:162, 279-282).                                                *)
CleanupIsLast ==
  /\ eal = "cleaned" \/ pc[Reader] = "exited" =>
       /\ pc[Worker] \in {"idle", "finished"}
       /\ \A l \in Lcores : rx_packets[l] = <<>>
  /\ pc[Reader] = "exited" /\ eal = "up" => Head(todo) = "lcores"

(* A signal stops both routines and ends the program, whatever the traffic *)
(* (main.cpp:52, 83, 279).                                                 *)
SignalEndsProgram == exit_indicator ~> pc[Reader] = "exited"

PacketsUnderWay == {data[m] : m \in Range(UnderWay)}

(* Unless the program ends, every packet the port received is processed or *)
(* dropped at the full ring: it does not stay under way.                   *)
EveryPacketSettles ==
  \A p \in 1 .. MaxArrivals :
    p \in PacketsUnderWay ~>
      (p \notin PacketsUnderWay \/ exit_indicator \/ pc[Reader] = "exited")

(* The pipeline is the lossy ordered channel of PacketChannel.             *)
Channel ==
  INSTANCE PacketChannel WITH
    Capacity <- RingCapacity, MaxPackets <- MaxArrivals,
    sent <- arrived, processed <- lastSeen,
    inFlight <- [i \in 1 .. Len(UnderWay) |-> data[UnderWay[i]]]

ImplementsChannel == Channel!Spec

-----------------------------------------------------------------------------
(* What the type invariant and OneOwner need to be inductive: a routine    *)
(* has a packet in its hands just where the code handles one ...           *)
BurstsMatch ==
  /\ pc[Reader] = "enqueue" => rx_packets[Reader] # <<>>
  /\ pc[Reader] \notin {"rx", "refill", "enqueue"} => rx_packets[Reader] = <<>>
  /\ pc[Worker] = "process" <=> rx_packets[Worker] # <<>>

(* ... and the worker runs only between its launch and main's wait for it. *)
WorkerInsideMain ==
  /\ pc[Reader] \in {"setup", "launch"} => pc[Worker] = "idle"
  /\ pc[Reader] = "exited" => pc[Worker] \in {"idle", "finished"}

(* What CleanupIsLast needs of the bring-up: the EAL is up from main's     *)
(* first call to its last, and the calls are made in order.                *)
EalFollowsMain ==
  /\ tutorial = 3
  /\ EalIsFirst /\ CallsMadeInOrder /\ ResultsKept
  /\ pc[Reader] = "setup" => todo # <<>>
  /\ pc[Reader] \in {"setup", "exited"} \/ BroughtUp
  /\ pc[Reader] # "exited" => eal # "cleaned"
  /\ pc[Reader] = "exited" /\ eal = "up" => todo # <<>> /\ Head(todo) = "lcores"

(* What ReaderNotStarved needs of the receive queue: it never holds more   *)
(* mbufs than it has descriptors, and no packet before the port is started.*)
QueueFits ==
  /\ Cardinality(posted) + Len(filled) <= RxDescs
  /\ ~Made("start") => filled = <<>>

IInv ==
  /\ TypeOK /\ BurstsMatch /\ WorkerInsideMain /\ OneOwner /\ EalFollowsMain
  /\ CachesBounded /\ QueueFits

=============================================================================
