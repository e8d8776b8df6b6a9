------------------------- MODULE ReceiveSideScaling -------------------------
(***************************************************************************)
(* Tutorial 6, receive-side-scaling.  The port spreads the packets over    *)
(* two receive queues and two lcores run the same polling routine.  Which  *)
(* queue a lcore polls it reads, through a pointer, from main's local      *)
(* variable port_and_queue_id; main changes that variable between the      *)
(* launch of the second lcore and its own call of the routine.             *)
(*                                                                         *)
(* A receive queue may be polled by one lcore at a time only.  What a call *)
(* does that breaks this is undefined, and that lcore has no step after it.*)
(***************************************************************************)
EXTENDS Mempool, PortBringUp, Functions

CONSTANTS
  MainLcore, Worker,   \* logicalCores[0] and logicalCores[1]
  RxDescs,             \* receive descriptors of each queue (256)
  BurstSize,           \* the length of the rx_packets arrays (32)
  MaxArrivals          \* bound on the packets that arrive, for model checking

ASSUME ScalingAssumption ==
  /\ MainLcore # Worker
  /\ Lcores = {MainLcore, Worker}
  /\ RxDescs \in Nat \ {0}
  /\ BurstSize \in Nat \ {0}
  /\ MaxArrivals \in Nat

VARIABLES
  exit_indicator,     \* set by the signal handler
  port_and_queue_id,  \* main's local variable, a uint32_t
  port_id, queue_id,  \* what each routine has read from it
  posted,             \* empty mbufs in the descriptors of each queue
  filled,             \* mbufs holding received packets in each queue
  arrived,            \* how many packets the port has received
  refill_first,       \* does the port's driver give a descriptor a new mbuf
                      \* before it delivers the packet that was in it?
  rx_packets,         \* the burst each routine has in its hands
  pc                  \* where each lcore is

readVars == <<port_and_queue_id, port_id, queue_id>>
nicVars == <<posted, filled, arrived, refill_first>>
vars == <<common, cache, tutorial, todo, eal, port_known, memory_pool, capa,
          offloads, exit_indicator, port_and_queue_id, port_id, queue_id,
          posted, filled, arrived, refill_first, rx_packets, pc>>

Queues == {0, 1}

(* Two 16-bit numbers in a 32-bit word.                                    *)
Half == 65536
Pack(port, queue) == queue * Half + port
PortOf(word) == word % Half
QueueOf_ShortShift(word) == (word \div 32768) % Half         \* faulty variant
QueueOf(word) == (word \div Half) % Half

PollLabels == {"port", "queue", "check", "rx", "burst", "refill", "free",
               "raced"}
MainLabels == {"setup", "launch", "overwrite", "wait", "exited"} \cup PollLabels
WorkerLabels == {"idle", "finished"} \cup PollLabels

Init ==
  /\ tutorial = 6
  /\ PoolInit /\ BringUpInit
  /\ exit_indicator = FALSE
  /\ port_and_queue_id = Pack(0, 1)
  /\ port_id = [l \in Lcores |-> 0]
  /\ queue_id = [l \in Lcores |-> 0]
  /\ posted = [q \in Queues |-> {}]
  /\ filled = [q \in Queues |-> <<>>]
  /\ arrived = 0
  /\ refill_first \in BOOLEAN
  /\ rx_packets = [l \in Lcores |-> <<>>]
  /\ pc = [l \in Lcores |-> IF l = MainLcore THEN "setup" ELSE "idle"]

Goto(l, label) == pc' = [pc EXCEPT ![l] = label]

(* while (!exit_indicator), at the top of the loop.                        *)
KeepPolling_Always == TRUE                                   \* faulty variant
KeepPolling == ~exit_indicator

Polling(l) == pc[l] \in {"check", "rx", "burst", "refill", "free"}
InBurst(l) == pc[l] \in {"burst", "refill"}

-----------------------------------------------------------------------------
(* The environment: signals and the wire.                                  *)

Terminate ==
  /\ pc[MainLcore] # "exited"
  /\ exit_indicator' = TRUE
  /\ UNCHANGED <<bringUpVars, common, cache, readVars, nicVars, rx_packets,
                 pc>>

(* The port's hash function picks a queue: UDP over IPv4 may go to either, *)
(* everything else goes to queue 0.                                        *)
Receive ==
  /\ Made("start") /\ pc[MainLcore] # "exited"
  /\ arrived < MaxArrivals
  /\ \E q \in Queues : \E m \in posted[q] :
       /\ posted' = [posted EXCEPT ![q] = @ \ {m}]
       /\ filled' = [filled EXCEPT ![q] = Append(@, m)]
  /\ arrived' = arrived + 1
  /\ UNCHANGED <<bringUpVars, common, cache, exit_indicator, readVars,
                 refill_first, rx_packets, pc>>

-----------------------------------------------------------------------------
(* main.                                                                   *)

PostTo(q) ==
  \E m \in Mbufs :
    Alloc(MainLcore, m) /\ posted' = [posted EXCEPT ![q] = @ \cup {m}]

(* rte_eth_rx_queue_setup, for one queue after the other.                  *)
SetupRxQueue ==
  /\ pc[MainLcore] = "setup"
  /\ Head(todo) = "rxq" /\ memory_pool
  /\ \E q \in Queues :
       /\ Cardinality(posted[q]) < RxDescs
       /\ \A r \in Queues : r < q => Cardinality(posted[r]) = RxDescs
       /\ PostTo(q)
  /\ UNCHANGED <<bringUpVars, exit_indicator, readVars, filled, arrived,
                 refill_first, rx_packets, pc>>

RxQueuesAreSetUp ==
  RxQueueIsSetUp /\ \A q \in Queues : Cardinality(posted[q]) = RxDescs

BringUp ==
  /\ pc[MainLcore] = "setup"
  /\ CallSucceeds \/ RxQueuesAreSetUp
  /\ Goto(MainLcore, IF todo' = <<>> THEN "launch" ELSE "setup")
  /\ UNCHANGED <<common, cache, exit_indicator, readVars, nicVars, rx_packets>>

BringUpFails ==
  /\ pc[MainLcore] = "setup"
  /\ CallFails
  /\ Goto(MainLcore, "exited")
  /\ UNCHANGED <<common, cache, exit_indicator, readVars, nicVars, rx_packets>>

LaunchFails ==
  /\ pc[MainLcore] = "launch"
  /\ CleanUpEal
  /\ Goto(MainLcore, "exited")
  /\ UNCHANGED <<common, cache, exit_indicator, readVars, nicVars, rx_packets>>

(* rte_eal_remote_launch returns once the other lcore has been told to     *)
(* run the routine, which need not have begun to run it.                   *)
Launch ==
  /\ pc[MainLcore] = "launch"
  /\ pc' = [pc EXCEPT ![MainLcore] = "overwrite", ![Worker] = "port"]
  /\ UNCHANGED <<bringUpVars, common, cache, exit_indicator, readVars, nicVars,
                 rx_packets>>

Overwrite ==
  /\ pc[MainLcore] = "overwrite"
  /\ port_and_queue_id' = Pack(0, 0)
  /\ Goto(MainLcore, "port")
  /\ UNCHANGED <<bringUpVars, common, cache, exit_indicator, port_id, queue_id,
                 nicVars, rx_packets>>

WorkerJoined_NoWait == TRUE                                  \* faulty variant
WorkerJoined == pc[Worker] = "finished"

WaitLcore ==
  /\ pc[MainLcore] = "wait"
  /\ WorkerJoined
  /\ CleanUpEal
  /\ Goto(MainLcore, "exited")
  /\ UNCHANGED <<common, cache, exit_indicator, readVars, nicVars, rx_packets>>

-----------------------------------------------------------------------------
(* read_packets_from_interface, on either lcore.                           *)

ReadPortId(l) ==
  /\ pc[l] = "port"
  /\ port_id' = [port_id EXCEPT ![l] = PortOf(port_and_queue_id)]
  /\ Goto(l, "queue")
  /\ UNCHANGED <<bringUpVars, common, cache, exit_indicator, port_and_queue_id,
                 queue_id, nicVars, rx_packets>>

QueueRead_PortHalf(word) == PortOf(word)                     \* faulty variant
QueueRead(word) == QueueOf(word)

ReadQueueId(l) ==
  /\ pc[l] = "queue"
  /\ queue_id' = [queue_id EXCEPT ![l] = QueueRead(port_and_queue_id)]
  /\ Goto(l, "check")
  /\ UNCHANGED <<bringUpVars, common, cache, exit_indicator, port_and_queue_id,
                 port_id, nicVars, rx_packets>>

CheckExit(l) ==
  /\ pc[l] = "check"
  /\ Goto(l, IF KeepPolling THEN "rx"
             ELSE IF l = MainLcore THEN "wait" ELSE "finished")
  /\ UNCHANGED <<bringUpVars, common, cache, exit_indicator, readVars, nicVars,
                 rx_packets>>

(* Is the other lcore inside the queue that lcore l is about to poll?      *)
QueueInUse(l) ==
  \E k \in Lcores \ {l} : InBurst(k) /\ queue_id[k] = queue_id[l]

(* The call of rte_eth_rx_burst.                                           *)
RxBurst(l) ==
  /\ pc[l] = "rx"
  /\ Goto(l, IF QueueInUse(l) THEN "raced" ELSE "burst")
  /\ UNCHANGED <<bringUpVars, common, cache, exit_indicator, readVars, nicVars,
                 rx_packets>>

(* A driver that refills first stops when it gets no replacement mbuf.     *)
CanTakePacket(l) ==
  /\ Len(rx_packets[l]) < BurstSize
  /\ filled[queue_id[l]] # <<>>
  /\ refill_first => CanAlloc(l)

TakePacket(l) ==
  /\ pc[l] = "burst"
  /\ CanTakePacket(l)
  /\ IF refill_first
       THEN \E m \in Mbufs :
              Alloc(l, m) /\ posted' = [posted EXCEPT ![queue_id[l]] = @ \cup {m}]
       ELSE UNCHANGED <<common, cache, posted>>
  /\ rx_packets' = [rx_packets EXCEPT ![l] = Append(@, Head(filled[queue_id[l]]))]
  /\ filled' = [filled EXCEPT ![queue_id[l]] = Tail(@)]
  /\ UNCHANGED <<bringUpVars, exit_indicator, readVars, arrived, refill_first,
                 pc>>

EndOfBurst(l) ==
  /\ pc[l] = "burst"
  /\ ~CanTakePacket(l)
  /\ Goto(l, "refill")
  /\ UNCHANGED <<bringUpVars, common, cache, exit_indicator, readVars, nicVars,
                 rx_packets>>

CanRefill(l) ==
  LET q == queue_id[l]
  IN  Cardinality(posted[q]) + Len(filled[q]) < RxDescs /\ CanAlloc(l)

Refill(l) ==
  /\ pc[l] = "refill"
  /\ CanRefill(l)
  /\ \E m \in Mbufs :
       Alloc(l, m) /\ posted' = [posted EXCEPT ![queue_id[l]] = @ \cup {m}]
  /\ UNCHANGED <<bringUpVars, exit_indicator, readVars, filled, arrived,
                 refill_first, rx_packets, pc>>

(* An empty burst: continue.                                               *)
AfterEmptyBurst_Leave(l) ==                                  \* faulty variant
  IF l = MainLcore THEN "wait" ELSE "finished"
AfterEmptyBurst(l) == "check"

ReturnBurst(l) ==
  /\ pc[l] = "refill"
  /\ ~CanRefill(l)
  /\ Goto(l, IF rx_packets[l] = <<>> THEN AfterEmptyBurst(l) ELSE "free")
  /\ UNCHANGED <<bringUpVars, common, cache, exit_indicator, readVars, nicVars,
                 rx_packets>>

(* rte_pktmbuf_free_bulk(rx_packets, rx_count).                            *)
Freed_AllButLast(l) ==                                       \* faulty variant
  {rx_packets[l][i] : i \in 1 .. Len(rx_packets[l]) - 1}
Freed(l) == Range(rx_packets[l])

FreePackets(l) ==
  /\ pc[l] = "free"
  /\ FreeBulk(l, Freed(l))
  /\ rx_packets' = [rx_packets EXCEPT ![l] = <<>>]
  /\ Goto(l, "check")
  /\ UNCHANGED <<bringUpVars, exit_indicator, readVars, nicVars>>

-----------------------------------------------------------------------------
PollStep(l) ==
  \/ ReadPortId(l) \/ ReadQueueId(l) \/ CheckExit(l) \/ RxBurst(l)
  \/ TakePacket(l) \/ EndOfBurst(l) \/ Refill(l) \/ ReturnBurst(l)
  \/ FreePackets(l)

MainStep ==
  \/ SetupRxQueue \/ BringUp \/ BringUpFails \/ Launch \/ LaunchFails
  \/ Overwrite \/ WaitLcore \/ PollStep(MainLcore)

WorkerStep == PollStep(Worker)

raced == \E l \in Lcores : pc[l] = "raced"

(* The program has ended, or did what its calls leave undefined.           *)
Ended == (pc[MainLcore] = "exited" \/ raced) /\ UNCHANGED vars

Next == Terminate \/ Receive \/ MainStep \/ WorkerStep \/ Ended

Spec == Init /\ [][Next]_vars

(* Each lcore is a core of its own on which its routine never blocks.      *)
FairSpec ==
  /\ Spec
  /\ WF_vars(MainStep)
  /\ WF_vars(WorkerStep)

-----------------------------------------------------------------------------
TypeOK ==
  /\ PoolTypeOK /\ BringUpTypeOK
  /\ exit_indicator \in BOOLEAN
  /\ port_and_queue_id \in {Pack(0, q) : q \in Queues}
  /\ port_id \in [Lcores -> 0 .. Half - 1]
  /\ queue_id \in [Lcores -> Queues]
  /\ posted \in [Queues -> SUBSET Mbufs]
  /\ filled \in [Queues -> Seq(Mbufs)]
  /\ arrived \in 0 .. MaxArrivals
  /\ refill_first \in BOOLEAN
  /\ rx_packets \in [Lcores -> Seq(Mbufs)]
  /\ \A l \in Lcores : Len(rx_packets[l]) <= BurstSize
  /\ pc \in [Lcores -> MainLabels \cup WorkerLabels]
  /\ pc[MainLcore] \in MainLabels
  /\ pc[Worker] \in WorkerLabels

(* The places an mbuf can be in.                                           *)
Held ==
  << common, cache[MainLcore], cache[Worker], posted[0], posted[1],
     Range(filled[0]), Range(filled[1]), Range(rx_packets[MainLcore]),
     Range(rx_packets[Worker]) >>

(* Two lcores that refill and free over one pool leave every mbuf with     *)
(* exactly one owner, as long as each queue had one lcore at a time        *)
(* (main.cpp:51, 61).                                                      *)
OneOwner ==
  /\ \A m \in Mbufs : \E h \in 1 .. 9 : m \in Held[h]
  /\ \A g, h \in 1 .. 9 : g # h => Held[g] \cap Held[h] = {}
  /\ \A q \in Queues : IsInjective(filled[q])
  /\ \A l \in Lcores : IsInjective(rx_packets[l])

(* A worker that has read its queue id by the time main overwrites the     *)
(* variable has its own queue for good: the two lcores never meet in one   *)
(* (main.cpp:42, 246).                                                     *)
EarlyReaderNeverRaces ==
  [](pc[MainLcore] = "overwrite" /\ Polling(Worker) => []~raced)

(* The two receive queues are polled once both lcores poll: the worker     *)
(* reads "Port Id: 0, Queue Id: 1" (main.cpp:237).                         *)
EveryQueuePolled ==
  Polling(MainLcore) /\ Polling(Worker)
    => {queue_id[l] : l \in Lcores} = Queues

(* main cleans up, and ends the program, only after the worker has left    *)
(* the port, and ends it with the EAL up only for want of a second lcore   *)
(* (main.cpp:123, 251-254).                                                *)
CleanupIsLast ==
  /\ eal = "cleaned" \/ pc[MainLcore] = "exited" =>
       /\ pc[Worker] \in {"idle", "finished"}
       /\ \A l \in Lcores : rx_packets[l] = <<>>
  /\ pc[MainLcore] = "exited" /\ eal = "up" => Head(todo) = "lcores"

(* A signal ends the program, whichever queues are polled (main.cpp:49).   *)
SignalEndsProgram == exit_indicator ~> pc[MainLcore] = "exited" \/ raced

(* A packet in a queue that some lcore has made its own does not stay      *)
(* there: it is read, and freed at once (main.cpp:51-61).                  *)
OwnedQueueDrains ==
  \A l \in Lcores : \A m \in Mbufs :
    (Polling(l) /\ m \in Range(filled[queue_id[l]])) ~>
      (m \notin Range(filled[queue_id[l]]) \/ exit_indicator \/ raced)

-----------------------------------------------------------------------------
(* What the invariants need to be inductive: a routine has packets in its  *)
(* hands only between the burst that reads them and the free ...           *)
BurstsMatch ==
  \A l \in Lcores :
    /\ pc[l] \notin {"burst", "refill", "free"} => rx_packets[l] = <<>>
    /\ pc[l] = "free" => rx_packets[l] # <<>>

(* ... the worker runs only between its launch and main's wait for it ...  *)
WorkerInsideMain ==
  /\ pc[MainLcore] \in {"setup", "launch"} => pc[Worker] = "idle"
  /\ pc[MainLcore] = "exited" => pc[Worker] \in {"idle", "finished"}

(* ... the EAL is up from main's first call to its last ...                *)
EalFollowsMain ==
  /\ tutorial = 6
  /\ EalIsFirst
  /\ pc[MainLcore] = "setup" => todo # <<>>
  /\ pc[MainLcore] \in {"setup", "exited"} \/ BroughtUp
  /\ pc[MainLcore] # "exited" => eal # "cleaned"
  /\ pc[MainLcore] = "exited" /\ eal = "up"
       => todo # <<>> /\ Head(todo) = "lcores"

(* ... and the variable names queue 1 until main overwrites it, and queue  *)
(* 0 whenever main itself reads it.                                        *)
QueuesFollowMain ==
  /\ pc[MainLcore] \in {"setup", "launch", "overwrite"}
       => port_and_queue_id = Pack(0, 1)
  /\ pc[MainLcore] \in PollLabels => port_and_queue_id = Pack(0, 0)
  /\ pc[MainLcore] \in PollLabels \ {"port", "queue"} => queue_id[MainLcore] = 0
  /\ pc[MainLcore] = "overwrite" /\ Polling(Worker) => queue_id[Worker] = 1

IInv ==
  /\ TypeOK /\ OneOwner /\ BurstsMatch /\ WorkerInsideMain
  /\ EalFollowsMain /\ QueuesFollowMain

=============================================================================
