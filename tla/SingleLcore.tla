----------------------------- MODULE SingleLcore -----------------------------
(***************************************************************************)
(* The tutorials that run on one lcore.  In tutorial 1 main polls a        *)
(* receive queue and frees what it receives.  In 2, 4, 5 and 7 it takes an *)
(* mbuf from the pool, fills in a packet and hands it to the transmit      *)
(* queue, over and over; 4 and 5 also set up a receive queue that nobody   *)
(* polls.  Without a receive queue nobody notices that the pool could not  *)
(* be created before the loop uses it, which is undefined: main has no     *)
(* further step there.                                                     *)
(*                                                                         *)
(* In tutorial 5 the device computes the checksum that the others compute  *)
(* themselves.  In tutorial 7 a telemetry thread reads a counter the loop  *)
(* stores; 4 and 5 print the port's counter now and then.                  *)
(***************************************************************************)
EXTENDS TxQueue, PortBringUp

CONSTANTS
  Tutorials,  \* those that may run
  MainLcore,
  RxDescs,    \* descriptors of the receive queue, if there is one (256)
  BurstSize,  \* room in received_packats (32)
  MaxSent     \* bound on the packets sent, for model checking

ASSUME SingleLcoreAssumption ==
  /\ Tutorials \subseteq {1, 2, 4, 5, 7}
  /\ Lcores = {MainLcore}
  /\ RxDescs \in Nat \ {0} /\ BurstSize \in Nat \ {0}
  /\ MaxSent \in Nat

VARIABLES
  exit_indicator,             \* set by the signal handler
  posted, filled,             \* mbufs in the receive queue, empty and full
  packets,                    \* the mbufs the loop has in hand
  ol_flags,                   \* mbufs whose flags ask for an IPv4 checksum
  transmitted_packet_count,   \* main's local counter
  tx_packet_count,            \* the atomic the telemetry thread reads
  opackets,                   \* the port's own counter of sent packets
  reported,                   \* the count last told to the telemetry client,
                              \* or printed from the port's statistics
  pc

rxVars == <<posted, filled>>
countVars == <<transmitted_packet_count, tx_packet_count, opackets, reported>>
vars == <<common, cache, queued, done, tutorial, todo, eal, port_known,
          memory_pool, capa, offloads, exit_indicator, posted, filled, packets,
          ol_flags, transmitted_packet_count, tx_packet_count, opackets, reported,
          pc>>

LoopLabels ==
  {"check", "poll", "free", "statistics", "get", "send", "refused", "count",
   "store"}
Labels == LoopLabels \cup {"bringUp", "exited"}

Init ==
  /\ tutorial \in Tutorials
  /\ PoolInit /\ TxInit /\ BringUpInit
  /\ exit_indicator = FALSE
  /\ posted = {} /\ filled = {}
  /\ packets = {} /\ ol_flags = {}
  /\ transmitted_packet_count = 0 /\ tx_packet_count = 0
  /\ opackets = 0 /\ reported = 0
  /\ pc = "bringUp"

-----------------------------------------------------------------------------
(* The environment: signals, the port, the telemetry client.               *)

Terminate ==
  /\ pc # "exited"
  /\ exit_indicator' = TRUE
  /\ UNCHANGED <<poolVars, txVars, bringUpVars, rxVars, packets, ol_flags,
                 countVars, pc>>

(* A packet arrives in the receive queue.                                  *)
Receive ==
  /\ pc \in LoopLabels
  /\ \E m \in posted : posted' = posted \ {m} /\ filled' = filled \cup {m}
  /\ UNCHANGED <<poolVars, txVars, bringUpVars, exit_indicator, packets,
                 ol_flags, countVars, pc>>

PortSends ==
  /\ pc \in LoopLabels
  /\ Transmit
  /\ opackets' = opackets + 1
  /\ UNCHANGED <<poolVars, bringUpVars, exit_indicator, rxVars, packets, ol_flags,
                 transmitted_packet_count, tx_packet_count, reported, pc>>

(* The callback of /dpdk_app/packet_info, on a thread of its own.          *)
TelemetryRequest ==
  /\ pc # "exited" /\ Made("telemetry")
  /\ reported' = tx_packet_count
  /\ UNCHANGED <<poolVars, txVars, bringUpVars, exit_indicator, rxVars, packets,
                 ol_flags, transmitted_packet_count, tx_packet_count, opackets, pc>>

-----------------------------------------------------------------------------
(* Bring-up.                                                               *)

Goto(next) == pc' = IF todo' = <<>> THEN next ELSE pc

BringUp ==
  /\ pc = "bringUp"
  /\ \/ CallSucceeds
     \/ RxQueueIsSetUp /\ Cardinality(posted) = RxDescs
  /\ Goto("check")
  /\ UNCHANGED <<poolVars, txVars, exit_indicator, rxVars, packets, ol_flags,
                 countVars>>

(* rte_eth_rx_queue_setup posts an mbuf to each descriptor.                *)
PostMbuf ==
  /\ pc = "bringUp"
  /\ Head(todo) = "rxq" /\ memory_pool
  /\ Cardinality(posted) < RxDescs
  /\ \E m \in Mbufs : Alloc(MainLcore, m) /\ posted' = posted \cup {m}
  /\ UNCHANGED <<txVars, bringUpVars, exit_indicator, filled, packets, ol_flags,
                 countVars, pc>>

BringUpFails ==
  /\ pc = "bringUp"
  /\ CallFails
  /\ pc' = "exited"
  /\ UNCHANGED <<poolVars, txVars, exit_indicator, rxVars, packets, ol_flags,
                 countVars>>

-----------------------------------------------------------------------------
(* The loops.                                                              *)

KeepRunning_Always == TRUE                                   \* faulty variant
KeepRunning == ~exit_indicator

(* while (!exit_indicator); the guard on the counter is the bound of the   *)
(* model.                                                                  *)
CheckExit ==
  /\ pc = "check"
  /\ KeepRunning
  /\ transmitted_packet_count < MaxSent
  /\ pc' = CASE tutorial = 1 -> "poll"
             [] tutorial \in {4, 5} -> "statistics"
             [] OTHER -> "get"
  /\ UNCHANGED <<poolVars, txVars, bringUpVars, exit_indicator, rxVars, packets,
                 ol_flags, countVars>>

LeaveLoop ==
  /\ pc = "check"
  /\ ~KeepRunning
  /\ CleanUpEal
  /\ pc' = "exited"
  /\ UNCHANGED <<poolVars, txVars, exit_indicator, rxVars, packets, ol_flags,
                 countVars>>

(* Tutorial 1: rte_eth_rx_burst takes packets from the queue one by one    *)
(* and refills descriptors, in an order of the driver's choice.  It        *)
(* returns with none only if there is none or the pool has no mbuf to      *)
(* replace one.                                                            *)
TakePacket ==
  /\ pc = "poll" /\ Cardinality(packets) < BurstSize
  /\ \E m \in filled :
       filled' = filled \ {m} /\ packets' = packets \cup {m}
  /\ UNCHANGED <<poolVars, txVars, bringUpVars, exit_indicator, posted, ol_flags,
                 countVars, pc>>

Refill ==
  /\ pc = "poll" /\ Cardinality(posted \cup filled) < RxDescs
  /\ \E m \in Mbufs : Alloc(MainLcore, m) /\ posted' = posted \cup {m}
  /\ UNCHANGED <<txVars, bringUpVars, exit_indicator, filled, packets, ol_flags,
                 countVars, pc>>

(* An empty burst is followed by 10 us of sleep.                           *)
EndOfBurst ==
  /\ pc = "poll"
  /\ packets # {} \/ filled = {} \/ ~CanAlloc(MainLcore)
  /\ pc' = IF packets = {} THEN "check" ELSE "free"
  /\ UNCHANGED <<poolVars, txVars, bringUpVars, exit_indicator, rxVars, packets,
                 ol_flags, countVars>>

Freed_None == {}                                             \* faulty variant
Freed == packets

FreePackets ==
  /\ pc = "free"
  /\ FreeBulk(MainLcore, Freed)
  /\ packets' = {}
  /\ pc' = "check"
  /\ UNCHANGED <<txVars, bringUpVars, exit_indicator, rxVars, ol_flags, countVars>>

(* Tutorials 4 and 5: every three seconds of a clock that may be set the   *)
(* statistics are read, which may fail, and printed.                       *)
PrintStatistics ==
  /\ pc = "statistics"
  /\ reported' \in {reported, opackets}
  /\ pc' = "get"
  /\ UNCHANGED <<poolVars, txVars, bringUpVars, exit_indicator, rxVars, packets,
                 ol_flags, transmitted_packet_count, tx_packet_count, opackets>>

(* All but tutorial 1: rte_mempool_get, which leaves the flags of the     *)
(* mbuf as they were, and the packet written into the mbuf.                *)
Flagged(m) == IF tutorial = 5 THEN ol_flags \cup {m} ELSE ol_flags

GetPacket ==
  /\ pc = "get" /\ memory_pool
  /\ \E m \in Mbufs :
       Alloc(MainLcore, m) /\ packets' = {m} /\ ol_flags' = Flagged(m)
  /\ pc' = "send"
  /\ UNCHANGED <<txVars, bringUpVars, exit_indicator, rxVars, countVars>>

GetFails ==
  /\ pc = "get" /\ memory_pool /\ ~CanAlloc(MainLcore)
  /\ pc' = "check"
  /\ UNCHANGED <<poolVars, txVars, bringUpVars, exit_indicator, rxVars, packets,
                 ol_flags, countVars>>

AfterRefusal_Forget == "check"                               \* faulty variant
AfterRefusal == "refused"

AfterAcceptance_Free == "refused"                            \* faulty variant
AfterAcceptance == "count"

(* rte_eth_tx_burst(port_ids[0], 0, &packet, 1).                           *)
Send ==
  /\ pc = "send"
  /\ \/ TxBurst(MainLcore, packets, packets) /\ pc' = AfterAcceptance
     \/ TxBurst(MainLcore, packets, {}) /\ pc' = AfterRefusal
  /\ packets' = IF pc' = "refused" THEN packets ELSE {}
  /\ UNCHANGED <<bringUpVars, exit_indicator, rxVars, ol_flags, countVars>>

(* The packet was not accepted: the loop frees it.                         *)
FreePacket ==
  /\ pc = "refused"
  /\ FreeBulk(MainLcore, packets)
  /\ packets' = {}
  /\ pc' = "check"
  /\ UNCHANGED <<txVars, bringUpVars, exit_indicator, rxVars, ol_flags, countVars>>

Count ==
  /\ pc = "count"
  /\ transmitted_packet_count' = transmitted_packet_count + 1
  /\ pc' = IF tutorial = 7 THEN "store" ELSE "check"
  /\ UNCHANGED <<poolVars, txVars, bringUpVars, exit_indicator, rxVars, packets,
                 ol_flags, tx_packet_count, opackets, reported>>

StoredCount_OfBurst == 1                                     \* faulty variant
StoredCount_Early == transmitted_packet_count + 1            \* faulty variant
StoredCount == transmitted_packet_count

StoreCount ==
  /\ pc = "store"
  /\ tx_packet_count' = StoredCount
  /\ pc' = "check"
  /\ UNCHANGED <<poolVars, txVars, bringUpVars, exit_indicator, rxVars, packets,
                 ol_flags, transmitted_packet_count, opackets, reported>>

-----------------------------------------------------------------------------
MainStep ==
  \/ BringUp \/ PostMbuf \/ BringUpFails
  \/ CheckExit \/ LeaveLoop
  \/ TakePacket \/ Refill \/ EndOfBurst \/ FreePackets \/ PrintStatistics
  \/ GetPacket \/ GetFails \/ Send \/ FreePacket \/ Count \/ StoreCount

Undefined == pc = "get" /\ ~memory_pool

(* The program has ended, or does what is left undefined.                  *)
Ended == (pc = "exited" \/ Undefined) /\ UNCHANGED vars

Next ==
  \/ Terminate \/ Receive \/ PortSends \/ TelemetryRequest
  \/ MainStep
  \/ Ended

Spec == Init /\ [][Next]_vars

(* main runs on a lcore of its own and never blocks; the port may stop     *)
(* sending (its link is down), and packets need not arrive.                *)
FairSpec == Spec /\ WF_vars(MainStep)

-----------------------------------------------------------------------------
TypeOK ==
  /\ PoolTypeOK /\ TxTypeOK /\ BringUpTypeOK
  /\ exit_indicator \in BOOLEAN
  /\ posted \in SUBSET Mbufs /\ filled \in SUBSET Mbufs
  /\ packets \in SUBSET Mbufs /\ Cardinality(packets) <= BurstSize
  /\ ol_flags \in SUBSET Mbufs
  /\ transmitted_packet_count \in 0 .. MaxSent
  /\ tx_packet_count \in 0 .. MaxSent
  /\ opackets \in 0 .. MaxSent /\ reported \in 0 .. MaxSent
  /\ pc \in Labels

(* The places an mbuf can be in.                                           *)
Held == <<common, cache[MainLcore], posted, filled, packets, queued, done>>

(* A packet is freed by the loop or by the driver, never by both and never *)
(* by neither: every mbuf has one owner (1-reading/main.cpp:179,           *)
(* 2-sending/main.cpp:182, 244-247).                                       *)
OneOwner ==
  /\ \A m \in Mbufs : \E h \in 1 .. 7 : m \in Held[h]
  /\ \A g, h \in 1 .. 7 : g # h => Held[g] \cap Held[h] = {}

(* A pool with an mbuf more than all the descriptors always has one for    *)
(* the loop: to send, although sent packets come back only through the     *)
(* next burst (2-sending/main.cpp:182-187), or to replace a received one   *)
(* (1-reading/main.cpp:166).  Otherwise the loop would retry for ever.     *)
Descs(t) ==
  (IF "rxq" \in Members(CallsOf(t)) THEN RxDescs ELSE 0)
  + (IF "txq" \in Members(CallsOf(t)) THEN TxDescs ELSE 0)
PoolSuffices == tutorial \in {t \in Tutorials : Cardinality(Mbufs) > Descs(t)}
NeedsMbuf == pc \in {"get", "poll"} /\ packets = {} /\ memory_pool
LoopNotStarved == PoolSuffices /\ NeedsMbuf => CanAlloc(MainLcore)

(* The program reaches its loop only with a port and, where it has a       *)
(* receive queue, with a pool; it never ends with the EAL still up,        *)
(* whichever call of its bring-up fails (2-sending/main.cpp:84-168, 258).  *)
BringUpIsSound == PortIsUsable /\ (pc = "exited" => eal # "up")

(* The checksum of every packet handed to the port is computed exactly     *)
(* once: by the device, which can and has been told to, in tutorial 5, and *)
(* by the program elsewhere, although nobody resets an mbuf's flags        *)
(* (5-ipv4-checksum/main.cpp:168, 195, 332; 2-sending/main.cpp:223).       *)
ChecksumComputedOnce ==
  \A m \in packets \cup queued :
    /\ (m \in ol_flags /\ offloads) <=> tutorial = 5
    /\ m \in ol_flags => capa

(* What the program tells of the packets sent never falls nor runs ahead   *)
(* of what the loop has sent.  The telemetry client may miss the packet in *)
(* hand, the printed statistics only packets the port still has to send    *)
(* (7-telemetry/main.cpp:44, 268-270; 4-getting-nic-statistics/main.cpp:   *)
(* 191, 277).                                                              *)
MayMiss == IF tutorial = 7 THEN 1 ELSE Cardinality(queued)
ReportsAscend ==
  [][ /\ reported' >= reported
      /\ transmitted_packet_count - reported' \in 0 .. MayMiss ]_reported

(* A signal ends the program even when the port neither sends nor receives *)
(* (1-reading/main.cpp:165-172, 2-sending/main.cpp:178, 245-248).          *)
SignalEndsProgram == exit_indicator ~> pc = "exited" \/ Undefined

(* While the port sends what it has accepted, a pool that suffices gets    *)
(* the loop's packets accepted again and again (2-sending/main.cpp:244).   *)
KeepsSending ==
  WF_vars(PortSends) =>
    (pc = "get" /\ PoolSuffices ~> pc = "count" \/ exit_indicator \/ Undefined)

(* With a pool that suffices, a packet in the polled receive queue reaches *)
(* the program (1-reading/main.cpp:165-179).                               *)
KeepsReceiving ==
  (filled # {} /\ tutorial \in {1} /\ PoolSuffices)
    ~> (packets # {} \/ exit_indicator)

-----------------------------------------------------------------------------
(* What these invariants need to be inductive.  The bring-up is over       *)
(* before the loop begins, the EAL is up until the program ends, and       *)
(* nothing is received or sent before ...                                  *)
EalFollowsMain ==
  /\ EalIsFirst /\ CallsMadeInOrder /\ ResultsKept
  /\ pc = "bringUp" => todo # <<>>
  /\ pc \in LoopLabels => BroughtUp
  /\ IF pc = "exited" THEN eal # "up" ELSE eal # "cleaned"
  /\ ~BroughtUp =>
       filled = {} /\ packets = {} /\ queued = {} /\ done = {} /\ ol_flags = {}

(* ... every program stays in the part of the loop that is its own, with   *)
(* packets in hand just where the code handles them ...                    *)
LabelsMatch ==
  /\ tutorial \in Tutorials
  /\ pc \in {"poll", "free"} => tutorial = 1
  /\ pc = "statistics" => tutorial \in {4, 5}
  /\ pc \in {"get", "send", "refused", "count", "store"} => tutorial # 1
  /\ pc = "store" => tutorial = 7
  /\ packets # {} => pc \in {"poll", "free", "send", "refused"}
  /\ pc \in {"send", "refused"} => \E m \in Mbufs : packets = {m}

(* ... only the queues it has set up hold mbufs, no more than they have    *)
(* descriptors ...                                                         *)
QueuesMatch ==
  /\ Cardinality(posted \cup filled) <= RxDescs
  /\ posted \cup filled # {} => "rxq" \in Members(CallsOf(tutorial))
  /\ queued \cup done # {} => tutorial # 1

(* ... the counters agree with one another ...                             *)
CountsMatch ==
  /\ opackets + Cardinality(queued)
       = transmitted_packet_count + (IF pc = "count" THEN 1 ELSE 0)
  /\ pc \in LoopLabels \ {"check", "store"} => transmitted_packet_count < MaxSent
  /\ tutorial = 7 =>
       /\ transmitted_packet_count
            = tx_packet_count + (IF pc = "store" THEN 1 ELSE 0)
       /\ reported <= tx_packet_count
  /\ tutorial # 7 => tx_packet_count = 0 /\ reported <= opackets

(* ... and the flags with the program.                                     *)
FlagsMatch ==
  IF tutorial = 5 THEN packets \cup queued \subseteq ol_flags ELSE ol_flags = {}

IInv ==
  /\ TypeOK /\ OneOwner /\ EalFollowsMain /\ LabelsMatch /\ QueuesMatch
  /\ CountsMatch /\ FlagsMatch

=============================================================================
