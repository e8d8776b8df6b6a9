--------------------------- MODULE PacketGenerator ---------------------------
(***************************************************************************)
(* Tutorial 9, the packet generator.  main brings up one transmit queue,   *)
(* writes a packet into every mbuf of the pool, launches the transmitting  *)
(* routine on a second lcore and prints statistics until a signal comes;   *)
(* it then waits for the routine.  The routine sends a burst whenever a    *)
(* clock reaches the time the last burst's time and the rate give.         *)
(*                                                                         *)
(* A rate too low for a burst in a second divides by zero, which ends the  *)
(* process by a signal.  The routine cannot find the pool missing: main    *)
(* has looked it up before the launch.                                     *)
(***************************************************************************)
EXTENDS TxQueue, PortBringUp

CONSTANTS
  MainLcore, TxLcore,
  Pools,        \* the sets of mbufs that may be the program's pool
  Requests,     \* rates that may be asked for on the command line
  BurstSize,    \* packets in a burst (16)
  RateSpace,    \* the rate is kept modulo this (2^16)
  Second,       \* ticks of the clock in a second (10^9)
  Horizon,      \* bound on the clock, for model checking
  Bursts        \* bound on the bursts followed, for model checking

ASSUME PacketGeneratorAssumption ==
  /\ Lcores = {MainLcore, TxLcore} /\ MainLcore # TxLcore
  /\ Pools \subseteq SUBSET Mbufs
  /\ Requests \subseteq Nat \ {0}
  /\ BurstSize \in Nat \ {0} /\ RateSpace \in Nat \ {0}
  /\ Second \in Nat /\ Second >= RateSpace
  /\ Horizon \in Nat /\ Bursts \in Nat

VARIABLES
  exit_indicator,       \* set by the signal handler
  pool,                 \* the mbufs of the program's pool
  requested,            \* the rate asked for
  buffers,              \* main's memory_buffers
  prepared,             \* mbufs with a packet written into them
  now,                  \* CLOCK_MONOTONIC, from when the routine first reads it
  t0, t1,               \* the last time read, the time of the next burst
  packets,              \* packets of the burst that are yet to be accepted
  opackets,             \* the port's counter of sent packets
  last_tx_packets,      \* what it was when main last read it
  printed,              \* the packets of all rates main has printed
  main_pc, tx_pc

prepareVars == <<buffers, prepared>>
statVars == <<last_tx_packets, printed>>
clockVars == <<now, t0, t1>>
vars == <<common, cache, queued, done, tutorial, todo, eal, port_known,
          memory_pool, capa, offloads, exit_indicator, pool, requested, buffers,
          prepared, now, t0, t1, packets, opackets,
          last_tx_packets, printed, main_pc, tx_pc>>

MainLabels ==
  {"bringUp", "prepare", "write", "launch", "statistics", "wait", "exited"}
TxLabels ==
  {"idle", "start", "check", "clock", "alloc", "send", "returned", "undefined"}

Init ==
  /\ tutorial = 9
  /\ pool \in Pools /\ common = pool /\ cache = [l \in Lcores |-> {}]
  /\ TxInit /\ BringUpInit
  /\ exit_indicator = FALSE
  /\ requested \in Requests
  /\ buffers = {} /\ prepared = {}
  /\ now = 0 /\ t0 = 0 /\ t1 = 0
  /\ packets = {} /\ opackets = 0
  /\ last_tx_packets = 0 /\ printed = 0
  /\ main_pc = "bringUp" /\ tx_pc = "idle"

-----------------------------------------------------------------------------
(* The environment: signals, the port, the clock.                          *)

Terminate ==
  /\ exit_indicator' = TRUE
  /\ UNCHANGED <<poolVars, txVars, bringUpVars, pool, requested, prepareVars,
                 clockVars, packets, opackets, statVars, main_pc, tx_pc>>

PortSends ==
  /\ Transmit
  /\ opackets' = opackets + 1
  /\ UNCHANGED <<poolVars, bringUpVars, exit_indicator, pool, requested,
                 prepareVars, clockVars, packets, statVars, main_pc, tx_pc>>

Tick ==
  /\ tx_pc \in {"check", "clock", "alloc", "send"}
  /\ now < Horizon
  /\ now' = now + 1
  /\ UNCHANGED <<poolVars, txVars, bringUpVars, exit_indicator, pool, requested,
                 prepareVars, t0, t1, packets, opackets, statVars, main_pc, tx_pc>>

-----------------------------------------------------------------------------
(* main.                                                                   *)

BringUp ==
  /\ main_pc = "bringUp"
  /\ CallSucceeds
  /\ main_pc' = IF todo' = <<>> THEN "prepare" ELSE "bringUp"
  /\ UNCHANGED <<poolVars, txVars, exit_indicator, pool, requested, prepareVars,
                 clockVars, packets, opackets, statVars, tx_pc>>

BringUpFails ==
  /\ main_pc = "bringUp"
  /\ CallFails
  /\ main_pc' = "exited"
  /\ UNCHANGED <<poolVars, txVars, exit_indicator, pool, requested, prepareVars,
                 clockVars, packets, opackets, statVars, tx_pc>>

(* prepare_memory_pool finds no pool, or the routine cannot be launched:   *)
(* main stops and closes the port, cleans up and ends the program.         *)
StopAndExit ==
  /\ \/ main_pc = "prepare" /\ ~memory_pool
     \/ main_pc = "launch"
  /\ CleanUpEal
  /\ main_pc' = "exited"
  /\ UNCHANGED <<poolVars, txVars, exit_indicator, pool, requested, prepareVars,
                 clockVars, packets, opackets, statVars, tx_pc>>

PoolSize_OneShort == Cardinality(pool) - 1                   \* faulty variant
PoolSize == Cardinality(pool)

(* prepare_memory_pool takes every mbuf out of the pool ...                *)
TakeBuffer ==
  /\ main_pc = "prepare" /\ memory_pool
  /\ \E m \in pool : Alloc(MainLcore, m) /\ buffers' = buffers \cup {m}
  /\ main_pc' = IF Cardinality(buffers') = PoolSize THEN "write" ELSE "prepare"
  /\ UNCHANGED <<txVars, bringUpVars, exit_indicator, pool, requested, prepared,
                 clockVars, packets, opackets, statVars, tx_pc>>

LastBuffer_Early(m) == Cardinality(buffers) <= 2             \* faulty variant
LastBuffer(m) == buffers = {m}

(* ... writes a packet into it and gives it back.                          *)
WriteBuffer ==
  /\ main_pc = "write"
  /\ \E m \in buffers :
       /\ Free(MainLcore, m)
       /\ buffers' = buffers \ {m}
       /\ prepared' = prepared \cup {m}
       /\ main_pc' = IF LastBuffer(m) THEN "launch" ELSE "write"
  /\ UNCHANGED <<txVars, bringUpVars, exit_indicator, pool, requested, clockVars,
                 packets, opackets, statVars, tx_pc>>

Launch ==
  /\ main_pc = "launch"
  /\ main_pc' = "statistics"
  /\ tx_pc' = "start"
  /\ UNCHANGED <<poolVars, txVars, bringUpVars, exit_indicator, pool, requested,
                 prepareVars, clockVars, packets, opackets, statVars>>

(* Once a second, by a clock that may be set, main reads the statistics    *)
(* and prints the packets sent since it last read them.  The reading may   *)
(* fail, which changes nothing but the time of the next one.               *)
PrintStatistics ==
  /\ main_pc = "statistics" /\ ~exit_indicator
  /\ printed' = printed + (opackets - last_tx_packets)
  /\ last_tx_packets' = opackets
  /\ UNCHANGED <<poolVars, txVars, bringUpVars, exit_indicator, pool, requested,
                 prepareVars, clockVars, packets, opackets, main_pc, tx_pc>>

LeaveStatistics ==
  /\ main_pc = "statistics"
  /\ exit_indicator
  /\ main_pc' = "wait"
  /\ UNCHANGED <<poolVars, txVars, bringUpVars, exit_indicator, pool, requested,
                 prepareVars, clockVars, packets, opackets, statVars, tx_pc>>

TxJoined_NoWait == TRUE                                      \* faulty variant
TxJoined == tx_pc = "returned"

(* rte_eal_wait_lcore, rte_eal_cleanup.                                    *)
WaitLcore ==
  /\ main_pc = "wait"
  /\ TxJoined
  /\ CleanUpEal
  /\ main_pc' = "exited"
  /\ UNCHANGED <<poolVars, txVars, exit_indicator, pool, requested, prepareVars,
                 clockVars, packets, opackets, statVars, tx_pc>>

-----------------------------------------------------------------------------
(* The transmitting routine.                                               *)

(* The rate asked for, a uint32_t, is passed to the routine in a uint16_t. *)
packets_per_second == requested % RateSpace

BurstsPerSecond(rate) == rate \div BurstSize
Interval(rate) == Second \div BurstsPerSecond(rate)
interburst_time == Interval(packets_per_second)

FirstBurst_AtOnce == now                                     \* faulty variant
FirstBurst == now + interburst_time

StartRoutine ==
  /\ tx_pc = "start"
  /\ BurstsPerSecond(packets_per_second) > 0
  /\ t0' = now
  /\ t1' = FirstBurst
  /\ tx_pc' = "check"
  /\ UNCHANGED <<poolVars, txVars, bringUpVars, exit_indicator, pool, requested,
                 prepareVars, now, packets, opackets, statVars, main_pc>>

DivideByZero ==
  /\ tx_pc = "start"
  /\ BurstsPerSecond(packets_per_second) = 0
  /\ tx_pc' = "undefined"
  /\ UNCHANGED <<poolVars, txVars, bringUpVars, exit_indicator, pool, requested,
                 prepareVars, clockVars, packets, opackets, statVars, main_pc>>

KeepSending_Always == TRUE                                   \* faulty variant
KeepSending == ~exit_indicator

(* while (!exit_indicator): the routine's only test of it.  The guard on   *)
(* t1 is the bound of the model.                                           *)
CheckExit ==
  /\ tx_pc = "check"
  /\ \/ KeepSending /\ t1 <= Horizon /\ tx_pc' = "clock"
     \/ ~KeepSending /\ tx_pc' = "returned"
  /\ UNCHANGED <<poolVars, txVars, bringUpVars, exit_indicator, pool, requested,
                 prepareVars, clockVars, packets, opackets, statVars, main_pc>>

ReadClock ==
  /\ tx_pc = "clock"
  /\ t0 < t1
  /\ t0' = now
  /\ UNCHANGED <<poolVars, txVars, bringUpVars, exit_indicator, pool, requested,
                 prepareVars, now, t1, packets, opackets, statVars, main_pc, tx_pc>>

NextBurst_AfterNow == now + interburst_time                  \* faulty variant
NextBurst == t1 + interburst_time

BurstIsDue ==
  /\ tx_pc = "clock"
  /\ t0 >= t1
  /\ t1' = NextBurst
  /\ tx_pc' = "alloc"
  /\ UNCHANGED <<poolVars, txVars, bringUpVars, exit_indicator, pool, requested,
                 prepareVars, now, t0, packets, opackets, statVars, main_pc>>

Wanted_OneMore == BurstSize + 1                              \* faulty variant
Wanted == BurstSize

AllocBurst ==
  /\ tx_pc = "alloc"
  /\ \E ms \in SUBSET Reachable(TxLcore) :
       /\ Cardinality(ms) = Wanted
       /\ AllocBulk(TxLcore, ms)
       /\ packets' = ms
  /\ tx_pc' = "send"
  /\ UNCHANGED <<txVars, bringUpVars, exit_indicator, pool, requested, prepareVars,
                 clockVars, opackets, statVars, main_pc>>

(* Too few mbufs for a burst: the routine sleeps 50 ms and skips it.       *)
NoBurstLeft == tx_pc = "alloc" /\ Cardinality(Reachable(TxLcore)) < BurstSize

AllocFails ==
  /\ NoBurstLeft
  /\ tx_pc' = "check"
  /\ UNCHANGED <<poolVars, txVars, bringUpVars, exit_indicator, pool, requested,
                 prepareVars, clockVars, packets, opackets, statVars, main_pc>>

Unsent_OneShort(accepted) ==                                 \* faulty variant
  IF accepted = {} THEN packets
  ELSE (packets \ accepted) \cup {CHOOSE m \in accepted : TRUE}
Unsent(accepted) == packets \ accepted

(* rte_eth_tx_burst, until it has accepted the whole burst.                *)
SendBurst ==
  /\ tx_pc = "send"
  /\ \E accepted \in SUBSET packets :
       /\ TxBurst(TxLcore, packets, accepted)
       /\ packets' = Unsent(accepted)
  /\ tx_pc' = IF packets' = {} THEN "check" ELSE "send"
  /\ UNCHANGED <<bringUpVars, exit_indicator, pool, requested, prepareVars,
                 clockVars, opackets, statVars, main_pc>>

-----------------------------------------------------------------------------
MainStep ==
  \/ BringUp \/ BringUpFails \/ StopAndExit \/ TakeBuffer \/ WriteBuffer
  \/ Launch \/ PrintStatistics \/ LeaveStatistics \/ WaitLcore

TxStep ==
  \/ StartRoutine \/ DivideByZero \/ CheckExit \/ ReadClock \/ BurstIsDue
  \/ AllocBurst \/ AllocFails \/ SendBurst

HasEnded == main_pc = "exited" \/ tx_pc = "undefined"
Running(step) == ~HasEnded /\ step
Ended == HasEnded /\ UNCHANGED vars

Next ==
  \/ Running(Terminate) \/ Running(PortSends) \/ Running(Tick)
  \/ Running(MainStep) \/ Running(TxStep)
  \/ Ended

Spec == Init /\ [][Next]_vars

(* Each lcore is a core of its own and the clock advances; the port may    *)
(* stop sending (its link is down).                                        *)
FairSpec ==
  /\ Spec
  /\ WF_vars(Running(MainStep)) /\ WF_vars(Running(TxStep))
  /\ WF_vars(Running(Tick))

PortIsFair == WF_vars(Running(PortSends))

-----------------------------------------------------------------------------
TypeOK ==
  /\ PoolTypeOK /\ TxTypeOK /\ BringUpTypeOK
  /\ exit_indicator \in BOOLEAN
  /\ pool \in Pools /\ requested \in Requests
  /\ buffers \in SUBSET pool /\ prepared \in SUBSET pool
  /\ now \in 0 .. Horizon /\ t0 \in 0 .. now
  /\ t1 \in 0 .. Horizon + Second
  /\ packets \in SUBSET pool /\ Cardinality(packets) <= BurstSize
  /\ opackets \in Nat /\ last_tx_packets \in 0 .. opackets /\ printed \in Nat
  /\ main_pc \in MainLabels /\ tx_pc \in TxLabels

(* The places an mbuf can be in.                                           *)
Held ==
  <<common, cache[MainLcore], cache[TxLcore], buffers, packets, queued, done>>

(* A burst that the port accepts in pieces hands every packet over once:   *)
(* every mbuf of the pool has one owner (main.cpp:391, 410-413).           *)
OneOwner ==
  /\ \A m \in pool : \E h \in 1 .. 7 : m \in Held[h]
  /\ \A g, h \in 1 .. 7 : g # h => Held[g] \cap Held[h] = {}

(* Preparing the pool leaves mbufs in the cache of main's lcore for ever.  *)
(* A pool with a burst more than they and the descriptors can hold never   *)
(* makes the routine skip a burst (main.cpp:274, 391-396).                 *)
PoolSuffices ==
  pool \in {p \in Pools : Cardinality(p) >= FlushThresh + TxDescs + BurstSize}
TxNotStarved == PoolSuffices => ~NoBurstLeft

(* However late the clock is read and however many bursts are made up for, *)
(* the packets handed to the port never exceed those due since the routine *)
(* started, and the rates printed, all together, never those the port has  *)
(* sent (main.cpp:301-308, 370-381).                                       *)
Handed == opackets + Cardinality(queued)
NeverAheadOfRate ==
  /\ tx_pc \in TxLabels \ {"idle", "start", "undefined"} =>
       Handed * interburst_time <= now * BurstSize
  /\ printed <= opackets

(* Only mbufs with a packet in them are sent, although the routine never   *)
(* writes one (main.cpp:204-275, 401-406).                                 *)
OnlyPreparedSent == packets \cup queued \subseteq prepared

(* main reaches its loop only with a port, and cleans up only when the     *)
(* routine has returned; it ends the program with the EAL up only when its *)
(* arguments are wrong (main.cpp:473-504, 539-542, 638-672).               *)
EndsCleanly ==
  /\ PortIsUsable
  /\ eal = "cleaned" =>
       tx_pc \in {"idle", "returned"} /\ packets = {} /\ buffers = {}
  /\ main_pc = "exited" /\ eal = "up" => Head(todo) = "arguments"

(* A signal ends the program if the port sends what it has accepted; the   *)
(* routine does not look at exit_indicator while it waits for room         *)
(* (main.cpp:376, 411-413, 665-669).                                       *)
SignalEndsProgram == PortIsFair => (exit_indicator ~> HasEnded)

(* While the port sends, every burst that has become due is sent: the ones *)
(* the routine is late with are made up for (main.cpp:377-381).            *)
DueBurstsAreSent ==
  PortIsFair =>
    \A burst \in 1 .. Bursts :
      (PoolSuffices /\ t1 > 0 /\ burst * interburst_time <= now)
        ~> (Handed >= burst * BurstSize \/ exit_indicator)

(* The routine sends as many bursts in a second as the rate asked for on   *)
(* the command line has (main.cpp:364, 650).                               *)
RateAsRequested ==
  tx_pc \notin {"idle", "start"} =>
    BurstsPerSecond(packets_per_second) = BurstsPerSecond(requested)

-----------------------------------------------------------------------------
(* What these invariants need to be inductive.  No mbuf is ever anywhere   *)
(* but in the program's pool ...                                           *)
OwnPoolOnly == \A h \in 1 .. 7 : Held[h] \subseteq pool

(* ... main holds buffers, and the routine packets, just where the code    *)
(* handles them, and the routine runs only between its launch and main's   *)
(* wait for it ...                                                         *)
TxRunning == tx_pc \in {"check", "clock", "alloc", "send", "returned"}
PhasesMatch ==
  /\ main_pc \in {"bringUp", "prepare", "write", "launch"} => tx_pc = "idle"
  /\ main_pc = "exited" => tx_pc \in {"idle", "returned"}
  /\ buffers # {} => main_pc \in {"prepare", "write"} /\ memory_pool
  /\ main_pc = "write" => buffers \cup prepared = pool
  /\ main_pc \in {"launch", "statistics", "wait"} \/ tx_pc # "idle"
       => prepared = pool
  /\ packets # {} => tx_pc = "send"
  /\ tx_pc \in {"idle", "start"} => queued = {} /\ opackets = 0

(* ... the EAL is up from main's first call to its last, and what main has *)
(* learned is kept ...                                                     *)
EalFollowsMain ==
  /\ tutorial = 9
  /\ EalIsFirst /\ CallsMadeInOrder /\ ResultsKept
  /\ main_pc \in {"bringUp", "exited"} \/ BroughtUp
  /\ main_pc # "exited" => eal # "cleaned"
  /\ main_pc = "exited" /\ eal = "up" => todo # <<>> /\ Head(todo) = "arguments"

(* ... and the packets handed to the port or about to be are those of the  *)
(* intervals that end before the time of the next burst.                   *)
Taken ==
  Handed + Cardinality(packets) + (IF tx_pc = "alloc" THEN BurstSize ELSE 0)
RateKept ==
  /\ TxRunning =>
       /\ BurstsPerSecond(packets_per_second) > 0
       /\ t1 - interburst_time \in 0 .. t0
       /\ Taken * interburst_time <= (t1 - interburst_time) * BurstSize
  /\ tx_pc = "clock" => t1 <= Horizon
  /\ printed = last_tx_packets

IInv ==
  /\ TypeOK /\ OneOwner /\ OwnPoolOnly /\ CachesBounded /\ PhasesMatch
  /\ EalFollowsMain /\ RateKept /\ OnlyPreparedSent

=============================================================================
