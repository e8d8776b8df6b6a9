# DPDK tutorials: TLA+ models and proofs

The repository holds ten small DPDK programs, one per directory, each a single
`main.cpp` that polls or feeds an ethernet port. They share no code, but they
share a skeleton (bring-up, polling loop, signal handler) and the DPDK objects
they use: the mbuf pool with its per-lcore caches, the receive and transmit
queues of a port, the ring. What is hard about them is who owns an mbuf at
every moment, how the sizes of pool, caches, queues and ring fit together, and
what two lcores or two processes do to shared state while neither waits for the
other.

In this page `T3:192` means line 192 of the `main.cpp` of tutorial 3
(`src/3-processing-a-packet/main.cpp`).

## 1. Inventory

| Part | State it keeps | Operations | Interaction | What makes it correct |
|---|---|---|---|---|
| Tutorial 1, reading a packet | pool, one receive queue, `exit_indicator` | poll a burst, free it (T1:165-180) | signal handler | every received mbuf is freed once; a signal ends it |
| Tutorial 2, sending a packet | pool, one transmit queue, `exit_indicator` | get an mbuf, fill it, send it, free it if refused (T2:178-255) | signal handler; the driver frees sent mbufs | one owner; a refused packet is freed by the loop and only then; the loop is never left without an mbuf for good |
| Tutorial 3, processing a packet | pool with two caches, receive queue, ring, two bursts | read and enqueue (T3:75-105), dequeue and free (T3:41-73), launch and wait (T3:267-284) | two lcores over a ring and a pool | one owner; order kept; every packet processed or dropped; both lcores end, main last |
| Tutorial 4, NIC statistics | as 2, and a receive queue nobody polls | send loop; every 3 s print the port's counters (T4:184-283) | as 2 | as 2, with 256 mbufs lost to the receive queue |
| Tutorial 5, IPv4 checksum offload | as 4, and the offloads configured | check capability (T5:42-95), configure (T5:195), flag each packet (T5:332-334) | as 4 | as 4; a packet asks only for what was configured |
| Tutorial 6, receive side scaling | pool with two caches, two receive queues, `port_and_queue_id` | poll and free, on two lcores (T6:39-66) | two lcores over one pool; main's local variable read through a pointer | one lcore per queue, every queue polled; one owner; main ends last |
| Tutorial 7, telemetry | as 2, and an atomic counter | send loop, store the counter (T7:267-270), callback (T7:41-46) | telemetry thread reads what the loop stores | what is reported never falls and never runs ahead |
| Tutorial 8, multi-process | pool and ring in shared memory, timestamps | generate (T8:57-105), process (T8:107-158), create, look up, free the ring (T8:237-305) | two processes; restarts and kills of the secondary | one owner; timestamps in order; each process ends when told |
| Tutorial 9, packet generator | pool prepared with packets, transmit queue, rate | prepare (T9:196-280), paced bursts (T9:345-418), statistics (T9:282-343) | main and a transmitting lcore over one pool | never ahead of the rate asked for; ends on a signal; no mbuf out of reach |
| Tutorial 11, Toeplitz hash | none | hash a table of flows with two keys (T11:70-100) | none | the hash of a flow and of its reverse agree under the custom key |
| Bring-up of tutorials 1-7 and 9 | the EAL, the port id, the pool, the offloads configured | a fixed sequence of calls, each of which may fail | before every loop | no loop without a port, or without a pool where there is a receive queue; no end with the EAL up |
| Mbuf pool (DPDK) | common store, a cache per lcore | allocate, free, in bulk | used by all of the above | nothing is handed out twice; what a cache holds other lcores cannot reach |
| Transmit queue (DPDK) | descriptors | accept a burst, send, reclaim | used by 2, 4, 5, 7, 9 | an accepted mbuf belongs to the driver until it is reclaimed |
| Build files, `setup_dpdk_env.sh` | none | | | not modelled: no state of their own |

What is hard to test here is listed in `PROJECT.json` under `hazards`, at its
line. The main groups are

* mbufs that no lcore can reach because another lcore's cache holds them
  (T3:192, T9:274) or because they wait in descriptors (T2:182, T4:131);
* two actors on one structure: reader and worker on the ring (T3:95), two lcores
  on the port's queues and main's variable (T6:246), two processes on one cache
  (T8:72), loop and telemetry thread on a counter (T7:44);
* one call of several that fails: a refused packet in a burst (T3:95, T2:245), a
  full ring (T8:91), statistics that cannot be read (T9:301), a registration
  that fails (T8:239), a pool that was not created (T2:102);
* ends: a signal in any phase, main's wait for the worker, a process that is
  stopped, killed or restarted while the other runs on (T8:151, T8:284).

## 2. Modules

| Module | Stands for |
|---|---|
| `Mempool` | `rte_mempool`: a common store and a cache per lcore; allocation and free in bulk. External code, modelled from how the tutorials create and use it. |
| `TxQueue` | A transmit queue over the pool. External code; the driver chooses how many sent mbufs it reclaims, but refuses a packet only if nothing is left to reclaim. |
| `PacketPipeline` | Tutorial 3 (extends `Mempool` and `PortBringUp`). |
| `PacketChannel` | What tutorial 3 promises: an ordered channel that may lose a packet only above its capacity. |
| `ReceiveSideScaling` | Tutorial 6 (extends `Mempool` and `PortBringUp`). |
| `PortBringUp` | What main does before its loop in tutorials 1-7 and 9: the calls in order, each with its failure. |
| `SingleLcore` | Tutorials 1, 2, 4, 5, 7 (extends `TxQueue` and `PortBringUp`): the loop that reads or the one that sends, the unpolled receive queue of 4 and 5, the offload of 5, the counter of 7. |
| `PacketGenerator` | Tutorial 9 (extends `TxQueue` and `PortBringUp`). |
| `MultiProcess` | Tutorial 8. Its pool calls take two steps each; `Pool == INSTANCE Mempool` says when they amount to one. |
| `MC...` | Instances of these for TLC: they add the symmetry set, where it is used. |
| `OwnershipFacts`, `MempoolProofs`, `PortBringUpProofs` | Lemmas about sequences, sizes and owners, about the pool, and about the bring-up. |
| `PacketPipelineProofs`, `ReceiveSideScalingProofs`, `SingleLcoreProofs`, `PacketGeneratorProofs`, `MultiProcessProofs` | The theorems about each program. |

### 2.1 Mempool

`common` and `cache` are the store and the caches. `AllocBulk(l, ms)` has three
disjuncts: the cache serves the request; or it is emptied and refilled with
`CacheSize` mbufs from the store; or the store has too few for that and serves
the request alone. `FreeBulk(l, ms)` has three: the cache takes the mbufs; or, if
it would outgrow one and a half times its size, it is flushed first; or the
mbufs are themselves more than that and go straight to the store. The order
in which a store hands mbufs out is abstracted to "any member". An lcore never
reaches another lcore's cache: `Reachable(l)`.

### 2.2 PacketPipeline (tutorial 3)

`posted` and `filled` are the empty and the full descriptors of the receive
queue, `ring_buffer` the ring, `rx_packets[l]` what the routine on lcore `l`
still has to handle of its burst, `data[m]` the number of the packet in `m`.

| Action | Code |
|---|---|
| `BringUp`, `BringUpFails`, `SetupRxQueue` | T3:132-265: `PortBringUp`, and the mbufs `rte_eth_rx_queue_setup` posts |
| `Launch`, `LaunchFails`, `WaitLcore` | T3:267-284 |
| `ReaderCheck`, `TakePacket`, `EndOfBurst`, `Refill`, `ReturnBurst` | T3:83-91: `rte_eth_rx_burst` mbuf by mbuf, then the driver's refill |
| `Enqueue`, `EnqueueFails` | T3:93-100, one packet of the burst each |
| `WorkerCheck`, `Dequeue`, `Process` | T3:52-69 |
| `Terminate`, `Receive` | T3:36-39; the port writing a packet |

`RefillFirst` selects between the two kinds of driver that exist: one replaces
an mbuf before it delivers the received one and delivers nothing when it gets
none; the other delivers first. Packets may arrive as soon as the port is
started, before there is a ring (T3:259) or a routine. The ring is
single-producer single-consumer and external; its calls are atomic.

### 2.3 ReceiveSideScaling (tutorial 6)

`port_and_queue_id` is main's variable, packed and unpacked by `Pack`, `PortOf`,
`QueueOf` in 32 bits. `Launch` returns before the worker has run (T6:237-244),
`Overwrite` changes the variable (T6:246), `ReadPortId` and `ReadQueueId` are the
two reads through the pointer (T6:41-42). `refill_first`, chosen in
`Init`, is the kind of the port's driver (2.2). DPDK leaves undefined what two lcores
in one queue at the same time do: an lcore that enters a queue in use goes to
`raced` and has no further step, and the properties claim nothing afterwards.

### 2.4 PortBringUp (tutorials 1-7 and 9)

`CallsOf(t)` is the sequence of calls and checks of tutorial `t`; `todo` is the
rest of it. A call succeeds (`CallSucceeds`, `RxQueueIsSetUp`) or ends the program
(`CallFails`), which leaves the EAL up after wrong arguments (T9:473-504) and
after too few lcores (T3:162, T6:123). Two results are not tested: the pool's
(`memory_pool` may be `FALSE`; a receive queue then refuses it) and that of the
lookup of an unknown port name (T9:531), which leaves `port_known` false until the
next call fails. `capa` is what the device has told, `offloads` what it was
configured for. The module has no specification of its own: the tutorials'
modules extend it and say what else a call does.

### 2.5 SingleLcore (tutorials 1, 2, 4, 5, 7)

`tutorial` is chosen in `Init`. `TakePacket`, `Refill`, `EndOfBurst`, `FreePackets`
are the loop of tutorial 1 (T1:165-180); `GetPacket`, `GetFails`, `Send`,
`FreePacket` that of the others (T2:180-252), with `PrintStatistics` in 4 and 5
(T4:186-206) and `Count`, `StoreCount` in 7 (T7:267-276), where `TelemetryRequest`
(T7:41-46) runs on a thread of its own. `ol_flags` are the mbufs that ask for a
checksum: set in 5 (T5:332), reset by nobody. When the pool could not be created
and no receive queue noticed (2 and 7), the loop goes on to `rte_mempool_get` on a
null pool, which is undefined and ends main's steps (`Undefined`). When a
statistics reading is due is left open, because `system_clock` may be set.

### 2.6 PacketGenerator (tutorial 9)

| Action | Code |
|---|---|
| `BringUp`, `BringUpFails` | T9:451-634 |
| `TakeBuffer`, `WriteBuffer`, `StopAndExit` | `prepare_memory_pool`, T9:196-280, and its failure or the launch's, T9:638-657 |
| `Launch`, `PrintStatistics`, `LeaveStatistics`, `WaitLcore` | T9:646-673, T9:282-343 |
| `StartRoutine`, `DivideByZero` | T9:345-374: the interval between bursts |
| `CheckExit`, `ReadClock`, `BurstIsDue` | T9:376-381 |
| `AllocBurst`, `AllocFails`, `SendBurst` | T9:391-414 |

The clock (`now`, `Tick`) starts when the routine first reads it. `t0` is the last
time read and `t1` the time of the next burst; both are the code's. `packets` is
what is left of the burst in hand: `SendBurst` is one call of `rte_eth_tx_burst`,
which takes any part of it that it has room for. `packets_per_second` is the 16-bit
parameter (T9:43) the rate asked for is stored in. The program's pool is a
constant of the run (`Pools`), so that a pool that suffices and one that does not
are both explored. The routine cannot find its pool missing (T9:349): main has
looked it up just before.

### 2.7 MultiProcess (tutorial 8)

`objs` and `len` are the array and the length of each lcore's cache, in shared
memory. A pool call loads the length (`AllocBegins`, `FreeBegins`) and later
stores it with the rest of its effect (`AllocEnds`, `FreeEnds`): between the two
the other process may run. The second step stores the length and the mbuf at
once, whereas DPDK stores the length before it copies the mbuf to or from the
array. With a lcore for each process nobody sees the difference, since no other
process looks at that cache; two processes on one cache have more interleavings
than the model. So nothing is claimed to hold for them: the run
`multiprocess_same_lcore` shows a behaviour they do have, and every theorem and
every passing run gives each process a lcore of its own. `PrimaryLcore` and `SecondaryLcore` are the `--lcores`
of the two. `Start` and `Kill` are the operator's; a kill comes between two calls
into DPDK and loses the mbuf in the secondary's hand. `FreeRing` is T8:281-304. A
dequeue from the freed ring and the use of an unregistered timestamp offset are
undefined and end that process's steps. `Registered`, `Unsigned` and
`RegistrationFailed` model the unsigned offset of T8:40 and its test at T8:239;
`OffsetSpace` is 256 instead of 2^64, which makes no difference to a comparison
with zero.

## 3. Runs

| Run | Configuration | Shows |
|---|---|---|
| `pipeline` | 6 mbufs, caches of 1, 2 descriptors, bursts of 2, ring of 3, 7 arrivals, deliver-first driver | `OneOwner`, `InOrder`, `Accounting`, `CleanupIsLast`, `ReaderNotStarved`, and `ImplementsChannel`: the refinement of `PacketChannel` |
| `pipeline_live` | 4 mbufs, ring of 4, 1 descriptor, refill-first driver | `NoDropWhenPoolFits`, `SignalEndsProgram`, `EveryPacketSettles` |
| `pipeline_stall` | as `pipeline_live`, caches of 2 | **violated** `EveryPacketSettles`: finding 1 |
| `rss` | 4 mbufs, caches of 1, 2 queues of 1 descriptor, 2 arrivals, either driver | `OneOwner`, `CleanupIsLast`, `SignalEndsProgram`, `EarlyReaderNeverRaces`, `OwnedQueueDrains` |
| `rss_queues` | as `rss` | **violated** `EveryQueuePolled`: finding 2 |
| `single_lcore` | tutorials 1, 2, 4, 5, 7; 4 mbufs, 2 transmit and 2 receive descriptors, 4 packets | `OneOwner`, `LoopNotStarved`, `BringUpIsSound`, `ChecksumComputedOnce`, `ReportsAscend`, `SignalEndsProgram`, `KeepsSending`, `KeepsReceiving` |
| `generator` | pools of 5 and 4 mbufs, 2 descriptors, bursts of 2, rates of 1, 5 and 14 kept in 3 bits | `OneOwner`, `TxNotStarved`, `NeverAheadOfRate`, `OnlyPreparedSent`, `EndsCleanly`, `SignalEndsProgram`, `DueBurstsAreSent` |
| `generator_rate` | as `generator`, pool of 5 | **violated** `RateAsRequested`: finding 5 |
| `multiprocess` | 4 mbufs, ring of 1, 5 stamps, 2 starts, 1 kill, lcores of their own | `OneOwner`, `PrimaryNotStarved`, `PoolRefined` |
| `multiprocess_live` | 3 mbufs, ring of 2, 3 stamps, 2 starts, 1 kill | `TimestampsAscend`, `SignalEndsProcess`, `ReaderDrainsRing` |
| `multiprocess_same_lcore` | 4 mbufs, ring of 2, both processes on one lcore | **violated** `TimestampsAscend`: finding 3 |
| `multiprocess_dynfield` | 3 mbufs | **violated** `FailedRegistrationEnds`: finding 4 |

The first run of each module also checks its type invariant.

**Bounds.** `MaxArrivals`, `MaxSent`, `MaxStamps`, `MaxStarts`, `MaxKills` and
`Horizon` bound what the environment does, and are the only bounds that the code
does not have; all others are sizes of the code, made small. They are enough for
what the properties are about.

* `pipeline`: more arrivals than mbufs, so that mbufs are reused; more mbufs than
  ring slots, so that the ring overflows in the middle of a burst; a pool above
  the size at which a cache can strand it, though small enough that caches are
  refilled, exhausted and flushed.
* `rss`: two mbufs outside the descriptors and caches that
  hold one, so that the mbuf one lcore needs can lie in the other's burst or cache.
  A refill-first driver makes the lcore wait for it; a deliver-first one leaves a
  descriptor empty instead.
* `single_lcore`: 4 mbufs suffice for tutorials 1, 2 and 7 (4 > 2) but not for 4
  and 5 (4 = 2 + 2), so that both a supplied and a starving loop are explored.
  Four packets reuse every mbuf the port accepts.
* `generator`: 5 mbufs are what `PoolSuffices` asks for (1 in main's cache, 2 in
  descriptors, 2 for a burst) and 4 are one fewer. A second has 8 ticks and a rate
  3 bits: 5 is 2 bursts a second and is kept; 14 becomes 6, 3 bursts; 1 is no
  burst at all and divides by zero. Five ticks are the time of the second burst
  and one tick more at either rate, so that one burst can be late and be made up
  for; `Bursts` is the number of bursts `DueBurstsAreSent` follows.
* `multiprocess`: the pool suffices until a kill has cost an mbuf, and five stamps
  reuse every mbuf.

Mbufs are interchangeable; the symmetry is used only in runs that check no
liveness.

**Fairness.** `WF` on each lcore's steps: each runs a routine that never blocks
on a core of its own (`--lcores=0-1`; DPDK pins them), and each process of
tutorial 8 is scheduled by the kernel. `WF` on `Tick` of the generator: a monotonic
clock advances. No fairness for signals, arrivals, telemetry requests, kills and
starts. None for the port's sending either, since a link may be down:
`KeepsSending`, `DueBurstsAreSent` and the generator's `SignalEndsProgram` assume it
in their own antecedents. That the last one needs it is a property of the code:
the loop that hands over a burst (T9:411-413) does not test `exit_indicator`. Weak
fairness of the whole lcore, not of single actions, leaves every choice the driver
has unconstrained.

**Deadlock** is checked in every run; the ended program stutters (`Terminated`,
`Ended`).

## 4. Findings

1. *The processing lcore's cache can hold every free mbuf* (T3:192). 1023 mbufs
   minus 256 in descriptors leave 767; a cache of 512 is flushed at 768. The
   worker only frees, the reader only allocates: all 767 can lie in the
   worker's cache. A driver that replaces before it delivers then delivers
   nothing any more. `ReaderNotStarved` shows that a pool of two more mbufs is enough.
2. *The worker can read main's variable after main has changed it* (T6:246).
   Both lcores then poll queue 0 and nobody polls queue 1.
   `EarlyReaderNeverRaces` shows that nothing else is wrong with the hand-over.
3. *Started as README.md:18 says, primary and secondary share a cache* (T8:72).
   Both are on lcore 0, and one mbuf is handed out twice. With lcores of their
   own `PoolRefined` holds and nothing of the kind happens.
4. *A failed registration of the timestamp field is not noticed* (T8:239): the
   offset is unsigned.
5. *The generator's rate is kept in 16 bits* (T9:650): 100000 packets per second
   become 34464, and 65536 become 0 and divide by zero. README.md:20 speaks of
   about 7 million.

Seen while modelling and stated by no doc to be otherwise, so listed as hazards
only: the blocked end of the generator (T9:411-413, T9:668), its doubled first rate
(T9:660), a rate below 16 packets per second (T9:364), the exits that leave the EAL
up (T3:162, T6:123, T9:473-504), the UDP checksum the port is never configured for
(T9:579, T9:403), and the pool nobody tests (T2:102, T7:121).

## 5. Proofs

Every safety property of the passing runs, action properties and the two
refinements included, is a theorem: it holds for every value of the constants
that the assumptions allow, and for runs of any length (`MaxArrivals`, `MaxSent`,
`MaxStamps`, `MaxStarts`, `MaxKills` and `Horizon` are any numbers). The
assumptions say that a pool is finite, that sizes are positive, which lcores there
are, and in the generator that a second has at least as many ticks as the rate's
type has values; nothing relates the sizes to each other. A size that matters
stands in the property itself (`PoolFitsRing`, `PoolOutgrowsCache`,
`PoolSuffices`).

| Theorem | States |
|---|---|
| `PacketPipelineProofs` | |
| `Inductive` | `[]IInv` |
| `TypeCorrect` | `[]TypeOK`; no `rx_packets` array is written past its end, the ring never outgrows its slots |
| `Ownership` | `[]OneOwner` |
| `CleanupLast` | `[]CleanupIsLast` |
| `NoDrop` | `[]NoDropWhenPoolFits`: with 1023 mbufs and 1023 slots the error branch of T3:95 is never taken |
| `ReaderIsNotStarved` | `[]ReaderNotStarved` |
| `WayInOrder`, `WayAccounted` | `[]InOrder`, `[]Accounting` |
| `ChannelRefined` | `ImplementsChannel`: the pipeline implements `PacketChannel` |
| `ReceiveSideScalingProofs` | |
| `ScalingInductive` | `[]IInv` |
| `ScalingTypes`, `ScalingOwnership`, `ScalingCleanupLast` | `[]TypeOK`, `[]OneOwner`, `[]CleanupIsLast` |
| `EarlyReaderIsSafe` | `EarlyReaderNeverRaces`, a property of behaviours |
| `SingleLcoreProofs` | |
| `LoopInductive` | `[]IInv` |
| `LoopTypes`, `LoopOwnership`, `LoopBringUpIsSound` | `[]TypeOK`, `[]OneOwner`, `[]BringUpIsSound` |
| `LoopIsNotStarved`, `LoopChecksumsOnce` | `[]LoopNotStarved`, `[]ChecksumComputedOnce` |
| `LoopReportsAscend` | `ReportsAscend`, an action property |
| `PacketGeneratorProofs` | |
| `GeneratorInductive` | `[]IInv` |
| `GeneratorTypes`, `GeneratorOwnership`, `GeneratorEndsCleanly` | `[]TypeOK`, `[]OneOwner`, `[]EndsCleanly` |
| `GeneratorNotStarved`, `GeneratorKeepsRate`, `GeneratorSendsPrepared` | `[]TxNotStarved`, `[]NeverAheadOfRate`, `[]OnlyPreparedSent` |
| `MultiProcessProofs` | |
| `ProcessesInductive` | `[]IInv`, if the two processes have a lcore each |
| `ProcessesTyped` | `[]TypeOK`, and with it that no null pointer is stamped, enqueued, processed or freed (`HandsMatch`) and no slot a cache counts on is empty (`SlotsFilled`), likewise |
| `ProcessesOwnership`, `PrimaryIsNotStarved`, `TimestampsDoAscend` | `[]OneOwner`, `[]PrimaryNotStarved`, `[]TimestampsAscend`, likewise |
| `PoolIsRefined` | `PoolRefined`, likewise |

The hypothesis `OwnLcores` of tutorial 8's theorems is the operator's choice, not
the code's. It is needed: `multiprocess_same_lcore` shows what happens without it.

### 5.1 The common argument: owners

`OneOwner` says in each module that the places in `Held` share no mbuf (and, but
for tutorial 8, hold all of the pool), and every action moves mbufs between two
or three places. `OwnershipFacts` proves once, for any number of places, that
an exchange among three (`ExchangeKeepsOwners`) keeps an mbuf from being in two places
or in none, and derives the three kinds that occur: a move (`MovedKeepsOwners`),
an allocation (`TakenKeepsOwners`) and a free (`GivenKeepsOwners`). The case of an
action then only names its places and shows that together they still hold the
same mbufs. That comes from `MempoolProofs` (what an allocation takes and a free
adds, over all disjuncts of the pool) and from the rest of `OwnershipFacts` (what
`Append`, `Tail` and a cut do to the range of a sequence without repeats).

All *not starved* theorems and `NoDrop` count on top of it: the places an
allocation cannot reach are bounded one by one, descriptors by the size of the
queue, caches by their threshold (`CachesBounded`, from `MempoolProofs`), the ring
by its slots, so a larger pool has an mbuf within reach. `NoDrop` counts the
other way: ring and packet in hand are a sequence without repeats, which is no
longer than the pool (`InjectiveIsShort`).

### 5.2 The inductive invariants

Each module ends with its `IInv`: the type invariant, `OneOwner` and what these and
the other properties need to be inductive. (`INVARIANT IInv` can be put into the
configuration of any passing run.)

* *Bring-up, in all programs but 8.* `EalFollowsMain`: the EAL is up from main's
  first call to its last, since that call comes first and only once (`EalIsFirst`).
  Where a property is about what the calls have left, it also needs that those
  still to be made are the tail of `CallsOf(tutorial)` (`CallsMadeInOrder`) and that no
  later call undoes what one has left (`ResultsKept`); `PortBringUpProofs` proves all
  three for every program's list.
* *Pipeline.* `BurstsMatch`: a routine has a packet in its hands just where the code
  handles one, or `Head` of an empty burst might be released. `WorkerInsideMain`: the
  worker is idle until it is launched and done when main has left. `QueueFits`: the
  queue holds no more mbufs than descriptors. Order and refinement are proved over
  the packets under way (`UnderWay`): each step appends one to them, removes the
  head, cuts one out of an overflowing ring, or leaves them alone (`WayStep`).
  These four cases are the actions of `PacketChannel` and a stutter; that the
  numbers of the packets ascend along the way, an invariant on top of `IInv`, is what
  `InOrder` says.
* *Receive side scaling.* `QueuesFollowMain`: the variable names queue 1 until main
  overwrites it and queue 0 whenever main itself reads it. Once the worker has read
  its queue id before that, each lcore has a queue of its own and keeps it
  (`OwnQueues`), which is `EarlyReaderIsSafe`.
* *Single lcore.* `LabelsMatch`: each tutorial stays in its part of the loop.
  `QueuesMatch`: only queues that were set up hold mbufs. `CountsMatch`: sent by the
  port + still queued = counted by the loop, but for the packet just accepted.
  `FlagsMatch`: in tutorial 5 everything in hand or queued is flagged, elsewhere
  nothing is.
* *Generator.* `OwnPoolOnly` and `PhasesMatch`: who holds mbufs in which phase, and that
  all are prepared once the routine starts. `RateKept`, for `NeverAheadOfRate`: all
  packets taken so far, those of the burst just begun included, fit into the
  intervals that end before the time of the next burst, `t1 - interburst_time`,
  which is not later than the last reading of the clock.
* *Multi-process.* `HandsMatch` and `SlotsFilled` make `TypeOK` inductive: no slot below
  the length of a cache, or below a length that was loaded, is empty.
  `LoadedIsLength`: the length loaded is still that of the cache
  when the process stores another. So the two steps of a call take one mbuf
  from the first slots of an array, or add one (`OneSlotLess`, `OneSlotMore`,
  `AllocInStores`, `FreeInStores`), which is at once a move for `OneOwner` and an operation
  of `Mempool` for `PoolIsRefined`. `StoresFollowPrimary`: the pool and the ring come and
  go with the primary. `NoneTwice`: no mbuf is in two places even when there is no
  ring; nor in two slots of a cache, without which a length would not be a number
  of mbufs. `StampsAscend`: timestamps ascend from the packet last processed, over the
  secondary's hands and the ring, to the packet about to be enqueued. A stamp is
  written to an mbuf that by `OneOwner` is not on that way.

### 5.3 Only model-checked

All liveness: `SignalEndsProgram`, `EveryPacketSettles`, `OwnedQueueDrains`, `KeepsSending`,
`KeepsReceiving`, `DueBurstsAreSent`, `SignalEndsProcess`, `ReaderDrainsRing`. Each rests on
fairness, whose proof needs `ENABLED`, which the prover does not support. Nothing else of the
passing runs is left to them alone.

## 6. Not modelled

* Tutorial 11: straight-line code around one pure function of DPDK
  (`rte_softrss`) whose definition is not in the repository. It has no state, and
  a model of it would be one of DPDK's code.
* Build files and `setup_dpdk_env.sh`: no state of their own.
* Which statistics are due when, and the time a rate is divided by (T4:188,
  T9:297-313): `system_clock` may be set, so a reading may come at any time.
* The clock of tutorial 8 only advances. `CLOCK_REALTIME` can be set back.
* Kills inside a DPDK call, and the order of the stores inside a pool call (2.7):
  DPDK's internal steps are not in the repository.
* What follows a dequeue from the freed ring (T8:284) or the use of a null pool (T2:102,
  T7:121): both are undefined. The end of a generator whose port does not send
  (T9:411-413): `SignalEndsProgram` assumes that it does.
* Contents of headers, formatting, logging, lengths of sleeps, and what
  `rte_eth_promiscuous_enable` does: no property tells them apart.
* What the wire carries when a packet asks for a checksum the port was not
  configured for (T9:403): the driver decides.

## 7. Plan

All programs with state are modelled, and every safety property the passing runs
check is proved. What is left:

1. What the proofs need of `MempoolProofs` is stated for one allocation or free at a
   time; that its operations implement a pool without caches that may refuse a
   request would say in one place what an lcore can rely on.
2. The bring-up as an abstract specification of its own (up, running, down), which
   every program's calls implement.
3. The findings stay with TLC: a counterexample is what they are.
