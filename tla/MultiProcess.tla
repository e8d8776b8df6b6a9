---------------------------- MODULE MultiProcess ----------------------------
(***************************************************************************)
(* Tutorial 8, multiprocess-communication.  A primary process allocates    *)
(* buffers, writes a timestamp into each and enqueues them in a ring that  *)
(* lies in shared memory; a secondary process, which may be stopped and    *)
(* started again, dequeues and frees them.                                 *)
(*                                                                         *)
(* The pool lies in shared memory as well, its caches included: a process  *)
(* uses the cache of the lcore it was started on.  A call into the pool    *)
(* first loads the length of that cache and later stores it with the rest  *)
(* of its effect, and nothing orders two processes on the same cache.      *)
(* With a lcore of its own for each process the two steps amount to one of *)
(* Mempool's operations (PoolRefined).  DPDK's second step is itself not   *)
(* atomic: the length is stored before the mbuf is copied to or from the   *)
(* array.  Nobody else looks at the cache of a lcore that has one process; *)
(* two processes on one cache can do more than this module lets them, so   *)
(* that for them it shows what can happen, never what cannot.              *)
(*                                                                         *)
(* A dequeue from the ring after the primary has freed it, and the use of  *)
(* an invalid timestamp offset, are undefined: that process has no step    *)
(* after it.                                                               *)
(***************************************************************************)
EXTENDS Integers, Sequences, FiniteSets, Functions

CONSTANTS
  Primary, Secondary,             \* the two processes
  PrimaryLcore, SecondaryLcore,   \* --lcores of each
  Mbufs, CacheSize,               \* 2047 mbufs, caches of 512
  RingCapacity,                   \* 511 slots
  NoMbuf,                         \* a null pointer
  OffsetSpace,                    \* offsets are unsigned: 0 .. OffsetSpace - 1
  MaxStamps,                      \* bound on the packets generated
  MaxStarts,                      \* bound on the starts of the secondary
  MaxKills                        \* bound on the kills of the secondary

ASSUME MultiProcessAssumption ==
  /\ Primary # Secondary
  /\ IsFiniteSet(Mbufs) /\ NoMbuf \notin Mbufs
  /\ CacheSize \in Nat \ {0}
  /\ RingCapacity \in Nat \ {0}
  /\ OffsetSpace \in Nat \ {0, 1}
  /\ MaxStamps \in Nat /\ MaxStarts \in Nat /\ MaxKills \in Nat

Procs == {Primary, Secondary}
Lcores == {PrimaryLcore, SecondaryLcore}
FlushThresh == (3 * CacheSize) \div 2
Slots == 1 .. FlushThresh + 1

VARIABLES
  exit_indicator,   \* of each process
  timestamp_dynfield_offset,   \* of each process
  common,           \* the pool's common store
  objs, len,        \* the array and the length of each lcore's cache
  ring,             \* the ring's contents
  ring_state,       \* "absent", "live" or "freed"
  stamp, now,       \* the timestamp in each mbuf, and the clock
  lastTimestamp,    \* the secondary's local variable
  hand,             \* the packet each process works on
  loaded,           \* the cache length it has loaded
  starts, kills,    \* how often the secondary was started and killed
  pc

configVars == <<exit_indicator, timestamp_dynfield_offset>>
storeVars == <<common, objs, len>>
ringVars == <<ring, ring_state>>
stampVars == <<stamp, now, lastTimestamp>>
runVars == <<starts, kills>>
vars == <<exit_indicator, timestamp_dynfield_offset, common, objs, len, ring,
          ring_state, stamp, now, lastTimestamp, hand, loaded, starts, kills,
          pc>>

(* rte_lcore_id(): main runs on the only lcore the process was given.      *)
CacheOf_Shared(p) == PrimaryLcore                            \* faulty variant
CacheOf(p) == IF p = Primary THEN PrimaryLcore ELSE SecondaryLcore

(* An int stored in the uint64_t offset; -1 is what a failure returns.     *)
Unsigned(n) == n % OffsetSpace
Registered(offset) == offset # Unsigned(-1)

Goto(p, label) == pc' = [pc EXCEPT ![p] = label]

Init ==
  /\ exit_indicator = [p \in Procs |-> FALSE]
  /\ timestamp_dynfield_offset = [p \in Procs |-> 0]
  /\ common = {}
  /\ objs = [l \in Lcores |-> [i \in Slots |-> NoMbuf]]
  /\ len = [l \in Lcores |-> 0]
  /\ ring = <<>> /\ ring_state = "absent"
  /\ stamp = [m \in Mbufs |-> 0] /\ now = 0 /\ lastTimestamp = 0
  /\ hand = [p \in Procs |-> NoMbuf]
  /\ loaded = [p \in Procs |-> 0]
  /\ starts = 0 /\ kills = 0
  /\ pc = [p \in Procs |-> IF p = Primary THEN "register" ELSE "off"]

-----------------------------------------------------------------------------
(* The operator: signals, kills and restarts.                              *)

Terminate(p) ==
  /\ pc[p] \notin {"off", "exited", "undefined"}
  /\ exit_indicator' = [exit_indicator EXCEPT ![p] = TRUE]
  /\ UNCHANGED <<timestamp_dynfield_offset, storeVars, ringVars, stampVars, hand,
                 loaded, runVars, pc>>

(* The secondary is started, for the first time or again.                  *)
Start ==
  /\ pc[Secondary] \in {"off", "exited"}
  /\ pc[Primary] # "exited"
  /\ starts < MaxStarts
  /\ starts' = starts + 1
  /\ exit_indicator' = [exit_indicator EXCEPT ![Secondary] = FALSE]
  /\ lastTimestamp' = 0
  /\ hand' = [hand EXCEPT ![Secondary] = NoMbuf]
  /\ Goto(Secondary, "register")
  /\ UNCHANGED <<timestamp_dynfield_offset, storeVars, ringVars, stamp, now,
                 loaded, kills>>

(* The secondary is killed between two of its calls into DPDK.             *)
Kill ==
  /\ pc[Secondary] \in {"check", "process"}
  /\ kills < MaxKills
  /\ kills' = kills + 1
  /\ hand' = [hand EXCEPT ![Secondary] = NoMbuf]
  /\ Goto(Secondary, "exited")
  /\ UNCHANGED <<configVars, storeVars, ringVars, stampVars, loaded, starts>>

-----------------------------------------------------------------------------
(* main of both.                                                           *)

(* The EAL, an argument or the number of lcores is not as it must be.      *)
StartFails(p) ==
  /\ pc[p] = "register"
  /\ Goto(p, "exited")
  /\ UNCHANGED <<configVars, storeVars, ringVars, stampVars, hand, loaded, runVars>>

(* Both processes get the same offset, or -1.  The unsigned result is      *)
(* compared with zero.                                                     *)
RegistrationFailed(offset) == offset < 0

Register(p) ==
  /\ pc[p] = "register"
  /\ \E offset \in {0, -1} :
       /\ timestamp_dynfield_offset' =
            [timestamp_dynfield_offset EXCEPT ![p] = Unsigned(offset)]
       /\ Goto(p, IF RegistrationFailed(Unsigned(offset)) THEN "exited"
                  ELSE IF p = Primary THEN "create" ELSE "lookup")
  /\ UNCHANGED <<exit_indicator, storeVars, ringVars, stampVars, hand, loaded,
                 runVars>>

CreatePool ==
  /\ pc[Primary] = "create"
  /\ common' = Mbufs
  /\ Goto(Primary, "createRing")
  /\ UNCHANGED <<configVars, objs, len, ringVars, stampVars, hand, loaded, runVars>>

CreateRing ==
  /\ pc[Primary] = "createRing"
  /\ ring_state' = "live"
  /\ Goto(Primary, "check")
  /\ UNCHANGED <<configVars, storeVars, ring, stampVars, hand, loaded, runVars>>

CreateFails ==
  /\ pc[Primary] \in {"create", "createRing"}
  /\ Goto(Primary, "exited")
  /\ UNCHANGED <<configVars, storeVars, ringVars, stampVars, hand, loaded, runVars>>

Lookup ==
  /\ pc[Secondary] = "lookup"
  /\ Goto(Secondary, IF ring_state = "live" THEN "check" ELSE "exited")
  /\ UNCHANGED <<configVars, storeVars, ringVars, stampVars, hand, loaded, runVars>>

(* The primary leaves its routine, sleeps for 500 ms and frees the ring,   *)
(* wherever the secondary is.                                              *)
FreeRing ==
  /\ pc[Primary] = "sleep"
  /\ ring_state' = "freed"
  /\ ring' = <<>>
  /\ Goto(Primary, "exited")
  /\ UNCHANGED <<configVars, storeVars, stampVars, hand, loaded, runVars>>

-----------------------------------------------------------------------------
(* The pool: what rte_pktmbuf_alloc and rte_pktmbuf_free do to the cache   *)
(* of the caller's lcore.                                                  *)

LoadLength(p, label) ==
  /\ loaded' = [loaded EXCEPT ![p] = len[CacheOf(p)]]
  /\ Goto(p, label)
  /\ UNCHANGED <<configVars, storeVars, ringVars, stampVars, hand, runVars>>

TakeFromCache(p) ==
  /\ loaded[p] > 0
  /\ hand' = [hand EXCEPT ![p] = objs[CacheOf(p)][loaded[p]]]
  /\ len' = [len EXCEPT ![CacheOf(p)] = loaded[p] - 1]
  /\ UNCHANGED <<common, objs>>

TakeAndRefill(p) ==
  /\ loaded[p] = 0
  /\ \E batch \in Injection(1 .. CacheSize + 1, common) :
       /\ objs' = [objs EXCEPT ![CacheOf(p)] =
                     [i \in Slots |-> IF i \in DOMAIN batch THEN batch[i] ELSE @[i]]]
       /\ common' = common \ Range(batch)
       /\ hand' = [hand EXCEPT ![p] = batch[CacheSize + 1]]
  /\ len' = [len EXCEPT ![CacheOf(p)] = CacheSize]

TakeFromCommon(p) ==
  /\ loaded[p] = 0
  /\ Cardinality(common) <= CacheSize
  /\ \E m \in common :
       /\ common' = common \ {m}
       /\ hand' = [hand EXCEPT ![p] = m]
  /\ UNCHANGED <<objs, len>>

NothingToTake(p) == loaded[p] = 0 /\ common = {}

(* One step for the length and the mbuf, which DPDK stores in this order.  *)
PutToCache(p) ==
  /\ loaded[p] + 1 <= FlushThresh
  /\ objs' = [objs EXCEPT ![CacheOf(p)][loaded[p] + 1] = hand[p]]
  /\ len' = [len EXCEPT ![CacheOf(p)] = loaded[p] + 1]
  /\ UNCHANGED common

PutAndFlush(p) ==
  /\ loaded[p] + 1 > FlushThresh
  /\ common' = common \cup {objs[CacheOf(p)][i] : i \in 1 .. loaded[p]}
  /\ objs' = [objs EXCEPT ![CacheOf(p)][1] = hand[p]]
  /\ len' = [len EXCEPT ![CacheOf(p)] = 1]

-----------------------------------------------------------------------------
(* generate_packets and process_packets.                                   *)

KeepPolling_Always(p) == TRUE                                \* faulty variant
KeepPolling(p) == ~exit_indicator[p]

(* while (!exit_indicator); the guard on now is the bound of the model.    *)
CheckExit(p) ==
  /\ pc[p] = "check"
  /\ IF KeepPolling(p)
     THEN \/ p = Primary /\ now < MaxStamps /\ Goto(p, "alloc")
          \/ p = Secondary /\ Goto(p, "dequeue")
     ELSE Goto(p, IF p = Primary THEN "sleep" ELSE "exited")
  /\ UNCHANGED <<configVars, storeVars, ringVars, stampVars, hand, loaded, runVars>>

AllocBegins == pc[Primary] = "alloc" /\ LoadLength(Primary, "take")

AllocEnds ==
  /\ pc[Primary] = "take"
  /\ TakeFromCache(Primary) \/ TakeAndRefill(Primary) \/ TakeFromCommon(Primary)
  /\ Goto(Primary, "stamp")
  /\ UNCHANGED <<configVars, ringVars, stampVars, loaded, runVars>>

AllocFails ==
  /\ pc[Primary] = "take"
  /\ NothingToTake(Primary)
  /\ Goto(Primary, "check")
  /\ UNCHANGED <<configVars, storeVars, ringVars, stampVars, hand, loaded, runVars>>

Stamp ==
  /\ pc[Primary] = "stamp"
  /\ now' = now + 1
  /\ stamp' = [stamp EXCEPT ![hand[Primary]] = now + 1]
  /\ Goto(Primary, IF Registered(timestamp_dynfield_offset[Primary])
                   THEN "enqueue" ELSE "undefined")
  /\ UNCHANGED <<configVars, storeVars, ringVars, lastTimestamp, hand, loaded,
                 runVars>>

RingFull_OneMore == Len(ring) = RingCapacity + 1            \* faulty variant
RingFull == Len(ring) = RingCapacity

RingWith_InFront(m) == <<m>> \o ring                         \* faulty variant
RingWith(m) == Append(ring, m)

Enqueue ==
  /\ pc[Primary] = "enqueue"
  /\ ~RingFull
  /\ ring' = RingWith(hand[Primary])
  /\ hand' = [hand EXCEPT ![Primary] = NoMbuf]
  /\ Goto(Primary, "check")
  /\ UNCHANGED <<configVars, storeVars, ring_state, stampVars, loaded, runVars>>

(* A full ring: the packet just generated is freed.                        *)
AfterFull_Forget == "check"                                  \* faulty variant
AfterFull == "free"

EnqueueFails ==
  /\ pc[Primary] = "enqueue"
  /\ RingFull
  /\ Goto(Primary, AfterFull)
  /\ UNCHANGED <<configVars, storeVars, ringVars, stampVars, hand, loaded, runVars>>

FreeBegins(p) == pc[p] = "free" /\ LoadLength(p, "put")

FreeEnds(p) ==
  /\ pc[p] = "put"
  /\ PutToCache(p) \/ PutAndFlush(p)
  /\ hand' = [hand EXCEPT ![p] = NoMbuf]
  /\ Goto(p, "check")
  /\ UNCHANGED <<configVars, ringVars, stampVars, loaded, runVars>>

(* The burst has room for one packet.  An empty ring: sleep and continue.  *)
Dequeue ==
  /\ pc[Secondary] = "dequeue"
  /\ IF ring = <<>>
     THEN /\ Goto(Secondary, IF ring_state = "live" THEN "check" ELSE "undefined")
          /\ UNCHANGED <<ring, hand>>
     ELSE /\ hand' = [hand EXCEPT ![Secondary] = Head(ring)]
          /\ ring' = Tail(ring)
          /\ Goto(Secondary, "process")
  /\ UNCHANGED <<configVars, storeVars, ring_state, stampVars, loaded, runVars>>

AfterProcess_Keep == "check"                                 \* faulty variant
AfterProcess_Again == "process"                              \* faulty variant
AfterProcess == "free"

Process ==
  /\ pc[Secondary] = "process"
  /\ lastTimestamp' = stamp[hand[Secondary]]
  /\ Goto(Secondary, IF Registered(timestamp_dynfield_offset[Secondary])
                     THEN AfterProcess ELSE "undefined")
  /\ UNCHANGED <<configVars, storeVars, ringVars, stamp, now, hand, loaded, runVars>>

-----------------------------------------------------------------------------
PrimaryStep ==
  \/ StartFails(Primary) \/ Register(Primary)
  \/ CreatePool \/ CreateRing \/ CreateFails
  \/ CheckExit(Primary) \/ AllocBegins \/ AllocEnds \/ AllocFails
  \/ Stamp \/ Enqueue \/ EnqueueFails
  \/ FreeBegins(Primary) \/ FreeEnds(Primary) \/ FreeRing

SecondaryStep ==
  \/ StartFails(Secondary) \/ Register(Secondary) \/ Lookup
  \/ CheckExit(Secondary) \/ Dequeue \/ Process
  \/ FreeBegins(Secondary) \/ FreeEnds(Secondary)

OperatorStep == (\E p \in Procs : Terminate(p)) \/ Start \/ Kill

undefined == \E p \in Procs : pc[p] = "undefined"

(* The primary has ended, or a process has no step any more.               *)
Ended == (undefined \/ pc[Primary] = "exited") /\ UNCHANGED vars

Next == PrimaryStep \/ SecondaryStep \/ OperatorStep \/ Ended

Spec == Init /\ [][Next]_vars

(* Each process is scheduled and no call it makes blocks; nothing obliges  *)
(* the operator to do anything.                                            *)
FairSpec ==
  /\ Spec
  /\ WF_vars(PrimaryStep)
  /\ WF_vars(SecondaryStep)

-----------------------------------------------------------------------------
PrimaryLabels ==
  {"register", "create", "createRing", "check", "alloc", "take", "stamp",
   "enqueue", "free", "put", "sleep", "exited", "undefined"}
SecondaryLabels ==
  {"off", "register", "lookup", "check", "dequeue", "process", "free", "put",
   "exited", "undefined"}

TypeOK ==
  /\ exit_indicator \in [Procs -> BOOLEAN]
  /\ timestamp_dynfield_offset \in [Procs -> {0, Unsigned(-1)}]
  /\ common \in SUBSET Mbufs
  /\ objs \in [Lcores -> [Slots -> Mbufs \cup {NoMbuf}]]
  /\ len \in [Lcores -> 0 .. FlushThresh]
  /\ ring \in Seq(Mbufs) /\ Len(ring) <= RingCapacity
  /\ ring_state \in {"absent", "live", "freed"}
  /\ stamp \in [Mbufs -> 0 .. MaxStamps]
  /\ now \in 0 .. MaxStamps /\ lastTimestamp \in 0 .. MaxStamps
  /\ hand \in [Procs -> Mbufs \cup {NoMbuf}]
  /\ loaded \in [Procs -> 0 .. FlushThresh]
  /\ starts \in 0 .. MaxStarts /\ kills \in 0 .. MaxKills
  /\ pc[Primary] \in PrimaryLabels /\ pc[Secondary] \in SecondaryLabels

Cached(l) == {objs[l][i] : i \in 1 .. len[l]}
InHand(p) == {hand[p]} \ {NoMbuf}

Held ==
  << common, Cached(PrimaryLcore), Cached(SecondaryLcore), Range(ring),
     InHand(Primary), InHand(Secondary) >>

(* While both processes and the ring live, no mbuf is in two places, and   *)
(* each kill of the secondary costs the pool one mbuf at most: ends and    *)
(* restarts it was asked for cost none (main.cpp:72, 98, 119-151).         *)
OneOwner ==
  ring_state = "live" =>
    /\ \A g, h \in 1 .. 6 : g # h => Held[g] \cap Held[h] = {}
    /\ IsInjective(ring)
    /\ Cardinality(Mbufs \ UNION Range(Held)) <= kills

(* The secondary's own check: a received timestamp is never less than the  *)
(* one before it (main.cpp:145-148).                                       *)
TimestampsAscend ==
  pc[Secondary] = "process" => lastTimestamp <= stamp[hand[Secondary]]

(* The two steps of each call into the pool amount to one operation of     *)
(* Mempool, whatever the other process does in between (main.cpp:72, 151). *)
Pool == INSTANCE Mempool WITH cache <- [l \in Lcores |-> Cached(l)]

PoolRefined ==
  [][ pc[Primary] # "create" =>
        \E l \in Lcores, m \in Mbufs : Pool!Alloc(l, m) \/ Pool!Free(l, m)
    ]_<<common, [l \in Lcores |-> Cached(l)]>>

(* With more mbufs than the ring, the secondary's cache, its hand and its  *)
(* kills have taken, the primary's allocation does not fail (main.cpp:73). *)
PrimaryNotStarved ==
  (/\ pc[Primary] = "take"
   /\ Cardinality(Mbufs) > RingCapacity + FlushThresh + 1 + kills)
    => ~NothingToTake(Primary)

(* A registration that fails ends the program (main.cpp:239-242).          *)
FailedRegistrationEnds ==
  \A p \in Procs :
    Registered(timestamp_dynfield_offset[p]) \/ pc[p] \in {"register", "exited"}

(* Each process ends when it is told to (main.cpp:67, 119).                *)
SignalEndsProcess ==
  \A p \in Procs :
    exit_indicator[p] ~> (~exit_indicator[p] \/ pc[p] = "exited" \/ undefined)

(* A secondary that keeps running takes every packet out of the ring       *)
(* (main.cpp:119-122).                                                     *)
ReaderDrainsRing ==
  \A m \in Mbufs :
    (m \in Range(ring) /\ pc[Secondary] = "check") ~>
      (m \notin Range(ring) \/ exit_indicator[Secondary]
         \/ pc[Secondary] = "exited" \/ undefined)

-----------------------------------------------------------------------------
(* What the invariants need to be inductive.  A process has a packet in    *)
(* its hands between the call that gets it and the call that gives it away *)
(* ...                                                                     *)
HandsMatch ==
  \A p \in Procs :
    /\ pc[p] \in {"stamp", "enqueue", "process", "free", "put"} => hand[p] \in Mbufs
    /\ pc[p] \notin {"stamp", "enqueue", "process", "free", "put", "undefined"}
         => hand[p] = NoMbuf

(* ... no slot below the length of a cache, or below one that was loaded,  *)
(* is empty ...                                                            *)
SlotsFilled ==
  /\ \A l \in Lcores : \A i \in 1 .. len[l] : objs[l][i] \in Mbufs
  /\ \A p \in Procs : \A i \in 1 .. loaded[p] : objs[CacheOf(p)][i] \in Mbufs

(* ... and the clock has a tick left for the packet being generated.       *)
TypeInv ==
  /\ TypeOK /\ HandsMatch /\ SlotsFilled
  /\ DOMAIN pc = Procs
  /\ pc[Primary] \in {"alloc", "take", "stamp"} => now < MaxStamps

(* With a lcore each, the length a process has loaded is that of its cache *)
(* until it stores another ...                                             *)
LoadedIsLength ==
  \A p \in Procs : pc[p] \in {"take", "put"} => loaded[p] = len[CacheOf(p)]

(* ... the pool and the ring come and go with the primary ...              *)
StoresFollowPrimary ==
  /\ pc[Primary] \in {"register", "create", "createRing"} => ring_state = "absent"
  /\ pc[Primary] \in PrimaryLabels \ {"register", "create", "createRing", "exited"}
       => ring_state = "live"
  /\ ring_state = "absent" =>
       /\ ring = <<>> /\ \A l \in Lcores : len[l] = 0
       /\ pc[Secondary] \in {"off", "register", "lookup", "exited"}
  /\ pc[Primary] \in {"register", "create"} => common = {}
  /\ pc[Primary] = "createRing" => common = Mbufs

(* ... no mbuf is in two places, even before and after the ring's life ... *)
NoneTwice ==
  /\ \A g, h \in 1 .. 6 : g # h => Held[g] \cap Held[h] = {}
  /\ IsInjective(ring)
  /\ \A l \in Lcores : \A i, j \in 1 .. len[l] : objs[l][i] = objs[l][j] => i = j

(* ... and the timestamps ascend from the packet last processed over the   *)
(* one in the secondary's hands and those in the ring to the one that is   *)
(* about to be enqueued.                                                   *)
Way == (IF pc[Secondary] = "process" THEN <<hand[Secondary]>> ELSE <<>>)
         \o ring \o (IF pc[Primary] = "enqueue" THEN <<hand[Primary]>> ELSE <<>>)

StampsAscend ==
  /\ \A m \in Mbufs : stamp[m] <= now
  /\ pc[Primary] = "enqueue" => stamp[hand[Primary]] = now
  /\ lastTimestamp <= now
  /\ \A i \in 1 .. Len(Way) : lastTimestamp <= stamp[Way[i]]
  /\ \A i, j \in 1 .. Len(Way) : i < j => stamp[Way[i]] <= stamp[Way[j]]

IInv ==
  /\ TypeInv /\ LoadedIsLength /\ StoresFollowPrimary
  /\ NoneTwice /\ OneOwner /\ StampsAscend

=============================================================================
