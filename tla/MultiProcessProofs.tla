------------------------- MODULE MultiProcessProofs -------------------------
(***************************************************************************)
(* What is proved of MultiProcess for every pool, ring and bound, if each  *)
(* process has a lcore of its own: types are kept and no null pointer is   *)
(* used, every mbuf has one owner, the primary is not starved, timestamps  *)
(* ascend, and the two steps of each call into the pool implement one      *)
(* operation of Mempool.                                                   *)
(***************************************************************************)
EXTENDS MultiProcess, OwnershipFacts, TLAPS

(* The two processes, and the caches of the lcores they run on.            *)
LEMMA TwoProcs ==
  /\ Primary \in Procs /\ Secondary \in Procs /\ Primary # Secondary
  /\ \A p \in Procs : p = Primary \/ p = Secondary
  /\ \A p \in Procs : CacheOf(p) \in Lcores
  /\ \A l \in Lcores : l = PrimaryLcore \/ l = SecondaryLcore
  /\ CacheOf(Primary) = PrimaryLcore /\ CacheOf(Secondary) = SecondaryLcore
BY MultiProcessAssumption DEF Procs, Lcores, CacheOf

(* A cache has room for what a refill brings, and a slot to spare.         *)
LEMMA Sizes ==
  /\ FlushThresh \in Nat \ {0} /\ CacheSize \in Nat \ {0}
  /\ CacheSize <= FlushThresh /\ Slots = 1 .. FlushThresh + 1
BY MultiProcessAssumption DEF FlushThresh, Slots

(* Both results of the registration are offsets.                           *)
LEMMA Offsets ==
  \A offset \in {0, -1} : Unsigned(offset) \in {0, Unsigned(-1)}
<1>1. 0 % OffsetSpace = 0
  BY MultiProcessAssumption
<1> QED BY <1>1 DEF Unsigned

-----------------------------------------------------------------------------
(* Types: what an array holds.                                             *)

Arrays == [Lcores -> [Slots -> Mbufs \cup {NoMbuf}]]
Lengths == [Lcores -> 0 .. FlushThresh]

(* The slots a cache or a process counts on hold mbufs.                    *)
Filled(o, n, ld) ==
  /\ \A l \in Lcores : \A i \in 1 .. n[l] : o[l][i] \in Mbufs
  /\ \A p \in Procs : \A i \in 1 .. ld[p] : o[CacheOf(p)][i] \in Mbufs

(* Writing mbufs over some slots of a cache, and a length that counts on   *)
(* slots loaded or written, leaves them filled.                            *)
LEMMA WriteFills ==
  ASSUME NEW o \in Arrays, NEW n \in Lengths, NEW l \in Lcores,
         NEW a \in [Slots -> Mbufs \cup {NoMbuf}], NEW k \in 0 .. FlushThresh,
         \A i \in Slots : o[l][i] \in Mbufs => a[i] \in Mbufs,
         \A i \in 1 .. k : a[i] \in Mbufs,
         NEW fs \in [Procs -> 0 .. FlushThresh], Filled(o, n, fs)
  PROVE  /\ [o EXCEPT ![l] = a] \in Arrays /\ [n EXCEPT ![l] = k] \in Lengths
         /\ Filled([o EXCEPT ![l] = a], [n EXCEPT ![l] = k], fs)
<1>1. [o EXCEPT ![l] = a] \in Arrays /\ [n EXCEPT ![l] = k] \in Lengths
  BY DEF Arrays, Lengths
<1>2. \A c \in Lcores : \A i \in Slots :
        o[c][i] \in Mbufs => [o EXCEPT ![l] = a][c][i] \in Mbufs
  BY DEF Arrays
<1>3. /\ \A c \in Lcores : n[c] \in 0 .. FlushThresh
      /\ \A p \in Procs : fs[p] \in 0 .. FlushThresh /\ CacheOf(p) \in Lcores
      /\ FlushThresh \in Nat /\ Slots = 1 .. FlushThresh + 1
  BY TwoProcs, Sizes DEF Lengths
<1>4. ASSUME NEW c \in Lcores, NEW i \in 1 .. [n EXCEPT ![l] = k][c]
      PROVE  [o EXCEPT ![l] = a][c][i] \in Mbufs
  <2>1. CASE c = l
    BY <1>4, <2>1 DEF Arrays, Lengths
  <2>2. CASE c # l
    BY <1>2, <1>3, <1>4, <2>2 DEF Filled, Lengths
  <2> QED BY <2>1, <2>2
<1>5. ASSUME NEW p \in Procs, NEW i \in 1 .. fs[p]
      PROVE  [o EXCEPT ![l] = a][CacheOf(p)][i] \in Mbufs
  BY <1>2, <1>3, <1>5 DEF Filled
<1> QED BY <1>1, <1>4, <1>5 DEF Filled

(* What the pool's part of the state must be.                              *)
StoresTyped ==
  /\ common \in SUBSET Mbufs /\ objs \in Arrays /\ len \in Lengths
  /\ loaded \in [Procs -> 0 .. FlushThresh]
  /\ hand \in [Procs -> Mbufs \cup {NoMbuf}]
  /\ Filled(objs, len, loaded)

(* An allocation ends with an mbuf in the primary's hands ...              *)
LEMMA AllocFills ==
  ASSUME StoresTyped, AllocEnds
  PROVE  /\ common' \in SUBSET Mbufs /\ objs' \in Arrays /\ len' \in Lengths
         /\ Filled(objs', len', loaded)
         /\ \E m \in Mbufs : hand' = [hand EXCEPT ![Primary] = m]
<1> DEFINE l == PrimaryLcore
           k == loaded[Primary]
<1>1. /\ l \in Lcores /\ CacheOf(Primary) = l /\ Primary \in Procs
      /\ k \in 0 .. FlushThresh
      /\ FlushThresh \in Nat /\ CacheSize \in Nat /\ CacheSize <= FlushThresh
      /\ Slots = 1 .. FlushThresh + 1
      /\ objs[l] \in [Slots -> Mbufs \cup {NoMbuf}]
      /\ \A i \in 1 .. k : objs[l][i] \in Mbufs
  BY TwoProcs, Sizes DEF StoresTyped, Arrays, Filled
<1>2. objs = [objs EXCEPT ![l] = objs[l]] /\ len = [len EXCEPT ![l] = len[l]]
  BY DEF StoresTyped, Arrays, Lengths
<1>3. CASE TakeFromCache(Primary)
  <2>1. k - 1 \in 0 .. FlushThresh /\ k \in 1 .. k /\ objs[l][k] \in Mbufs
    BY <1>1, <1>3 DEF TakeFromCache
  <2>2. \A i \in 1 .. k - 1 : objs[l][i] \in Mbufs
    BY <1>1, <2>1
  <2>3. /\ [objs EXCEPT ![l] = objs[l]] \in Arrays
        /\ [len EXCEPT ![l] = k - 1] \in Lengths
        /\ Filled([objs EXCEPT ![l] = objs[l]], [len EXCEPT ![l] = k - 1], loaded)
    BY <1>1, <2>1, <2>2, WriteFills DEF StoresTyped
  <2>4. /\ common' = common /\ objs' = objs /\ len' = [len EXCEPT ![l] = k - 1]
        /\ hand' = [hand EXCEPT ![Primary] = objs[l][k]]
    BY <1>1, <1>3 DEF TakeFromCache
  <2> QED BY <1>2, <2>1, <2>3, <2>4 DEF StoresTyped
<1>4. CASE TakeAndRefill(Primary)
  <2>1. PICK batch \in Injection(1 .. CacheSize + 1, common) :
          /\ objs' = [objs EXCEPT ![CacheOf(Primary)] =
                        [i \in Slots |-> IF i \in DOMAIN batch THEN batch[i] ELSE @[i]]]
          /\ common' = common \ Range(batch)
          /\ hand' = [hand EXCEPT ![Primary] = batch[CacheSize + 1]]
    BY <1>4, Zenon DEF TakeAndRefill
  <2> DEFINE a == [i \in Slots |->
                     IF i \in 1 .. CacheSize + 1 THEN batch[i] ELSE objs[l][i]]
  <2>2. /\ DOMAIN batch = 1 .. CacheSize + 1
        /\ \A i \in 1 .. CacheSize + 1 : batch[i] \in common /\ batch[i] \in Mbufs
    BY <2>1 DEF Injection, StoresTyped
  <2>3. /\ a \in [Slots -> Mbufs \cup {NoMbuf}]
        /\ \A i \in Slots : objs[l][i] \in Mbufs => a[i] \in Mbufs
        /\ \A i \in 1 .. CacheSize : a[i] \in Mbufs
    BY <1>1, <2>2
  <2>4. objs' = [objs EXCEPT ![l] = a] /\ len' = [len EXCEPT ![l] = CacheSize]
    <3>1. objs' = [objs EXCEPT ![l] = [i \in Slots |->
                     IF i \in 1 .. CacheSize + 1 THEN batch[i] ELSE objs[l][i]]]
      BY <1>1, <2>1, <2>2 DEF StoresTyped, Arrays
    <3> QED BY <1>1, <1>4, <3>1 DEF TakeAndRefill
  <2>5. CacheSize \in 0 .. FlushThresh /\ CacheSize + 1 \in 1 .. CacheSize + 1
    BY <1>1
  <2> HIDE DEF a
  <2>6. /\ [objs EXCEPT ![l] = a] \in Arrays
        /\ [len EXCEPT ![l] = CacheSize] \in Lengths
        /\ Filled([objs EXCEPT ![l] = a], [len EXCEPT ![l] = CacheSize], loaded)
    BY <1>1, <2>3, <2>5, WriteFills DEF StoresTyped
  <2> QED BY <2>1, <2>2, <2>4, <2>5, <2>6 DEF StoresTyped
<1>5. CASE TakeFromCommon(Primary)
  BY <1>5 DEF TakeFromCommon, StoresTyped
<1> QED BY <1>3, <1>4, <1>5 DEF AllocEnds

(* ... and a free ends with one mbuf more in the stores.                   *)
LEMMA FreeFills ==
  ASSUME StoresTyped, NEW p \in Procs, FreeEnds(p), hand[p] \in Mbufs
  PROVE  /\ common' \in SUBSET Mbufs /\ objs' \in Arrays /\ len' \in Lengths
         /\ Filled(objs', len', loaded)
         /\ hand' = [hand EXCEPT ![p] = NoMbuf]
<1> DEFINE l == CacheOf(p)
           k == loaded[p]
<1>1. /\ l \in Lcores /\ k \in 0 .. FlushThresh
      /\ FlushThresh \in Nat \ {0} /\ Slots = 1 .. FlushThresh + 1
      /\ objs[l] \in [Slots -> Mbufs \cup {NoMbuf}]
      /\ \A i \in 1 .. k : objs[l][i] \in Mbufs
      /\ hand' = [hand EXCEPT ![p] = NoMbuf]
  BY TwoProcs, Sizes DEF StoresTyped, Arrays, Filled, FreeEnds
<1> HIDE DEF l, k
<1>2. ASSUME NEW s \in Slots, NEW n \in 0 .. FlushThresh,
             \A i \in 1 .. n : i = s \/ i \in 1 .. k,
             objs' = [objs EXCEPT ![l][s] = hand[p]], len' = [len EXCEPT ![l] = n]
      PROVE  objs' \in Arrays /\ len' \in Lengths /\ Filled(objs', len', loaded)
  <2> DEFINE a == [objs[l] EXCEPT ![s] = hand[p]]
  <2>1. objs' = [objs EXCEPT ![l] = a]
    BY <1>2
  <2>2. /\ a \in [Slots -> Mbufs \cup {NoMbuf}]
        /\ \A i \in Slots : objs[l][i] \in Mbufs => a[i] \in Mbufs
    BY <1>1
  <2>3. \A i \in 1 .. n : a[i] \in Mbufs
    BY <1>1, <1>2
  <2> HIDE DEF a
  <2>4. /\ [objs EXCEPT ![l] = a] \in Arrays /\ [len EXCEPT ![l] = n] \in Lengths
        /\ Filled([objs EXCEPT ![l] = a], [len EXCEPT ![l] = n], loaded)
    BY <1>1, <2>2, <2>3, WriteFills DEF StoresTyped
  <2> QED BY <1>2, <2>1, <2>4, Zenon
<1>3. CASE PutToCache(p)
  <2>1. /\ k + 1 \in Slots /\ k + 1 \in 0 .. FlushThresh
        /\ \A i \in 1 .. k + 1 : i = k + 1 \/ i \in 1 .. k
    BY <1>1, <1>3 DEF PutToCache, k
  <2>2. /\ objs' = [objs EXCEPT ![l][k + 1] = hand[p]]
        /\ len' = [len EXCEPT ![l] = k + 1] /\ common' = common
    BY <1>3 DEF PutToCache, l, k
  <2> QED BY <1>1, <1>2, <2>1, <2>2 DEF StoresTyped
<1>4. CASE PutAndFlush(p)
  <2>1. 1 \in Slots /\ 1 \in 0 .. FlushThresh /\ \A i \in 1 .. 1 : i = 1
    BY <1>1
  <2>2. /\ objs' = [objs EXCEPT ![l][1] = hand[p]] /\ len' = [len EXCEPT ![l] = 1]
        /\ common' = common \cup {objs[l][i] : i \in 1 .. k}
    BY <1>4 DEF PutAndFlush, l, k
  <2>3. common' \in SUBSET Mbufs
    BY <1>1, <2>2 DEF StoresTyped
  <2> QED BY <1>1, <1>2, <2>1, <2>2, <2>3
<1> QED BY <1>3, <1>4 DEF FreeEnds

-----------------------------------------------------------------------------
(* Types: the rest of the state.                                           *)

(* Where the processes are, and the tick a packet on its way needs.        *)
Labels ==
  /\ DOMAIN pc = Procs
  /\ pc[Primary] \in PrimaryLabels /\ pc[Secondary] \in SecondaryLabels
  /\ pc[Primary] \in {"alloc", "take", "stamp"} => now < MaxStamps

(* Everything that is neither in the pool nor in a process's hands.        *)
OthersTyped ==
  /\ exit_indicator \in [Procs -> BOOLEAN]
  /\ timestamp_dynfield_offset \in [Procs -> {0, Unsigned(-1)}]
  /\ ring \in Seq(Mbufs) /\ Len(ring) <= RingCapacity
  /\ ring_state \in {"absent", "live", "freed"}
  /\ stamp \in [Mbufs -> 0 .. MaxStamps]
  /\ now \in 0 .. MaxStamps /\ lastTimestamp \in 0 .. MaxStamps
  /\ starts \in 0 .. MaxStarts /\ kills \in 0 .. MaxKills

(* TypeInv is the three of them and what hands hold.                       *)
LEMMA TypeParts ==
  TypeInv <=> StoresTyped /\ OthersTyped /\ Labels /\ HandsMatch
<1>1. StoresTyped <=> /\ common \in SUBSET Mbufs
                      /\ objs \in [Lcores -> [Slots -> Mbufs \cup {NoMbuf}]]
                      /\ len \in [Lcores -> 0 .. FlushThresh]
                      /\ loaded \in [Procs -> 0 .. FlushThresh]
                      /\ hand \in [Procs -> Mbufs \cup {NoMbuf}]
                      /\ SlotsFilled
  BY Zenon DEF StoresTyped, SlotsFilled, Filled, Arrays, Lengths
<1> QED BY <1>1, Zenon DEF TypeInv, TypeOK, OthersTyped, Labels

(* A process's hands are as its next step needs them.                      *)
HandAt(label, m) ==
  /\ label \in {"stamp", "enqueue", "process", "free", "put"} => m \in Mbufs
  /\ label \notin {"stamp", "enqueue", "process", "free", "put", "undefined"}
       => m = NoMbuf

(* HandsMatch, process by process.                                         *)
LEMMA HandsMean == HandsMatch <=> \A p \in Procs : HandAt(pc[p], hand[p])
BY DEF HandsMatch, HandAt

(* The types hold before either process has taken a step.                  *)
LEMMA TypeInvBegins == Init => TypeInv
<1> SUFFICES ASSUME Init PROVE TypeInv
  OBVIOUS
<1>1. StoresTyped
  <2>1. /\ common = {} /\ objs = [l \in Lcores |-> [i \in Slots |-> NoMbuf]]
        /\ len = [l \in Lcores |-> 0] /\ loaded = [p \in Procs |-> 0]
        /\ hand = [p \in Procs |-> NoMbuf]
    BY DEF Init
  <2> QED BY <2>1, Sizes, TwoProcs DEF StoresTyped, Arrays, Lengths, Filled
<1>2. OthersTyped
  <2>1. /\ exit_indicator = [p \in Procs |-> FALSE]
        /\ timestamp_dynfield_offset = [p \in Procs |-> 0]
        /\ ring = <<>> /\ ring_state = "absent" /\ stamp = [m \in Mbufs |-> 0]
        /\ now = 0 /\ lastTimestamp = 0 /\ starts = 0 /\ kills = 0
    BY DEF Init
  <2> QED BY <2>1, MultiProcessAssumption DEF OthersTyped
<1>3. pc[Primary] = "register" /\ pc[Secondary] = "off" /\ DOMAIN pc = Procs
  BY TwoProcs DEF Init
<1>4. \A p \in Procs : hand[p] = NoMbuf
  BY DEF Init
<1> QED BY <1>1, <1>2, <1>3, <1>4, TypeParts, TwoProcs
        DEF Labels, HandsMatch, PrimaryLabels, SecondaryLabels

(* The stores and the hands stay well typed.                               *)
LEMMA StoresTypedNext ==
  ASSUME StoresTyped, OthersTyped, HandsMatch, [Next]_vars
  PROVE  StoresTyped'
<1> USE DEF storeVars
<1>1. CASE AllocEnds
  <2>1. loaded' = loaded /\ hand' \in [Procs -> Mbufs \cup {NoMbuf}]
    BY <1>1, AllocFills DEF AllocEnds, StoresTyped
  <2> QED BY <1>1, <2>1, AllocFills DEF StoresTyped
<1>2. CASE \E p \in Procs : FreeEnds(p)
  <2>1. PICK p \in Procs : FreeEnds(p)
    BY <1>2
  <2>2. hand[p] \in Mbufs /\ loaded' = loaded
    BY <2>1 DEF FreeEnds, HandsMatch
  <2>3. /\ common' \in SUBSET Mbufs /\ objs' \in Arrays /\ len' \in Lengths
        /\ Filled(objs', len', loaded) /\ hand' = [hand EXCEPT ![p] = NoMbuf]
    BY <2>1, <2>2, FreeFills
  <2> QED BY <2>2, <2>3 DEF StoresTyped
<1>3. CASE AllocBegins \/ \E p \in Procs : FreeBegins(p)
  <2>1. PICK p \in Procs : loaded' = [loaded EXCEPT ![p] = len[CacheOf(p)]]
    BY <1>3, TwoProcs DEF AllocBegins, FreeBegins, LoadLength
  <2>2. common' = common /\ objs' = objs /\ len' = len /\ hand' = hand
    BY <1>3 DEF AllocBegins, FreeBegins, LoadLength
  <2>3. loaded' \in [Procs -> 0 .. FlushThresh]
    BY <2>1, TwoProcs DEF StoresTyped, Lengths
  <2>4. Filled(objs, len, loaded')
    BY <2>1, TwoProcs DEF StoresTyped, Filled
  <2> QED BY <2>2, <2>3, <2>4 DEF StoresTyped
<1>4. CASE CreatePool
  BY <1>4 DEF CreatePool, StoresTyped
<1>5. CASE Enqueue \/ Dequeue \/ Start \/ Kill
  <2>1. UNCHANGED <<storeVars, loaded>>
    BY <1>5 DEF Enqueue, Dequeue, Start, Kill
  <2>2. ring # <<>> => Head(ring) \in Mbufs
    BY DEF OthersTyped
  <2>3. \/ hand' = hand
        \/ \E p \in Procs : hand' = [hand EXCEPT ![p] = NoMbuf]
        \/ ring # <<>> /\ hand' = [hand EXCEPT ![Secondary] = Head(ring)]
    BY <1>5, TwoProcs DEF Enqueue, Dequeue, Start, Kill
  <2>4. hand' \in [Procs -> Mbufs \cup {NoMbuf}]
    BY <2>2, <2>3 DEF StoresTyped
  <2> QED BY <2>1, <2>4 DEF StoresTyped
<1>6. CASE UNCHANGED <<storeVars, hand, loaded>>
  BY <1>6 DEF StoresTyped
<1>7. \/ UNCHANGED <<storeVars, hand, loaded>>
      \/ AllocEnds \/ AllocBegins \/ CreatePool \/ Enqueue \/ Dequeue \/ Start \/ Kill
      \/ \E p \in Procs : FreeEnds(p) \/ FreeBegins(p)
  BY TwoProcs, Zenon
  DEF Next, PrimaryStep, SecondaryStep, OperatorStep, Ended, vars, Terminate,
      StartFails, Register, CreateRing, CreateFails, Lookup, FreeRing, CheckExit,
      AllocFails, Stamp, EnqueueFails, Process
<1> QED BY <1>1, <1>2, <1>3, <1>4, <1>5, <1>6, <1>7

(* So does everything else.                                                *)
LEMMA OthersTypedNext ==
  ASSUME StoresTyped, OthersTyped, Labels, HandsMatch, [Next]_vars
  PROVE  OthersTyped'
<1> USE TwoProcs, MultiProcessAssumption
        DEF OthersTyped, configVars, ringVars, stampVars, runVars
<1>0. /\ <<>> \in Seq(Mbufs) /\ Len(<<>>) <= RingCapacity
      /\ ring # <<>> => Tail(ring) \in Seq(Mbufs) /\ Len(Tail(ring)) <= RingCapacity
      /\ ring \in Seq(Mbufs) /\ Len(ring) <= RingCapacity
  <2>1. Len(<<>>) = 0 /\ RingCapacity \in Nat /\ ring \in Seq(Mbufs)
    OBVIOUS
  <2>2. ring # <<>> => /\ Tail(ring) \in Seq(Mbufs) /\ Len(ring) \in Nat
                       /\ Len(Tail(ring)) = Len(ring) - 1
    BY ONLY <2>1
  <2> QED BY <2>1, <2>2
<1>1. CASE (\E p \in Procs : Terminate(p)) \/ Start \/ Kill
  <2>1. exit_indicator' \in [Procs -> BOOLEAN]
    BY <1>1 DEF Terminate, Start, Kill
  <2>2. starts' \in 0 .. MaxStarts /\ kills' \in 0 .. MaxKills
    BY <1>1 DEF Terminate, Start, Kill
  <2>3. lastTimestamp' \in 0 .. MaxStamps
    BY <1>1 DEF Terminate, Start, Kill
  <2>4. UNCHANGED <<timestamp_dynfield_offset, ringVars, stamp, now>>
    BY <1>1 DEF Terminate, Start, Kill
  <2> QED BY <2>1, <2>2, <2>3, <2>4
<1>2. CASE \E p \in Procs : Register(p)
  <2>1. PICK p \in Procs, offset \in {0, -1} :
          timestamp_dynfield_offset' =
            [timestamp_dynfield_offset EXCEPT ![p] = Unsigned(offset)]
    BY <1>2 DEF Register
  <2>2. timestamp_dynfield_offset' \in [Procs -> {0, Unsigned(-1)}]
    BY <2>1, Offsets
  <2>3. UNCHANGED <<exit_indicator, ringVars, stampVars, runVars>>
    BY <1>2 DEF Register
  <2> QED BY <2>2, <2>3
<1>3. CASE CreateRing \/ FreeRing
  <2>1. ring' = ring \/ ring' = <<>>
    BY <1>3 DEF CreateRing, FreeRing
  <2>2. ring' \in Seq(Mbufs) /\ Len(ring') <= RingCapacity
    BY ONLY <1>0, <2>1
  <2>3. ring_state' \in {"absent", "live", "freed"}
    BY <1>3 DEF CreateRing, FreeRing
  <2>4. UNCHANGED <<configVars, stampVars, runVars>>
    BY <1>3 DEF CreateRing, FreeRing
  <2> QED BY <2>2, <2>3, <2>4
<1>4. CASE Stamp
  <2>1. now' \in 0 .. MaxStamps /\ now + 1 \in 0 .. MaxStamps
    BY <1>4 DEF Stamp, Labels
  <2>2. stamp' \in [Mbufs -> 0 .. MaxStamps]
    BY <1>4, <2>1 DEF Stamp
  <2>3. UNCHANGED <<configVars, ringVars, lastTimestamp, runVars>>
    BY <1>4 DEF Stamp
  <2> QED BY <2>1, <2>2, <2>3
<1>5. CASE Enqueue
  <2>1. hand[Primary] \in Mbufs
    BY <1>5 DEF Enqueue, HandsMatch
  <2> QED BY <1>5, <2>1 DEF Enqueue, RingFull, RingWith
<1>6. CASE Dequeue
  <2>2. ring' = ring \/ (ring # <<>> /\ ring' = Tail(ring))
    BY <1>6 DEF Dequeue
  <2>3. ring' \in Seq(Mbufs) /\ Len(ring') <= RingCapacity
    BY ONLY <1>0, <2>2
  <2>4. UNCHANGED <<configVars, ring_state, stampVars, runVars>>
    BY <1>6 DEF Dequeue
  <2> QED BY <2>3, <2>4
<1>7. CASE Process
  <2>1. hand[Secondary] \in Mbufs
    BY <1>7 DEF Process, HandsMatch
  <2> QED BY <1>7, <2>1 DEF Process
<1>8. CASE UNCHANGED <<configVars, ringVars, stampVars, runVars>>
  BY <1>8
<1>9. \/ UNCHANGED <<configVars, ringVars, stampVars, runVars>>
      \/ CreateRing \/ FreeRing \/ Stamp \/ Enqueue \/ Dequeue \/ Process
      \/ Start \/ Kill \/ \E p \in Procs : Terminate(p) \/ Register(p)
  BY TwoProcs, Zenon
  DEF Next, PrimaryStep, SecondaryStep, OperatorStep, Ended, vars, LoadLength,
      StartFails, CreatePool, CreateFails, Lookup, CheckExit, AllocBegins,
      AllocEnds, AllocFails, EnqueueFails, FreeBegins, FreeEnds
<1> QED BY <1>1, <1>2, <1>3, <1>4, <1>5, <1>6, <1>7, <1>8, <1>9

(* A process goes to another label with what it needs there in its hands.  *)
LEMMA GoesOn ==
  ASSUME Labels, HandsMatch, NEW p \in Procs, NEW label,
         pc' = [pc EXCEPT ![p] = label],
         p = Primary => label \in PrimaryLabels,
         p = Secondary => label \in SecondaryLabels,
         \A k \in Procs \ {p} : hand'[k] = hand[k],
         HandAt(label, hand'[p]),
         p = Primary /\ label \in {"alloc", "take", "stamp"} => now' < MaxStamps,
         p = Secondary => now' = now
  PROVE  Labels' /\ HandsMatch'
<1>1. /\ DOMAIN pc' = Procs /\ pc'[p] = label
      /\ \A k \in Procs \ {p} : pc'[k] = pc[k]
  BY DEF Labels
<1>2. pc'[Primary] \in PrimaryLabels /\ pc'[Secondary] \in SecondaryLabels
  BY <1>1, TwoProcs DEF Labels
<1>3. \A k \in Procs : HandAt(pc'[k], hand'[k])
  BY <1>1, HandsMean
<1>4. HandsMatch'
  BY <1>3 DEF HandsMatch, HandAt
<1>5. pc'[Primary] \in {"alloc", "take", "stamp"} => now' < MaxStamps
  BY <1>1, TwoProcs DEF Labels
<1> QED BY <1>1, <1>2, <1>4, <1>5 DEF Labels

(* Every step is such a step of one process, or moves none.                *)
LEMMA LabelsNext ==
  ASSUME StoresTyped, OthersTyped, Labels, HandsMatch, [Next]_vars
  PROVE  Labels' /\ HandsMatch'
<1> USE TwoProcs DEF Goto, stampVars, HandAt, PrimaryLabels, SecondaryLabels
<1>1. /\ \A p \in Procs : HandAt(pc[p], hand[p])
      /\ hand \in [Procs -> Mbufs \cup {NoMbuf}]
      /\ pc[Primary] \in {"alloc", "take", "stamp"} => now < MaxStamps
  BY HandsMean DEF StoresTyped, Labels
<1>2. CASE \E p \in Procs : StartFails(p)
  <2>1. PICK p \in Procs : StartFails(p)
    BY <1>2
  <2> QED BY <1>1, <2>1, GoesOn DEF StartFails
<1>3. CASE \E p \in Procs : Register(p)
  <2>1. PICK p \in Procs : Register(p)
    BY <1>3
  <2>2. PICK label \in {"exited", "create", "lookup"} :
          /\ pc' = [pc EXCEPT ![p] = label]
          /\ label = "create" => p = Primary
          /\ label = "lookup" => p # Primary
    BY <2>1 DEF Register
  <2>3. pc[p] = "register" /\ hand' = hand /\ now' = now
    BY <2>1 DEF Register
  <2> QED BY <1>1, <2>2, <2>3, GoesOn
<1>4. CASE CreatePool \/ CreateRing \/ CreateFails \/ FreeRing
  <2>1. PICK label \in {"createRing", "check", "exited"} :
          pc' = [pc EXCEPT ![Primary] = label]
    BY <1>4 DEF CreatePool, CreateRing, CreateFails, FreeRing
  <2>2. /\ pc[Primary] \in {"create", "createRing", "sleep"}
        /\ hand' = hand /\ now' = now
    BY <1>4 DEF CreatePool, CreateRing, CreateFails, FreeRing
  <2> QED BY <1>1, <2>1, <2>2, GoesOn
<1>5. CASE Lookup
  <2>1. PICK label \in {"check", "exited"} : pc' = [pc EXCEPT ![Secondary] = label]
    BY <1>5 DEF Lookup
  <2>2. pc[Secondary] = "lookup" /\ hand' = hand /\ now' = now
    BY <1>5 DEF Lookup
  <2> QED BY <1>1, <2>1, <2>2, GoesOn
<1>6. CASE \E p \in Procs : CheckExit(p)
  <2>1. PICK p \in Procs : CheckExit(p)
    BY <1>6
  <2>2. PICK label \in {"alloc", "dequeue", "sleep", "exited"} :
          /\ pc' = [pc EXCEPT ![p] = label]
          /\ label \in {"alloc", "sleep"} => p = Primary
          /\ label = "dequeue" => p = Secondary
          /\ label = "alloc" => now < MaxStamps
    BY <2>1 DEF CheckExit
  <2>3. pc[p] = "check" /\ hand' = hand /\ now' = now
    BY <2>1 DEF CheckExit
  <2> QED BY <1>1, <2>2, <2>3, GoesOn
<1>7. CASE AllocBegins \/ AllocFails \/ AllocEnds
  <2>1. PICK label \in {"take", "check", "stamp"} :
          /\ pc' = [pc EXCEPT ![Primary] = label]
          /\ label = "stamp" => AllocEnds
          /\ label # "stamp" => AllocBegins \/ AllocFails
    BY <1>7 DEF AllocBegins, AllocFails, AllocEnds, LoadLength
  <2>2. pc[Primary] \in {"alloc", "take"} /\ now' = now
    BY <1>7 DEF AllocBegins, AllocFails, AllocEnds, LoadLength
  <2>3. AllocBegins \/ AllocFails => hand' = hand
    BY DEF AllocBegins, AllocFails, LoadLength
  <2>4. AllocEnds => \E m \in Mbufs : hand' = [hand EXCEPT ![Primary] = m]
    BY AllocFills
  <2>5. CASE label # "stamp"
    BY <1>1, <2>1, <2>2, <2>3, <2>5, GoesOn
  <2>6. CASE label = "stamp"
    BY <1>1, <2>1, <2>2, <2>4, <2>6, GoesOn
  <2> QED BY <2>5, <2>6
<1>8. CASE Stamp
  <2>1. PICK label \in {"enqueue", "undefined"} : pc' = [pc EXCEPT ![Primary] = label]
    BY <1>8 DEF Stamp
  <2>2. pc[Primary] = "stamp" /\ hand' = hand
    BY <1>8 DEF Stamp
  <2> QED BY <1>1, <2>1, <2>2, GoesOn
<1>9. CASE Enqueue
  <2>1. /\ pc[Primary] = "enqueue" /\ pc' = [pc EXCEPT ![Primary] = "check"]
        /\ hand' = [hand EXCEPT ![Primary] = NoMbuf] /\ now' = now
    BY <1>9 DEF Enqueue
  <2> QED BY <1>1, <2>1, GoesOn
<1>10. CASE EnqueueFails
  <2>1. /\ pc[Primary] = "enqueue" /\ pc' = [pc EXCEPT ![Primary] = "free"]
        /\ hand' = hand /\ now' = now
    BY <1>10 DEF EnqueueFails, AfterFull
  <2> QED BY <1>1, <2>1, GoesOn
<1>11. CASE \E p \in Procs : FreeBegins(p)
  <2>1. PICK p \in Procs : FreeBegins(p)
    BY <1>11
  <2>2. /\ pc[p] = "free" /\ pc' = [pc EXCEPT ![p] = "put"]
        /\ hand' = hand /\ now' = now
    BY <2>1 DEF FreeBegins, LoadLength
  <2> QED BY <1>1, <2>2, GoesOn
<1>12. CASE \E p \in Procs : FreeEnds(p)
  <2>1. PICK p \in Procs : FreeEnds(p)
    BY <1>12
  <2>2. /\ pc' = [pc EXCEPT ![p] = "check"]
        /\ hand' = [hand EXCEPT ![p] = NoMbuf] /\ now' = now
    BY <2>1 DEF FreeEnds
  <2> QED BY <1>1, <2>2, GoesOn
<1>13. CASE Dequeue
  <2>1. CASE ring = <<>>
    <3>1. PICK label \in {"check", "undefined"} :
            pc' = [pc EXCEPT ![Secondary] = label]
      BY <1>13, <2>1 DEF Dequeue
    <3>2. pc[Secondary] = "dequeue" /\ hand' = hand /\ now' = now
      BY <1>13, <2>1 DEF Dequeue
    <3> QED BY <1>1, <3>1, <3>2, GoesOn
  <2>2. CASE ring # <<>>
    <3>1. Head(ring) \in Mbufs
      BY <2>2 DEF OthersTyped
    <3>2. /\ pc' = [pc EXCEPT ![Secondary] = "process"]
          /\ hand' = [hand EXCEPT ![Secondary] = Head(ring)] /\ now' = now
      BY <1>13, <2>2 DEF Dequeue
    <3> QED BY <1>1, <3>1, <3>2, GoesOn
  <2> QED BY <2>1, <2>2
<1>14. CASE Process
  <2>1. PICK label \in {"free", "undefined"} : pc' = [pc EXCEPT ![Secondary] = label]
    BY <1>14 DEF Process, AfterProcess
  <2>2. pc[Secondary] = "process" /\ hand' = hand /\ now' = now
    BY <1>14 DEF Process
  <2> QED BY <1>1, <2>1, <2>2, GoesOn
<1>15. CASE Start \/ Kill
  <2>1. PICK label \in {"register", "exited"} : pc' = [pc EXCEPT ![Secondary] = label]
    BY <1>15 DEF Start, Kill
  <2>2. hand' = [hand EXCEPT ![Secondary] = NoMbuf] /\ now' = now
    BY <1>15 DEF Start, Kill
  <2> QED BY <1>1, <2>1, <2>2, GoesOn
<1>16. CASE UNCHANGED <<pc, hand, now>>
  BY <1>16 DEF Labels, HandsMatch
<1>17. UNCHANGED vars \/ (\E p \in Procs : Terminate(p)) => UNCHANGED <<pc, hand, now>>
  BY DEF vars, Terminate
<1> QED
  BY ONLY [Next]_vars, <1>2, <1>3, <1>4, <1>5, <1>6, <1>7, <1>8, <1>9, <1>10, <1>11,
     <1>12, <1>13, <1>14, <1>15, <1>16, <1>17, TwoProcs
  DEF Next, PrimaryStep, SecondaryStep, OperatorStep, Ended

(* Every step keeps the types.                                             *)
LEMMA TypeInvGoesOn == TypeInv /\ [Next]_vars => TypeInv'
<1> SUFFICES ASSUME TypeInv, [Next]_vars PROVE TypeInv'
  OBVIOUS
<1>1. StoresTyped /\ OthersTyped /\ Labels /\ HandsMatch
  BY TypeParts
<1>2. StoresTyped' /\ OthersTyped' /\ Labels' /\ HandsMatch'
  BY <1>1, StoresTypedNext, OthersTypedNext, LabelsNext
<1>3. SlotsFilled'
  BY <1>2, Zenon DEF StoresTyped, SlotsFilled, Filled
<1>4. TypeOK'
  BY <1>2, Zenon DEF StoresTyped, Arrays, Lengths, OthersTyped, Labels, TypeOK
<1> QED BY <1>2, <1>3, <1>4, Zenon DEF TypeInv, Labels

-----------------------------------------------------------------------------
(* Caches: what the first slots of an array hold, once each process has a  *)
(* lcore of its own.                                                       *)

(* The operator gives each process a lcore of its own (--lcores); started  *)
(* as README.md:18 says, they share lcore 0.                               *)
OwnLcores == PrimaryLcore # SecondaryLcore

Contents(a, k) == {a[i] : i \in 1 .. k}
Distinct(a, k) == \A i, j \in 1 .. k : a[i] = a[j] => i = j

(* One slot less is one mbuf less ...                                      *)
LEMMA OneSlotLess ==
  ASSUME NEW a, NEW k \in Nat \ {0}, Distinct(a, k)
  PROVE  /\ Contents(a, k - 1) = Contents(a, k) \ {a[k]}
         /\ a[k] \in Contents(a, k) /\ Distinct(a, k - 1)
<1>1. \A i : i \in 1 .. k <=> i \in 1 .. k - 1 \/ i = k
  OBVIOUS
<1>2. \A i \in 1 .. k - 1 : i \in 1 .. k /\ i # k
  OBVIOUS
<1> QED BY <1>1, <1>2 DEF Contents, Distinct

(* ... and one slot more, written with an mbuf, is one mbuf more.          *)
LEMMA OneSlotMore ==
  ASSUME NEW n \in Nat, NEW S, NEW a \in [1 .. n -> S], NEW k \in Nat, k + 1 <= n,
         NEW m, m \notin Contents(a, k), Distinct(a, k)
  PROVE  /\ Contents([a EXCEPT ![k + 1] = m], k + 1) = Contents(a, k) \cup {m}
         /\ Distinct([a EXCEPT ![k + 1] = m], k + 1)
<1> DEFINE b == [a EXCEPT ![k + 1] = m]
<1>1. /\ b[k + 1] = m /\ \A i \in 1 .. k : b[i] = a[i]
      /\ \A i : i \in 1 .. k + 1 <=> i \in 1 .. k \/ i = k + 1
  OBVIOUS
<1> HIDE DEF b
<1>2. Contents(b, k + 1) = Contents(a, k) \cup {m}
  BY <1>1 DEF Contents
<1>3. Distinct(b, k + 1)
  BY <1>1 DEF Contents, Distinct
<1> QED BY <1>2, <1>3 DEF b

(* k different slots hold k mbufs.                                         *)
LEMMA AsManyAsSlots ==
  ASSUME NEW a, NEW k \in Nat, Distinct(a, k)
  PROVE  IsFiniteSet(Contents(a, k)) /\ Cardinality(Contents(a, k)) = k
<1> DEFINE f == [i \in 1 .. k |-> a[i]]
<1>1. f \in Bijection(1 .. k, Contents(a, k))
  BY DEF Bijection, Injection, Surjection, IsInjective, Contents, Distinct
<1>2. ExistsBijection(1 .. k, Contents(a, k))
  BY <1>1 DEF ExistsBijection
<1> QED BY <1>2, UpTo, FS_Bijection

(* The caches are those of the pool's specification.                       *)
Caches == [l \in Lcores |-> Cached(l)]

(* A cache is the contents of its array below its length ...               *)
LEMMA CachesAre ==
  Caches = [l \in Lcores |-> Contents(objs[l], len[l])]
BY DEF Caches, Cached, Contents

(* ... and a step that writes the array and the length of one cache        *)
(* changes no other.                                                       *)
LEMMA CachesBecome ==
  ASSUME StoresTyped, NEW l \in Lcores, NEW a, NEW k,
         objs' = [objs EXCEPT ![l] = a], len' = [len EXCEPT ![l] = k]
  PROVE  Caches' = [Caches EXCEPT ![l] = Contents(a, k)]
<1>1. \A c \in Lcores : /\ objs'[c] = IF c = l THEN a ELSE objs[c]
                        /\ len'[c] = IF c = l THEN k ELSE len[c]
  BY DEF StoresTyped, Arrays, Lengths
<1>2. Caches' = [c \in Lcores |-> Contents(objs'[c], len'[c])]
  BY DEF Caches, Cached, Contents
<1> QED BY <1>1, <1>2, CachesAre

(* Each cache holds different mbufs in its slots.                          *)
CachesDistinct == \A l \in Lcores : Distinct(objs[l], len[l])

(* One cache is written with different mbufs, the others keep theirs.      *)
LEMMA DistinctBecomes ==
  ASSUME StoresTyped, CachesDistinct, NEW l \in Lcores, NEW a, NEW k,
         objs' = [objs EXCEPT ![l] = a], len' = [len EXCEPT ![l] = k], Distinct(a, k)
  PROVE  CachesDistinct'
<1>1. \A c \in Lcores : /\ objs'[c] = IF c = l THEN a ELSE objs[c]
                        /\ len'[c] = IF c = l THEN k ELSE len[c]
  BY DEF StoresTyped, Arrays, Lengths
<1> QED BY <1>1 DEF CachesDistinct

(* What an allocation does: the mbuf comes from the cache, or from the     *)
(* common store once the cache is empty, and the cache may be refilled.    *)
AllocKeeps(m, kept) ==
  \/ /\ m \in Cached(PrimaryLcore) /\ kept = Cached(PrimaryLcore) \ {m}
     /\ common' = common
  \/ /\ Cached(PrimaryLcore) = {} /\ m \in common
     /\ kept \subseteq common \ {m} /\ Cardinality(kept) = CacheSize
     /\ common' = common \ (kept \cup {m})
  \/ /\ Cached(PrimaryLcore) = {} /\ m \in common /\ kept = {}
     /\ Cardinality(common \ {m}) < CacheSize /\ common' = common \ {m}

(* The second step of an allocation does that when the length loaded is    *)
(* still that of the cache.                                                *)
LEMMA AllocInStores ==
  ASSUME StoresTyped, CachesDistinct, loaded[Primary] = len[PrimaryLcore], AllocEnds
  PROVE  /\ CachesDistinct'
         /\ \E m \in Mbufs, kept \in SUBSET Mbufs :
              /\ hand' = [hand EXCEPT ![Primary] = m]
              /\ Caches' = [Caches EXCEPT ![PrimaryLcore] = kept]
              /\ AllocKeeps(m, kept)
<1> DEFINE l == PrimaryLcore
           k == len[l]
           a == objs[l]
<1>1. /\ l \in Lcores /\ CacheOf(Primary) = l /\ Primary \in Procs
      /\ k \in 0 .. FlushThresh /\ loaded[Primary] = k
      /\ FlushThresh \in Nat /\ CacheSize \in Nat /\ CacheSize <= FlushThresh
      /\ Slots = 1 .. FlushThresh + 1
      /\ a \in [Slots -> Mbufs \cup {NoMbuf}]
      /\ \A i \in 1 .. k : a[i] \in Mbufs
      /\ Distinct(a, k) /\ Cached(l) = Contents(a, k)
  BY TwoProcs, Sizes DEF StoresTyped, Arrays, Lengths, Filled, CachesDistinct, Cached, Contents
<1>2. objs = [objs EXCEPT ![l] = a] /\ len = [len EXCEPT ![l] = k]
  BY DEF StoresTyped, Arrays, Lengths
<1>3. Contents(a, k) \subseteq Mbufs /\ (k = 0 => Contents(a, k) = {})
  BY <1>1 DEF Contents
<1> HIDE DEF l, k, a
<1>4. CASE TakeFromCache(Primary)
  <2>1. /\ k \in Nat \ {0} /\ common' = common /\ objs' = [objs EXCEPT ![l] = a]
        /\ len' = [len EXCEPT ![l] = k - 1] /\ hand' = [hand EXCEPT ![Primary] = a[k]]
    BY <1>1, <1>2, <1>4 DEF TakeFromCache, a
  <2>2. /\ Contents(a, k - 1) = Contents(a, k) \ {a[k]}
        /\ a[k] \in Contents(a, k) /\ Distinct(a, k - 1)
    BY <1>1, <2>1, OneSlotLess
  <2>3. CachesDistinct' /\ Caches' = [Caches EXCEPT ![l] = Contents(a, k - 1)]
    <3>1. CachesDistinct'
      BY <1>1, <2>1, <2>2, DistinctBecomes
    <3>2. Caches' = [Caches EXCEPT ![l] = Contents(a, k - 1)]
      BY <1>1, <2>1, <2>2, CachesBecome
    <3> QED BY <3>1, <3>2
  <2>4. AllocKeeps(a[k], Contents(a, k - 1))
    BY <1>1, <2>1, <2>2 DEF AllocKeeps, l
  <2>5. a[k] \in Mbufs /\ Contents(a, k - 1) \in SUBSET Mbufs
    BY <1>3, <2>2
  <2> QED BY <2>1, <2>3, <2>4, <2>5 DEF l
<1>5. CASE TakeAndRefill(Primary)
  <2>1. PICK batch \in Injection(1 .. CacheSize + 1, common) :
          /\ objs' = [objs EXCEPT ![CacheOf(Primary)] =
                        [i \in Slots |-> IF i \in DOMAIN batch THEN batch[i] ELSE @[i]]]
          /\ common' = common \ Range(batch)
          /\ hand' = [hand EXCEPT ![Primary] = batch[CacheSize + 1]]
    BY <1>5, Zenon DEF TakeAndRefill
  <2> DEFINE b == [i \in Slots |-> IF i \in 1 .. CacheSize + 1 THEN batch[i] ELSE a[i]]
             m == batch[CacheSize + 1]
  <2>2. /\ DOMAIN batch = 1 .. CacheSize + 1
        /\ \A i \in 1 .. CacheSize + 1 : batch[i] \in common /\ batch[i] \in Mbufs
        /\ \A i, j \in 1 .. CacheSize + 1 : batch[i] = batch[j] => i = j
    BY <2>1 DEF Injection, IsInjective, StoresTyped
  <2>3. objs' = [objs EXCEPT ![l] = b] /\ len' = [len EXCEPT ![l] = CacheSize]
    <3>1. objs' = [objs EXCEPT ![l] = [i \in Slots |->
                     IF i \in 1 .. CacheSize + 1 THEN batch[i] ELSE objs[l][i]]]
      BY <1>1, <2>1, <2>2 DEF StoresTyped, Arrays
    <3> QED BY <1>1, <1>5, <3>1 DEF TakeAndRefill, a
  <2>4. /\ \A i \in 1 .. CacheSize : i \in Slots /\ b[i] = batch[i]
        /\ \A i \in 1 .. CacheSize : i \in 1 .. CacheSize + 1 /\ i # CacheSize + 1
        /\ CacheSize + 1 \in 1 .. CacheSize + 1
        /\ \A i : i \in 1 .. CacheSize + 1 <=> i \in 1 .. CacheSize \/ i = CacheSize + 1
    BY <1>1
  <2> HIDE DEF b
  <2>5. /\ Distinct(b, CacheSize) /\ Contents(b, CacheSize) \subseteq common \ {m}
        /\ m \in common /\ m \in Mbufs
    BY <2>2, <2>4 DEF Distinct, Contents
  <2>6. Range(batch) = Contents(b, CacheSize) \cup {m}
    BY <2>2, <2>4 DEF Range, Contents
  <2>7. Cardinality(Contents(b, CacheSize)) = CacheSize
    BY <1>1, <2>5, AsManyAsSlots
  <2>8. Contents(a, k) = {}
    BY <1>1, <1>3, <1>5 DEF TakeAndRefill
  <2>9. CachesDistinct' /\ Caches' = [Caches EXCEPT ![l] = Contents(b, CacheSize)]
    <3>1. CachesDistinct'
      BY <1>1, <2>3, <2>5, DistinctBecomes
    <3>2. l \in Lcores
      BY <1>1
    <3>3. Caches' = [Caches EXCEPT ![l] = Contents(b, CacheSize)]
      BY ONLY StoresTyped, <2>3, <3>2, CachesBecome
    <3> QED BY <3>1, <3>3
  <2>10. AllocKeeps(m, Contents(b, CacheSize))
    BY <1>1, <2>1, <2>5, <2>6, <2>7, <2>8 DEF AllocKeeps, l
  <2>11. Contents(b, CacheSize) \in SUBSET Mbufs
    BY <2>5 DEF StoresTyped
  <2> QED BY <2>1, <2>5, <2>9, <2>10, <2>11 DEF l
<1>6. CASE TakeFromCommon(Primary)
  <2>1. PICK m \in common : /\ common' = common \ {m}
                            /\ hand' = [hand EXCEPT ![Primary] = m]
    BY <1>6 DEF TakeFromCommon
  <2>2. /\ objs' = [objs EXCEPT ![l] = a] /\ len' = [len EXCEPT ![l] = k]
        /\ k = 0 /\ Contents(a, k) = {} /\ m \in Mbufs
    BY <1>1, <1>2, <1>3, <1>6 DEF TakeFromCommon, StoresTyped
  <2>3. CachesDistinct' /\ Caches' = [Caches EXCEPT ![l] = {}]
    <3>1. CachesDistinct'
      BY <1>1, <2>2, DistinctBecomes
    <3>2. l \in Lcores
      BY <1>1
    <3>3. Caches' = [Caches EXCEPT ![l] = Contents(a, k)]
      BY ONLY StoresTyped, <2>2, <3>2, CachesBecome
    <3> QED BY <2>2, <3>1, <3>3
  <2>4. Cardinality(common \ {m}) < CacheSize
    <3>1. IsFiniteSet(common)
      BY PartIsSmall, MultiProcessAssumption DEF StoresTyped
    <3>2. Cardinality(common \ {m}) = Cardinality(common) - 1 /\ Cardinality(common) \in Nat
      BY <3>1, OneMoreOneLess
    <3> QED BY <1>1, <1>6, <3>2 DEF TakeFromCommon
  <2>5. AllocKeeps(m, {})
    BY <1>1, <2>1, <2>2, <2>4 DEF AllocKeeps, l
  <2> QED BY <2>1, <2>2, <2>3, <2>5 DEF l
<1> QED BY <1>4, <1>5, <1>6 DEF AllocEnds

(* What a free does: the mbuf goes to the cache, which is first emptied    *)
(* into the common store if it would outgrow its threshold.                *)
FreeKeeps(l, m, kept) ==
  \/ /\ kept = Cached(l) \cup {m} /\ common' = common
     /\ Cardinality(Cached(l)) + 1 <= FlushThresh
  \/ /\ kept = {m} /\ common' = common \cup Cached(l)
     /\ Cardinality(Cached(l)) + 1 > FlushThresh

(* The second step of a free does that when the length loaded is still     *)
(* that of the cache.                                                      *)
LEMMA FreeInStores ==
  ASSUME StoresTyped, CachesDistinct, NEW p \in Procs,
         loaded[p] = len[CacheOf(p)], FreeEnds(p), hand[p] \in Mbufs,
         hand[p] \notin Cached(CacheOf(p))
  PROVE  /\ CachesDistinct'
         /\ \E kept \in SUBSET Mbufs :
              /\ Caches' = [Caches EXCEPT ![CacheOf(p)] = kept]
              /\ FreeKeeps(CacheOf(p), hand[p], kept)
<1> DEFINE l == CacheOf(p)
           k == len[l]
           a == objs[l]
<1>1. /\ l \in Lcores /\ k \in 0 .. FlushThresh /\ loaded[p] = k
      /\ FlushThresh \in Nat \ {0} /\ Slots = 1 .. FlushThresh + 1
      /\ a \in [Slots -> Mbufs \cup {NoMbuf}]
      /\ \A i \in 1 .. k : a[i] \in Mbufs
      /\ Distinct(a, k) /\ Cached(l) = Contents(a, k)
      /\ objs \in Arrays
  BY TwoProcs, Sizes DEF StoresTyped, Arrays, Lengths, Filled, CachesDistinct, Cached, Contents
<1>2. Contents(a, k) \subseteq Mbufs /\ Cardinality(Contents(a, k)) = k
  <2>1. k \in Nat /\ Distinct(a, k)
    BY <1>1
  <2> HIDE DEF k, a
  <2>2. Cardinality(Contents(a, k)) = k
    BY <2>1, AsManyAsSlots
  <2>3. Contents(a, k) \subseteq Mbufs
    BY <1>1 DEF Contents
  <2> QED BY <2>2, <2>3
<1> HIDE DEF l, k, a
<1>3. CASE PutToCache(p)
  <2> DEFINE b == [a EXCEPT ![k + 1] = hand[p]]
  <2>1. /\ k + 1 <= FlushThresh /\ common' = common
        /\ objs' = [objs EXCEPT ![l] = b] /\ len' = [len EXCEPT ![l] = k + 1]
    BY <1>1, <1>3 DEF PutToCache, l, a
  <2>2. Contents(b, k + 1) = Contents(a, k) \cup {hand[p]} /\ Distinct(b, k + 1)
    <3>1. /\ FlushThresh + 1 \in Nat /\ k \in Nat /\ k + 1 <= FlushThresh + 1
          /\ hand[p] \notin Contents(a, k)
          /\ a \in [1 .. FlushThresh + 1 -> Mbufs \cup {NoMbuf}]
      BY <1>1, <2>1 DEF l
    <3>2. Distinct(a, k)
      BY <1>1
    <3> QED BY ONLY <3>1, <3>2, OneSlotMore, Zenon
  <2> HIDE DEF b
  <2>3. CachesDistinct' /\ Caches' = [Caches EXCEPT ![l] = Contents(b, k + 1)]
    <3>1. CachesDistinct'
      BY <1>1, <2>1, <2>2, DistinctBecomes
    <3>2. Caches' = [Caches EXCEPT ![l] = Contents(b, k + 1)]
      BY <1>1, <2>1, <2>2, CachesBecome
    <3> QED BY <3>1, <3>2
  <2>4. FreeKeeps(l, hand[p], Contents(b, k + 1))
    BY <1>1, <1>2, <2>1, <2>2 DEF FreeKeeps
  <2>5. Contents(b, k + 1) \in SUBSET Mbufs
    BY <1>2, <2>2
  <2> QED BY <2>3, <2>4, <2>5 DEF l
<1>4. CASE PutAndFlush(p)
  <2> DEFINE b == [a EXCEPT ![1] = hand[p]]
  <2>1. /\ k + 1 > FlushThresh /\ common' = common \cup Contents(a, k)
        /\ objs' = [objs EXCEPT ![l] = b] /\ len' = [len EXCEPT ![l] = 1]
    BY <1>1, <1>4 DEF PutAndFlush, l, a, Contents
  <2>2. b[1] = hand[p] /\ \A i : i \in 1 .. 1 <=> i = 1
    BY <1>1
  <2> HIDE DEF b
  <2>3. Contents(b, 1) = {hand[p]} /\ Distinct(b, 1)
    BY <2>2 DEF Contents, Distinct
  <2>4. CachesDistinct' /\ Caches' = [Caches EXCEPT ![l] = Contents(b, 1)]
    <3>1. CachesDistinct'
      BY <1>1, <2>1, <2>3, DistinctBecomes
    <3>2. Caches' = [Caches EXCEPT ![l] = Contents(b, 1)]
      BY <1>1, <2>1, <2>3, CachesBecome
    <3> QED BY <3>1, <3>2
  <2>5. FreeKeeps(l, hand[p], Contents(b, 1))
    BY <1>1, <1>2, <2>1, <2>3 DEF FreeKeeps
  <2>6. Contents(b, 1) \in SUBSET Mbufs
    BY <2>3
  <2> QED BY <2>4, <2>5, <2>6 DEF l
<1> QED BY <1>3, <1>4 DEF FreeEnds

-----------------------------------------------------------------------------
(* Who holds an mbuf.                                                      *)

(* Where in Held the mbufs of a process are.                               *)
CacheAt(p) == IF p = Primary THEN 2 ELSE 3
InHandAt(p) == IF p = Primary THEN 5 ELSE 6

(* The six places by their number, before a step ...                       *)
LEMMA Places ==
  /\ Held[1] = common /\ Held[4] = Range(ring)
  /\ \A p \in Procs : /\ Held[CacheAt(p)] = Caches[CacheOf(p)]
                      /\ Held[InHandAt(p)] = {hand[p]} \ {NoMbuf}
BY TwoProcs DEF Held, Caches, InHand, CacheAt, InHandAt

(* ... and after it ...                                                    *)
LEMMA PlacesAfter ==
  /\ (Held')[1] = common' /\ (Held')[4] = Range(ring')
  /\ \A p \in Procs : /\ (Held')[CacheAt(p)] = Caches'[CacheOf(p)]
                      /\ (Held')[InHandAt(p)] = {hand'[p]} \ {NoMbuf}
BY TwoProcs DEF Held, Caches, InHand, CacheAt, InHandAt

(* ... one by one ...                                                      *)
LEMMA PlacesListed ==
  /\ Held[1] = common /\ Held[2] = Caches[PrimaryLcore]
  /\ Held[3] = Caches[SecondaryLcore] /\ Held[4] = Range(ring)
  /\ Held[5] = {hand[Primary]} \ {NoMbuf} /\ Held[6] = {hand[Secondary]} \ {NoMbuf}
  /\ (Held')[1] = common' /\ (Held')[2] = Caches'[PrimaryLcore]
  /\ (Held')[3] = Caches'[SecondaryLcore] /\ (Held')[4] = Range(ring')
  /\ (Held')[5] = {hand'[Primary]} \ {NoMbuf}
  /\ (Held')[6] = {hand'[Secondary]} \ {NoMbuf}
BY TwoProcs DEF Held, Caches, InHand

(* ... and what the numbers are.                                           *)
LEMMA Numbers ==
  /\ CacheAt(Primary) = 2 /\ CacheAt(Secondary) = 3
  /\ InHandAt(Primary) = 5 /\ InHandAt(Secondary) = 6
  /\ \A h \in 1 .. 6 : \/ h = 1 \/ h = 4
                       \/ \E p \in Procs : h = CacheAt(p) \/ h = InHandAt(p)
BY TwoProcs DEF CacheAt, InHandAt

(* The mbufs that nobody holds, and the count of them.                     *)
Lost(places) == {m \in Mbufs : \A h \in 1 .. 6 : m \notin places[h]}

(* These are the mbufs OneOwner counts.                                    *)
LEMMA LostIs ==
  /\ Mbufs \ UNION Range(Held) = Lost(Held)
  /\ (Mbufs \ UNION Range(Held))' = Lost(Held')
BY DEF Lost, Range, Held

(* mbufs that change hands are not lost.                                   *)
LEMMA NoneLost ==
  ASSUME NEW a, NEW b, OwnersKept(6, a, b)
  PROVE  Lost(b) \subseteq Lost(a)
<1> SUFFICES ASSUME NEW m \in Mbufs, NEW h \in 1 .. 6, m \in a[h]
             PROVE  \E k \in 1 .. 6 : m \in b[k]
  BY DEF Lost
<1>1. HoldAll(6, a, UNION {a[k] : k \in 1 .. 6})
  BY DEF HoldAll
<1>2. HoldAll(6, b, UNION {a[k] : k \in 1 .. 6})
  BY <1>1 DEF OwnersKept
<1> QED BY <1>2 DEF HoldAll

(* No mbuf is in two places, nor twice in one.                             *)
LEMMA NoneTwiceMeans ==
  NoneTwice <=> Apart(6, Held) /\ IsInjective(ring) /\ CachesDistinct
BY DEF NoneTwice, Apart, CachesDistinct, Distinct

(* The invariant on which the proofs about mbufs rest.                     *)
PoolInv ==
  /\ StoresTyped /\ OthersTyped /\ Labels /\ HandsMatch
  /\ LoadedIsLength /\ StoresFollowPrimary
  /\ Apart(6, Held) /\ IsInjective(ring) /\ CachesDistinct

(* An allocation takes an mbuf from the common store and the primary's     *)
(* cache ...                                                               *)
LEMMA AllocMoves ==
  ASSUME OwnLcores, PoolInv, AllocEnds
  PROVE  /\ CachesDistinct' /\ ring' = ring
         /\ \E m : TakenFrom(6, Held, Held', 1, 2, 5, {m})
<1>1. /\ StoresTyped /\ CachesDistinct /\ ring' = ring
      /\ loaded[Primary] = len[PrimaryLcore] /\ hand[Primary] = NoMbuf
  BY TwoProcs DEF PoolInv, LoadedIsLength, HandsMatch, AllocEnds, ringVars
<1>2. PICK m \in Mbufs, kept \in SUBSET Mbufs :
        /\ hand' = [hand EXCEPT ![Primary] = m]
        /\ Caches' = [Caches EXCEPT ![PrimaryLcore] = kept]
        /\ AllocKeeps(m, kept)
  BY <1>1, AllocInStores
<1>3. CachesDistinct'
  BY <1>1, AllocInStores
<1>4. /\ Caches'[PrimaryLcore] = kept
      /\ Caches'[SecondaryLcore] = Caches[SecondaryLcore]
      /\ Caches[PrimaryLcore] = Cached(PrimaryLcore)
      /\ hand'[Primary] = m /\ hand'[Secondary] = hand[Secondary]
  BY <1>1, <1>2, TwoProcs DEF Caches, StoresTyped, OwnLcores
<1>5. m # NoMbuf
  BY <1>2, MultiProcessAssumption
<1>6. /\ Held[1] = common /\ Held[2] = Cached(PrimaryLcore)
      /\ Held[3] = Caches[SecondaryLcore] /\ Held[4] = Range(ring) /\ Held[5] = {}
      /\ Held[6] = {hand[Secondary]} \ {NoMbuf}
  BY <1>1, <1>4, Places, Numbers, TwoProcs
<1>7. /\ (Held')[1] = common' /\ (Held')[2] = kept
      /\ (Held')[3] = Caches[SecondaryLcore] /\ (Held')[4] = Range(ring)
      /\ (Held')[5] = {m} /\ (Held')[6] = {hand[Secondary]} \ {NoMbuf}
  BY <1>1, <1>4, <1>5, PlacesAfter, Numbers, TwoProcs
<1>8. \A h \in (1 .. 6) \ {1, 2, 5} : (Held')[h] = Held[h]
  <2>1. \A h \in (1 .. 6) \ {1, 2, 5} : h = 3 \/ h = 4 \/ h = 6
    OBVIOUS
  <2> QED BY <1>6, <1>7, <2>1
<1>9. Held[1] \cap Held[2] = {}
  BY DEF PoolInv, Apart
<1>10. /\ {m} \subseteq Held[1] \cup Held[2]
       /\ (Held')[1] \cup (Held')[2] = (Held[1] \cup Held[2]) \ {m}
       /\ (Held')[1] \cap (Held')[2] = {}
  BY <1>2, <1>6, <1>7, <1>9 DEF AllocKeeps
<1>11. TakenFrom(6, Held, Held', 1, 2, 5, {m})
  BY <1>6, <1>7, <1>8, <1>10 DEF TakenFrom
<1> QED BY <1>1, <1>3, <1>11

(* ... and a free gives one back to that store and the process's cache.    *)
LEMMA FreeMoves ==
  ASSUME OwnLcores, PoolInv, NEW p \in Procs, FreeEnds(p)
  PROVE  /\ CachesDistinct' /\ ring' = ring
         /\ hand[p] \in Mbufs /\ hand[p] \notin Cached(CacheOf(p))
         /\ GivenTo(6, Held, Held', 1, CacheAt(p), InHandAt(p), {hand[p]})
<1>1. /\ StoresTyped /\ CachesDistinct /\ ring' = ring
      /\ loaded[p] = len[CacheOf(p)] /\ hand[p] \in Mbufs
      /\ hand' = [hand EXCEPT ![p] = NoMbuf]
  BY TwoProcs DEF PoolInv, LoadedIsLength, HandsMatch, FreeEnds, ringVars
<1>2. hand[p] # NoMbuf
  BY <1>1, MultiProcessAssumption
<1>3. /\ CacheAt(p) \in 1 .. 6 /\ InHandAt(p) \in 1 .. 6
      /\ CacheAt(p) # 1 /\ InHandAt(p) # 1 /\ CacheAt(p) # InHandAt(p)
      /\ CacheOf(p) \in Lcores
  BY TwoProcs DEF CacheAt, InHandAt
<1>4. /\ Held[1] = common /\ Held[CacheAt(p)] = Caches[CacheOf(p)]
      /\ Held[InHandAt(p)] = {hand[p]} /\ Caches[CacheOf(p)] = Cached(CacheOf(p))
  BY <1>2, <1>3, Places DEF Caches
<1>5. /\ Held[1] \cap Held[CacheAt(p)] = {}
      /\ Held[CacheAt(p)] \cap Held[InHandAt(p)] = {}
      /\ Held[1] \cap Held[InHandAt(p)] = {}
  BY <1>3 DEF PoolInv, Apart
<1>6. hand[p] \notin Cached(CacheOf(p))
  BY <1>4, <1>5
<1>7. PICK kept \in SUBSET Mbufs :
        /\ Caches' = [Caches EXCEPT ![CacheOf(p)] = kept]
        /\ FreeKeeps(CacheOf(p), hand[p], kept)
  BY <1>1, <1>6, FreeInStores
<1>8. CachesDistinct'
  BY <1>1, <1>6, FreeInStores
<1>9. /\ (Held')[1] = common' /\ (Held')[CacheAt(p)] = kept
      /\ (Held')[InHandAt(p)] = {}
  BY <1>1, <1>3, <1>7, PlacesAfter DEF Caches, StoresTyped
<1>10. \A h \in (1 .. 6) \ {1, CacheAt(p), InHandAt(p)} : (Held')[h] = Held[h]
  <2>1. \A q \in Procs \ {p} : /\ Caches'[CacheOf(q)] = Caches[CacheOf(q)]
                               /\ hand'[q] = hand[q]
    <3>1. \A q \in Procs \ {p} : CacheOf(q) \in Lcores /\ CacheOf(q) # CacheOf(p)
      BY TwoProcs DEF OwnLcores
    <3>2. DOMAIN Caches = Lcores /\ DOMAIN hand = Procs
      BY <1>1 DEF Caches, StoresTyped
    <3>3. \A q \in Procs \ {p} : Caches'[CacheOf(q)] = Caches[CacheOf(q)]
      BY <1>7, <3>1, <3>2
    <3>4. \A q \in Procs \ {p} : hand'[q] = hand[q]
      BY <1>1, <3>2
    <3> QED BY <3>3, <3>4
  <2>2. \A q \in Procs \ {p} : /\ (Held')[CacheAt(q)] = Held[CacheAt(q)]
                               /\ (Held')[InHandAt(q)] = Held[InHandAt(q)]
    <3> SUFFICES ASSUME NEW q \in Procs \ {p}
                 PROVE  /\ (Held')[CacheAt(q)] = Held[CacheAt(q)]
                        /\ (Held')[InHandAt(q)] = Held[InHandAt(q)]
      OBVIOUS
    <3>1. /\ Held[CacheAt(q)] = Caches[CacheOf(q)]
          /\ Held[InHandAt(q)] = {hand[q]} \ {NoMbuf}
          /\ (Held')[CacheAt(q)] = Caches'[CacheOf(q)]
          /\ (Held')[InHandAt(q)] = {hand'[q]} \ {NoMbuf}
      BY Places, PlacesAfter
    <3> QED BY <2>1, <3>1
  <2>3. (Held')[4] = Held[4]
    BY <1>1, Places, PlacesAfter
  <2> QED BY <2>2, <2>3, Numbers
<1>11. /\ (Held')[1] \cup (Held')[CacheAt(p)]
            = Held[1] \cup Held[CacheAt(p)] \cup {hand[p]}
       /\ (Held')[1] \cap (Held')[CacheAt(p)] = {}
  BY <1>4, <1>5, <1>7, <1>9 DEF FreeKeeps
<1>12. GivenTo(6, Held, Held', 1, CacheAt(p), InHandAt(p), {hand[p]})
  BY <1>4, <1>9, <1>10, <1>11 DEF GivenTo
<1> QED BY <1>1, <1>6, <1>8, <1>12

(* An enqueue moves the mbuf from the primary's hands to the ring, and a   *)
(* dequeue from the ring to the secondary's.                               *)
LEMMA RingMoves ==
  ASSUME OwnLcores, PoolInv, Enqueue \/ (Dequeue /\ ring # <<>>)
  PROVE  /\ UNCHANGED <<storeVars, loaded>> /\ IsInjective(ring')
         /\ \E i, k \in 1 .. 6, m \in Mbufs : i # k /\ Moved(6, Held, Held', i, k, {m})
<1>1. /\ ring \in Seq(Mbufs) /\ IsInjective(ring) /\ StoresTyped
      /\ Apart(6, Held) /\ NoMbuf \notin Mbufs
      /\ pc[Primary] = "enqueue" => hand[Primary] \in Mbufs
      /\ pc[Secondary] = "dequeue" => hand[Secondary] = NoMbuf
      /\ hand \in [Procs -> Mbufs \cup {NoMbuf}]
  BY TwoProcs, MultiProcessAssumption DEF PoolInv, OthersTyped, StoresTyped, HandsMatch
<1>2. UNCHANGED <<storeVars, loaded>> /\ Caches' = Caches
  BY Zenon DEF Enqueue, Dequeue, storeVars, Caches, Cached
<1>3. /\ (Held')[1] = Held[1] /\ (Held')[2] = Held[2] /\ (Held')[3] = Held[3]
  BY <1>2, PlacesListed DEF storeVars
<1>4. CASE Enqueue
  <2> DEFINE m == hand[Primary]
  <2>1. /\ m \in Mbufs /\ ring' = Append(ring, m)
        /\ hand' = [hand EXCEPT ![Primary] = NoMbuf]
    BY <1>1, <1>4 DEF Enqueue, RingWith
  <2>2. /\ hand'[Primary] = NoMbuf /\ hand'[Secondary] = hand[Secondary]
        /\ Held[5] = {m} /\ Held[4] = Range(ring)
        /\ (Held')[5] = {} /\ (Held')[6] = Held[6] /\ (Held')[4] = Range(ring')
    <3>1. hand'[Primary] = NoMbuf /\ hand'[Secondary] = hand[Secondary]
      BY <1>1, <2>1, TwoProcs
    <3>2. m # NoMbuf
      BY <1>1, <2>1
    <3> QED BY <3>1, <3>2, PlacesListed
  <2>3. m \notin Range(ring)
    <3>1. Held[4] \cap Held[5] = {}
      BY <1>1 DEF Apart
    <3> QED BY <2>2, <3>1
  <2>4. Range(ring') = Range(ring) \cup {m} /\ IsInjective(ring')
    BY <1>1, <2>1, <2>3, AppendSeq
  <2>5. \A h \in (1 .. 6) \ {5, 4} : (Held')[h] = Held[h]
    <3>1. \A h \in (1 .. 6) \ {5, 4} : h = 1 \/ h = 2 \/ h = 3 \/ h = 6
      OBVIOUS
    <3> QED BY <1>3, <2>2, <3>1
  <2>6. Moved(6, Held, Held', 5, 4, {m})
    BY <2>2, <2>4, <2>5 DEF Moved
  <2>7. 5 \in 1 .. 6 /\ 4 \in 1 .. 6 /\ 5 # 4 /\ m \in Mbufs
    BY <2>1
  <2> HIDE DEF m
  <2> QED BY <1>2, <2>4, <2>6, <2>7
<1>5. CASE Dequeue /\ ring # <<>>
  <2> DEFINE m == Head(ring)
  <2>1. /\ ring' = Tail(ring) /\ hand' = [hand EXCEPT ![Secondary] = m]
        /\ hand[Secondary] = NoMbuf
    BY <1>1, <1>5 DEF Dequeue
  <2>2. /\ m \in Mbufs /\ m \in Range(ring) /\ IsInjective(ring')
        /\ Range(ring') = Range(ring) \ {m}
    BY <1>1, <1>5, <2>1, TailSeq
  <2>3. /\ hand'[Secondary] = m /\ hand'[Primary] = hand[Primary]
        /\ Held[6] = {} /\ Held[4] = Range(ring)
        /\ (Held')[6] = {m} /\ (Held')[5] = Held[5] /\ (Held')[4] = Range(ring')
    <3>1. hand'[Secondary] = m /\ hand'[Primary] = hand[Primary]
      BY <1>1, <2>1, TwoProcs
    <3>2. m # NoMbuf
      BY <1>1, <2>2
    <3> QED BY <2>1, <3>1, <3>2, PlacesListed
  <2>4. \A h \in (1 .. 6) \ {4, 6} : (Held')[h] = Held[h]
    <3>1. \A h \in (1 .. 6) \ {4, 6} : h = 1 \/ h = 2 \/ h = 3 \/ h = 5
      OBVIOUS
    <3> QED BY <1>3, <2>3, <3>1
  <2>5. Moved(6, Held, Held', 4, 6, {m})
    BY <2>2, <2>3, <2>4 DEF Moved
  <2>6. 6 \in 1 .. 6 /\ 4 \in 1 .. 6 /\ 4 # 6 /\ m \in Mbufs
    BY <2>2
  <2> HIDE DEF m
  <2> QED BY <1>2, <2>2, <2>5, <2>6
<1> QED BY <1>4, <1>5

(* A kill takes from the secondary's hands what it held, a start finds     *)
(* them empty, and nobody else loses anything.                             *)
LEMMA LosesOne ==
  ASSUME PoolInv, Start \/ Kill
  PROVE  /\ UNCHANGED <<storeVars, ringVars, loaded>>
         /\ \A h \in 1 .. 5 : (Held')[h] = Held[h]
         /\ (Held')[6] = {} /\ (Start => Held[6] = {})
         /\ Held[6] \subseteq {hand[Secondary]}
<1>1. /\ hand \in [Procs -> Mbufs \cup {NoMbuf}]
      /\ Start => hand[Secondary] = NoMbuf
  BY TwoProcs DEF PoolInv, StoresTyped, HandsMatch, Start
<1>2. UNCHANGED <<storeVars, ringVars, loaded>>
  BY Zenon DEF Start, Kill, ringVars
<1>3. Caches' = Caches /\ common' = common /\ ring' = ring
  BY <1>2, Zenon DEF storeVars, ringVars, Caches, Cached
<1>4. hand'[Secondary] = NoMbuf /\ hand'[Primary] = hand[Primary]
  BY <1>1, TwoProcs DEF Start, Kill
<1>5. \A h \in 1 .. 5 : h = 1 \/ h = 2 \/ h = 3 \/ h = 4 \/ h = 5
  OBVIOUS
<1>6. \A h \in 1 .. 5 : (Held')[h] = Held[h]
  BY <1>3, <1>4, <1>5, PlacesListed
<1>7. (Held')[6] = {hand'[Secondary]} \ {NoMbuf} /\ Held[6] = {hand[Secondary]} \ {NoMbuf}
  BY PlacesListed
<1> QED BY <1>1, <1>2, <1>4, <1>6, <1>7

-----------------------------------------------------------------------------
(* The stores follow the primary.                                          *)

Running == PrimaryLabels \ {"register", "create", "createRing", "exited"}
Early == {"off", "register", "lookup", "exited"}

(* The steps of a primary that runs, those of a secondary that does, and   *)
(* those of one that is not there or has just started.                     *)
PrimaryRuns ==
  \/ CheckExit(Primary) \/ AllocBegins \/ AllocEnds \/ AllocFails \/ Stamp
  \/ Enqueue \/ EnqueueFails \/ FreeBegins(Primary) \/ FreeEnds(Primary)
SecondaryRuns ==
  \/ CheckExit(Secondary) \/ Dequeue \/ Process \/ FreeBegins(Secondary)
  \/ FreeEnds(Secondary) \/ Kill
SecondaryBegins ==
  StartFails(Secondary) \/ Register(Secondary) \/ Lookup \/ Start

(* Every step is one of these, of the bring-up or the end of the primary,  *)
(* or leaves what mbufs and labels are about alone.                        *)
LEMMA StepsSorted ==
  ASSUME [Next]_vars
  PROVE  \/ PrimaryRuns \/ SecondaryRuns \/ SecondaryBegins
         \/ StartFails(Primary) \/ Register(Primary) \/ CreatePool \/ CreateRing
         \/ CreateFails \/ FreeRing
         \/ UNCHANGED <<pc, hand, loaded, kills, storeVars, ringVars, stampVars>>
BY TwoProcs, Zenon
DEF Next, PrimaryStep, SecondaryStep, OperatorStep, Ended, PrimaryRuns, SecondaryRuns,
    SecondaryBegins, vars, Terminate, storeVars, ringVars, stampVars, runVars

(* What each kind of step does to the labels.                              *)
LEMMA PrimaryRunsOn ==
  ASSUME Labels, PrimaryRuns
  PROVE  /\ pc[Primary] \in Running /\ pc'[Primary] \in Running
         /\ pc'[Secondary] = pc[Secondary]
         /\ UNCHANGED <<ring_state, lastTimestamp, kills>>
<1> USE TwoProcs DEF Goto, Labels, Running, PrimaryLabels, ringVars, stampVars, runVars
<1>1. CASE CheckExit(Primary)
  BY <1>1 DEF CheckExit
<1>2. CASE AllocBegins \/ AllocEnds \/ AllocFails
  BY <1>2 DEF AllocBegins, AllocEnds, AllocFails, LoadLength
<1>3. CASE Stamp
  BY <1>3 DEF Stamp
<1>4. CASE Enqueue \/ EnqueueFails
  BY <1>4 DEF Enqueue, EnqueueFails, AfterFull
<1>5. CASE FreeBegins(Primary) \/ FreeEnds(Primary)
  BY <1>5 DEF FreeBegins, FreeEnds, LoadLength
<1> QED BY <1>1, <1>2, <1>3, <1>4, <1>5 DEF PrimaryRuns

(* A secondary that runs leaves the primary alone ...                      *)
LEMMA SecondaryRunsOn ==
  ASSUME Labels, SecondaryRuns
  PROVE  /\ pc[Secondary] \notin Early /\ pc'[Primary] = pc[Primary]
         /\ UNCHANGED <<ring_state, stamp, now>>
<1> USE TwoProcs DEF Goto, Labels, Early, ringVars, stampVars
<1>1. CASE CheckExit(Secondary)
  BY <1>1 DEF CheckExit
<1>2. CASE Dequeue \/ Process \/ Kill
  <2>1. /\ pc[Secondary] \in {"dequeue", "process", "check"}
        /\ UNCHANGED <<ring_state, stamp, now>>
    BY <1>2, Zenon DEF Dequeue, Process, Kill
  <2>2. \E label : pc' = [pc EXCEPT ![Secondary] = label]
    BY <1>2, Zenon DEF Dequeue, Process, Kill
  <2> QED BY <2>1, <2>2
<1>3. CASE FreeBegins(Secondary) \/ FreeEnds(Secondary)
  BY <1>3 DEF FreeBegins, FreeEnds, LoadLength
<1> QED BY <1>1, <1>2, <1>3 DEF SecondaryRuns

(* ... and so does one that starts, which runs on only with a ring that    *)
(* lives.                                                                  *)
LEMMA SecondaryBeginsOn ==
  ASSUME Labels, SecondaryBegins
  PROVE  /\ pc'[Primary] = pc[Primary]
         /\ UNCHANGED <<storeVars, ringVars, loaded, stamp, now, kills>>
         /\ pc[Secondary] \in Early /\ pc'[Secondary] \in Early \cup {"check"}
         /\ pc'[Secondary] = "check" => ring_state = "live"
<1> USE TwoProcs DEF Goto, Labels, Early, stampVars, runVars
<1>1. CASE StartFails(Secondary)
  BY <1>1 DEF StartFails
<1>2. CASE Register(Secondary)
  <2>1. PICK offset : pc' = [pc EXCEPT ![Secondary] =
                               IF RegistrationFailed(Unsigned(offset)) THEN "exited"
                               ELSE "lookup"]
    BY <1>2 DEF Register
  <2>2. pc[Secondary] = "register" /\ UNCHANGED <<storeVars, ringVars, loaded, stamp, now, kills>>
    BY <1>2 DEF Register
  <2> QED BY <2>1, <2>2
<1>3. CASE Lookup
  BY <1>3 DEF Lookup
<1>4. CASE Start
  BY <1>4 DEF Start
<1> QED BY <1>1, <1>2, <1>3, <1>4 DEF SecondaryBegins

(* Bringing the pool and the ring up, and taking the ring down.            *)
LEMMA PrimaryBeginsOn ==
  ASSUME Labels, \/ StartFails(Primary) \/ Register(Primary) \/ CreatePool
                 \/ CreateRing \/ CreateFails \/ FreeRing
  PROVE  /\ pc'[Secondary] = pc[Secondary] /\ UNCHANGED <<objs, len, loaded, hand, kills>>
         /\ UNCHANGED <<stamp, now, lastTimestamp>>
         /\ \/ /\ pc[Primary] = "create" /\ pc'[Primary] = "createRing"
               /\ common' = Mbufs /\ UNCHANGED ringVars
            \/ /\ pc[Primary] = "createRing" /\ pc'[Primary] = "check"
               /\ ring_state' = "live" /\ UNCHANGED <<common, ring>>
            \/ /\ pc[Primary] = "sleep" /\ pc'[Primary] = "exited"
               /\ ring_state' = "freed" /\ ring' = <<>> /\ UNCHANGED common
            \/ /\ pc[Primary] \in {"register", "create", "createRing"}
               /\ \/ pc'[Primary] = "exited"
                  \/ pc[Primary] = "register" /\ pc'[Primary] = "create"
               /\ UNCHANGED <<common, ringVars>>
<1> USE TwoProcs DEF Goto, Labels, storeVars, ringVars, stampVars, runVars
<1>1. CASE StartFails(Primary) \/ CreateFails
  BY <1>1 DEF StartFails, CreateFails
<1>2. CASE Register(Primary)
  <2>1. PICK offset : pc' = [pc EXCEPT ![Primary] =
                               IF RegistrationFailed(Unsigned(offset)) THEN "exited"
                               ELSE "create"]
    BY <1>2 DEF Register
  <2>2. /\ pc[Primary] = "register" /\ UNCHANGED <<storeVars, ringVars, stampVars>>
        /\ UNCHANGED <<loaded, hand, kills>>
    BY <1>2 DEF Register
  <2> QED BY <2>1, <2>2
<1>3. CASE CreatePool
  BY <1>3 DEF CreatePool
<1>4. CASE CreateRing
  BY <1>4 DEF CreateRing
<1>5. CASE FreeRing
  BY <1>5 DEF FreeRing
<1> QED BY <1>1, <1>2, <1>3, <1>4, <1>5

(* The pool and the ring come and go with the primary.                     *)
LEMMA StoresFollowNext ==
  ASSUME Labels, StoresFollowPrimary, [Next]_vars
  PROVE  StoresFollowPrimary'
<1> USE DEF StoresFollowPrimary, Running, PrimaryLabels, Early
<1>1. CASE PrimaryRuns
  <2>1. /\ pc[Primary] \in Running /\ pc'[Primary] \in Running
        /\ ring_state' = ring_state
    BY <1>1, PrimaryRunsOn
  <2> QED BY <2>1
<1>2. CASE SecondaryRuns
  <2>1. /\ pc[Secondary] \notin Early /\ pc'[Primary] = pc[Primary]
        /\ ring_state' = ring_state
    BY <1>2, SecondaryRunsOn
  <2> QED BY <2>1
<1>3. CASE SecondaryBegins
  <2>1. /\ pc'[Primary] = pc[Primary] /\ UNCHANGED <<storeVars, ringVars>>
        /\ pc'[Secondary] \in Early \cup {"check"}
        /\ pc'[Secondary] = "check" => ring_state = "live"
    BY <1>3, SecondaryBeginsOn
  <2> QED BY <2>1 DEF storeVars, ringVars
<1>4. CASE \/ StartFails(Primary) \/ Register(Primary) \/ CreatePool \/ CreateRing
           \/ CreateFails \/ FreeRing
  BY <1>4, PrimaryBeginsOn DEF ringVars
<1>5. CASE UNCHANGED <<pc, hand, loaded, kills, storeVars, ringVars, stampVars>>
  BY <1>5 DEF storeVars, ringVars
<1> QED BY <1>1, <1>2, <1>3, <1>4, <1>5, StepsSorted

-----------------------------------------------------------------------------
(* With a lcore of its own no process changes the length another loaded.   *)
LEMMA LoadedNext ==
  ASSUME OwnLcores, PoolInv, [Next]_vars
  PROVE  LoadedIsLength'
<1> USE TwoProcs DEF Goto, storeVars
<1>1. /\ DOMAIN pc = Procs /\ loaded \in [Procs -> 0 .. FlushThresh]
      /\ len \in Lengths
      /\ \A p \in Procs : pc[p] \in {"take", "put"} => loaded[p] = len[CacheOf(p)]
      /\ \A p, q \in Procs : p # q => CacheOf(p) # CacheOf(q)
  BY DEF PoolInv, Labels, StoresTyped, LoadedIsLength, OwnLcores
<1>2. CASE AllocBegins \/ \E p \in Procs : FreeBegins(p)
  <2>1. PICK p \in Procs : /\ loaded' = [loaded EXCEPT ![p] = len[CacheOf(p)]]
                           /\ \E label : pc' = [pc EXCEPT ![p] = label]
    BY <1>2 DEF AllocBegins, FreeBegins, LoadLength
  <2>2. len' = len
    BY <1>2 DEF AllocBegins, FreeBegins, LoadLength
  <2> QED BY <1>1, <2>1, <2>2 DEF LoadedIsLength
<1>3. CASE AllocEnds \/ \E p \in Procs : FreeEnds(p)
  <2>1. PICK p \in Procs : (AllocEnds /\ p = Primary) \/ FreeEnds(p)
    BY <1>3
  <2>2. \/ len' = len
        \/ \E k : len' = [len EXCEPT ![CacheOf(p)] = k]
    BY <2>1
    DEF AllocEnds, TakeFromCache, TakeAndRefill, TakeFromCommon, FreeEnds,
        PutToCache, PutAndFlush
  <2>3. \A q \in Procs \ {p} : len'[CacheOf(q)] = len[CacheOf(q)]
    BY <1>1, <2>2 DEF Lengths
  <2>4. pc' = [pc EXCEPT ![p] = "stamp"] \/ pc' = [pc EXCEPT ![p] = "check"]
    BY <2>1 DEF AllocEnds, FreeEnds
  <2>5. loaded' = loaded
    BY <2>1 DEF AllocEnds, FreeEnds
  <2> QED BY <1>1, <2>3, <2>4, <2>5 DEF LoadedIsLength
<1>4. ASSUME UNCHANGED <<storeVars, loaded>>,
             \A p \in Procs : pc'[p] = pc[p] \/ pc'[p] \notin {"take", "put"}
      PROVE  LoadedIsLength'
  BY <1>1, <1>4 DEF LoadedIsLength
<1>5. CASE \/ \E p \in Procs : CheckExit(p)
           \/ AllocFails \/ Stamp \/ Enqueue \/ EnqueueFails
  <2>1. UNCHANGED <<storeVars, loaded>>
    BY <1>5, Zenon DEF CheckExit, AllocFails, Stamp, Enqueue, EnqueueFails
  <2>2. PICK p \in Procs, label \in {"check", "alloc", "dequeue", "sleep", "exited",
                                     "enqueue", "undefined", "free"} :
          pc' = [pc EXCEPT ![p] = label]
    BY <1>5 DEF CheckExit, AllocFails, Stamp, Enqueue, EnqueueFails, AfterFull
  <2> QED BY <1>1, <1>4, <2>1, <2>2
<1>6. CASE Dequeue \/ Process \/ Kill
  <2>1. UNCHANGED <<storeVars, loaded>>
    BY <1>6, Zenon DEF Dequeue, Process, Kill
  <2>2. PICK label \in {"check", "undefined", "process", "free", "exited"} :
          pc' = [pc EXCEPT ![Secondary] = label]
    BY <1>6 DEF Dequeue, Process, Kill, AfterProcess
  <2> QED BY <1>1, <1>4, <2>1, <2>2
<1>7. CASE SecondaryBegins
  <2>1. /\ UNCHANGED <<storeVars, loaded>> /\ pc'[Primary] = pc[Primary]
        /\ pc'[Secondary] \notin {"take", "put"}
    BY <1>7, SecondaryBeginsOn DEF PoolInv, Early
  <2> QED BY <1>4, <2>1
<1>8. CASE \/ StartFails(Primary) \/ Register(Primary) \/ CreatePool \/ CreateRing
           \/ CreateFails \/ FreeRing
  <2>1. /\ UNCHANGED <<len, loaded>> /\ pc'[Secondary] = pc[Secondary]
        /\ pc'[Primary] \notin {"take", "put"}
    BY <1>8, PrimaryBeginsOn DEF PoolInv
  <2> QED BY <1>1, <2>1 DEF LoadedIsLength
<1>9. CASE UNCHANGED <<pc, hand, loaded, kills, storeVars, ringVars, stampVars>>
  BY <1>4, <1>9
<1> QED BY <1>2, <1>3, <1>5, <1>6, <1>7, <1>8, <1>9, StepsSorted
        DEF PrimaryRuns, SecondaryRuns

-----------------------------------------------------------------------------
(* Every mbuf has one owner.                                               *)

Kept ==
  /\ Apart(6, Held') /\ IsInjective(ring') /\ CachesDistinct'
  /\ Lost(Held') \subseteq Lost(Held)

(* Steps that leave the stores, the ring and the hands alone keep it.      *)
LEMMA NothingMoves ==
  ASSUME PoolInv, UNCHANGED <<storeVars, ring, hand>>
  PROVE  Kept
<1>1. Held' = Held /\ CachesDistinct' = CachesDistinct /\ ring' = ring
  BY Zenon DEF storeVars, Held, Cached, InHand, CachesDistinct
<1> QED BY <1>1 DEF Kept, PoolInv

(* So do allocations, frees, enqueues and dequeues.                        *)
LEMMA MbufsMove ==
  ASSUME OwnLcores, PoolInv,
         \/ AllocEnds \/ (\E p \in Procs : FreeEnds(p))
         \/ Enqueue \/ (Dequeue /\ ring # <<>>)
  PROVE  Kept
<1>1. Apart(6, Held) /\ IsInjective(ring) /\ 6 \in Nat
  BY DEF PoolInv
<1>2. SUFFICES OwnersKept(6, Held, Held') /\ IsInjective(ring') /\ CachesDistinct'
  BY NoneLost DEF Kept, OwnersKept
<1>3. CASE AllocEnds
  <2>1. PICK m : TakenFrom(6, Held, Held', 1, 2, 5, {m})
    BY <1>3, AllocMoves
  <2>2. CachesDistinct' /\ ring' = ring
    BY <1>3, AllocMoves
  <2>3. /\ 1 \in 1 .. 6 /\ 2 \in 1 .. 6 /\ 5 \in 1 .. 6
        /\ 1 # 2 /\ 1 # 5 /\ 2 # 5
    OBVIOUS
  <2>4. OwnersKept(6, Held, Held')
    BY <1>1, <2>1, <2>3, TakenKeepsOwners
  <2> QED BY <1>1, <2>2, <2>4
<1>4. CASE \E p \in Procs : FreeEnds(p)
  <2>1. PICK p \in Procs : FreeEnds(p)
    BY <1>4
  <2>2. /\ CachesDistinct' /\ ring' = ring
        /\ GivenTo(6, Held, Held', 1, CacheAt(p), InHandAt(p), {hand[p]})
    BY <2>1, FreeMoves
  <2>3. /\ CacheAt(p) \in 1 .. 6 /\ InHandAt(p) \in 1 .. 6 /\ 1 \in 1 .. 6
        /\ 1 # CacheAt(p) /\ 1 # InHandAt(p) /\ CacheAt(p) # InHandAt(p)
    BY DEF CacheAt, InHandAt
  <2>4. OwnersKept(6, Held, Held')
    BY <1>1, <2>2, <2>3, GivenKeepsOwners
  <2> QED BY <1>1, <2>2, <2>4
<1>5. CASE Enqueue \/ (Dequeue /\ ring # <<>>)
  <2>1. PICK i \in 1 .. 6, k \in 1 .. 6, m \in Mbufs :
          i # k /\ Moved(6, Held, Held', i, k, {m})
    BY <1>5, RingMoves
  <2>2. UNCHANGED <<storeVars, loaded>> /\ IsInjective(ring')
    BY <1>5, RingMoves
  <2>3. CachesDistinct'
    BY <2>2, Zenon DEF storeVars, CachesDistinct, PoolInv
  <2>4. OwnersKept(6, Held, Held')
    BY <1>1, <2>1, MovedKeepsOwners
  <2> QED BY <2>2, <2>3, <2>4
<1> QED BY <1>3, <1>4, <1>5

(* What one step keeps of the owners, whatever step it is.                 *)
OwnersAfter ==
  /\ Apart(6, Held') /\ IsInjective(ring') /\ CachesDistinct'
  /\ ring_state' = "live" => Cardinality(Lost(Held')) <= kills'

FewLost == ring_state = "live" => Cardinality(Lost(Held)) <= kills

(* A step that keeps the owners and kills nobody costs nothing.            *)
LEMMA KeptIsEnough ==
  ASSUME FewLost, Kept, UNCHANGED <<ring_state, kills>>, kills \in Nat
  PROVE  OwnersAfter
<1>1. IsFiniteSet(Lost(Held))
  <2>1. Lost(Held) \in SUBSET Mbufs
    BY DEF Lost
  <2> QED BY <2>1, PartIsSmall, MultiProcessAssumption
<1>2. /\ Cardinality(Lost(Held')) <= Cardinality(Lost(Held))
      /\ Cardinality(Lost(Held')) \in Nat /\ Cardinality(Lost(Held)) \in Nat
  BY <1>1, PartIsSmall DEF Kept
<1> QED BY <1>2 DEF OwnersAfter, Kept, FewLost

(* Places that only lose mbufs still share none.                           *)
LEMMA ApartShrinks ==
  ASSUME NEW a, NEW b, Apart(6, a), \A h \in 1 .. 6 : b[h] \subseteq a[h]
  PROVE  Apart(6, b)
BY DEF Apart

(* The start of a secondary costs nothing, and its kill what it held.      *)
LEMMA StartAndKillCost ==
  ASSUME PoolInv, FewLost, Start \/ Kill
  PROVE  OwnersAfter
<1>1. /\ UNCHANGED <<storeVars, ringVars>>
      /\ \A h \in 1 .. 5 : (Held')[h] = Held[h]
      /\ (Held')[6] = {} /\ (Start => Held[6] = {})
      /\ Held[6] \subseteq {hand[Secondary]}
  BY LosesOne
<1>2. \A h \in 1 .. 6 : h \in 1 .. 5 \/ h = 6
  OBVIOUS
<1>3. Apart(6, Held')
  <2>1. \A h \in 1 .. 6 : (Held')[h] \subseteq Held[h]
    BY <1>1, <1>2
  <2> QED BY <2>1, ApartShrinks DEF PoolInv
<1>4. CachesDistinct' /\ IsInjective(ring')
  <2>1. CachesDistinct' = CachesDistinct /\ ring' = ring
    BY <1>1, Zenon DEF storeVars, ringVars, CachesDistinct
  <2> QED BY <2>1 DEF PoolInv
<1>5. kills \in Nat
  BY MultiProcessAssumption DEF PoolInv, OthersTyped
<1>6. CASE Start
  <2>1. Lost(Held') \subseteq Lost(Held)
    BY <1>1, <1>2, <1>6 DEF Lost
  <2>2. UNCHANGED <<ring_state, kills>>
    BY <1>1, <1>6 DEF Start, ringVars
  <2> QED BY <1>3, <1>4, <1>5, <2>1, <2>2, KeptIsEnough DEF Kept
<1>7. CASE Kill
  <2>1. kills' = kills + 1 /\ ring_state' = ring_state
    BY <1>1, <1>7 DEF Kill, ringVars
  <2>2. Lost(Held') \subseteq Lost(Held) \cup {hand[Secondary]}
    BY <1>1, <1>2 DEF Lost
  <2>3. IsFiniteSet(Lost(Held))
    <3>1. Lost(Held) \in SUBSET Mbufs
      BY DEF Lost
    <3> QED BY <3>1, PartIsSmall, MultiProcessAssumption
  <2>4. /\ IsFiniteSet(Lost(Held) \cup {hand[Secondary]})
        /\ Cardinality(Lost(Held) \cup {hand[Secondary]}) <= Cardinality(Lost(Held)) + 1
        /\ Cardinality(Lost(Held)) \in Nat
    BY <2>3, OneMoreOneLess, FS_AddElement
  <2>5. /\ Cardinality(Lost(Held'))
             <= Cardinality(Lost(Held) \cup {hand[Secondary]})
        /\ Cardinality(Lost(Held')) \in Nat
        /\ Cardinality(Lost(Held) \cup {hand[Secondary]}) \in Nat
    BY <2>2, <2>4, PartIsSmall
  <2> QED BY <1>3, <1>4, <1>5, <2>1, <2>4, <2>5 DEF OwnersAfter, FewLost
<1> QED BY <1>6, <1>7

(* Before the pool exists nobody holds an mbuf.                            *)
LEMMA NobodyHolds ==
  ASSUME PoolInv, pc[Primary] \in {"register", "create", "createRing"}
  PROVE  \A h \in 2 .. 6 : Held[h] = {}
<1>1. /\ ring = <<>> /\ len[PrimaryLcore] = 0 /\ len[SecondaryLcore] = 0
      /\ pc[Secondary] \in Early
  BY TwoProcs DEF PoolInv, StoresFollowPrimary, Early
<1>2. hand[Primary] = NoMbuf /\ hand[Secondary] = NoMbuf
  BY <1>1, TwoProcs DEF PoolInv, HandsMatch, Early
<1>3. Range(ring) = {}
  BY <1>1, NothingInEmptySeq
<1>4. Cached(PrimaryLcore) = {} /\ Cached(SecondaryLcore) = {}
  BY <1>1 DEF Cached
<1>5. \A h \in 2 .. 6 : h = 2 \/ h = 3 \/ h = 4 \/ h = 5 \/ h = 6
  OBVIOUS
<1> QED BY <1>2, <1>3, <1>4, <1>5, TwoProcs DEF Held, InHand

(* The pool and the ring are brought up whole, and the ring taken down.    *)
LEMMA BringUpOwns ==
  ASSUME PoolInv, FewLost,
         \/ StartFails(Primary) \/ Register(Primary) \/ CreatePool
         \/ CreateRing \/ CreateFails \/ FreeRing
  PROVE  OwnersAfter
<1>1. Labels /\ kills \in Nat /\ Apart(6, Held) /\ CachesDistinct /\ IsInjective(ring)
  BY MultiProcessAssumption DEF PoolInv, OthersTyped
<1>2. /\ pc'[Secondary] = pc[Secondary] /\ UNCHANGED <<objs, len, loaded, hand, kills>>
  BY <1>1, PrimaryBeginsOn
<1>3. /\ CachesDistinct' = CachesDistinct /\ Caches' = Caches
  BY <1>2, Zenon DEF CachesDistinct, Caches, Cached
<1>4. \/ /\ pc[Primary] = "create" /\ pc'[Primary] = "createRing"
         /\ common' = Mbufs /\ UNCHANGED ringVars
      \/ /\ pc[Primary] = "createRing" /\ pc'[Primary] = "check"
         /\ ring_state' = "live" /\ UNCHANGED <<common, ring>>
      \/ /\ pc[Primary] = "sleep" /\ pc'[Primary] = "exited"
         /\ ring_state' = "freed" /\ ring' = <<>> /\ UNCHANGED common
      \/ UNCHANGED <<common, ringVars>>
  BY <1>1, PrimaryBeginsOn
<1>5. CASE /\ pc[Primary] = "create" /\ common' = Mbufs /\ UNCHANGED ringVars
  <2>1. \A h \in 2 .. 6 : Held[h] = {} /\ (Held')[h] = {}
    <3>1. \A h \in 2 .. 6 : Held[h] = {}
      BY <1>5, NobodyHolds
    <3>2. \A h \in 2 .. 6 : h = 2 \/ h = 3 \/ h = 4 \/ h = 5 \/ h = 6
      OBVIOUS
    <3>3. \A h \in 2 .. 6 : (Held')[h] = Held[h]
      BY <1>2, <1>3, <1>5, <3>2, PlacesListed DEF ringVars
    <3> QED BY <3>1, <3>3
  <2>2. Apart(6, Held')
    <3>1. \A g, h \in 1 .. 6 : g # h => g \in 2 .. 6 \/ h \in 2 .. 6
      OBVIOUS
    <3> QED BY <2>1, <3>1 DEF Apart
  <2>3. ring_state' = "absent" /\ IsInjective(ring')
    BY <1>1, <1>5 DEF PoolInv, StoresFollowPrimary, ringVars
  <2> QED BY <1>1, <1>3, <2>2, <2>3 DEF OwnersAfter
<1>6. CASE /\ pc[Primary] = "createRing" /\ ring_state' = "live"
           /\ UNCHANGED <<common, ring>>
  <2>1. Kept
    BY <1>2, <1>6, NothingMoves DEF storeVars
  <2>2. common = Mbufs /\ Held[1] = common /\ 1 \in 1 .. 6
    BY <1>6, PlacesListed DEF PoolInv, StoresFollowPrimary
  <2>3. Lost(Held') = {}
    BY <2>1, <2>2 DEF Kept, Lost
  <2>4. Cardinality(Lost(Held')) = 0
    BY <2>3, FS_EmptySet
  <2> QED BY <1>1, <1>2, <2>1, <2>4 DEF OwnersAfter, Kept
<1>7. CASE ring_state' = "freed" /\ ring' = <<>> /\ UNCHANGED common
  <2>1. \A h \in 1 .. 6 : h = 1 \/ h = 2 \/ h = 3 \/ h = 4 \/ h = 5 \/ h = 6
    OBVIOUS
  <2>2. Range(ring') = {} /\ IsInjective(ring')
    BY <1>7, NothingInEmptySeq
  <2>3. \A h \in 1 .. 6 : (Held')[h] \subseteq Held[h]
    BY <1>2, <1>3, <1>7, <2>1, <2>2, PlacesListed
  <2>4. Apart(6, Held')
    BY <1>1, <2>3, ApartShrinks
  <2> QED BY <1>1, <1>3, <1>7, <2>2, <2>4 DEF OwnersAfter
<1>8. CASE UNCHANGED <<common, ringVars>>
  <2>1. Kept
    BY <1>2, <1>8, NothingMoves DEF storeVars, ringVars
  <2> QED BY <1>1, <1>2, <1>8, <2>1, KeptIsEnough DEF ringVars
<1> QED BY <1>4, <1>5, <1>6, <1>7, <1>8

(* Every step leaves every mbuf with one owner, but those a kill costs.    *)
LEMMA OwnersNext ==
  ASSUME OwnLcores, PoolInv, FewLost, [Next]_vars
  PROVE  OwnersAfter
<1>1. Labels /\ kills \in Nat
  BY MultiProcessAssumption DEF PoolInv, OthersTyped
<1>2. CASE PrimaryRuns
  <2>1. UNCHANGED <<ring_state, kills>>
    BY <1>1, <1>2, PrimaryRunsOn
  <2>2. \/ AllocEnds \/ FreeEnds(Primary) \/ Enqueue
        \/ UNCHANGED <<storeVars, ring, hand>>
    BY <1>2, Zenon
    DEF PrimaryRuns, CheckExit, AllocBegins, AllocFails, Stamp, EnqueueFails,
        FreeBegins, LoadLength, ringVars
  <2>3. Kept
    BY <2>2, MbufsMove, NothingMoves, TwoProcs
  <2> QED BY <1>1, <2>1, <2>3, KeptIsEnough
<1>3. CASE SecondaryRuns /\ ~Kill
  <2>1. UNCHANGED <<ring_state, kills>>
    BY <1>3, Zenon
    DEF SecondaryRuns, CheckExit, Dequeue, Process, FreeBegins, FreeEnds, LoadLength,
        ringVars, runVars
  <2>2. \/ FreeEnds(Secondary) \/ (Dequeue /\ ring # <<>>)
        \/ UNCHANGED <<storeVars, ring, hand>>
    BY <1>3
    DEF SecondaryRuns, CheckExit, Dequeue, Process, FreeBegins, LoadLength, ringVars
  <2>3. Kept
    BY <2>2, MbufsMove, NothingMoves, TwoProcs
  <2> QED BY <1>1, <2>1, <2>3, KeptIsEnough
<1>4. CASE SecondaryBegins /\ ~Start
  <2>1. /\ UNCHANGED <<storeVars, ringVars, hand>> /\ kills' = kills
    BY <1>4, Zenon DEF SecondaryBegins, StartFails, Register, Lookup, runVars
  <2>2. Kept
    BY <2>1, NothingMoves DEF ringVars
  <2> QED BY <1>1, <2>1, <2>2, KeptIsEnough DEF ringVars
<1>5. CASE UNCHANGED <<pc, hand, loaded, kills, storeVars, ringVars, stampVars>>
  <2>1. Kept
    BY <1>5, NothingMoves DEF ringVars
  <2> QED BY <1>1, <1>5, <2>1, KeptIsEnough DEF ringVars
<1> QED BY <1>2, <1>3, <1>4, <1>5, StartAndKillCost, BringUpOwns, StepsSorted

-----------------------------------------------------------------------------
(* Timestamps: a way along which they ascend, from low on.                 *)
Ascending(st, low, w) ==
  /\ \A i \in 1 .. Len(w) : low <= st[w[i]]
  /\ \A i, j \in 1 .. Len(w) : i < j => st[w[i]] <= st[w[j]]

(* StampsAscend says so of the way.                                        *)
LEMMA StampsMean ==
  StampsAscend <=> /\ \A m \in Mbufs : stamp[m] <= now
                   /\ pc[Primary] = "enqueue" => stamp[hand[Primary]] = now
                   /\ lastTimestamp <= now /\ Ascending(stamp, lastTimestamp, Way)
BY DEF StampsAscend, Ascending

(* The first may leave, and its timestamp is then below the others ...     *)
LEMMA FirstLeaves ==
  ASSUME NEW st \in [Mbufs -> Nat], NEW low \in Nat, NEW w \in Seq(Mbufs), w # <<>>,
         Ascending(st, low, w)
  PROVE  /\ low <= st[Head(w)] /\ Ascending(st, low, Tail(w))
         /\ Ascending(st, st[Head(w)], Tail(w))
<1>1. /\ Len(w) \in Nat \ {0} /\ Len(Tail(w)) = Len(w) - 1 /\ Head(w) = w[1]
      /\ \A i \in 1 .. Len(w) - 1 : Tail(w)[i] = w[i + 1]
  OBVIOUS
<1>2. \A i \in 1 .. Len(w) - 1 : i + 1 \in 1 .. Len(w) /\ 1 < i + 1 /\ 1 \in 1 .. Len(w)
  BY <1>1
<1>3. low <= st[Head(w)]
  BY <1>1 DEF Ascending
<1>4. \A i \in 1 .. Len(Tail(w)) : low <= st[Tail(w)[i]] /\ st[w[1]] <= st[Tail(w)[i]]
  BY <1>1, <1>2 DEF Ascending
<1>5. ASSUME NEW i \in 1 .. Len(Tail(w)), NEW j \in 1 .. Len(Tail(w)), i < j
      PROVE  st[Tail(w)[i]] <= st[Tail(w)[j]]
  <2>1. i + 1 \in 1 .. Len(w) /\ j + 1 \in 1 .. Len(w) /\ i + 1 < j + 1
    BY <1>1, <1>5
  <2>2. Tail(w)[i] = w[i + 1] /\ Tail(w)[j] = w[j + 1]
    BY <1>1
  <2> QED BY <2>1, <2>2 DEF Ascending
<1> QED BY <1>1, <1>3, <1>4, <1>5 DEF Ascending

(* ... and so may the last, and all behind the first.                      *)
LEMMA LastLeaves ==
  ASSUME NEW st, NEW low, NEW u \in Seq(Mbufs), NEW v \in Seq(Mbufs),
         Ascending(st, low, u \o v)
  PROVE  Ascending(st, low, u)
<1>1. /\ Len(u) \in Nat /\ Len(v) \in Nat /\ Len(u \o v) = Len(u) + Len(v)
      /\ \A i \in 1 .. Len(u) : (u \o v)[i] = u[i]
  OBVIOUS
<1>2. \A i \in 1 .. Len(u) : i \in 1 .. Len(u \o v)
  BY <1>1
<1> QED BY <1>1, <1>2 DEF Ascending

(* A packet that is not on the way gets a timestamp above all others, and  *)
(* may then join it.                                                       *)
LEMMA LaterJoins ==
  ASSUME NEW st \in [Mbufs -> Nat], NEW low \in Nat, NEW w \in Seq(Mbufs),
         NEW m \in Mbufs, NEW v \in Nat, m \notin Range(w),
         \A k \in Mbufs : st[k] <= v, low <= v, Ascending(st, low, w)
  PROVE  /\ Ascending([st EXCEPT ![m] = v], low, w)
         /\ Ascending([st EXCEPT ![m] = v], low, Append(w, m))
<1> DEFINE s == [st EXCEPT ![m] = v]
           t == Append(w, m)
<1>1. /\ Len(w) \in Nat /\ Len(t) = Len(w) + 1 /\ t[Len(w) + 1] = m
      /\ \A i \in 1 .. Len(w) : t[i] = w[i] /\ w[i] \in Mbufs
  OBVIOUS
<1>2. \A i \in 1 .. Len(w) : w[i] # m
  BY RangeElement
<1>3. \A i \in 1 .. Len(w) : s[w[i]] = st[w[i]] /\ st[w[i]] <= v
  BY <1>1, <1>2
<1>4. s[m] = v
  OBVIOUS
<1> HIDE DEF s, t
<1>5. Ascending(s, low, w)
  BY <1>3 DEF Ascending
<1>6. \A i \in 1 .. Len(t) : i \in 1 .. Len(w) \/ i = Len(w) + 1
  BY <1>1
<1>7. \A i \in 1 .. Len(t) : low <= s[t[i]]
  BY <1>1, <1>3, <1>4, <1>6 DEF Ascending
<1>8. ASSUME NEW i \in 1 .. Len(t), NEW j \in 1 .. Len(t), i < j
      PROVE  s[t[i]] <= s[t[j]]
  <2>1. i \in 1 .. Len(w)
    BY <1>1, <1>8
  <2>2. CASE j = Len(w) + 1
    BY <1>1, <1>3, <1>4, <2>1, <2>2
  <2>3. CASE j \in 1 .. Len(w)
    BY <1>1, <1>3, <1>8, <2>1, <2>3 DEF Ascending
  <2> QED BY <1>6, <2>2, <2>3
<1>9. Ascending(s, low, t)
  BY <1>7, <1>8 DEF Ascending
<1> QED BY <1>5, <1>9 DEF s, t

(* The way, end to end.                                                    *)
Front == IF pc[Secondary] = "process" THEN <<hand[Secondary]>> ELSE <<>>
Back == IF pc[Primary] = "enqueue" THEN <<hand[Primary]>> ELSE <<>>

(* The way is the packet in the secondary's hands, the ring and the packet *)
(* the primary is about to enqueue.                                        *)
LEMMA WayIs ==
  /\ Way = Front \o ring \o Back /\ Way' = Front' \o ring' \o Back'
BY DEF Way, Front, Back

(* It is a sequence of mbufs, and so is each part of it.                   *)
LEMMA WayTyped ==
  ASSUME PoolInv
  PROVE  /\ Front \in Seq(Mbufs) /\ ring \in Seq(Mbufs) /\ Back \in Seq(Mbufs)
         /\ Front \o ring \in Seq(Mbufs) /\ Way \in Seq(Mbufs)
         /\ stamp \in [Mbufs -> Nat] /\ lastTimestamp \in Nat /\ now \in Nat
<1>1. /\ pc[Secondary] = "process" => hand[Secondary] \in Mbufs
      /\ pc[Primary] = "enqueue" => hand[Primary] \in Mbufs
  BY TwoProcs DEF PoolInv, HandsMatch
<1>2. Front \in Seq(Mbufs) /\ Back \in Seq(Mbufs)
  BY <1>1 DEF Front, Back
<1>3. ring \in Seq(Mbufs)
  BY DEF PoolInv, OthersTyped
<1>4. Front \o ring \in Seq(Mbufs) /\ Front \o ring \o Back \in Seq(Mbufs)
  BY <1>2, <1>3
<1>5. /\ stamp \in [Mbufs -> Nat] /\ lastTimestamp \in Nat /\ now \in Nat
  BY MultiProcessAssumption DEF PoolInv, OthersTyped
<1> QED BY <1>2, <1>3, <1>4, <1>5, WayIs

(* What is on its way stays as it is, or loses what the goal allows.       *)
LEMMA SameWay ==
  ASSUME StampsAscend, PoolInv, UNCHANGED <<stamp, now>>, Way' = Way,
         lastTimestamp' = lastTimestamp \/ lastTimestamp' = 0,
         pc'[Primary] = "enqueue"
           => pc[Primary] = "enqueue" /\ hand'[Primary] = hand[Primary]
  PROVE  StampsAscend'
<1>1. /\ \A m \in Mbufs : stamp[m] <= now
      /\ pc[Primary] = "enqueue" => stamp[hand[Primary]] = now
      /\ lastTimestamp <= now /\ Ascending(stamp, lastTimestamp, Way)
      /\ stamp \in [Mbufs -> Nat] /\ lastTimestamp \in Nat /\ now \in Nat
      /\ Way \in Seq(Mbufs)
  BY StampsMean, WayTyped
<1>2. \A i \in 1 .. Len(Way) : Way[i] \in Mbufs
  BY <1>1
<1>3. Ascending(stamp, 0, Way)
  BY <1>1, <1>2 DEF Ascending
<1>4. lastTimestamp' <= now /\ Ascending(stamp, lastTimestamp', Way)
  BY <1>1, <1>3
<1> QED BY <1>1, <1>4 DEF StampsAscend, Ascending

(* The steps of the primary ...                                            *)
LEMMA PrimaryStampsNext ==
  ASSUME OwnLcores, PoolInv, StampsAscend, PrimaryRuns
  PROVE  StampsAscend'
<1> USE TwoProcs DEF Goto, Running, PrimaryLabels
<1>1. /\ Front \in Seq(Mbufs) /\ ring \in Seq(Mbufs) /\ Back \in Seq(Mbufs)
      /\ Front \o ring \in Seq(Mbufs) /\ Way \in Seq(Mbufs)
      /\ stamp \in [Mbufs -> Nat] /\ lastTimestamp \in Nat /\ now \in Nat
      /\ DOMAIN pc = Procs /\ hand \in [Procs -> Mbufs \cup {NoMbuf}]
  BY WayTyped DEF PoolInv, Labels, StoresTyped
<1>2. /\ \A m \in Mbufs : stamp[m] <= now
      /\ lastTimestamp <= now /\ Ascending(stamp, lastTimestamp, Way)
  BY StampsMean
<1>3. pc'[Secondary] = pc[Secondary] /\ lastTimestamp' = lastTimestamp
  BY PrimaryRunsOn DEF PoolInv
<1>4. CASE CheckExit(Primary) \/ AllocBegins \/ AllocEnds \/ AllocFails
           \/ FreeBegins(Primary) \/ FreeEnds(Primary)
  <2>1. UNCHANGED <<stamp, now, ring>>
    BY <1>4, Zenon
    DEF CheckExit, AllocBegins, AllocEnds, AllocFails, FreeBegins, FreeEnds,
        LoadLength, ringVars, stampVars
  <2>2. pc[Primary] # "enqueue" /\ pc'[Primary] # "enqueue"
    BY <1>1, <1>4
    DEF CheckExit, AllocBegins, AllocEnds, AllocFails, FreeBegins, FreeEnds, LoadLength
  <2>3. hand'[Secondary] = hand[Secondary]
    <3>1. \/ hand' = hand \/ (\E m \in Mbufs : hand' = [hand EXCEPT ![Primary] = m])
          \/ hand' = [hand EXCEPT ![Primary] = NoMbuf]
      <4>1. AllocEnds => \E m \in Mbufs : hand' = [hand EXCEPT ![Primary] = m]
        BY AllocFills DEF PoolInv
      <4> QED BY <1>4, <4>1, Zenon
              DEF CheckExit, AllocBegins, AllocFails, FreeBegins, FreeEnds, LoadLength
    <3> QED BY <1>1, <3>1
  <2>4. Front' = Front /\ Back' = Back
    BY <1>3, <2>2, <2>3 DEF Front, Back
  <2>5. Way' = Way
    BY <2>1, <2>4, WayIs
  <2> QED BY <1>3, <2>1, <2>2, <2>5, SameWay
<1>5. CASE Stamp
  <2> DEFINE m == hand[Primary]
             s == [stamp EXCEPT ![m] = now + 1]
  <2>1. /\ stamp' = s /\ now' = now + 1 /\ ring' = ring /\ hand' = hand
        /\ pc[Primary] = "stamp" /\ pc'[Primary] \in {"enqueue", "undefined"}
    BY <1>1, <1>5 DEF Stamp, ringVars
  <2>2. m \in Mbufs
    BY <2>1 DEF PoolInv, HandsMatch
  <2>3. Front' = Front /\ Back = <<>> /\ Way = Front \o ring
    BY <1>1, <1>3, <2>1, WayIs DEF Front, Back
  <2>4. m \notin Range(Way)
    <3>1. Held[4] \cap Held[5] = {} /\ Held[5] \cap Held[6] = {}
      BY DEF PoolInv, Apart
    <3>2. m # NoMbuf
      BY <2>2, MultiProcessAssumption
    <3>3. m \notin Range(ring)
      BY <3>1, <3>2, PlacesListed
    <3>4. pc[Secondary] = "process" => hand[Secondary] # m
      BY <3>1, <3>2, PlacesListed
    <3>5. ASSUME NEW i \in 1 .. Len(Way)
          PROVE  Way[i] # m
      <4>1. CASE pc[Secondary] = "process"
        <5>1. Way = <<hand[Secondary]>> \o ring
          BY <2>3, <4>1 DEF Front
        <5>2. i = 1 \/ (i - 1 \in 1 .. Len(ring) /\ Way[i] = ring[i - 1])
          BY <1>1, <5>1
        <5>3. i = 1 => Way[i] = hand[Secondary]
          BY <1>1, <5>1
        <5> QED BY <1>1, <3>3, <3>4, <4>1, <5>2, <5>3, RangeElement
      <4>2. CASE pc[Secondary] # "process"
        <5>1. Way = ring
          BY <1>1, <2>3, <4>2 DEF Front
        <5> QED BY <1>1, <3>3, <5>1, RangeElement
      <4> QED BY <4>1, <4>2
    <3> QED BY <1>1, <3>5, RangeElement
  <2>5. /\ \A k \in Mbufs : stamp[k] <= now + 1
        /\ lastTimestamp <= now + 1 /\ now + 1 \in Nat
    BY <1>1, <1>2
  <2>6. /\ Ascending(s, lastTimestamp, Way)
        /\ Ascending(s, lastTimestamp, Append(Way, m))
    BY ONLY <1>1, <1>2, <2>2, <2>4, <2>5, LaterJoins
  <2>7. Way' = Way \/ Way' = Append(Way, m)
    <3>1. Back' = <<>> \/ Back' = <<m>>
      BY <2>1 DEF Back
    <3>2. Way' = Front \o ring \o Back'
      BY <2>1, <2>3, WayIs
    <3>3. Front \o ring \o <<>> = Front \o ring
          /\ Front \o ring \o <<m>> = Append(Front \o ring, m)
      BY <1>1, <2>2
    <3> QED BY <2>3, <3>1, <3>2, <3>3
  <2>8. s[m] = now + 1 /\ \A k \in Mbufs : s[k] <= now + 1
    BY <1>1, <2>2, <2>5
  <2> HIDE DEF s, m
  <2>9. Ascending(stamp', lastTimestamp', Way')
    BY <1>3, <2>1, <2>6, <2>7
  <2>10. hand'[Primary] = m
    BY <2>1 DEF m
  <2> QED BY <1>3, <2>1, <2>5, <2>8, <2>9, <2>10 DEF StampsAscend, Ascending
<1>6. CASE Enqueue
  <2>1. /\ ring' = Append(ring, hand[Primary]) /\ UNCHANGED <<stamp, now>>
        /\ pc[Primary] = "enqueue" /\ pc'[Primary] = "check"
        /\ hand'[Secondary] = hand[Secondary]
    BY <1>1, <1>6 DEF Enqueue, RingWith, stampVars
  <2>2. /\ Front' = Front /\ Back = <<hand[Primary]>> /\ Back' = <<>>
        /\ hand[Primary] \in Mbufs
    BY <1>3, <2>1 DEF Front, Back, PoolInv, HandsMatch
  <2>3. Way' = Way
    <3>1. /\ Way = Front \o ring \o <<hand[Primary]>>
          /\ Way' = Front \o Append(ring, hand[Primary]) \o <<>>
      BY <2>1, <2>2, WayIs
    <3>2. Front \o ring \o <<hand[Primary]>> = Append(Front \o ring, hand[Primary])
      BY <1>1, <2>2
    <3>3. Front \o Append(ring, hand[Primary]) = Append(Front \o ring, hand[Primary])
      <4>1. Front \in Seq(Mbufs) /\ ring \in Seq(Mbufs) /\ hand[Primary] \in Mbufs
        BY <1>1, <2>2
      <4> QED BY ONLY <4>1, AppendToBoth
    <3>4. Append(Front \o ring, hand[Primary]) \o <<>>
            = Append(Front \o ring, hand[Primary])
      BY <1>1, <2>2
    <3> QED BY <3>1, <3>2, <3>3, <3>4
  <2> QED BY <1>3, <2>1, <2>3, SameWay
<1>7. CASE EnqueueFails
  <2>1. /\ UNCHANGED <<stamp, now, ring, hand>>
        /\ pc'[Primary] = "free"
    BY <1>1, <1>7 DEF EnqueueFails, AfterFull, stampVars, ringVars
  <2>2. Front' = Front /\ Back' = <<>>
    BY <1>3, <2>1 DEF Front, Back
  <2>3. Way' = Front \o ring
    BY <1>1, <2>1, <2>2, WayIs
  <2>4. Ascending(stamp, lastTimestamp, Front \o ring)
    BY <1>1, <1>2, WayIs, LastLeaves
  <2> QED BY <1>2, <1>3, <2>1, <2>3, <2>4 DEF StampsAscend, Ascending
<1> QED BY <1>4, <1>5, <1>6, <1>7 DEF PrimaryRuns

(* ... of the secondary ...                                                *)
LEMMA SecondaryStampsNext ==
  ASSUME PoolInv, StampsAscend, SecondaryRuns
  PROVE  StampsAscend'
<1> USE TwoProcs DEF Goto
<1>1. /\ Front \in Seq(Mbufs) /\ ring \in Seq(Mbufs) /\ Back \in Seq(Mbufs)
      /\ Front \o ring \in Seq(Mbufs) /\ Way \in Seq(Mbufs)
      /\ stamp \in [Mbufs -> Nat] /\ lastTimestamp \in Nat /\ now \in Nat
      /\ DOMAIN pc = Procs /\ hand \in [Procs -> Mbufs \cup {NoMbuf}]
  BY WayTyped DEF PoolInv, Labels, StoresTyped
<1>2. /\ \A m \in Mbufs : stamp[m] <= now
      /\ pc[Primary] = "enqueue" => stamp[hand[Primary]] = now
      /\ lastTimestamp <= now /\ Ascending(stamp, lastTimestamp, Way)
  BY StampsMean
<1>3. pc'[Primary] = pc[Primary] /\ UNCHANGED <<stamp, now>>
  BY SecondaryRunsOn DEF PoolInv
<1>4. hand'[Primary] = hand[Primary]
  <2>1. \/ hand' = hand \/ \E m : hand' = [hand EXCEPT ![Secondary] = m]
    BY Zenon
    DEF SecondaryRuns, CheckExit, Dequeue, Process, FreeBegins, FreeEnds, LoadLength, Kill
  <2> QED BY <1>1, <2>1
<1>5. Back' = Back
  BY <1>3, <1>4 DEF Back
<1>6. ASSUME pc[Secondary] = "process", Front' = <<>>, ring' = ring
      PROVE  Way # <<>> /\ Head(Way) = hand[Secondary] /\ Way' = Tail(Way)
  <2>1. Front = <<hand[Secondary]>> /\ hand[Secondary] \in Mbufs
    BY <1>6 DEF Front, PoolInv, HandsMatch
  <2>2. /\ Way = <<hand[Secondary]>> \o ring \o Back
        /\ Way' = <<>> \o ring \o Back
    BY <1>5, <1>6, <2>1, WayIs
  <2>3. <<>> \o ring = ring /\ ring \o Back \in Seq(Mbufs)
    BY <1>1
  <2>4. <<hand[Secondary]>> \o ring \o Back = <<hand[Secondary]>> \o (ring \o Back)
    BY <1>1, <2>1
  <2>5. /\ <<hand[Secondary]>> \o (ring \o Back) # <<>>
        /\ Head(<<hand[Secondary]>> \o (ring \o Back)) = hand[Secondary]
        /\ Tail(<<hand[Secondary]>> \o (ring \o Back)) = ring \o Back
    BY <2>1, <2>3
  <2> QED BY <2>2, <2>3, <2>4, <2>5
<1>7. ASSUME pc[Secondary] # "process", pc'[Secondary] # "process",
             ring' = ring, lastTimestamp' = lastTimestamp
      PROVE  StampsAscend'
  <2>1. Front = <<>> /\ Front' = <<>>
    BY <1>7 DEF Front
  <2>2. Way' = Way
    BY <1>5, <1>7, <2>1, WayIs
  <2> QED BY <1>3, <1>4, <1>7, <2>2, SameWay
<1>8. CASE CheckExit(Secondary) \/ FreeBegins(Secondary) \/ FreeEnds(Secondary)
           \/ (Dequeue /\ ring = <<>>)
  <2>1. ring' = ring /\ lastTimestamp' = lastTimestamp
    BY <1>8
    DEF CheckExit, FreeBegins, FreeEnds, LoadLength, Dequeue, ringVars, stampVars
  <2>2. pc[Secondary] # "process" /\ pc'[Secondary] # "process"
    BY <1>1, <1>8 DEF CheckExit, FreeBegins, FreeEnds, LoadLength, Dequeue
  <2> QED BY <1>7, <2>1, <2>2
<1>9. CASE Dequeue /\ ring # <<>>
  <2>1. /\ ring' = Tail(ring) /\ pc[Secondary] = "dequeue"
        /\ pc'[Secondary] = "process" /\ hand'[Secondary] = Head(ring)
        /\ lastTimestamp' = lastTimestamp
    BY <1>1, <1>9 DEF Dequeue, stampVars
  <2>2. Front = <<>> /\ Front' = <<Head(ring)>>
    BY <2>1 DEF Front
  <2>3. /\ Way = <<>> \o ring \o Back
        /\ Way' = <<Head(ring)>> \o Tail(ring) \o Back
    BY <1>5, <2>1, <2>2, WayIs
  <2>4. <<>> \o ring = ring /\ <<Head(ring)>> \o Tail(ring) = ring
    BY <1>1, <1>9
  <2>5. Way' = Way
    BY <2>3, <2>4
  <2> QED BY <1>3, <1>4, <2>1, <2>5, SameWay
<1>10. CASE Process
  <2>1. /\ pc[Secondary] = "process" /\ pc'[Secondary] \in {"free", "undefined"}
        /\ ring' = ring /\ lastTimestamp' = stamp[hand[Secondary]]
        /\ hand[Secondary] \in Mbufs
    BY <1>1, <1>10 DEF Process, AfterProcess, ringVars, PoolInv, HandsMatch
  <2>2. Front' = <<>>
    BY <2>1 DEF Front
  <2>3. Way # <<>> /\ Head(Way) = hand[Secondary] /\ Way' = Tail(Way)
    BY <1>6, <2>1, <2>2
  <2>4. Ascending(stamp, stamp[hand[Secondary]], Tail(Way))
    BY <1>1, <1>2, <2>3, FirstLeaves
  <2>5. Ascending(stamp', lastTimestamp', Way') /\ lastTimestamp' <= now'
    BY <1>2, <1>3, <2>1, <2>3, <2>4
  <2> QED BY <1>2, <1>3, <1>4, <2>5 DEF StampsAscend, Ascending
<1>11. CASE Kill
  <2>1. /\ pc'[Secondary] = "exited" /\ ring' = ring
        /\ lastTimestamp' = lastTimestamp
    BY <1>1, <1>11 DEF Kill, ringVars, stampVars
  <2>2. CASE pc[Secondary] = "process"
    <3>1. Front' = <<>>
      BY <2>1 DEF Front
    <3>2. Way # <<>> /\ Way' = Tail(Way)
      BY <1>6, <2>1, <2>2, <3>1
    <3>3. Ascending(stamp, lastTimestamp, Tail(Way))
      BY <1>1, <1>2, <3>2, FirstLeaves
    <3>4. Ascending(stamp', lastTimestamp', Way')
      BY <1>3, <2>1, <3>2, <3>3
    <3> QED BY <1>2, <1>3, <1>4, <2>1, <3>4 DEF StampsAscend, Ascending
  <2>3. CASE pc[Secondary] # "process"
    BY <1>7, <2>1, <2>3
  <2> QED BY <2>2, <2>3
<1> QED BY <1>8, <1>9, <1>10, <1>11 DEF SecondaryRuns

(* ... and all others.                                                     *)
LEMMA StampsAscendNext ==
  ASSUME OwnLcores, PoolInv, StampsAscend, [Next]_vars
  PROVE  StampsAscend'
<1>1. /\ Front \in Seq(Mbufs) /\ ring \in Seq(Mbufs) /\ Back \in Seq(Mbufs)
      /\ Front \o ring \in Seq(Mbufs) /\ Way \in Seq(Mbufs) /\ Labels
      /\ DOMAIN pc = Procs /\ hand \in [Procs -> Mbufs \cup {NoMbuf}]
  BY WayTyped DEF PoolInv, Labels, StoresTyped
<1>2. /\ \A m \in Mbufs : stamp[m] <= now
      /\ lastTimestamp <= now /\ Ascending(stamp, lastTimestamp, Way)
  BY StampsMean
<1>3. CASE SecondaryBegins
  <2>1. /\ pc'[Primary] = pc[Primary] /\ UNCHANGED <<ringVars, stamp, now>>
        /\ pc[Secondary] # "process" /\ pc'[Secondary] # "process"
    BY <1>1, <1>3, SecondaryBeginsOn DEF Early
  <2>2. /\ lastTimestamp' = lastTimestamp \/ lastTimestamp' = 0
        /\ hand' = hand \/ hand' = [hand EXCEPT ![Secondary] = NoMbuf]
    BY <1>3, Zenon DEF SecondaryBegins, StartFails, Register, Lookup, Start, stampVars
  <2>3. hand'[Primary] = hand[Primary]
    BY <1>1, <2>2, TwoProcs
  <2>4. Front' = Front /\ Back' = Back
    BY <2>1, <2>3 DEF Front, Back
  <2>5. Way' = Way
    BY <2>1, <2>4, WayIs DEF ringVars
  <2> QED BY <2>1, <2>2, <2>3, <2>5, SameWay
<1>4. CASE \/ StartFails(Primary) \/ Register(Primary) \/ CreatePool \/ CreateRing
           \/ CreateFails \/ FreeRing
  <2>1. /\ pc'[Secondary] = pc[Secondary]
        /\ UNCHANGED <<hand, stamp, now, lastTimestamp>>
        /\ pc[Primary] # "enqueue" /\ pc'[Primary] # "enqueue"
        /\ ring' = ring \/ ring' = <<>>
    BY <1>1, <1>4, PrimaryBeginsOn DEF ringVars
  <2>2. Front' = Front /\ Back' = Back /\ Back = <<>>
    BY <2>1 DEF Front, Back
  <2>3. CASE ring' = ring
    <3>1. Way' = Way
      BY <2>2, <2>3, WayIs
    <3> QED BY <2>1, <3>1, SameWay
  <2>4. CASE ring' = <<>>
    <3>1. Way = Front \o ring \o <<>> /\ Way' = Front \o <<>> \o <<>>
      BY <2>2, <2>4, WayIs
    <3>2. Front \o ring \o <<>> = Front \o ring /\ Front \o <<>> \o <<>> = Front
      BY <1>1
    <3>3. Ascending(stamp, lastTimestamp, Front)
      BY <1>1, <1>2, <3>1, <3>2, LastLeaves
    <3>4. Ascending(stamp', lastTimestamp', Way')
      BY <2>1, <3>1, <3>2, <3>3
    <3> QED BY <1>2, <2>1, <3>4 DEF StampsAscend, Ascending
  <2> QED BY <2>1, <2>3, <2>4
<1>5. CASE UNCHANGED <<pc, hand, loaded, kills, storeVars, ringVars, stampVars>>
  <2>1. UNCHANGED <<stamp, now, lastTimestamp, pc, hand>> /\ Way' = Way
    BY <1>5, Zenon DEF ringVars, stampVars, Way
  <2> QED BY <2>1, SameWay
<1> QED BY <1>3, <1>4, <1>5, PrimaryStampsNext, SecondaryStampsNext, StepsSorted

-----------------------------------------------------------------------------
(* The inductive invariant.                                                *)

(* It says of the types, the pool, the ring and the timestamps what the    *)
(* lemmas above are about.                                                 *)
LEMMA InvariantParts ==
  /\ IInv <=> PoolInv /\ FewLost /\ StampsAscend
  /\ PoolInv => TypeInv
<1>1. OneOwner <=> (ring_state = "live" =>
                      /\ Apart(6, Held) /\ IsInjective(ring)
                      /\ Cardinality(Lost(Held)) <= kills)
  BY LostIs DEF OneOwner, Apart
<1> QED BY <1>1, TypeParts, NoneTwiceMeans, Zenon DEF IInv, PoolInv, FewLost

(* It holds when the primary is about to start ...                         *)
LEMMA InvariantBegins == Init => IInv
<1> SUFFICES ASSUME Init PROVE IInv
  OBVIOUS
<1>1. StoresTyped /\ OthersTyped /\ Labels /\ HandsMatch
  BY TypeInvBegins, TypeParts
<1>2. /\ common = {} /\ ring = <<>> /\ ring_state = "absent" /\ now = 0
      /\ lastTimestamp = 0 /\ \A m \in Mbufs : stamp[m] = 0
      /\ \A l \in Lcores : len[l] = 0
      /\ \A p \in Procs : hand[p] = NoMbuf
      /\ pc[Primary] = "register" /\ pc[Secondary] = "off"
  BY TwoProcs DEF Init
<1>3. LoadedIsLength
  BY <1>2, TwoProcs DEF LoadedIsLength
<1>4. StoresFollowPrimary
  BY <1>2, TwoProcs DEF StoresFollowPrimary, PrimaryLabels
<1>5. CachesDistinct /\ \A l \in Lcores : Cached(l) = {}
  BY <1>2 DEF CachesDistinct, Distinct, Cached
<1>6. \A h \in 1 .. 6 : Held[h] = {}
  <2>1. \A h \in 1 .. 6 : h = 1 \/ h = 2 \/ h = 3 \/ h = 4 \/ h = 5 \/ h = 6
    OBVIOUS
  <2>2. Range(ring) = {}
    BY <1>2, NothingInEmptySeq
  <2> QED BY <1>2, <1>5, <2>1, <2>2, TwoProcs DEF Held, InHand
<1>7. Apart(6, Held) /\ IsInjective(ring)
  BY <1>2, <1>6, NothingInEmptySeq DEF Apart
<1>8. PoolInv
  BY <1>1, <1>3, <1>4, <1>5, <1>7 DEF PoolInv
<1>9. FewLost
  BY <1>2 DEF FewLost
<1>10. StampsAscend
  <2>1. Way = <<>>
    BY <1>2 DEF Way
  <2> QED BY <1>2, <2>1 DEF StampsAscend
<1> QED BY <1>8, <1>9, <1>10, InvariantParts

(* ... and every step of the two processes and of the operator keeps it.   *)
LEMMA InvariantGoesOn == OwnLcores /\ IInv /\ [Next]_vars => IInv'
<1> SUFFICES ASSUME OwnLcores, IInv, [Next]_vars PROVE IInv'
  OBVIOUS
<1>1. PoolInv /\ FewLost /\ StampsAscend /\ TypeInv
  BY InvariantParts
<1>2. TypeInv'
  BY <1>1, TypeInvGoesOn
<1>3. LoadedIsLength'
  BY <1>1, LoadedNext
<1>4. StoresFollowPrimary'
  BY <1>1, StoresFollowNext DEF PoolInv
<1>5. OwnersAfter
  BY <1>1, OwnersNext
<1>6. NoneTwice'
  BY <1>5, Zenon DEF OwnersAfter, NoneTwice, Apart, CachesDistinct, Distinct
<1>7. OneOwner'
  <2>1. ring_state' = "live" => Cardinality((Mbufs \ UNION Range(Held))') <= kills'
    BY <1>5, LostIs DEF OwnersAfter
  <2> QED BY <1>5, <2>1, Zenon DEF OwnersAfter, OneOwner, Apart
<1>8. StampsAscend'
  BY <1>1, StampsAscendNext
<1> QED BY <1>2, <1>3, <1>4, <1>6, <1>7, <1>8 DEF IInv

(* With a lcore for each process, the invariant holds in every state of    *)
(* the two programs (main.cpp:64-163).                                     *)
THEOREM ProcessesInductive == OwnLcores => (Spec => []IInv)
<1>1. OwnLcores /\ IInv /\ [Next]_vars => IInv'
  BY InvariantGoesOn
<1>2. Init => IInv
  BY InvariantBegins
<1> SUFFICES ASSUME OwnLcores PROVE Spec => []IInv
  OBVIOUS
<1>3. IInv /\ [Next]_vars => IInv'
  BY <1>1
<1> QED BY <1>2, <1>3, PTL DEF Spec

(* With a lcore for each process, every variable keeps its type, a packet  *)
(* that is stamped, enqueued, processed or freed is never a null pointer,  *)
(* and no slot that a cache or a process counts on is empty                *)
(* (main.cpp:72, 78-91, 131-151).                                          *)
THEOREM ProcessesTyped ==
  OwnLcores => (Spec => [](TypeOK /\ HandsMatch /\ SlotsFilled))
<1>1. IInv => TypeOK /\ HandsMatch /\ SlotsFilled
  BY DEF IInv, TypeInv
<1> QED BY <1>1, ProcessesInductive, PTL

(* While the ring lives and each process has a lcore of its own, no mbuf   *)
(* is in two places and each kill of the secondary costs the pool one at   *)
(* most (main.cpp:72, 98, 119-151).                                        *)
THEOREM ProcessesOwnership == OwnLcores => (Spec => []OneOwner)
<1>1. IInv => OneOwner
  BY DEF IInv
<1> QED BY <1>1, ProcessesInductive, PTL

(* What is not in reach of an allocation is in the ring, in the cache of   *)
(* the secondary, in its hands or lost.                                    *)
LEMMA OutOfReach ==
  ASSUME OwnLcores, PoolInv, FewLost, pc[Primary] = "take", NothingToTake(Primary)
  PROVE  Cardinality(Mbufs) <= RingCapacity + FlushThresh + 1 + kills
<1> DEFINE cached == Contents(objs[SecondaryLcore], len[SecondaryLcore])
           inHand == {hand[Secondary]} \ {NoMbuf}
<1>1. /\ common = {} /\ loaded[Primary] = 0 /\ len[PrimaryLcore] = 0
      /\ hand[Primary] = NoMbuf /\ ring_state = "live"
      /\ ring \in Seq(Mbufs) /\ Len(ring) <= RingCapacity /\ kills \in Nat
      /\ len[SecondaryLcore] \in 0 .. FlushThresh
      /\ Distinct(objs[SecondaryLcore], len[SecondaryLcore])
      /\ FlushThresh \in Nat /\ RingCapacity \in Nat
  <2>1. /\ common = {} /\ loaded[Primary] = 0
    BY DEF NothingToTake
  <2>2. len[PrimaryLcore] = 0
    BY <2>1, TwoProcs DEF PoolInv, LoadedIsLength
  <2>3. hand[Primary] = NoMbuf
    BY TwoProcs DEF PoolInv, HandsMatch
  <2>4. ring_state = "live"
    BY DEF PoolInv, StoresFollowPrimary, PrimaryLabels
  <2>5. ring \in Seq(Mbufs) /\ Len(ring) <= RingCapacity /\ kills \in Nat
    BY MultiProcessAssumption DEF PoolInv, OthersTyped
  <2>6. /\ len[SecondaryLcore] \in 0 .. FlushThresh
        /\ Distinct(objs[SecondaryLcore], len[SecondaryLcore])
    BY TwoProcs DEF PoolInv, StoresTyped, Lengths, CachesDistinct
  <2> QED BY <2>1, <2>2, <2>3, <2>4, <2>5, <2>6, Sizes, MultiProcessAssumption
<1>2. /\ Held[1] = {} /\ Held[2] = {} /\ Held[3] = cached /\ Held[4] = Range(ring)
      /\ Held[5] = {} /\ Held[6] = inHand
  <2>1. Caches[PrimaryLcore] = {} /\ Caches[SecondaryLcore] = cached
    BY <1>1, CachesAre, TwoProcs DEF Contents
  <2> QED BY <1>1, <2>1, PlacesListed
<1>3. IsFiniteSet(cached) /\ Cardinality(cached) <= FlushThresh
  BY <1>1, AsManyAsSlots
<1>4. /\ IsFiniteSet(Range(ring)) /\ Cardinality(Range(ring)) \in Nat
      /\ Cardinality(Range(ring)) <= RingCapacity
  <2>1. IsFiniteSet(Range(ring)) /\ Cardinality(Range(ring)) <= Len(ring)
    BY <1>1, RangeIsSmall
  <2>2. Cardinality(Range(ring)) \in Nat /\ Len(ring) \in Nat
    BY <1>1, <2>1, FS_CardinalityType
  <2> QED BY <1>1, <2>1, <2>2
<1>5. IsFiniteSet(inHand) /\ Cardinality(inHand) <= 1
  <2>1. inHand \in SUBSET {hand[Secondary]}
    OBVIOUS
  <2>2. IsFiniteSet({hand[Secondary]}) /\ Cardinality({hand[Secondary]}) = 1
    BY FS_Singleton
  <2> QED BY <2>1, <2>2, PartIsSmall
<1>6. IsFiniteSet(Lost(Held)) /\ Cardinality(Lost(Held)) <= kills
  <2>1. Lost(Held) \in SUBSET Mbufs
    BY DEF Lost
  <2> QED BY <1>1, <2>1, PartIsSmall, MultiProcessAssumption DEF FewLost
<1>7. Mbufs \subseteq (cached \cup Range(ring)) \cup (inHand \cup Lost(Held))
  <2>1. \A h \in 1 .. 6 : h = 1 \/ h = 2 \/ h = 3 \/ h = 4 \/ h = 5 \/ h = 6
    OBVIOUS
  <2> HIDE DEF cached, inHand
  <2> QED BY <1>2, <2>1 DEF Lost
<1> HIDE DEF cached, inHand
<1> DEFINE all == (cached \cup Range(ring)) \cup (inHand \cup Lost(Held))
<1>8. /\ IsFiniteSet(cached \cup Range(ring)) /\ IsFiniteSet(inHand \cup Lost(Held))
      /\ Cardinality(cached \cup Range(ring)) \in Nat
      /\ Cardinality(inHand \cup Lost(Held)) \in Nat
      /\ Cardinality(cached \cup Range(ring)) <= FlushThresh + RingCapacity
      /\ Cardinality(inHand \cup Lost(Held)) <= 1 + kills
  <2>1. /\ IsFiniteSet(cached \cup Range(ring))
        /\ Cardinality(cached \cup Range(ring)) \in Nat
        /\ Cardinality(cached \cup Range(ring)) <= FlushThresh + RingCapacity
    <3>1. /\ IsFiniteSet(cached \cup Range(ring))
          /\ Cardinality(cached) \in Nat /\ Cardinality(cached \cup Range(ring)) \in Nat
          /\ Cardinality(cached \cup Range(ring))
               <= Cardinality(cached) + Cardinality(Range(ring))
      BY <1>3, <1>4, UnionIsSmall
    <3> QED BY <1>1, <1>3, <1>4, <3>1
  <2>2. /\ IsFiniteSet(inHand \cup Lost(Held))
        /\ Cardinality(inHand \cup Lost(Held)) \in Nat
        /\ Cardinality(inHand \cup Lost(Held)) <= 1 + kills
    <3>1. /\ IsFiniteSet(inHand \cup Lost(Held))
          /\ Cardinality(inHand) \in Nat /\ Cardinality(Lost(Held)) \in Nat
          /\ Cardinality(inHand \cup Lost(Held)) \in Nat
          /\ Cardinality(inHand \cup Lost(Held))
               <= Cardinality(inHand) + Cardinality(Lost(Held))
      BY <1>5, <1>6, UnionIsSmall
    <3> QED BY <1>1, <1>5, <1>6, <3>1
  <2> QED BY <2>1, <2>2
<1>9. /\ IsFiniteSet(all) /\ Cardinality(all) \in Nat
      /\ Cardinality(all) <= FlushThresh + RingCapacity + 1 + kills
  BY <1>1, <1>8, UnionIsSmall
<1>10. Cardinality(Mbufs) <= Cardinality(all) /\ Cardinality(Mbufs) \in Nat
  BY <1>7, <1>9, PartIsSmall
<1> QED BY <1>1, <1>9, <1>10

(* With more mbufs than that the allocation of the primary does not fail   *)
(* (main.cpp:73).                                                          *)
THEOREM PrimaryIsNotStarved == OwnLcores => (Spec => []PrimaryNotStarved)
<1> SUFFICES ASSUME OwnLcores PROVE Spec => []PrimaryNotStarved
  OBVIOUS
<1>1. IInv => PrimaryNotStarved
  <2> SUFFICES ASSUME IInv, pc[Primary] = "take", NothingToTake(Primary)
               PROVE  ~(Cardinality(Mbufs) > RingCapacity + FlushThresh + 1 + kills)
    BY Zenon DEF PrimaryNotStarved
  <2>1. PoolInv /\ FewLost
    BY InvariantParts
  <2>2. Cardinality(Mbufs) <= RingCapacity + FlushThresh + 1 + kills
    BY <2>1, OutOfReach
  <2>3. /\ Cardinality(Mbufs) \in Nat /\ RingCapacity \in Nat /\ FlushThresh \in Nat
        /\ kills \in Nat
    BY <2>1, Sizes, FS_CardinalityType, MultiProcessAssumption DEF PoolInv, OthersTyped
  <2> QED BY <2>2, <2>3
<1> QED BY <1>1, ProcessesInductive, PTL

(* The secondary never finds a timestamp below the one before it: its own  *)
(* check never reports a packet (main.cpp:145-148).                        *)
THEOREM TimestampsDoAscend == OwnLcores => (Spec => []TimestampsAscend)
<1> SUFFICES ASSUME OwnLcores PROVE Spec => []TimestampsAscend
  OBVIOUS
<1>1. IInv => TimestampsAscend
  <2> SUFFICES ASSUME IInv, pc[Secondary] = "process"
               PROVE  lastTimestamp <= stamp[hand[Secondary]]
    BY DEF TimestampsAscend
  <2>1. PoolInv /\ StampsAscend
    BY InvariantParts
  <2>2. Front = <<hand[Secondary]>> /\ Way = Front \o ring \o Back
    BY WayIs DEF Front
  <2>3. ring \in Seq(Mbufs) /\ Back \in Seq(Mbufs) /\ hand[Secondary] \in Mbufs
    BY <2>1, WayTyped, TwoProcs DEF PoolInv, HandsMatch
  <2>4. Way[1] = hand[Secondary] /\ 1 \in 1 .. Len(Way)
    BY <2>2, <2>3
  <2>5. \A i \in 1 .. Len(Way) : lastTimestamp <= stamp[Way[i]]
    BY <2>1 DEF StampsAscend
  <2>6. lastTimestamp <= stamp[Way[1]]
    BY ONLY <2>4, <2>5
  <2> QED BY <2>4, <2>6
<1> QED BY <1>1, ProcessesInductive, PTL

-----------------------------------------------------------------------------
(* The pool's specification counts as this one does.                       *)
LEMMA PoolCounts ==
  /\ \A S : Pool!Cardinality(S) = Cardinality(S)
  /\ Pool!FlushThresh = FlushThresh
BY DEF Pool!Cardinality, Cardinality, Pool!FlushThresh, FlushThresh

(* The two steps of each call into the pool implement one operation of     *)
(* Mempool.  The first touches no store; the second is an allocation ...   *)
LEMMA AllocIsPools ==
  ASSUME NEW m \in Mbufs, NEW kept \in SUBSET Mbufs,
         Caches' = [Caches EXCEPT ![PrimaryLcore] = kept], AllocKeeps(m, kept)
  PROVE  Pool!Alloc(PrimaryLcore, m)
<1>1. Caches[PrimaryLcore] = Cached(PrimaryLcore)
  BY TwoProcs DEF Caches
<1>2. CASE /\ m \in Cached(PrimaryLcore) /\ kept = Cached(PrimaryLcore) \ {m}
           /\ common' = common
  <2>1. /\ {m} \subseteq Caches[PrimaryLcore] /\ common' = common
        /\ Caches' = [Caches EXCEPT ![PrimaryLcore] = Caches[PrimaryLcore] \ {m}]
    BY <1>1, <1>2
  <2> QED BY <2>1
          DEF Pool!Alloc, Pool!AllocBulk, Pool!AllocFromCache, Caches
<1>3. CASE /\ Cached(PrimaryLcore) = {} /\ m \in common
           /\ kept \subseteq common \ {m} /\ Cardinality(kept) = CacheSize
           /\ common' = common \ (kept \cup {m})
  <2>1. Pool!ExhaustsCache(PrimaryLcore, {m})
    BY <1>1, <1>3 DEF Pool!ExhaustsCache, Pool!Reachable, Caches
  <2>2. /\ kept \in SUBSET (common \ {m}) /\ Cardinality(kept) = CacheSize
        /\ common' = common \ (kept \cup {m})
    BY <1>3
  <2>3. Pool!AllocAndRefill(PrimaryLcore, {m})
    BY <2>1, <2>2, PoolCounts DEF Pool!AllocAndRefill, Caches
  <2> QED BY <2>3 DEF Pool!Alloc, Pool!AllocBulk
<1>4. CASE /\ Cached(PrimaryLcore) = {} /\ m \in common /\ kept = {}
           /\ Cardinality(common \ {m}) < CacheSize /\ common' = common \ {m}
  <2>1. Pool!ExhaustsCache(PrimaryLcore, {m})
    BY <1>1, <1>4 DEF Pool!ExhaustsCache, Pool!Reachable, Caches
  <2>2. Pool!AllocFromCommon(PrimaryLcore, {m})
    BY <1>4, <2>1, PoolCounts DEF Pool!AllocFromCommon, Caches
  <2> QED BY <2>2 DEF Pool!Alloc, Pool!AllocBulk
<1> QED BY <1>2, <1>3, <1>4 DEF AllocKeeps

(* ... or a free.                                                          *)
LEMMA FreeIsPools ==
  ASSUME NEW l \in Lcores, NEW m \in Mbufs, NEW kept \in SUBSET Mbufs,
         Caches' = [Caches EXCEPT ![l] = kept], FreeKeeps(l, m, kept)
  PROVE  Pool!Free(l, m)
<1>1. Caches[l] = Cached(l)
  BY DEF Caches
<1>2. Cardinality({m}) = 1 /\ 1 <= FlushThresh
  <2>1. 1 <= FlushThresh
    BY Sizes
  <2> QED BY <2>1, FS_Singleton, Zenon
<1>3. CASE /\ kept = Cached(l) \cup {m} /\ common' = common
           /\ Cardinality(Cached(l)) + 1 <= FlushThresh
  <2>1. /\ Pool!Cardinality(Caches[l]) + Pool!Cardinality({m}) <= Pool!FlushThresh
        /\ Caches' = [Caches EXCEPT ![l] = Caches[l] \cup {m}] /\ common' = common
    BY <1>1, <1>2, <1>3, PoolCounts
  <2> QED BY <2>1 DEF Pool!Free, Pool!FreeBulk, Pool!FreeToCache, Caches
<1>4. CASE /\ kept = {m} /\ common' = common \cup Cached(l)
           /\ Cardinality(Cached(l)) + 1 > FlushThresh
  <2>1. /\ Pool!Cardinality({m}) <= Pool!FlushThresh
        /\ Pool!Cardinality(Caches[l]) + Pool!Cardinality({m}) > Pool!FlushThresh
        /\ Caches' = [Caches EXCEPT ![l] = {m}] /\ common' = common \cup Caches[l]
    BY <1>1, <1>2, <1>4, PoolCounts
  <2> QED BY <2>1 DEF Pool!Free, Pool!FreeBulk, Pool!FreeAndFlush, Caches
<1> QED BY <1>3, <1>4 DEF FreeKeeps

(* Every other step but the pool's creation leaves it alone.               *)
LEMMA PoolStep ==
  ASSUME OwnLcores, PoolInv, [Next]_vars, pc[Primary] # "create"
  PROVE  \/ \E l \in Lcores, m \in Mbufs : Pool!Alloc(l, m) \/ Pool!Free(l, m)
         \/ UNCHANGED <<common, Caches>>
<1>1. \/ AllocEnds \/ (\E p \in Procs : FreeEnds(p)) \/ UNCHANGED storeVars
  <2>1. CASE PrimaryRuns
    BY <2>1, TwoProcs, Zenon
    DEF PrimaryRuns, CheckExit, AllocBegins, AllocFails, Stamp, Enqueue, EnqueueFails,
        FreeBegins, LoadLength
  <2>2. CASE SecondaryRuns
    BY <2>2, TwoProcs, Zenon
    DEF SecondaryRuns, CheckExit, Dequeue, Process, FreeBegins, LoadLength, Kill
  <2>3. CASE SecondaryBegins
    BY <2>3, Zenon DEF SecondaryBegins, StartFails, Register, Lookup, Start
  <2>4. CASE \/ StartFails(Primary) \/ Register(Primary) \/ CreatePool \/ CreateRing
             \/ CreateFails \/ FreeRing
    BY <2>4, Zenon
    DEF StartFails, Register, CreatePool, CreateRing, CreateFails, FreeRing, storeVars
  <2>5. CASE UNCHANGED <<pc, hand, loaded, kills, storeVars, ringVars, stampVars>>
    BY <2>5
  <2> QED BY <2>1, <2>2, <2>3, <2>4, <2>5, StepsSorted
<1>2. CASE AllocEnds
  <2>1. StoresTyped /\ CachesDistinct /\ loaded[Primary] = len[PrimaryLcore]
    BY <1>2, TwoProcs DEF PoolInv, LoadedIsLength, AllocEnds
  <2>2. PICK m \in Mbufs, kept \in SUBSET Mbufs :
          Caches' = [Caches EXCEPT ![PrimaryLcore] = kept] /\ AllocKeeps(m, kept)
    BY <1>2, <2>1, AllocInStores
  <2>3. Pool!Alloc(PrimaryLcore, m)
    BY <2>2, AllocIsPools
  <2> QED BY <2>3, TwoProcs
<1>3. CASE \E p \in Procs : FreeEnds(p)
  <2>1. PICK p \in Procs : FreeEnds(p)
    BY <1>3
  <2>2. /\ StoresTyped /\ CachesDistinct /\ loaded[p] = len[CacheOf(p)]
        /\ hand[p] \in Mbufs
    BY <2>1 DEF PoolInv, LoadedIsLength, HandsMatch, FreeEnds
  <2>3. hand[p] \notin Cached(CacheOf(p))
    <3>1. /\ Held[CacheAt(p)] = Cached(CacheOf(p)) /\ hand[p] \in Held[InHandAt(p)]
      BY <2>2, Places, TwoProcs, MultiProcessAssumption DEF Caches
    <3>2. CacheAt(p) \in 1 .. 6 /\ InHandAt(p) \in 1 .. 6 /\ CacheAt(p) # InHandAt(p)
      BY DEF CacheAt, InHandAt
    <3> QED BY <3>1, <3>2 DEF PoolInv, Apart
  <2>4. PICK kept \in SUBSET Mbufs :
          /\ Caches' = [Caches EXCEPT ![CacheOf(p)] = kept]
          /\ FreeKeeps(CacheOf(p), hand[p], kept)
    BY <2>1, <2>2, <2>3, FreeInStores
  <2>5. Pool!Free(CacheOf(p), hand[p])
    BY <2>2, <2>4, FreeIsPools, TwoProcs
  <2> QED BY <2>2, <2>5, TwoProcs
<1>4. CASE UNCHANGED storeVars
  BY <1>4, Zenon DEF storeVars, Caches, Cached
<1> QED BY <1>1, <1>2, <1>3, <1>4

(* With a lcore for each process, what they do to the pool once it is      *)
(* created is what Mempool allows, step by step (main.cpp:72, 98, 151).    *)
THEOREM PoolIsRefined == OwnLcores => (Spec => PoolRefined)
<1> SUFFICES ASSUME OwnLcores PROVE Spec => PoolRefined
  OBVIOUS
<1>1. IInv /\ [Next]_vars =>
        [pc[Primary] # "create" =>
           \E l \in Lcores, m \in Mbufs : Pool!Alloc(l, m) \/ Pool!Free(l, m)
        ]_<<common, [l \in Lcores |-> Cached(l)]>>
  <2> SUFFICES ASSUME IInv, [Next]_vars, pc[Primary] # "create"
               PROVE  \/ \E l \in Lcores, m \in Mbufs : Pool!Alloc(l, m) \/ Pool!Free(l, m)
                      \/ UNCHANGED <<common, Caches>>
    BY Zenon DEF Caches
  <2>1. PoolInv
    BY InvariantParts
  <2> QED BY <2>1, PoolStep
<1> QED BY <1>1, ProcessesInductive, PTL DEF PoolRefined, Spec

=============================================================================
