----------------------------- MODULE PortBringUp -----------------------------
(***************************************************************************)
(* What main does before its loop in tutorials 1 to 7 and 9: a fixed       *)
(* sequence of calls and checks, each of which may fail.  A failure ends   *)
(* the program, except that of rte_pktmbuf_pool_create, whose result       *)
(* nobody tests, and that of the lookup of tutorial 9's output port, which *)
(* is only logged.  (That of rte_eth_promiscuous_enable is ignored and     *)
(* changes nothing here.)                                                  *)
(***************************************************************************)
EXTENDS Naturals, Sequences

VARIABLES
  tutorial,      \* the program that runs, by the number of its directory
  todo,          \* the calls main has yet to make, in order
  eal,           \* DPDK's environment: "down", "up" or "cleaned"
  port_known,    \* does main's port id name a port?
  memory_pool,   \* does the pool exist?
  capa,          \* as far as main knows: can the device do what is asked of
                 \* it (compute checksums; in tutorial 6, serve two queues)?
  offloads       \* was the port configured to compute IPv4 checksums?

bringUpVars ==
  <<tutorial, todo, eal, port_known, memory_pool, capa, offloads>>

ReadingCalls == <<"eal", "ports", "pool", "configure", "rxq", "start">>
SendingCalls == <<"eal", "ports", "pool", "configure", "txq", "start">>
PipelineCalls ==
  <<"eal", "lcores", "ports", "pool", "configure", "rxq", "start", "ring">>
StatisticsCalls ==
  <<"eal", "ports", "pool", "configure", "rxq", "txq", "start">>
ChecksumCalls ==
  <<"eal", "ports", "devinfo", "capability", "pool", "configure", "rxq", "txq",
    "start">>
ScalingCalls ==
  <<"eal", "lcores", "ports", "pool", "devinfo", "capability", "configure",
    "rxq", "start">>
TelemetryCalls ==
  <<"eal", "telemetry", "ports", "pool", "configure", "txq", "start">>
GeneratorCalls ==
  <<"eal", "arguments", "ports", "name", "devinfo", "lcores", "pool",
    "configure", "txq", "start">>

CallsOf(t) ==
  CASE t = 1 -> ReadingCalls
    [] t = 2 -> SendingCalls
    [] t = 3 -> PipelineCalls
    [] t = 4 -> StatisticsCalls
    [] t = 5 -> ChecksumCalls
    [] t = 6 -> ScalingCalls
    [] t = 7 -> TelemetryCalls
    [] t = 9 -> GeneratorCalls

Members(calls) == {calls[i] : i \in DOMAIN calls}
Made(call) == call \in Members(CallsOf(tutorial)) \ Members(todo)
BroughtUp == todo = <<>>

BringUpTypeOK ==
  /\ tutorial \in 1 .. 7 \cup {9}
  /\ todo \in Seq(Members(CallsOf(tutorial)))
  /\ Len(todo) <= Len(CallsOf(tutorial))
  /\ eal \in {"down", "up", "cleaned"}
  /\ port_known \in BOOLEAN /\ memory_pool \in BOOLEAN
  /\ capa \in BOOLEAN /\ offloads \in BOOLEAN

BringUpInit ==
  /\ todo = CallsOf(tutorial)
  /\ eal = "down"
  /\ port_known = FALSE /\ memory_pool = FALSE
  /\ capa = FALSE /\ offloads = FALSE

-----------------------------------------------------------------------------
(* main's next call is this one, and it succeeds.                          *)
Succeeds(call) ==
  /\ todo # <<>> /\ Head(todo) = call
  /\ todo' = Tail(todo)
  /\ UNCHANGED tutorial

StartEal ==
  /\ Succeeds("eal")
  /\ eal' = "up"
  /\ UNCHANGED <<port_known, memory_pool, capa, offloads>>

(* Without a port the program ends.  The tutorials use the first port      *)
(* found, tutorial 9 the one it is told to.                                *)
DetectPorts ==
  /\ Succeeds("ports")
  /\ port_known' = (tutorial # 9)
  /\ UNCHANGED <<eal, memory_pool, capa, offloads>>

(* An unknown name leaves the port id 65535, which names no port.          *)
FindPortByName ==
  /\ Succeeds("name")
  /\ port_known' \in BOOLEAN
  /\ UNCHANGED <<eal, memory_pool, capa, offloads>>

(* rte_eth_dev_info_get, and what main needs of the result.                *)
ReadDeviceInfo ==
  /\ Succeeds("devinfo")
  /\ port_known
  /\ capa' \in BOOLEAN
  /\ UNCHANGED <<eal, port_known, memory_pool, offloads>>

CheckCapability ==
  /\ Succeeds("capability")
  /\ capa
  /\ UNCHANGED <<eal, port_known, memory_pool, capa, offloads>>

CreatePool ==
  /\ Succeeds("pool")
  /\ memory_pool' \in BOOLEAN
  /\ UNCHANGED <<eal, port_known, capa, offloads>>

TxOffloads_Default == FALSE                                  \* faulty variant
TxOffloads == tutorial = 5 \/ (tutorial = 9 /\ capa)

Configure ==
  /\ Succeeds("configure")
  /\ offloads' = TxOffloads
  /\ UNCHANGED <<eal, port_known, memory_pool, capa>>

(* rte_eth_rx_queue_setup refuses a null pool.                             *)
RxQueueIsSetUp ==
  /\ Succeeds("rxq")
  /\ memory_pool
  /\ UNCHANGED <<eal, port_known, memory_pool, capa, offloads>>

OtherCall ==
  /\ \E call \in {"arguments", "telemetry", "lcores", "txq", "start", "ring"} :
       Succeeds(call)
  /\ UNCHANGED <<eal, port_known, memory_pool, capa, offloads>>

(* Every call but RxQueueIsSetUp, which posts mbufs first.                 *)
CallSucceeds ==
  \/ StartEal \/ DetectPorts \/ FindPortByName \/ ReadDeviceInfo
  \/ CheckCapability \/ CreatePool \/ Configure \/ OtherCall

(* The failures after which main ends the program without rte_eal_cleanup: *)
(* wrong arguments and, in tutorials 3 and 6, too few lcores.              *)
LeavesEalUp(call) ==
  call \in {"eal", "arguments"} \/ (call = "lcores" /\ tutorial \in {3, 6})

EalAfterFailure_AsItWas(call) == eal                         \* faulty variant
EalAfterFailure(call) == IF LeavesEalUp(call) THEN eal ELSE "cleaned"

(* main's next call fails and main ends the program.                       *)
CallFails ==
  /\ todo # <<>> /\ Head(todo) \notin {"pool", "name"}
  /\ Head(todo) = "capability" => ~capa
  /\ eal' = EalAfterFailure(Head(todo))
  /\ UNCHANGED <<tutorial, todo, port_known, memory_pool, capa, offloads>>

(* rte_eal_cleanup, before main returns.                                   *)
CleanUpEal ==
  /\ eal' = "cleaned"
  /\ UNCHANGED <<tutorial, todo, port_known, memory_pool, capa, offloads>>

(* The EAL is brought up by the first call and by no other.                *)
EalIsFirst ==
  \/ eal = "down" /\ todo = CallsOf(tutorial)
  \/ eal # "down" /\ "eal" \notin Members(todo)

(* The calls main has yet to make are the last of its calls.               *)
CallsMadeInOrder ==
  LET made == Len(CallsOf(tutorial)) - Len(todo)
  IN  \A i \in 1 .. Len(todo) : todo[i] = CallsOf(tutorial)[made + i]

(* What main has learned and configured stays as a call has left it: no    *)
(* later call undoes it.                                                   *)
ResultsKept ==
  /\ Made("ports") /\ tutorial # 9 => port_known
  /\ Made("devinfo") => port_known
  /\ Made("rxq") => memory_pool
  /\ Made("capability") => capa
  /\ Made("configure") => offloads = TxOffloads

(* Once the bring-up is over the port id is that of a port, and the pool   *)
(* exists if there is a receive queue.                                     *)
PortIsUsable ==
  BroughtUp => port_known /\ ("rxq" \in Members(CallsOf(tutorial)) => memory_pool)

=============================================================================
