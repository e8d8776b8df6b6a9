-------------------------- MODULE PortBringUpProofs --------------------------
(***************************************************************************)
(* What every program that extends PortBringUp may rely on: its steps keep *)
(* the bring-up well typed, and bring the EAL up before anything else.     *)
(***************************************************************************)
EXTENDS PortBringUp, TLAPS

(* The steps that change the bring-up's variables.                         *)
BringUpStep == CallSucceeds \/ RxQueueIsSetUp \/ CallFails \/ CleanUpEal

(* main's calls are a sequence that starts with rte_eal_init and has it    *)
(* nowhere else.                                                           *)
LEMMA CallsAreOrdered ==
  ASSUME NEW t \in 1 .. 7 \cup {9}
  PROVE  /\ CallsOf(t) \in Seq(Members(CallsOf(t)))
         /\ CallsOf(t) # <<>> /\ Head(CallsOf(t)) = "eal"
         /\ \A i \in 2 .. Len(CallsOf(t)) : CallsOf(t)[i] # "eal"
<1> DEFINE Ordered(c) == /\ c \in Seq(Members(c)) /\ c # <<>> /\ Head(c) = "eal"
                         /\ \A i \in 2 .. Len(c) : c[i] # "eal"
<1>1. Ordered(ReadingCalls)
  BY DEF ReadingCalls, Members
<1>2. Ordered(SendingCalls)
  BY DEF SendingCalls, Members
<1>3. Ordered(PipelineCalls)
  BY DEF PipelineCalls, Members
<1>4. Ordered(StatisticsCalls)
  BY DEF StatisticsCalls, Members
<1>5. Ordered(ChecksumCalls)
  BY DEF ChecksumCalls, Members
<1>6. Ordered(ScalingCalls)
  BY DEF ScalingCalls, Members
<1>7. Ordered(TelemetryCalls)
  BY DEF TelemetryCalls, Members
<1>8. Ordered(GeneratorCalls)
  BY DEF GeneratorCalls, Members
<1> HIDE DEF Ordered
<1>9. Ordered(CallsOf(t))
  BY <1>1, <1>2, <1>3, <1>4, <1>5, <1>6, <1>7, <1>8 DEF CallsOf
<1> QED BY <1>9 DEF Ordered

(* Before its first call a program's bring-up is well typed, and the EAL   *)
(* is down.                                                                *)
LEMMA BringUpTypedInit ==
  ASSUME tutorial \in 1 .. 7 \cup {9}, BringUpInit
  PROVE  BringUpTypeOK /\ EalIsFirst
<1>1. CallsOf(tutorial) \in Seq(Members(CallsOf(tutorial)))
  BY CallsAreOrdered, Zenon
<1>2. /\ todo \in Seq(Members(CallsOf(tutorial)))
      /\ Len(todo) <= Len(CallsOf(tutorial))
  BY <1>1 DEF BringUpInit
<1>3. /\ eal \in {"down", "up", "cleaned"}
      /\ port_known \in BOOLEAN /\ memory_pool \in BOOLEAN
      /\ capa \in BOOLEAN /\ offloads \in BOOLEAN
  BY Zenon DEF BringUpInit
<1> QED BY <1>2, <1>3, Zenon DEF BringUpInit, BringUpTypeOK, EalIsFirst

(* A call that succeeds is the first of those main still has to make.      *)
LEMMA SuccessTakesOne ==
  ASSUME BringUpTypeOK, NEW call, Succeeds(call)
  PROVE  /\ todo # <<>> /\ Head(todo) = call /\ todo' = Tail(todo)
         /\ tutorial' = tutorial
         /\ todo' \in Seq(Members(CallsOf(tutorial)))
         /\ Len(todo') < Len(CallsOf(tutorial))
         /\ Members(todo') \subseteq Members(todo)
<1>1. /\ todo \in Seq(Members(CallsOf(tutorial))) /\ todo # <<>>
      /\ Len(todo) <= Len(CallsOf(tutorial))
      /\ CallsOf(tutorial) \in Seq(Members(CallsOf(tutorial)))
  BY CallsAreOrdered, Zenon DEF BringUpTypeOK, Succeeds
<1>2. /\ Tail(todo) \in Seq(Members(CallsOf(tutorial)))
      /\ Len(Tail(todo)) = Len(todo) - 1
      /\ \A i \in 1 .. Len(Tail(todo)) : Tail(todo)[i] = todo[i + 1]
  BY <1>1
<1>3. Members(Tail(todo)) \subseteq Members(todo)
  BY <1>1, <1>2 DEF Members
<1> QED BY <1>1, <1>2, <1>3 DEF Succeeds

(* Every step of the bring-up keeps it well typed ...                      *)
LEMMA BringUpTypedNext ==
  ASSUME BringUpTypeOK, BringUpStep
  PROVE  BringUpTypeOK'
<1> USE DEF BringUpTypeOK
<1>1. ASSUME NEW call, Succeeds(call)
      PROVE  /\ tutorial' \in 1 .. 7 \cup {9}
             /\ todo' \in Seq(Members(CallsOf(tutorial')))
             /\ Len(todo') <= Len(CallsOf(tutorial'))
  <2>1. CallsOf(tutorial) \in Seq(Members(CallsOf(tutorial)))
    BY CallsAreOrdered, Zenon
  <2>2. /\ tutorial' = tutorial
        /\ todo' \in Seq(Members(CallsOf(tutorial)))
        /\ Len(todo') < Len(CallsOf(tutorial))
    BY <1>1, SuccessTakesOne
  <2>3. Len(todo') \in Nat
    BY <2>2
  <2>4. CallsOf(tutorial') = CallsOf(tutorial)
    BY <2>2, Zenon DEF CallsOf
  <2> QED BY <2>1, <2>2, <2>3, <2>4
<1>2. CASE CallSucceeds
  <2>1. CASE StartEal
    BY <1>1, <2>1, Zenon DEF StartEal
  <2>2. CASE DetectPorts
    <3>1. port_known' \in BOOLEAN
      BY <2>2, Zenon DEF DetectPorts
    <3> QED BY <1>1, <2>2, <3>1, Zenon DEF DetectPorts
  <2>3. CASE FindPortByName
    BY <1>1, <2>3, Zenon DEF FindPortByName
  <2>4. CASE ReadDeviceInfo
    BY <1>1, <2>4, Zenon DEF ReadDeviceInfo
  <2>5. CASE CheckCapability
    BY <1>1, <2>5, Zenon DEF CheckCapability
  <2>6. CASE CreatePool
    BY <1>1, <2>6, Zenon DEF CreatePool
  <2>7. CASE Configure
    <3>1. offloads' \in BOOLEAN
      <4>1. TxOffloads \in BOOLEAN
        BY Zenon DEF TxOffloads
      <4> QED BY <2>7, <4>1, Zenon DEF Configure
    <3> QED BY <1>1, <2>7, <3>1, Zenon DEF Configure
  <2>8. CASE OtherCall
    BY <1>1, <2>8, Zenon DEF OtherCall
  <2> QED BY <1>2, <2>1, <2>2, <2>3, <2>4, <2>5, <2>6, <2>7, <2>8, Zenon
          DEF CallSucceeds
<1>3. CASE RxQueueIsSetUp
  BY <1>1, <1>3, Zenon DEF RxQueueIsSetUp
<1>4. CASE CallFails
  <2>1. eal' \in {"down", "up", "cleaned"}
    BY <1>4, Zenon DEF CallFails, EalAfterFailure
  <2> QED BY <1>4, <2>1, Zenon DEF CallFails
<1>5. CASE CleanUpEal
  <2>1. eal' \in {"down", "up", "cleaned"}
    BY <1>5, Zenon DEF CleanUpEal
  <2> QED BY <1>5, <2>1, Zenon DEF CleanUpEal
<1> QED BY <1>2, <1>3, <1>4, <1>5, Zenon DEF BringUpStep

(* ... and brings the EAL up by its first call or not at all.              *)
LEMMA EalIsFirstNext ==
  ASSUME BringUpTypeOK, EalIsFirst,
         CallSucceeds \/ RxQueueIsSetUp \/ CallFails \/ (CleanUpEal /\ BroughtUp)
  PROVE  EalIsFirst'
<1> DEFINE calls == CallsOf(tutorial)
<1>1. /\ calls \in Seq(Members(calls)) /\ calls # <<>> /\ Head(calls) = "eal"
      /\ \A i \in 2 .. Len(calls) : calls[i] # "eal"
  BY CallsAreOrdered DEF BringUpTypeOK
<1>2. "eal" \notin Members(Tail(calls))
  <2>1. /\ Tail(calls) \in Seq(Members(calls))
        /\ Len(Tail(calls)) = Len(calls) - 1
        /\ \A i \in 1 .. Len(Tail(calls)) : Tail(calls)[i] = calls[i + 1]
    BY <1>1
  <2> QED BY <1>1, <2>1 DEF Members
<1>3. ASSUME NEW call, Succeeds(call)
      PROVE  "eal" \notin Members(todo') /\ (eal = "down" => call = "eal")
  <2>1. /\ Head(todo) = call /\ todo' = Tail(todo)
        /\ Members(todo') \subseteq Members(todo)
    BY <1>3, SuccessTakesOne
  <2>2. CASE eal = "down" /\ todo = calls
    BY <1>1, <1>2, <2>1, <2>2, Zenon
  <2>3. CASE eal # "down" /\ "eal" \notin Members(todo)
    BY <2>1, <2>3, Zenon
  <2> QED BY <2>2, <2>3 DEF EalIsFirst
<1>4. CASE CallSucceeds
  <2>1. CASE StartEal
    BY <1>3, <2>1 DEF StartEal, EalIsFirst
  <2>2. CASE ~StartEal
    <3>1. PICK call \in {"ports", "name", "devinfo", "capability", "pool",
                         "configure", "arguments", "telemetry", "lcores", "txq",
                         "start", "ring"} : Succeeds(call) /\ eal' = eal
      BY <1>4, <2>2
         DEF CallSucceeds, DetectPorts, FindPortByName, ReadDeviceInfo,
             CheckCapability, CreatePool, Configure, OtherCall
    <3> QED BY <1>3, <3>1 DEF EalIsFirst
  <2> QED BY <2>1, <2>2
<1>5. CASE RxQueueIsSetUp
  BY <1>3, <1>5 DEF RxQueueIsSetUp, EalIsFirst
<1>6. CASE CallFails
  <2>1. todo' = todo /\ calls' = calls /\ eal' = EalAfterFailure(Head(todo))
    BY <1>6 DEF CallFails, CallsOf
  <2>2. eal' \in {eal, "cleaned"} /\ (Head(todo) = "eal" => eal' = eal)
    BY <2>1 DEF EalAfterFailure, LeavesEalUp
  <2> QED BY <1>1, <2>1, <2>2 DEF EalIsFirst, Members
<1>7. CASE CleanUpEal /\ BroughtUp
  <2>1. eal' = "cleaned" /\ todo' = todo /\ todo = <<>>
    BY <1>7 DEF CleanUpEal, BroughtUp
  <2> QED BY <2>1 DEF EalIsFirst, Members
<1> QED BY <1>4, <1>5, <1>6, <1>7

-----------------------------------------------------------------------------
(* The order of the calls.                                                 *)

(* Every appearance of the one call comes before any of the other.         *)
Precedes(calls, first, second) ==
  \A i, j \in 1 .. Len(calls) :
    calls[i] = first /\ calls[j] = second => i < j

(* The orders that what main learns depends on.                            *)
Ordered(calls) ==
  /\ Precedes(calls, "ports", "devinfo") /\ Precedes(calls, "name", "devinfo")
  /\ Precedes(calls, "pool", "rxq")
  /\ Precedes(calls, "devinfo", "capability")
  /\ Precedes(calls, "devinfo", "configure")
  /\ Precedes(calls, "rxq", "start")

(* No call is made twice.                                                  *)
Distinct(calls) ==
  \A i, j \in 1 .. Len(calls) : calls[i] = calls[j] => i = j

(* All programs make their calls in these orders, and none twice.          *)
LEMMA CallsAreDistinct ==
  ASSUME NEW t \in 1 .. 7 \cup {9}
  PROVE  Distinct(CallsOf(t)) /\ Ordered(CallsOf(t))
<1> DEFINE Fine(c) == Distinct(c) /\ Ordered(c)
<1> USE DEF Distinct, Ordered, Precedes
<1>1. Fine(ReadingCalls)
  BY DEF ReadingCalls
<1>2. Fine(SendingCalls)
  BY DEF SendingCalls
<1>3. Fine(PipelineCalls)
  BY DEF PipelineCalls
<1>4. Fine(StatisticsCalls)
  BY DEF StatisticsCalls
<1>5. Fine(ChecksumCalls)
  BY DEF ChecksumCalls
<1>6. Fine(ScalingCalls)
  BY DEF ScalingCalls
<1>7. Fine(TelemetryCalls)
  BY DEF TelemetryCalls
<1>8. Fine(GeneratorCalls)
  BY DEF GeneratorCalls
<1> HIDE DEF Fine
<1>9. Fine(CallsOf(t))
  BY <1>1, <1>2, <1>3, <1>4, <1>5, <1>6, <1>7, <1>8 DEF CallsOf
<1> QED BY <1>9 DEF Fine

(* The calls made are those before the calls left.                         *)
LEMMA CallsMade ==
  ASSUME BringUpTypeOK, CallsMadeInOrder
  PROVE  LET calls == CallsOf(tutorial)
             made  == Len(calls) - Len(todo)
         IN  /\ made \in 0 .. Len(calls)
             /\ \A j \in 1 .. Len(calls) : Made(calls[j]) <=> j <= made
             /\ \A c : Made(c) => \E j \in 1 .. made : c = calls[j]
<1> DEFINE calls == CallsOf(tutorial)
           made  == Len(calls) - Len(todo)
<1>1. /\ calls \in Seq(Members(calls)) /\ Distinct(calls)
      /\ todo \in Seq(Members(calls)) /\ Len(todo) <= Len(calls)
  BY CallsAreOrdered, CallsAreDistinct DEF BringUpTypeOK
<1>2. /\ Len(calls) \in Nat /\ Len(todo) \in Nat /\ made \in 0 .. Len(calls)
      /\ DOMAIN calls = 1 .. Len(calls) /\ DOMAIN todo = 1 .. Len(todo)
  BY <1>1
<1>3. \A i \in 1 .. Len(todo) : todo[i] = calls[made + i]
  BY DEF CallsMadeInOrder
<1>4. \A c : Made(c) <=> c \in Members(calls) /\ c \notin Members(todo)
  BY DEF Made
<1> HIDE DEF calls, made
<1>5. ASSUME NEW c
      PROVE  /\ c \in Members(calls) <=> \E j \in 1 .. Len(calls) : c = calls[j]
             /\ c \in Members(todo) <=> \E i \in 1 .. Len(todo) : c = todo[i]
  BY <1>2 DEF Members
<1>6. ASSUME NEW j \in 1 .. Len(calls)
      PROVE  Made(calls[j]) <=> j <= made
  <2>1. CASE j <= made
    <3>1. ASSUME NEW i \in 1 .. Len(todo) PROVE calls[j] # todo[i]
      <4>1. made + i \in 1 .. Len(calls) /\ made + i # j
        BY <1>2, <2>1 DEF made
      <4> QED BY <1>1, <1>3, <4>1 DEF Distinct
    <3> QED BY <1>4, <1>5, <2>1, <3>1
  <2>2. CASE j > made
    <3>1. j - made \in 1 .. Len(todo) /\ made + (j - made) = j
      BY <1>2, <2>2 DEF made
    <3>2. calls[j] = todo[j - made]
      BY <1>3, <3>1
    <3>3. ~Made(calls[j])
      BY <1>4, <1>5, <3>1, <3>2
    <3> QED BY <1>2, <2>2, <3>3
  <2> QED BY <1>2, <2>1, <2>2
<1>7. ASSUME NEW c, Made(c) PROVE \E j \in 1 .. made : c = calls[j]
  <2>1. PICK j \in 1 .. Len(calls) : c = calls[j]
    BY <1>4, <1>5, <1>7
  <2>2. j <= made
    BY <1>6, <1>7, <2>1
  <2> QED BY <1>2, <2>1, <2>2
<1> QED BY <1>2, <1>6, <1>7 DEF calls, made

(* A call that succeeds is made then, not before, and before every call it *)
(* precedes.                                                               *)
LEMMA CallIsMade ==
  ASSUME BringUpTypeOK, CallsMadeInOrder, NEW call, Succeeds(call)
  PROVE  /\ CallsMadeInOrder'
         /\ call \in Members(CallsOf(tutorial)) /\ ~Made(call)
         /\ \A c : Made(c)' <=> Made(c) \/ c = call
         /\ \A c : Precedes(CallsOf(tutorial), call, c) => ~Made(c) /\ c # call
         /\ \A c : Precedes(CallsOf(tutorial), c, call)
                     /\ c \in Members(CallsOf(tutorial)) => Made(c)
<1> DEFINE calls == CallsOf(tutorial)
           made  == Len(calls) - Len(todo)
<1>1. /\ calls \in Seq(Members(calls)) /\ Distinct(calls)
      /\ todo \in Seq(Members(calls))
  BY CallsAreOrdered, CallsAreDistinct DEF BringUpTypeOK
<1>2. /\ todo # <<>> /\ Head(todo) = call /\ todo' = Tail(todo)
      /\ tutorial' = tutorial
  BY DEF Succeeds
<1>3. CallsOf(tutorial)' = calls
  BY <1>2, Zenon DEF CallsOf
<1>4. /\ Len(todo) \in Nat \ {0} /\ Len(calls) \in Nat
      /\ Len(todo') = Len(todo) - 1 /\ call = todo[1]
      /\ \A i \in 1 .. Len(todo') : todo'[i] = todo[i + 1]
      /\ todo' \in Seq(Members(calls))
  BY <1>1, <1>2
<1>5. /\ made \in 0 .. Len(calls)
      /\ \A j \in 1 .. Len(calls) : Made(calls[j]) <=> j <= made
      /\ \A c : Made(c) => \E j \in 1 .. made : c = calls[j]
      /\ \A i \in 1 .. Len(todo) : todo[i] = calls[made + i]
  BY CallsMade DEF CallsMadeInOrder
<1>6. Len(calls) - Len(todo') = made + 1 /\ made + 1 \in 1 .. Len(calls)
  BY <1>4, <1>5
<1>7. CallsMadeInOrder'
  <2>1. \A i \in 1 .. Len(todo') : todo'[i] = calls[(made + 1) + i]
    <3> SUFFICES ASSUME NEW i \in 1 .. Len(todo')
                 PROVE  todo'[i] = calls[(made + 1) + i]
      OBVIOUS
    <3>1. i + 1 \in 1 .. Len(todo) /\ made + (i + 1) = (made + 1) + i
      BY <1>4, <1>5
    <3> QED BY <1>4, <1>5, <3>1
  <2> QED BY <1>3, <1>6, <2>1 DEF CallsMadeInOrder
<1>8. call = calls[made + 1]
  BY <1>4, <1>5
<1>9. DOMAIN calls = 1 .. Len(calls)
  BY <1>1
<1> HIDE DEF calls, made
<1>10. call \in Members(calls) /\ ~Made(call)
  BY <1>5, <1>6, <1>8, <1>9 DEF Members
<1>11. ASSUME NEW c PROVE Made(c)' <=> Made(c) \/ c = call
  <2>1. /\ Made(c) <=> c \in Members(calls) /\ c \notin Members(todo)
        /\ Made(c)' <=> c \in Members(calls) /\ c \notin Members(todo')
    BY <1>3 DEF Made, calls, Members
  <2>2. c \in Members(todo) <=> c = call \/ c \in Members(todo')
    <3>1. DOMAIN todo = 1 .. Len(todo) /\ DOMAIN todo' = 1 .. Len(todo')
      BY <1>1, <1>4
    <3>2. c \in Members(todo) <=> \E i \in 1 .. Len(todo) : c = todo[i]
      BY <3>1 DEF Members
    <3>3. c \in Members(todo') <=> \E i \in 1 .. Len(todo') : c = todo'[i]
      BY <3>1 DEF Members
    <3>4. ASSUME NEW i \in 1 .. Len(todo), c = todo[i], i # 1
          PROVE  c \in Members(todo')
      <4>1. i - 1 \in 1 .. Len(todo') /\ (i - 1) + 1 = i
        BY <1>4, <3>4
      <4> QED BY <1>4, <3>3, <3>4, <4>1
    <3>5. ASSUME NEW i \in 1 .. Len(todo'), c = todo'[i]
          PROVE  c \in Members(todo)
      <4>1. i + 1 \in 1 .. Len(todo)
        BY <1>4
      <4> QED BY <1>4, <3>2, <3>5, <4>1
    <3>6. 1 \in 1 .. Len(todo)
      BY <1>4
    <3> QED BY <1>4, <3>2, <3>3, <3>4, <3>5, <3>6
  <2>3. call \notin Members(todo')
    <3> SUFFICES ASSUME NEW i \in 1 .. Len(todo') PROVE call # todo'[i]
      BY <1>4 DEF Members
    <3>1. todo'[i] = calls[made + (i + 1)]
      BY <1>4, <1>5
    <3>2. made + (i + 1) \in 1 .. Len(calls) /\ made + (i + 1) # made + 1
      BY <1>4, <1>5 DEF made
    <3> QED BY <1>1, <1>6, <1>8, <3>1, <3>2 DEF Distinct
  <2> QED BY <1>10, <2>1, <2>2, <2>3
<1>12. ASSUME NEW c, Precedes(calls, call, c) PROVE ~Made(c) /\ c # call
  <2>1. \A j \in 1 .. Len(calls) : calls[j] = c => made + 1 < j
    BY <1>6, <1>8, <1>12 DEF Precedes
  <2> QED BY <1>5, <1>6, <1>8, <2>1
<1>13. ASSUME NEW c, Precedes(calls, c, call), c \in Members(calls)
       PROVE  Made(c)
  <2>1. PICK j \in 1 .. Len(calls) : c = calls[j]
    BY <1>9, <1>13 DEF Members
  <2>2. j < made + 1
    BY <1>6, <1>8, <1>13, <2>1 DEF Precedes
  <2> QED BY <1>5, <2>1, <2>2
<1> QED BY <1>7, <1>10, <1>11, <1>12, <1>13 DEF calls

(* Until a call is made, neither is any call it precedes.                  *)
LEMMA NotMadeYet ==
  ASSUME BringUpTypeOK, CallsMadeInOrder, todo # <<>>,
         NEW c, Precedes(CallsOf(tutorial), Head(todo), c)
  PROVE  ~Made(c) /\ c # Head(todo)
<1> DEFINE calls == CallsOf(tutorial)
           made  == Len(calls) - Len(todo)
<1>1. /\ made \in 0 .. Len(calls)
      /\ \A d : Made(d) => \E j \in 1 .. made : d = calls[j]
      /\ \A i \in 1 .. Len(todo) : todo[i] = calls[made + i]
  BY CallsMade DEF CallsMadeInOrder
<1>2. todo \in Seq(Members(calls)) /\ calls \in Seq(Members(calls))
  BY CallsAreOrdered, Zenon DEF BringUpTypeOK
<1>3. /\ Len(todo) \in Nat \ {0} /\ Len(calls) \in Nat /\ Head(todo) = todo[1]
  BY <1>2
<1>4. made + 1 \in 1 .. Len(calls) /\ Head(todo) = calls[made + 1]
  BY <1>1, <1>3
<1> HIDE DEF calls, made
<1>5. \A i, j \in 1 .. Len(calls) : calls[i] = Head(todo) /\ calls[j] = c => i < j
  BY DEF Precedes, calls
<1>6. ASSUME Made(c) PROVE FALSE
  <2>1. PICK j \in 1 .. made : c = calls[j]
    BY <1>1, <1>6
  <2>2. j \in 1 .. Len(calls) /\ ~(made + 1 < j)
    BY <1>1, <2>1
  <2> QED BY <1>4, <1>5, <2>1, <2>2
<1>7. ASSUME c = Head(todo) PROVE FALSE
  BY <1>3, <1>4, <1>5, <1>7
<1> QED BY <1>6, <1>7

(* Only tutorial 9 looks a port up by its name.                            *)
LEMMA OnlyOneLooksUpNames ==
  ASSUME NEW t \in 1 .. 7 \cup {9}, "name" \in Members(CallsOf(t))
  PROVE  t = 9
<1> DEFINE Nameless(c) == "name" \notin Members(c)
<1>1. /\ Nameless(ReadingCalls) /\ Nameless(SendingCalls)
      /\ Nameless(PipelineCalls) /\ Nameless(StatisticsCalls)
  BY DEF Members, ReadingCalls, SendingCalls, PipelineCalls, StatisticsCalls
<1>2. /\ Nameless(ChecksumCalls) /\ Nameless(ScalingCalls)
      /\ Nameless(TelemetryCalls)
  BY DEF Members, ChecksumCalls, ScalingCalls, TelemetryCalls
<1>3. ~Nameless(CallsOf(t))
  OBVIOUS
<1> HIDE DEF Nameless
<1> QED BY <1>1, <1>2, <1>3 DEF CallsOf

-----------------------------------------------------------------------------
(* What main learns.                                                       *)

(* Before the first call nothing is made, so nothing has to be known.      *)
LEMMA BringUpLearnsInit ==
  ASSUME tutorial \in 1 .. 7 \cup {9}, BringUpInit
  PROVE  CallsMadeInOrder /\ ResultsKept
<1>1. CallsOf(tutorial) \in Seq(Members(CallsOf(tutorial)))
  BY CallsAreOrdered, Zenon
<1>2. CallsMadeInOrder
  BY <1>1 DEF BringUpInit, CallsMadeInOrder
<1>3. \A c : ~Made(c)
  BY DEF BringUpInit, Made
<1> QED BY <1>2, <1>3, Zenon DEF ResultsKept

(* The bring-up makes its calls in order, and none undoes what another has *)
(* found out or set up.                                                    *)
LEMMA BringUpLearnsNext ==
  ASSUME BringUpTypeOK, CallsMadeInOrder, ResultsKept, BringUpStep
  PROVE  CallsMadeInOrder' /\ ResultsKept'
<1> DEFINE Before(c, d) == Precedes(CallsOf(tutorial), c, d)
           Has(c) == c \in Members(CallsOf(tutorial))
<1>0. tutorial \in 1 .. 7 \cup {9}
  BY Zenon DEF BringUpTypeOK
<1>1. /\ Before("ports", "devinfo") /\ Before("name", "devinfo")
      /\ Before("pool", "rxq") /\ Before("devinfo", "capability")
      /\ Before("devinfo", "configure")
  BY <1>0, CallsAreDistinct, Zenon DEF Ordered
<1>2. ASSUME NEW call, Succeeds(call)
      PROVE  /\ CallsMadeInOrder' /\ tutorial' = tutorial /\ Has(call)
             /\ \A c : Made(c)' <=> Made(c) \/ c = call
             /\ \A c : Before(call, c) => ~Made(c) /\ c # call
  BY <1>2, CallIsMade DEF Succeeds
<1> DEFINE Learned(call) ==
             /\ (Made("ports") \/ call = "ports") /\ tutorial # 9 => port_known'
             /\ Made("devinfo") \/ call = "devinfo" => port_known'
             /\ Made("rxq") \/ call = "rxq" => memory_pool'
             /\ Made("capability") \/ call = "capability" => capa'
             /\ Made("configure") \/ call = "configure"
                  => offloads' = (tutorial = 5 \/ (tutorial = 9 /\ capa'))
<1>3. ASSUME NEW call, Succeeds(call), Learned(call)
      PROVE  CallsMadeInOrder' /\ ResultsKept'
  <2>1. CallsMadeInOrder' /\ tutorial' = tutorial
    BY <1>2, <1>3
  <2>2. /\ Made("ports")' <=> Made("ports") \/ call = "ports"
        /\ Made("devinfo")' <=> Made("devinfo") \/ call = "devinfo"
        /\ Made("rxq")' <=> Made("rxq") \/ call = "rxq"
        /\ Made("capability")' <=> Made("capability") \/ call = "capability"
        /\ Made("configure")' <=> Made("configure") \/ call = "configure"
    BY <1>2, <1>3, Zenon
  <2>3. TxOffloads' = (tutorial = 5 \/ (tutorial = 9 /\ capa'))
    BY <2>1, Zenon DEF TxOffloads
  <2> QED BY <1>3, <2>1, <2>2, <2>3, Zenon DEF ResultsKept
<1>4. CASE CallSucceeds
  <2> USE DEF ResultsKept, TxOffloads
  <2>1. CASE StartEal
    <3>1. Succeeds("eal") /\ Learned("eal")
      BY <2>1, Zenon DEF StartEal
    <3> QED BY <1>3, <3>1, Zenon
  <2>2. CASE DetectPorts
    <3>1. ~Made("devinfo")
      BY <1>1, <1>2, <2>2, Zenon DEF DetectPorts
    <3>2. Succeeds("ports") /\ Learned("ports")
      BY <2>2, <3>1, Zenon DEF DetectPorts
    <3> QED BY <1>3, <3>2, Zenon
  <2>3. CASE FindPortByName
    <3>1. tutorial = 9
      BY <1>0, <1>2, <2>3, OnlyOneLooksUpNames, Zenon DEF FindPortByName
    <3>2. ~Made("devinfo")
      BY <1>1, <1>2, <2>3, Zenon DEF FindPortByName
    <3>3. Succeeds("name") /\ Learned("name")
      BY <2>3, <3>1, <3>2, Zenon DEF FindPortByName
    <3> QED BY <1>3, <3>3, Zenon
  <2>4. CASE ReadDeviceInfo
    <3>1. ~Made("capability") /\ ~Made("configure")
      BY <1>1, <1>2, <2>4, Zenon DEF ReadDeviceInfo
    <3>2. Succeeds("devinfo") /\ Learned("devinfo")
      BY <2>4, <3>1, Zenon DEF ReadDeviceInfo
    <3> QED BY <1>3, <3>2, Zenon
  <2>5. CASE CheckCapability
    <3>1. Succeeds("capability") /\ Learned("capability")
      BY <2>5, Zenon DEF CheckCapability
    <3> QED BY <1>3, <3>1, Zenon
  <2>6. CASE CreatePool
    <3>1. ~Made("rxq")
      BY <1>1, <1>2, <2>6, Zenon DEF CreatePool
    <3>2. Succeeds("pool") /\ Learned("pool")
      BY <2>6, <3>1, Zenon DEF CreatePool
    <3> QED BY <1>3, <3>2, Zenon
  <2>7. CASE Configure
    <3>1. Succeeds("configure") /\ Learned("configure")
      BY <2>7, Zenon DEF Configure
    <3> QED BY <1>3, <3>1, Zenon
  <2>8. CASE OtherCall
    <3>1. PICK call \in {"arguments", "telemetry", "lcores", "txq", "start",
                         "ring"} : Succeeds(call)
      BY <2>8, Zenon DEF OtherCall
    <3>2. Learned(call)
      BY <2>8, <3>1, Zenon DEF OtherCall
    <3> QED BY <1>3, <3>1, <3>2, Zenon
  <2> HIDE DEF ResultsKept, TxOffloads
  <2> QED BY <1>4, <2>1, <2>2, <2>3, <2>4, <2>5, <2>6, <2>7, <2>8, Zenon
          DEF CallSucceeds
<1>5. CASE RxQueueIsSetUp
  <2>1. Succeeds("rxq") /\ Learned("rxq")
    BY <1>5, Zenon DEF RxQueueIsSetUp, ResultsKept, TxOffloads
  <2> QED BY <1>3, <2>1, Zenon
<1>6. ASSUME UNCHANGED <<tutorial, todo, port_known, memory_pool, capa, offloads>>
      PROVE  CallsMadeInOrder' /\ ResultsKept'
  <2>1. CallsMadeInOrder'
    BY <1>6, Zenon DEF CallsMadeInOrder, CallsOf
  <2>2. \A c : Made(c)' <=> Made(c)
    BY <1>6, Zenon DEF Made, CallsOf, Members
  <2> QED BY <1>6, <2>1, <2>2, Zenon DEF ResultsKept, TxOffloads
<1>7. CASE CallFails
  BY <1>6, <1>7, Zenon DEF CallFails
<1>8. CASE CleanUpEal
  BY <1>6, <1>8, Zenon DEF CleanUpEal
<1> QED BY <1>4, <1>5, <1>7, <1>8, Zenon DEF BringUpStep

(* Every program asks for its ports, and tutorial 9 for the device's       *)
(* information as well.                                                    *)
LEMMA PortsAreDetected ==
  ASSUME NEW t \in 1 .. 7 \cup {9}
  PROVE  /\ "ports" \in Members(CallsOf(t))
         /\ t = 9 => "devinfo" \in Members(CallsOf(t))
<1> DEFINE Has(c, call) == call \in Members(c)
<1>1. /\ Has(ReadingCalls, "ports") /\ Has(SendingCalls, "ports")
      /\ Has(PipelineCalls, "ports") /\ Has(StatisticsCalls, "ports")
  BY DEF Members, ReadingCalls, SendingCalls, PipelineCalls, StatisticsCalls
<1>2. /\ Has(ChecksumCalls, "ports") /\ Has(ScalingCalls, "ports")
      /\ Has(TelemetryCalls, "ports") /\ Has(GeneratorCalls, "ports")
  BY DEF Members, ChecksumCalls, ScalingCalls, TelemetryCalls, GeneratorCalls
<1>3. Has(GeneratorCalls, "devinfo")
  BY DEF Members, GeneratorCalls
<1> HIDE DEF Has
<1>4. Has(CallsOf(t), "ports") /\ (t = 9 => Has(CallsOf(t), "devinfo"))
  BY <1>1, <1>2, <1>3 DEF CallsOf
<1> QED BY <1>4 DEF Has

(* So the port is usable when the bring-up is over.                        *)
LEMMA UsableOnceBroughtUp ==
  ASSUME BringUpTypeOK, ResultsKept
  PROVE  PortIsUsable
<1> SUFFICES ASSUME BroughtUp
             PROVE  /\ port_known
                    /\ "rxq" \in Members(CallsOf(tutorial)) => memory_pool
  BY DEF PortIsUsable
<1>1. tutorial \in 1 .. 7 \cup {9}
  BY Zenon DEF BringUpTypeOK
<1>2. \A c : Made(c) <=> c \in Members(CallsOf(tutorial))
  BY DEF BroughtUp, Made, Members
<1> QED BY <1>1, <1>2, PortsAreDetected, Zenon DEF ResultsKept

(* A step that leaves the bring-up alone leaves all that is known of it.   *)
LEMMA BringUpKept ==
  ASSUME UNCHANGED bringUpVars
  PROVE  /\ BringUpTypeOK => BringUpTypeOK'
         /\ EalIsFirst => EalIsFirst'
         /\ CallsMadeInOrder => CallsMadeInOrder'
         /\ ResultsKept => ResultsKept'
         /\ BroughtUp' = BroughtUp
         /\ \A c : Made(c)' <=> Made(c)
<1>1. \A c : Made(c)' <=> Made(c)
  BY Zenon DEF bringUpVars, Made, CallsOf, Members
<1>2. ResultsKept => ResultsKept'
  BY <1>1, Zenon DEF bringUpVars, ResultsKept, TxOffloads
<1>3. /\ BringUpTypeOK => BringUpTypeOK'
      /\ EalIsFirst => EalIsFirst'
      /\ CallsMadeInOrder => CallsMadeInOrder'
      /\ BroughtUp' = BroughtUp
  BY Zenon
  DEF bringUpVars, BringUpTypeOK, EalIsFirst, CallsMadeInOrder, BroughtUp, CallsOf
<1> QED BY <1>1, <1>2, <1>3

=============================================================================
