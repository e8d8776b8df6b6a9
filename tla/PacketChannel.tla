--------------------------- MODULE PacketChannel ---------------------------
(***************************************************************************)
(* What tutorial 3 promises of the way from the ethernet port to the       *)
(* processing routine (README.md:8): packets are processed at most once    *)
(* and in the order of their arrival, and one can be lost on the way only  *)
(* while more than Capacity packets are under way.                         *)
(***************************************************************************)
EXTENDS Integers, Sequences

CONSTANTS
  Capacity,     \* usable slots of the ring buffer (1023)
  MaxPackets    \* bound on the packets that arrive, for model checking

VARIABLES
  sent,         \* how many packets have arrived; packet number n is the nth
  inFlight,     \* the packets under way, oldest first
  processed     \* the number of the packet processed last, 0 before any

chanVars == <<sent, inFlight, processed>>

Without(s, k) == SubSeq(s, 1, k - 1) \o SubSeq(s, k + 1, Len(s))

Init ==
  /\ sent = 0
  /\ inFlight = <<>>
  /\ processed = 0

Arrive ==
  /\ sent < MaxPackets
  /\ sent' = sent + 1
  /\ inFlight' = Append(inFlight, sent + 1)
  /\ UNCHANGED processed

Deliver ==
  /\ inFlight # <<>>
  /\ processed' = Head(inFlight)
  /\ inFlight' = Tail(inFlight)
  /\ UNCHANGED sent

Overflow ==
  /\ Len(inFlight) > Capacity
  /\ \E k \in 1 .. Len(inFlight) : inFlight' = Without(inFlight, k)
  /\ UNCHANGED <<sent, processed>>

Next == Arrive \/ Deliver \/ Overflow

Spec == Init /\ [][Next]_chanVars

=============================================================================
