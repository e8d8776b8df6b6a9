------------------------------ MODULE TxQueue ------------------------------
(***************************************************************************)
(* A transmit queue of a port, over the packet buffer pool.  The queue is  *)
(* the driver's; the tutorials set its size with rte_eth_tx_queue_setup    *)
(* and hand it packets with rte_eth_tx_burst.                              *)
(*                                                                         *)
(* A driver returns the mbufs of sent packets to the pool only inside a    *)
(* later call of rte_eth_tx_burst, on the calling lcore, and how many of   *)
(* them is its own choice - but it refuses a packet only when no           *)
(* descriptor is left that it could reclaim.                               *)
(***************************************************************************)
EXTENDS Mempool

CONSTANT TxDescs   \* transmit descriptors of the queue (256; 1024 in tutorial 9)

ASSUME TxQueueAssumption == TxDescs \in Nat \ {0}

VARIABLES
  queued,   \* mbufs of packets the port has yet to send
  done      \* mbufs of packets it has sent, still in their descriptors

txVars == <<queued, done>>

TxTypeOK ==
  /\ queued \in SUBSET Mbufs
  /\ done \in SUBSET Mbufs
  /\ Cardinality(queued) + Cardinality(done) <= TxDescs

TxInit == queued = {} /\ done = {}

(* Free descriptors, after those of the mbufs in freed are reclaimed.      *)
Room(freed) == TxDescs - Cardinality(queued) - Cardinality(done \ freed)

AcceptedSets(ms, room) ==
  IF Cardinality(ms) <= room THEN {ms}
  ELSE {s \in SUBSET ms : Cardinality(s) = room}

(* rte_eth_tx_burst on lcore l: of the packets ms it accepts those in      *)
(* accepted.                                                               *)
TxBurst(l, ms, accepted) ==
  \E freed \in SUBSET done :
    /\ freed = done \/ Cardinality(ms) <= Room(freed)
    /\ accepted \in AcceptedSets(ms, Room(freed))
    /\ FreeBulk(l, freed)
    /\ done' = done \ freed
    /\ queued' = queued \cup accepted

(* The port sends a packet.                                                *)
Transmit ==
  \E m \in queued :
    /\ queued' = queued \ {m}
    /\ done' = done \cup {m}

=============================================================================
