------------------------- MODULE MCPacketGenerator -------------------------
(* The model-checking instances of PacketGenerator, without symmetry: the  *)
(* run checks liveness.                                                    *)
EXTENDS PacketGenerator, TLC

=============================================================================
