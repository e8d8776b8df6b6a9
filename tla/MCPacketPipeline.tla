-------------------------- MODULE MCPacketPipeline --------------------------
(* Model-checking instances of PacketPipeline.                             *)
EXTENDS PacketPipeline, TLC

(* Mbufs are interchangeable: no definition tells two of them apart.       *)
MbufSymmetry == Permutations(Mbufs)

=============================================================================
