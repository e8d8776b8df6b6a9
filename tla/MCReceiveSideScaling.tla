----------------------- MODULE MCReceiveSideScaling -----------------------
(* Model-checking instances of ReceiveSideScaling.                         *)
EXTENDS ReceiveSideScaling, TLC

(* Mbufs are interchangeable: no definition tells two of them apart.       *)
MbufSymmetry == Permutations(Mbufs)

=============================================================================
