-------------------------- MODULE MCMultiProcess --------------------------
(* Model-checking instances of MultiProcess.                               *)
EXTENDS MultiProcess, TLC

(* Mbufs are interchangeable: no definition tells two of them apart.       *)
MbufSymmetry == Permutations(Mbufs)

=============================================================================
