--------------------------- MODULE MCSingleLcore ---------------------------
(* The model-checking instance of SingleLcore, without symmetry: the run   *)
(* checks liveness.                                                        *)
EXTENDS SingleLcore, TLC

=============================================================================
