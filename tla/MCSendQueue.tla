----------------------------- MODULE MCSendQueue -----------------------------
(* Instances of SendQueue for TLC. *)
EXTENDS SendQueue

(* Two intervals forward, or almost three back. *)
ForthAndBack == {-2, 5}
FarEnough == -5
=============================================================================
