------------------------------- MODULE MCRx433 -------------------------------
(* Instances of Rx433 for TLC. *)
EXTENDS Rx433

(* Ones and zeros at either end of a symbol, and symbols of each alone. *)
FewCodes == {<<{1, 2}, {}, {2}>>, <<{1}, {1, 2}, {}>>}

FewHeCodes == {{1, 3}}

(* Noise at every half pulse of a transmission. *)
EveryFourth == {4 * i : i \in 0 .. 60}
=============================================================================
