----------------------------- MODULE MCRadioLink -----------------------------
(* Instances of RadioLink for TLC. *)
EXTENDS RadioLink, TLC

(* Payloads are only compared with each other, and so are processes. *)
Symmetry == Permutations(Commands) \cup Permutations(Senders)
=============================================================================
