------------------------------- MODULE MCNcrs -------------------------------
(* The program's own code, GF(32) with ten parity symbols, for TLC. *)
EXTENDS Ncrs

ByteBits(n) == {j \in 0 .. 7 : (n \div 2^j) % 2 = 1}

(* 14 bytes of which 105 bits are sent. *)
TwoMessages ==
  {[i \in 0 .. 13 |-> ByteBits(IF i = 13 THEN 128 ELSE (i * 73 + 19) % 256)],
   [i \in 0 .. 13 |-> {}]}

GF32 == {0, 2, 5}

(* count symbols, evenly spaced, of which the bits in mask are inverted. *)
Errors(from, stride, count, mask) ==
  [p \in {(from + k * stride) % nn : k \in 0 .. count - 1} |-> mask]

Noise ==
  {[shift |-> 0, errors |-> Errors(from, stride, count, mask)] :
     from \in Positions, stride \in {1, 3}, count \in 0 .. 7, mask \in {{0}, {1, 2, 4}}}

Moves ==
  {[shift |-> shift, errors |-> Errors(from, 2, count, {0, 2})] :
     shift \in {-4, -3, -2, -1, 1, 2, 3}, from \in {0, 4, 13, 22}, count \in {0, 1, 2, 3}}

NoiseAndMoves == Noise \cup Moves
=============================================================================
