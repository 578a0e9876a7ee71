----------------------------- MODULE ReedSolomon -----------------------------
(***************************************************************************)
(* The Reed-Solomon code of reed_solomon.c, encode_rs.h and decode_rs.h,   *)
(* as ncrs.c uses it: full-length words without padding, no erasures, no   *)
(* syndromes from the caller, and corrections applied to the data.         *)
(*                                                                         *)
(* A symbol is the set of its bits that are 1, bit 0 being the lowest, and *)
(* {} the symbol 0, so that the exclusive or is the symmetric difference.  *)
(* Polynomials are functions from exponents to symbols.  The C code keeps  *)
(* some of them as logarithms, with nn for the logarithm of zero; here     *)
(* each is in polynomial form, and Mul is the sum of logarithms.           *)
(***************************************************************************)
EXTENDS Integers, FiniteSetsExt

CONSTANTS
  SymSize, \* bits in a symbol
  GFPoly,  \* the field's generator polynomial, as a set of bits
  FCR,     \* first consecutive root, as a logarithm
  Prim,    \* primitive element, as a logarithm
  NRoots   \* parity symbols in a word

nn == 2^SymSize - 1
Bits == 0 .. SymSize - 1
Symbols == SUBSET Bits
DataLen == nn - NRoots

(* init_rs_internal refuses other parameters. *)
ParametersInRange ==
  /\ SymSize \in Nat \ {0}
  /\ FCR \in 0 .. nn
  /\ Prim \in 1 .. nn
  /\ NRoots \in 0 .. nn

-----------------------------------------------------------------------------
(* The field: rs_init's tables *)

Plus(x, y) == SymDiff(x, y)

(* The sums of more and more terms of f, which has indexes up to nn. *)
Sums(f) ==
  LET sum[n \in 0 .. nn + 1] ==
        IF n = 0 THEN {} ELSE Plus(sum[n - 1], IF n - 1 \in DOMAIN f THEN f[n - 1] ELSE {})
  IN sum
PlusAll(f) == Sums(f)[nn + 1]

(* sr in the next round of rs_init: twice as much, reduced by the polynomial. *)
NextPower(sr) ==
  LET twice == {bit + 1 : bit \in sr}
  IN (IF SymSize \in twice THEN Plus(twice, GFPoly) ELSE twice) \cap Bits

(* sr, the powers of the generator. *)
Power[i \in 0 .. nn] == IF i = 0 THEN {0} ELSE NextPower(Power[i - 1])

alpha_to == [i \in 0 .. nn |-> IF i = nn THEN {} ELSE Power[i]]
index_of == [x \in Symbols |-> CHOOSE i \in 0 .. nn : alpha_to[i] = x]

(* alpha_to[rs_modnn(rs, n)] *)
Exp(n) == alpha_to[n % nn]

Mul(x, y) == IF {} \in {x, y} THEN {} ELSE Exp(index_of[x] + index_of[y])
Reciprocal(x) == Exp(nn - index_of[x])

iprim == CHOOSE i \in 1 .. nn : (i * Prim) % nn = 1 % nn

(* The generator polynomial after n of its roots. *)
GenPoly[n \in 0 .. NRoots] ==
  [j \in 0 .. NRoots |->
     IF n = 0 THEN (IF j = 0 THEN {0} ELSE {})
     ELSE Plus(IF j = 0 THEN {} ELSE GenPoly[n - 1][j - 1],
               Mul(GenPoly[n - 1][j], Exp((FCR + n - 1) * Prim)))]
genpoly == GenPoly[NRoots]

ASSUME ReedSolomonAssumption ==
  /\ ParametersInRange
  /\ NRoots \in 1 .. nn - 1
  /\ Power[nn] = {0}                     \* else rs_init fails: "not primitive"
  /\ \A x \in Symbols \ {{}} : \E i \in 0 .. nn - 1 : Power[i] = x
  /\ \E i \in 1 .. nn : (i * Prim) % nn = 1 % nn

-----------------------------------------------------------------------------
(* encode_rs8: division by genpoly, one data symbol at a time *)

encode_rs8(d) ==
  LET par[i \in 0 .. DataLen] ==
        IF i = 0 THEN [j \in 0 .. NRoots - 1 |-> {}]
        ELSE LET before == par[i - 1]
                 fb     == Plus(d[i - 1], before[0])
             IN [j \in 0 .. NRoots - 1 |->
                   Plus(IF j = NRoots - 1 THEN {} ELSE before[j + 1],
                        Mul(fb, genpoly[NRoots - 1 - j]))]
  IN par[DataLen]

-----------------------------------------------------------------------------
(* decode_rs8 *)

VARIABLES
  data,       \* data[], corrected in place
  parity,     \* par[]
  s,          \* the syndromes
  lambda,     \* the error locator polynomial
  b,          \* the polynomial lambda is next corrected with
  el,         \* the number of errors lambda stands for
  r,          \* Berlekamp-Massey steps done
  corrections \* count, the result; Undecided before there is one

decodeVars == <<data, parity, s, lambda, b, el, r, corrections>>

Undecided == -1
EBADMSG == 74

Syndromes(d, par) ==
  LET word(j) == IF j < DataLen THEN d[j] ELSE par[j - DataLen]
      syn(i) ==
        LET eval[j \in 0 .. nn - 1] ==
              IF j = 0 THEN word(0)
              ELSE Plus(word(j), Mul(eval[j - 1], Exp((FCR + i) * Prim)))
        IN eval[nn - 1]
  IN [i \in 0 .. NRoots - 1 |-> syn(i)]

One == [i \in 0 .. NRoots |-> IF i = 0 THEN {0} ELSE {}]

(* Up to the test of the syndromes.  A word without errors needs no more.  *)
decode_rs8(d, par) ==
  /\ data' = d
  /\ parity' = par
  /\ s' = Syndromes(d, par)
  /\ lambda' = One
  /\ b' = One
  /\ el' = 0
  /\ r' = 0
  /\ corrections' = IF \A i \in DOMAIN s' : s'[i] = {} THEN 0 ELSE Undecided

Discrepancy == PlusAll([i \in 0 .. r |-> Mul(lambda[i], s[r - i])])

(* Each definition named Mut... is a plausible mistake in the one after it. *)
MutBerlekampMassey ==
  /\ corrections = Undecided
  /\ r < NRoots
  /\ r' = r + 1
  /\ lambda' = [i \in 0 .. NRoots |->
                  IF i = 0 THEN lambda[0] ELSE Plus(lambda[i], Mul(Discrepancy, b[i - 1]))]
  /\ IF Discrepancy # {} /\ 2 * el < r
       THEN /\ el' = r + 1 - el
            /\ b' = [i \in 0 .. NRoots |-> Mul(lambda[i], Reciprocal(Discrepancy))]
       ELSE /\ b' = [i \in 0 .. NRoots |-> IF i = 0 THEN {} ELSE b[i - 1]]
            /\ UNCHANGED el
  /\ UNCHANGED <<data, parity, s, corrections>>

(* A step of the search for the shortest recurrence of the syndromes.      *)
BerlekampMassey ==
  /\ corrections = Undecided
  /\ r < NRoots
  /\ r' = r + 1
  /\ lambda' = [i \in 0 .. NRoots |->
                  IF i = 0 THEN lambda[0] ELSE Plus(lambda[i], Mul(Discrepancy, b[i - 1]))]
  /\ IF Discrepancy # {} /\ 2 * el <= r
       THEN /\ el' = r + 1 - el
            /\ b' = [i \in 0 .. NRoots |-> Mul(lambda[i], Reciprocal(Discrepancy))]
       ELSE /\ b' = [i \in 0 .. NRoots |-> IF i = 0 THEN {} ELSE b[i - 1]]
            /\ UNCHANGED el
  /\ UNCHANGED <<data, parity, s, corrections>>

deg_lambda == Max({i \in 0 .. NRoots : lambda[i] # {}})

(* The Chien search: roots in index form, and the symbol each one blames.  *)
Roots == {i \in 1 .. nn : PlusAll([j \in 0 .. deg_lambda |-> Mul(lambda[j], Exp(i * j))]) = {}}
Location(root) == (root * iprim - 1) % nn

omega == [i \in 0 .. deg_lambda - 1 |-> PlusAll([j \in 0 .. i |-> Mul(s[i - j], lambda[j])])]

(* Forney's formula. *)
ErrorValue(root) ==
  LET num1 == PlusAll([i \in 0 .. deg_lambda - 1 |-> Mul(omega[i], Exp(i * root))])
      num2 == Exp(root * (FCR - 1) + nn)
      even == {i \in 0 .. Min({deg_lambda, NRoots - 1}) : i % 2 = 0}
      den  == PlusAll([i \in even |-> Mul(lambda[i + 1], Exp(i * root))])
  IN Mul(Mul(num1, num2), Reciprocal(den))

MutCorrect ==
  /\ corrections = Undecided
  /\ r = NRoots
  /\ corrections' = Cardinality(Roots)
  /\ data' = [k \in DOMAIN data |->
       IF \E root \in Roots : Location(root) = k
         THEN Plus(data[k], ErrorValue(CHOOSE root \in Roots : Location(root) = k))
         ELSE data[k]]
  /\ UNCHANGED <<parity, s, lambda, b, el, r>>

(* Only data is corrected, although errors in the parity count, too.       *)
Correct ==
  /\ corrections = Undecided
  /\ r = NRoots
  /\ IF Cardinality(Roots) # deg_lambda
       THEN corrections' = -EBADMSG /\ UNCHANGED data
       ELSE /\ corrections' = Cardinality(Roots)
            /\ data' = [k \in DOMAIN data |->
                 IF \E root \in Roots : Location(root) = k
                   THEN Plus(data[k], ErrorValue(CHOOSE root \in Roots : Location(root) = k))
                   ELSE data[k]]
  /\ UNCHANGED <<parity, s, lambda, b, el, r>>
=============================================================================
