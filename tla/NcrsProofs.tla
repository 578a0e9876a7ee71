----------------------------- MODULE NcrsProofs -----------------------------
(***************************************************************************)
(* Theorems about the Reed-Solomon decoder of ncrs.c, for every size of a  *)
(* symbol, every field of that size, and any number of parity symbols.     *)
(***************************************************************************)
EXTENDS Ncrs, FiniteSetTheorems, WellFoundedInduction, TLAPS

-----------------------------------------------------------------------------
(* Numbers *)

(* A set of natural numbers has a least member. *)
LEMMA LeastNumber ==
  ASSUME NEW T, T \subseteq Nat, T # {}
  PROVE  \E m \in T : \A n \in T : m <= n
  <1> DEFINE less == OpToRel(<, Nat)
  <1>1. PICK m \in T : \A n \in T : <<n, m>> \notin less
    BY NatLessThanWellFounded, WFMin
  <1>2. \A n \in T : ~(n < m)
    BY <1>1 DEF OpToRel
  <1>3. \A n \in T : m <= n
    BY <1>2
  <1> QED
    BY <1>3

(* What holds for 0 and for the next number up to a bound holds up to it. *)
LEMMA Upwards ==
  ASSUME NEW K \in Nat, NEW T, 0 \in T, \A n \in 0 .. K - 1 : n \in T => n + 1 \in T
  PROVE  \A n \in 0 .. K : n \in T
  <1> DEFINE Out == {n \in 0 .. K : n \notin T}
  <1> SUFFICES ASSUME Out # {} PROVE FALSE
    OBVIOUS
  <1>1. Out \subseteq Nat
    OBVIOUS
  <1>2. PICK m \in Out : \A n \in Out : m <= n
    BY <1>1, LeastNumber
  <1>3. m \in 1 .. K /\ m \notin T
    BY <1>2
  <1>4. m - 1 \in 0 .. K - 1 /\ m - 1 \notin Out
    BY <1>2, <1>3
  <1>5. m - 1 \in T
    BY <1>3, <1>4
  <1>6. (m - 1) + 1 \in T
    BY <1>4, <1>5
  <1> QED
    BY <1>3, <1>6

(* A recursion over an interval, with values in S. *)
AreSteps(K, S, step) == step \in [1 .. K -> [S -> S]]
Recurs(f, K, S, c, step) ==
  /\ f \in [0 .. K -> S]
  /\ f[0] = c
  /\ \A n \in 1 .. K : f[n] = step[n][f[n - 1]]

LEMMA RecursionExists ==
  ASSUME NEW K \in Nat, NEW S, NEW c \in S, NEW step, AreSteps(K, S, step)
  PROVE  \E f : Recurs(f, K, S, c, step)
  <1> USE DEF AreSteps
  <1> DEFINE Good(f, n) == f[0] = c /\ \A m \in 1 .. n : f[m] = step[m][f[m - 1]]
             T == {n \in Nat : \E f \in [0 .. n -> S] : Good(f, n)}
  <1>1. 0 \in T
    <2> DEFINE f == [m \in 0 .. 0 |-> c]
    <2>1. f \in [0 .. 0 -> S] /\ Good(f, 0)
      OBVIOUS
    <2> QED
      BY <2>1
  <1>2. ASSUME NEW n \in 0 .. K - 1, n \in T
        PROVE  n + 1 \in T
    <2>1. PICK f \in [0 .. n -> S] : Good(f, n)
      BY <1>2
    <2> DEFINE g == [m \in 0 .. n + 1 |-> IF m = n + 1 THEN step[n + 1][f[n]] ELSE f[m]]
    <2>2. step[n + 1][f[n]] \in S
      <3>1. n + 1 \in 1 .. K /\ f[n] \in S
        OBVIOUS
      <3> QED
        BY <3>1
    <2>3. g \in [0 .. n + 1 -> S]
      BY <2>2
    <2>4. \A m \in 0 .. n : g[m] = f[m]
      OBVIOUS
    <2>5. g[0] = c
      BY <2>1, <2>4
    <2>6. ASSUME NEW m \in 1 .. n + 1
          PROVE  g[m] = step[m][g[m - 1]]
      <3>1. m - 1 \in 0 .. n /\ g[m - 1] = f[m - 1]
        BY <2>4
      <3>2. CASE m = n + 1
        BY <3>1, <3>2
      <3>3. CASE m # n + 1
        <4>1. m \in 1 .. n /\ g[m] = f[m]
          BY <2>4, <3>3
        <4> QED
          BY <2>1, <3>1, <4>1
      <3> QED
        BY <3>2, <3>3
    <2> HIDE DEF g
    <2> QED
      BY <2>3, <2>5, <2>6
  <1> HIDE DEF T
  <1>3. \A n \in 0 .. K - 1 : n \in T => n + 1 \in T
    BY <1>2
  <1>4. \A n \in 0 .. K : n \in T
    BY <1>1, <1>3, Upwards
  <1>5. K \in 0 .. K
    OBVIOUS
  <1> QED
    BY <1>4, <1>5 DEF T, Recurs

-----------------------------------------------------------------------------
(* The parameters *)

LEMMA Sizes ==
  /\ SymSize \in Nat \ {0} /\ nn \in Nat \ {0} /\ NRoots \in Nat \ {0} /\ DataLen \in Nat \ {0}
  /\ FCR \in Nat /\ Prim \in Nat \ {0}
  /\ IsFiniteSet(Symbols) /\ Cardinality(Symbols) = nn + 1
  <1>1. SymSize \in Nat \ {0} /\ FCR \in 0 .. nn /\ Prim \in 1 .. nn /\ NRoots \in 1 .. nn - 1
    BY ReedSolomonAssumption DEF ParametersInRange
  <1>2. IsFiniteSet(Bits) /\ Cardinality(Bits) = SymSize
    BY <1>1, FS_Interval DEF Bits
  <1>3. IsFiniteSet(Symbols) /\ Cardinality(Symbols) = 2^SymSize
    BY <1>2, FS_SUBSET DEF Symbols
  <1>4. 2^SymSize \in Nat
    BY <1>3, FS_CardinalityType
  <1>5. nn \in Int /\ 2^SymSize = nn + 1
    BY <1>4 DEF nn
  <1>6. nn \in Nat \ {0}
    BY <1>1, <1>5
  <1> QED
    BY <1>1, <1>3, <1>5, <1>6 DEF DataLen

-----------------------------------------------------------------------------
(* Sums: the exclusive or makes a group of the symbols *)

LEMMA PlusRules ==
  ASSUME NEW x, NEW y, NEW z
  PROVE  /\ Plus(x, y) = Plus(y, x)
         /\ Plus(Plus(x, y), z) = Plus(x, Plus(y, z))
         /\ Plus(x, x) = {}
         /\ Plus(x, {}) = x /\ Plus({}, x) = x
  <1>1. Plus(Plus(x, y), z) = Plus(x, Plus(y, z))
    BY DEF Plus, SymDiff
  <1>2. Plus(x, y) = Plus(y, x) /\ Plus(x, x) = {} /\ Plus(x, {}) = x /\ Plus({}, x) = x
    BY DEF Plus, SymDiff
  <1> QED
    BY <1>1, <1>2

LEMMA PlusType ==
  ASSUME NEW x \in Symbols, NEW y \in Symbols
  PROVE  Plus(x, y) \in Symbols
  BY DEF Plus, SymDiff, Symbols

LEMMA PlusTwice ==
  ASSUME NEW x, NEW y
  PROVE  Plus(Plus(x, y), x) = y /\ Plus(x, Plus(x, y)) = y
  BY DEF Plus, SymDiff

(* Two sums of two can be paired otherwise. *)
LEMMA PlusPairs ==
  ASSUME NEW x, NEW y, NEW z, NEW u
  PROVE  Plus(Plus(x, y), Plus(z, u)) = Plus(Plus(x, z), Plus(y, u))
  BY DEF Plus, SymDiff

(* A term of a sum, which is 0 where there is none. *)
Term(f, n) == IF n \in DOMAIN f THEN f[n] ELSE {}

IsTerms(f) == \A n \in 0 .. nn : Term(f, n) \in Symbols

LEMMA SumsStep ==
  ASSUME NEW f, IsTerms(f)
  PROVE  /\ Sums(f)[0] = {}
         /\ \A n \in 0 .. nn : Sums(f)[n + 1] = Plus(Sums(f)[n], Term(f, n))
         /\ \A n \in 0 .. nn + 1 : Sums(f)[n] \in Symbols
  <1> DEFINE F(g) == [n \in 0 .. nn + 1 |-> IF n = 0 THEN {} ELSE Plus(g[n - 1], Term(f, n - 1))]
             step == [n \in 1 .. nn + 1 |-> [x \in Symbols |-> Plus(x, Term(f, n - 1))]]
  <1>1. nn \in Nat /\ {} \in Symbols
    BY Sizes DEF Symbols
  <1>2. step \in [1 .. nn + 1 -> [Symbols -> Symbols]]
    <2> SUFFICES ASSUME NEW n \in 1 .. nn + 1, NEW x \in Symbols
                 PROVE  Plus(x, Term(f, n - 1)) \in Symbols
      OBVIOUS
    <2>1. n - 1 \in 0 .. nn
      BY <1>1
    <2> QED
      BY <2>1, PlusType DEF IsTerms
  <1>3. PICK g : Recurs(g, nn + 1, Symbols, {}, step)
    <2>1. nn + 1 \in Nat /\ AreSteps(nn + 1, Symbols, step)
      BY <1>1, <1>2 DEF AreSteps
    <2> HIDE DEF step
    <2> QED
      BY <1>1, <2>1, RecursionExists
  <1>4. g = F(g)
    <2> SUFFICES ASSUME NEW n \in 0 .. nn + 1
                 PROVE  g[n] = IF n = 0 THEN {} ELSE Plus(g[n - 1], Term(f, n - 1))
      BY <1>3 DEF Recurs
    <2>1. CASE n # 0
      <3>1. n \in 1 .. nn + 1 /\ n - 1 \in 0 .. nn + 1
        BY <1>1, <2>1
      <3> QED
        BY <1>3, <2>1, <3>1 DEF Recurs
    <2> QED
      BY <1>3, <2>1 DEF Recurs
  <1>5. Sums(f) = CHOOSE h : h = F(h)
    BY DEF Sums, Term
  <1> HIDE DEF F
  <1>6. Sums(f) = F(Sums(f))
    BY <1>4, <1>5
  <1> DEFINE sums == Sums(f)
  <1>7. sums = F(sums)
    BY <1>6
  <1> HIDE DEF sums
  <1>8. sums[0] = {} /\ \A n \in 0 .. nn : sums[n + 1] = Plus(sums[n], Term(f, n))
    <2>1. sums[0] = {}
      BY <1>1, <1>7 DEF F
    <2>2. ASSUME NEW n \in 0 .. nn
          PROVE  sums[n + 1] = Plus(sums[n], Term(f, n))
      <3>1. n + 1 \in 0 .. nn + 1 /\ n + 1 # 0 /\ (n + 1) - 1 = n
        BY <1>1
      <3> QED
        BY <1>7, <3>1 DEF F
    <2> QED
      BY <2>1, <2>2
  <1>9. \A n \in 0 .. nn + 1 : sums[n] \in Symbols
    <2> DEFINE T == {n \in 0 .. nn + 1 : sums[n] \in Symbols}
    <2>1. 0 \in T
      <3>1. 0 \in 0 .. nn + 1 /\ sums[0] \in Symbols
        BY <1>1, <1>8
      <3> QED
        BY <3>1
    <2>2. ASSUME NEW n \in 0 .. (nn + 1) - 1, n \in T
          PROVE  n + 1 \in T
      <3>1. n \in 0 .. nn /\ n + 1 \in 0 .. nn + 1
        BY <1>1
      <3>2. Plus(sums[n], Term(f, n)) \in Symbols
        BY <2>2, <3>1, PlusType DEF IsTerms
      <3> QED
        BY <1>8, <3>1, <3>2
    <2> DEFINE K == nn + 1
    <2>3. K \in Nat /\ \A n \in 0 .. K - 1 : n \in T => n + 1 \in T
      BY <1>1, <2>2
    <2> HIDE DEF T, K
    <2>4. \A n \in 0 .. K : n \in T
      BY <2>1, <2>3, Upwards
    <2> QED
      BY <2>4 DEF T, K
  <1> QED
    BY <1>8, <1>9 DEF sums

(* A sum whose terms are all sums of two is the sum of two sums. *)
LEMMA SumsPlus ==
  ASSUME NEW f, NEW g, NEW h, IsTerms(f), IsTerms(g), IsTerms(h),
         \A n \in 0 .. nn : Term(h, n) = Plus(Term(f, n), Term(g, n))
  PROVE  \A n \in 0 .. nn + 1 : Sums(h)[n] = Plus(Sums(f)[n], Sums(g)[n])
  <1> DEFINE T == {n \in 0 .. nn + 1 : Sums(h)[n] = Plus(Sums(f)[n], Sums(g)[n])}
             K == nn + 1
  <1>1. K \in Nat /\ nn \in Nat
    BY Sizes
  <1>2. 0 \in T
    <2>1. 0 \in 0 .. nn + 1
      BY <1>1
    <2>2. Sums(h)[0] = {} /\ Sums(f)[0] = {} /\ Sums(g)[0] = {}
      BY SumsStep
    <2> QED
      BY <2>1, <2>2, PlusRules
  <1>3. ASSUME NEW n \in 0 .. K - 1, n \in T
        PROVE  n + 1 \in T
    <2>1. n \in 0 .. nn /\ n + 1 \in 0 .. nn + 1
      BY <1>1
    <2>2. /\ Sums(h)[n + 1] = Plus(Sums(h)[n], Term(h, n))
          /\ Sums(f)[n + 1] = Plus(Sums(f)[n], Term(f, n))
          /\ Sums(g)[n + 1] = Plus(Sums(g)[n], Term(g, n))
      BY <2>1, SumsStep
    <2>3. /\ Sums(h)[n] = Plus(Sums(f)[n], Sums(g)[n])
          /\ Term(h, n) = Plus(Term(f, n), Term(g, n))
      BY <1>3, <2>1
    <2> QED
      BY <2>1, <2>2, <2>3, PlusPairs
  <1>4. \A n \in 0 .. K - 1 : n \in T => n + 1 \in T
    BY <1>3
  <1> HIDE DEF T, K
  <1>5. \A n \in 0 .. K : n \in T
    BY <1>1, <1>2, <1>4, Upwards
  <1> QED
    BY <1>5 DEF T, K

(* Sums of the same terms, up to a place, are the same. *)
LEMMA SumsAgree ==
  ASSUME NEW f, NEW g, IsTerms(f), IsTerms(g), NEW m \in 0 .. nn + 1,
         \A n \in 0 .. m - 1 : Term(f, n) = Term(g, n)
  PROVE  Sums(f)[m] = Sums(g)[m]
  <1> DEFINE T == {n \in 0 .. m : Sums(f)[n] = Sums(g)[n]}
  <1>1. m \in Nat /\ nn \in Nat
    BY Sizes
  <1>2. 0 \in T
    BY <1>1, SumsStep
  <1>3. ASSUME NEW n \in 0 .. m - 1, n \in T
        PROVE  n + 1 \in T
    <2>1. n \in 0 .. nn /\ n + 1 \in 0 .. m
      BY <1>1
    <2>2. /\ Sums(f)[n + 1] = Plus(Sums(f)[n], Term(f, n))
          /\ Sums(g)[n + 1] = Plus(Sums(g)[n], Term(g, n))
      BY <2>1, SumsStep
    <2> QED
      BY <1>3, <2>1, <2>2
  <1>4. \A n \in 0 .. m - 1 : n \in T => n + 1 \in T
    BY <1>3
  <1> HIDE DEF T
  <1>5. \A n \in 0 .. m : n \in T
    BY <1>1, <1>2, <1>4, Upwards
  <1> QED
    BY <1>1, <1>5 DEF T

(* Terms that are 0 add nothing. *)
LEMMA SumsEnd ==
  ASSUME NEW f, IsTerms(f), NEW m \in 0 .. nn + 1,
         \A n \in m .. nn : Term(f, n) = {}
  PROVE  \A n \in m .. nn + 1 : Sums(f)[n] = Sums(f)[m]
  <1> DEFINE K == nn + 1 - m
             T == {k \in 0 .. K : Sums(f)[m + k] = Sums(f)[m]}
  <1>1. m \in Nat /\ nn \in Nat /\ K \in Nat
    BY Sizes
  <1>2. 0 \in T
    BY <1>1
  <1>3. ASSUME NEW k \in 0 .. K - 1, k \in T
        PROVE  k + 1 \in T
    <2>1. m + k \in 0 .. nn /\ m + k \in m .. nn /\ k + 1 \in 0 .. K /\ m + (k + 1) = (m + k) + 1
      BY <1>1
    <2>2. Sums(f)[(m + k) + 1] = Plus(Sums(f)[m + k], Term(f, m + k))
      BY <2>1, SumsStep
    <2>3. Term(f, m + k) = {}
      BY <2>1
    <2> QED
      BY <1>3, <2>1, <2>2, <2>3, PlusRules
  <1>4. \A k \in 0 .. K - 1 : k \in T => k + 1 \in T
    BY <1>3
  <1> HIDE DEF T
  <1>5. \A k \in 0 .. K : k \in T
    BY <1>1, <1>2, <1>4, Upwards DEF K
  <1>6. ASSUME NEW n \in m .. nn + 1
        PROVE  Sums(f)[n] = Sums(f)[m]
    <2>1. n - m \in 0 .. K /\ m + (n - m) = n
      BY <1>1
    <2> QED
      BY <1>5, <2>1 DEF T
  <1> QED
    BY <1>6

(* Moving all terms up by one place moves the sums with them. *)
LEMMA SumsShift ==
  ASSUME NEW f, NEW g, IsTerms(f), IsTerms(g),
         Term(f, 0) = {}, \A n \in 0 .. nn - 1 : Term(f, n + 1) = Term(g, n)
  PROVE  \A n \in 0 .. nn : Sums(f)[n + 1] = Sums(g)[n]
  <1> DEFINE T == {n \in 0 .. nn : Sums(f)[n + 1] = Sums(g)[n]}
  <1>1. nn \in Nat
    BY Sizes
  <1>2. 0 \in T
    <2>1. Sums(f)[0 + 1] = Plus(Sums(f)[0], Term(f, 0)) /\ Sums(f)[0] = {} /\ Sums(g)[0] = {}
      BY <1>1, SumsStep
    <2> QED
      BY <1>1, <2>1, PlusRules
  <1>3. ASSUME NEW n \in 0 .. nn - 1, n \in T
        PROVE  n + 1 \in T
    <2>1. n \in 0 .. nn /\ n + 1 \in 0 .. nn
      BY <1>1
    <2>2. /\ Sums(f)[(n + 1) + 1] = Plus(Sums(f)[n + 1], Term(f, n + 1))
          /\ Sums(g)[n + 1] = Plus(Sums(g)[n], Term(g, n))
      BY <2>1, SumsStep
    <2>3. Term(f, n + 1) = Term(g, n)
      BY <1>3
    <2> QED
      BY <1>3, <2>1, <2>2, <2>3
  <1>4. \A n \in 0 .. nn - 1 : n \in T => n + 1 \in T
    BY <1>3
  <1> HIDE DEF T
  <1>5. \A n \in 0 .. nn : n \in T
    BY <1>1, <1>2, <1>4, Upwards
  <1> QED
    BY <1>5 DEF T

-----------------------------------------------------------------------------
(* The field: logarithms and multiplication *)

LEMMA Unit == {} \in Symbols /\ {0} \in Symbols /\ {0} # {}
  BY Sizes DEF Symbols, Bits

(* Which bits the next power has. *)
LEMMA NextPowerBits ==
  ASSUME NEW x \in Symbols, NEW k \in Bits
  PROVE  k \in NextPower(x) <=> ~(k - 1 \in x <=> (SymSize - 1 \in x /\ k \in GFPoly))
  <1> DEFINE twice == {bit + 1 : bit \in x}
  <1>1. x \subseteq Bits /\ SymSize \in Nat \ {0} /\ Bits = 0 .. SymSize - 1
    BY Sizes DEF Symbols, Bits
  <1>2. \A j \in Int : j \in twice <=> j - 1 \in x
    BY <1>1
  <1>3. SymSize \in twice <=> SymSize - 1 \in x
    BY <1>1, <1>2
  <1>4. k \in twice <=> k - 1 \in x
    BY <1>1, <1>2
  <1>5. NextPower(x) = (IF SymSize \in twice THEN Plus(twice, GFPoly) ELSE twice) \cap Bits
    BY DEF NextPower
  <1> HIDE DEF twice
  <1>6. k \in Plus(twice, GFPoly) <=> ~(k \in twice <=> k \in GFPoly)
    BY DEF Plus, SymDiff
  <1> QED
    BY <1>3, <1>4, <1>5, <1>6

LEMMA NextPowerType ==
  ASSUME NEW x
  PROVE  NextPower(x) \in Symbols
  BY DEF NextPower, Symbols

(* rs_init's step is linear. *)
LEMMA NextPowerLinear ==
  ASSUME NEW x \in Symbols, NEW y \in Symbols
  PROVE  NextPower(Plus(x, y)) = Plus(NextPower(x), NextPower(y))
  <1>1. Plus(x, y) \in Symbols
    BY PlusType
  <1>2. NextPower(Plus(x, y)) \subseteq Bits /\ Plus(NextPower(x), NextPower(y)) \subseteq Bits
    BY NextPowerType, PlusType DEF Symbols
  <1>3. ASSUME NEW k \in Bits
        PROVE  k \in NextPower(Plus(x, y)) <=> k \in Plus(NextPower(x), NextPower(y))
    <2>1. /\ k \in NextPower(Plus(x, y)) <=>
               ~(k - 1 \in Plus(x, y) <=> (SymSize - 1 \in Plus(x, y) /\ k \in GFPoly))
          /\ k \in NextPower(x) <=> ~(k - 1 \in x <=> (SymSize - 1 \in x /\ k \in GFPoly))
          /\ k \in NextPower(y) <=> ~(k - 1 \in y <=> (SymSize - 1 \in y /\ k \in GFPoly))
      BY <1>1, NextPowerBits
    <2>2. \A j : j \in Plus(x, y) <=> ~(j \in x <=> j \in y)
      BY DEF Plus, SymDiff
    <2>3. k \in Plus(NextPower(x), NextPower(y)) <=> ~(k \in NextPower(x) <=> k \in NextPower(y))
      BY DEF Plus, SymDiff
    <2> QED
      BY <2>1, <2>2, <2>3
  <1> QED
    BY <1>2, <1>3

LEMMA NextPowerZero == NextPower({}) = {}
  BY NextPowerType, NextPowerLinear, PlusRules, Unit

LEMMA PowerStep ==
  /\ Power[0] = {0}
  /\ \A i \in 0 .. nn - 1 : Power[i + 1] = NextPower(Power[i])
  /\ \A i \in 0 .. nn : Power[i] \in Symbols
  <1> DEFINE F(g) == [i \in 0 .. nn |-> IF i = 0 THEN {0} ELSE NextPower(g[i - 1])]
             step == [n \in 1 .. nn |-> [x \in Symbols |-> NextPower(x)]]
  <1>1. nn \in Nat
    BY Sizes
  <1>2. AreSteps(nn, Symbols, step)
    BY NextPowerType DEF AreSteps
  <1>3. PICK g : Recurs(g, nn, Symbols, {0}, step)
    <2> HIDE DEF step
    <2> QED
      BY <1>1, <1>2, Unit, RecursionExists
  <1>4. g = F(g)
    <2> SUFFICES ASSUME NEW n \in 0 .. nn
                 PROVE  g[n] = IF n = 0 THEN {0} ELSE NextPower(g[n - 1])
      BY <1>3 DEF Recurs
    <2>1. CASE n # 0
      <3>1. n \in 1 .. nn /\ n - 1 \in 0 .. nn
        BY <1>1, <2>1
      <3>2. g[n - 1] \in Symbols /\ g[n] = step[n][g[n - 1]]
        BY <1>3, <3>1 DEF Recurs
      <3> QED
        BY <2>1, <3>1, <3>2
    <2> QED
      BY <1>3, <2>1 DEF Recurs
  <1>5. Power = CHOOSE h : h = F(h)
    BY DEF Power
  <1> HIDE DEF F
  <1>6. Power = F(Power)
    BY <1>4, <1>5
  <1>7. Power = [i \in 0 .. nn |-> IF i = 0 THEN {0} ELSE NextPower(Power[i - 1])]
    BY <1>6 DEF F
  <1>8. Power[0] = {0}
    BY <1>1, <1>7
  <1>9. ASSUME NEW i \in 0 .. nn - 1
        PROVE  Power[i + 1] = NextPower(Power[i])
    <2>1. i + 1 \in 0 .. nn /\ i + 1 # 0 /\ (i + 1) - 1 = i
      BY <1>1
    <2> QED
      BY <1>7, <2>1
  <1>10. ASSUME NEW i \in 0 .. nn
         PROVE  Power[i] \in Symbols
    <2>1. CASE i = 0
      BY <1>8, <2>1, Unit
    <2>2. CASE i # 0
      <3>1. Power[i] = NextPower(Power[i - 1])
        BY <1>7, <2>2
      <3> QED
        BY <3>1, NextPowerType
    <2> QED
      BY <2>1, <2>2
  <1> QED
    BY <1>8, <1>9, <1>10

(* A power that were 0 would be followed by 0 for ever. *)
LEMMA PowerNotZero == \A i \in 0 .. nn : Power[i] # {}
  <1> SUFFICES ASSUME NEW i \in 0 .. nn, Power[i] = {} PROVE FALSE
    OBVIOUS
  <1> DEFINE K == nn - i
             T == {k \in 0 .. K : Power[i + k] = {}}
  <1>1. i \in Nat /\ nn \in Nat /\ K \in Nat
    BY Sizes
  <1>2. 0 \in T
    BY <1>1
  <1>3. ASSUME NEW k \in 0 .. K - 1, k \in T
        PROVE  k + 1 \in T
    <2>1. i + k \in 0 .. nn - 1 /\ k + 1 \in 0 .. K /\ i + (k + 1) = (i + k) + 1
      BY <1>1
    <2> QED
      BY <1>3, <2>1, PowerStep, NextPowerZero
  <1>4. \A k \in 0 .. K - 1 : k \in T => k + 1 \in T
    BY <1>3
  <1>5. i + K = nn
    BY <1>1
  <1> HIDE DEF T, K
  <1>6. K \in T
    <2>1. \A k \in 0 .. K : k \in T
      BY <1>1, <1>2, <1>4, Upwards
    <2> QED
      BY <1>1, <2>1
  <1>7. Power[nn] = {}
    BY <1>5, <1>6 DEF T
  <1> QED
    BY <1>7, ReedSolomonAssumption

(* Division with remainder. *)
LEMMA Divide ==
  ASSUME NEW w \in Nat \ {0}, NEW x \in Int
  PROVE  x = w * (x \div w) + (x % w) /\ x \div w \in Int /\ x % w \in 0 .. w - 1
  OBVIOUS

LEMMA OneRemainder ==
  ASSUME NEW w \in Nat \ {0}, NEW q \in Int, NEW k \in 0 .. w - 1,
         NEW p \in Int, NEW m \in 0 .. w - 1, w * q + k = w * p + m
  PROVE  k = m
  <1>1. w * q \in Int /\ w * p \in Int /\ w * (q + 1) = w * q + w /\ w * (p + 1) = w * p + w
    OBVIOUS
  <1>2. CASE q = p
    BY <1>2
  <1>3. CASE q < p
    <2>1. w * p >= w * (q + 1)
      BY <1>3
    <2> QED
      BY <1>1, <2>1
  <1>4. CASE p < q
    <2>1. w * q >= w * (p + 1)
      BY <1>4
    <2> QED
      BY <1>1, <2>1
  <1> QED
    BY <1>2, <1>3, <1>4

LEMMA RemainderOf ==
  ASSUME NEW w \in Nat \ {0}, NEW q \in Int, NEW k \in 0 .. w - 1
  PROVE  (w * q + k) % w = k
  <1>1. w * q + k \in Int
    OBVIOUS
  <1> QED
    BY <1>1, Divide, OneRemainder

LEMMA NextRemainder ==
  ASSUME NEW w \in Nat \ {0}, NEW x \in Int
  PROVE  (x + 1) % w = IF x % w = w - 1 THEN 0 ELSE (x % w) + 1
  <1> DEFINE q == x \div w
             k == x % w
  <1>1. x = w * q + k /\ q \in Int /\ k \in 0 .. w - 1 /\ w * q \in Int
    BY Divide
  <1> HIDE DEF q, k
  <1>2. CASE k = w - 1
    <2>1. w * (q + 1) = w * q + w /\ q + 1 \in Int /\ 0 \in 0 .. w - 1
      BY <1>1
    <2>2. x + 1 = w * (q + 1) + 0
      BY <1>1, <1>2, <2>1
    <2>3. (w * (q + 1) + 0) % w = 0
      BY <2>1, RemainderOf
    <2> QED
      BY <1>2, <2>2, <2>3 DEF k
  <1>3. CASE k # w - 1
    <2>1. x + 1 = w * q + (k + 1) /\ k + 1 \in 0 .. w - 1
      BY <1>1, <1>3
    <2>2. (w * q + (k + 1)) % w = k + 1
      BY <1>1, <2>1, RemainderOf
    <2> QED
      BY <1>3, <2>1, <2>2 DEF k
  <1> QED
    BY <1>2, <1>3

(* The logarithm of a sum of logarithms needs no reduction in between. *)
LEMMA ExpStep ==
  ASSUME NEW n \in Nat
  PROVE  /\ Exp(n) \in Symbols \ {{}}
         /\ Exp(n) = Power[n % nn] /\ n % nn \in 0 .. nn - 1
         /\ Exp(n + 1) = NextPower(Exp(n))
  <1>1. nn \in Nat \ {0} /\ n \in Int
    BY Sizes
  <1>2. /\ n % nn \in 0 .. nn - 1 /\ (n + 1) % nn \in 0 .. nn - 1
        /\ (n + 1) % nn = IF n % nn = nn - 1 THEN 0 ELSE (n % nn) + 1
    <2>1. n % nn \in 0 .. nn - 1
      BY <1>1, Divide
    <2>2. (n + 1) % nn = IF n % nn = nn - 1 THEN 0 ELSE (n % nn) + 1
      BY <1>1, NextRemainder
    <2> QED
      BY <1>1, <2>1, <2>2
  <1>3. \A i \in 0 .. nn - 1 : alpha_to[i] = Power[i]
    BY <1>1 DEF alpha_to
  <1>4. Exp(n) = Power[n % nn] /\ Exp(n + 1) = Power[(n + 1) % nn]
    BY <1>2, <1>3 DEF Exp
  <1>5. n % nn \in 0 .. nn
    BY <1>1, <1>2
  <1>6. Exp(n) \in Symbols \ {{}}
    BY <1>4, <1>5, PowerStep, PowerNotZero
  <1>7. Power[(n % nn) + 1] = NextPower(Power[n % nn])
    BY <1>2, PowerStep
  <1>8. Exp(n + 1) = NextPower(Exp(n))
    <2>1. CASE n % nn = nn - 1
      <3>1. Power[(n % nn) + 1] = {0}
        <4>1. (n % nn) + 1 = nn
          BY <1>1, <2>1
        <4> QED
          BY <4>1, ReedSolomonAssumption
      <3>2. Exp(n + 1) = {0}
        BY <1>2, <1>4, <2>1, PowerStep
      <3> QED
        BY <1>4, <1>7, <3>1, <3>2
    <2>2. CASE n % nn # nn - 1
      BY <1>2, <1>4, <1>7, <2>2
    <2> QED
      BY <2>1, <2>2
  <1> QED
    BY <1>2, <1>4, <1>6, <1>8

(* Every symbol but 0 has a logarithm. *)
LEMMA IndexOf ==
  ASSUME NEW x \in Symbols \ {{}}
  PROVE  index_of[x] \in 0 .. nn - 1 /\ index_of[x] \in Nat /\ Exp(index_of[x]) = x
  <1>1. nn \in Nat \ {0}
    BY Sizes
  <1>2. PICK i \in 0 .. nn - 1 : Power[i] = x
    BY ReedSolomonAssumption
  <1>3. \A j \in 0 .. nn : alpha_to[j] = IF j = nn THEN {} ELSE Power[j]
    BY DEF alpha_to
  <1>4. i \in 0 .. nn /\ alpha_to[i] = x
    BY <1>1, <1>2, <1>3
  <1>5. index_of[x] = CHOOSE j \in 0 .. nn : alpha_to[j] = x
    BY DEF index_of
  <1>6. index_of[x] \in 0 .. nn /\ alpha_to[index_of[x]] = x
    BY <1>4, <1>5
  <1>7. index_of[x] \in 0 .. nn - 1
    BY <1>1, <1>3, <1>6
  <1>8. index_of[x] % nn = index_of[x]
    BY <1>1, <1>7
  <1> QED
    BY <1>6, <1>7, <1>8 DEF Exp

(* Two logarithms of the same symbol stay so when a number is added. *)
LEMMA SameExp ==
  ASSUME NEW i \in Nat, NEW j \in Nat, Exp(i) = Exp(j), NEW k \in Nat
  PROVE  Exp(i + k) = Exp(j + k)
  <1> DEFINE T == {n \in 0 .. k : Exp(i + n) = Exp(j + n)}
  <1>1. 0 \in T
    OBVIOUS
  <1>2. ASSUME NEW n \in 0 .. k - 1, n \in T
        PROVE  n + 1 \in T
    <2>1. /\ i + n \in Nat /\ j + n \in Nat /\ n + 1 \in 0 .. k
          /\ i + (n + 1) = (i + n) + 1 /\ j + (n + 1) = (j + n) + 1
      OBVIOUS
    <2> QED
      BY <1>2, <2>1, ExpStep
  <1>3. \A n \in 0 .. k - 1 : n \in T => n + 1 \in T
    BY <1>2
  <1> HIDE DEF T
  <1>4. \A n \in 0 .. k : n \in T
    BY <1>1, <1>3, Upwards
  <1> QED
    BY <1>4 DEF T

(* A product of powers is the power of the sum. *)
LEMMA MulExp ==
  ASSUME NEW i \in Nat, NEW j \in Nat
  PROVE  Mul(Exp(i), Exp(j)) = Exp(i + j)
  <1> DEFINE x == Exp(i)
             y == Exp(j)
  <1>1. x \in Symbols \ {{}} /\ y \in Symbols \ {{}}
    BY ExpStep
  <1>2. Mul(x, y) = Exp(index_of[x] + index_of[y])
    BY <1>1 DEF Mul
  <1>3. /\ index_of[x] \in Nat /\ index_of[y] \in Nat
        /\ Exp(index_of[x]) = Exp(i) /\ Exp(index_of[y]) = Exp(j)
    BY <1>1, IndexOf
  <1>4. Exp(index_of[x] + index_of[y]) = Exp(i + index_of[y])
    BY <1>3, SameExp
  <1>5. Exp(index_of[y] + i) = Exp(j + i)
    BY <1>3, SameExp
  <1>6. i + index_of[y] = index_of[y] + i /\ i + j = j + i
    BY <1>3
  <1> QED
    BY <1>2, <1>4, <1>5, <1>6

LEMMA MulZero ==
  ASSUME NEW x \in Symbols
  PROVE  Mul(x, {}) = {} /\ Mul({}, x) = {}
  BY Unit DEF Mul

LEMMA MulType ==
  ASSUME NEW x \in Symbols, NEW y \in Symbols
  PROVE  Mul(x, y) \in Symbols
  <1>1. CASE x = {} \/ y = {}
    BY <1>1, MulZero, Unit
  <1>2. CASE x # {} /\ y # {}
    <2>1. Mul(x, y) = Exp(index_of[x] + index_of[y])
      BY <1>2 DEF Mul
    <2>2. index_of[x] + index_of[y] \in Nat
      BY <1>2, IndexOf
    <2> QED
      BY <2>1, <2>2, ExpStep
  <1> QED
    BY <1>1, <1>2

LEMMA ExpZero == Exp(0) = {0}
  <1>1. nn \in Nat \ {0} /\ 0 % nn = 0
    BY Sizes
  <1> QED
    BY <1>1, ExpStep, PowerStep

LEMMA MulUnit ==
  ASSUME NEW x \in Symbols
  PROVE  Mul({0}, x) = x /\ Mul(x, {0}) = x
  <1>1. CASE x = {}
    BY <1>1, MulZero, Unit
  <1>2. CASE x # {}
    <2>1. PICK k \in Nat : Exp(k) = x
      BY <1>2, IndexOf
    <2>2. Mul(Exp(0), Exp(k)) = Exp(k) /\ Mul(Exp(k), Exp(0)) = Exp(k)
      BY MulExp
    <2> QED
      BY <2>1, <2>2, ExpZero
  <1> QED
    BY <1>1, <1>2

LEMMA MulCommutes ==
  ASSUME NEW x \in Symbols, NEW y \in Symbols
  PROVE  Mul(x, y) = Mul(y, x)
  <1>1. CASE x = {} \/ y = {}
    BY <1>1, MulZero
  <1>2. CASE x # {} /\ y # {}
    <2>1. PICK i \in Nat : Exp(i) = x
      BY <1>2, IndexOf
    <2>2. PICK j \in Nat : Exp(j) = y
      BY <1>2, IndexOf
    <2>3. i + j = j + i
      OBVIOUS
    <2> QED
      BY <2>1, <2>2, <2>3, MulExp
  <1> QED
    BY <1>1, <1>2

LEMMA MulAssociates ==
  ASSUME NEW x \in Symbols, NEW y \in Symbols, NEW z \in Symbols
  PROVE  Mul(Mul(x, y), z) = Mul(x, Mul(y, z))
  <1>1. CASE x = {} \/ y = {} \/ z = {}
    <2>1. Mul(x, y) \in Symbols /\ Mul(y, z) \in Symbols
      BY MulType
    <2>2. CASE x = {}
      BY <2>1, <2>2, MulZero
    <2>3. CASE y = {}
      BY <2>3, MulZero
    <2>4. CASE z = {}
      BY <2>1, <2>4, MulZero
    <2> QED
      BY <1>1, <2>2, <2>3, <2>4
  <1>2. CASE x # {} /\ y # {} /\ z # {}
    <2>1. PICK i \in Nat : Exp(i) = x
      BY <1>2, IndexOf
    <2>2. PICK j \in Nat : Exp(j) = y
      BY <1>2, IndexOf
    <2>3. PICK k \in Nat : Exp(k) = z
      BY <1>2, IndexOf
    <2>4. i + j \in Nat /\ j + k \in Nat /\ (i + j) + k = i + (j + k)
      OBVIOUS
    <2>5. Mul(Exp(i + j), Exp(k)) = Exp((i + j) + k) /\ Mul(Exp(i), Exp(j + k)) = Exp(i + (j + k))
      BY <2>4, MulExp
    <2>6. Mul(x, y) = Exp(i + j) /\ Mul(y, z) = Exp(j + k)
      BY <2>1, <2>2, <2>3, MulExp
    <2> QED
      BY <2>1, <2>3, <2>4, <2>5, <2>6
  <1> QED
    BY <1>1, <1>2

(* Multiplication by a power is so many steps of rs_init. *)
LEMMA MulNextPower ==
  ASSUME NEW k \in Nat, NEW x \in Symbols
  PROVE  Mul(Exp(k + 1), x) = NextPower(Mul(Exp(k), x))
  <1>1. Exp(k) \in Symbols /\ Exp(k + 1) \in Symbols
    BY ExpStep
  <1>2. CASE x = {}
    BY <1>1, <1>2, MulZero, NextPowerZero
  <1>3. CASE x # {}
    <2>1. PICK i \in Nat : Exp(i) = x
      BY <1>3, IndexOf
    <2>2. k + 1 \in Nat /\ k + i \in Nat /\ (k + 1) + i = (k + i) + 1
      OBVIOUS
    <2> QED
      BY <2>1, <2>2, MulExp, ExpStep
  <1> QED
    BY <1>2, <1>3

LEMMA Distributes ==
  ASSUME NEW c \in Symbols, NEW x \in Symbols, NEW y \in Symbols
  PROVE  Mul(c, Plus(x, y)) = Plus(Mul(c, x), Mul(c, y))
  <1>1. Plus(x, y) \in Symbols
    BY PlusType
  <1>2. CASE c = {}
    BY <1>1, <1>2, MulZero, PlusRules
  <1>3. CASE c # {}
    <2>1. PICK k \in Nat : Exp(k) = c
      BY <1>3, IndexOf
    <2> DEFINE T == {n \in 0 .. k : Mul(Exp(n), Plus(x, y)) = Plus(Mul(Exp(n), x), Mul(Exp(n), y))}
    <2>2. 0 \in T
      <3>1. Mul(Exp(0), Plus(x, y)) = Plus(x, y) /\ Mul(Exp(0), x) = x /\ Mul(Exp(0), y) = y
        BY <1>1, ExpZero, MulUnit
      <3> QED
        BY <3>1
    <2>3. ASSUME NEW n \in 0 .. k - 1, n \in T
          PROVE  n + 1 \in T
      <3>1. n \in Nat /\ n + 1 \in 0 .. k
        OBVIOUS
      <3>2. Mul(Exp(n), Plus(x, y)) = Plus(Mul(Exp(n), x), Mul(Exp(n), y))
        BY <2>3
      <3>3. Mul(Exp(n), x) \in Symbols /\ Mul(Exp(n), y) \in Symbols
        BY <3>1, ExpStep, MulType
      <3>4. /\ Mul(Exp(n + 1), Plus(x, y)) = NextPower(Mul(Exp(n), Plus(x, y)))
            /\ Mul(Exp(n + 1), x) = NextPower(Mul(Exp(n), x))
            /\ Mul(Exp(n + 1), y) = NextPower(Mul(Exp(n), y))
        BY <1>1, <3>1, MulNextPower
      <3>5. NextPower(Plus(Mul(Exp(n), x), Mul(Exp(n), y))) =
              Plus(NextPower(Mul(Exp(n), x)), NextPower(Mul(Exp(n), y)))
        BY <3>3, NextPowerLinear
      <3> QED
        BY <3>1, <3>2, <3>4, <3>5
    <2>4. \A n \in 0 .. k - 1 : n \in T => n + 1 \in T
      BY <2>3
    <2> HIDE DEF T
    <2>5. \A n \in 0 .. k : n \in T
      BY <2>2, <2>4, Upwards
    <2> QED
      BY <2>1, <2>5 DEF T
  <1> QED
    BY <1>2, <1>3

LEMMA DistributesRight ==
  ASSUME NEW c \in Symbols, NEW x \in Symbols, NEW y \in Symbols
  PROVE  Mul(Plus(x, y), c) = Plus(Mul(x, c), Mul(y, c))
  <1>1. Plus(x, y) \in Symbols
    BY PlusType
  <1>2. Mul(Plus(x, y), c) = Mul(c, Plus(x, y)) /\ Mul(x, c) = Mul(c, x) /\ Mul(y, c) = Mul(c, y)
    BY <1>1, MulCommutes
  <1> QED
    BY <1>2, Distributes

LEMMA ReciprocalOf ==
  ASSUME NEW x \in Symbols \ {{}}
  PROVE  Reciprocal(x) \in Symbols \ {{}} /\ Mul(x, Reciprocal(x)) = {0}
  <1> DEFINE i == index_of[x]
  <1>1. nn \in Nat \ {0} /\ i \in 0 .. nn - 1 /\ i \in Nat /\ Exp(i) = x
    BY Sizes, IndexOf
  <1>2. nn - i \in Nat /\ i + (nn - i) = nn /\ nn % nn = 0 /\ 0 % nn = 0
    BY <1>1
  <1>3. Reciprocal(x) = Exp(nn - i)
    BY DEF Reciprocal
  <1>4. Mul(Exp(i), Exp(nn - i)) = Exp(nn)
    BY <1>1, <1>2, MulExp
  <1>5. Exp(nn) = Exp(0)
    BY <1>2 DEF Exp
  <1> QED
    BY <1>1, <1>2, <1>3, <1>4, <1>5, ExpZero, ExpStep

(* A factor of every term is a factor of the sum. *)
LEMMA SumsTimes ==
  ASSUME NEW f, NEW g, NEW c \in Symbols, IsTerms(f), IsTerms(g),
         \A n \in 0 .. nn : Term(g, n) = Mul(c, Term(f, n))
  PROVE  \A n \in 0 .. nn + 1 : Sums(g)[n] = Mul(c, Sums(f)[n])
  <1> DEFINE T == {n \in 0 .. nn + 1 : Sums(g)[n] = Mul(c, Sums(f)[n])}
             K == nn + 1
  <1>1. K \in Nat /\ nn \in Nat
    BY Sizes
  <1>2. 0 \in T
    <2>1. 0 \in 0 .. nn + 1
      BY <1>1
    <2>2. Sums(g)[0] = {} /\ Sums(f)[0] = {}
      BY SumsStep
    <2> QED
      BY <2>1, <2>2, MulZero
  <1>3. ASSUME NEW n \in 0 .. K - 1, n \in T
        PROVE  n + 1 \in T
    <2>1. n \in 0 .. nn /\ n \in 0 .. nn + 1 /\ n + 1 \in 0 .. nn + 1
      BY <1>1
    <2>2. /\ Sums(g)[n + 1] = Plus(Sums(g)[n], Term(g, n))
          /\ Sums(f)[n + 1] = Plus(Sums(f)[n], Term(f, n))
          /\ Sums(f)[n] \in Symbols
      BY <2>1, SumsStep
    <2>3. Sums(g)[n] = Mul(c, Sums(f)[n]) /\ Term(g, n) = Mul(c, Term(f, n))
      BY <1>3, <2>1
    <2>4. Term(f, n) \in Symbols
      BY <2>1 DEF IsTerms
    <2> QED
      BY <2>1, <2>2, <2>3, <2>4, Distributes
  <1>4. \A n \in 0 .. K - 1 : n \in T => n + 1 \in T
    BY <1>3
  <1> HIDE DEF T, K
  <1>5. \A n \in 0 .. K : n \in T
    BY <1>1, <1>2, <1>4, Upwards
  <1> QED
    BY <1>5 DEF T, K

-----------------------------------------------------------------------------
(* The discrepancy of a polynomial at a syndrome *)

Polynomials == [0 .. NRoots -> Symbols]
SyndromeLists == [0 .. NRoots - 1 -> Symbols]

Products(p, q, n) == [i \in 0 .. n |-> Mul(p[i], q[n - i])]
Disc(p, q, n) == PlusAll(Products(p, q, n))

LEMMA ProductTerms ==
  ASSUME NEW p \in Polynomials, NEW q \in SyndromeLists, NEW n \in 0 .. NRoots - 1
  PROVE  /\ \A i \in 0 .. nn : Term(Products(p, q, n), i) = IF i <= n THEN Mul(p[i], q[n - i]) ELSE {}
         /\ \A i \in 0 .. n : p[i] \in Symbols /\ q[n - i] \in Symbols
         /\ IsTerms(Products(p, q, n))
         /\ Disc(p, q, n) \in Symbols
  <1>1. nn \in Nat /\ NRoots \in Nat \ {0} /\ NRoots < nn
    BY Sizes, ReedSolomonAssumption
  <1>2. \A i \in 0 .. n : p[i] \in Symbols /\ q[n - i] \in Symbols
    <2> TAKE i \in 0 .. n
    <2>1. i \in 0 .. NRoots /\ n - i \in 0 .. NRoots - 1
      BY <1>1
    <2> QED
      BY <2>1 DEF Polynomials, SyndromeLists
  <1>3. ASSUME NEW i \in 0 .. nn
        PROVE  Term(Products(p, q, n), i) = IF i <= n THEN Mul(p[i], q[n - i]) ELSE {}
    <2>1. DOMAIN Products(p, q, n) = 0 .. n /\ (i \in 0 .. n <=> i <= n)
      BY DEF Products
    <2>2. i \in 0 .. n => Products(p, q, n)[i] = Mul(p[i], q[n - i])
      BY DEF Products
    <2> QED
      BY <2>1, <2>2 DEF Term
  <1>4. IsTerms(Products(p, q, n))
    <2> SUFFICES ASSUME NEW i \in 0 .. nn PROVE Term(Products(p, q, n), i) \in Symbols
      BY DEF IsTerms
    <2>1. CASE i <= n
      <3>1. i \in 0 .. n
        BY <2>1
      <3>2. Mul(p[i], q[n - i]) \in Symbols
        BY <1>2, <3>1, MulType
      <3> QED
        BY <1>3, <2>1, <3>2
    <2>2. CASE ~(i <= n)
      BY <1>3, <2>2, Unit
    <2> QED
      BY <2>1, <2>2
  <1>5. nn + 1 \in 0 .. nn + 1
    BY <1>1
  <1>6. Disc(p, q, n) \in Symbols
    BY <1>4, <1>5, SumsStep DEF Disc, PlusAll
  <1> QED
    BY <1>2, <1>3, <1>4, <1>6

(* The discrepancy is linear in the polynomial. *)
LEMMA DiscPlus ==
  ASSUME NEW p \in Polynomials, NEW u \in Polynomials, NEW v \in Polynomials, NEW c \in Symbols,
         \A i \in 0 .. NRoots : v[i] = Plus(p[i], Mul(c, u[i])),
         NEW q \in SyndromeLists, NEW n \in 0 .. NRoots - 1
  PROVE  Disc(v, q, n) = Plus(Disc(p, q, n), Mul(c, Disc(u, q, n)))
  <1> DEFINE f == Products(p, q, n)
             g == Products(u, q, n)
             h == Products(v, q, n)
             k == [i \in 0 .. nn |-> Mul(c, Term(g, i))]
  <1>1. nn \in Nat /\ NRoots \in Nat /\ nn + 1 \in 0 .. nn + 1
    BY Sizes
  <1>2. IsTerms(f) /\ IsTerms(g) /\ IsTerms(h)
    BY ProductTerms
  <1>3. \A i \in 0 .. nn : Term(k, i) = Mul(c, Term(g, i))
    BY DEF Term
  <1>4. IsTerms(k)
    BY <1>2, <1>3, MulType DEF IsTerms
  <1>5. ASSUME NEW i \in 0 .. nn
        PROVE  Term(h, i) = Plus(Term(f, i), Term(k, i))
    <2>1. CASE i <= n
      <3>1. i \in 0 .. n /\ i \in 0 .. NRoots
        BY <1>1, <2>1
      <3> DEFINE y == q[n - i]
      <3>2. p[i] \in Symbols /\ u[i] \in Symbols /\ y \in Symbols /\ Mul(c, u[i]) \in Symbols
        BY <3>1, ProductTerms, MulType
      <3>3. Mul(v[i], y) = Mul(y, Plus(p[i], Mul(c, u[i])))
        BY <3>1, <3>2, PlusType, MulCommutes
      <3>4. Mul(y, Plus(p[i], Mul(c, u[i]))) = Plus(Mul(y, p[i]), Mul(y, Mul(c, u[i])))
        BY <3>2, Distributes
      <3>5. Mul(y, p[i]) = Mul(p[i], y)
        BY <3>2, MulCommutes
      <3>6. Mul(y, Mul(c, u[i])) = Mul(c, Mul(u[i], y))
        BY <3>2, MulCommutes, MulAssociates
      <3>7. Term(h, i) = Mul(v[i], y) /\ Term(f, i) = Mul(p[i], y) /\ Term(g, i) = Mul(u[i], y)
        BY <2>1, ProductTerms
      <3> QED
        BY <1>3, <3>3, <3>4, <3>5, <3>6, <3>7
    <2>2. CASE ~(i <= n)
      <3>1. Term(h, i) = {} /\ Term(f, i) = {} /\ Term(g, i) = {}
        BY <2>2, ProductTerms
      <3>2. Term(k, i) = {}
        BY <1>3, <3>1, MulZero
      <3>3. Plus({}, {}) = {}
        BY PlusRules
      <3> QED
        BY <3>1, <3>2, <3>3
    <2> QED
      BY <2>1, <2>2
  <1> HIDE DEF f, g, h, k
  <1>6. Sums(h)[nn + 1] = Plus(Sums(f)[nn + 1], Sums(k)[nn + 1])
    BY <1>1, <1>2, <1>4, <1>5, SumsPlus
  <1>7. Sums(k)[nn + 1] = Mul(c, Sums(g)[nn + 1])
    BY <1>1, <1>2, <1>3, <1>4, SumsTimes
  <1> QED
    BY <1>6, <1>7 DEF f, g, h, Disc, PlusAll

LEMMA DiscTimes ==
  ASSUME NEW u \in Polynomials, NEW v \in Polynomials, NEW c \in Symbols,
         \A i \in 0 .. NRoots : v[i] = Mul(u[i], c),
         NEW q \in SyndromeLists, NEW n \in 0 .. NRoots - 1
  PROVE  Disc(v, q, n) = Mul(c, Disc(u, q, n))
  <1> DEFINE p == [i \in 0 .. NRoots |-> {}]
  <1>1. p \in Polynomials
    BY Unit DEF Polynomials
  <1>2. ASSUME NEW i \in 0 .. NRoots
        PROVE  v[i] = Plus(p[i], Mul(c, u[i]))
    <2>1. u[i] \in Symbols
      BY DEF Polynomials
    <2>2. v[i] = Mul(c, u[i])
      BY <2>1, MulCommutes
    <2>3. Plus({}, Mul(c, u[i])) = Mul(c, u[i])
      BY PlusRules
    <2> QED
      BY <2>2, <2>3
  <1>3. \A i \in 0 .. NRoots : p[i] = Plus(p[i], Mul({}, u[i]))
    <2> SUFFICES ASSUME NEW i \in 0 .. NRoots PROVE {} = Plus({}, Mul({}, u[i]))
      OBVIOUS
    <2>1. u[i] \in Symbols
      BY DEF Polynomials
    <2> QED
      BY <2>1, MulZero, PlusRules
  <1>4. \A i \in 0 .. NRoots : p[i] = Plus(p[i], Mul({0}, p[i]))
    <2> SUFFICES ASSUME NEW i \in 0 .. NRoots PROVE {} = Plus({}, Mul({0}, {}))
      OBVIOUS
    <2> QED
      BY Unit, MulZero, PlusRules
  <1> HIDE DEF p
  <1>5. Disc(v, q, n) = Plus(Disc(p, q, n), Mul(c, Disc(u, q, n)))
    BY <1>1, <1>2, DiscPlus
  <1>6. Disc(p, q, n) = {}
    <2>1. Disc(p, q, n) = Plus(Disc(p, q, n), Mul({0}, Disc(p, q, n)))
      BY <1>1, <1>4, Unit, DiscPlus
    <2>2. Disc(p, q, n) \in Symbols
      BY <1>1, ProductTerms
    <2>3. Mul({0}, Disc(p, q, n)) = Disc(p, q, n)
      BY <2>2, MulUnit
    <2> QED
      BY <2>1, <2>3, PlusRules
  <1> QED
    BY <1>5, <1>6, PlusRules

(* Multiplying the polynomial by x moves its discrepancies by one. *)
LEMMA DiscShift ==
  ASSUME NEW u \in Polynomials, NEW v \in Polynomials, v[0] = {},
         \A i \in 1 .. NRoots : v[i] = u[i - 1],
         NEW q \in SyndromeLists, NEW n \in 0 .. NRoots - 1
  PROVE  Disc(v, q, n) = IF n = 0 THEN {} ELSE Disc(u, q, n - 1)
  <1> DEFINE f == Products(v, q, n)
  <1>1. nn \in Nat \ {0} /\ NRoots \in Nat /\ NRoots < nn
    BY Sizes, ReedSolomonAssumption
  <1>2. /\ IsTerms(f)
        /\ \A i \in 0 .. nn : Term(f, i) = IF i <= n THEN Mul(v[i], q[n - i]) ELSE {}
    BY ProductTerms
  <1>3. Term(f, 0) = {}
    <2>1. q[n - 0] \in Symbols /\ 0 \in 0 .. nn /\ 0 <= n
      BY <1>1, ProductTerms
    <2> QED
      BY <1>2, <2>1, MulZero
  <1>4. CASE n = 0
    <2>1. \A i \in 0 .. nn : Term(f, i) = {}
      BY <1>2, <1>3, <1>4
    <2> HIDE DEF f
    <2>2. Sums(f)[nn + 1] = Sums(f)[0] /\ Sums(f)[0] = {}
      BY <1>1, <1>2, <2>1, SumsEnd, SumsStep
    <2> QED
      BY <1>4, <2>2 DEF f, Disc, PlusAll
  <1>5. CASE n # 0
    <2> DEFINE g == Products(u, q, n - 1)
    <2>1. n - 1 \in 0 .. NRoots - 1
      BY <1>1, <1>5
    <2>2. /\ IsTerms(g)
          /\ \A i \in 0 .. nn : Term(g, i) = IF i <= n - 1 THEN Mul(u[i], q[(n - 1) - i]) ELSE {}
      BY <2>1, ProductTerms
    <2>3. ASSUME NEW i \in 0 .. nn - 1
          PROVE  Term(f, i + 1) = Term(g, i)
      <3>1. i + 1 \in 0 .. nn /\ i \in 0 .. nn /\ n - (i + 1) = (n - 1) - i /\ (i + 1 <= n <=> i <= n - 1)
        BY <1>1
      <3>2. i + 1 <= n => v[i + 1] = u[i]
        <4> SUFFICES ASSUME i + 1 <= n PROVE v[i + 1] = u[i]
          OBVIOUS
        <4>1. i + 1 \in 1 .. NRoots /\ (i + 1) - 1 = i
          BY <1>1
        <4> QED
          BY <4>1
      <3> QED
        BY <1>2, <2>2, <3>1, <3>2
    <2>4. Term(g, nn) = {}
      BY <1>1, <2>2
    <2> HIDE DEF f, g
    <2>5. Sums(f)[nn + 1] = Sums(g)[nn]
      BY <1>1, <1>2, <1>3, <2>2, <2>3, SumsShift
    <2>6. Sums(g)[nn + 1] = Sums(g)[nn]
      <3>1. Sums(g)[nn + 1] = Plus(Sums(g)[nn], Term(g, nn))
        BY <1>1, <2>2, SumsStep
      <3> QED
        BY <2>4, <3>1, PlusRules
    <2> QED
      BY <1>5, <2>5, <2>6 DEF f, g, Disc, PlusAll
  <1> QED
    BY <1>4, <1>5

LEMMA OneType == One \in Polynomials /\ One[0] = {0} /\ \A i \in 1 .. NRoots : One[i] = {}
  BY Sizes, Unit DEF One, Polynomials

(* The discrepancy of 1 is the syndrome itself. *)
LEMMA DiscOne ==
  ASSUME NEW q \in SyndromeLists, NEW n \in 0 .. NRoots - 1
  PROVE  Disc(One, q, n) = q[n]
  <1> DEFINE f == Products(One, q, n)
  <1>1. nn \in Nat \ {0} /\ NRoots \in Nat /\ NRoots < nn
    BY Sizes, ReedSolomonAssumption
  <1>2. /\ IsTerms(f)
        /\ \A i \in 0 .. nn : Term(f, i) = IF i <= n THEN Mul(One[i], q[n - i]) ELSE {}
        /\ \A i \in 0 .. n : q[n - i] \in Symbols
    BY OneType, ProductTerms
  <1>3. Term(f, 0) = q[n]
    <2>1. q[n] \in Symbols /\ 0 \in 0 .. nn /\ 0 <= n /\ n - 0 = n
      BY <1>1 DEF SyndromeLists
    <2> QED
      BY <1>2, <2>1, OneType, MulUnit
  <1>4. ASSUME NEW i \in 1 .. nn
        PROVE  Term(f, i) = {}
    <2>1. i \in 0 .. nn
      BY <1>1
    <2>2. CASE i <= n
      <3>1. i \in 0 .. n /\ i \in 1 .. NRoots
        BY <1>1, <2>2
      <3>2. One[i] = {} /\ q[n - i] \in Symbols
        BY <1>2, <3>1, OneType
      <3> QED
        BY <1>2, <2>1, <2>2, <3>2, MulZero
    <2> QED
      BY <1>2, <2>1, <2>2
  <1> HIDE DEF f
  <1>5. Sums(f)[nn + 1] = Sums(f)[1]
    BY <1>1, <1>2, <1>4, SumsEnd
  <1>6. Sums(f)[0 + 1] = Plus(Sums(f)[0], Term(f, 0)) /\ Sums(f)[0] = {}
    BY <1>1, <1>2, SumsStep
  <1> QED
    BY <1>3, <1>5, <1>6, PlusRules DEF f, Disc, PlusAll

-----------------------------------------------------------------------------
(* Sums of sums *)

Tables == [0 .. nn -> [0 .. nn -> Symbols]]
RowSums(A) == [i \in 0 .. nn |-> PlusAll(A[i])]
ColumnSums(A) == [j \in 0 .. nn |-> PlusAll([i \in 0 .. nn |-> A[i][j]])]

LEMMA FunctionTerms ==
  ASSUME NEW f \in [0 .. nn -> Symbols]
  PROVE  IsTerms(f) /\ (\A i \in 0 .. nn : Term(f, i) = f[i]) /\ PlusAll(f) \in Symbols
  <1>1. \A i \in 0 .. nn : Term(f, i) = f[i]
    BY DEF Term
  <1>2. IsTerms(f)
    BY <1>1 DEF IsTerms
  <1>3. nn + 1 \in 0 .. nn + 1
    BY Sizes
  <1> QED
    BY <1>1, <1>2, <1>3, SumsStep DEF PlusAll

LEMMA ZeroSum ==
  ASSUME NEW f \in [0 .. nn -> Symbols], \A i \in 0 .. nn : f[i] = {}
  PROVE  PlusAll(f) = {}
  <1>1. 0 \in 0 .. nn + 1 /\ nn + 1 \in 0 .. nn + 1
    BY Sizes
  <1>2. IsTerms(f) /\ \A i \in 0 .. nn : Term(f, i) = {}
    BY FunctionTerms
  <1>3. Sums(f)[nn + 1] = Sums(f)[0]
    BY <1>1, <1>2, SumsEnd
  <1>4. Sums(f)[0] = {}
    BY <1>2, SumsStep
  <1> QED
    BY <1>3, <1>4 DEF PlusAll

LEMMA FirstTermSum ==
  ASSUME NEW f \in [0 .. nn -> Symbols], \A i \in 1 .. nn : f[i] = {}
  PROVE  PlusAll(f) = f[0]
  <1>1. nn \in Nat
    BY Sizes
  <1>2. Sums(f)[nn + 1] = Sums(f)[1]
    <2>1. 1 \in 0 .. nn + 1 /\ nn + 1 \in 1 .. nn + 1 /\ \A i \in 1 .. nn : Term(f, i) = {}
      BY <1>1, FunctionTerms
    <2> QED
      BY <2>1, FunctionTerms, SumsEnd
  <1>3. Sums(f)[0 + 1] = Plus(Sums(f)[0], Term(f, 0)) /\ Sums(f)[0] = {} /\ Term(f, 0) = f[0]
    BY <1>1, FunctionTerms, SumsStep
  <1> QED
    BY <1>2, <1>3, PlusRules DEF PlusAll

(* A table can be added up by rows or by columns. *)
LEMMA SumsExchange ==
  ASSUME NEW A \in Tables
  PROVE  PlusAll(RowSums(A)) = PlusAll(ColumnSums(A))
  <1> DEFINE Part(k) == [i \in 0 .. nn |-> Sums(A[i])[k]]
             Column(j) == [i \in 0 .. nn |-> A[i][j]]
             C == ColumnSums(A)
             K == nn + 1
             T == {k \in 0 .. K : PlusAll(Part(k)) = Sums(C)[k]}
  <1>1. nn \in Nat /\ K \in Nat
    BY Sizes
  <1>2. ASSUME NEW i \in 0 .. nn
        PROVE  /\ A[i] \in [0 .. nn -> Symbols] /\ IsTerms(A[i])
               /\ \A j \in 0 .. nn : Term(A[i], j) = A[i][j] /\ A[i][j] \in Symbols
    <2>1. A[i] \in [0 .. nn -> Symbols]
      BY DEF Tables
    <2> QED
      BY <2>1, FunctionTerms
  <1>3. ASSUME NEW k \in 0 .. nn + 1
        PROVE  Part(k) \in [0 .. nn -> Symbols]
    BY <1>2, SumsStep
  <1>4. ASSUME NEW j \in 0 .. nn
        PROVE  /\ Column(j) \in [0 .. nn -> Symbols]
               /\ C[j] = PlusAll(Column(j))
    BY <1>2 DEF ColumnSums
  <1>5. C \in [0 .. nn -> Symbols]
    <2>1. \A j \in 0 .. nn : PlusAll(Column(j)) \in Symbols
      BY <1>4, FunctionTerms
    <2> QED
      BY <2>1 DEF ColumnSums
  <1> HIDE DEF C
  <1>6. 0 \in T
    <2>1. 0 \in 0 .. nn + 1
      BY <1>1
    <2>2. \A i \in 0 .. nn : Part(0)[i] = {}
      BY <1>2, SumsStep
    <2>3. PlusAll(Part(0)) = {}
      BY <1>3, <2>1, <2>2, ZeroSum
    <2>4. Sums(C)[0] = {}
      BY <1>5, FunctionTerms, SumsStep
    <2> QED
      BY <2>1, <2>3, <2>4
  <1>7. ASSUME NEW k \in 0 .. K - 1, k \in T
        PROVE  k + 1 \in T
    <2>1. k \in 0 .. nn /\ k \in 0 .. nn + 1 /\ k + 1 \in 0 .. nn + 1
      BY <1>1
    <2> DEFINE f == Part(k)
               g == Column(k)
               h == Part(k + 1)
    <2>2. f \in [0 .. nn -> Symbols] /\ g \in [0 .. nn -> Symbols] /\ h \in [0 .. nn -> Symbols]
      BY <1>3, <1>4, <2>1
    <2>3. ASSUME NEW i \in 0 .. nn
          PROVE  h[i] = Plus(f[i], g[i])
      <3>1. Sums(A[i])[k + 1] = Plus(Sums(A[i])[k], Term(A[i], k)) /\ Term(A[i], k) = A[i][k]
        BY <1>2, <2>1, SumsStep
      <3> QED
        BY <3>1
    <2>4. PlusAll(f) = Sums(C)[k] /\ PlusAll(g) = C[k]
      BY <1>4, <1>7, <2>1
    <2> HIDE DEF f, g, h
    <2>5. Sums(h)[nn + 1] = Plus(Sums(f)[nn + 1], Sums(g)[nn + 1])
      <3>1. /\ IsTerms(f) /\ IsTerms(g) /\ IsTerms(h)
            /\ \A i \in 0 .. nn : Term(h, i) = h[i] /\ Term(f, i) = f[i] /\ Term(g, i) = g[i]
        BY <2>2, FunctionTerms
      <3>2. \A i \in 0 .. nn : Term(h, i) = Plus(Term(f, i), Term(g, i))
        BY <2>3, <3>1
      <3>3. nn + 1 \in 0 .. nn + 1
        BY <1>1
      <3> QED
        BY <3>1, <3>2, <3>3, SumsPlus
    <2>6. Sums(C)[k + 1] = Plus(Sums(C)[k], C[k])
      <3>1. IsTerms(C) /\ Term(C, k) = C[k]
        BY <1>5, <2>1, FunctionTerms
      <3> QED
        BY <2>1, <3>1, SumsStep
    <2>7. PlusAll(h) = Sums(C)[k + 1]
      BY <2>4, <2>5, <2>6 DEF PlusAll
    <2> QED
      BY <2>1, <2>7 DEF h
  <1>8. \A k \in 0 .. K - 1 : k \in T => k + 1 \in T
    BY <1>7
  <1>9. K \in T
    <2> HIDE DEF T, K
    <2>1. \A k \in 0 .. K : k \in T
      BY <1>1, <1>6, <1>8, Upwards
    <2> QED
      BY <1>1, <2>1
  <1>10. PlusAll(Part(K)) = Sums(C)[K]
    BY <1>9
  <1>11. RowSums(A) = Part(K)
    BY DEF RowSums, PlusAll
  <1> QED
    BY <1>10, <1>11 DEF C, PlusAll

-----------------------------------------------------------------------------
(* Syndromes *)

Word(d, par, j) == IF j < DataLen THEN d[j] ELSE par[j - DataLen]
IsWord(d, par) == \A j \in 0 .. nn - 1 : Word(d, par, j) \in Symbols
Root(i) == Exp((FCR + i) * Prim)

LEMMA RootType ==
  ASSUME NEW i \in Nat
  PROVE  Root(i) \in Symbols \ {{}}
  <1>1. (FCR + i) * Prim \in Nat
    BY Sizes
  <1> QED
    BY <1>1, ExpStep DEF Root

(* A syndrome is the word's value at a root, by Horner's rule. *)
IsHorner(e, d, par, i) ==
  /\ e \in [0 .. nn - 1 -> Symbols]
  /\ e[0] = Word(d, par, 0)
  /\ \A j \in 1 .. nn - 1 : e[j] = Plus(Word(d, par, j), Mul(e[j - 1], Root(i)))

LEMMA SyndromeValue ==
  ASSUME NEW d, NEW par, IsWord(d, par), NEW i \in 0 .. NRoots - 1
  PROVE  \E e : IsHorner(e, d, par, i) /\ Syndromes(d, par)[i] = e[nn - 1]
  <1> DEFINE F(g) == [j \in 0 .. nn - 1 |-> IF j = 0 THEN Word(d, par, 0)
                                            ELSE Plus(Word(d, par, j), Mul(g[j - 1], Root(i)))]
             step == [j \in 1 .. nn - 1 |-> [x \in Symbols |-> Plus(Word(d, par, j), Mul(x, Root(i)))]]
             K == nn - 1
  <1>1. K \in Nat /\ nn \in Nat /\ NRoots \in Nat /\ i \in Nat
    BY Sizes
  <1>2. AreSteps(K, Symbols, step)
    <2> SUFFICES ASSUME NEW j \in 1 .. nn - 1, NEW x \in Symbols
                 PROVE  Plus(Word(d, par, j), Mul(x, Root(i))) \in Symbols
      BY DEF AreSteps
    <2>1. Mul(x, Root(i)) \in Symbols
      BY <1>1, RootType, MulType
    <2>2. Word(d, par, j) \in Symbols
      BY <1>1 DEF IsWord
    <2> QED
      BY <2>1, <2>2, PlusType
  <1>3. Word(d, par, 0) \in Symbols
    <2>1. 0 \in 0 .. nn - 1
      BY <1>1
    <2> QED
      BY <2>1 DEF IsWord
  <1>4. PICK g : Recurs(g, K, Symbols, Word(d, par, 0), step)
    <2> HIDE DEF step, K
    <2> QED
      BY <1>1, <1>2, <1>3, RecursionExists
  <1>5. g = F(g)
    <2> SUFFICES ASSUME NEW n \in 0 .. nn - 1
                 PROVE  g[n] = IF n = 0 THEN Word(d, par, 0)
                               ELSE Plus(Word(d, par, n), Mul(g[n - 1], Root(i)))
      BY <1>4 DEF Recurs
    <2>1. CASE n # 0
      <3>1. n \in 1 .. nn - 1 /\ n - 1 \in 0 .. nn - 1
        BY <1>1, <2>1
      <3>2. g[n - 1] \in Symbols /\ g[n] = step[n][g[n - 1]]
        BY <1>4, <3>1 DEF Recurs
      <3> QED
        BY <2>1, <3>1, <3>2
    <2> QED
      BY <1>4, <2>1 DEF Recurs
  <1> DEFINE e == CHOOSE h : h = F(h)
  <1>6. Syndromes(d, par)[i] = e[nn - 1]
    BY DEF Syndromes, Word, Root
  <1> HIDE DEF F
  <1>7. e = F(e)
    BY <1>5
  <1> HIDE DEF e
  <1>8. e[0] = Word(d, par, 0)
    BY <1>1, <1>7 DEF F
  <1>9. \A j \in 1 .. nn - 1 : e[j] = Plus(Word(d, par, j), Mul(e[j - 1], Root(i)))
    BY <1>1, <1>7 DEF F
  <1>10. e \in [0 .. nn - 1 -> Symbols]
    <2>1. e = [j \in 0 .. nn - 1 |-> e[j]]
      BY <1>7 DEF F
    <2> DEFINE T == {j \in 0 .. nn - 1 : e[j] \in Symbols}
    <2>2. 0 \in T
      BY <1>1, <1>3, <1>8
    <2>3. ASSUME NEW j \in 0 .. K - 1, j \in T
          PROVE  j + 1 \in T
      <3>1. j \in 0 .. nn - 1 /\ j + 1 \in 1 .. nn - 1 /\ j + 1 \in 0 .. nn - 1 /\ (j + 1) - 1 = j
        BY <1>1
      <3>2. Mul(e[j], Root(i)) \in Symbols
        BY <1>1, <2>3, <3>1, RootType, MulType
      <3>3. Word(d, par, j + 1) \in Symbols
        BY <3>1 DEF IsWord
      <3>4. e[j + 1] = Plus(Word(d, par, j + 1), Mul(e[j], Root(i)))
        BY <1>9, <3>1
      <3> QED
        BY <3>1, <3>2, <3>3, <3>4, PlusType
    <2>4. \A j \in 0 .. K - 1 : j \in T => j + 1 \in T
      BY <2>3
    <2> HIDE DEF T
    <2>5. \A j \in 0 .. K : j \in T
      <3> HIDE DEF K
      <3> QED
        BY <1>1, <2>2, <2>4, Upwards
    <2> QED
      BY <2>1, <2>5 DEF T
  <1> QED
    BY <1>6, <1>8, <1>9, <1>10 DEF IsHorner

LEMMA SyndromesType ==
  ASSUME NEW d, NEW par, IsWord(d, par)
  PROVE  Syndromes(d, par) \in SyndromeLists
  <1>1. nn - 1 \in 0 .. nn - 1
    BY Sizes
  <1>2. ASSUME NEW i \in 0 .. NRoots - 1
        PROVE  Syndromes(d, par)[i] \in Symbols
    BY <1>1, SyndromeValue DEF IsHorner
  <1>3. Syndromes(d, par) = [i \in 0 .. NRoots - 1 |-> Syndromes(d, par)[i]]
    BY DEF Syndromes
  <1> QED
    BY <1>2, <1>3 DEF SyndromeLists

-----------------------------------------------------------------------------
(* Encoding *)

(* A polynomial times (x + root). *)
TimesFactor(g, root) ==
  [j \in 0 .. NRoots |-> Plus(IF j = 0 THEN {} ELSE g[j - 1], Mul(g[j], root))]

LEMMA TimesFactorType ==
  ASSUME NEW g \in Polynomials, NEW root \in Symbols
  PROVE  TimesFactor(g, root) \in Polynomials
  <1> SUFFICES ASSUME NEW j \in 0 .. NRoots
               PROVE  Plus(IF j = 0 THEN {} ELSE g[j - 1], Mul(g[j], root)) \in Symbols
    BY DEF TimesFactor, Polynomials
  <1>1. NRoots \in Nat
    BY Sizes
  <1>2. Mul(g[j], root) \in Symbols
    <2>1. g[j] \in Symbols
      BY DEF Polynomials
    <2> QED
      BY <2>1, MulType
  <1>3. CASE j = 0
    BY <1>2, <1>3, Unit, PlusType
  <1>4. CASE j # 0
    <2>1. j - 1 \in 0 .. NRoots
      BY <1>1, <1>4
    <2>2. g[j - 1] \in Symbols
      BY <2>1 DEF Polynomials
    <2> QED
      BY <1>2, <1>4, <2>2, PlusType
  <1> QED
    BY <1>3, <1>4

LEMMA GenPolyStep ==
  /\ GenPoly[0] = One
  /\ \A n \in 0 .. NRoots - 1 : GenPoly[n + 1] = TimesFactor(GenPoly[n], Root(n))
  /\ \A n \in 0 .. NRoots : GenPoly[n] \in Polynomials
  <1> DEFINE F(g) == [n \in 0 .. NRoots |->
                       [j \in 0 .. NRoots |->
                          IF n = 0 THEN (IF j = 0 THEN {0} ELSE {})
                          ELSE Plus(IF j = 0 THEN {} ELSE g[n - 1][j - 1],
                                    Mul(g[n - 1][j], Exp((FCR + n - 1) * Prim)))]]
             step == [n \in 1 .. NRoots |-> [g \in Polynomials |-> TimesFactor(g, Root(n - 1))]]
  <1>1. NRoots \in Nat \ {0} /\ FCR \in Nat
    BY Sizes
  <1>2. AreSteps(NRoots, Polynomials, step)
    <2> SUFFICES ASSUME NEW n \in 1 .. NRoots, NEW g \in Polynomials
                 PROVE  TimesFactor(g, Root(n - 1)) \in Polynomials
      BY DEF AreSteps
    <2>1. n - 1 \in Nat
      BY <1>1
    <2> QED
      BY <2>1, RootType, TimesFactorType
  <1>3. PICK g : Recurs(g, NRoots, Polynomials, One, step)
    <2> HIDE DEF step
    <2> QED
      BY <1>1, <1>2, OneType, RecursionExists
  <1>4. \A h : F(h) = [n \in 0 .. NRoots |-> IF n = 0 THEN One ELSE TimesFactor(h[n - 1], Root(n - 1))]
    <2> TAKE h
    <2> SUFFICES ASSUME NEW n \in 0 .. NRoots
                 PROVE  F(h)[n] = IF n = 0 THEN One ELSE TimesFactor(h[n - 1], Root(n - 1))
      OBVIOUS
    <2>1. CASE n = 0
      BY <2>1 DEF One
    <2>2. CASE n # 0
      <3>1. FCR + n - 1 = FCR + (n - 1)
        BY <1>1
      <3> QED
        BY <2>2, <3>1 DEF TimesFactor, Root
    <2> QED
      BY <2>1, <2>2
  <1>5. GenPoly = CHOOSE h : h = F(h)
    BY DEF GenPoly
  <1> HIDE DEF F
  <1>6. g = F(g)
    <2> SUFFICES ASSUME NEW n \in 0 .. NRoots
                 PROVE  g[n] = IF n = 0 THEN One ELSE TimesFactor(g[n - 1], Root(n - 1))
      BY <1>3, <1>4 DEF Recurs
    <2>1. CASE n # 0
      <3>1. n \in 1 .. NRoots /\ n - 1 \in 0 .. NRoots
        BY <1>1, <2>1
      <3>2. g[n - 1] \in Polynomials /\ g[n] = step[n][g[n - 1]]
        BY <1>3, <3>1 DEF Recurs
      <3> QED
        BY <2>1, <3>1, <3>2
    <2> QED
      BY <1>3, <2>1 DEF Recurs
  <1>7. GenPoly = F(GenPoly)
    BY <1>5, <1>6
  <1>8. GenPoly = [n \in 0 .. NRoots |->
                     IF n = 0 THEN One ELSE TimesFactor(GenPoly[n - 1], Root(n - 1))]
    BY <1>4, <1>7
  <1>9. GenPoly[0] = One
    BY <1>1, <1>8
  <1>10. ASSUME NEW n \in 0 .. NRoots - 1
         PROVE  GenPoly[n + 1] = TimesFactor(GenPoly[n], Root(n))
    <2>1. n + 1 \in 0 .. NRoots /\ n + 1 # 0 /\ (n + 1) - 1 = n
      BY <1>1
    <2> QED
      BY <1>8, <2>1
  <1>11. \A n \in 0 .. NRoots : GenPoly[n] \in Polynomials
    <2> DEFINE T == {n \in 0 .. NRoots : GenPoly[n] \in Polynomials}
    <2>1. 0 \in T
      BY <1>1, <1>9, OneType
    <2>2. ASSUME NEW n \in 0 .. NRoots - 1, n \in T
          PROVE  n + 1 \in T
      <3>1. n \in Nat /\ n + 1 \in 0 .. NRoots
        BY <1>1
      <3> QED
        BY <1>10, <2>2, <3>1, RootType, TimesFactorType
    <2>3. \A n \in 0 .. NRoots - 1 : n \in T => n + 1 \in T
      BY <2>2
    <2> HIDE DEF T
    <2>4. \A n \in 0 .. NRoots : n \in T
      BY <1>1, <2>1, <2>3, Upwards
    <2> QED
      BY <2>4 DEF T
  <1> QED
    BY <1>9, <1>10, <1>11

DataLists == [0 .. DataLen - 1 -> Symbols]

(* One data symbol of encode_rs8. *)
Divided(before, x) ==
  [j \in 0 .. NRoots - 1 |->
     Plus(IF j = NRoots - 1 THEN {} ELSE before[j + 1],
          Mul(Plus(x, before[0]), genpoly[NRoots - 1 - j]))]

LEMMA DividedType ==
  ASSUME NEW before \in SyndromeLists, NEW x \in Symbols
  PROVE  Divided(before, x) \in SyndromeLists
  <1> SUFFICES ASSUME NEW j \in 0 .. NRoots - 1
               PROVE  Plus(IF j = NRoots - 1 THEN {} ELSE before[j + 1],
                           Mul(Plus(x, before[0]), genpoly[NRoots - 1 - j])) \in Symbols
    BY DEF Divided, SyndromeLists
  <1>1. NRoots \in Nat \ {0}
    BY Sizes
  <1>2. Plus(x, before[0]) \in Symbols
    <2>1. before[0] \in Symbols
      BY <1>1 DEF SyndromeLists
    <2> QED
      BY <2>1, PlusType
  <1>3. genpoly[NRoots - 1 - j] \in Symbols
    <2>1. NRoots - 1 - j \in 0 .. NRoots /\ NRoots \in 0 .. NRoots
      BY <1>1
    <2>2. genpoly \in Polynomials
      BY <2>1, GenPolyStep DEF genpoly
    <2> QED
      BY <2>1, <2>2 DEF Polynomials
  <1>4. Mul(Plus(x, before[0]), genpoly[NRoots - 1 - j]) \in Symbols
    BY <1>2, <1>3, MulType
  <1>5. CASE j = NRoots - 1
    BY <1>4, <1>5, Unit, PlusType
  <1>6. CASE j # NRoots - 1
    <2>1. j + 1 \in 0 .. NRoots - 1
      BY <1>1, <1>6
    <2>2. before[j + 1] \in Symbols
      BY <2>1 DEF SyndromeLists
    <2> QED
      BY <1>4, <1>6, <2>2, PlusType
  <1> QED
    BY <1>5, <1>6

(* The parity symbols after each data symbol. *)
IsEncoding(par, d) ==
  /\ par \in [0 .. DataLen -> SyndromeLists]
  /\ par[0] = [j \in 0 .. NRoots - 1 |-> {}]
  /\ \A i \in 0 .. DataLen - 1 : par[i + 1] = Divided(par[i], d[i])

LEMMA EncodeSteps ==
  ASSUME NEW d \in DataLists
  PROVE  \E par : IsEncoding(par, d) /\ encode_rs8(d) = par[DataLen]
  <1> DEFINE zero == [j \in 0 .. NRoots - 1 |-> {}]
             F(g) == [i \in 0 .. DataLen |->
                        IF i = 0 THEN zero
                        ELSE LET before == g[i - 1]
                                 fb     == Plus(d[i - 1], before[0])
                             IN [j \in 0 .. NRoots - 1 |->
                                   Plus(IF j = NRoots - 1 THEN {} ELSE before[j + 1],
                                        Mul(fb, genpoly[NRoots - 1 - j]))]]
             step == [i \in 1 .. DataLen |-> [p \in SyndromeLists |-> Divided(p, d[i - 1])]]
  <1>1. DataLen \in Nat
    BY Sizes
  <1>2. zero \in SyndromeLists
    BY Unit DEF SyndromeLists
  <1>3. AreSteps(DataLen, SyndromeLists, step)
    <2> SUFFICES ASSUME NEW i \in 1 .. DataLen, NEW p \in SyndromeLists
                 PROVE  Divided(p, d[i - 1]) \in SyndromeLists
      BY DEF AreSteps
    <2>1. i - 1 \in 0 .. DataLen - 1
      BY <1>1
    <2>2. d[i - 1] \in Symbols
      BY <2>1 DEF DataLists
    <2> QED
      BY <2>2, DividedType
  <1>4. \A h : F(h) = [i \in 0 .. DataLen |-> IF i = 0 THEN zero ELSE Divided(h[i - 1], d[i - 1])]
    BY DEF Divided
  <1>5. encode_rs8(d) = LET par == CHOOSE h : h = F(h) IN par[DataLen]
    BY DEF encode_rs8
  <1> HIDE DEF F, zero
  <1>6. PICK g : Recurs(g, DataLen, SyndromeLists, zero, step)
    <2> HIDE DEF step
    <2> QED
      BY <1>1, <1>2, <1>3, RecursionExists
  <1>7. g = F(g)
    <2> SUFFICES ASSUME NEW n \in 0 .. DataLen
                 PROVE  g[n] = IF n = 0 THEN zero ELSE Divided(g[n - 1], d[n - 1])
      BY <1>4, <1>6 DEF Recurs
    <2>1. CASE n # 0
      <3>1. n \in 1 .. DataLen /\ n - 1 \in 0 .. DataLen
        BY <1>1, <2>1
      <3>2. g[n - 1] \in SyndromeLists /\ g[n] = step[n][g[n - 1]]
        BY <1>6, <3>1 DEF Recurs
      <3> QED
        BY <2>1, <3>1, <3>2
    <2> QED
      BY <1>6, <2>1 DEF Recurs
  <1> DEFINE par == CHOOSE h : h = F(h)
  <1>8. par = F(par)
    BY <1>7
  <1>9. encode_rs8(d) = par[DataLen]
    BY <1>5
  <1> HIDE DEF par
  <1>10. par = [i \in 0 .. DataLen |-> IF i = 0 THEN zero ELSE Divided(par[i - 1], d[i - 1])]
    BY <1>4, <1>8
  <1>11. par[0] = zero
    BY <1>1, <1>10
  <1>12. ASSUME NEW i \in 0 .. DataLen - 1
         PROVE  par[i + 1] = Divided(par[i], d[i])
    <2>1. i + 1 \in 0 .. DataLen /\ i + 1 # 0 /\ (i + 1) - 1 = i
      BY <1>1
    <2> QED
      BY <1>10, <2>1
  <1>13. \A i \in 0 .. DataLen : par[i] \in SyndromeLists
    <2> DEFINE T == {i \in 0 .. DataLen : par[i] \in SyndromeLists}
    <2>1. 0 \in T
      BY <1>1, <1>2, <1>11
    <2>2. ASSUME NEW i \in 0 .. DataLen - 1, i \in T
          PROVE  i + 1 \in T
      <3>1. i + 1 \in 0 .. DataLen /\ d[i] \in Symbols
        BY <1>1 DEF DataLists
      <3> QED
        BY <1>12, <2>2, <3>1, DividedType
    <2>3. \A i \in 0 .. DataLen - 1 : i \in T => i + 1 \in T
      BY <2>2
    <2> HIDE DEF T
    <2>4. \A i \in 0 .. DataLen : i \in T
      BY <1>1, <2>1, <2>3, Upwards
    <2> QED
      BY <2>4 DEF T
  <1>14. par \in [0 .. DataLen -> SyndromeLists]
    BY <1>10, <1>13
  <1> QED
    BY <1>9, <1>11, <1>12, <1>14 DEF zero, IsEncoding

LEMMA EncodeType ==
  ASSUME NEW d \in DataLists
  PROVE  encode_rs8(d) \in SyndromeLists
  <1>1. DataLen \in 0 .. DataLen
    BY Sizes
  <1> QED
    BY <1>1, EncodeSteps DEF IsEncoding

-----------------------------------------------------------------------------
(* What is sent and received *)

Received == [Positions -> Symbols]

LEMMA PackType == ASSUME NEW m PROVE Pack(m) \in DataLists
  BY DEF Pack, DataLists, Symbols

LEMMA MoreSizes ==
  /\ nn = 3 * NRoots + 1 /\ DataLen = 2 * NRoots + 1 /\ nn = DataLen + NRoots
  /\ NRoots \in Nat \ {0} /\ DataLen \in Nat /\ nn \in Nat
  BY Sizes, NcrsAssumption DEF DataLen

LEMMA InterleavedType ==
  ASSUME NEW d \in DataLists, NEW par \in SyndromeLists
  PROVE  Interleaved(d, par) \in Received
  <1> SUFFICES ASSUME NEW p \in Positions
               PROVE  (IF p % 3 = 2 THEN par[p \div 3] ELSE d[2 * (p \div 3) + (p % 3)]) \in Symbols
    BY DEF Interleaved, Received
  <1>1. p \in 0 .. 3 * NRoots
    BY MoreSizes DEF Positions
  <1>2. CASE p % 3 = 2
    <2>1. p \div 3 \in 0 .. NRoots - 1
      BY <1>1, <1>2, MoreSizes
    <2> QED
      BY <1>2, <2>1 DEF SyndromeLists
  <1>3. CASE p % 3 # 2
    <2>1. 2 * (p \div 3) + (p % 3) \in 0 .. DataLen - 1
      BY <1>1, <1>3, MoreSizes
    <2> QED
      BY <1>3, <2>1 DEF DataLists
  <1> QED
    BY <1>2, <1>3

LEMMA AtType ==
  ASSUME NEW word \in Received, NEW p
  PROVE  At(word, p) \in Symbols
  BY Unit DEF At, Received

LEMMA RadioType ==
  ASSUME NEW word \in Received, NEW f \in Faults
  PROVE  Radio(word, f) \in Received
  <1> SUFFICES ASSUME NEW p \in Positions
               PROVE  (IF p \in DOMAIN f.errors THEN Plus(At(word, p - f.shift), f.errors[p])
                       ELSE At(word, p - f.shift)) \in Symbols
    BY DEF Radio, Received
  <1>1. At(word, p - f.shift) \in Symbols
    BY AtType
  <1>2. CASE p \in DOMAIN f.errors
    <2>1. f.errors[p] \in Symbols
      BY <1>2, NcrsAssumption
    <2> QED
      BY <1>1, <1>2, <2>1, PlusType
  <1> QED
    BY <1>1, <1>2

LEMMA MovedType ==
  ASSUME NEW word \in Received, NEW attempt
  PROVE  Moved(word, attempt) \in Received
  BY AtType DEF Moved, Received

DataOf(word) == [k \in 0 .. DataLen - 1 |-> word[3 * (k \div 2) + (k % 2)]]
ParityOf(word) == [j \in 0 .. NRoots - 1 |-> word[3 * j + 2]]

LEMMA PartsType ==
  ASSUME NEW word \in Received
  PROVE  DataOf(word) \in DataLists /\ ParityOf(word) \in SyndromeLists
  <1>1. ASSUME NEW k \in 0 .. DataLen - 1
        PROVE  word[3 * (k \div 2) + (k % 2)] \in Symbols
    <2>1. k \in 0 .. 2 * NRoots
      BY MoreSizes
    <2>2. 3 * (k \div 2) + (k % 2) \in 0 .. 3 * NRoots
      BY <2>1, MoreSizes
    <2>3. 3 * (k \div 2) + (k % 2) \in Positions
      BY <2>2, MoreSizes DEF Positions
    <2> QED
      BY <2>3 DEF Received
  <1>2. ASSUME NEW j \in 0 .. NRoots - 1
        PROVE  word[3 * j + 2] \in Symbols
    <2>1. 3 * j + 2 \in Positions
      BY MoreSizes DEF Positions
    <2> QED
      BY <2>1 DEF Received
  <1> QED
    BY <1>1, <1>2 DEF DataOf, ParityOf, DataLists, SyndromeLists

LEMMA PartsAreWord ==
  ASSUME NEW d \in DataLists, NEW par \in SyndromeLists
  PROVE  IsWord(d, par)
  <1> SUFFICES ASSUME NEW j \in 0 .. nn - 1 PROVE Word(d, par, j) \in Symbols
    BY DEF IsWord
  <1>1. CASE j < DataLen
    <2>1. j \in 0 .. DataLen - 1
      BY <1>1, MoreSizes
    <2> QED
      BY <1>1, <2>1 DEF Word, DataLists
  <1>2. CASE ~(j < DataLen)
    <2>1. j - DataLen \in 0 .. NRoots - 1
      BY <1>2, MoreSizes
    <2> QED
      BY <1>2, <2>1 DEF Word, SyndromeLists
  <1> QED
    BY <1>1, <1>2

-----------------------------------------------------------------------------
(* Berlekamp-Massey *)

(* After m steps with the syndromes q: p is a recurrence of length l for   *)
(* the first m of them, and u is what repairs it when the next one does    *)
(* not fit: u has no discrepancy but the last, which is 1, and is so short *)
(* that adding a multiple of x * u to p needs no more than the new length. *)
IsLocator(q, p, u, l, m) ==
  /\ m \in 0 .. NRoots /\ l \in 0 .. m
  /\ p \in Polynomials /\ u \in Polynomials
  /\ p[0] = {0}
  /\ \A i \in 0 .. NRoots : (i > l => p[i] = {}) /\ (i > m - l => u[i] = {})
  /\ \A n \in l .. m - 1 : Disc(p, q, n) = {}
  /\ l = 0 => p = One /\ \A n \in 0 .. m - 1 : q[n] = {}
  /\ l > 0 => Disc(u, q, m - 1) = {0} /\ \A n \in m - l .. m - 2 : Disc(u, q, n) = {}

Repaired(p, d, u) ==
  [i \in 0 .. NRoots |-> IF i = 0 THEN p[0] ELSE Plus(p[i], Mul(d, u[i - 1]))]
Shifted(u) == [i \in 0 .. NRoots |-> IF i = 0 THEN {} ELSE u[i - 1]]

LEMMA ShiftedType ==
  ASSUME NEW u \in Polynomials
  PROVE  /\ Shifted(u) \in Polynomials
         /\ Shifted(u)[0] = {} /\ \A i \in 1 .. NRoots : Shifted(u)[i] = u[i - 1]
  <1>1. NRoots \in Nat
    BY Sizes
  <1>2. \A i \in 0 .. NRoots : i # 0 => u[i - 1] \in Symbols
    BY <1>1 DEF Polynomials
  <1> QED
    BY <1>1, <1>2, Unit DEF Shifted, Polynomials

LEMMA RepairedType ==
  ASSUME NEW p \in Polynomials, NEW d \in Symbols, NEW u \in Polynomials
  PROVE  /\ Repaired(p, d, u) \in Polynomials
         /\ \A i \in 0 .. NRoots : Repaired(p, d, u)[i] = Plus(p[i], Mul(d, Shifted(u)[i]))
         /\ Repaired(p, d, u)[0] = p[0]
  <1>1. NRoots \in Nat
    BY Sizes
  <1>2. ASSUME NEW i \in 0 .. NRoots
        PROVE  /\ Repaired(p, d, u)[i] = Plus(p[i], Mul(d, Shifted(u)[i]))
               /\ Plus(p[i], Mul(d, Shifted(u)[i])) \in Symbols
    <2>1. p[i] \in Symbols /\ Shifted(u)[i] \in Symbols /\ Shifted(u)[0] = {}
      BY ShiftedType DEF Polynomials
    <2>2. Plus(p[i], Mul(d, Shifted(u)[i])) \in Symbols
      BY <2>1, MulType, PlusType
    <2>3. CASE i = 0
      <3>1. Plus(p[0], Mul(d, {})) = p[0]
        BY MulZero, PlusRules
      <3> QED
        BY <2>1, <2>2, <2>3, <3>1 DEF Repaired
    <2>4. CASE i # 0
      <3>1. i \in 1 .. NRoots
        BY <1>1, <2>4
      <3>2. Shifted(u)[i] = u[i - 1]
        BY <3>1, ShiftedType
      <3> QED
        BY <2>2, <2>4, <3>2 DEF Repaired
    <2> QED
      BY <2>3, <2>4
  <1>3. Repaired(p, d, u) = [i \in 0 .. NRoots |-> Repaired(p, d, u)[i]]
    BY DEF Repaired
  <1>4. Repaired(p, d, u) \in Polynomials
    BY <1>2, <1>3 DEF Polynomials
  <1>5. Repaired(p, d, u)[0] = p[0]
    BY <1>1 DEF Repaired
  <1> QED
    BY <1>2, <1>4, <1>5

(* The repaired recurrence is right for the syndrome it was repaired for,  *)
(* and still for those before.                                             *)
LEMMA RepairedDisc ==
  ASSUME NEW q \in SyndromeLists, NEW p, NEW u, NEW l, NEW m, m # NRoots,
         IsLocator(q, p, u, l, m), NEW d, d = Disc(p, q, m),
         NEW k \in 0 .. m + 1, k >= l, d # {} => k >= m + 1 - l
  PROVE  \A n \in k .. m : Disc(Repaired(p, d, u), q, n) = {}
  <1> SUFFICES ASSUME NEW n \in k .. m
               PROVE  Disc(Repaired(p, d, u), q, n) = {}
    OBVIOUS
  <1>1. /\ NRoots \in Nat \ {0} /\ m \in 0 .. NRoots - 1 /\ l \in 0 .. m /\ n \in 0 .. NRoots - 1
        /\ p \in Polynomials /\ u \in Polynomials
    BY Sizes DEF IsLocator
  <1>2. d \in Symbols
    BY <1>1, ProductTerms
  <1>3. Disc(Repaired(p, d, u), q, n) = Plus(Disc(p, q, n), Mul(d, Disc(Shifted(u), q, n)))
    <2> DEFINE v == Repaired(p, d, u)
               w == Shifted(u)
    <2>1. v \in Polynomials /\ w \in Polynomials /\ \A i \in 0 .. NRoots : v[i] = Plus(p[i], Mul(d, w[i]))
      BY <1>1, <1>2, RepairedType, ShiftedType
    <2> HIDE DEF v, w
    <2>2. Disc(v, q, n) = Plus(Disc(p, q, n), Mul(d, Disc(w, q, n)))
      BY <1>1, <1>2, <2>1, DiscPlus
    <2> QED
      BY <2>2 DEF v, w
  <1>4. Disc(Shifted(u), q, n) = IF n = 0 THEN {} ELSE Disc(u, q, n - 1)
    BY <1>1, ShiftedType, DiscShift
  <1>5. Disc(Shifted(u), q, n) \in Symbols
    BY <1>1, ShiftedType, ProductTerms
  <1>6. CASE d = {}
    <2>1. Disc(p, q, n) = {}
      <3>1. CASE n = m
        BY <1>6, <3>1
      <3>2. CASE n # m
        <4>1. n \in l .. m - 1
          BY <1>1, <3>2
        <4> QED
          BY <4>1 DEF IsLocator
      <3> QED
        BY <3>1, <3>2
    <2> QED
      BY <1>3, <1>5, <1>6, <2>1, MulZero, PlusRules
  <1>7. CASE d # {}
    <2>1. l > 0
      <3> SUFFICES ASSUME l = 0 PROVE FALSE
        BY <1>1
      <3> QED
        BY <1>1, <1>7
    <2>2. n # 0
      BY <1>1, <1>7
    <2>3. CASE n = m
      <3>1. Disc(u, q, m - 1) = {0}
        BY <2>1 DEF IsLocator
      <3>2. Mul(d, {0}) = d
        BY <1>2, MulUnit
      <3> QED
        BY <1>3, <1>4, <2>2, <2>3, <3>1, <3>2, PlusRules
    <2>4. CASE n # m
      <3>1. n \in l .. m - 1 /\ n - 1 \in m - l .. m - 2
        BY <1>1, <1>7, <2>4
      <3>2. Disc(p, q, n) = {} /\ Disc(u, q, n - 1) = {}
        BY <2>1, <3>1 DEF IsLocator
      <3> QED
        BY <1>2, <1>3, <1>4, <2>2, <3>2, MulZero, PlusRules
    <2> QED
      BY <2>3, <2>4
  <1> QED
    BY <1>6, <1>7

(* A syndrome that no recurrence so short can repair needs a longer one. *)
LEMMA Lengthen ==
  ASSUME NEW q \in SyndromeLists, NEW p, NEW u, NEW l, NEW m, m # NRoots,
         IsLocator(q, p, u, l, m), NEW d, d = Disc(p, q, m), d # {}, 2 * l <= m
  PROVE  IsLocator(q, Repaired(p, d, u), [i \in 0 .. NRoots |-> Mul(p[i], Reciprocal(d))],
                   m + 1 - l, m + 1)
  <1> DEFINE v == Repaired(p, d, u)
             w == [i \in 0 .. NRoots |-> Mul(p[i], Reciprocal(d))]
  <1>1. /\ NRoots \in Nat \ {0} /\ m \in 0 .. NRoots - 1 /\ l \in 0 .. m
        /\ p \in Polynomials /\ u \in Polynomials
    BY Sizes DEF IsLocator
  <1>2. d \in Symbols \ {{}} /\ Reciprocal(d) \in Symbols /\ Mul(d, Reciprocal(d)) = {0}
    BY <1>1, ProductTerms, ReciprocalOf
  <1>3. /\ v \in Polynomials /\ v[0] = {0}
        /\ \A i \in 0 .. NRoots : v[i] = Plus(p[i], Mul(d, Shifted(u)[i]))
    BY <1>1, <1>2, RepairedType DEF IsLocator
  <1>4. w \in Polynomials
    <2>1. \A i \in 0 .. NRoots : p[i] \in Symbols
      BY <1>1 DEF Polynomials
    <2>2. \A i \in 0 .. NRoots : Mul(p[i], Reciprocal(d)) \in Symbols
      BY <1>2, <2>1, MulType
    <2> QED
      BY <2>2 DEF Polynomials
  <1>5. ASSUME NEW i \in 0 .. NRoots, i > m + 1 - l
        PROVE  v[i] = {}
    <2>1. i > l /\ i \in 1 .. NRoots /\ i - 1 \in 0 .. NRoots /\ i - 1 > m - l
      BY <1>1, <1>5
    <2>2. p[i] = {} /\ u[i - 1] = {}
      BY <2>1 DEF IsLocator
    <2>3. Shifted(u)[i] = {}
      BY <1>1, <2>1, <2>2, ShiftedType
    <2>4. v[i] = Plus({}, Mul(d, {})) /\ Mul(d, {}) = {}
      BY <1>2, <1>3, <2>2, <2>3, MulZero
    <2> QED
      BY <2>4, PlusRules
  <1>6. ASSUME NEW i \in 0 .. NRoots, i > (m + 1) - (m + 1 - l)
        PROVE  w[i] = {}
    <2>1. i > l
      BY <1>1, <1>6
    <2>2. p[i] = {}
      BY <2>1 DEF IsLocator
    <2> QED
      BY <1>2, <2>2, MulZero
  <1>7. \A n \in m + 1 - l .. m : Disc(v, q, n) = {}
    <2>1. m + 1 - l \in 0 .. m + 1 /\ m + 1 - l >= l
      BY <1>1
    <2>2. d # {} => m + 1 - l >= m + 1 - l
      BY <1>1
    <2> QED
      BY <2>1, <2>2, RepairedDisc
  <1>8. \A n \in 0 .. NRoots - 1 : Disc(w, q, n) = Mul(Reciprocal(d), Disc(p, q, n))
    BY <1>1, <1>2, <1>4, DiscTimes
  <1>9. Disc(w, q, m) = {0}
    BY <1>1, <1>2, <1>8, MulCommutes
  <1>10. ASSUME NEW n \in l .. m - 1
         PROVE  Disc(w, q, n) = {}
    <2>1. n \in 0 .. NRoots - 1 /\ Disc(p, q, n) = {}
      BY <1>1 DEF IsLocator
    <2> QED
      BY <1>2, <1>8, <2>1, MulZero
  <1> HIDE DEF v, w
  <1>11. /\ m + 1 \in 0 .. NRoots /\ m + 1 - l \in 0 .. m + 1 /\ m + 1 - l > 0 /\ (m + 1) - 1 = m
         /\ (m + 1) - (m + 1 - l) = l /\ (m + 1) - 2 = m - 1
    BY <1>1
  <1>12. IsLocator(q, v, w, m + 1 - l, m + 1)
    BY <1>3, <1>4, <1>5, <1>6, <1>7, <1>9, <1>10, <1>11 DEF IsLocator
  <1> QED
    BY <1>12 DEF v, w

(* Otherwise the length stays. *)
LEMMA Keep ==
  ASSUME NEW q \in SyndromeLists, NEW p, NEW u, NEW l, NEW m, m # NRoots,
         IsLocator(q, p, u, l, m), NEW d, d = Disc(p, q, m), ~(d # {} /\ 2 * l <= m)
  PROVE  IsLocator(q, Repaired(p, d, u), Shifted(u), l, m + 1)
  <1> DEFINE v == Repaired(p, d, u)
             w == Shifted(u)
  <1>1. /\ NRoots \in Nat \ {0} /\ m \in 0 .. NRoots - 1 /\ l \in 0 .. m
        /\ p \in Polynomials /\ u \in Polynomials
    BY Sizes DEF IsLocator
  <1>2. d \in Symbols
    BY <1>1, ProductTerms
  <1>3. /\ v \in Polynomials /\ v[0] = {0}
        /\ \A i \in 0 .. NRoots : v[i] = Plus(p[i], Mul(d, w[i]))
    BY <1>1, <1>2, RepairedType DEF IsLocator
  <1>4. w \in Polynomials /\ w[0] = {} /\ \A i \in 1 .. NRoots : w[i] = u[i - 1]
    BY <1>1, ShiftedType
  <1>5. ASSUME NEW i \in 0 .. NRoots, i > (m + 1) - l
        PROVE  w[i] = {}
    <2>1. i \in 1 .. NRoots /\ i - 1 \in 0 .. NRoots /\ i - 1 > m - l
      BY <1>1, <1>5
    <2>2. u[i - 1] = {}
      BY <2>1 DEF IsLocator
    <2> QED
      BY <1>4, <2>1, <2>2
  <1>6. ASSUME NEW i \in 0 .. NRoots, i > l
        PROVE  v[i] = {}
    <2>1. p[i] = {} /\ v[i] = Plus(p[i], Mul(d, w[i])) /\ w[i] \in Symbols
      BY <1>3, <1>4, <1>6 DEF IsLocator, Polynomials
    <2>2. d = {} \/ w[i] = {}
      <3>1. d # {} => i > (m + 1) - l
        BY <1>1, <1>6
      <3> QED
        BY <1>5, <3>1
    <2>3. Mul(d, w[i]) = {}
      BY <1>2, <2>1, <2>2, MulZero
    <2> QED
      BY <2>1, <2>3, PlusRules
  <1>7. \A n \in l .. m : Disc(v, q, n) = {}
    <2>1. l \in 0 .. m + 1 /\ l >= l /\ (d # {} => l >= m + 1 - l)
      BY <1>1
    <2> QED
      BY <1>1, <2>1, RepairedDisc
  <1>8. \A n \in 0 .. NRoots - 1 : Disc(w, q, n) = IF n = 0 THEN {} ELSE Disc(u, q, n - 1)
    BY <1>1, <1>4, DiscShift
  <1>9. l = 0 => v = One /\ \A n \in 0 .. m : q[n] = {}
    <2> SUFFICES ASSUME l = 0
                 PROVE  v = One /\ \A n \in 0 .. m : q[n] = {}
      OBVIOUS
    <2>1. d = {} /\ p = One /\ \A n \in 0 .. m - 1 : q[n] = {}
      BY <1>1 DEF IsLocator
    <2>2. q[m] = {}
      BY <1>1, <2>1, DiscOne
    <2>3. \A i \in 0 .. NRoots : v[i] = One[i]
      <3> SUFFICES ASSUME NEW i \in 0 .. NRoots PROVE v[i] = One[i]
        OBVIOUS
      <3>1. w[i] \in Symbols
        BY <1>4 DEF Polynomials
      <3>2. v[i] = Plus(One[i], Mul({}, w[i])) /\ Mul({}, w[i]) = {}
        BY <1>3, <2>1, <3>1, MulZero
      <3> QED
        BY <3>2, PlusRules
    <2>4. v = One
      <3>1. v = [i \in 0 .. NRoots |-> v[i]]
        BY <1>3 DEF Polynomials
      <3>2. One = [i \in 0 .. NRoots |-> One[i]]
        BY OneType DEF Polynomials
      <3> HIDE DEF v
      <3> QED
        BY <2>3, <3>1, <3>2
    <2> QED
      BY <1>1, <2>1, <2>2, <2>4
  <1>10. l > 0 => Disc(w, q, m) = {0} /\ \A n \in (m + 1) - l .. m - 1 : Disc(w, q, n) = {}
    <2> SUFFICES ASSUME l > 0
                 PROVE  Disc(w, q, m) = {0} /\ \A n \in (m + 1) - l .. m - 1 : Disc(w, q, n) = {}
      OBVIOUS
    <2>1. m # 0
      BY <1>1
    <2>2. Disc(u, q, m - 1) = {0} /\ \A n \in m - l .. m - 2 : Disc(u, q, n) = {}
      BY DEF IsLocator
    <2>3. ASSUME NEW n \in (m + 1) - l .. m - 1
          PROVE  Disc(w, q, n) = {}
      <3>1. n \in 0 .. NRoots - 1 /\ n # 0 /\ n - 1 \in m - l .. m - 2
        BY <1>1
      <3> QED
        BY <1>8, <2>2, <3>1
    <2> QED
      BY <1>1, <1>8, <2>1, <2>2, <2>3
  <1> HIDE DEF v, w
  <1>11. m + 1 \in 0 .. NRoots /\ l \in 0 .. m + 1 /\ (m + 1) - 1 = m /\ (m + 1) - 2 = m - 1
    BY <1>1
  <1>12. IsLocator(q, v, w, l, m + 1)
    BY <1>3, <1>4, <1>5, <1>6, <1>7, <1>9, <1>10, <1>11 DEF IsLocator
  <1> QED
    BY <1>12 DEF v, w

-----------------------------------------------------------------------------
(* The shortest recurrence *)

IsRecurrence(p, q, l, m) ==
  /\ p \in Polynomials
  /\ p[0] = {0}
  /\ \A i \in 0 .. NRoots : i > l => p[i] = {}
  /\ \A n \in l .. m - 1 : Disc(p, q, n) = {}

(* The products of three that make both p's discrepancies and c's. *)
Table(c, p, q, m) ==
  [i \in 0 .. nn |-> [j \in 0 .. nn |->
     IF i + j <= m THEN Mul(c[i], Mul(p[j], q[m - i - j])) ELSE {}]]

LEMMA TableType ==
  ASSUME NEW c \in Polynomials, NEW p \in Polynomials, NEW q \in SyndromeLists, NEW m \in 0 .. NRoots - 1
  PROVE  Table(c, p, q, m) \in Tables
  <1> SUFFICES ASSUME NEW i \in 0 .. nn, NEW j \in 0 .. nn, i + j <= m
               PROVE  Mul(c[i], Mul(p[j], q[m - i - j])) \in Symbols
    BY Unit DEF Table, Tables
  <1>1. i \in 0 .. NRoots /\ j \in 0 .. NRoots /\ m - i - j \in 0 .. NRoots - 1
    BY Sizes
  <1>2. c[i] \in Symbols /\ p[j] \in Symbols /\ q[m - i - j] \in Symbols
    BY <1>1 DEF Polynomials, SyndromeLists
  <1> QED
    BY <1>2, MulType

LEMMA TableRow ==
  ASSUME NEW c \in Polynomials, NEW p \in Polynomials, NEW q \in SyndromeLists, NEW m \in 0 .. NRoots - 1,
         NEW i \in 0 .. nn
  PROVE  PlusAll(Table(c, p, q, m)[i]) = IF i <= m THEN Mul(c[i], Disc(p, q, m - i)) ELSE {}
  <1> DEFINE f == Table(c, p, q, m)[i]
  <1>1. nn \in Nat /\ NRoots \in Nat
    BY Sizes
  <1>2. f \in [0 .. nn -> Symbols]
    <2>1. Table(c, p, q, m) \in Tables
      BY TableType
    <2> QED
      BY <2>1 DEF Tables
  <1>3. \A j \in 0 .. nn : f[j] = IF i + j <= m THEN Mul(c[i], Mul(p[j], q[m - i - j])) ELSE {}
    BY DEF Table
  <1> HIDE DEF f
  <1>4. CASE i <= m
    <2> DEFINE g == Products(p, q, m - i)
    <2>1. m - i \in 0 .. NRoots - 1 /\ i \in 0 .. NRoots
      BY <1>1, <1>4
    <2>2. c[i] \in Symbols
      BY <2>1 DEF Polynomials
    <2>3. /\ IsTerms(g)
          /\ \A j \in 0 .. nn : Term(g, j) = IF j <= m - i THEN Mul(p[j], q[(m - i) - j]) ELSE {}
      BY <2>1, ProductTerms
    <2>4. IsTerms(f) /\ \A j \in 0 .. nn : Term(f, j) = f[j]
      BY <1>2, FunctionTerms
    <2>5. ASSUME NEW j \in 0 .. nn
          PROVE  Term(f, j) = Mul(c[i], Term(g, j))
      <3>1. (i + j <= m <=> j <= m - i) /\ (m - i) - j = m - i - j
        BY <1>1
      <3>2. Mul(c[i], {}) = {}
        BY <2>2, MulZero
      <3> QED
        BY <1>3, <2>3, <2>4, <3>1, <3>2
    <2>6. nn + 1 \in 0 .. nn + 1
      BY <1>1
    <2> HIDE DEF g
    <2>7. Sums(f)[nn + 1] = Mul(c[i], Sums(g)[nn + 1])
      BY <2>2, <2>3, <2>4, <2>5, <2>6, SumsTimes
    <2> QED
      BY <1>4, <2>7 DEF f, g, PlusAll, Disc
  <1>5. CASE ~(i <= m)
    <2>1. \A j \in 0 .. nn : f[j] = {}
      BY <1>1, <1>3, <1>5
    <2>2. PlusAll(f) = {}
      BY <1>2, <2>1, ZeroSum
    <2> QED
      BY <1>5, <2>2 DEF f
  <1> QED
    BY <1>4, <1>5

(* The table with its two polynomials exchanged is the transposed table. *)
LEMMA TableColumn ==
  ASSUME NEW c \in Polynomials, NEW p \in Polynomials, NEW q \in SyndromeLists, NEW m \in 0 .. NRoots - 1,
         NEW j \in 0 .. nn
  PROVE  PlusAll([i \in 0 .. nn |-> Table(c, p, q, m)[i][j]]) =
           IF j <= m THEN Mul(p[j], Disc(c, q, m - j)) ELSE {}
  <1>1. ASSUME NEW i \in 0 .. nn
        PROVE  Table(c, p, q, m)[i][j] = Table(p, c, q, m)[j][i]
    <2>1. nn \in Nat /\ NRoots \in Nat
      BY Sizes
    <2>2. CASE i + j <= m
      <3>1. /\ i \in 0 .. NRoots /\ j \in 0 .. NRoots /\ m - i - j \in 0 .. NRoots - 1
            /\ m - i - j = m - j - i /\ j + i <= m
        BY <2>1, <2>2
      <3> DEFINE y == q[m - i - j]
      <3>2. c[i] \in Symbols /\ p[j] \in Symbols /\ y \in Symbols
        BY <3>1 DEF Polynomials, SyndromeLists
      <3>3. Table(c, p, q, m)[i][j] = Mul(c[i], Mul(p[j], y)) /\ Table(p, c, q, m)[j][i] = Mul(p[j], Mul(c[i], y))
        BY <2>2, <3>1 DEF Table
      <3> HIDE DEF y
      <3>4. Mul(c[i], Mul(p[j], y)) = Mul(Mul(c[i], p[j]), y)
        BY <3>2, MulAssociates
      <3>5. Mul(c[i], p[j]) = Mul(p[j], c[i])
        BY <3>2, MulCommutes
      <3>6. Mul(Mul(p[j], c[i]), y) = Mul(p[j], Mul(c[i], y))
        BY <3>2, MulAssociates
      <3> QED
        BY <3>3, <3>4, <3>5, <3>6
    <2>3. CASE ~(i + j <= m)
      <3>1. ~(j + i <= m)
        BY <2>1, <2>3
      <3> QED
        BY <2>3, <3>1 DEF Table
    <2> QED
      BY <2>2, <2>3
  <1>2. [i \in 0 .. nn |-> Table(c, p, q, m)[i][j]] = [i \in 0 .. nn |-> Table(p, c, q, m)[j][i]]
    BY <1>1
  <1>3. [i \in 0 .. nn |-> Table(p, c, q, m)[j][i]] = Table(p, c, q, m)[j]
    <2>1. Table(p, c, q, m) \in Tables
      BY TableType
    <2>2. Table(p, c, q, m)[j] \in [0 .. nn -> Symbols]
      BY <2>1 DEF Tables
    <2> QED
      BY <2>2
  <1>4. PlusAll(Table(p, c, q, m)[j]) = IF j <= m THEN Mul(p[j], Disc(c, q, m - j)) ELSE {}
    BY TableRow
  <1> QED
    BY <1>2, <1>3, <1>4

(* Massey's theorem: when a recurrence of length l fails at syndrome m,    *)
(* one that also fits there is longer than m - l.                          *)
LEMMA Massey ==
  ASSUME NEW q \in SyndromeLists, NEW m \in 0 .. NRoots - 1, NEW l \in 0 .. m, NEW k \in Nat,
         NEW p, IsRecurrence(p, q, l, m), Disc(p, q, m) # {},
         NEW c, IsRecurrence(c, q, k, m + 1)
  PROVE  k >= m + 1 - l
  <1> SUFFICES ASSUME k + l <= m PROVE FALSE
    BY Sizes
  <1> DEFINE A == Table(c, p, q, m)
  <1>1. nn \in Nat /\ NRoots \in Nat /\ NRoots < nn /\ p \in Polynomials /\ c \in Polynomials
    BY Sizes, ReedSolomonAssumption DEF IsRecurrence
  <1>2. A \in Tables
    BY <1>1, TableType
  <1>3. ASSUME NEW i \in 1 .. nn
        PROVE  RowSums(A)[i] = {}
    <2>1. RowSums(A)[i] = IF i <= m THEN Mul(c[i], Disc(p, q, m - i)) ELSE {}
      <3>1. i \in 0 .. nn
        BY <1>1
      <3>2. PlusAll(A[i]) = IF i <= m THEN Mul(c[i], Disc(p, q, m - i)) ELSE {}
        BY <1>1, <3>1, TableRow
      <3> QED
        BY <3>1, <3>2 DEF RowSums
    <2>2. CASE i <= k
      <3>1. m - i \in l .. m - 1 /\ i <= m /\ i \in 0 .. NRoots
        BY <1>1, <2>2
      <3>2. Disc(p, q, m - i) = {} /\ c[i] \in Symbols
        BY <3>1 DEF IsRecurrence, Polynomials
      <3> QED
        BY <2>1, <3>1, <3>2, MulZero
    <2>3. CASE i > k /\ i <= m
      <3>1. i \in 0 .. NRoots /\ m - i \in 0 .. NRoots - 1
        BY <1>1, <2>3
      <3>2. c[i] = {} /\ Disc(p, q, m - i) \in Symbols
        BY <1>1, <2>3, <3>1, ProductTerms DEF IsRecurrence
      <3> QED
        BY <2>1, <2>3, <3>2, MulZero
    <2>4. CASE i > m
      BY <1>1, <2>1, <2>4
    <2> QED
      BY <1>1, <2>2, <2>3, <2>4
  <1>4. RowSums(A)[0] = Disc(p, q, m)
    <2>1. 0 \in 0 .. nn /\ 0 <= m /\ m - 0 = m
      BY <1>1
    <2>2. RowSums(A)[0] = Mul(c[0], Disc(p, q, m))
      BY <1>1, <2>1, TableRow DEF RowSums
    <2>3. c[0] = {0} /\ Disc(p, q, m) \in Symbols
      BY <1>1, ProductTerms DEF IsRecurrence
    <2> QED
      BY <2>2, <2>3, MulUnit
  <1>5. ASSUME NEW j \in 0 .. nn
        PROVE  ColumnSums(A)[j] = {}
    <2>1. ColumnSums(A)[j] = IF j <= m THEN Mul(p[j], Disc(c, q, m - j)) ELSE {}
      BY <1>1, TableColumn DEF ColumnSums
    <2>2. CASE j <= l
      <3>1. m - j \in k .. (m + 1) - 1 /\ j <= m /\ j \in 0 .. NRoots
        BY <1>1, <2>2
      <3>2. Disc(c, q, m - j) = {} /\ p[j] \in Symbols
        BY <3>1 DEF IsRecurrence, Polynomials
      <3> QED
        BY <2>1, <3>1, <3>2, MulZero
    <2>3. CASE j > l /\ j <= m
      <3>1. j \in 0 .. NRoots /\ m - j \in 0 .. NRoots - 1
        BY <1>1, <2>3
      <3>2. p[j] = {} /\ Disc(c, q, m - j) \in Symbols
        BY <1>1, <2>3, <3>1, ProductTerms DEF IsRecurrence
      <3> QED
        BY <2>1, <2>3, <3>2, MulZero
    <2>4. CASE j > m
      BY <1>1, <2>1, <2>4
    <2> QED
      BY <1>1, <2>2, <2>3, <2>4
  <1>6. RowSums(A) \in [0 .. nn -> Symbols] /\ ColumnSums(A) \in [0 .. nn -> Symbols]
    <2>1. \A i \in 0 .. nn : RowSums(A)[i] \in Symbols /\ ColumnSums(A)[i] \in Symbols
      <3>1. Disc(p, q, m) \in Symbols
        BY <1>1, ProductTerms
      <3>2. \A i \in 0 .. nn : i = 0 \/ i \in 1 .. nn
        BY <1>1
      <3> QED
        BY <1>3, <1>4, <1>5, <3>1, <3>2, Unit
    <2> QED
      BY <2>1 DEF RowSums, ColumnSums
  <1>7. PlusAll(RowSums(A)) = Disc(p, q, m)
    BY <1>3, <1>4, <1>6, FirstTermSum
  <1>8. PlusAll(ColumnSums(A)) = {}
    BY <1>5, <1>6, ZeroSum
  <1> QED
    BY <1>2, <1>7, <1>8, SumsExchange

-----------------------------------------------------------------------------
(* The decoder *)

LocatorInv ==
  /\ encoded_message \in Received
  /\ data = <<>> => corrections = -EBADMSG
  /\ data # <<>> =>
       /\ DOMAIN data = 0 .. DataLen - 1
       /\ s \in SyndromeLists
       /\ IsLocator(s, lambda, b, el, r)

LEMMA InitLocatorInv == Init => LocatorInv
  <1> SUFFICES ASSUME Init PROVE LocatorInv
    OBVIOUS
  <1>1. encoded_message \in Received
    <2>1. PICK f \in Faults : encoded_message = Radio(ncrs_encode(message), f)
      BY DEF Init
    <2>2. ncrs_encode(message) \in Received
      BY PackType, EncodeType, InterleavedType DEF ncrs_encode
    <2> QED
      BY <2>1, <2>2, RadioType
  <1> QED
    BY <1>1 DEF Init, LocatorInv

LEMMA FirstLocator ==
  ASSUME NEW q \in SyndromeLists
  PROVE  IsLocator(q, One, One, 0, 0)
  BY Sizes, OneType DEF IsLocator

LEMMA TryShiftLocatorInv ==
  ASSUME LocatorInv, NEW attempt, TryShift(attempt)
  PROVE  LocatorInv'
  <1> DEFINE word == Moved(encoded_message, attempt)
  <1>1. word \in Received
    BY MovedType DEF LocatorInv
  <1>2. /\ data' = DataOf(word) /\ s' = Syndromes(DataOf(word), ParityOf(word))
        /\ lambda' = One /\ b' = One /\ el' = 0 /\ r' = 0 /\ encoded_message' = encoded_message
    BY DEF TryShift, Deinterleaved, decode_rs8, DataOf, ParityOf
  <1> HIDE DEF word
  <1>3. DataOf(word) \in DataLists /\ s' \in SyndromeLists
    BY <1>1, <1>2, PartsType, PartsAreWord, SyndromesType
  <1>4. DOMAIN data' = 0 .. DataLen - 1
    BY <1>2, <1>3 DEF DataLists
  <1>5. data' # <<>>
    <2>1. 0 \in DOMAIN data' /\ DOMAIN <<>> = {}
      BY <1>4, Sizes
    <2> QED
      BY <2>1
  <1>6. IsLocator(s', lambda', b', el', r')
    BY <1>2, <1>3, FirstLocator
  <1> QED
    BY <1>2, <1>3, <1>4, <1>5, <1>6 DEF LocatorInv

LEMMA BerlekampMasseyLocatorInv ==
  ASSUME LocatorInv, BerlekampMassey, encoded_message' = encoded_message
  PROVE  LocatorInv'
  <1>1. data # <<>>
    BY DEF LocatorInv, BerlekampMassey, Undecided, EBADMSG
  <1>2. s \in SyndromeLists /\ IsLocator(s, lambda, b, el, r) /\ DOMAIN data = 0 .. DataLen - 1
    BY <1>1 DEF LocatorInv
  <1>3. r # NRoots /\ el \in 0 .. r /\ r \in 0 .. NRoots /\ NRoots \in Nat
    BY <1>2, Sizes DEF BerlekampMassey, IsLocator
  <1> DEFINE d == Disc(lambda, s, r)
  <1>4. Discrepancy = d
    BY DEF Discrepancy, Disc, Products
  <1>5. /\ lambda' = Repaired(lambda, d, b) /\ r' = r + 1
        /\ data' = data /\ s' = s /\ corrections' = corrections
    BY <1>4 DEF BerlekampMassey, Repaired
  <1>6. CASE d # {} /\ 2 * el <= r
    <2>1. el' = r + 1 - el /\ b' = [i \in 0 .. NRoots |-> Mul(lambda[i], Reciprocal(d))]
      BY <1>4, <1>6 DEF BerlekampMassey
    <2> HIDE DEF d
    <2>2. IsLocator(s, Repaired(lambda, d, b), [i \in 0 .. NRoots |-> Mul(lambda[i], Reciprocal(d))],
                    r + 1 - el, r + 1)
      BY <1>2, <1>3, <1>6, Lengthen DEF d
    <2> QED
      BY <1>1, <1>2, <1>5, <2>1, <2>2 DEF LocatorInv
  <1>7. CASE ~(d # {} /\ 2 * el <= r)
    <2>1. el' = el /\ b' = Shifted(b)
      BY <1>4, <1>7 DEF BerlekampMassey, Shifted
    <2> HIDE DEF d
    <2>2. IsLocator(s, Repaired(lambda, d, b), Shifted(b), el, r + 1)
      BY <1>2, <1>3, <1>7, Keep DEF d
    <2> QED
      BY <1>1, <1>2, <1>5, <2>1, <2>2 DEF LocatorInv
  <1> QED
    BY <1>6, <1>7

LEMMA CorrectLocatorInv ==
  ASSUME LocatorInv, Correct, encoded_message' = encoded_message
  PROVE  LocatorInv'
  <1>1. data # <<>>
    BY DEF LocatorInv, Correct, Undecided, EBADMSG
  <1>2. DOMAIN data = 0 .. DataLen - 1 /\ DataLen \in Nat \ {0}
    BY <1>1, Sizes DEF LocatorInv
  <1>3. DOMAIN data' = DOMAIN data
    BY DEF Correct
  <1>4. data' # <<>>
    BY <1>2, <1>3
  <1>5. s' = s /\ lambda' = lambda /\ b' = b /\ el' = el /\ r' = r
    BY DEF Correct
  <1> QED
    BY <1>1, <1>2, <1>3, <1>4, <1>5 DEF LocatorInv

LEMMA NextLocatorInv == LocatorInv /\ [Next]_vars => LocatorInv'
  <1> SUFFICES ASSUME LocatorInv, [Next]_vars PROVE LocatorInv'
    OBVIOUS
  <1>1. CASE Begin
    BY <1>1, TryShiftLocatorInv DEF Begin
  <1>2. CASE Decode
    BY <1>2, BerlekampMasseyLocatorInv, CorrectLocatorInv DEF Decode
  <1>3. CASE NextShift
    BY <1>3, TryShiftLocatorInv DEF NextShift
  <1>4. CASE GiveUp
    BY <1>4 DEF GiveUp, LocatorInv, decodeVars
  <1>5. CASE Success
    BY <1>5 DEF Success, LocatorInv, decodeVars
  <1>6. CASE UNCHANGED vars
    BY <1>6 DEF vars, LocatorInv, decodeVars
  <1> QED
    BY <1>1, <1>2, <1>3, <1>4, <1>5, <1>6 DEF Next

(* The degree of a locator is at most its length. *)
LEMMA DegreeAtMostLength ==
  ASSUME IsLocator(s, lambda, b, el, r)
  PROVE  /\ deg_lambda \in 0 .. NRoots /\ deg_lambda <= el
         /\ lambda[deg_lambda] # {}
         /\ \A i \in 0 .. NRoots : i > deg_lambda => lambda[i] = {}
  <1> DEFINE S == {i \in 0 .. NRoots : lambda[i] # {}}
             T == {NRoots - i : i \in S}
  <1>1. NRoots \in Nat /\ el \in Nat /\ r \in Nat
    BY Sizes DEF IsLocator
  <1>2. 0 \in S
    BY <1>1, Unit DEF IsLocator
  <1>3. T \subseteq Nat /\ T # {}
    BY <1>1, <1>2
  <1>4. PICK t \in T : \A v \in T : t <= v
    BY <1>3, LeastNumber
  <1>5. PICK m \in S : t = NRoots - m
    BY <1>4
  <1>6. \A i \in S : m >= i
    <2> TAKE i \in S
    <2>1. NRoots - i \in T
      OBVIOUS
    <2>2. NRoots - m <= NRoots - i
      BY <1>4, <1>5, <2>1
    <2> QED
      BY <1>1, <2>2
  <1>7. deg_lambda \in S /\ \A i \in S : deg_lambda >= i
    BY <1>6 DEF deg_lambda, Max
  <1>8. deg_lambda <= el
    BY <1>1, <1>7 DEF IsLocator
  <1> QED
    BY <1>1, <1>7, <1>8

(* The Berlekamp-Massey loop of decode_rs.h keeps a recurrence for all the *)
(* syndromes seen so far, of the length it claims, whatever was received.  *)
THEOREM LocatorIsRight == Spec => []LocatorGeneratesSyndromes
  <1>1. LocatorInv => LocatorGeneratesSyndromes
    <2> SUFFICES ASSUME LocatorInv, data # <<>>
                 PROVE  el <= r /\ Recurrence(lambda, el)
      BY DEF LocatorGeneratesSyndromes
    <2>1. IsLocator(s, lambda, b, el, r)
      BY DEF LocatorInv
    <2>2. el <= r /\ lambda[0] = {0} /\ \A i \in 0 .. NRoots : i > el => lambda[i] = {}
      BY <2>1 DEF IsLocator
    <2>3. \A n \in el .. r - 1 : Disc(lambda, s, n) = {}
      BY <2>1 DEF IsLocator
    <2> QED
      BY <2>2, <2>3 DEF Disc, Products, Recurrence
  <1> QED
    BY <1>1, InitLocatorInv, NextLocatorInv, PTL DEF Spec

(* No recurrence is shorter. *)
Shortest(q, l, m) == \A k \in Nat : \A p : IsRecurrence(p, q, k, m) => l <= k

ShortestInv == LocatorInv /\ (data # <<>> => Shortest(s, el, r))

LEMMA RecurrenceBefore ==
  ASSUME NEW q, NEW m \in Nat, NEW k \in Nat, NEW p, IsRecurrence(p, q, k, m + 1)
  PROVE  IsRecurrence(p, q, k, m)
  BY DEF IsRecurrence

LEMMA BerlekampMasseyShortest ==
  ASSUME ShortestInv, BerlekampMassey
  PROVE  Shortest(s', el', r')
  <1>1. data # <<>>
    BY DEF ShortestInv, LocatorInv, BerlekampMassey, Undecided, EBADMSG
  <1>2. s \in SyndromeLists /\ IsLocator(s, lambda, b, el, r) /\ Shortest(s, el, r)
    BY <1>1 DEF ShortestInv, LocatorInv
  <1>3. r \in 0 .. NRoots - 1 /\ r \in Nat /\ el \in 0 .. r /\ NRoots \in Nat
    BY <1>2, Sizes DEF BerlekampMassey, IsLocator
  <1>4. s' = s /\ r' = r + 1
    BY DEF BerlekampMassey
  <1> DEFINE d == Disc(lambda, s, r)
  <1>5. Discrepancy = d
    BY DEF Discrepancy, Disc, Products
  <1> SUFFICES ASSUME NEW k \in Nat, NEW p, IsRecurrence(p, s, k, r + 1)
               PROVE  el' <= k
    BY <1>4 DEF Shortest
  <1>6. el <= k
    BY <1>2, <1>3, RecurrenceBefore DEF Shortest
  <1>7. CASE d # {} /\ 2 * el <= r
    <2>1. el' = r + 1 - el
      BY <1>5, <1>7 DEF BerlekampMassey
    <2>2. IsRecurrence(lambda, s, el, r)
      BY <1>2 DEF IsLocator, IsRecurrence
    <2>3. k >= r + 1 - el
      BY <1>2, <1>3, <1>7, <2>2, Massey
    <2> QED
      BY <1>3, <2>1, <2>3
  <1>8. CASE ~(d # {} /\ 2 * el <= r)
    BY <1>5, <1>6, <1>8 DEF BerlekampMassey
  <1> QED
    BY <1>7, <1>8

LEMMA TryShiftShortest ==
  ASSUME NEW attempt, TryShift(attempt)
  PROVE  Shortest(s', el', r')
  <1>1. el' = 0
    BY DEF TryShift, Deinterleaved, decode_rs8
  <1> QED
    BY <1>1 DEF Shortest

LEMMA NextShortestInv == ShortestInv /\ [Next]_vars => ShortestInv'
  <1> SUFFICES ASSUME ShortestInv, [Next]_vars PROVE ShortestInv'
    OBVIOUS
  <1>1. LocatorInv'
    BY NextLocatorInv DEF ShortestInv
  <1>2. CASE Begin
    BY <1>1, <1>2, TryShiftShortest DEF Begin, ShortestInv
  <1>3. CASE Decode
    <2>1. CASE BerlekampMassey
      BY <1>1, <2>1, BerlekampMasseyShortest DEF ShortestInv
    <2>2. CASE Correct
      <3>1. data # <<>>
        BY <2>2 DEF ShortestInv, LocatorInv, Correct, Undecided, EBADMSG
      <3> QED
        BY <1>1, <2>2, <3>1 DEF Correct, ShortestInv, Shortest
    <2> QED
      BY <1>3, <2>1, <2>2 DEF Decode
  <1>4. CASE NextShift
    BY <1>1, <1>4, TryShiftShortest DEF NextShift, ShortestInv
  <1>5. CASE GiveUp
    BY <1>1, <1>5 DEF GiveUp, ShortestInv, Shortest, decodeVars
  <1>6. CASE Success
    BY <1>1, <1>6 DEF Success, ShortestInv, Shortest, decodeVars
  <1>7. CASE UNCHANGED vars
    BY <1>1, <1>7 DEF vars, ShortestInv, Shortest, decodeVars
  <1> QED
    BY <1>2, <1>3, <1>4, <1>5, <1>6, <1>7 DEF Next

(* decode_rs.h:151-152: no polynomial 1 + tail[1] x + ... is a recurrence  *)
(* shorter than lambda, which is why no more errors are ever looked for    *)
(* than the syndromes call for.                                            *)
LocatorIsShortest ==
  data # <<>> =>
    \A length \in 0 .. el - 1 : \A tail \in [1 .. length -> Symbols] :
      ~Recurrence([i \in 0 .. NRoots |->
                     IF i = 0 THEN {0} ELSE IF i <= length THEN tail[i] ELSE {}], length)

(* Massey's theorem for the loop of decode_rs.h: the locator it has found  *)
(* is the shortest recurrence of the syndromes seen so far.                *)
THEOREM LocatorIsMinimal == Spec => []LocatorIsShortest
  <1>1. Init => ShortestInv
    BY InitLocatorInv DEF ShortestInv, Init
  <1>2. ShortestInv => LocatorIsShortest
    <2> SUFFICES ASSUME ShortestInv, data # <<>>,
                        NEW length \in 0 .. el - 1, NEW tail \in [1 .. length -> Symbols],
                        Recurrence([i \in 0 .. NRoots |->
                          IF i = 0 THEN {0} ELSE IF i <= length THEN tail[i] ELSE {}], length)
                 PROVE  FALSE
      BY DEF LocatorIsShortest
    <2> DEFINE p == [i \in 0 .. NRoots |->
                       IF i = 0 THEN {0} ELSE IF i <= length THEN tail[i] ELSE {}]
    <2>1. el \in 0 .. r /\ r \in 0 .. NRoots /\ NRoots \in Nat /\ Shortest(s, el, r)
      BY Sizes DEF ShortestInv, LocatorInv, IsLocator
    <2>2. p \in Polynomials
      <3> SUFFICES ASSUME NEW i \in 0 .. NRoots, i # 0, i <= length PROVE tail[i] \in Symbols
        BY Unit DEF Polynomials
      <3>1. i \in 1 .. length
        BY <2>1
      <3> QED
        BY <3>1
    <2>3. Recurrence(p, length)
      OBVIOUS
    <2> HIDE DEF p
    <2>4. IsRecurrence(p, s, length, r)
      BY <2>2, <2>3 DEF Recurrence, IsRecurrence, Disc, Products
    <2> QED
      BY <2>1, <2>4 DEF Shortest
  <1> QED
    BY <1>1, <1>2, NextShortestInv, PTL DEF Spec

-----------------------------------------------------------------------------
(* Series, and their values at powers of the generator *)

Series == [0 .. nn -> Symbols]

LEMMA SumPlus ==
  ASSUME NEW f \in Series, NEW g \in Series, NEW h \in Series,
         \A i \in 0 .. nn : h[i] = Plus(f[i], g[i])
  PROVE  PlusAll(h) = Plus(PlusAll(f), PlusAll(g))
  <1>1. /\ IsTerms(f) /\ IsTerms(g) /\ IsTerms(h)
        /\ \A i \in 0 .. nn : Term(h, i) = h[i] /\ Term(f, i) = f[i] /\ Term(g, i) = g[i]
    BY FunctionTerms DEF Series
  <1>2. \A i \in 0 .. nn : Term(h, i) = Plus(Term(f, i), Term(g, i))
    BY <1>1
  <1>3. nn + 1 \in 0 .. nn + 1
    BY Sizes
  <1> QED
    BY <1>1, <1>2, <1>3, SumsPlus DEF PlusAll

LEMMA SumTimes ==
  ASSUME NEW f \in Series, NEW g \in Series, NEW c \in Symbols,
         \A i \in 0 .. nn : g[i] = Mul(c, f[i])
  PROVE  PlusAll(g) = Mul(c, PlusAll(f))
  <1>1. /\ IsTerms(f) /\ IsTerms(g)
        /\ \A i \in 0 .. nn : Term(f, i) = f[i] /\ Term(g, i) = g[i]
    BY FunctionTerms DEF Series
  <1>2. \A i \in 0 .. nn : Term(g, i) = Mul(c, Term(f, i))
    BY <1>1
  <1>3. nn + 1 \in 0 .. nn + 1
    BY Sizes
  <1> QED
    BY <1>1, <1>2, <1>3, SumsTimes DEF PlusAll

LEMMA SumType ==
  ASSUME NEW f \in Series
  PROVE  PlusAll(f) \in Symbols
  BY FunctionTerms DEF Series

(* Only one term is not 0. *)
LEMMA OnlyTermSum ==
  ASSUME NEW f \in Series, NEW k \in 0 .. nn, \A i \in 0 .. nn : i # k => f[i] = {}
  PROVE  PlusAll(f) = f[k]
  <1>1. nn \in Nat
    BY Sizes
  <1>2. IsTerms(f) /\ \A i \in 0 .. nn : Term(f, i) = f[i]
    BY FunctionTerms DEF Series
  <1> DEFINE z == [i \in 0 .. nn |-> {}]
  <1>3. z \in Series
    BY Unit DEF Series
  <1>4. IsTerms(z) /\ \A i \in 0 .. nn : Term(z, i) = {}
    BY <1>3, FunctionTerms DEF Series
  <1> HIDE DEF z
  <1>5. Sums(f)[k] = {}
    <2>1. \A i \in 0 .. k - 1 : Term(f, i) = Term(z, i)
      <3> TAKE i \in 0 .. k - 1
      <3>1. i \in 0 .. nn /\ i # k
        BY <1>1
      <3> QED
        BY <1>2, <1>4, <3>1
    <2>2. k \in 0 .. nn + 1
      BY <1>1
    <2>3. Sums(f)[k] = Sums(z)[k]
      BY <1>2, <1>4, <2>1, <2>2, SumsAgree
    <2>4. Sums(z)[k] = Sums(z)[0] /\ Sums(z)[0] = {}
      <3>1. 0 \in 0 .. nn + 1 /\ k \in 0 .. nn + 1
        BY <1>1
      <3>2. \A n \in 0 .. nn + 1 : Sums(z)[n] = Sums(z)[0]
        BY <1>4, <3>1, SumsEnd
      <3> QED
        BY <1>4, <3>1, <3>2, SumsStep
    <2> QED
      BY <2>3, <2>4
  <1>6. Sums(f)[k + 1] = Plus(Sums(f)[k], Term(f, k))
    BY <1>2, SumsStep
  <1>7. Sums(f)[nn + 1] = Sums(f)[k + 1]
    <2>1. k + 1 \in 0 .. nn + 1 /\ nn + 1 \in k + 1 .. nn + 1
      BY <1>1
    <2>2. \A i \in k + 1 .. nn : Term(f, i) = {}
      <3> TAKE i \in k + 1 .. nn
      <3>1. i \in 0 .. nn /\ i # k
        BY <1>1
      <3> QED
        BY <1>2, <3>1
    <2> QED
      BY <1>2, <2>1, <2>2, SumsEnd
  <1> QED
    BY <1>2, <1>5, <1>6, <1>7, PlusRules DEF PlusAll

(* The terms outside of a function's domain do not matter. *)
LEMMA SumOfTerms ==
  ASSUME NEW f, NEW g \in Series, \A i \in 0 .. nn : Term(f, i) = g[i]
  PROVE  PlusAll(f) = PlusAll(g)
  <1>1. IsTerms(g) /\ \A i \in 0 .. nn : Term(g, i) = g[i]
    BY FunctionTerms DEF Series
  <1>2. IsTerms(f)
    BY DEF IsTerms, Series
  <1>3. nn + 1 \in 0 .. nn + 1 /\ (nn + 1) - 1 = nn
    BY Sizes
  <1>4. \A i \in 0 .. (nn + 1) - 1 : Term(f, i) = Term(g, i)
    BY <1>1, <1>3
  <1> HIDE DEF Series
  <1> QED
    BY <1>1, <1>2, <1>3, <1>4, SumsAgree DEF PlusAll

(* Powers of powers *)
LEMMA ExpType == ASSUME NEW n \in Nat PROVE Exp(n) \in Symbols /\ Exp(n) # {}
  BY ExpStep

LEMMA ExpPlus ==
  ASSUME NEW a \in Nat, NEW i \in Nat, NEW j \in Nat
  PROVE  /\ Exp(a * (i + j)) = Mul(Exp(a * i), Exp(a * j))
         /\ Exp((i + j) * a) = Mul(Exp(i * a), Exp(j * a))
  <1>1. a * i \in Nat /\ a * j \in Nat /\ a * (i + j) = a * i + a * j
    OBVIOUS
  <1>2. i * a \in Nat /\ j * a \in Nat /\ (i + j) * a = i * a + j * a
    OBVIOUS
  <1> QED
    BY <1>1, <1>2, MulExp

LEMMA ExpPeriod ==
  ASSUME NEW a \in Nat, NEW i \in Nat
  PROVE  Exp(a + nn * i) = Exp(a) /\ Exp(nn * i) = {0}
  <1>1. nn \in Nat \ {0} /\ nn * i \in Nat
    BY Sizes
  <1>2. Exp(nn * i) = {0}
    <2>1. 0 \in 0 .. nn - 1 /\ i \in Int /\ nn * i + 0 = nn * i
      BY <1>1
    <2>2. (nn * i + 0) % nn = 0
      BY <1>1, <2>1, RemainderOf
    <2>3. (nn * 0 + 0) % nn = 0
      BY <1>1, <2>1, RemainderOf
    <2>4. nn * 0 + 0 = 0
      BY <1>1
    <2>5. (nn * i) % nn = 0 % nn
      BY <2>1, <2>2, <2>3, <2>4
    <2> QED
      BY <2>5, ExpZero DEF Exp
  <1>3. Exp(a + nn * i) = Mul(Exp(a), Exp(nn * i))
    BY <1>1, MulExp
  <1> QED
    BY <1>2, <1>3, ExpType, MulUnit

(* Powers of equal powers are equal. *)
LEMMA ExpTimes ==
  ASSUME NEW a \in Nat, NEW c \in Nat, Exp(a) = Exp(c), NEW k \in Nat
  PROVE  Exp(a * k) = Exp(c * k)
  <1> DEFINE T == {n \in 0 .. k : Exp(a * n) = Exp(c * n)}
  <1>1. 0 \in T
    <2>1. a * 0 = 0 /\ c * 0 = 0 /\ 0 \in 0 .. k
      OBVIOUS
    <2> QED
      BY <2>1
  <1>2. ASSUME NEW n \in 0 .. k - 1, n \in T
        PROVE  n + 1 \in T
    <2>1. n \in Nat /\ n + 1 \in 0 .. k /\ 1 \in Nat /\ a * 1 = a /\ c * 1 = c
      OBVIOUS
    <2>2. Exp(a * (n + 1)) = Mul(Exp(a * n), Exp(a * 1)) /\ Exp(c * (n + 1)) = Mul(Exp(c * n), Exp(c * 1))
      BY <2>1, ExpPlus
    <2> QED
      BY <1>2, <2>1, <2>2
  <1>3. \A n \in 0 .. k - 1 : n \in T => n + 1 \in T
    BY <1>2
  <1> HIDE DEF T
  <1>4. \A n \in 0 .. k : n \in T
    BY <1>1, <1>3, Upwards
  <1>5. k \in 0 .. k
    OBVIOUS
  <1> QED
    BY <1>4, <1>5 DEF T

(* Different logarithms are those of different symbols, as there are as    *)
(* many logarithms as symbols.                                             *)
LEMMA ExpInjective ==
  ASSUME NEW i \in 0 .. nn - 1, NEW j \in 0 .. nn - 1, Exp(i) = Exp(j)
  PROVE  i = j
  <1> DEFINE f == [n \in 0 .. nn - 1 |-> Exp(n)]
             S == 0 .. nn - 1
             T == Symbols \ {{}}
  <1>1. nn \in Nat \ {0}
    BY Sizes
  <1>2. IsFiniteSet(S) /\ Cardinality(S) = nn
    BY <1>1, FS_Interval
  <1>3. Cardinality(T) = nn
    <2>1. {} \in Symbols
      BY Unit
    <2>2. Cardinality(Symbols \ {{}}) = Cardinality(Symbols) - 1
      BY <2>1, Sizes, FS_RemoveElement
    <2> QED
      BY <1>1, <2>2, Sizes
  <1>4. f \in [S -> T]
    <2>1. \A n \in S : Exp(n) \in T
      BY <1>1, ExpType
    <2> QED
      BY <2>1
  <1>5. \A x \in T : \E n \in S : f[n] = x
    <2> TAKE x \in T
    <2>1. index_of[x] \in S /\ Exp(index_of[x]) = x
      BY IndexOf
    <2>2. f[index_of[x]] = x
      BY <2>1
    <2> QED
      BY <2>1, <2>2
  <1>6. f[i] = f[j]
    OBVIOUS
  <1> HIDE DEF f, T
  <1>7. f \in Surjection(S, T)
    BY <1>4, <1>5 DEF Surjection
  <1>8. f \in Injection(S, T)
    <2> HIDE DEF S
    <2> QED
      BY <1>2, <1>3, <1>7, FS_SurjSameCardinalityImpliesInj
  <1> QED
    BY <1>6, <1>8 DEF Injection, IsInjective

LEMMA ExpInjectiveRoots ==
  ASSUME NEW i \in 1 .. nn, NEW j \in 1 .. nn, Exp(i) = Exp(j)
  PROVE  i = j
  <1>1. nn \in Nat \ {0}
    BY Sizes
  <1>2. Exp(nn) = Exp(0)
    <2>1. 1 \in Nat /\ nn * 1 = nn
      BY <1>1
    <2> QED
      BY <2>1, ExpPeriod, ExpZero
  <1> DEFINE wrap(n) == IF n = nn THEN 0 ELSE n
  <1>3. /\ wrap(i) \in 0 .. nn - 1 /\ wrap(j) \in 0 .. nn - 1
        /\ Exp(wrap(i)) = Exp(i) /\ Exp(wrap(j)) = Exp(j)
    BY <1>1, <1>2
  <1>4. wrap(i) = wrap(j)
    <2> HIDE DEF wrap
    <2> QED
      BY <1>3, ExpInjective
  <1> QED
    BY <1>1, <1>4

LEMMA PlusZero ==
  ASSUME NEW x, NEW y
  PROVE  Plus(x, y) = {} <=> x = y
  BY DEF Plus, SymDiff

LEMMA MulNotZero ==
  ASSUME NEW x \in Symbols, NEW y \in Symbols
  PROVE  Mul(x, y) = {} <=> x = {} \/ y = {}
  <1>1. x = {} \/ y = {} => Mul(x, y) = {}
    BY MulZero
  <1>2. ASSUME x # {}, y # {}
        PROVE  Mul(x, y) # {}
    <2>1. PICK i \in Nat : Exp(i) = x
      BY <1>2, IndexOf
    <2>2. PICK j \in Nat : Exp(j) = y
      BY <1>2, IndexOf
    <2>3. i + j \in Nat /\ Mul(x, y) = Exp(i + j)
      BY <2>1, <2>2, MulExp
    <2> QED
      BY <2>3, ExpType
  <1> QED
    BY <1>1, <1>2

LEMMA MulCancel ==
  ASSUME NEW c \in Symbols, NEW x \in Symbols, NEW y \in Symbols, c # {}, Mul(c, x) = Mul(c, y)
  PROVE  x = y
  <1>1. Plus(x, y) \in Symbols /\ Mul(c, Plus(x, y)) = Plus(Mul(c, x), Mul(c, y))
    BY PlusType, Distributes
  <1>2. Mul(c, Plus(x, y)) = {}
    BY <1>1, PlusZero
  <1> QED
    BY <1>1, <1>2, MulNotZero, PlusZero

(* The value of a series at the power a of the generator. *)
Parts(f, a) == [i \in 0 .. nn |-> Mul(f[i], Exp(a * i))]
Value(f, a) == PlusAll(Parts(f, a))

LEMMA PartsSeries ==
  ASSUME NEW f \in Series, NEW a \in Nat
  PROVE  /\ Parts(f, a) \in Series
         /\ \A i \in 0 .. nn : /\ f[i] \in Symbols /\ Exp(a * i) \in Symbols /\ Exp(a * i) # {}
                               /\ Parts(f, a)[i] = Mul(f[i], Exp(a * i))
         /\ Value(f, a) \in Symbols
         /\ Parts(f, a)[0] = f[0]
  <1>1. nn \in Nat /\ \A i \in 0 .. nn : a * i \in Nat
    BY Sizes
  <1>2. \A i \in 0 .. nn : f[i] \in Symbols /\ Exp(a * i) \in Symbols /\ Exp(a * i) # {}
    BY <1>1, ExpType DEF Series
  <1>3. \A i \in 0 .. nn : Mul(f[i], Exp(a * i)) \in Symbols
    BY <1>2, MulType
  <1>4. Parts(f, a) \in Series
    BY <1>3 DEF Parts, Series
  <1>5. Value(f, a) \in Symbols
    BY <1>4, SumType DEF Value
  <1>6. Parts(f, a)[0] = f[0]
    <2>1. a * 0 = 0 /\ 0 \in 0 .. nn
      BY <1>1
    <2>2. Mul(f[0], {0}) = f[0]
      BY <1>2, <2>1, MulUnit
    <2> QED
      BY <2>1, <2>2, ExpZero DEF Parts
  <1> QED
    BY <1>2, <1>4, <1>5, <1>6 DEF Parts

Degree(f, d) == \A i \in 0 .. nn : i > d => f[i] = {}

(* A series times 1 + x. *)
Times(f, x) == [i \in 0 .. nn |-> Plus(f[i], IF i = 0 THEN {} ELSE Mul(x, f[i - 1]))]

LEMMA TimesType ==
  ASSUME NEW f \in Series, NEW x \in Symbols
  PROVE  Times(f, x) \in Series
  <1> SUFFICES ASSUME NEW i \in 0 .. nn
               PROVE  Plus(f[i], IF i = 0 THEN {} ELSE Mul(x, f[i - 1])) \in Symbols
    BY DEF Times, Series
  <1>1. f[i] \in Symbols
    BY DEF Series
  <1>2. i # 0 => Mul(x, f[i - 1]) \in Symbols
    <2> SUFFICES ASSUME i # 0 PROVE Mul(x, f[i - 1]) \in Symbols
      OBVIOUS
    <2>1. i - 1 \in 0 .. nn
      BY Sizes
    <2>2. f[i - 1] \in Symbols
      BY <2>1 DEF Series
    <2> QED
      BY <2>2, MulType
  <1> QED
    BY <1>1, <1>2, Unit, PlusType

LEMMA TimesDegree ==
  ASSUME NEW f \in Series, NEW x \in Symbols, NEW d \in Nat, Degree(f, d)
  PROVE  Degree(Times(f, x), d + 1)
  <1> SUFFICES ASSUME NEW i \in 0 .. nn, i > d + 1 PROVE Times(f, x)[i] = {}
    BY DEF Degree
  <1>1. i # 0 /\ i - 1 \in 0 .. nn /\ i > d /\ i - 1 > d
    BY Sizes
  <1>2. f[i] = {} /\ f[i - 1] = {}
    BY <1>1 DEF Degree
  <1>3. Times(f, x)[i] = Plus({}, Mul(x, {})) /\ Mul(x, {}) = {}
    BY <1>1, <1>2, MulZero DEF Times
  <1> QED
    BY <1>3, PlusRules

(* The factor's value is a factor of the value. *)
LEMMA TimesValue ==
  ASSUME NEW f \in Series, NEW x \in Symbols, f[nn] = {}, NEW a \in Nat
  PROVE  Value(Times(f, x), a) = Mul(Plus({0}, Mul(x, Exp(a))), Value(f, a))
  <1> DEFINE g == Parts(f, a)
             h == Parts(Times(f, x), a)
             c == Mul(x, Exp(a))
             k == [i \in 0 .. nn |-> IF i = 0 THEN {} ELSE Mul(c, g[i - 1])]
             m == [i \in 0 .. nn |-> IF i = 0 THEN {} ELSE g[i - 1]]
  <1>1. nn \in Nat \ {0} /\ Exp(a) \in Symbols /\ c \in Symbols
    BY Sizes, ExpType, MulType
  <1>2. /\ g \in Series /\ h \in Series
        /\ \A i \in 0 .. nn : /\ f[i] \in Symbols /\ Exp(a * i) \in Symbols /\ g[i] \in Symbols
                              /\ g[i] = Mul(f[i], Exp(a * i))
                              /\ h[i] = Mul(Times(f, x)[i], Exp(a * i))
    <2>1. Times(f, x) \in Series
      BY TimesType
    <2>2. h \in Series /\ \A i \in 0 .. nn : h[i] = Mul(Times(f, x)[i], Exp(a * i))
      BY <2>1, PartsSeries
    <2>3. /\ g \in Series
          /\ \A i \in 0 .. nn : /\ f[i] \in Symbols /\ Exp(a * i) \in Symbols
                                /\ g[i] = Mul(f[i], Exp(a * i))
      BY PartsSeries
    <2>4. \A i \in 0 .. nn : g[i] \in Symbols
      BY <2>3 DEF Series
    <2> QED
      BY <2>2, <2>3, <2>4
  <1>3. \A i \in 1 .. nn : i - 1 \in 0 .. nn /\ i \in 0 .. nn
    BY <1>1
  <1>4. m \in Series
    BY <1>2, <1>3, Unit DEF Series
  <1>5. k \in Series
    <2>1. \A i \in 0 .. nn : Mul(c, g[i]) \in Symbols
      BY <1>1, <1>2, MulType
    <2> HIDE DEF g, c
    <2> QED
      BY <1>3, <2>1, Unit DEF Series
  <1>6. ASSUME NEW i \in 0 .. nn
        PROVE  h[i] = Plus(g[i], k[i])
    <2>1. CASE i = 0
      <3>1. Plus(f[0], {}) = f[0] /\ Plus(g[0], {}) = g[0]
        BY PlusRules
      <3>2. Times(f, x)[0] = f[0]
        BY <2>1, <3>1 DEF Times
      <3> QED
        BY <1>2, <2>1, <3>1, <3>2
    <2>2. CASE i # 0
      <3>1. i \in 1 .. nn /\ i - 1 \in 0 .. nn /\ i - 1 \in Nat /\ a * (i - 1) \in Nat
            /\ a * (i - 1) + a = a * i
        BY <1>1, <2>2
      <3> DEFINE y == f[i - 1]
                 u == Exp(a * (i - 1))
                 v == Exp(a)
      <3>2. y \in Symbols /\ u \in Symbols /\ v \in Symbols /\ f[i] \in Symbols /\ g[i - 1] = Mul(y, u)
            /\ Exp(a * i) \in Symbols
        BY <1>1, <1>2, <3>1
      <3>3. Exp(a * i) = Mul(u, v)
        BY <3>1, MulExp
      <3>4. Times(f, x)[i] = Plus(f[i], Mul(x, y))
        BY <2>2 DEF Times
      <3>5. k[i] = Mul(Mul(x, v), Mul(y, u))
        BY <2>2, <3>2
      <3> HIDE DEF y, u, v
      <3>6. Mul(x, y) \in Symbols /\ Mul(y, u) \in Symbols /\ Mul(x, v) \in Symbols /\ Mul(u, v) \in Symbols
        BY <3>2, MulType
      <3>7. Mul(Plus(f[i], Mul(x, y)), Exp(a * i)) = Plus(Mul(f[i], Exp(a * i)), Mul(Mul(x, y), Exp(a * i)))
        BY <3>2, <3>6, DistributesRight
      <3>8. Mul(Mul(x, y), Mul(u, v)) = Mul(Mul(x, v), Mul(y, u))
        <4>1. Mul(Mul(x, y), Mul(u, v)) = Mul(x, Mul(y, Mul(u, v)))
          BY <3>2, <3>6, MulAssociates
        <4>2. Mul(y, Mul(u, v)) = Mul(Mul(y, u), v)
          BY <3>2, MulAssociates
        <4>3. Mul(Mul(y, u), v) = Mul(v, Mul(y, u))
          BY <3>2, <3>6, MulCommutes
        <4>4. Mul(Mul(x, v), Mul(y, u)) = Mul(x, Mul(v, Mul(y, u)))
          BY <3>2, <3>6, MulAssociates
        <4> QED
          BY <4>1, <4>2, <4>3, <4>4
      <3> QED
        BY <1>2, <3>3, <3>4, <3>5, <3>7, <3>8
    <2> QED
      BY <2>1, <2>2
  <1>7. \A i \in 0 .. nn : k[i] = Mul(c, m[i])
    BY <1>1, MulZero
  <1>8. PlusAll(m) = PlusAll(g)
    <2>1. IsTerms(m) /\ IsTerms(g) /\ \A i \in 0 .. nn : Term(m, i) = m[i] /\ Term(g, i) = g[i]
      BY <1>2, <1>4, FunctionTerms DEF Series
    <2>2. Term(m, 0) = {}
      BY <1>1, <2>1
    <2>3. \A i \in 0 .. nn - 1 : Term(m, i + 1) = Term(g, i)
      <3> TAKE i \in 0 .. nn - 1
      <3>1. i + 1 \in 0 .. nn /\ i + 1 # 0 /\ (i + 1) - 1 = i /\ i \in 0 .. nn
        BY <1>1
      <3> HIDE DEF g
      <3>2. m[i + 1] = g[i]
        BY <3>1
      <3> HIDE DEF m
      <3> QED
        BY <2>1, <3>1, <3>2
    <2>4. Term(g, nn) = {}
      <3>1. nn \in 0 .. nn
        BY <1>1
      <3>2. Mul({}, Exp(a * nn)) = {}
        BY <1>2, <3>1, MulZero
      <3> QED
        BY <1>2, <2>1, <3>1, <3>2
    <2> HIDE DEF m, g
    <2>5. Sums(m)[nn + 1] = Sums(g)[nn]
      BY <1>1, <2>1, <2>2, <2>3, SumsShift
    <2>6. Sums(g)[nn + 1] = Plus(Sums(g)[nn], Term(g, nn))
      BY <1>1, <2>1, SumsStep
    <2> QED
      BY <2>4, <2>5, <2>6, PlusRules DEF PlusAll
  <1> HIDE DEF g, h, c, k, m
  <1>9. PlusAll(h) = Plus(PlusAll(g), Mul(c, PlusAll(g)))
    BY <1>1, <1>2, <1>4, <1>5, <1>6, <1>7, <1>8, SumPlus, SumTimes
  <1>10. PlusAll(g) \in Symbols
    BY <1>2, SumType
  <1>11. Plus(PlusAll(g), Mul(c, PlusAll(g))) = Mul(Plus({0}, c), PlusAll(g))
    <2> DEFINE v == PlusAll(g)
    <2>1. v \in Symbols /\ {0} \in Symbols /\ Plus({0}, c) \in Symbols
      BY <1>1, <1>10, Unit, PlusType
    <2> HIDE DEF v
    <2>2. Mul(Plus({0}, c), v) = Mul(v, Plus({0}, c))
      BY <2>1, MulCommutes
    <2>3. Mul(v, Plus({0}, c)) = Plus(Mul(v, {0}), Mul(v, c))
      BY <1>1, <2>1, Distributes
    <2>4. Mul(v, {0}) = v /\ Mul(v, c) = Mul(c, v)
      BY <1>1, <2>1, MulUnit, MulCommutes
    <2>5. Plus(v, Mul(c, v)) = Mul(Plus({0}, c), v)
      BY <2>2, <2>3, <2>4
    <2> QED
      BY <2>5 DEF v
  <1> QED
    BY <1>9, <1>11 DEF h, g, c, Value

Reciprocals(a, c) == Mul(Exp(a), Exp(c)) = {0}

LEMMA InversePowers ==
  ASSUME NEW a \in Nat, NEW c \in Nat, Reciprocals(a, c), NEW i \in Nat
  PROVE  Mul(Exp(a * i), Exp(c * i)) = {0}
  <1>1. a + c \in Nat /\ a * i \in Nat /\ c * i \in Nat /\ a * i + c * i = (a + c) * i /\ 0 * i = 0
    OBVIOUS
  <1>2. Exp(a + c) = Exp(0)
    BY MulExp, ExpZero DEF Reciprocals
  <1>3. Exp((a + c) * i) = Exp(0 * i)
    BY <1>1, <1>2, ExpTimes
  <1> QED
    BY <1>1, <1>3, MulExp, ExpZero

(* A series divided by 1 + x, where x and the value's place are inverse. *)
Quotient(f, a, c) == [i \in 0 .. nn |-> Mul(Exp(a * i), Sums(Parts(f, c))[i + 1])]

LEMMA QuotientTimes ==
  ASSUME NEW f \in Series, NEW a \in Nat, NEW c \in Nat, Reciprocals(a, c)
  PROVE  /\ Quotient(f, a, c) \in Series
         /\ f = Times(Quotient(f, a, c), Exp(a))
         /\ Quotient(f, a, c)[0] = f[0]
  <1> DEFINE q == Quotient(f, a, c)
             h == Parts(f, c)
  <1>1. nn \in Nat /\ Exp(a) \in Symbols
    BY Sizes, ExpType
  <1>2. /\ h \in Series /\ IsTerms(h)
        /\ \A i \in 0 .. nn : /\ f[i] \in Symbols /\ Exp(c * i) \in Symbols
                              /\ Term(h, i) = Mul(f[i], Exp(c * i))
    <2>1. h \in Series /\ \A i \in 0 .. nn : f[i] \in Symbols /\ Exp(c * i) \in Symbols /\ h[i] = Mul(f[i], Exp(c * i))
      BY PartsSeries
    <2> HIDE DEF h
    <2>2. IsTerms(h) /\ \A i \in 0 .. nn : Term(h, i) = h[i]
      BY <2>1, FunctionTerms DEF Series
    <2> QED
      BY <2>1, <2>2
  <1>3. Sums(h)[0] = {} /\ (\A i \in 0 .. nn : Sums(h)[i + 1] = Plus(Sums(h)[i], Term(h, i)))
        /\ \A i \in 0 .. nn + 1 : Sums(h)[i] \in Symbols
    BY <1>2, SumsStep
  <1>4. \A i \in 0 .. nn : q[i] = Mul(Exp(a * i), Sums(h)[i + 1])
    BY DEF Quotient
  <1>5. \A i \in 0 .. nn : Exp(a * i) \in Symbols /\ Sums(h)[i + 1] \in Symbols
    <2> TAKE i \in 0 .. nn
    <2>1. a * i \in Nat /\ i + 1 \in 0 .. nn + 1
      BY <1>1
    <2> QED
      BY <1>3, <2>1, ExpType
  <1>6. q \in Series
    <2>1. \A i \in 0 .. nn : Mul(Exp(a * i), Sums(h)[i + 1]) \in Symbols
      BY <1>5, MulType
    <2> HIDE DEF h
    <2> QED
      BY <2>1 DEF Quotient, Series, h
  <1> HIDE DEF q, h
  <1>7. q[0] = f[0]
    <2>1. 0 \in 0 .. nn /\ a * 0 = 0 /\ c * 0 = 0
      BY <1>1
    <2>2. Term(h, 0) = f[0]
      BY <1>2, <2>1, ExpZero, MulUnit
    <2>3. Sums(h)[0 + 1] = f[0]
      BY <1>3, <2>1, <2>2, PlusRules
    <2>4. f[0] \in Symbols
      BY <1>2, <2>1
    <2> QED
      BY <1>4, <2>1, <2>3, <2>4, ExpZero, MulUnit
  <1>8. ASSUME NEW i \in 0 .. nn, i # 0
        PROVE  f[i] = Plus(q[i], Mul(Exp(a), q[i - 1]))
    <2>1. /\ i - 1 \in 0 .. nn /\ i \in Nat /\ (i - 1) + 1 = i /\ a * i \in Nat
          /\ i - 1 \in Nat /\ a * (i - 1) \in Nat /\ a + a * (i - 1) = a * i /\ i \in 0 .. nn + 1
      BY <1>1, <1>8
    <2> DEFINE S == Sums(h)[i]
               x == Exp(a * i)
               y == Exp(c * i)
               w == Exp(a * (i - 1))
    <2>2. S \in Symbols /\ x \in Symbols /\ y \in Symbols /\ w \in Symbols /\ f[i] \in Symbols
      BY <1>2, <1>3, <2>1, ExpType
    <2>3. Sums(h)[i + 1] = Plus(S, Mul(f[i], y))
      BY <1>2, <1>3
    <2>4. q[i] = Mul(x, Plus(S, Mul(f[i], y))) /\ q[i - 1] = Mul(w, S)
      BY <1>4, <2>1, <2>3
    <2>5. Mul(Exp(a), w) = x
      BY <2>1, MulExp
    <2>6. Mul(x, y) = {0}
      BY <2>1, InversePowers
    <2> HIDE DEF S, x, y, w
    <2>7. Mul(f[i], y) \in Symbols
      BY <2>2, MulType
    <2>8. Mul(x, Mul(f[i], y)) = f[i]
      <3>1. Mul(f[i], y) = Mul(y, f[i])
        BY <2>2, MulCommutes
      <3>2. Mul(x, Mul(y, f[i])) = Mul(Mul(x, y), f[i])
        BY <2>2, MulAssociates
      <3> QED
        BY <2>2, <2>6, <3>1, <3>2, MulUnit
    <2>9. q[i] = Plus(Mul(x, S), f[i])
      BY <2>2, <2>4, <2>7, <2>8, Distributes
    <2>10. Mul(Exp(a), q[i - 1]) = Mul(x, S)
      BY <1>1, <2>2, <2>4, <2>5, MulAssociates
    <2>11. Plus(Plus(Mul(x, S), f[i]), Mul(x, S)) = f[i]
      BY PlusTwice
    <2> QED
      BY <2>9, <2>10, <2>11
  <1>9. \A i \in 0 .. nn : Times(q, Exp(a))[i] = f[i]
    <2> TAKE i \in 0 .. nn
    <2>1. CASE i = 0
      BY <1>7, <2>1, PlusRules DEF Times
    <2>2. CASE i # 0
      BY <1>8, <2>2 DEF Times
    <2> QED
      BY <2>1, <2>2
  <1>10. f = Times(q, Exp(a))
    <2>1. f = [i \in 0 .. nn |-> f[i]] /\ Times(q, Exp(a)) = [i \in 0 .. nn |-> Times(q, Exp(a))[i]]
      BY DEF Series, Times
    <2> QED
      BY <1>9, <2>1
  <1> QED
    BY <1>6, <1>7, <1>10 DEF q

(* From the degree on the quotient has the value as a factor. *)
LEMMA QuotientEnd ==
  ASSUME NEW f \in Series, NEW a \in Nat, NEW c \in Nat, NEW d \in Nat, Degree(f, d),
         NEW i \in 0 .. nn, i >= d
  PROVE  Quotient(f, a, c)[i] = Mul(Exp(a * i), Value(f, c))
  <1> DEFINE h == Parts(f, c)
  <1>1. nn \in Nat
    BY Sizes
  <1>2. IsTerms(h) /\ \A k \in 0 .. nn : Term(h, k) = Mul(f[k], Exp(c * k)) /\ Exp(c * k) \in Symbols
    <2>1. h \in Series /\ \A k \in 0 .. nn : Exp(c * k) \in Symbols /\ h[k] = Mul(f[k], Exp(c * k))
      BY PartsSeries
    <2> HIDE DEF h
    <2> QED
      BY <2>1, FunctionTerms DEF Series
  <1>3. \A k \in i + 1 .. nn : Term(h, k) = {}
    <2> TAKE k \in i + 1 .. nn
    <2>1. k \in 0 .. nn /\ k > d
      BY <1>1
    <2>2. f[k] = {} /\ Exp(c * k) \in Symbols
      BY <1>2, <2>1 DEF Degree
    <2> QED
      BY <1>2, <2>1, <2>2, MulZero
  <1> HIDE DEF h
  <1>4. Sums(h)[nn + 1] = Sums(h)[i + 1]
    <2>1. i + 1 \in 0 .. nn + 1 /\ nn + 1 \in i + 1 .. nn + 1
      BY <1>1
    <2> QED
      BY <1>2, <1>3, <2>1, SumsEnd
  <1> QED
    BY <1>4 DEF Quotient, Value, PlusAll, h

(* A polynomial has no more roots than its degree, unless it is 0. *)
LEMMA FewRoots ==
  ASSUME NEW d \in 0 .. nn, NEW f \in Series, Degree(f, d),
         NEW R \in SUBSET (1 .. nn), \A c \in R : Value(f, c) = {},
         Cardinality(R) > d
  PROVE  \A i \in 0 .. nn : f[i] = {}
  <1> DEFINE Zero(g, k) == \A S \in SUBSET (1 .. nn) :
                             (\A c \in S : Value(g, c) = {}) /\ Cardinality(S) > k
                               => \A i \in 0 .. nn : g[i] = {}
             T == {k \in 0 .. nn : \A g \in Series : Degree(g, k) => Zero(g, k)}
  <1>1. nn \in Nat \ {0} /\ IsFiniteSet(1 .. nn)
    BY Sizes, FS_Interval
  <1>2. \A S \in SUBSET (1 .. nn) : IsFiniteSet(S) /\ Cardinality(S) \in Nat
    BY <1>1, FS_Subset, FS_CardinalityType
  <1>3. 0 \in T
    <2> SUFFICES ASSUME NEW g \in Series, Degree(g, 0), NEW S \in SUBSET (1 .. nn),
                        \A c \in S : Value(g, c) = {}, Cardinality(S) > 0,
                        NEW i \in 0 .. nn
                 PROVE  g[i] = {}
      BY <1>1
    <2>1. PICK c \in S : TRUE
      <3> SUFFICES ASSUME S = {} PROVE FALSE
        OBVIOUS
      <3> QED
        BY FS_EmptySet
    <2>2. c \in Nat
      BY <1>1
    <2>3. Parts(g, c) \in Series /\ Parts(g, c)[0] = g[0]
      BY <2>2, PartsSeries
    <2>4. \A k \in 0 .. nn : k # 0 => Parts(g, c)[k] = {}
      <3> SUFFICES ASSUME NEW k \in 0 .. nn, k # 0 PROVE Parts(g, c)[k] = {}
        OBVIOUS
      <3>1. Exp(c * k) \in Symbols /\ Parts(g, c)[k] = Mul(g[k], Exp(c * k))
        BY <2>2, PartsSeries
      <3>2. g[k] = {}
        BY <1>1 DEF Degree
      <3> QED
        BY <3>1, <3>2, MulZero
    <2>5. Value(g, c) = g[0]
      BY <1>1, <2>3, <2>4, OnlyTermSum DEF Value
    <2>6. g[0] = {}
      BY <2>1, <2>5
    <2> QED
      BY <2>6 DEF Degree
  <1>4. ASSUME NEW k \in 0 .. nn - 1, k \in T
        PROVE  k + 1 \in T
    <2> SUFFICES ASSUME NEW g \in Series, Degree(g, k + 1), NEW S \in SUBSET (1 .. nn),
                        \A c \in S : Value(g, c) = {}, Cardinality(S) > k + 1
                 PROVE  \A i \in 0 .. nn : g[i] = {}
      BY <1>1
    <2>1. PICK c \in S : TRUE
      <3> SUFFICES ASSUME S = {} PROVE FALSE
        OBVIOUS
      <3> QED
        BY <1>1, FS_EmptySet
    <2> DEFINE a == nn - c
               x == Exp(a)
               q == Quotient(g, a, c)
    <2>2. a \in Nat /\ c \in Nat /\ a + c = nn /\ x \in Symbols
      BY <1>1, ExpType
    <2>3. Reciprocals(a, c)
      <3>1. 1 \in Nat /\ nn * 1 = nn
        BY <1>1
      <3> QED
        <4>1. Exp(nn * 1) = {0}
          BY <3>1, ExpPeriod
        <4>2. Mul(Exp(a), Exp(c)) = Exp(a + c)
          BY <2>2, MulExp
        <4> QED
          BY <2>2, <3>1, <4>1, <4>2 DEF Reciprocals
    <2> HIDE DEF a, x, q
    <2>4. q \in Series /\ g = Times(q, x)
      BY <2>2, <2>3, QuotientTimes DEF q, x
    <2>5. Degree(q, k) /\ q[nn] = {}
      <3> SUFFICES ASSUME NEW i \in 0 .. nn, i > k PROVE q[i] = {}
        BY <1>1 DEF Degree
      <3>1. k + 1 \in Nat /\ i >= k + 1 /\ a * i \in Nat
        BY <1>1, <2>2
      <3>2. q[i] = Mul(Exp(a * i), Value(g, c))
        <4> DEFINE m == k + 1
        <4>1. m \in Nat /\ Degree(g, m) /\ i >= m
          BY <3>1
        <4> HIDE DEF m
        <4>2. Quotient(g, a, c)[i] = Mul(Exp(a * i), Value(g, c))
          BY <2>2, <4>1, QuotientEnd
        <4> QED
          BY <4>2 DEF q
      <3>3. Value(g, c) = {} /\ Exp(a * i) \in Symbols
        BY <2>1, <3>1, ExpType
      <3> QED
        BY <3>2, <3>3, MulZero
    <2> DEFINE S1 == S \ {c}
    <2>6. \A e \in S1 : Value(q, e) = {}
      <3> SUFFICES ASSUME NEW e \in S1 PROVE Value(q, e) = {}
        OBVIOUS
      <3>1. e \in Nat /\ e \in 1 .. nn /\ c \in 1 .. nn /\ e # c
        BY <1>1
      <3> DEFINE u == Plus({0}, Mul(x, Exp(e)))
      <3>2. Exp(e) \in Symbols /\ Exp(c) \in Symbols /\ Mul(x, Exp(e)) \in Symbols /\ u \in Symbols
        BY <2>2, <3>1, ExpType, MulType, PlusType, Unit
      <3>3. Mul(u, Value(q, e)) = {}
        BY <2>2, <2>4, <2>5, <3>1, TimesValue
      <3>4. u # {}
        <4> SUFFICES ASSUME u = {} PROVE FALSE
          OBVIOUS
        <4>1. Mul(x, Exp(e)) = {0} /\ Mul(x, Exp(c)) = {0}
          BY <2>3, PlusZero DEF Reciprocals, x
        <4>2. x # {}
          BY <2>2, ExpType DEF x
        <4>3. Exp(e) = Exp(c)
          BY <2>2, <3>2, <4>1, <4>2, MulCancel
        <4> QED
          BY <3>1, <4>3, ExpInjectiveRoots
      <3>5. Value(q, e) \in Symbols
        BY <2>4, <3>1, PartsSeries
      <3> HIDE DEF u
      <3> QED
        BY <3>2, <3>3, <3>4, <3>5, MulNotZero
    <2>7. S1 \in SUBSET (1 .. nn) /\ Cardinality(S1) > k
      <3>1. Cardinality(S1) = Cardinality(S) - 1
        BY <1>2, <2>1, FS_RemoveElement
      <3> QED
        BY <1>2, <3>1
    <2>8. \A i \in 0 .. nn : q[i] = {}
      <3> HIDE DEF S1
      <3> QED
        BY <1>4, <2>4, <2>5, <2>6, <2>7
    <2> SUFFICES ASSUME NEW i \in 0 .. nn PROVE g[i] = {}
      OBVIOUS
    <2>9. g[i] = Plus({}, {})
      <3>1. i # 0 => q[i - 1] = {}
        BY <1>1, <2>8
      <3>2. Mul(x, {}) = {}
        BY <2>2, MulZero
      <3> QED
        BY <2>4, <2>8, <3>1, <3>2 DEF Times
    <2> QED
      BY <2>9, PlusRules
  <1>5. \A k \in 0 .. nn - 1 : k \in T => k + 1 \in T
    BY <1>4
  <1> HIDE DEF T
  <1>6. \A k \in 0 .. nn : k \in T
    BY <1>1, <1>3, <1>5, Upwards
  <1>7. d \in T
    BY <1>6
  <1> QED
    BY <1>7 DEF T

-----------------------------------------------------------------------------
(* Positions in a word *)

(* The logarithm that stands for position j, and that of its reciprocal,   *)
(* which is the root the Chien search finds.                               *)
Loc(j) == IF j < nn THEN Prim * (nn - 1 - j) ELSE 0
Inv(j) == nn - (Loc(j) % nn)

LEMMA LocType ==
  ASSUME NEW j \in 0 .. nn
  PROVE  /\ Loc(j) \in Nat /\ Inv(j) \in 1 .. nn /\ Inv(j) \in Nat
         /\ Reciprocals(Loc(j), Inv(j))
  <1>1. nn \in Nat \ {0} /\ Prim \in Nat
    BY Sizes
  <1>2. Loc(j) \in Nat
    <2>1. CASE j < nn
      <3>1. nn - 1 - j \in Nat
        BY <1>1, <2>1
      <3>2. Prim * (nn - 1 - j) \in Nat
        BY <1>1, <3>1
      <3> QED
        BY <2>1, <3>2 DEF Loc
    <2>2. CASE ~(j < nn)
      BY <2>2 DEF Loc
    <2> QED
      BY <2>1, <2>2
  <1> DEFINE l == Loc(j)
             m == l % nn
             q == l \div nn
  <1>3. l \in Nat
    BY <1>2
  <1> HIDE DEF l
  <1>4. l = nn * q + m /\ q \in Int /\ m \in 0 .. nn - 1
    BY <1>1, <1>3, Divide
  <1>5. q >= 0
    BY <1>1, <1>3
  <1>6. nn - m \in 1 .. nn /\ nn - m \in Nat /\ m \in Nat /\ m + nn * q = l /\ q \in Nat /\ m + (nn - m) = nn
    BY <1>1, <1>3, <1>4, <1>5
  <1>7. Reciprocals(l, nn - m)
    <2> HIDE DEF m, q
    <2>1. Exp(l) = Exp(m)
      BY <1>6, ExpPeriod
    <2>2. Mul(Exp(m), Exp(nn - m)) = Exp(nn)
      BY <1>6, MulExp
    <2>3. Exp(nn) = {0}
      <3>1. 1 \in Nat /\ nn * 1 = nn
        BY <1>1
      <3> QED
        BY <3>1, ExpPeriod
    <2> QED
      BY <2>1, <2>2, <2>3 DEF Reciprocals
  <1> QED
    BY <1>2, <1>6, <1>7 DEF l, Inv

LEMMA IPrim ==
  /\ iprim \in Nat
  /\ \E q \in Nat : iprim * Prim = nn * q + 1
  <1>1. nn \in Nat \ {0} /\ nn >= 2 /\ Prim \in Nat \ {0}
    BY Sizes, ReedSolomonAssumption
  <1>2. iprim \in 1 .. nn /\ (iprim * Prim) % nn = 1 % nn
    BY ReedSolomonAssumption DEF iprim
  <1>3. iprim \in Nat /\ iprim * Prim \in Nat
    BY <1>1, <1>2
  <1>4. 1 % nn = 1
    <2>1. 1 \in 0 .. nn - 1 /\ 0 \in Int /\ nn * 0 + 1 = 1
      BY <1>1
    <2>2. (nn * 0 + 1) % nn = 1
      BY <1>1, <2>1, RemainderOf
    <2> QED
      BY <2>1, <2>2
  <1> DEFINE n == iprim * Prim
             q == n \div nn
  <1>5. n = nn * q + 1 /\ q \in Int
    BY <1>1, <1>2, <1>3, <1>4, Divide
  <1>6. q >= 0
    BY <1>1, <1>3
  <1> QED
    BY <1>3, <1>5, <1>6

(* iprim takes a location's logarithm back to the position. *)
LEMMA LocIPrim ==
  ASSUME NEW j \in 0 .. nn - 1
  PROVE  Exp(Loc(j) * iprim) = Exp(nn - 1 - j)
  <1>1. PICK q \in Nat : iprim * Prim = nn * q + 1
    BY IPrim
  <1> DEFINE v == nn - 1 - j
  <1>2. nn \in Nat /\ Prim \in Nat /\ iprim \in Nat /\ v \in Nat /\ Loc(j) = Prim * v
    BY Sizes, IPrim DEF Loc
  <1> HIDE DEF v
  <1>3. (Prim * v) * iprim = v * (iprim * Prim)
    BY <1>2
  <1>4. v * (nn * q + 1) = v + nn * (q * v)
    BY <1>2
  <1>5. q * v \in Nat
    BY <1>2
  <1>6. Exp(v + nn * (q * v)) = Exp(v)
    BY <1>2, <1>5, ExpPeriod
  <1> QED
    BY <1>1, <1>2, <1>3, <1>4, <1>6 DEF v

LEMMA LocDistinct ==
  ASSUME NEW j \in 0 .. nn - 1, NEW k \in 0 .. nn - 1, Exp(Loc(j)) = Exp(Loc(k))
  PROVE  j = k
  <1>1. nn \in Nat /\ j \in 0 .. nn /\ k \in 0 .. nn /\ iprim \in Nat
    BY Sizes, IPrim
  <1>2. Exp(Loc(j) * iprim) = Exp(Loc(k) * iprim)
    BY <1>1, LocType, ExpTimes
  <1>3. Exp(nn - 1 - j) = Exp(nn - 1 - k)
    BY <1>2, LocIPrim
  <1>4. nn - 1 - j \in 0 .. nn - 1 /\ nn - 1 - k \in 0 .. nn - 1
    BY <1>1
  <1>5. nn - 1 - j = nn - 1 - k
    BY <1>3, <1>4, ExpInjective
  <1> QED
    BY <1>1, <1>5

LEMMA InverseOne ==
  ASSUME NEW a \in Nat, NEW c \in Nat, NEW e \in Nat, Reciprocals(a, c), Reciprocals(e, c)
  PROVE  Exp(a) = Exp(e)
  <1>1. Exp(a) \in Symbols /\ Exp(c) \in Symbols /\ Exp(e) \in Symbols /\ Exp(c) # {}
    BY ExpType
  <1>2. Mul(Exp(c), Exp(a)) = Mul(Exp(c), Exp(e))
    BY <1>1, MulCommutes DEF Reciprocals
  <1> QED
    BY <1>1, <1>2, MulCancel

LEMMA InvDistinct ==
  ASSUME NEW j \in 0 .. nn - 1, NEW k \in 0 .. nn - 1, Reciprocals(Loc(j), Inv(k))
  PROVE  j = k
  <1>1. j \in 0 .. nn /\ k \in 0 .. nn
    BY Sizes
  <1>2. Loc(j) \in Nat /\ Loc(k) \in Nat /\ Inv(k) \in Nat /\ Reciprocals(Loc(k), Inv(k))
    BY <1>1, LocType
  <1>3. Exp(Loc(j)) = Exp(Loc(k))
    BY <1>2, InverseOne
  <1> QED
    BY <1>3, LocDistinct

(* The position that the root of position j blames is j. *)
LEMMA LocationOf ==
  ASSUME NEW j \in 0 .. nn - 1
  PROVE  Location(Inv(j)) = j
  <1> DEFINE m == Inv(j) * iprim
             v == nn - 1 - j
  <1>1. nn \in Nat \ {0} /\ j \in 0 .. nn /\ v \in Nat /\ v \in 0 .. nn - 1 /\ iprim \in Nat
    BY Sizes, IPrim
  <1>2. Inv(j) \in Nat /\ Loc(j) \in Nat /\ Reciprocals(Loc(j), Inv(j)) /\ m \in Nat
    BY <1>1, LocType
  <1>3. Mul(Exp(Loc(j) * iprim), Exp(m)) = {0}
    BY <1>1, <1>2, InversePowers
  <1>4. Exp(Loc(j) * iprim) = Exp(v)
    BY LocIPrim
  <1> HIDE DEF m, v
  <1>5. Exp(v + m) = Exp(0)
    BY <1>1, <1>2, <1>3, <1>4, MulExp, ExpZero
  <1>6. v + m \in Nat
    BY <1>1, <1>2
  <1>7. (v + m) % nn = 0
    <2> DEFINE n == (v + m) % nn
    <2>1. n \in 0 .. nn - 1 /\ Exp(v + m) = Power[n]
      BY <1>6, ExpStep
    <2>2. n \in Nat /\ n % nn = n
      BY <1>1, <2>1
    <2>3. Exp(n) = Power[n]
      BY <2>2, ExpStep
    <2>4. 0 \in 0 .. nn - 1
      BY <1>1
    <2> HIDE DEF n
    <2>5. n = 0
      BY <1>5, <2>1, <2>3, <2>4, ExpInjective
    <2> QED
      BY <2>5 DEF n
  <1> DEFINE q == (v + m) \div nn
  <1>8. v + m = nn * q + 0 /\ q \in Int
    <2>1. v + m \in Int
      BY <1>6
    <2>2. v + m = nn * ((v + m) \div nn) + ((v + m) % nn) /\ (v + m) \div nn \in Int
      BY <1>1, <2>1, Divide
    <2> QED
      BY <1>7, <2>2
  <1> HIDE DEF q
  <1>9. m - 1 = nn * (q - 1) + j
    <2>1. nn * (q - 1) = nn * q - nn
      BY <1>1, <1>8
    <2>2. v = nn - 1 - j
      BY DEF v
    <2> QED
      BY <1>1, <1>2, <1>8, <2>1, <2>2
  <1>10. (m - 1) % nn = j
    <2>1. q - 1 \in Int
      BY <1>8
    <2> QED
      BY <1>1, <1>9, <2>1, RemainderOf
  <1> QED
    BY <1>10 DEF m, Location

-----------------------------------------------------------------------------
(* Moments: what a word's syndromes are sums of *)

Moment(A, n) == PlusAll([j \in 0 .. nn |-> Mul(A[j], Exp(Loc(j) * n))])

LEMMA MomentParts ==
  ASSUME NEW A \in Series, NEW n \in Nat
  PROVE  /\ [j \in 0 .. nn |-> Mul(A[j], Exp(Loc(j) * n))] \in Series
         /\ \A j \in 0 .. nn : A[j] \in Symbols /\ Exp(Loc(j) * n) \in Symbols /\ Exp(Loc(j) * n) # {}
         /\ Moment(A, n) \in Symbols
  <1>1. \A j \in 0 .. nn : Loc(j) * n \in Nat
    <2> TAKE j \in 0 .. nn
    <2>1. Loc(j) \in Nat
      BY LocType
    <2> QED
      BY <2>1
  <1>2. \A j \in 0 .. nn : A[j] \in Symbols /\ Exp(Loc(j) * n) \in Symbols /\ Exp(Loc(j) * n) # {}
    BY <1>1, ExpType DEF Series
  <1>3. \A j \in 0 .. nn : Mul(A[j], Exp(Loc(j) * n)) \in Symbols
    BY <1>2, MulType
  <1>4. [j \in 0 .. nn |-> Mul(A[j], Exp(Loc(j) * n))] \in Series
    BY <1>3 DEF Series
  <1>5. Moment(A, n) \in Symbols
    BY <1>4, SumType DEF Moment
  <1> QED
    BY <1>2, <1>4, <1>5

LEMMA MulPairs ==
  ASSUME NEW x \in Symbols, NEW y \in Symbols, NEW z \in Symbols, NEW u \in Symbols
  PROVE  Mul(Mul(x, y), Mul(z, u)) = Mul(Mul(x, z), Mul(y, u))
  <1>1. Mul(z, u) \in Symbols /\ Mul(y, u) \in Symbols
    BY MulType
  <1>2. Mul(Mul(x, y), Mul(z, u)) = Mul(x, Mul(y, Mul(z, u)))
    BY <1>1, MulAssociates
  <1>3. Mul(y, Mul(z, u)) = Mul(Mul(y, z), u)
    BY MulAssociates
  <1>4. Mul(y, z) = Mul(z, y)
    BY MulCommutes
  <1>5. Mul(Mul(z, y), u) = Mul(z, Mul(y, u))
    BY MulAssociates
  <1>6. Mul(x, Mul(z, Mul(y, u))) = Mul(Mul(x, z), Mul(y, u))
    BY <1>1, MulAssociates
  <1> QED
    BY <1>2, <1>3, <1>4, <1>5, <1>6

LEMMA PartialSum ==
  ASSUME NEW f \in Series, NEW n \in 0 .. nn
  PROVE  /\ [i \in 0 .. nn |-> IF i <= n THEN f[i] ELSE {}] \in Series
         /\ PlusAll([i \in 0 .. nn |-> IF i <= n THEN f[i] ELSE {}]) = Sums(f)[n + 1]
         /\ Sums(f)[n + 1] \in Symbols
  <1> DEFINE g == [i \in 0 .. nn |-> IF i <= n THEN f[i] ELSE {}]
  <1>1. nn \in Nat /\ n + 1 \in 0 .. nn + 1 /\ nn + 1 \in n + 1 .. nn + 1
    BY Sizes
  <1>2. g \in Series
    BY Unit DEF Series
  <1>3. /\ IsTerms(f) /\ IsTerms(g)
        /\ \A i \in 0 .. nn : Term(f, i) = f[i] /\ Term(g, i) = IF i <= n THEN f[i] ELSE {}
    BY <1>2, FunctionTerms DEF Series
  <1> HIDE DEF g
  <1>4. Sums(g)[n + 1] = Sums(f)[n + 1]
    <2>1. \A i \in 0 .. (n + 1) - 1 : Term(g, i) = Term(f, i)
      <3> TAKE i \in 0 .. (n + 1) - 1
      <3>1. i \in 0 .. nn /\ i <= n
        BY <1>1
      <3> QED
        BY <1>3, <3>1
    <2> QED
      BY <1>1, <1>3, <2>1, SumsAgree
  <1>5. Sums(g)[nn + 1] = Sums(g)[n + 1]
    <2>1. \A i \in n + 1 .. nn : Term(g, i) = {}
      BY <1>1, <1>3
    <2> QED
      BY <1>1, <1>3, <2>1, SumsEnd
  <1>6. Sums(f)[n + 1] \in Symbols
    BY <1>1, <1>3, SumsStep
  <1> QED
    BY <1>2, <1>4, <1>5, <1>6 DEF g, PlusAll

(* Multiplying the series of the moments by a polynomial: each position    *)
(* contributes the polynomial's quotient by the factor of that position.   *)
LEMMA MomentConvolution ==
  ASSUME NEW p \in Series, NEW A \in Series, NEW n \in 0 .. nn
  PROVE  PlusAll([i \in 0 .. nn |-> IF i <= n THEN Mul(p[i], Moment(A, n - i)) ELSE {}]) =
         PlusAll([j \in 0 .. nn |-> Mul(A[j], Quotient(p, Loc(j), Inv(j))[n])])
  <1> DEFINE M == [i \in 0 .. nn |-> [j \in 0 .. nn |->
                     IF i <= n THEN Mul(p[i], Mul(A[j], Exp(Loc(j) * (n - i)))) ELSE {}]]
  <1>1. nn \in Nat /\ n \in Nat /\ \A i \in 0 .. nn : i <= n => n - i \in Nat
    BY Sizes
  <1>2. \A i \in 0 .. nn : p[i] \in Symbols /\ A[i] \in Symbols
    BY DEF Series
  <1>3. M \in Tables
    <2> SUFFICES ASSUME NEW i \in 0 .. nn, NEW j \in 0 .. nn, i <= n
                 PROVE  Mul(p[i], Mul(A[j], Exp(Loc(j) * (n - i)))) \in Symbols
      BY Unit DEF Tables
    <2>1. n - i \in Nat
      BY <1>1
    <2>2. A[j] \in Symbols /\ Exp(Loc(j) * (n - i)) \in Symbols
      BY <2>1, MomentParts
    <2> QED
      BY <1>2, <2>2, MulType
  <1>4. RowSums(M) = [i \in 0 .. nn |-> IF i <= n THEN Mul(p[i], Moment(A, n - i)) ELSE {}]
    <2> SUFFICES ASSUME NEW i \in 0 .. nn
                 PROVE  PlusAll(M[i]) = IF i <= n THEN Mul(p[i], Moment(A, n - i)) ELSE {}
      BY DEF RowSums
    <2>1. M[i] \in Series
      BY <1>3 DEF Tables, Series
    <2>2. CASE i <= n
      <3> DEFINE g == [j \in 0 .. nn |-> Mul(A[j], Exp(Loc(j) * (n - i)))]
      <3>1. n - i \in Nat
        BY <1>1, <2>2
      <3>2. g \in Series
        BY <3>1, MomentParts
      <3>3. \A j \in 0 .. nn : M[i][j] = Mul(p[i], g[j])
        BY <2>2
      <3>4. PlusAll(g) = Moment(A, n - i)
        BY DEF Moment
      <3> HIDE DEF g, M
      <3> QED
        BY <1>2, <2>1, <2>2, <3>2, <3>3, <3>4, SumTimes
    <2>3. CASE ~(i <= n)
      <3>1. \A j \in 0 .. nn : M[i][j] = {}
        BY <2>3
      <3> HIDE DEF M
      <3> QED
        BY <2>1, <2>3, <3>1, ZeroSum DEF Series
    <2> QED
      BY <2>2, <2>3
  <1>5. ColumnSums(M) = [j \in 0 .. nn |-> Mul(A[j], Quotient(p, Loc(j), Inv(j))[n])]
    <2> SUFFICES ASSUME NEW j \in 0 .. nn
                 PROVE  PlusAll([i \in 0 .. nn |-> M[i][j]]) = Mul(A[j], Quotient(p, Loc(j), Inv(j))[n])
      BY DEF ColumnSums
    <2> DEFINE l == Loc(j)
               c == Inv(j)
               f == Parts(p, c)
               g == [i \in 0 .. nn |-> IF i <= n THEN f[i] ELSE {}]
               h == [i \in 0 .. nn |-> M[i][j]]
               x == Mul(A[j], Exp(l * n))
    <2>1. l \in Nat /\ c \in Nat /\ Reciprocals(l, c)
      BY LocType
    <2>2. l * n \in Nat /\ Exp(l * n) \in Symbols /\ A[j] \in Symbols /\ x \in Symbols
      BY <1>1, <1>2, <2>1, ExpType, MulType
    <2>3. f \in Series /\ \A i \in 0 .. nn : f[i] = Mul(p[i], Exp(c * i)) /\ Exp(c * i) \in Symbols
      BY <2>1, PartsSeries
    <2>4. h \in Series
      BY <1>3 DEF Tables, Series
    <2>5. h = [i \in 0 .. nn |-> IF i <= n THEN Mul(p[i], Mul(A[j], Exp(l * (n - i)))) ELSE {}]
      OBVIOUS
    <2> HIDE DEF l, c, f, h, M
    <2>6. g \in Series /\ PlusAll(g) = Sums(f)[n + 1] /\ Sums(f)[n + 1] \in Symbols
      BY <2>3, PartialSum
    <2>7. ASSUME NEW i \in 0 .. nn
          PROVE  h[i] = Mul(x, g[i])
      <3>1. CASE i <= n
        <4> DEFINE y == Exp(l * (n - i))
                   z == Exp(l * i)
                   w == Exp(c * i)
        <4>1. n - i \in Nat /\ i \in Nat /\ (n - i) + i = n /\ l * (n - i) \in Nat /\ l * i \in Nat
          BY <1>1, <2>1, <3>1
        <4>2. y \in Symbols /\ z \in Symbols /\ w \in Symbols /\ p[i] \in Symbols
          <5>1. y \in Symbols /\ z \in Symbols
            BY <4>1, ExpType
          <5>2. p[i] \in Symbols
            BY <1>2, <3>1 DEF Series
          <5>3. w \in Symbols
            BY <2>3
          <5> QED
            BY <5>1, <5>2, <5>3
        <4>3. Exp(l * n) = Mul(y, z)
          <5>1. Exp(l * ((n - i) + i)) = Mul(Exp(l * (n - i)), Exp(l * i))
            BY <2>1, <4>1, ExpPlus
          <5> QED
            BY <5>1, <4>1
        <4>4. Mul(z, w) = {0}
          BY <2>1, <4>1, InversePowers
        <4>5. h[i] = Mul(p[i], Mul(A[j], y)) /\ g[i] = Mul(p[i], w)
          BY <2>3, <2>5, <3>1
        <4> HIDE DEF y, z, w
        <4>6. Mul(A[j], y) \in Symbols /\ Mul(p[i], w) \in Symbols
          BY <2>2, <4>2, MulType
        <4>7. x = Mul(Mul(A[j], y), z)
          BY <2>2, <4>2, <4>3, MulAssociates
        <4>8. Mul(p[i], w) = Mul(w, p[i])
          BY <4>2, MulCommutes
        <4>9. Mul(x, Mul(w, p[i])) = Mul(Mul(x, w), p[i])
          BY <2>2, <4>2, MulAssociates
        <4>10. Mul(x, w) = Mul(A[j], y)
          <5>1. Mul(Mul(Mul(A[j], y), z), w) = Mul(Mul(A[j], y), Mul(z, w))
            BY <4>2, <4>6, MulAssociates
          <5>2. Mul(Mul(A[j], y), {0}) = Mul(A[j], y)
            BY <4>6, MulUnit
          <5> QED
            BY <4>4, <4>7, <5>1, <5>2
        <4>11. Mul(Mul(A[j], y), p[i]) = Mul(p[i], Mul(A[j], y))
          BY <4>2, <4>6, MulCommutes
        <4> QED
          BY <4>5, <4>8, <4>9, <4>10, <4>11
      <3>2. CASE ~(i <= n)
        BY <2>2, <2>5, <3>2, MulZero
      <3> QED
        BY <3>1, <3>2
    <2>8. PlusAll(h) = Mul(x, Sums(f)[n + 1])
      <3> HIDE DEF g, x
      <3> QED
        BY <2>2, <2>4, <2>6, <2>7, SumTimes
    <2>9. Quotient(p, l, c)[n] = Mul(Exp(l * n), Sums(f)[n + 1])
      BY DEF Quotient, f
    <2>10. Mul(x, Sums(f)[n + 1]) = Mul(A[j], Mul(Exp(l * n), Sums(f)[n + 1]))
      BY <2>2, <2>6, MulAssociates
    <2> QED
      BY <2>8, <2>9, <2>10 DEF h, l, c
  <1> HIDE DEF M
  <1> QED
    BY <1>3, <1>4, <1>5, SumsExchange

-----------------------------------------------------------------------------
(* Polynomials with given roots *)

LEMMA SomePositions ==
  ASSUME NEW S \in SUBSET (0 .. nn - 1)
  PROVE  IsFiniteSet(S) /\ Cardinality(S) \in Nat /\ Cardinality(S) <= nn
  <1>1. nn - 1 \in Int /\ 0 \in Int /\ ~(0 > nn - 1) /\ (nn - 1) - 0 + 1 = nn
    BY Sizes
  <1>2. IsFiniteSet(0 .. nn - 1) /\ Cardinality(0 .. nn - 1) = nn
    BY <1>1, FS_Interval
  <1>3. IsFiniteSet(S) /\ Cardinality(S) <= nn
    BY <1>2, FS_Subset
  <1> QED
    BY <1>3, FS_CardinalityType

(* The polynomial whose roots are those that stand for the positions of S. *)
Vanishes(p, S) ==
  /\ p \in Series /\ p[0] = {0} /\ Degree(p, Cardinality(S))
  /\ \A c \in 0 .. nn - 1 : Value(p, Inv(c)) = {} <=> c \in S

LEMMA OneMoreRoot ==
  ASSUME NEW p, NEW S \in SUBSET (0 .. nn - 1), Vanishes(p, S), NEW k \in 0 .. nn - 1, k \notin S
  PROVE  Vanishes(Times(p, Exp(Loc(k))), S \cup {k})
  <1> DEFINE q == Times(p, Exp(Loc(k)))
             x == Exp(Loc(k))
  <1>1. nn \in Nat \ {0} /\ k \in 0 .. nn /\ Loc(k) \in Nat /\ x \in Symbols
    BY Sizes, LocType, ExpType
  <1>2. /\ IsFiniteSet(S) /\ Cardinality(S) \in Nat
        /\ Cardinality(S) <= nn /\ Cardinality(S \cup {k}) = Cardinality(S) + 1
        /\ Cardinality(S \cup {k}) <= nn
    <2>1. IsFiniteSet(S) /\ Cardinality(S) \in Nat /\ Cardinality(S) <= nn
      BY SomePositions
    <2>2. S \cup {k} \in SUBSET (0 .. nn - 1)
      OBVIOUS
    <2>3. Cardinality(S \cup {k}) <= nn
      BY <2>2, SomePositions
    <2> QED
      BY <2>1, <2>3, FS_AddElement
  <1>3. p \in Series /\ p[0] = {0} /\ Degree(p, Cardinality(S))
    BY DEF Vanishes
  <1>4. p[nn] = {}
    BY <1>1, <1>2, <1>3 DEF Degree
  <1>5. q \in Series /\ Degree(q, Cardinality(S \cup {k}))
    <2> DEFINE d == Cardinality(S)
    <2>1. d \in Nat /\ Degree(p, d) /\ Cardinality(S \cup {k}) = d + 1
      BY <1>2, <1>3
    <2> HIDE DEF d
    <2>2. Degree(Times(p, Exp(Loc(k))), d + 1)
      BY <1>1, <1>3, <2>1, TimesDegree
    <2> QED
      BY <1>1, <1>3, <2>1, <2>2, TimesType
  <1>6. q[0] = {0}
    <2>1. Plus({0}, {}) = {0}
      BY PlusRules
    <2> QED
      <3>1. 0 \in 0 .. nn
        BY <1>1
      <3> QED
        BY <1>3, <2>1, <3>1 DEF Times
  <1>7. ASSUME NEW c \in 0 .. nn - 1
        PROVE  Value(q, Inv(c)) = {} <=> c \in S \cup {k}
    <2> DEFINE y == Exp(Inv(c))
               u == Plus({0}, Mul(x, y))
    <2>1. c \in 0 .. nn /\ Inv(c) \in Nat /\ y \in Symbols
      BY <1>1, LocType, ExpType
    <2>2. Value(q, Inv(c)) = Mul(u, Value(p, Inv(c)))
      BY <1>1, <1>3, <1>4, <2>1, TimesValue
    <2>3. Mul(x, y) \in Symbols /\ u \in Symbols
      BY <1>1, <2>1, MulType, PlusType, Unit
    <2>4. u = {} <=> Mul(x, y) = {0}
      BY PlusZero
    <2>5. Mul(x, y) = {0} <=> c = k
      BY <1>1, LocType, InvDistinct DEF Reciprocals
    <2>6. Value(p, Inv(c)) \in Symbols /\ (Value(p, Inv(c)) = {} <=> c \in S)
      BY <1>3, <2>1, PartsSeries DEF Vanishes
    <2> HIDE DEF u, q, x
    <2> QED
      BY <2>2, <2>3, <2>4, <2>5, <2>6, MulNotZero
  <1> QED
    BY <1>5, <1>6, <1>7 DEF Vanishes

LEMMA RootPolynomial ==
  ASSUME NEW S \in SUBSET (0 .. nn - 1)
  PROVE  \E p : Vanishes(p, S)
  <1> DEFINE part(k) == {j \in S : j < k}
             T == {k \in 0 .. nn : \E p : Vanishes(p, part(k))}
             unit == [i \in 0 .. nn |-> IF i = 0 THEN {0} ELSE {}]
  <1>1. nn \in Nat \ {0} /\ 0 \in 0 .. nn /\ \A j \in S : j \in Nat /\ j < nn
    BY Sizes
  <1>2. 0 \in T
    <2>1. unit \in Series /\ unit[0] = {0} /\ Degree(unit, 0)
      BY <1>1, Unit DEF Series, Degree
    <2>2. ASSUME NEW c \in 0 .. nn - 1
          PROVE  Value(unit, Inv(c)) # {}
      <3>1. c \in 0 .. nn /\ Inv(c) \in Nat
        BY <1>1, LocType
      <3> HIDE DEF unit
      <3>2. Parts(unit, Inv(c)) \in Series /\ Parts(unit, Inv(c))[0] = {0}
        BY <2>1, <3>1, PartsSeries
      <3>3. \A i \in 0 .. nn : i # 0 => Parts(unit, Inv(c))[i] = {}
        <4> SUFFICES ASSUME NEW i \in 0 .. nn, i # 0 PROVE Parts(unit, Inv(c))[i] = {}
          OBVIOUS
        <4>1. Exp(Inv(c) * i) \in Symbols /\ Parts(unit, Inv(c))[i] = Mul(unit[i], Exp(Inv(c) * i))
          BY <2>1, <3>1, PartsSeries
        <4>2. unit[i] = {}
          BY <1>1, <2>1 DEF Degree
        <4> QED
          BY <4>1, <4>2, MulZero
      <3>4. Value(unit, Inv(c)) = {0}
        BY <1>1, <3>2, <3>3, OnlyTermSum DEF Value
      <3> QED
        BY <3>4, Unit
    <2>3. part(0) = {}
      <3>1. \A j \in S : ~(j < 0)
        BY <1>1
      <3> QED
        BY <3>1
    <2>4. Cardinality({}) = 0
      BY FS_EmptySet
    <2> HIDE DEF unit
    <2>5. Vanishes(unit, {})
      BY <2>1, <2>2, <2>4 DEF Vanishes
    <2> QED
      BY <1>1, <2>3, <2>5
  <1>3. ASSUME NEW k \in 0 .. nn - 1, k \in T
        PROVE  k + 1 \in T
    <2>1. PICK p : Vanishes(p, part(k))
      BY <1>3
    <2>2. k + 1 \in 0 .. nn /\ k \in Nat
      BY <1>1
    <2>3. CASE k \in S
      <3>1. part(k + 1) = part(k) \cup {k} /\ k \notin part(k) /\ part(k) \in SUBSET (0 .. nn - 1)
        <4>1. \A j \in S : j < k + 1 <=> j < k \/ j = k
          BY <1>1, <2>2
        <4>2. k < k + 1 /\ ~(k < k)
          BY <2>2
        <4> QED
          BY <2>3, <4>1, <4>2
      <3> HIDE DEF part
      <3>2. Vanishes(Times(p, Exp(Loc(k))), part(k) \cup {k})
        BY <2>1, <3>1, OneMoreRoot
      <3> QED
        BY <2>2, <3>1, <3>2
    <2>4. CASE k \notin S
      <3>1. part(k + 1) = part(k)
        <4>1. \A j \in S : j < k + 1 <=> j < k
          BY <1>1, <2>2, <2>4
        <4> QED
          BY <4>1
      <3> QED
        BY <2>1, <2>2, <3>1
    <2> QED
      BY <2>3, <2>4
  <1>4. \A k \in 0 .. nn - 1 : k \in T => k + 1 \in T
    BY <1>3
  <1> HIDE DEF T
  <1>5. nn \in T
    BY <1>1, <1>2, <1>4, Upwards
  <1>6. part(nn) = S
    BY <1>1
  <1> HIDE DEF part
  <1> QED
    BY <1>5, <1>6 DEF T

(* A polynomial times the series of the moments: from its degree on these  *)
(* are again moments.                                                      *)
Weighted(A, p) == [j \in 0 .. nn |-> Mul(A[j], Value(p, Inv(j)))]

LEMMA WeightedType ==
  ASSUME NEW A \in Series, NEW p \in Series
  PROVE  /\ Weighted(A, p) \in Series
         /\ \A j \in 0 .. nn : /\ A[j] \in Symbols /\ Value(p, Inv(j)) \in Symbols
                               /\ Weighted(A, p)[j] = Mul(A[j], Value(p, Inv(j)))
  <1>1. \A j \in 0 .. nn : A[j] \in Symbols
    BY DEF Series
  <1>2. \A j \in 0 .. nn : Value(p, Inv(j)) \in Symbols
    BY LocType, PartsSeries
  <1>3. \A j \in 0 .. nn : Mul(A[j], Value(p, Inv(j))) \in Symbols
    BY <1>1, <1>2, MulType
  <1> QED
    BY <1>1, <1>2, <1>3 DEF Weighted, Series

LEMMA ConvolutionBeyond ==
  ASSUME NEW p \in Series, NEW A \in Series, NEW d \in Nat, Degree(p, d), NEW n \in 0 .. nn, n >= d
  PROVE  PlusAll([i \in 0 .. nn |-> IF i <= n THEN Mul(p[i], Moment(A, n - i)) ELSE {}]) =
         Moment(Weighted(A, p), n)
  <1> DEFINE B == Weighted(A, p)
  <1>1. nn \in Nat /\ n \in Nat
    BY Sizes
  <1>2. ASSUME NEW j \in 0 .. nn
        PROVE  Mul(A[j], Quotient(p, Loc(j), Inv(j))[n]) = Mul(B[j], Exp(Loc(j) * n))
    <2> DEFINE x == Exp(Loc(j) * n)
               v == Value(p, Inv(j))
    <2>1. Loc(j) \in Nat /\ Inv(j) \in Nat
      BY LocType
    <2>2. Loc(j) * n \in Nat
      BY <1>1, <2>1
    <2>3. x \in Symbols
      BY <2>2, ExpType
    <2>4. A[j] \in Symbols /\ v \in Symbols /\ B[j] = Mul(A[j], v)
      BY WeightedType
    <2>5. Quotient(p, Loc(j), Inv(j))[n] = Mul(x, v)
      BY <2>1, QuotientEnd
    <2> HIDE DEF x, v, B
    <2>6. Mul(x, v) = Mul(v, x)
      BY <2>3, <2>4, MulCommutes
    <2>7. Mul(A[j], Mul(v, x)) = Mul(Mul(A[j], v), x)
      BY <2>3, <2>4, MulAssociates
    <2> QED
      BY <2>4, <2>5, <2>6, <2>7 DEF x
  <1>3. [j \in 0 .. nn |-> Mul(A[j], Quotient(p, Loc(j), Inv(j))[n])] =
        [j \in 0 .. nn |-> Mul(B[j], Exp(Loc(j) * n))]
    BY <1>2
  <1> HIDE DEF B
  <1>4. PlusAll([i \in 0 .. nn |-> IF i <= n THEN Mul(p[i], Moment(A, n - i)) ELSE {}]) =
        PlusAll([j \in 0 .. nn |-> Mul(A[j], Quotient(p, Loc(j), Inv(j))[n])])
    BY MomentConvolution
  <1> QED
    BY <1>3, <1>4 DEF Moment, B

LEMMA ZeroConvolution ==
  ASSUME NEW p \in Series, NEW A \in Series, NEW n \in 0 .. nn,
         \A i \in 0 .. n : p[i] = {} \/ Moment(A, n - i) = {}
  PROVE  PlusAll([i \in 0 .. nn |-> IF i <= n THEN Mul(p[i], Moment(A, n - i)) ELSE {}]) = {}
  <1> DEFINE f == [i \in 0 .. nn |-> IF i <= n THEN Mul(p[i], Moment(A, n - i)) ELSE {}]
  <1>1. nn \in Nat /\ n \in Nat
    BY Sizes
  <1>2. \A i \in 0 .. nn : f[i] = {}
    <2> SUFFICES ASSUME NEW i \in 0 .. nn, i <= n PROVE Mul(p[i], Moment(A, n - i)) = {}
      OBVIOUS
    <2>1. n - i \in Nat /\ i \in 0 .. n
      BY <1>1
    <2>2. p[i] \in Symbols /\ Moment(A, n - i) \in Symbols
      BY <2>1, MomentParts DEF Series
    <2> QED
      BY <2>1, <2>2, MulZero
  <1>3. f \in Series
    BY <1>2, Unit DEF Series
  <1> HIDE DEF f
  <1>4. PlusAll(f) = {}
    BY <1>2, <1>3, ZeroSum DEF Series
  <1> QED
    BY <1>4 DEF f

(* Vandermonde: no more positions than moments that are all 0 are all 0.   *)
LEMMA FewMoments ==
  ASSUME NEW A \in Series, NEW S \in SUBSET (0 .. nn - 1),
         \A j \in 0 .. nn : j \notin S => A[j] = {},
         NEW m \in Nat, m + Cardinality(S) <= nn,
         \A n \in m .. m + Cardinality(S) - 1 : Moment(A, n) = {}
  PROVE  \A j \in 0 .. nn : A[j] = {}
  <1> SUFFICES ASSUME NEW k \in S PROVE A[k] = {}
    OBVIOUS
  <1> DEFINE R == S \ {k}
             t == Cardinality(S)
             n == m + t - 1
  <1>1. nn \in Nat \ {0}
    BY Sizes
  <1>2. IsFiniteSet(S) /\ t \in Nat /\ Cardinality(R) = t - 1
    BY SomePositions, FS_RemoveElement
  <1>3. t - 1 \in Nat
    <2>1. IsFiniteSet(R)
      BY <1>2, FS_RemoveElement
    <2>2. Cardinality(R) \in Nat
      BY <2>1, FS_CardinalityType
    <2> QED
      BY <1>2, <2>2
  <1>4. PICK p : Vanishes(p, R)
    <2>1. R \in SUBSET (0 .. nn - 1)
      OBVIOUS
    <2> QED
      BY <2>1, RootPolynomial
  <1>5. p \in Series /\ Degree(p, t - 1) /\ \A c \in 0 .. nn - 1 : Value(p, Inv(c)) = {} <=> c \in R
    BY <1>2, <1>4 DEF Vanishes
  <1>6. n \in 0 .. nn /\ n >= t - 1 /\ t - 1 \in Nat /\ n \in Nat
    BY <1>1, <1>2, <1>3
  <1> HIDE DEF R, t
  <1>7. \A i \in 0 .. n : p[i] = {} \/ Moment(A, n - i) = {}
    <2> TAKE i \in 0 .. n
    <2>1. i \in 0 .. nn
      BY <1>1, <1>6
    <2>2. CASE i > t - 1
      BY <1>5, <2>1, <2>2 DEF Degree
    <2>3. CASE ~(i > t - 1)
      <3>1. n - i \in m .. m + t - 1
        BY <1>2, <1>6, <2>3
      <3> QED
        BY <3>1 DEF t
    <2> QED
      BY <2>2, <2>3
  <1> HIDE DEF n
  <1> DEFINE B == Weighted(A, p)
             d == t - 1
             h == [j \in 0 .. nn |-> Mul(B[j], Exp(Loc(j) * n))]
  <1>8. Moment(B, n) = {}
    <2>1. d \in Nat /\ Degree(p, d) /\ n >= d
      BY <1>5, <1>6
    <2> HIDE DEF d
    <2> QED
      <3>1. PlusAll([i \in 0 .. nn |-> IF i <= n THEN Mul(p[i], Moment(A, n - i)) ELSE {}]) = {}
        BY <1>5, <1>6, <1>7, ZeroConvolution
      <3>2. PlusAll([i \in 0 .. nn |-> IF i <= n THEN Mul(p[i], Moment(A, n - i)) ELSE {}]) =
            Moment(Weighted(A, p), n)
        BY <1>5, <1>6, <2>1, ConvolutionBeyond
      <3> QED
        BY <3>1, <3>2
  <1>9. B \in Series /\ \A j \in 0 .. nn : /\ A[j] \in Symbols /\ Value(p, Inv(j)) \in Symbols
                                           /\ B[j] = Mul(A[j], Value(p, Inv(j)))
    BY <1>5, WeightedType
  <1>10. ASSUME NEW j \in 0 .. nn, j # k
         PROVE  B[j] = {}
    <2>1. CASE j \in S
      <3>1. j \in R /\ j \in 0 .. nn - 1
        BY <1>10, <2>1 DEF R
      <3> QED
        BY <1>5, <1>9, <3>1, MulZero
    <2>2. CASE j \notin S
      BY <1>9, <2>2, MulZero
    <2> QED
      BY <2>1, <2>2
  <1> HIDE DEF B
  <1>11. /\ h \in Series
         /\ \A j \in 0 .. nn : B[j] \in Symbols /\ Exp(Loc(j) * n) \in Symbols /\ Exp(Loc(j) * n) # {}
    BY <1>6, <1>9, MomentParts
  <1>12. \A j \in 0 .. nn : j # k => h[j] = {}
    BY <1>10, <1>11, MulZero
  <1>13. k \in 0 .. nn /\ k \in 0 .. nn - 1 /\ k \notin R
    BY <1>1 DEF R
  <1>14. PlusAll(h) = Mul(B[k], Exp(Loc(k) * n))
    <2>1. h[k] = Mul(B[k], Exp(Loc(k) * n))
      BY <1>13
    <2> HIDE DEF h
    <2> QED
      BY <1>11, <1>12, <1>13, <2>1, OnlyTermSum
  <1>15. B[k] = {}
    BY <1>8, <1>11, <1>13, <1>14, MulNotZero DEF Moment
  <1> QED
    BY <1>5, <1>9, <1>13, <1>15, MulNotZero

(* Moments are linear. *)
LEMMA MomentPlus ==
  ASSUME NEW A \in Series, NEW B \in Series, NEW C \in Series,
         \A j \in 0 .. nn : C[j] = Plus(A[j], B[j]), NEW n \in Nat
  PROVE  Moment(C, n) = Plus(Moment(A, n), Moment(B, n))
  <1> DEFINE f == [j \in 0 .. nn |-> Mul(A[j], Exp(Loc(j) * n))]
             g == [j \in 0 .. nn |-> Mul(B[j], Exp(Loc(j) * n))]
             h == [j \in 0 .. nn |-> Mul(C[j], Exp(Loc(j) * n))]
  <1>1. /\ f \in Series /\ g \in Series /\ h \in Series
        /\ \A j \in 0 .. nn : A[j] \in Symbols /\ B[j] \in Symbols /\ Exp(Loc(j) * n) \in Symbols
    BY MomentParts
  <1>2. \A j \in 0 .. nn : h[j] = Plus(f[j], g[j])
    <2> TAKE j \in 0 .. nn
    <2>1. Mul(Plus(A[j], B[j]), Exp(Loc(j) * n)) = Plus(Mul(A[j], Exp(Loc(j) * n)), Mul(B[j], Exp(Loc(j) * n)))
      BY <1>1, DistributesRight
    <2> QED
      BY <2>1
  <1> HIDE DEF f, g, h
  <1>3. PlusAll(h) = Plus(PlusAll(f), PlusAll(g))
    BY <1>1, <1>2, SumPlus
  <1> QED
    BY <1>3 DEF Moment, f, g, h

-----------------------------------------------------------------------------
(* Syndromes are moments *)

Words == [0 .. nn - 1 -> Symbols]
WordOf(d, par) == [j \in 0 .. nn - 1 |-> Word(d, par, j)]

(* What position j adds to the first syndrome. *)
Scaled(w) == [j \in 0 .. nn |-> IF j < nn THEN Mul(w[j], Exp(Loc(j) * FCR)) ELSE {}]

LEMMA ScaledType ==
  ASSUME NEW w \in Words
  PROVE  /\ Scaled(w) \in Series /\ Scaled(w)[nn] = {}
         /\ \A j \in 0 .. nn - 1 : /\ w[j] \in Symbols /\ j \in 0 .. nn
                                   /\ Exp(Loc(j) * FCR) \in Symbols /\ Exp(Loc(j) * FCR) # {}
                                   /\ Scaled(w)[j] = Mul(w[j], Exp(Loc(j) * FCR))
                                   /\ Scaled(w)[j] = {} <=> w[j] = {}
  <1>1. nn \in Nat \ {0} /\ FCR \in Nat
    BY Sizes
  <1>2. \A j \in 0 .. nn - 1 : w[j] \in Symbols /\ j \in 0 .. nn /\ j < nn
    BY <1>1 DEF Words
  <1>3. \A j \in 0 .. nn - 1 : Exp(Loc(j) * FCR) \in Symbols /\ Exp(Loc(j) * FCR) # {}
    <2> TAKE j \in 0 .. nn - 1
    <2>1. Loc(j) \in Nat
      BY <1>2, LocType
    <2>2. Loc(j) * FCR \in Nat
      BY <1>1, <2>1
    <2> QED
      BY <2>2, ExpType
  <1>4. \A j \in 0 .. nn - 1 : Mul(w[j], Exp(Loc(j) * FCR)) \in Symbols
    BY <1>2, <1>3, MulType
  <1>5. \A j \in 0 .. nn : j < nn => j \in 0 .. nn - 1
    BY <1>1
  <1>6. Scaled(w) \in Series
    BY <1>4, <1>5, Unit DEF Scaled, Series
  <1>7. Scaled(w)[nn] = {}
    BY <1>1 DEF Scaled
  <1>8. \A j \in 0 .. nn - 1 : Scaled(w)[j] = Mul(w[j], Exp(Loc(j) * FCR))
    BY <1>2 DEF Scaled
  <1> QED
    BY <1>2, <1>3, <1>6, <1>7, <1>8, MulNotZero

LEMMA ScaledPlus ==
  ASSUME NEW w \in Words, NEW u \in Words, NEW v \in Words,
         \A j \in 0 .. nn - 1 : v[j] = Plus(w[j], u[j])
  PROVE  \A j \in 0 .. nn : Scaled(v)[j] = Plus(Scaled(w)[j], Scaled(u)[j])
  <1> TAKE j \in 0 .. nn
  <1>1. CASE j = nn
    BY <1>1, ScaledType, PlusRules
  <1>2. CASE j # nn
    <2>1. j \in 0 .. nn - 1
      BY <1>2, Sizes
    <2>2. /\ w[j] \in Symbols /\ u[j] \in Symbols /\ Exp(Loc(j) * FCR) \in Symbols
          /\ Scaled(w)[j] = Mul(w[j], Exp(Loc(j) * FCR)) /\ Scaled(u)[j] = Mul(u[j], Exp(Loc(j) * FCR))
          /\ Scaled(v)[j] = Mul(v[j], Exp(Loc(j) * FCR))
      BY <2>1, ScaledType
    <2> QED
      BY <2>1, <2>2, DistributesRight
  <1> QED
    BY <1>1, <1>2

LEMMA WordType ==
  ASSUME NEW d \in DataLists, NEW par \in SyndromeLists
  PROVE  /\ WordOf(d, par) \in Words /\ IsWord(d, par)
         /\ \A j \in 0 .. nn - 1 : WordOf(d, par)[j] = Word(d, par, j)
  BY PartsAreWord DEF WordOf, Words, IsWord

LEMMA TimesThree ==
  ASSUME NEW a \in Nat, NEW c \in Nat, NEW e \in Nat
  PROVE  (a * c) * e = (c * e) * a
  OBVIOUS

LEMMA PowerAt ==
  ASSUME NEW j \in 0 .. nn - 1, NEW i \in Nat
  PROVE  /\ (FCR + i) * Prim \in Nat /\ nn - 1 - j \in Nat
         /\ Exp(((FCR + i) * Prim) * (nn - 1 - j)) = Mul(Exp(Loc(j) * FCR), Exp(Loc(j) * i))
  <1> DEFINE v == nn - 1 - j
             l == Prim * v
  <1>1. nn \in Nat \ {0} /\ FCR \in Nat /\ Prim \in Nat /\ v \in Nat /\ Loc(j) = l
    BY Sizes DEF Loc
  <1>2. (FCR + i) * Prim \in Nat /\ l \in Nat
    <2> HIDE DEF v
    <2> QED
      BY <1>1
  <1>3. ((FCR + i) * Prim) * v = l * (FCR + i)
    <2> DEFINE c == FCR + i
    <2>1. c \in Nat
      BY <1>1
    <2>2. ((FCR + i) * Prim) * v = (c * Prim) * v /\ l * (FCR + i) = (Prim * v) * c
      OBVIOUS
    <2> HIDE DEF v, c, l
    <2>3. (c * Prim) * v = (Prim * v) * c
      BY <1>1, <2>1, TimesThree
    <2> QED
      BY <2>2, <2>3, Zenon
  <1>4. Exp(l * (FCR + i)) = Mul(Exp(l * FCR), Exp(l * i))
    <2>1. l \in Nat /\ FCR \in Nat
      BY <1>1, <1>2
    <2> HIDE DEF l
    <2> QED
      BY <2>1, ExpPlus
  <1> HIDE DEF l
  <1> QED
    BY <1>1, <1>2, <1>3, <1>4

(* A syndrome by Horner's rule is a moment of the word. *)
LEMMA SyndromeMoment ==
  ASSUME NEW d \in DataLists, NEW par \in SyndromeLists, NEW i \in 0 .. NRoots - 1
  PROVE  Syndromes(d, par)[i] = Moment(Scaled(WordOf(d, par)), i)
  <1> DEFINE w == WordOf(d, par)
             a == (FCR + i) * Prim
             pw(j) == Exp(a * (nn - 1 - j))
             g == [j \in 0 .. nn |-> IF j < nn THEN Mul(w[j], pw(j)) ELSE {}]
  <1>1. nn \in Nat \ {0} /\ NRoots \in Nat /\ i \in Nat
    BY Sizes
  <1>2. a \in Nat /\ \A j \in 0 .. nn - 1 : nn - 1 - j \in Nat /\ a * (nn - 1 - j) \in Nat
    <2>1. a \in Nat /\ \A j \in 0 .. nn - 1 : nn - 1 - j \in Nat
      BY <1>1, Sizes, PowerAt
    <2> HIDE DEF a
    <2> QED
      BY <2>1
  <1>3. w \in Words /\ IsWord(d, par) /\ \A j \in 0 .. nn - 1 : w[j] = Word(d, par, j) /\ w[j] \in Symbols
    BY WordType DEF Words
  <1>4. PICK e : IsHorner(e, d, par, i) /\ Syndromes(d, par)[i] = e[nn - 1]
    BY <1>3, SyndromeValue
  <1>5. \A j \in 0 .. nn - 1 : pw(j) \in Symbols /\ e[j] \in Symbols
    BY <1>2, <1>4, ExpType DEF IsHorner
  <1>6. Root(i) = Exp(a) /\ Exp(a) \in Symbols
    BY <1>2, ExpType DEF Root
  <1> HIDE DEF w, a
  <1>7. g \in Series
    <2>1. \A j \in 0 .. nn - 1 : Mul(w[j], pw(j)) \in Symbols
      BY <1>3, <1>5, MulType
    <2>2. \A j \in 0 .. nn : j < nn => j \in 0 .. nn - 1
      BY <1>1
    <2> HIDE DEF pw
    <2> QED
      BY <2>1, <2>2, Unit DEF Series
  <1>8. /\ \A j \in 0 .. nn - 1 : g[j] = Mul(w[j], pw(j))
        /\ g[nn] = {}
    BY <1>1
  <1>9. IsTerms(g) /\ \A j \in 0 .. nn : Term(g, j) = g[j]
    <2> HIDE DEF g
    <2> QED
      BY <1>7, FunctionTerms DEF Series
  <1> HIDE DEF g
  <1>10. Sums(g)[0] = {} /\ \A j \in 0 .. nn : Sums(g)[j + 1] = Plus(Sums(g)[j], g[j])
    BY <1>9, SumsStep
  <1> DEFINE T == {j \in 0 .. nn - 1 : Mul(e[j], pw(j)) = Sums(g)[j + 1]}
  <1>11. 0 \in T
    <2>1. 0 \in 0 .. nn - 1 /\ 0 \in 0 .. nn
      BY <1>1
    <2>2. Sums(g)[0 + 1] = g[0]
      BY <1>10, <2>1, PlusRules
    <2>3. e[0] = w[0]
      BY <1>3, <1>4, <2>1 DEF IsHorner
    <2> HIDE DEF pw
    <2> QED
      BY <1>8, <2>1, <2>2, <2>3
  <1>12. ASSUME NEW j \in 0 .. (nn - 1) - 1, j \in T
         PROVE  j + 1 \in T
    <2> DEFINE k == j + 1
               x == pw(k)
    <2>1. /\ k \in 1 .. nn - 1 /\ k \in 0 .. nn - 1 /\ k \in 0 .. nn /\ k - 1 = j /\ j \in 0 .. nn - 1
          /\ nn - 1 - j = (nn - 1 - k) + 1 /\ nn - 1 - k \in Nat
      BY <1>1
    <2>2. pw(j) = Mul(Exp(a), x)
      <3> DEFINE n == nn - 1 - k
      <3>1. /\ a \in Nat /\ a * 1 = a
            /\ n \in Nat /\ 1 \in Nat /\ nn - 1 - j = n + 1
        BY <1>2, <2>1
      <3>2. pw(j) = Exp(a * (n + 1)) /\ x = Exp(a * n)
        BY <3>1
      <3>3. x \in Symbols
        BY <1>5, <2>1
      <3> HIDE DEF n, x, k, T, pw
      <3>4. Exp(a * (n + 1)) = Mul(Exp(a * n), Exp(a * 1))
        BY <3>1, ExpPlus
      <3> QED
        BY <1>6, <3>1, <3>2, <3>3, <3>4, MulCommutes
    <2>3. e[k] = Plus(w[k], Mul(e[j], Exp(a)))
      BY <1>3, <1>4, <1>6, <2>1 DEF IsHorner
    <2>4. x \in Symbols /\ e[j] \in Symbols /\ w[k] \in Symbols /\ pw(j) \in Symbols
      BY <1>3, <1>5, <2>1
    <2>5. Mul(e[j], pw(j)) = Sums(g)[k]
      BY <1>12
    <2>6. Sums(g)[k + 1] = Plus(Sums(g)[k], Mul(w[k], x))
      BY <1>8, <1>10, <2>1
    <2> HIDE DEF k, x, pw
    <2>7. Mul(e[j], Exp(a)) \in Symbols /\ Mul(w[k], x) \in Symbols
      BY <1>6, <2>4, MulType
    <2>8. Mul(Plus(w[k], Mul(e[j], Exp(a))), x) = Plus(Mul(w[k], x), Mul(Mul(e[j], Exp(a)), x))
      BY <2>4, <2>7, DistributesRight
    <2>9. Mul(Mul(e[j], Exp(a)), x) = Mul(e[j], Mul(Exp(a), x))
      BY <1>6, <2>4, MulAssociates
    <2>10. Plus(Mul(w[k], x), Sums(g)[k]) = Plus(Sums(g)[k], Mul(w[k], x))
      BY PlusRules
    <2>11. Mul(e[k], x) = Sums(g)[k + 1]
      BY <2>2, <2>3, <2>5, <2>6, <2>8, <2>9, <2>10
    <2>12. k \in T
      BY <2>1, <2>11 DEF x
    <2> QED
      BY <2>12 DEF k
  <1>13. Mul(e[nn - 1], pw(nn - 1)) = Sums(g)[(nn - 1) + 1]
    <2>1. \A j \in 0 .. (nn - 1) - 1 : j \in T => j + 1 \in T
      BY <1>12
    <2>2. nn - 1 \in Nat /\ nn - 1 \in 0 .. nn - 1
      BY <1>1
    <2> HIDE DEF T
    <2>3. nn - 1 \in T
      <3> DEFINE K == nn - 1
      <3>1. K \in Nat /\ K \in 0 .. K /\ \A j \in 0 .. K - 1 : j \in T => j + 1 \in T
        BY <2>1, <2>2
      <3> HIDE DEF K
      <3>2. \A j \in 0 .. K : j \in T
        BY <1>11, <3>1, Upwards
      <3> QED
        BY <3>1, <3>2 DEF K
    <2> QED
      BY <2>3 DEF T
  <1>14. Mul(e[nn - 1], pw(nn - 1)) = e[nn - 1]
    <2>1. a * (nn - 1 - (nn - 1)) = 0 /\ nn - 1 \in 0 .. nn - 1
      BY <1>1, <1>2
    <2> QED
      BY <1>5, <2>1, ExpZero, MulUnit
  <1>15. PlusAll(g) = e[nn - 1]
    <2>1. nn \in 0 .. nn /\ (nn - 1) + 1 = nn
      BY <1>1
    <2>2. Sums(g)[nn + 1] = Plus(Sums(g)[nn], g[nn])
      BY <1>10, <2>1
    <2>3. Sums(g)[nn] = e[nn - 1]
      <3> HIDE DEF pw
      <3> QED
        BY <1>13, <1>14, <2>1
    <2>4. Plus(e[nn - 1], {}) = e[nn - 1]
      BY PlusRules
    <2> QED
      BY <1>8, <2>2, <2>3, <2>4 DEF PlusAll
  <1>16. g = [j \in 0 .. nn |-> Mul(Scaled(w)[j], Exp(Loc(j) * i))]
    <2> SUFFICES ASSUME NEW j \in 0 .. nn
                 PROVE  g[j] = Mul(Scaled(w)[j], Exp(Loc(j) * i))
      BY <1>7 DEF Series
    <2>1. Scaled(w) \in Series /\ Exp(Loc(j) * i) \in Symbols
      BY <1>1, <1>3, ScaledType, MomentParts
    <2>2. CASE j = nn
      BY <1>3, <1>8, <2>1, <2>2, ScaledType, MulZero
    <2>3. CASE j # nn
      <3>1. j \in 0 .. nn - 1
        BY <1>1, <2>3
      <3>2. w[j] \in Symbols /\ Exp(Loc(j) * FCR) \in Symbols /\ Scaled(w)[j] = Mul(w[j], Exp(Loc(j) * FCR))
        BY <1>3, <3>1, ScaledType
      <3>3. pw(j) = Mul(Exp(Loc(j) * FCR), Exp(Loc(j) * i))
        BY <1>1, <3>1, PowerAt DEF a
      <3>4. Mul(Mul(w[j], Exp(Loc(j) * FCR)), Exp(Loc(j) * i)) = Mul(w[j], Mul(Exp(Loc(j) * FCR), Exp(Loc(j) * i)))
        BY <2>1, <3>2, MulAssociates
      <3> QED
        BY <1>8, <3>1, <3>2, <3>3, <3>4
    <2> QED
      BY <2>2, <2>3
  <1> QED
    BY <1>4, <1>15, <1>16 DEF Moment, w

-----------------------------------------------------------------------------
(* Words of the code *)

LEMMA ValuePlus ==
  ASSUME NEW f \in Series, NEW g \in Series, NEW h \in Series,
         \A i \in 0 .. nn : h[i] = Plus(f[i], g[i]), NEW a \in Nat
  PROVE  Value(h, a) = Plus(Value(f, a), Value(g, a))
  <1>1. /\ Parts(f, a) \in Series /\ Parts(g, a) \in Series /\ Parts(h, a) \in Series
        /\ \A i \in 0 .. nn : /\ f[i] \in Symbols /\ g[i] \in Symbols /\ Exp(a * i) \in Symbols
                              /\ Parts(f, a)[i] = Mul(f[i], Exp(a * i))
                              /\ Parts(g, a)[i] = Mul(g[i], Exp(a * i))
                              /\ Parts(h, a)[i] = Mul(h[i], Exp(a * i))
    BY PartsSeries
  <1>2. \A i \in 0 .. nn : Parts(h, a)[i] = Plus(Parts(f, a)[i], Parts(g, a)[i])
    BY <1>1, DistributesRight
  <1> QED
    BY <1>1, <1>2, SumPlus DEF Value

LEMMA ValueTimes ==
  ASSUME NEW f \in Series, NEW g \in Series, NEW c \in Symbols,
         \A i \in 0 .. nn : g[i] = Mul(c, f[i]), NEW a \in Nat
  PROVE  Value(g, a) = Mul(c, Value(f, a))
  <1>1. /\ Parts(f, a) \in Series /\ Parts(g, a) \in Series
        /\ \A i \in 0 .. nn : /\ f[i] \in Symbols /\ Exp(a * i) \in Symbols
                              /\ Parts(f, a)[i] = Mul(f[i], Exp(a * i))
                              /\ Parts(g, a)[i] = Mul(g[i], Exp(a * i))
    BY PartsSeries
  <1>2. \A i \in 0 .. nn : Parts(g, a)[i] = Mul(c, Parts(f, a)[i])
    BY <1>1, MulAssociates
  <1> QED
    BY <1>1, <1>2, SumTimes DEF Value

(* Multiplied by x. *)
Raised(f) == [i \in 0 .. nn |-> IF i = 0 THEN {} ELSE f[i - 1]]

LEMMA RaisedType ==
  ASSUME NEW f \in Series
  PROVE  /\ Raised(f) \in Series
         /\ Raised(f)[0] = {} /\ \A i \in 0 .. nn : i # 0 => i - 1 \in 0 .. nn /\ Raised(f)[i] = f[i - 1]
  <1>1. nn \in Nat
    BY Sizes
  <1>2. \A i \in 0 .. nn : i # 0 => i - 1 \in 0 .. nn
    BY <1>1
  <1> QED
    BY <1>1, <1>2, Unit DEF Raised, Series

LEMMA RaisedValue ==
  ASSUME NEW f \in Series, f[nn] = {}, NEW a \in Nat
  PROVE  Value(Raised(f), a) = Mul(Exp(a), Value(f, a))
  <1> DEFINE g == Times(f, {0})
             v == Value(f, a)
             x == Exp(a)
  <1>1. g \in Series /\ Raised(f) \in Series /\ \A i \in 0 .. nn : f[i] \in Symbols
    BY TimesType, RaisedType, Unit DEF Series
  <1>2. \A i \in 0 .. nn : Raised(f)[i] = Plus(g[i], f[i])
    <2> SUFFICES ASSUME NEW i \in 0 .. nn PROVE Raised(f)[i] = Plus(g[i], f[i])
      OBVIOUS
    <2>1. i # 0 => Mul({0}, f[i - 1]) = f[i - 1] /\ Raised(f)[i] = f[i - 1]
      BY <1>1, RaisedType, MulUnit
    <2>2. i = 0 => Raised(f)[i] = {}
      BY RaisedType
    <2>3. g[i] = Plus(f[i], Raised(f)[i])
      BY <2>1, <2>2 DEF Times
    <2> QED
      BY <2>3, PlusTwice
  <1>3. v \in Symbols /\ x \in Symbols
    BY PartsSeries, ExpType
  <1>4. Value(g, a) = Mul(Plus({0}, Mul({0}, x)), v)
    BY TimesValue, Unit
  <1>5. Mul({0}, x) = x
    BY <1>3, MulUnit
  <1>6. Mul(Plus({0}, x), v) = Plus(Mul({0}, v), Mul(x, v))
    BY <1>3, Unit, DistributesRight
  <1>7. Mul({0}, v) = v
    BY <1>3, MulUnit
  <1> HIDE DEF g, v, x
  <1>8. Value(Raised(f), a) = Plus(Value(g, a), v)
    BY <1>1, <1>2, ValuePlus DEF v
  <1>9. Plus(Plus(v, Mul(x, v)), v) = Mul(x, v)
    BY PlusTwice
  <1> QED
    BY <1>4, <1>5, <1>6, <1>7, <1>8, <1>9 DEF v, x

AsSeries(p) == [i \in 0 .. nn |-> IF i <= NRoots THEN p[i] ELSE {}]

LEMMA AsSeriesType ==
  ASSUME NEW p \in Polynomials
  PROVE  /\ AsSeries(p) \in Series
         /\ \A i \in 0 .. NRoots : i \in 0 .. nn /\ p[i] \in Symbols /\ AsSeries(p)[i] = p[i]
         /\ \A i \in 0 .. nn : i > NRoots => AsSeries(p)[i] = {}
         /\ AsSeries(p)[nn] = {}
  <1>1. nn \in Nat /\ NRoots \in Nat /\ NRoots < nn
    BY Sizes, ReedSolomonAssumption
  <1>2. \A i \in 0 .. nn : i <= NRoots => i \in 0 .. NRoots
    BY <1>1
  <1>3. \A i \in 0 .. NRoots : i \in 0 .. nn /\ p[i] \in Symbols
    BY <1>1 DEF Polynomials
  <1> QED
    BY <1>1, <1>2, <1>3, Unit DEF AsSeries, Series

(* The generator polynomial so far has its roots so far, and is monic. *)
Logarithm(k) == (FCR + k) * Prim

LEMMA LogarithmType ==
  ASSUME NEW k \in Nat
  PROVE  Logarithm(k) \in Nat /\ Root(k) = Exp(Logarithm(k)) /\ Root(k) \in Symbols
  <1>1. Logarithm(k) \in Nat
    BY Sizes DEF Logarithm
  <1> QED
    BY <1>1, ExpType DEF Root, Logarithm

IsGenerator(g, n) ==
  /\ g \in Polynomials
  /\ g[n] = {0} /\ \A i \in 0 .. NRoots : i > n => g[i] = {}
  /\ \A k \in 0 .. n - 1 : Value(AsSeries(g), Logarithm(k)) = {}

LEMMA GeneratorStep ==
  ASSUME NEW n \in 0 .. NRoots - 1, NEW g, IsGenerator(g, n)
  PROVE  IsGenerator(TimesFactor(g, Root(n)), n + 1)
  <1> DEFINE x == Root(n)
             h == TimesFactor(g, x)
             f == AsSeries(g)
             u == [i \in 0 .. nn |-> Mul(x, f[i])]
  <1>1. NRoots \in Nat /\ nn \in Nat /\ NRoots < nn /\ n \in Nat /\ n + 1 \in 0 .. NRoots
    BY Sizes, ReedSolomonAssumption
  <1>2. g \in Polynomials /\ x \in Symbols /\ h \in Polynomials
    BY <1>1, LogarithmType, TimesFactorType DEF IsGenerator
  <1>3. \A i \in 0 .. NRoots : g[i] \in Symbols /\ Mul(g[i], x) = Mul(x, g[i])
    BY <1>2, MulCommutes DEF Polynomials
  <1>4. h[n + 1] = {0}
    <2>1. g[n + 1] = {} /\ g[n] = {0} /\ (n + 1) - 1 = n /\ n + 1 # 0
      BY <1>1 DEF IsGenerator
    <2>2. Mul({}, x) = {}
      BY <1>2, MulZero
    <2>3. Plus({0}, {}) = {0}
      BY PlusRules
    <2> HIDE DEF x
    <2> QED
      BY <1>1, <2>1, <2>2, <2>3 DEF TimesFactor
  <1>5. \A i \in 0 .. NRoots : i > n + 1 => h[i] = {}
    <2> SUFFICES ASSUME NEW i \in 0 .. NRoots, i > n + 1 PROVE h[i] = {}
      OBVIOUS
    <2>1. i # 0 /\ i - 1 \in 0 .. NRoots /\ i - 1 > n /\ i > n
      BY <1>1
    <2>2. g[i] = {} /\ g[i - 1] = {}
      BY <2>1 DEF IsGenerator
    <2>3. Mul({}, x) = {} /\ Plus({}, {}) = {}
      BY <1>2, MulZero, PlusRules
    <2> HIDE DEF x
    <2> QED
      BY <2>1, <2>2, <2>3 DEF TimesFactor
  <1>6. f \in Series /\ AsSeries(h) \in Series /\ f[nn] = {} /\ \A i \in 0 .. nn : f[i] \in Symbols
    BY <1>2, AsSeriesType DEF Series
  <1>7. u \in Series
    <2>1. \A i \in 0 .. nn : Mul(x, f[i]) \in Symbols
      BY <1>2, <1>6, MulType
    <2> QED
      BY <2>1 DEF Series
  <1>8. \A i \in 0 .. nn : AsSeries(h)[i] = Plus(Raised(f)[i], u[i])
    <2> SUFFICES ASSUME NEW i \in 0 .. nn PROVE AsSeries(h)[i] = Plus(Raised(f)[i], u[i])
      OBVIOUS
    <2> HIDE DEF x
    <2>1. CASE i <= NRoots
      <3>1. i \in 0 .. NRoots
        BY <1>1, <2>1
      <3>2. AsSeries(h)[i] = Plus(IF i = 0 THEN {} ELSE g[i - 1], Mul(g[i], x))
        BY <1>2, <3>1, AsSeriesType DEF TimesFactor
      <3>3. f[i] = g[i] /\ u[i] = Mul(g[i], x)
        BY <1>2, <1>3, <3>1, AsSeriesType
      <3>4. Raised(f)[i] = IF i = 0 THEN {} ELSE g[i - 1]
        <4>1. i # 0 => i - 1 \in 0 .. NRoots
          BY <1>1, <3>1
        <4>2. i # 0 => f[i - 1] = g[i - 1]
          BY <1>2, <4>1, AsSeriesType
        <4> HIDE DEF f
        <4> QED
          BY <1>6, <4>2, RaisedType
      <3> QED
        BY <3>2, <3>3, <3>4
    <2>2. CASE ~(i <= NRoots)
      <3>1. i - 1 \in 0 .. NRoots \/ (i - 1 > NRoots /\ i - 1 \in 0 .. nn)
        BY <1>1, <2>2
      <3>2. i > NRoots /\ i # 0
        BY <1>1, <2>2
      <3>3. AsSeries(h)[i] = {} /\ f[i] = {}
        BY <1>2, <3>2, AsSeriesType
      <3>4. f[i - 1] = {}
        <4>1. CASE i - 1 > NRoots /\ i - 1 \in 0 .. nn
          BY <1>2, <4>1, AsSeriesType
        <4>2. CASE i - 1 \in 0 .. NRoots
          <5>1. i - 1 > n
            BY <1>1, <3>2, <4>2
          <5>2. g[i - 1] = {}
            BY <4>2, <5>1 DEF IsGenerator
          <5> QED
            BY <1>2, <4>2, <5>2, AsSeriesType
        <4> QED
          BY <3>1, <4>1, <4>2
      <3>5. Raised(f)[i] = {}
        <4> HIDE DEF f
        <4> QED
          BY <1>6, <3>2, <3>4, RaisedType
      <3>6. u[i] = {}
        BY <1>2, <3>3, MulZero
      <3> QED
        BY <3>3, <3>5, <3>6, PlusRules
    <2> QED
      BY <2>1, <2>2
  <1>9. ASSUME NEW k \in 0 .. n
        PROVE  Value(AsSeries(h), Logarithm(k)) = {}
    <2> DEFINE a == Logarithm(k)
               v == Value(f, a)
    <2>1. k \in Nat
      BY <1>1
    <2>2. a \in Nat /\ Root(k) = Exp(a)
      BY <2>1, LogarithmType
    <2> HIDE DEF a, x
    <2>3. v \in Symbols /\ Exp(a) \in Symbols
      BY <1>6, <2>2, PartsSeries, ExpType
    <2>4. Value(Raised(f), a) = Mul(Exp(a), v)
      BY <1>6, <2>2, RaisedValue
    <2>5. Value(u, a) = Mul(x, v)
      BY <1>2, <1>6, <1>7, <2>2, ValueTimes
    <2>6. Value(AsSeries(h), a) = Plus(Mul(Exp(a), v), Mul(x, v))
      <3>1. Raised(f) \in Series
        BY <1>6, RaisedType
      <3> HIDE DEF f, h, u, v
      <3>2. Value(AsSeries(h), a) = Plus(Value(Raised(f), a), Value(u, a))
        BY <1>6, <1>7, <1>8, <2>2, <3>1, ValuePlus
      <3> QED
        BY <2>4, <2>5, <3>2
    <2>7. CASE k = n
      <3>1. Plus(Mul(x, v), Mul(x, v)) = {}
        BY PlusRules
      <3>2. Exp(a) = x
        BY <2>2, <2>7 DEF x
      <3> HIDE DEF h, v
      <3> QED
        BY <2>6, <3>1, <3>2 DEF a
    <2>8. CASE k # n
      <3>1. k \in 0 .. n - 1
        BY <1>1, <2>8
      <3>2. v = {}
        BY <3>1 DEF IsGenerator, a
      <3>3. Mul(Exp(a), {}) = {} /\ Mul(x, {}) = {} /\ Plus({}, {}) = {}
        BY <1>2, <2>3, MulZero, PlusRules
      <3> HIDE DEF h, v
      <3> QED
        BY <2>6, <3>2, <3>3 DEF a
    <2> QED
      BY <2>7, <2>8
  <1>10. \A k \in 0 .. (n + 1) - 1 : k \in 0 .. n
    BY <1>1
  <1> HIDE DEF h
  <1>11. \A k \in 0 .. (n + 1) - 1 : Value(AsSeries(h), Logarithm(k)) = {}
    BY <1>9, <1>10
  <1>12. IsGenerator(h, n + 1)
    BY <1>2, <1>4, <1>5, <1>11 DEF IsGenerator
  <1> QED
    BY <1>12 DEF h

LEMMA Generator == IsGenerator(genpoly, NRoots)
  <1> DEFINE T == {n \in 0 .. NRoots : IsGenerator(GenPoly[n], n)}
  <1>1. NRoots \in Nat /\ 0 \in 0 .. NRoots /\ NRoots \in 0 .. NRoots
    BY Sizes
  <1>2. 0 \in T
    <2>1. GenPoly[0] = One
      BY GenPolyStep
    <2>2. \A i \in 0 .. NRoots : i > 0 => i \in 1 .. NRoots
      BY <1>1
    <2>3. \A k \in 0 .. 0 - 1 : FALSE
      OBVIOUS
    <2>4. IsGenerator(One, 0)
      BY <2>2, <2>3, OneType DEF IsGenerator
    <2> QED
      BY <1>1, <2>1, <2>4
  <1>3. ASSUME NEW n \in 0 .. NRoots - 1, n \in T
        PROVE  n + 1 \in T
    <2>1. n + 1 \in 0 .. NRoots
      BY <1>1
    <2>2. GenPoly[n + 1] = TimesFactor(GenPoly[n], Root(n))
      BY GenPolyStep
    <2>3. IsGenerator(TimesFactor(GenPoly[n], Root(n)), n + 1)
      BY <1>3, GeneratorStep
    <2> QED
      BY <2>1, <2>2, <2>3
  <1>4. \A n \in 0 .. NRoots - 1 : n \in T => n + 1 \in T
    BY <1>3
  <1> HIDE DEF T
  <1>5. NRoots \in T
    BY <1>1, <1>2, <1>4, Upwards
  <1> QED
    BY <1>5 DEF T, genpoly

(* The parity register of encode_rs8, as a polynomial: its first symbol is *)
(* the highest coefficient.                                                *)
Register(par) == [m \in 0 .. nn |-> IF m < NRoots THEN par[NRoots - 1 - m] ELSE {}]

LEMMA RegisterType ==
  ASSUME NEW par \in SyndromeLists
  PROVE  /\ Register(par) \in Series /\ Register(par)[nn] = {}
         /\ \A m \in 0 .. nn : m >= NRoots => Register(par)[m] = {}
         /\ \A m \in 0 .. nn : m < NRoots => /\ NRoots - 1 - m \in 0 .. NRoots - 1
                                             /\ Register(par)[m] = par[NRoots - 1 - m]
  <1>1. nn \in Nat /\ NRoots \in Nat /\ NRoots < nn
    BY Sizes, ReedSolomonAssumption
  <1>2. \A m \in 0 .. nn : m < NRoots => NRoots - 1 - m \in 0 .. NRoots - 1
    BY <1>1
  <1> QED
    BY <1>1, <1>2, Unit DEF Register, Series, SyndromeLists

(* One term alone. *)
LEMMA TermValue ==
  ASSUME NEW x \in Symbols, NEW k \in 0 .. nn, NEW a \in Nat
  PROVE  /\ [m \in 0 .. nn |-> IF m = k THEN x ELSE {}] \in Series
         /\ Value([m \in 0 .. nn |-> IF m = k THEN x ELSE {}], a) = Mul(x, Exp(a * k))
  <1> DEFINE f == [m \in 0 .. nn |-> IF m = k THEN x ELSE {}]
  <1>1. f \in Series /\ f[k] = x /\ \A m \in 0 .. nn : m # k => f[m] = {}
    BY Unit DEF Series
  <1> HIDE DEF f
  <1>2. Parts(f, a) \in Series /\ \A m \in 0 .. nn : Exp(a * m) \in Symbols /\ Parts(f, a)[m] = Mul(f[m], Exp(a * m))
    <2>1. f \in Series
      BY <1>1
    <2> QED
      BY <2>1, PartsSeries
  <1>3. \A m \in 0 .. nn : m # k => Parts(f, a)[m] = {}
    <2> SUFFICES ASSUME NEW m \in 0 .. nn, m # k PROVE Parts(f, a)[m] = {}
      OBVIOUS
    <2>1. f[m] = {} /\ Exp(a * m) \in Symbols /\ Parts(f, a)[m] = Mul(f[m], Exp(a * m))
      BY <1>1, <1>2
    <2>2. Mul({}, Exp(a * m)) = {}
      BY <2>1, MulZero
    <2> QED
      BY <2>1, <2>2
  <1>4. PlusAll(Parts(f, a)) = Parts(f, a)[k]
    BY <1>2, <1>3, OnlyTermSum
  <1> QED
    BY <1>1, <1>2, <1>4 DEF Value, f

LEMMA DividedSeries ==
  ASSUME NEW before \in SyndromeLists, NEW x \in Symbols, NEW m \in 0 .. nn
  PROVE  Plus(Register(Divided(before, x))[m], IF m = NRoots THEN x ELSE {}) =
         Plus(Raised(Register(before))[m], Mul(Plus(x, before[0]), AsSeries(genpoly)[m]))
  <1> DEFINE f == Register(before)
             after == Divided(before, x)
             h == Register(after)
             fb == Plus(x, before[0])
             g == AsSeries(genpoly)
  <1>1. nn \in Nat /\ NRoots \in Nat \ {0} /\ NRoots < nn
    BY Sizes, ReedSolomonAssumption
  <1>2. f \in Series /\ after \in SyndromeLists /\ h \in Series
    BY RegisterType, DividedType
  <1>3. genpoly \in Polynomials /\ genpoly[NRoots] = {0} /\ g \in Series
    BY Generator, AsSeriesType DEF IsGenerator
  <1>4. before[0] \in Symbols /\ fb \in Symbols
    <2>1. 0 \in 0 .. NRoots - 1
      BY <1>1
    <2>2. before[0] \in Symbols
      BY <2>1 DEF SyndromeLists
    <2> QED
      BY <2>2, PlusType
  <1>5. CASE m < NRoots
    <2> DEFINE j == NRoots - 1 - m
    <2>1. /\ j \in 0 .. NRoots - 1 /\ m \in 0 .. NRoots /\ m # NRoots /\ NRoots - 1 - j = m
          /\ (j = NRoots - 1 <=> m = 0)
          /\ (m # 0 => m - 1 < NRoots /\ NRoots - 1 - (m - 1) = j + 1)
      BY <1>1, <1>5
    <2>2. h[m] = after[j]
      BY <1>2, <1>5, RegisterType
    <2>3. after[j] = Plus(IF m = 0 THEN {} ELSE before[j + 1], Mul(fb, genpoly[m]))
      BY <2>1 DEF Divided
    <2>4. g[m] = genpoly[m]
      BY <1>3, <2>1, AsSeriesType
    <2>5. Raised(f)[m] = IF m = 0 THEN {} ELSE before[j + 1]
      <3>1. CASE m = 0
        BY <1>2, <3>1, RaisedType
      <3>2. CASE m # 0
        <4>1. m - 1 \in 0 .. nn /\ Raised(f)[m] = f[m - 1]
          BY <1>2, <3>2, RaisedType
        <4>2. f[m - 1] = before[NRoots - 1 - (m - 1)]
          BY <2>1, <3>2, <4>1, RegisterType
        <4> HIDE DEF j, f
        <4> QED
          BY <2>1, <3>2, <4>1, <4>2
      <3> QED
        BY <3>1, <3>2
    <2> HIDE DEF j, f, h, g, after, fb
    <2>6. Plus(h[m], {}) = h[m]
      BY PlusRules
    <2>7. Plus(h[m], IF m = NRoots THEN x ELSE {}) = Plus(Raised(f)[m], Mul(fb, g[m]))
      BY <2>1, <2>2, <2>3, <2>4, <2>5, <2>6
    <2> QED
      BY <2>7 DEF f, h, g, fb, after
  <1>6. CASE m = NRoots
    <2>1. /\ m # 0 /\ m - 1 \in 0 .. nn /\ m - 1 < NRoots /\ NRoots - 1 - (m - 1) = 0
          /\ m >= NRoots /\ m \in 0 .. NRoots
      BY <1>1, <1>6
    <2>2. h[m] = {}
      BY <1>2, <2>1, RegisterType
    <2>3. Raised(f)[m] = before[0]
      <3>1. Raised(f)[m] = f[m - 1]
        BY <1>2, <2>1, RaisedType
      <3>2. f[m - 1] = before[NRoots - 1 - (m - 1)]
        BY <2>1, RegisterType
      <3> QED
        BY <2>1, <3>1, <3>2
    <2>4. g[m] = {0}
      BY <1>3, <1>6, <2>1, AsSeriesType
    <2>5. Mul(fb, {0}) = fb
      BY <1>4, MulUnit
    <2>6. Plus(before[0], Plus(x, before[0])) = x /\ Plus({}, x) = x
      BY PlusRules, PlusTwice
    <2> HIDE DEF f, g, h
    <2>7. Plus(h[m], IF m = NRoots THEN x ELSE {}) = Plus(Raised(f)[m], Mul(fb, g[m]))
      BY <1>6, <2>2, <2>3, <2>4, <2>5, <2>6
    <2> QED
      BY <2>7 DEF f, h, g
  <1>7. CASE m > NRoots
    <2>1. m # 0 /\ m - 1 \in 0 .. nn /\ m - 1 >= NRoots /\ m >= NRoots /\ m # NRoots
      BY <1>1, <1>7
    <2>2. h[m] = {}
      BY <1>2, <2>1, RegisterType
    <2>3. Raised(f)[m] = {}
      <3>1. Raised(f)[m] = f[m - 1] /\ f[m - 1] = {}
        BY <1>2, <2>1, RaisedType, RegisterType
      <3> QED
        BY <3>1
    <2>4. g[m] = {}
      BY <1>3, <1>7, AsSeriesType
    <2>5. Mul(fb, {}) = {}
      BY <1>4, MulZero
    <2> HIDE DEF f, g, h
    <2>6. Plus(h[m], IF m = NRoots THEN x ELSE {}) = Plus(Raised(f)[m], Mul(fb, g[m]))
      BY <2>1, <2>2, <2>3, <2>4, <2>5
    <2> QED
      BY <2>6 DEF f, h, g
  <1> QED
    BY <1>1, <1>5, <1>6, <1>7

(* Each data symbol multiplies the register's value at a root by the root, *)
(* and is added NRoots places higher: the rest is a multiple of genpoly.   *)
LEMMA DividedValue ==
  ASSUME NEW before \in SyndromeLists, NEW x \in Symbols, NEW k \in 0 .. NRoots - 1
  PROVE  Value(Register(Divided(before, x)), Logarithm(k)) =
         Plus(Mul(Root(k), Value(Register(before), Logarithm(k))),
              Mul(x, Exp(Logarithm(k) * NRoots)))
  <1> DEFINE f == Register(before)
             h == Register(Divided(before, x))
             fb == Plus(x, before[0])
             g == AsSeries(genpoly)
             a == Logarithm(k)
             e == [m \in 0 .. nn |-> IF m = NRoots THEN x ELSE {}]
             u == [m \in 0 .. nn |-> Mul(fb, g[m])]
             w == [m \in 0 .. nn |-> Plus(h[m], e[m])]
  <1>1. nn \in Nat /\ NRoots \in Nat \ {0} /\ NRoots \in 0 .. nn /\ k \in Nat /\ 0 \in 0 .. NRoots - 1
    BY Sizes, ReedSolomonAssumption
  <1>2. a \in Nat /\ Root(k) = Exp(a) /\ Root(k) \in Symbols
    BY <1>1, LogarithmType
  <1>3. genpoly \in Polynomials /\ g \in Series /\ Value(g, a) = {}
    BY Generator, AsSeriesType DEF IsGenerator
  <1>4. f \in Series /\ f[nn] = {} /\ h \in Series /\ Raised(f) \in Series
    BY RegisterType, DividedType, RaisedType
  <1>5. fb \in Symbols
    BY <1>1, PlusType DEF SyndromeLists
  <1>6. \A m \in 0 .. nn : w[m] = Plus(Raised(f)[m], u[m])
    BY DividedSeries
  <1> HIDE DEF a, f, h, g, fb
  <1>7. e \in Series /\ Value(e, a) = Mul(x, Exp(a * NRoots))
    BY <1>1, <1>2, TermValue
  <1> HIDE DEF e
  <1>8. u \in Series /\ w \in Series
    <2>1. \A m \in 0 .. nn : g[m] \in Symbols /\ h[m] \in Symbols /\ e[m] \in Symbols
      BY <1>3, <1>4, <1>7 DEF Series
    <2>2. \A m \in 0 .. nn : Mul(fb, g[m]) \in Symbols /\ Plus(h[m], e[m]) \in Symbols
      BY <1>5, <2>1, MulType, PlusType
    <2> QED
      BY <2>2 DEF Series
  <1>9. Value(u, a) = {}
    <2>1. \A m \in 0 .. nn : u[m] = Mul(fb, g[m])
      OBVIOUS
    <2> HIDE DEF u
    <2>2. Value(u, a) = Mul(fb, Value(g, a))
      BY <1>2, <1>3, <1>5, <1>8, <2>1, ValueTimes
    <2> QED
      BY <1>3, <1>5, <2>2, MulZero
  <1>10. Value(w, a) = Plus(Value(h, a), Value(e, a))
    <2>1. \A m \in 0 .. nn : w[m] = Plus(h[m], e[m])
      OBVIOUS
    <2> HIDE DEF w
    <2>2. a \in Nat /\ h \in Series /\ e \in Series /\ w \in Series
      BY <1>2, <1>4, <1>7, <1>8
    <2> QED
      BY <2>1, <2>2, ValuePlus
  <1> HIDE DEF u, w
  <1>11. Value(w, a) = Plus(Value(Raised(f), a), {})
    <2> DEFINE z == Raised(f)
    <2>1. a \in Nat /\ z \in Series /\ u \in Series /\ w \in Series
      BY <1>2, <1>4, <1>8
    <2>2. \A m \in 0 .. nn : w[m] = Plus(z[m], u[m])
      BY <1>6
    <2> HIDE DEF z
    <2>3. Value(w, a) = Plus(Value(z, a), Value(u, a))
      BY <2>1, <2>2, ValuePlus
    <2> QED
      BY <1>9, <2>3 DEF z
  <1>12. Value(Raised(f), a) = Mul(Root(k), Value(f, a))
    BY <1>2, <1>4, RaisedValue
  <1>13. Value(w, a) = Mul(Root(k), Value(f, a))
    BY <1>11, <1>12, PlusRules
  <1>14. Plus(Plus(Value(h, a), Value(e, a)), Value(e, a)) = Value(h, a)
    BY PlusRules, PlusTwice
  <1>15. Value(h, a) = Plus(Mul(Root(k), Value(f, a)), Mul(x, Exp(a * NRoots)))
    BY <1>7, <1>10, <1>13, <1>14
  <1> QED
    BY <1>15 DEF a, f, h

(* After the data symbols Horner's rule has, but for the place, what the   *)
(* encoder's register has.                                                 *)
LEMMA HornerOfData ==
  ASSUME NEW d \in DataLists, NEW par, IsEncoding(par, d), NEW k \in 0 .. NRoots - 1,
         NEW e, IsHorner(e, d, par[DataLen], k)
  PROVE  Value(Register(par[DataLen]), Logarithm(k)) =
         Mul(e[DataLen - 1], Exp(Logarithm(k) * NRoots))
  <1> DEFINE a == Logarithm(k)
             X == Exp(a * NRoots)
             V(j) == Value(Register(par[j]), a)
             K == DataLen - 1
             T == {j \in 0 .. K : V(j + 1) = Mul(e[j], X)}
  <1>1. /\ nn \in Nat \ {0} /\ NRoots \in Nat /\ DataLen \in Nat \ {0} /\ nn = DataLen + NRoots
        /\ k \in Nat /\ K \in Nat
    BY Sizes DEF DataLen
  <1>2. a \in Nat /\ Root(k) = Exp(a) /\ Root(k) \in Symbols
    BY <1>1, LogarithmType
  <1>3. X \in Symbols
    <2>1. a * NRoots \in Nat
      BY <1>1, <1>2
    <2> QED
      BY <2>1, ExpType
  <1>4. \A j \in 0 .. K : /\ j \in 0 .. nn - 1 /\ j \in 0 .. DataLen - 1 /\ j < DataLen
                          /\ j \in 0 .. DataLen /\ j + 1 \in 0 .. DataLen
    BY <1>1
  <1>5. \A j \in 0 .. K : e[j] \in Symbols /\ d[j] \in Symbols /\ Word(d, par[DataLen], j) = d[j]
    BY <1>4 DEF IsHorner, DataLists, Word
  <1>6. \A j \in 0 .. DataLen : par[j] \in SyndromeLists /\ V(j) \in Symbols
    <2> TAKE j \in 0 .. DataLen
    <2>1. par[j] \in SyndromeLists
      BY DEF IsEncoding
    <2>2. Register(par[j]) \in Series
      BY <2>1, RegisterType
    <2> QED
      BY <1>2, <2>1, <2>2, PartsSeries
  <1>7. \A j \in 0 .. K : V(j + 1) = Plus(Mul(Root(k), V(j)), Mul(d[j], X))
    <2> TAKE j \in 0 .. K
    <2>1. par[j + 1] = Divided(par[j], d[j])
      BY <1>4 DEF IsEncoding
    <2>2. par[j] \in SyndromeLists /\ d[j] \in Symbols
      BY <1>4, <1>5, <1>6
    <2> QED
      BY <2>1, <2>2, DividedValue
  <1>8. V(0) = {}
    <2> DEFINE f == Register(par[0])
    <2>1. 0 \in 0 .. DataLen
      BY <1>1
    <2>2. f \in Series
      BY <1>6, <2>1, RegisterType
    <2>3. \A m \in 0 .. nn : f[m] = {}
      <3> TAKE m \in 0 .. nn
      <3>1. m < NRoots => NRoots - 1 - m \in 0 .. NRoots - 1
        BY <1>1
      <3> QED
        BY <3>1 DEF IsEncoding, Register
    <2> HIDE DEF f
    <2>4. /\ Parts(f, a) \in Series
          /\ \A m \in 0 .. nn : Exp(a * m) \in Symbols /\ Parts(f, a)[m] = Mul(f[m], Exp(a * m))
      BY <1>2, <2>2, PartsSeries
    <2>5. \A m \in 0 .. nn : Parts(f, a)[m] = {}
      <3> TAKE m \in 0 .. nn
      <3>1. Mul({}, Exp(a * m)) = {}
        BY <2>4, MulZero
      <3> QED
        BY <2>3, <2>4, <3>1
    <2>6. PlusAll(Parts(f, a)) = {}
      BY <2>4, <2>5, ZeroSum DEF Series
    <2> QED
      BY <2>6 DEF Value, f
  <1> HIDE DEF V, X, a
  <1>9. 0 \in T
    <2>1. 0 \in 0 .. K /\ 0 + 1 = 1
      BY <1>1
    <2>2. V(0 + 1) = Plus(Mul(Root(k), {}), Mul(d[0], X))
      BY <1>7, <1>8, <2>1
    <2>3. Mul(Root(k), {}) = {} /\ Plus({}, Mul(d[0], X)) = Mul(d[0], X)
      BY <1>2, MulZero, PlusRules
    <2>4. e[0] = d[0]
      BY <1>5, <2>1 DEF IsHorner
    <2> QED
      BY <2>1, <2>2, <2>3, <2>4
  <1>10. ASSUME NEW j \in 0 .. K - 1, j \in T
         PROVE  j + 1 \in T
    <2> DEFINE i == j + 1
               p == Root(k)
    <2>1. i \in 0 .. K /\ i \in 1 .. nn - 1 /\ i - 1 = j /\ j \in 0 .. K
      BY <1>1
    <2>2. V(i + 1) = Plus(Mul(p, V(i)), Mul(d[i], X)) /\ V(i) = Mul(e[j], X)
      BY <1>7, <1>10, <2>1
    <2>3. e[i] = Plus(d[i], Mul(e[j], p))
      BY <1>5, <2>1 DEF IsHorner
    <2>4. e[j] \in Symbols /\ d[i] \in Symbols /\ p \in Symbols
      BY <1>2, <1>5, <2>1
    <2> HIDE DEF i, p
    <2>5. Mul(e[j], p) \in Symbols /\ Mul(p, e[j]) = Mul(e[j], p)
      BY <2>4, MulType, MulCommutes
    <2>6. Mul(p, Mul(e[j], X)) = Mul(Mul(p, e[j]), X)
      BY <1>3, <2>4, MulAssociates
    <2>7. Mul(Plus(d[i], Mul(e[j], p)), X) = Plus(Mul(d[i], X), Mul(Mul(e[j], p), X))
      BY <1>3, <2>4, <2>5, DistributesRight
    <2>8. Plus(Mul(d[i], X), Mul(Mul(e[j], p), X)) = Plus(Mul(Mul(e[j], p), X), Mul(d[i], X))
      BY PlusRules
    <2>9. V(i + 1) = Mul(e[i], X)
      BY <2>2, <2>3, <2>5, <2>6, <2>7, <2>8
    <2>10. i \in T
      BY <2>1, <2>9
    <2> QED
      BY <2>10 DEF i
  <1>11. \A j \in 0 .. K - 1 : j \in T => j + 1 \in T
    BY <1>10
  <1>12. K + 1 = DataLen /\ K \in 0 .. K
    BY <1>1
  <1> HIDE DEF T, K
  <1>13. K \in T
    <2>1. \A j \in 0 .. K : j \in T
      BY <1>1, <1>9, <1>11, Upwards
    <2> QED
      BY <1>12, <2>1
  <1>14. V(K + 1) = Mul(e[K], X)
    BY <1>13 DEF T
  <1> QED
    BY <1>12, <1>14 DEF V, X, a, K

(* What encode_rs8 makes has no syndromes. *)
THEOREM EncodedIsCodeword ==
  ASSUME NEW d \in DataLists, NEW k \in 0 .. NRoots - 1
  PROVE  Syndromes(d, encode_rs8(d))[k] = {}
  <1> DEFINE N == NRoots
             K == DataLen - 1
             a == Logarithm(k)
  <1>1. PICK par : IsEncoding(par, d) /\ encode_rs8(d) = par[DataLen]
    BY EncodeSteps
  <1> DEFINE q == par[DataLen]
             f == Register(q)
             g == Parts(f, a)
  <1>2. /\ nn \in Nat \ {0} /\ N \in Nat /\ DataLen \in Nat \ {0} /\ nn = DataLen + N
        /\ k \in Nat /\ K \in Nat /\ K + N = nn - 1 /\ K + 1 = DataLen
    BY Sizes DEF DataLen
  <1>3. a \in Nat /\ Root(k) = Exp(a) /\ Root(k) \in Symbols
    BY <1>2, LogarithmType
  <1>4. q \in SyndromeLists
    BY <1>1, EncodeType
  <1>5. PICK e : IsHorner(e, d, q, k) /\ Syndromes(d, q)[k] = e[nn - 1]
    BY <1>4, PartsAreWord, SyndromeValue
  <1>6. Value(f, a) = Mul(e[K], Exp(a * N))
    BY <1>1, <1>5, HornerOfData
  <1>7. f \in Series /\ (\A m \in 0 .. nn : m >= N => f[m] = {})
        /\ \A m \in 0 .. nn : m < N => f[m] = q[N - 1 - m]
    BY <1>4, RegisterType
  <1>8. q = encode_rs8(d)
    BY <1>1
  <1> HIDE DEF q, a, f
  <1>9. g \in Series /\ \A m \in 0 .. nn : /\ f[m] \in Symbols /\ Exp(a * m) \in Symbols
                                           /\ g[m] = Mul(f[m], Exp(a * m))
    BY <1>3, <1>7, PartsSeries
  <1> HIDE DEF g
  <1>10. IsTerms(g) /\ \A m \in 0 .. nn : Term(g, m) = g[m]
    BY <1>9, FunctionTerms DEF Series
  <1>11. Sums(g)[0] = {} /\ (\A m \in 0 .. nn : Sums(g)[m + 1] = Plus(Sums(g)[m], g[m]))
         /\ \A m \in 0 .. nn + 1 : Sums(g)[m] \in Symbols
    BY <1>10, SumsStep
  <1>12. Value(f, a) = Sums(g)[N]
    <2>1. \A m \in N .. nn : Term(g, m) = {}
      <3> TAKE m \in N .. nn
      <3>1. m \in 0 .. nn /\ m >= N
        BY <1>2
      <3>2. f[m] = {} /\ g[m] = Mul(f[m], Exp(a * m)) /\ Exp(a * m) \in Symbols
        BY <1>7, <1>9, <3>1
      <3> QED
        BY <1>10, <3>1, <3>2, MulZero
    <2>2. N \in 0 .. nn + 1 /\ nn + 1 \in N .. nn + 1
      BY <1>2
    <2> HIDE DEF N
    <2>3. Sums(g)[nn + 1] = Sums(g)[N]
      BY <1>10, <2>1, <2>2, SumsEnd
    <2> QED
      BY <2>3 DEF Value, PlusAll, g
  <1>13. \A j \in 0 .. nn - 1 : e[j] \in Symbols
    BY <1>5 DEF IsHorner
  <1> DEFINE T == {t \in 0 .. N : Mul(e[K + t], Exp(a * (N - t))) = Sums(g)[N - t]}
  <1>14. 0 \in T
    <2>1. 0 \in 0 .. N /\ K + 0 = K /\ N - 0 = N
      BY <1>2
    <2> HIDE DEF N, K
    <2> QED
      BY <1>6, <1>12, <2>1
  <1>15. ASSUME NEW t \in 0 .. N - 1, t \in T
         PROVE  t + 1 \in T
    <2> DEFINE i == K + (t + 1)
               m == N - (t + 1)
               x == Exp(a * m)
               w == q[t]
    <2>1. /\ t + 1 \in 0 .. N /\ i \in 1 .. nn - 1 /\ i \in 0 .. nn - 1 /\ i - 1 = K + t /\ K + t \in 0 .. nn - 1
          /\ m \in Nat /\ m \in 0 .. nn /\ m < N /\ N - 1 - m = t /\ N - t = m + 1
          /\ ~(i < DataLen) /\ i - DataLen = t
      BY <1>2
    <2>2. e[i] = Plus(w, Mul(e[K + t], Root(k)))
      BY <1>5, <2>1 DEF IsHorner, Word
    <2>3. g[m] = Mul(w, x) /\ w \in Symbols /\ x \in Symbols
      BY <1>7, <1>9, <2>1
    <2>4. Sums(g)[m + 1] = Plus(Sums(g)[m], g[m])
      BY <1>11, <2>1
    <2>5. Mul(e[K + t], Exp(a * (m + 1))) = Sums(g)[m + 1]
      BY <1>15, <2>1
    <2>6. Exp(a * (m + 1)) = Mul(Root(k), x)
      <3>1. 1 \in Nat /\ a * 1 = a
        BY <1>3
      <3>2. Exp(a * (m + 1)) = Mul(Exp(a * m), Exp(a * 1))
        BY <1>3, <2>1, <3>1, ExpPlus
      <3>3. Mul(x, Root(k)) = Mul(Root(k), x)
        BY <1>3, <2>3, MulCommutes
      <3> QED
        BY <1>3, <3>1, <3>2, <3>3
    <2>7. e[K + t] \in Symbols
      BY <1>13, <2>1
    <2> DEFINE y == e[K + t]
               p == Root(k)
    <2>8. y \in Symbols /\ p \in Symbols
      BY <1>3, <2>7
    <2> HIDE DEF i, m, x, w, y, p
    <2>9. Mul(y, p) \in Symbols
      BY <2>8, MulType
    <2>10. Mul(Plus(w, Mul(y, p)), x) = Plus(Mul(w, x), Mul(Mul(y, p), x))
      BY <2>3, <2>8, <2>9, DistributesRight
    <2>11. Mul(Mul(y, p), x) = Mul(y, Mul(p, x))
      BY <2>3, <2>8, MulAssociates
    <2>12. Plus(Mul(w, x), Plus(Sums(g)[m], Mul(w, x))) = Sums(g)[m]
      BY PlusRules, PlusTwice
    <2>13. Mul(y, Mul(p, x)) = Plus(Sums(g)[m], Mul(w, x))
      BY <2>3, <2>4, <2>5, <2>6 DEF y, p
    <2>14. Mul(e[i], x) = Sums(g)[m]
      BY <2>2, <2>10, <2>11, <2>12, <2>13 DEF y, p
    <2> QED
      BY <2>1, <2>14 DEF i, m, x
  <1>16. \A t \in 0 .. N - 1 : t \in T => t + 1 \in T
    BY <1>15
  <1>17. N \in T
    <2>1. N \in 0 .. N
      BY <1>2
    <2> HIDE DEF T, N
    <2>2. \A t \in 0 .. N : t \in T
      BY <1>2, <1>14, <1>16, Upwards
    <2> QED
      BY <2>1, <2>2
  <1>18. Mul(e[K + N], Exp(a * (N - N))) = Sums(g)[N - N]
    BY <1>17
  <1>19. Mul(e[nn - 1], Exp(0)) = {}
    <2>1. N - N = 0 /\ a * 0 = 0 /\ K + N = nn - 1
      BY <1>2, <1>3
    <2> HIDE DEF N, K
    <2> QED
      BY <1>11, <1>18, <2>1
  <1>20. e[nn - 1] \in Symbols
    BY <1>2, <1>13
  <1>21. e[nn - 1] = {}
    BY <1>19, <1>20, ExpZero, MulUnit
  <1> QED
    BY <1>5, <1>8, <1>21

(* The sum of two words, and its moments. *)
Sum(u, v) == [j \in 0 .. nn - 1 |-> Plus(u[j], v[j])]

LEMMA SumMoment ==
  ASSUME NEW u \in Words, NEW v \in Words, NEW n \in Nat
  PROVE  /\ Sum(u, v) \in Words /\ \A j \in 0 .. nn - 1 : Sum(u, v)[j] = Plus(u[j], v[j])
         /\ Moment(Scaled(Sum(u, v)), n) = Plus(Moment(Scaled(u), n), Moment(Scaled(v), n))
  <1> DEFINE w == Sum(u, v)
  <1>1. \A j \in 0 .. nn - 1 : w[j] = Plus(u[j], v[j])
    BY DEF Sum
  <1>2. w \in Words
    <2>1. \A j \in 0 .. nn - 1 : Plus(u[j], v[j]) \in Symbols
      BY PlusType DEF Words
    <2> QED
      BY <2>1 DEF Sum, Words
  <1> HIDE DEF w
  <1>3. Scaled(u) \in Series /\ Scaled(v) \in Series /\ Scaled(w) \in Series
    BY <1>2, ScaledType
  <1>4. \A j \in 0 .. nn : Scaled(w)[j] = Plus(Scaled(u)[j], Scaled(v)[j])
    BY <1>1, <1>2, ScaledPlus
  <1>5. Moment(Scaled(w), n) = Plus(Moment(Scaled(u), n), Moment(Scaled(v), n))
    <2> DEFINE A == Scaled(u)
               B == Scaled(v)
               C == Scaled(w)
    <2>1. A \in Series /\ B \in Series /\ C \in Series /\ \A j \in 0 .. nn : C[j] = Plus(A[j], B[j])
      BY <1>3, <1>4
    <2> HIDE DEF A, B, C
    <2>2. Moment(C, n) = Plus(Moment(A, n), Moment(B, n))
      BY <2>1, MomentPlus
    <2> QED
      BY <2>2 DEF A, B, C
  <1> QED
    BY <1>1, <1>2, <1>5 DEF w

(* Only encode_rs8's parity makes a word without syndromes. *)
THEOREM CodewordIsEncoded ==
  ASSUME NEW d \in DataLists, NEW par \in SyndromeLists,
         \A k \in 0 .. NRoots - 1 : Syndromes(d, par)[k] = {}
  PROVE  par = encode_rs8(d)
  <1> DEFINE enc == encode_rs8(d)
             u == WordOf(d, par)
             v == WordOf(d, enc)
             w == Sum(u, v)
             S == DataLen .. nn - 1
  <1>1. nn \in Nat \ {0} /\ NRoots \in Nat \ {0} /\ DataLen \in Nat /\ nn = DataLen + NRoots
    BY Sizes DEF DataLen
  <1>2. enc \in SyndromeLists
    BY EncodeType
  <1>3. \A k \in 0 .. NRoots - 1 : Syndromes(d, enc)[k] = {}
    BY EncodedIsCodeword
  <1> HIDE DEF enc
  <1>4. u \in Words /\ v \in Words
    BY <1>2, WordType
  <1>5. w \in Words /\ \A j \in 0 .. nn - 1 : w[j] = Plus(u[j], v[j])
    <2>1. 0 \in Nat
      OBVIOUS
    <2> HIDE DEF u, v
    <2> QED
      BY <1>4, <2>1, SumMoment
  <1>6. ASSUME NEW k \in 0 .. NRoots - 1
        PROVE  Moment(Scaled(w), k) = {}
    <2>1. k \in Nat
      BY <1>1
    <2>2. Moment(Scaled(u), k) = {} /\ Moment(Scaled(v), k) = {}
      BY <1>2, <1>3, SyndromeMoment
    <2> HIDE DEF u, v
    <2>3. Moment(Scaled(w), k) = Plus(Moment(Scaled(u), k), Moment(Scaled(v), k))
      BY <1>4, <2>1, SumMoment
    <2> QED
      BY <2>2, <2>3, PlusRules
  <1>7. \A j \in 0 .. nn - 1 : j \notin S => w[j] = {}
    <2> SUFFICES ASSUME NEW j \in 0 .. nn - 1, j \notin S PROVE w[j] = {}
      OBVIOUS
    <2>1. j < DataLen
      BY <1>1
    <2>2. u[j] = d[j] /\ v[j] = d[j]
      BY <2>1 DEF WordOf, Word
    <2> HIDE DEF u, v, w
    <2> QED
      BY <1>5, <2>2, PlusRules
  <1>8. S \in SUBSET (0 .. nn - 1) /\ Cardinality(S) = NRoots
    <2>1. DataLen \in Int /\ nn - 1 \in Int /\ ~(DataLen > nn - 1) /\ (nn - 1) - DataLen + 1 = NRoots
      BY <1>1
    <2>2. Cardinality(S) = NRoots
      BY <2>1, FS_Interval
    <2> QED
      BY <1>1, <2>2
  <1> HIDE DEF w, S
  <1>9. \A j \in 0 .. nn : Scaled(w)[j] = {}
    <2> DEFINE A == Scaled(w)
    <2>1. A \in Series /\ \A j \in 0 .. nn : j \notin S => A[j] = {}
      <3>1. A \in Series
        BY <1>5, ScaledType
      <3>2. \A j \in 0 .. nn : j = nn \/ j \in 0 .. nn - 1
        BY <1>1
      <3>3. A[nn] = {} /\ \A j \in 0 .. nn - 1 : w[j] = {} => A[j] = {}
        BY <1>5, ScaledType
      <3> HIDE DEF A
      <3> QED
        BY <1>7, <3>1, <3>2, <3>3
    <2>2. \A n \in 0 .. 0 + Cardinality(S) - 1 : Moment(A, n) = {}
      BY <1>1, <1>6, <1>8
    <2>3. 0 \in Nat /\ 0 + Cardinality(S) <= nn
      BY <1>1, <1>8
    <2> HIDE DEF A
    <2>4. \A j \in 0 .. nn : A[j] = {}
      BY <1>8, <2>1, <2>2, <2>3, FewMoments
    <2> QED
      BY <2>4 DEF A
  <1>10. ASSUME NEW t \in 0 .. NRoots - 1
         PROVE  par[t] = enc[t]
    <2> DEFINE j == DataLen + t
    <2>1. j \in 0 .. nn - 1 /\ j \in 0 .. nn /\ ~(j < DataLen) /\ j - DataLen = t
      BY <1>1
    <2>2. u[j] = par[t] /\ v[j] = enc[t]
      BY <2>1 DEF WordOf, Word
    <2>3. w[j] = {}
      BY <1>5, <1>9, <2>1, ScaledType
    <2> HIDE DEF u, v, j
    <2>4. Plus(u[j], v[j]) = {}
      BY <1>5, <2>1, <2>3
    <2> QED
      BY <2>2, <2>4, PlusZero
  <1>11. par = [t \in 0 .. NRoots - 1 |-> par[t]] /\ enc = [t \in 0 .. NRoots - 1 |-> enc[t]]
    BY <1>2 DEF SyndromeLists
  <1>12. par = enc
    BY <1>10, <1>11
  <1> QED
    BY <1>12 DEF enc

-----------------------------------------------------------------------------
(* The errors behind the syndromes *)

(* The syndromes q are those of errors A at the positions S. *)
ErrorsOf(A, S, q) ==
  /\ S \in SUBSET (0 .. nn - 1)
  /\ A \in Series /\ \A j \in 0 .. nn : j \notin S => A[j] = {}
  /\ \A n \in 0 .. NRoots - 1 : q[n] = Moment(A, n)

LEMMA DiscConvolution ==
  ASSUME NEW p \in Polynomials, NEW A \in Series, NEW q \in SyndromeLists, NEW n \in 0 .. NRoots - 1,
         \A m \in 0 .. n : q[m] = Moment(A, m)
  PROVE  Disc(p, q, n) =
         PlusAll([i \in 0 .. nn |-> IF i <= n THEN Mul(AsSeries(p)[i], Moment(A, n - i)) ELSE {}])
  <1> DEFINE f == AsSeries(p)
             g == [i \in 0 .. nn |-> IF i <= n THEN Mul(f[i], Moment(A, n - i)) ELSE {}]
  <1>1. nn \in Nat /\ NRoots \in Nat /\ NRoots < nn /\ n \in Nat
    BY Sizes, ReedSolomonAssumption
  <1>2. f \in Series /\ \A i \in 0 .. NRoots : f[i] = p[i]
    BY AsSeriesType
  <1> HIDE DEF f
  <1>3. \A i \in 0 .. n : /\ i \in 0 .. nn /\ i \in 0 .. NRoots /\ n - i \in 0 .. n /\ n - i \in Nat
    BY <1>1
  <1>4. g \in Series
    <2> SUFFICES ASSUME NEW i \in 0 .. nn, i <= n PROVE Mul(f[i], Moment(A, n - i)) \in Symbols
      BY Unit DEF Series
    <2>1. i \in 0 .. n
      BY <1>1
    <2>2. f[i] \in Symbols /\ Moment(A, n - i) \in Symbols
      BY <1>2, <1>3, <2>1, MomentParts DEF Series
    <2> QED
      BY <2>2, MulType
  <1>5. \A i \in 0 .. nn : Term(Products(p, q, n), i) = g[i]
    <2> SUFFICES ASSUME NEW i \in 0 .. nn PROVE Term(Products(p, q, n), i) = g[i]
      OBVIOUS
    <2>1. Term(Products(p, q, n), i) = IF i <= n THEN Mul(p[i], q[n - i]) ELSE {}
      BY ProductTerms
    <2>2. CASE i <= n
      <3>1. i \in 0 .. n
        BY <1>1, <2>2
      <3>2. f[i] = p[i] /\ q[n - i] = Moment(A, n - i)
        BY <1>2, <1>3, <3>1
      <3> QED
        BY <2>1, <2>2, <3>2
    <2> QED
      BY <2>1, <2>2
  <1> HIDE DEF g
  <1>6. PlusAll(Products(p, q, n)) = PlusAll(g)
    BY <1>4, <1>5, SumOfTerms
  <1> QED
    BY <1>6 DEF Disc, g, f

(* From its degree on a polynomial's discrepancies are moments again. *)
LEMMA DiscBeyond ==
  ASSUME NEW p \in Polynomials, NEW A, NEW S, NEW q \in SyndromeLists, ErrorsOf(A, S, q),
         NEW d \in Nat, Degree(AsSeries(p), d), NEW n \in 0 .. NRoots - 1, n >= d
  PROVE  Disc(p, q, n) = Moment(Weighted(A, AsSeries(p)), n)
  <1> DEFINE f == AsSeries(p)
  <1>1. nn \in Nat /\ NRoots \in Nat /\ NRoots < nn /\ n \in Nat /\ n \in 0 .. nn
    BY Sizes, ReedSolomonAssumption
  <1>2. A \in Series /\ \A m \in 0 .. n : q[m] = Moment(A, m)
    BY <1>1 DEF ErrorsOf
  <1>3. f \in Series /\ Degree(f, d)
    BY AsSeriesType
  <1>4. Disc(p, q, n) = PlusAll([i \in 0 .. nn |-> IF i <= n THEN Mul(f[i], Moment(A, n - i)) ELSE {}])
    BY <1>2, DiscConvolution
  <1> HIDE DEF f
  <1>5. PlusAll([i \in 0 .. nn |-> IF i <= n THEN Mul(f[i], Moment(A, n - i)) ELSE {}]) =
        Moment(Weighted(A, f), n)
    BY <1>1, <1>2, <1>3, ConvolutionBeyond
  <1> QED
    BY <1>4, <1>5 DEF f

LEMMA ZeroMoment ==
  ASSUME NEW A \in Series, \A j \in 0 .. nn : A[j] = {}, NEW n \in Nat
  PROVE  Moment(A, n) = {}
  <1> DEFINE f == [j \in 0 .. nn |-> Mul(A[j], Exp(Loc(j) * n))]
  <1>1. f \in Series /\ \A j \in 0 .. nn : Exp(Loc(j) * n) \in Symbols
    BY MomentParts
  <1>2. \A j \in 0 .. nn : f[j] = {}
    BY <1>1, MulZero
  <1> HIDE DEF f
  <1>3. PlusAll(f) = {}
    BY <1>1, <1>2, ZeroSum DEF Series
  <1> QED
    BY <1>3 DEF Moment, f

(* Errors at so many positions never call for a longer locator, since the  *)
(* polynomial that vanishes there is a recurrence of their syndromes.      *)
LEMMA PositionsRecurrence ==
  ASSUME NEW A, NEW S, NEW q \in SyndromeLists, ErrorsOf(A, S, q),
         NEW t \in 0 .. NRoots, t = Cardinality(S)
  PROVE  \E p : IsRecurrence(p, q, t, NRoots)
  <1>1. nn \in Nat /\ NRoots \in Nat /\ NRoots < nn /\ 0 \in 0 .. NRoots
    BY Sizes, ReedSolomonAssumption
  <1>2. S \in SUBSET (0 .. nn - 1) /\ A \in Series /\ \A j \in 0 .. nn : j \notin S => A[j] = {}
    BY DEF ErrorsOf
  <1>3. PICK f : Vanishes(f, S)
    BY <1>2, RootPolynomial
  <1>4. /\ f \in Series /\ f[0] = {0} /\ Degree(f, t)
        /\ \A c \in S : Value(f, Inv(c)) = {}
    BY <1>2, <1>3 DEF Vanishes
  <1> DEFINE p == [i \in 0 .. NRoots |-> f[i]]
  <1>5. p \in Polynomials /\ p[0] = {0} /\ \A i \in 0 .. NRoots : i > t => p[i] = {}
    <2>1. \A i \in 0 .. NRoots : i \in 0 .. nn
      BY <1>1
    <2> QED
      BY <1>1, <1>4, <2>1 DEF Polynomials, Series, Degree
  <1>6. AsSeries(p) = f
    <2>1. \A i \in 0 .. nn : AsSeries(p)[i] = f[i]
      <3> TAKE i \in 0 .. nn
      <3>1. CASE i <= NRoots
        <4>1. i \in 0 .. NRoots
          BY <1>1, <3>1
        <4> QED
          BY <3>1, <4>1 DEF AsSeries
      <3>2. CASE ~(i <= NRoots)
        <4>1. i > t
          BY <1>1, <3>2
        <4>2. f[i] = {}
          BY <1>4, <4>1 DEF Degree
        <4> QED
          BY <3>2, <4>2 DEF AsSeries
      <3> QED
        BY <3>1, <3>2
    <2>2. f = [i \in 0 .. nn |-> f[i]] /\ AsSeries(p) = [i \in 0 .. nn |-> AsSeries(p)[i]]
      BY <1>4 DEF Series, AsSeries
    <2> HIDE DEF p
    <2> QED
      BY <2>1, <2>2
  <1> HIDE DEF p
  <1>7. ASSUME NEW n \in t .. NRoots - 1
        PROVE  Disc(p, q, n) = {}
    <2>1. n \in 0 .. NRoots - 1 /\ n >= t /\ n \in Nat /\ t \in Nat
      BY <1>1
    <2>2. Disc(p, q, n) = Moment(Weighted(A, f), n)
      BY <1>4, <1>5, <1>6, <2>1, DiscBeyond
    <2>3. /\ Weighted(A, f) \in Series
          /\ \A j \in 0 .. nn : /\ A[j] \in Symbols /\ Value(f, Inv(j)) \in Symbols
                                /\ Weighted(A, f)[j] = Mul(A[j], Value(f, Inv(j)))
      BY <1>2, <1>4, WeightedType
    <2>4. \A j \in 0 .. nn : Weighted(A, f)[j] = {}
      BY <1>2, <1>4, <2>3, MulZero
    <2>5. Moment(Weighted(A, f), n) = {}
      BY <2>1, <2>3, <2>4, ZeroMoment
    <2> QED
      BY <2>2, <2>5
  <1> QED
    BY <1>5, <1>7 DEF IsRecurrence

(* With twice as many syndromes as errors, every recurrence that is short  *)
(* enough vanishes at all of them.                                         *)
LEMMA LocatorVanishes ==
  ASSUME NEW A, NEW S, NEW q \in SyndromeLists, ErrorsOf(A, S, q), \A j \in S : A[j] # {},
         2 * Cardinality(S) <= NRoots,
         NEW p, NEW l \in Nat, l <= Cardinality(S), IsRecurrence(p, q, l, NRoots)
  PROVE  \A j \in S : Value(AsSeries(p), Inv(j)) = {}
  <1> DEFINE t == Cardinality(S)
             f == AsSeries(p)
             B == Weighted(A, f)
  <1>1. nn \in Nat /\ NRoots \in Nat /\ NRoots < nn
    BY Sizes, ReedSolomonAssumption
  <1>2. S \in SUBSET (0 .. nn - 1) /\ A \in Series /\ \A j \in 0 .. nn : j \notin S => A[j] = {}
    BY DEF ErrorsOf
  <1>3. t \in Nat
    BY <1>2, SomePositions
  <1>4. p \in Polynomials /\ f \in Series
    BY AsSeriesType DEF IsRecurrence
  <1>5. Degree(f, l)
    <2> SUFFICES ASSUME NEW i \in 0 .. nn, i > l PROVE f[i] = {}
      BY DEF Degree
    <2>1. CASE i > NRoots
      BY <1>4, <2>1, AsSeriesType
    <2>2. CASE ~(i > NRoots)
      <3>1. i \in 0 .. NRoots
        BY <1>1, <2>2
      <3> QED
        BY <1>4, <3>1, AsSeriesType DEF IsRecurrence
    <2> QED
      BY <2>1, <2>2
  <1>6. /\ B \in Series
        /\ \A j \in 0 .. nn : /\ A[j] \in Symbols /\ Value(f, Inv(j)) \in Symbols
                              /\ B[j] = Mul(A[j], Value(f, Inv(j)))
    BY <1>2, <1>4, WeightedType
  <1>7. \A j \in 0 .. nn : j \notin S => B[j] = {}
    <2> HIDE DEF B, f
    <2> SUFFICES ASSUME NEW j \in 0 .. nn, j \notin S PROVE B[j] = {}
      OBVIOUS
    <2>1. A[j] = {} /\ Value(f, Inv(j)) \in Symbols /\ B[j] = Mul(A[j], Value(f, Inv(j)))
      BY <1>2, <1>6
    <2>2. Mul({}, Value(f, Inv(j))) = {}
      BY <2>1, MulZero
    <2> QED
      BY <2>1, <2>2
  <1>8. ASSUME NEW n \in t .. t + t - 1
        PROVE  Moment(B, n) = {}
    <2>1. n \in 0 .. NRoots - 1 /\ n >= l /\ n \in l .. NRoots - 1
      BY <1>1, <1>3
    <2>2. Disc(p, q, n) = Moment(B, n)
      BY <1>4, <1>5, <2>1, DiscBeyond
    <2>3. Disc(p, q, n) = {}
      BY <2>1 DEF IsRecurrence
    <2> QED
      BY <2>2, <2>3
  <1>9. t + t <= nn
    BY <1>1, <1>3
  <1> HIDE DEF B, f
  <1>10. \A j \in 0 .. nn : B[j] = {}
    <2>1. \A n \in t .. t + Cardinality(S) - 1 : Moment(B, n) = {}
      BY <1>8
    <2> QED
      BY <1>2, <1>3, <1>6, <1>7, <1>9, <2>1, FewMoments
  <1> SUFFICES ASSUME NEW j \in S PROVE Value(f, Inv(j)) = {}
    BY DEF f
  <1>11. j \in 0 .. nn
    BY <1>1, <1>2
  <1> QED
    BY <1>6, <1>10, <1>11, MulNotZero

(* The roots that stand for a set of positions. *)
RootsOf(S) == {Inv(j) : j \in S}

LEMMA RootsOfType ==
  ASSUME NEW S \in SUBSET (0 .. nn - 1)
  PROVE  /\ RootsOf(S) \in SUBSET (1 .. nn) /\ IsFiniteSet(RootsOf(S))
         /\ Cardinality(RootsOf(S)) = Cardinality(S)
         /\ \A j \in S : Inv(j) \in RootsOf(S) /\ Location(Inv(j)) = j
  <1> DEFINE f == [j \in S |-> Inv(j)]
             R == RootsOf(S)
  <1>1. nn \in Nat /\ \A j \in S : j \in 0 .. nn /\ j \in 0 .. nn - 1
    BY Sizes
  <1>2. \A j \in S : Inv(j) \in 1 .. nn /\ Location(Inv(j)) = j
    BY <1>1, LocType, LocationOf
  <1>3. R \in SUBSET (1 .. nn)
    BY <1>2 DEF RootsOf
  <1>4. f \in Bijection(S, R)
    <2>1. f \in [S -> R]
      BY DEF RootsOf
    <2>2. IsInjective(f)
      <3> SUFFICES ASSUME NEW j \in S, NEW k \in S, Inv(j) = Inv(k) PROVE j = k
        BY DEF IsInjective
      <3> QED
        BY <1>2
    <2>3. \A c \in R : \E j \in S : f[j] = c
      BY DEF RootsOf
    <2> HIDE DEF f, R
    <2> QED
      BY <2>1, <2>2, <2>3 DEF Bijection, Injection, Surjection
  <1>5. ExistsBijection(S, R) /\ IsFiniteSet(S)
    BY <1>4, SomePositions DEF ExistsBijection
  <1> HIDE DEF R
  <1>6. IsFiniteSet(R) /\ Cardinality(R) = Cardinality(S)
    BY <1>5, FS_Bijection
  <1> QED
    BY <1>2, <1>3, <1>6 DEF R, RootsOf

(* The Chien search looks for the roots of the locator. *)
LEMMA ChienSearch ==
  ASSUME IsLocator(s, lambda, b, el, r)
  PROVE  /\ Roots = {i \in 1 .. nn : Value(AsSeries(lambda), i) = {}}
         /\ AsSeries(lambda) \in Series /\ AsSeries(lambda)[0] = {0}
         /\ Degree(AsSeries(lambda), deg_lambda) /\ deg_lambda \in 0 .. NRoots
         /\ IsFiniteSet(Roots) /\ Cardinality(Roots) \in Nat /\ Cardinality(Roots) <= deg_lambda
  <1> DEFINE f == AsSeries(lambda)
  <1>1. nn \in Nat /\ NRoots \in Nat /\ NRoots < nn /\ 0 \in 0 .. NRoots /\ 0 \in 0 .. nn
    BY Sizes, ReedSolomonAssumption
  <1>2. /\ deg_lambda \in 0 .. NRoots
        /\ \A i \in 0 .. NRoots : i > deg_lambda => lambda[i] = {}
    BY DegreeAtMostLength
  <1>3. lambda \in Polynomials /\ lambda[0] = {0}
    BY DEF IsLocator
  <1>4. f \in Series /\ f[0] = {0} /\ \A i \in 0 .. NRoots : f[i] = lambda[i]
    BY <1>1, <1>3, AsSeriesType
  <1>5. Degree(f, deg_lambda)
    <2> SUFFICES ASSUME NEW i \in 0 .. nn, i > deg_lambda PROVE f[i] = {}
      BY DEF Degree
    <2>1. CASE i > NRoots
      BY <1>3, <2>1, AsSeriesType
    <2>2. CASE ~(i > NRoots)
      <3>1. i \in 0 .. NRoots
        BY <1>1, <2>2
      <3> QED
        BY <1>2, <1>4, <3>1
    <2> QED
      BY <2>1, <2>2
  <1> HIDE DEF f
  <1>6. ASSUME NEW i \in 1 .. nn
        PROVE  PlusAll([j \in 0 .. deg_lambda |-> Mul(lambda[j], Exp(i * j))]) = Value(f, i)
    <2> DEFINE g == [j \in 0 .. deg_lambda |-> Mul(lambda[j], Exp(i * j))]
               h == Parts(f, i)
    <2>1. i \in Nat
      BY <1>1
    <2>2. h \in Series /\ \A j \in 0 .. nn : Exp(i * j) \in Symbols /\ h[j] = Mul(f[j], Exp(i * j))
      BY <1>4, <2>1, PartsSeries
    <2>3. \A j \in 0 .. nn : Term(g, j) = h[j]
      <3> TAKE j \in 0 .. nn
      <3>1. CASE j <= deg_lambda
        <4>1. j \in 0 .. deg_lambda /\ j \in 0 .. NRoots
          BY <1>1, <1>2, <3>1
        <4>2. Term(g, j) = Mul(lambda[j], Exp(i * j))
          BY <4>1 DEF Term
        <4> QED
          BY <1>4, <2>2, <4>1, <4>2
      <3>2. CASE ~(j <= deg_lambda)
        <4>1. j \notin 0 .. deg_lambda /\ j > deg_lambda
          BY <1>1, <1>2, <3>2
        <4>2. Term(g, j) = {}
          BY <4>1 DEF Term
        <4>3. f[j] = {}
          BY <1>5, <4>1 DEF Degree
        <4> QED
          BY <2>2, <4>2, <4>3, MulZero
      <3> QED
        BY <3>1, <3>2
    <2> HIDE DEF g, h
    <2>4. PlusAll(g) = PlusAll(h)
      BY <2>2, <2>3, SumOfTerms
    <2> QED
      BY <2>4 DEF g, h, Value
  <1>7. Roots = {i \in 1 .. nn : Value(f, i) = {}}
    BY <1>6 DEF Roots
  <1>8. Roots \in SUBSET (1 .. nn) /\ \A c \in Roots : Value(f, c) = {}
    BY <1>7
  <1>9. IsFiniteSet(Roots) /\ Cardinality(Roots) \in Nat
    <2>1. IsFiniteSet(1 .. nn)
      BY <1>1, FS_Interval
    <2> QED
      BY <1>8, <2>1, FS_Subset, FS_CardinalityType
  <1>10. Cardinality(Roots) <= deg_lambda
    <2> SUFFICES ASSUME ~(Cardinality(Roots) <= deg_lambda) PROVE FALSE
      OBVIOUS
    <2> DEFINE d == deg_lambda
               R == Roots
    <2>1. d \in 0 .. nn /\ Degree(f, d) /\ R \in SUBSET (1 .. nn) /\ (\A c \in R : Value(f, c) = {})
          /\ Cardinality(R) > d
      BY <1>1, <1>2, <1>5, <1>8, <1>9
    <2> HIDE DEF d, R
    <2>2. f[0] = {}
      BY <1>1, <1>4, <2>1, FewRoots
    <2> QED
      BY <1>4, <2>2, Unit
  <1> QED
    BY <1>2, <1>4, <1>5, <1>7, <1>9, <1>10 DEF f

(* With at most half as many errors as syndromes, the roots of the locator *)
(* stand for the places of the errors, whatever the errors are.            *)
THEOREM RootsAreErrors ==
  ASSUME s \in SyndromeLists, IsLocator(s, lambda, b, el, r), Shortest(s, el, NRoots), r = NRoots,
         NEW A, NEW S, ErrorsOf(A, S, s), \A j \in S : A[j] # {},
         2 * Cardinality(S) <= NRoots
  PROVE  /\ Roots = RootsOf(S)
         /\ Cardinality(Roots) = Cardinality(S) /\ deg_lambda = Cardinality(S)
  <1> DEFINE t == Cardinality(S)
  <1>1. NRoots \in Nat /\ S \in SUBSET (0 .. nn - 1)
    BY Sizes DEF ErrorsOf
  <1>2. t \in Nat /\ t \in 0 .. NRoots
    BY <1>1, SomePositions
  <1>3. el \in Nat
    BY <1>1 DEF IsLocator
  <1>4. \E p : IsRecurrence(p, s, t, NRoots)
    BY <1>2, PositionsRecurrence
  <1>5. el <= t
    BY <1>2, <1>4 DEF Shortest
  <1>6. IsRecurrence(lambda, s, el, NRoots)
    BY DEF IsLocator, IsRecurrence
  <1>7. \A j \in S : Value(AsSeries(lambda), Inv(j)) = {}
    BY <1>3, <1>5, <1>6, LocatorVanishes
  <1>8. /\ RootsOf(S) \in SUBSET (1 .. nn) /\ Cardinality(RootsOf(S)) = t
    BY <1>1, RootsOfType
  <1>9. /\ Roots = {i \in 1 .. nn : Value(AsSeries(lambda), i) = {}}
        /\ IsFiniteSet(Roots) /\ Cardinality(Roots) \in Nat /\ Cardinality(Roots) <= deg_lambda
        /\ deg_lambda \in 0 .. NRoots
    BY ChienSearch
  <1>10. RootsOf(S) \subseteq Roots
    <2> SUFFICES ASSUME NEW c \in RootsOf(S) PROVE c \in Roots
      OBVIOUS
    <2>1. PICK j \in S : c = Inv(j)
      BY DEF RootsOf
    <2>2. c \in 1 .. nn /\ Value(AsSeries(lambda), c) = {}
      BY <1>7, <1>8, <2>1
    <2> QED
      BY <1>9, <2>2
  <1>11. /\ Cardinality(RootsOf(S)) <= Cardinality(Roots)
         /\ Cardinality(RootsOf(S)) = Cardinality(Roots) => RootsOf(S) = Roots
    BY <1>9, <1>10, FS_Subset
  <1>12. deg_lambda <= el
    BY DegreeAtMostLength
  <1> HIDE DEF t
  <1>13. Cardinality(Roots) = t /\ deg_lambda = t
    BY <1>1, <1>2, <1>3, <1>5, <1>8, <1>9, <1>11, <1>12
  <1> QED
    BY <1>8, <1>11, <1>13 DEF t

(* A polynomial that has as many roots as its degree says: one for each of *)
(* these positions.                                                        *)
Splits(f, S) ==
  /\ S \in SUBSET (0 .. nn - 1) /\ Cardinality(S) <= NRoots
  /\ f \in Series /\ f[0] = {0} /\ Degree(f, Cardinality(S))
  /\ \A j \in S : Value(f, Inv(j)) = {}

(* Without the factor of one position the others are still roots, and that *)
(* one is not.                                                             *)
LEMMA Factor ==
  ASSUME NEW f, NEW S, Splits(f, S), NEW k \in S
  PROVE  /\ Quotient(f, Loc(k), Inv(k)) \in Series
         /\ f = Times(Quotient(f, Loc(k), Inv(k)), Exp(Loc(k)))
         /\ Cardinality(S) \in Nat \ {0}
         /\ Degree(Quotient(f, Loc(k), Inv(k)), Cardinality(S) - 1)
         /\ \A j \in S : Value(Quotient(f, Loc(k), Inv(k)), Inv(j)) \in Symbols
         /\ \A j \in S : j # k => Value(Quotient(f, Loc(k), Inv(k)), Inv(j)) = {}
         /\ Value(Quotient(f, Loc(k), Inv(k)), Inv(k)) # {}
  <1> DEFINE Q == Quotient(f, Loc(k), Inv(k))
             t == Cardinality(S)
  <1>1. nn \in Nat \ {0} /\ NRoots \in Nat /\ NRoots < nn /\ 0 \in 0 .. nn /\ nn \in 0 .. nn
    BY Sizes, ReedSolomonAssumption
  <1>2. /\ S \in SUBSET (0 .. nn - 1) /\ f \in Series /\ f[0] = {0} /\ Degree(f, t) /\ t <= NRoots
        /\ \A j \in S : Value(f, Inv(j)) = {}
    BY DEF Splits
  <1>3. t \in Nat \ {0}
    <2>1. IsFiniteSet(S) /\ t \in Nat /\ S # {}
      BY <1>2, SomePositions
    <2> QED
      BY <2>1, FS_EmptySet
  <1>4. \A j \in S : /\ j \in 0 .. nn - 1 /\ j \in 0 .. nn
                     /\ Loc(j) \in Nat /\ Inv(j) \in 1 .. nn /\ Inv(j) \in Nat
                     /\ Reciprocals(Loc(j), Inv(j))
    BY <1>1, <1>2, LocType
  <1>5. Q \in Series /\ f = Times(Q, Exp(Loc(k))) /\ Q[0] = {0}
    BY <1>2, <1>4, QuotientTimes
  <1>6. Degree(Q, t - 1)
    <2> SUFFICES ASSUME NEW i \in 0 .. nn, i > t - 1 PROVE Q[i] = {}
      BY DEF Degree
    <2>1. i >= t
      BY <1>3
    <2>2. Q[i] = Mul(Exp(Loc(k) * i), Value(f, Inv(k)))
      BY <1>2, <1>3, <1>4, <2>1, QuotientEnd
    <2>3. Exp(Loc(k) * i) \in Symbols
      BY <1>4, ExpType
    <2> QED
      BY <1>2, <2>2, <2>3, MulZero
  <1>7. Q[nn] = {}
    BY <1>1, <1>2, <1>3, <1>6 DEF Degree
  <1> HIDE DEF Q
  <1>8. \A j \in S : Value(Q, Inv(j)) \in Symbols
    BY <1>4, <1>5, PartsSeries
  <1>9. ASSUME NEW j \in S, j # k
        PROVE  Value(Q, Inv(j)) = {}
    <2> DEFINE x == Exp(Loc(k))
               y == Exp(Inv(j))
               v == Value(Q, Inv(j))
    <2>1. x \in Symbols /\ y \in Symbols /\ v \in Symbols
      BY <1>4, <1>8, ExpType
    <2>2. Mul(Plus({0}, Mul(x, y)), v) = {}
      <3>1. Value(Times(Q, Exp(Loc(k))), Inv(j)) = Mul(Plus({0}, Mul(x, y)), v)
        BY <1>4, <1>5, <1>7, <2>1, TimesValue
      <3> QED
        BY <1>2, <1>5, <3>1
    <2>3. Mul(x, y) # {0}
      BY <1>4, <1>9, InvDistinct DEF Reciprocals
    <2> HIDE DEF x, y, v
    <2>4. Mul(x, y) \in Symbols
      BY <2>1, MulType
    <2>5. Plus({0}, Mul(x, y)) # {}
      BY <2>3, PlusZero
    <2>6. Plus({0}, Mul(x, y)) \in Symbols
      BY <2>4, Unit, PlusType
    <2>7. v = {}
      BY <2>1, <2>2, <2>5, <2>6, MulNotZero
    <2> QED
      BY <2>7 DEF v
  <1>10. Value(Q, Inv(k)) # {}
    <2> SUFFICES ASSUME Value(Q, Inv(k)) = {} PROVE FALSE
      OBVIOUS
    <2> DEFINE R == RootsOf(S)
               d == t - 1
    <2>1. R \in SUBSET (1 .. nn) /\ Cardinality(R) = t
      BY <1>2, RootsOfType
    <2>2. \A c \in R : Value(Q, c) = {}
      BY <1>9 DEF RootsOf
    <2>3. d \in 0 .. nn /\ Cardinality(R) > d /\ Degree(Q, d)
      BY <1>1, <1>2, <1>3, <1>6, <2>1
    <2> HIDE DEF R, d
    <2>4. Q[0] = {}
      BY <1>1, <1>5, <2>1, <2>2, <2>3, FewRoots
    <2> QED
      BY <1>5, <2>4, Unit
  <1> QED
    BY <1>3, <1>5, <1>6, <1>8, <1>9, <1>10 DEF Q

-----------------------------------------------------------------------------
(* Forney's formula *)

(* A sum is the sum of its terms taken two by two. *)
InPairs(f) ==
  [i \in 0 .. nn |-> IF i % 2 = 0 THEN Plus(f[i], IF i < nn THEN f[i + 1] ELSE {}) ELSE {}]

LEMMA PairsSum ==
  ASSUME NEW f \in Series
  PROVE  InPairs(f) \in Series /\ PlusAll(InPairs(f)) = PlusAll(f)
  <1> DEFINE e == [i \in 0 .. nn |-> IF i % 2 = 0 THEN f[i] ELSE {}]
             o == [i \in 0 .. nn |-> IF i % 2 = 0 THEN {} ELSE f[i]]
             u == [i \in 0 .. nn |-> IF i % 2 = 0 /\ i < nn THEN f[i + 1] ELSE {}]
             h == InPairs(f)
  <1>1. nn \in Nat \ {0} /\ nn \in 0 .. nn /\ 0 \in 0 .. nn
    BY Sizes
  <1>2. \A i \in 0 .. nn : f[i] \in Symbols
    BY DEF Series
  <1>3. \A i \in 0 .. nn : i < nn => i + 1 \in 0 .. nn
    BY <1>1
  <1>4. e \in Series /\ o \in Series /\ u \in Series
    BY <1>2, <1>3, Unit DEF Series
  <1>5. \A i \in 0 .. nn : f[i] = Plus(e[i], o[i])
    BY <1>2, PlusRules
  <1>6. \A i \in 0 .. nn : h[i] = Plus(e[i], u[i])
    <2> SUFFICES ASSUME NEW i \in 0 .. nn PROVE h[i] = Plus(e[i], u[i])
      OBVIOUS
    <2>1. Plus({}, {}) = {}
      BY PlusRules
    <2> QED
      BY <2>1 DEF InPairs
  <1>7. h \in Series
    <2>1. h = [i \in 0 .. nn |-> h[i]]
      BY DEF InPairs
    <2>2. \A i \in 0 .. nn : e[i] \in Symbols /\ u[i] \in Symbols
      BY <1>4 DEF Series
    <2>3. \A i \in 0 .. nn : h[i] \in Symbols
      BY <1>6, <2>2, PlusType
    <2> HIDE DEF h
    <2> QED
      BY <2>1, <2>3 DEF Series
  <1>8. /\ o[0] = {} /\ u[nn] = {}
        /\ \A i \in 0 .. nn - 1 : o[i + 1] = u[i]
    <2>1. o[0] = {} /\ u[nn] = {}
      BY <1>1
    <2>2. \A i \in 0 .. nn - 1 : o[i + 1] = u[i]
      <3> SUFFICES ASSUME NEW i \in 0 .. nn - 1 PROVE o[i + 1] = u[i]
        OBVIOUS
      <3>1. i \in Int /\ 2 \in Nat \ {0} /\ i \in 0 .. nn /\ i + 1 \in 0 .. nn /\ i < nn
        BY <1>1
      <3>2. (i + 1) % 2 = IF i % 2 = 2 - 1 THEN 0 ELSE (i % 2) + 1
        BY <3>1, NextRemainder
      <3>3. i % 2 \in 0 .. 1
        BY <3>1
      <3>4. i % 2 = 0 <=> (i + 1) % 2 # 0
        BY <3>2, <3>3
      <3> QED
        BY <3>1, <3>4
    <2> QED
      BY <2>1, <2>2
  <1> HIDE DEF e, o, u, h
  <1>9. PlusAll(f) = Plus(PlusAll(e), PlusAll(o))
    BY <1>4, <1>5, SumPlus
  <1>10. PlusAll(h) = Plus(PlusAll(e), PlusAll(u))
    BY <1>4, <1>6, <1>7, SumPlus
  <1>11. PlusAll(o) = PlusAll(u)
    <2>1. /\ IsTerms(o) /\ IsTerms(u)
          /\ \A i \in 0 .. nn : Term(o, i) = o[i] /\ Term(u, i) = u[i]
      BY <1>4, FunctionTerms DEF Series
    <2>2. Term(o, 0) = {} /\ \A n \in 0 .. nn - 1 : Term(o, n + 1) = Term(u, n)
      BY <1>1, <1>8, <2>1
    <2>3. \A n \in 0 .. nn : Sums(o)[n + 1] = Sums(u)[n]
      BY <2>1, <2>2, SumsShift
    <2>4. Sums(o)[nn + 1] = Sums(u)[nn]
      BY <1>1, <2>3
    <2>5. \A n \in nn .. nn + 1 : Sums(u)[n] = Sums(u)[nn]
      <3>1. \A n \in nn .. nn : Term(u, n) = {}
        BY <1>1, <1>8, <2>1
      <3> QED
        BY <1>1, <2>1, <3>1, SumsEnd
    <2>6. Sums(u)[nn + 1] = Sums(u)[nn]
      BY <1>1, <2>5
    <2> QED
      BY <2>4, <2>6 DEF PlusAll
  <1> QED
    BY <1>7, <1>9, <1>10, <1>11 DEF h

(* What Forney's formula divides by, the even terms of the formal          *)
(* derivative, is the value of the other factors at the root.              *)
LEMMA DerivativeAtRoot ==
  ASSUME NEW f, NEW S, Splits(f, S), NEW k \in S
  PROVE  Mul(Exp(Loc(k)), Value(Quotient(f, Loc(k), Inv(k)), Inv(k))) =
         PlusAll([i \in 0 .. nn |->
                    IF i % 2 = 0 /\ i < nn THEN Mul(f[i + 1], Exp(Inv(k) * i)) ELSE {}])
  <1> DEFINE Q == Quotient(f, Loc(k), Inv(k))
             X == Exp(Loc(k))
             a == Inv(k)
             P == Parts(Q, a)
             g == [i \in 0 .. nn |-> Mul(X, P[i])]
             h == [i \in 0 .. nn |-> IF i % 2 = 0 /\ i < nn THEN Mul(f[i + 1], Exp(a * i)) ELSE {}]
  <1>1. nn \in Nat \ {0} /\ nn \in 0 .. nn /\ NRoots \in Nat /\ NRoots < nn
    BY Sizes, ReedSolomonAssumption
  <1>2. k \in 0 .. nn
    BY <1>1 DEF Splits
  <1>3. Loc(k) \in Nat /\ a \in Nat /\ X \in Symbols /\ Exp(a) \in Symbols /\ Mul(X, Exp(a)) = {0}
    BY <1>2, LocType, ExpType DEF Reciprocals
  <1>4. /\ Q \in Series /\ f = Times(Q, X)
        /\ Degree(Q, Cardinality(S) - 1) /\ Cardinality(S) \in Nat \ {0} /\ Cardinality(S) <= NRoots
        /\ f \in Series
    BY Factor DEF Splits
  <1>5. Q[nn] = {}
    BY <1>1, <1>4 DEF Degree
  <1> HIDE DEF Q, X, a
  <1>6. /\ P \in Series /\ PlusAll(P) = Value(Q, a)
        /\ \A i \in 0 .. nn : /\ Q[i] \in Symbols /\ Exp(a * i) \in Symbols
                              /\ P[i] = Mul(Q[i], Exp(a * i))
    BY <1>3, <1>4, PartsSeries DEF Value
  <1> HIDE DEF P
  <1>7. g \in Series
    BY <1>3, <1>6, MulType DEF Series
  <1>8. PlusAll(g) = Mul(X, Value(Q, a))
    <2>1. \A i \in 0 .. nn : g[i] = Mul(X, P[i])
      OBVIOUS
    <2> HIDE DEF g
    <2> QED
      BY <1>3, <1>6, <1>7, <2>1, SumTimes
  <1>9. InPairs(g) \in Series /\ PlusAll(InPairs(g)) = PlusAll(g)
    BY <1>7, PairsSum
  <1>10. \A i \in 0 .. nn : InPairs(g)[i] = h[i]
    <2> SUFFICES ASSUME NEW i \in 0 .. nn PROVE InPairs(g)[i] = h[i]
      OBVIOUS
    <2>1. CASE i % 2 # 0
      BY <2>1 DEF InPairs
    <2>2. CASE i % 2 = 0 /\ ~(i < nn)
      <3>1. i = nn
        BY <1>1, <2>2
      <3>2. P[nn] = {}
        BY <1>1, <1>5, <1>6, MulZero
      <3>3. g[nn] = {}
        BY <1>1, <1>3, <3>2, MulZero
      <3>4. InPairs(g)[i] = Plus({}, {})
        BY <2>2, <3>1, <3>3 DEF InPairs
      <3>5. Plus({}, {}) = {}
        BY PlusRules
      <3> QED
        BY <2>2, <3>4, <3>5
    <2>3. CASE i % 2 = 0 /\ i < nn
      <3> DEFINE m == i + 1
                 x == Exp(a * i)
                 y == Exp(a)
      <3>1. m \in 0 .. nn /\ m # 0 /\ m - 1 = i /\ i \in Nat
        BY <1>1, <2>3
      <3>2. InPairs(g)[i] = Plus(g[i], g[m])
        BY <2>3 DEF InPairs
      <3>3. f[m] = Plus(Q[m], Mul(X, Q[i]))
        <4> HIDE DEF m
        <4> QED
          BY <1>4, <3>1 DEF Times
      <3>4. Exp(a * m) = Mul(x, y)
        <4>1. 1 \in Nat /\ a * 1 = a
          BY <1>3
        <4>2. Exp(a * (i + 1)) = Mul(Exp(a * i), Exp(a * 1))
          BY <1>3, <3>1, <4>1, ExpPlus
        <4> QED
          BY <4>1, <4>2
      <3>5. g[i] = Mul(X, Mul(Q[i], x)) /\ g[m] = Mul(X, Mul(Q[m], Mul(x, y)))
        <4>1. P[m] = Mul(Q[m], Exp(a * m))
          <5> HIDE DEF m
          <5> QED
            BY <1>6, <3>1
        <4>2. g[m] = Mul(X, P[m])
          <5> HIDE DEF m
          <5> QED
            BY <3>1
        <4> QED
          BY <1>6, <3>4, <4>1, <4>2
      <3>6. /\ x \in Symbols /\ y \in Symbols /\ X \in Symbols /\ Q[i] \in Symbols /\ Q[m] \in Symbols
            /\ Mul(X, y) = {0}
        <4> HIDE DEF m
        <4> QED
          BY <1>3, <1>6, <3>1
      <3>7. h[i] = Mul(f[m], x)
        BY <2>3
      <3> HIDE DEF m, x, y, h, g
      <3>8. Mul(X, Mul(Q[m], Mul(x, y))) = Mul(Q[m], x)
        <4>1. Mul(Q[m], Mul(x, y)) = Mul(Mul(Q[m], x), y) /\ Mul(Q[m], x) \in Symbols
          BY <3>6, MulAssociates, MulType
        <4>2. Mul(X, Mul(Mul(Q[m], x), y)) = Mul(Mul(Mul(Q[m], x), y), X)
          BY <3>6, <4>1, MulCommutes, MulType
        <4>3. Mul(Mul(Mul(Q[m], x), y), X) = Mul(Mul(Q[m], x), Mul(y, X))
          BY <3>6, <4>1, MulAssociates
        <4>4. Mul(y, X) = {0}
          BY <3>6, MulCommutes
        <4>5. Mul(Mul(Q[m], x), {0}) = Mul(Q[m], x)
          BY <4>1, MulUnit
        <4> QED
          BY <4>1, <4>2, <4>3, <4>4, <4>5
      <3>9. Mul(X, Mul(Q[i], x)) = Mul(Mul(X, Q[i]), x) /\ Mul(X, Q[i]) \in Symbols
        <4> DEFINE z == Q[i]
        <4>1. z \in Symbols /\ x \in Symbols /\ X \in Symbols
          BY <3>6
        <4> HIDE DEF z
        <4>2. Mul(Mul(X, z), x) = Mul(X, Mul(z, x)) /\ Mul(X, z) \in Symbols
          BY <4>1, MulAssociates, MulType
        <4> QED
          BY <4>2 DEF z
      <3>10. Mul(f[m], x) = Plus(Mul(Q[m], x), Mul(Mul(X, Q[i]), x))
        BY <3>3, <3>6, <3>9, DistributesRight
      <3> QED
        BY <3>2, <3>5, <3>7, <3>8, <3>9, <3>10, PlusRules
    <2> QED
      BY <2>1, <2>2, <2>3
  <1>11. InPairs(g) = h
    BY <1>10 DEF InPairs
  <1> QED
    BY <1>8, <1>9, <1>11 DEF Q, X, a

(* The evaluator omega as a series. *)
Omega == [i \in 0 .. nn |-> IF i < deg_lambda THEN omega[i] ELSE {}]

LEMMA OmegaDisc ==
  ASSUME s \in SyndromeLists, lambda \in Polynomials, deg_lambda \in 0 .. NRoots
  PROVE  /\ Omega \in Series
         /\ \A i \in 0 .. nn : Omega[i] = IF i < deg_lambda THEN Disc(lambda, s, i) ELSE {}
         /\ \A root \in Nat : PlusAll([i \in 0 .. deg_lambda - 1 |-> Mul(omega[i], Exp(i * root))]) =
                              Value(Omega, root)
  <1> DEFINE d == deg_lambda
  <1>1. nn \in Nat /\ NRoots \in Nat /\ NRoots < nn /\ d \in Nat /\ d <= NRoots
    BY Sizes, ReedSolomonAssumption
  <1>2. ASSUME NEW i \in 0 .. d - 1
        PROVE  omega[i] = Disc(lambda, s, i) /\ Disc(lambda, s, i) \in Symbols
    <2>1. i \in 0 .. NRoots - 1
      BY <1>1
    <2>2. \A j \in 0 .. i : lambda[j] \in Symbols /\ s[i - j] \in Symbols
      BY <2>1, ProductTerms
    <2>3. \A j \in 0 .. i : Mul(s[i - j], lambda[j]) = Mul(lambda[j], s[i - j])
      BY <2>2, MulCommutes
    <2>4. [j \in 0 .. i |-> Mul(s[i - j], lambda[j])] = Products(lambda, s, i)
      BY <2>3 DEF Products
    <2>5. omega[i] = PlusAll([j \in 0 .. i |-> Mul(s[i - j], lambda[j])])
      BY DEF omega
    <2>6. Disc(lambda, s, i) \in Symbols
      BY <2>1, ProductTerms
    <2> QED
      BY <2>4, <2>5, <2>6 DEF Disc
  <1>3. \A i \in 0 .. nn : /\ Omega[i] = IF i < d THEN Disc(lambda, s, i) ELSE {}
                           /\ Omega[i] \in Symbols
    <2> SUFFICES ASSUME NEW i \in 0 .. nn
                 PROVE  /\ Omega[i] = IF i < d THEN Disc(lambda, s, i) ELSE {}
                        /\ Omega[i] \in Symbols
      OBVIOUS
    <2>1. CASE i < d
      <3>1. i \in 0 .. d - 1
        BY <1>1, <2>1
      <3> QED
        BY <1>2, <2>1, <3>1 DEF Omega
    <2>2. CASE ~(i < d)
      BY <2>2, Unit DEF Omega
    <2> QED
      BY <2>1, <2>2
  <1>4. Omega \in Series
    <2>1. Omega = [i \in 0 .. nn |-> Omega[i]]
      BY DEF Omega
    <2> QED
      BY <1>3, <2>1 DEF Series
  <1>5. ASSUME NEW root \in Nat
        PROVE  PlusAll([i \in 0 .. d - 1 |-> Mul(omega[i], Exp(i * root))]) = Value(Omega, root)
    <2> DEFINE g == [i \in 0 .. d - 1 |-> Mul(omega[i], Exp(i * root))]
               h == Parts(Omega, root)
    <2>1. h \in Series /\ \A i \in 0 .. nn : Exp(root * i) \in Symbols /\ h[i] = Mul(Omega[i], Exp(root * i))
      BY <1>4, PartsSeries
    <2>2. \A i \in 0 .. nn : Term(g, i) = h[i]
      <3> SUFFICES ASSUME NEW i \in 0 .. nn PROVE Term(g, i) = h[i]
        OBVIOUS
      <3>1. CASE i < d
        <4>1. i \in 0 .. d - 1 /\ i * root = root * i
          BY <1>1, <3>1
        <4>2. Term(g, i) = Mul(omega[i], Exp(i * root))
          BY <4>1 DEF Term
        <4>3. Omega[i] = omega[i]
          BY <3>1 DEF Omega
        <4> QED
          BY <2>1, <4>1, <4>2, <4>3
      <3>2. CASE ~(i < d)
        <4>1. i \notin 0 .. d - 1
          BY <1>1, <3>2
        <4>2. Term(g, i) = {} /\ Omega[i] = {}
          BY <3>2, <4>1 DEF Term, Omega
        <4>3. Mul({}, Exp(root * i)) = {}
          BY <2>1, MulZero
        <4> QED
          BY <2>1, <4>2, <4>3
      <3> QED
        BY <3>1, <3>2
    <2> HIDE DEF g, h
    <2>3. PlusAll(g) = PlusAll(h)
      BY <2>1, <2>2, SumOfTerms
    <2> QED
      BY <2>3 DEF g, h, Value
  <1> QED
    BY <1>3, <1>4, <1>5 DEF d

(* x times y is z, hence x is z divided by y. *)
LEMMA DivideBy ==
  ASSUME NEW x \in Symbols, NEW y \in Symbols, y # {}
  PROVE  Mul(Mul(x, Reciprocal(y)), y) = x
  <1>1. Reciprocal(y) \in Symbols /\ Mul(y, Reciprocal(y)) = {0}
    BY ReciprocalOf
  <1>2. Mul(Mul(x, Reciprocal(y)), y) = Mul(x, Mul(Reciprocal(y), y))
    BY <1>1, MulAssociates
  <1>3. Mul(Reciprocal(y), y) = {0}
    BY <1>1, MulCommutes
  <1>4. Mul(x, {0}) = x
    BY MulUnit
  <1> QED
    BY <1>2, <1>3, <1>4

(* The formula of decode_rs.h, cleared of its division. *)
LEMMA Forney ==
  ASSUME s \in SyndromeLists, lambda \in Polynomials, deg_lambda \in 0 .. NRoots,
         NEW S, Splits(AsSeries(lambda), S), Cardinality(S) = deg_lambda, NEW k \in S
  PROVE  /\ ErrorValue(Inv(k)) \in Symbols
         /\ Mul(Mul(ErrorValue(Inv(k)), Exp(Loc(k) * FCR)),
                Value(Quotient(AsSeries(lambda), Loc(k), Inv(k)), Inv(k))) = Value(Omega, Inv(k))
  <1> DEFINE f == AsSeries(lambda)
             V == Value(Quotient(f, Loc(k), Inv(k)), Inv(k))
             X == Exp(Loc(k))
             a == Inv(k)
             d == deg_lambda
             num1 == PlusAll([i \in 0 .. d - 1 |-> Mul(omega[i], Exp(i * a))])
             num2 == Exp(a * (FCR - 1) + nn)
             even == {i \in 0 .. Min({d, NRoots - 1}) : i % 2 = 0}
             g == [i \in even |-> Mul(lambda[i + 1], Exp(i * a))]
             h == [i \in 0 .. nn |-> IF i % 2 = 0 /\ i < nn THEN Mul(f[i + 1], Exp(a * i)) ELSE {}]
             E == ErrorValue(a)
             Y == Exp(Loc(k) * FCR)
  <1>1. nn \in Nat \ {0} /\ NRoots \in Nat \ {0} /\ NRoots < nn /\ d \in 0 .. NRoots /\ FCR \in Nat
    BY Sizes, ReedSolomonAssumption
  <1>2. k \in 0 .. nn /\ Splits(f, S)
    BY <1>1 DEF Splits
  <1>3. /\ Loc(k) \in Nat /\ a \in Nat /\ a \in 1 .. nn
        /\ X \in Symbols /\ Exp(a) \in Symbols /\ Mul(X, Exp(a)) = {0} /\ Reciprocals(Loc(k), a)
    BY <1>2, LocType, ExpType DEF Reciprocals
  <1>4. V \in Symbols /\ V # {} /\ f \in Series /\ Degree(f, d)
    BY <1>2, Factor DEF Splits
  <1>5. \A i \in 0 .. NRoots : f[i] = lambda[i]
    BY AsSeriesType
  <1>6. \A i \in 0 .. nn : i > NRoots => f[i] = {}
    BY AsSeriesType
  <1>7. Mul(X, V) = PlusAll(h)
    BY <1>2, DerivativeAtRoot
  <1>8. num1 = Value(Omega, a) /\ Omega \in Series /\ num1 \in Symbols
    BY <1>3, OmegaDisc, PartsSeries
  <1>9. E = Mul(Mul(num1, num2), Reciprocal(PlusAll(g)))
    BY DEF ErrorValue
  <1> HIDE DEF f, V, X, a, num1, E
  <1>10. h \in Series
    <2> SUFFICES ASSUME NEW i \in 0 .. nn, i < nn PROVE Mul(f[i + 1], Exp(a * i)) \in Symbols
      BY Unit DEF Series
    <2>1. i + 1 \in 0 .. nn /\ a * i \in Nat
      BY <1>1, <1>3
    <2>2. f[i + 1] \in Symbols /\ Exp(a * i) \in Symbols
      BY <1>4, <2>1, ExpType DEF Series
    <2> QED
      BY <2>2, MulType
  <1>11. Min({d, NRoots - 1}) = IF d <= NRoots - 1 THEN d ELSE NRoots - 1
    BY <1>1 DEF Min
  <1>12. \A i \in 0 .. nn : Term(g, i) = h[i]
    <2> SUFFICES ASSUME NEW i \in 0 .. nn PROVE Term(g, i) = h[i]
      OBVIOUS
    <2>1. CASE i % 2 # 0
      BY <2>1 DEF Term
    <2>2. CASE i % 2 = 0 /\ i <= d /\ i <= NRoots - 1
      <3>1. i \in even /\ i + 1 \in 0 .. NRoots /\ i < nn /\ i * a = a * i
        BY <1>1, <1>3, <1>11, <2>2
      <3>2. Term(g, i) = Mul(lambda[i + 1], Exp(i * a))
        BY <3>1 DEF Term
      <3>3. f[i + 1] = lambda[i + 1]
        BY <1>5, <3>1
      <3> QED
        BY <2>2, <3>1, <3>2, <3>3
    <2>3. CASE i % 2 = 0 /\ ~(i <= d /\ i <= NRoots - 1)
      <3>1. i \notin even
        BY <1>1, <1>11, <2>3
      <3>2. Term(g, i) = {}
        BY <3>1 DEF Term
      <3>3. CASE i < nn
        <4>1. i + 1 \in 0 .. nn /\ a * i \in Nat /\ (i + 1 > d)
          BY <1>1, <1>3, <2>3, <3>3
        <4>2. f[i + 1] = {}
          BY <1>4, <4>1 DEF Degree
        <4>3. Mul({}, Exp(a * i)) = {}
          BY <4>1, ExpType, MulZero
        <4> QED
          BY <2>3, <3>2, <3>3, <4>2, <4>3
      <3>4. CASE ~(i < nn)
        BY <3>2, <3>4
      <3> QED
        BY <3>3, <3>4
    <2> QED
      BY <2>1, <2>2, <2>3
  <1> HIDE DEF g, h
  <1>13. PlusAll(g) = Mul(X, V)
    BY <1>7, <1>10, <1>12, SumOfTerms
  <1>14. Mul(X, V) \in Symbols /\ Mul(X, V) # {}
    <2>1. X # {}
      BY <1>3, ExpType DEF X
    <2> QED
      BY <1>3, <1>4, <2>1, MulType, MulNotZero
  <1>15. num2 \in Symbols /\ Mul(num2, Exp(a)) = Exp(a * FCR) /\ Exp(a * FCR) \in Symbols
    <2>1. a * FCR \in Nat /\ a * (FCR - 1) + nn = a * FCR + (nn - a) /\ nn - a \in Nat
      BY <1>1, <1>3
    <2>2. a * (FCR - 1) + nn \in Nat /\ a * (FCR - 1) + nn + a = a * FCR + nn * 1 /\ 1 \in Nat
      BY <1>1, <1>3, <2>1
    <2>3. Mul(num2, Exp(a)) = Exp(a * (FCR - 1) + nn + a)
      BY <1>3, <2>2, MulExp
    <2>4. Exp(a * FCR + nn * 1) = Exp(a * FCR)
      BY <2>1, <2>2, ExpPeriod
    <2> QED
      BY <2>1, <2>2, <2>3, <2>4, ExpType
  <1> HIDE DEF num2
  <1>16. Mul(num1, num2) \in Symbols
    BY <1>8, <1>15, MulType
  <1>17. E \in Symbols /\ Mul(E, Mul(X, V)) = Mul(num1, num2)
    <2>1. Reciprocal(Mul(X, V)) \in Symbols
      BY <1>14, ReciprocalOf
    <2>2. E \in Symbols
      BY <1>9, <1>13, <1>16, <2>1, MulType
    <2> QED
      BY <1>9, <1>13, <1>14, <1>16, <2>2, DivideBy
  <1>18. Mul(E, V) = Mul(num1, Exp(a * FCR))
    <2>1. Mul(Mul(E, Mul(X, V)), Exp(a)) = Mul(Mul(num1, num2), Exp(a))
      BY <1>17
    <2>2. Mul(Mul(num1, num2), Exp(a)) = Mul(num1, Mul(num2, Exp(a)))
      BY <1>3, <1>8, <1>15, MulAssociates
    <2>3. Mul(X, V) = Mul(V, X)
      BY <1>3, <1>4, MulCommutes
    <2>4. Mul(E, Mul(V, X)) = Mul(Mul(E, V), X) /\ Mul(E, V) \in Symbols
      BY <1>3, <1>4, <1>17, MulAssociates, MulType
    <2>5. Mul(Mul(Mul(E, V), X), Exp(a)) = Mul(Mul(E, V), Mul(X, Exp(a)))
      BY <1>3, <2>4, MulAssociates
    <2>6. Mul(Mul(E, V), {0}) = Mul(E, V)
      BY <2>4, MulUnit
    <2> QED
      BY <1>3, <1>15, <2>1, <2>2, <2>3, <2>4, <2>5, <2>6
  <1>19. Y \in Symbols /\ Mul(Y, Exp(a * FCR)) = {0}
    <2>1. Loc(k) * FCR \in Nat
      BY <1>1, <1>3
    <2> QED
      BY <1>1, <1>3, <2>1, ExpType, InversePowers
  <1> HIDE DEF Y
  <1>20. Mul(Mul(E, Y), V) = num1
    <2> DEFINE z == Exp(a * FCR)
    <2>1. z \in Symbols /\ Mul(Y, z) = {0} /\ Mul(E, V) = Mul(num1, z)
      BY <1>15, <1>18, <1>19
    <2> HIDE DEF z
    <2>2. Mul(Mul(E, Y), V) = Mul(E, Mul(Y, V)) /\ Mul(Y, V) = Mul(V, Y)
      BY <1>4, <1>17, <1>19, MulAssociates, MulCommutes
    <2>3. Mul(E, Mul(V, Y)) = Mul(Mul(E, V), Y)
      BY <1>4, <1>17, <1>19, MulAssociates
    <2>4. Mul(Mul(num1, z), Y) = Mul(num1, Mul(z, Y)) /\ Mul(z, Y) = Mul(Y, z)
      BY <1>8, <1>19, <2>1, MulAssociates, MulCommutes
    <2>5. Mul(num1, {0}) = num1
      BY <1>8, MulUnit
    <2> QED
      BY <2>1, <2>2, <2>3, <2>4, <2>5
  <1> QED
    BY <1>8, <1>17, <1>20 DEF f, V, a, E, Y

(* What errors of these sizes contribute to the evaluator. *)
Combination(A, f) ==
  [i \in 0 .. nn |-> PlusAll([j \in 0 .. nn |-> Mul(A[j], Quotient(f, Loc(j), Inv(j))[i])])]

LEMMA CombinationType ==
  ASSUME NEW A \in Series, NEW f \in Series, NEW i \in 0 .. nn
  PROVE  /\ [j \in 0 .. nn |-> Mul(A[j], Quotient(f, Loc(j), Inv(j))[i])] \in Series
         /\ \A j \in 0 .. nn : /\ A[j] \in Symbols /\ Quotient(f, Loc(j), Inv(j)) \in Series
                               /\ Quotient(f, Loc(j), Inv(j))[i] \in Symbols
         /\ Combination(A, f) \in Series
  <1>1. \A j \in 0 .. nn : A[j] \in Symbols /\ Quotient(f, Loc(j), Inv(j)) \in Series
    BY LocType, QuotientTimes DEF Series
  <1>2. \A j, m \in 0 .. nn : Quotient(f, Loc(j), Inv(j))[m] \in Symbols
    <2> SUFFICES ASSUME NEW j \in 0 .. nn, NEW m \in 0 .. nn
                 PROVE  Quotient(f, Loc(j), Inv(j))[m] \in Symbols
      OBVIOUS
    <2> DEFINE Q == Quotient(f, Loc(j), Inv(j))
    <2>1. Q \in Series
      BY <1>1
    <2> HIDE DEF Q
    <2>2. Q[m] \in Symbols
      BY <2>1 DEF Series
    <2> QED
      BY <2>2 DEF Q
  <1>3. ASSUME NEW m \in 0 .. nn
        PROVE  [j \in 0 .. nn |-> Mul(A[j], Quotient(f, Loc(j), Inv(j))[m])] \in Series
    <2>1. \A j \in 0 .. nn : Mul(A[j], Quotient(f, Loc(j), Inv(j))[m]) \in Symbols
      BY <1>1, <1>2, MulType
    <2> QED
      BY <2>1 DEF Series
  <1>4. Combination(A, f) \in Series
    <2>1. \A m \in 0 .. nn :
            PlusAll([j \in 0 .. nn |-> Mul(A[j], Quotient(f, Loc(j), Inv(j))[m])]) \in Symbols
      BY <1>3, SumType
    <2> QED
      BY <2>1 DEF Combination, Series
  <1> QED
    BY <1>1, <1>2, <1>3, <1>4

LEMMA CombinationEnd ==
  ASSUME NEW f, NEW S, Splits(f, S), NEW A \in Series, \A j \in 0 .. nn : j \notin S => A[j] = {},
         NEW i \in 0 .. nn, i >= Cardinality(S)
  PROVE  Combination(A, f)[i] = {}
  <1> DEFINE g == [j \in 0 .. nn |-> Mul(A[j], Quotient(f, Loc(j), Inv(j))[i])]
  <1>1. f \in Series /\ g \in Series
    BY CombinationType DEF Splits
  <1>2. \A j \in 0 .. nn : g[j] = {}
    <2> SUFFICES ASSUME NEW j \in 0 .. nn PROVE g[j] = {}
      OBVIOUS
    <2> DEFINE x == Quotient(f, Loc(j), Inv(j))[i]
    <2>1. A[j] \in Symbols /\ x \in Symbols /\ g[j] = Mul(A[j], x)
      BY <1>1, CombinationType
    <2>2. CASE j \notin S
      <3> HIDE DEF x, g
      <3> QED
        BY <2>1, <2>2, MulZero
    <2>3. CASE j \in S
      <3>1. x = {}
        <4>1. /\ Degree(Quotient(f, Loc(j), Inv(j)), Cardinality(S) - 1)
              /\ Cardinality(S) \in Nat \ {0}
          BY <2>3, Factor
        <4>2. i > Cardinality(S) - 1
          BY <4>1
        <4> QED
          BY <4>1, <4>2 DEF Degree
      <3> HIDE DEF x, g
      <3> QED
        BY <2>1, <3>1, MulZero
    <2> QED
      BY <2>2, <2>3
  <1>3. Combination(A, f)[i] = PlusAll(g)
    BY DEF Combination
  <1> HIDE DEF g
  <1> QED
    BY <1>1, <1>2, <1>3, ZeroSum DEF Series

(* At the root of one position only the error at that position counts. *)
LEMMA CombinationValue ==
  ASSUME NEW f, NEW S, Splits(f, S), NEW A \in Series, \A j \in 0 .. nn : j \notin S => A[j] = {},
         NEW k \in S
  PROVE  Value(Combination(A, f), Inv(k)) =
         Mul(A[k], Value(Quotient(f, Loc(k), Inv(k)), Inv(k)))
  <1> DEFINE a == Inv(k)
             C == Combination(A, f)
             Q(j) == Quotient(f, Loc(j), Inv(j))
             T == [i \in 0 .. nn |-> [j \in 0 .. nn |-> Mul(Mul(A[j], Q(j)[i]), Exp(a * i))]]
             g == [j \in 0 .. nn |-> Mul(A[j], Value(Q(j), a))]
  <1>1. nn \in Nat /\ k \in 0 .. nn /\ f \in Series /\ \A j \in S : j \in 0 .. nn
    BY Sizes DEF Splits
  <1>2. a \in Nat /\ \A i \in 0 .. nn : Exp(a * i) \in Symbols
    <2>1. a \in Nat
      BY <1>1, LocType
    <2>2. \A i \in 0 .. nn : a * i \in Nat
      BY <1>1, <2>1
    <2> QED
      BY <2>1, <2>2, ExpType
  <1>3. C \in Series
    BY <1>1, CombinationType
  <1>4. \A j \in 0 .. nn : A[j] \in Symbols /\ Q(j) \in Series /\ Value(Q(j), a) \in Symbols
    <2>1. \A j \in 0 .. nn : A[j] \in Symbols /\ Q(j) \in Series
      BY <1>1, CombinationType
    <2> QED
      BY <1>2, <2>1, PartsSeries
  <1>5. \A i, j \in 0 .. nn : Q(j)[i] \in Symbols
    BY <1>1, CombinationType
  <1>6. T \in Tables
    <2>1. \A i, j \in 0 .. nn : Mul(Mul(A[j], Q(j)[i]), Exp(a * i)) \in Symbols
      <3> SUFFICES ASSUME NEW i \in 0 .. nn, NEW j \in 0 .. nn
                   PROVE  Mul(Mul(A[j], Q(j)[i]), Exp(a * i)) \in Symbols
        OBVIOUS
      <3>1. A[j] \in Symbols /\ Q(j)[i] \in Symbols /\ Exp(a * i) \in Symbols
        BY <1>2, <1>4, <1>5
      <3>2. Mul(A[j], Q(j)[i]) \in Symbols
        BY <3>1, MulType
      <3> QED
        BY <3>1, <3>2, MulType
    <2> QED
      BY <2>1 DEF Tables
  <1>7. RowSums(T) = Parts(C, a)
    <2>1. ASSUME NEW i \in 0 .. nn
          PROVE  PlusAll(T[i]) = Mul(C[i], Exp(a * i))
      <3> DEFINE u == [j \in 0 .. nn |-> Mul(A[j], Q(j)[i])]
                 v == T[i]
                 x == Exp(a * i)
      <3>1. u \in Series /\ x \in Symbols
        BY <1>1, <1>2, CombinationType
      <3>2. C[i] = PlusAll(u)
        BY DEF Combination
      <3>3. v \in Series
        BY <1>6 DEF Tables, Series
      <3>4. \A j \in 0 .. nn : v[j] = Mul(x, u[j])
        <4> SUFFICES ASSUME NEW j \in 0 .. nn PROVE v[j] = Mul(x, u[j])
          OBVIOUS
        <4>1. v[j] = Mul(u[j], x)
          OBVIOUS
        <4>2. u[j] \in Symbols
          BY <3>1 DEF Series
        <4> HIDE DEF u, v, x
        <4> QED
          BY <3>1, <4>1, <4>2, MulCommutes
      <3> HIDE DEF u, v, x, C, T
      <3>5. PlusAll(v) = Mul(x, PlusAll(u)) /\ PlusAll(u) \in Symbols
        BY <3>1, <3>3, <3>4, SumTimes, SumType
      <3>6. PlusAll(v) = Mul(C[i], x)
        BY <3>1, <3>2, <3>5, MulCommutes
      <3> QED
        BY <3>6 DEF v, x
    <2> HIDE DEF T, C
    <2> QED
      BY <2>1 DEF RowSums, Parts
  <1>8. ColumnSums(T) = g
    <2>1. ASSUME NEW j \in 0 .. nn
          PROVE  PlusAll([i \in 0 .. nn |-> T[i][j]]) = Mul(A[j], Value(Q(j), a))
      <3> DEFINE v == [i \in 0 .. nn |-> T[i][j]]
                 q == Q(j)
                 u == Parts(q, a)
                 x == A[j]
      <3>1. q \in Series /\ x \in Symbols
        BY <1>4
      <3>2. /\ u \in Series /\ PlusAll(u) = Value(q, a)
            /\ \A i \in 0 .. nn : /\ q[i] \in Symbols /\ Exp(a * i) \in Symbols
                                  /\ u[i] = Mul(q[i], Exp(a * i))
        <4> HIDE DEF q, a
        <4> QED
          BY <1>2, <3>1, PartsSeries DEF Value
      <3>3. v \in Series
        <4> HIDE DEF T
        <4> QED
          BY <1>6 DEF Tables, Series
      <3>4. \A i \in 0 .. nn : v[i] = Mul(x, u[i])
        <4> SUFFICES ASSUME NEW i \in 0 .. nn PROVE v[i] = Mul(x, u[i])
          OBVIOUS
        <4>1. v[i] = Mul(Mul(x, q[i]), Exp(a * i))
          OBVIOUS
        <4> DEFINE y == Exp(a * i)
                   w == q[i]
        <4>2. w \in Symbols /\ y \in Symbols /\ u[i] = Mul(w, y)
          BY <3>2
        <4>3. v[i] = Mul(Mul(x, w), y)
          BY <4>1
        <4> HIDE DEF u, v, x, y, w
        <4>4. Mul(Mul(x, w), y) = Mul(x, Mul(w, y))
          BY <3>1, <4>2, MulAssociates
        <4> QED
          BY <4>2, <4>3, <4>4
      <3> HIDE DEF u, v, x, q
      <3>5. PlusAll(v) = Mul(x, PlusAll(u))
        BY <3>1, <3>2, <3>3, <3>4, SumTimes
      <3>6. PlusAll(v) = Mul(x, Value(q, a))
        BY <3>2, <3>5
      <3> QED
        BY <3>6 DEF v, x, q
    <2> HIDE DEF T, Q
    <2> QED
      BY <2>1 DEF ColumnSums
  <1> HIDE DEF T
  <1>9. Value(C, a) = PlusAll(g)
    BY <1>6, <1>7, <1>8, SumsExchange DEF Value
  <1>10. g \in Series
    BY <1>4, MulType DEF Series
  <1>11. \A j \in 0 .. nn : j # k => g[j] = {}
    <2> SUFFICES ASSUME NEW j \in 0 .. nn, j # k PROVE g[j] = {}
      OBVIOUS
    <2> DEFINE x == Value(Q(j), a)
    <2>1. A[j] \in Symbols /\ x \in Symbols /\ g[j] = Mul(A[j], x)
      BY <1>4
    <2>2. j \notin S => A[j] = {}
      OBVIOUS
    <2>3. j \in S => x = {}
      <3> SUFFICES ASSUME j \in S PROVE x = {}
        OBVIOUS
      <3> QED
        BY Factor
    <2> HIDE DEF x, g
    <2> QED
      BY <2>1, <2>2, <2>3, MulZero
  <1>12. g[k] = Mul(A[k], Value(Q(k), a))
    BY <1>1
  <1> HIDE DEF g
  <1>13. PlusAll(g) = g[k]
    BY <1>1, <1>10, <1>11, OnlyTermSum
  <1> QED
    BY <1>9, <1>12, <1>13

LEMMA DiscCombination ==
  ASSUME NEW p \in Polynomials, NEW A \in Series, NEW q \in SyndromeLists, NEW n \in 0 .. NRoots - 1,
         \A m \in 0 .. n : q[m] = Moment(A, m)
  PROVE  Disc(p, q, n) = Combination(A, AsSeries(p))[n]
  <1> DEFINE f == AsSeries(p)
  <1>1. n \in 0 .. nn
    BY Sizes, ReedSolomonAssumption
  <1>2. f \in Series
    BY AsSeriesType
  <1>3. Disc(p, q, n) = PlusAll([i \in 0 .. nn |-> IF i <= n THEN Mul(f[i], Moment(A, n - i)) ELSE {}])
    BY DiscConvolution
  <1> HIDE DEF f
  <1>4. PlusAll([i \in 0 .. nn |-> IF i <= n THEN Mul(f[i], Moment(A, n - i)) ELSE {}]) =
        PlusAll([j \in 0 .. nn |-> Mul(A[j], Quotient(f, Loc(j), Inv(j))[n])])
    BY <1>1, <1>2, MomentConvolution
  <1>5. Combination(A, f)[n] = PlusAll([j \in 0 .. nn |-> Mul(A[j], Quotient(f, Loc(j), Inv(j))[n])])
    BY <1>1 DEF Combination
  <1> QED
    BY <1>3, <1>4, <1>5 DEF f

(* Forney's formula gives the errors that the syndromes come from.         *)
THEOREM ErrorValues ==
  ASSUME s \in SyndromeLists, lambda \in Polynomials, deg_lambda \in 0 .. NRoots,
         NEW S, Splits(AsSeries(lambda), S), Cardinality(S) = deg_lambda,
         NEW A, ErrorsOf(A, S, s)
  PROVE  \A k \in S : /\ ErrorValue(Inv(k)) \in Symbols
                      /\ Mul(ErrorValue(Inv(k)), Exp(Loc(k) * FCR)) = A[k]
  <1> DEFINE f == AsSeries(lambda)
             C == Combination(A, f)
  <1>1. nn \in Nat /\ NRoots \in Nat /\ NRoots < nn /\ FCR \in Nat
    BY Sizes, ReedSolomonAssumption
  <1>2. /\ A \in Series /\ \A j \in 0 .. nn : j \notin S => A[j] = {}
        /\ \A n \in 0 .. NRoots - 1 : s[n] = Moment(A, n)
    BY DEF ErrorsOf
  <1>3. f \in Series /\ Splits(f, S) /\ C \in Series
    BY <1>2, AsSeriesType, CombinationType
  <1>4. Omega \in Series /\ \A i \in 0 .. nn : Omega[i] = IF i < deg_lambda THEN Disc(lambda, s, i) ELSE {}
    BY OmegaDisc
  <1>5. \A i \in 0 .. nn : Omega[i] = C[i]
    <2> SUFFICES ASSUME NEW i \in 0 .. nn PROVE Omega[i] = C[i]
      OBVIOUS
    <2>1. CASE i < deg_lambda
      <3>1. i \in 0 .. NRoots - 1 /\ \A m \in 0 .. i : m \in 0 .. NRoots - 1
        BY <1>1, <2>1
      <3>2. Disc(lambda, s, i) = Combination(A, AsSeries(lambda))[i]
        BY <1>2, <3>1, DiscCombination
      <3> QED
        BY <1>4, <2>1, <3>2
    <2>2. CASE ~(i < deg_lambda)
      <3>1. i >= Cardinality(S)
        BY <1>1, <2>2
      <3>2. C[i] = {}
        BY <1>2, <1>3, <3>1, CombinationEnd
      <3> QED
        BY <1>4, <2>2, <3>2
    <2> QED
      BY <2>1, <2>2
  <1>6. Omega = C
    <2> HIDE DEF C
    <2>1. Omega = [i \in 0 .. nn |-> Omega[i]] /\ C = [i \in 0 .. nn |-> C[i]]
      BY <1>3, <1>4 DEF Series
    <2> QED
      BY <1>5, <2>1
  <1> SUFFICES ASSUME NEW k \in S
               PROVE  /\ ErrorValue(Inv(k)) \in Symbols
                      /\ Mul(ErrorValue(Inv(k)), Exp(Loc(k) * FCR)) = A[k]
    OBVIOUS
  <1> DEFINE E == ErrorValue(Inv(k))
             Y == Exp(Loc(k) * FCR)
             V == Value(Quotient(f, Loc(k), Inv(k)), Inv(k))
  <1>7. E \in Symbols /\ Mul(Mul(E, Y), V) = Value(Omega, Inv(k))
    BY Forney
  <1>8. Value(C, Inv(k)) = Mul(A[k], V)
    BY <1>2, <1>3, CombinationValue
  <1>9. V \in Symbols /\ V # {}
    BY <1>3, Factor
  <1>10. k \in 0 .. nn
    BY <1>1 DEF Splits
  <1>11. Y \in Symbols /\ A[k] \in Symbols
    <2>1. Loc(k) * FCR \in Nat
      BY <1>1, <1>10, LocType
    <2> QED
      BY <1>2, <1>10, <2>1, ExpType DEF Series
  <1> HIDE DEF E, Y, V, C
  <1>12. Mul(E, Y) \in Symbols /\ Mul(Mul(E, Y), V) = Mul(A[k], V)
    BY <1>6, <1>7, <1>8, <1>11, MulType
  <1>13. Mul(V, Mul(E, Y)) = Mul(V, A[k])
    BY <1>9, <1>11, <1>12, MulCommutes
  <1>14. Mul(E, Y) = A[k]
    BY <1>9, <1>11, <1>12, <1>13, MulCancel
  <1> QED
    BY <1>7, <1>14 DEF E, Y

(* A polynomial that starts with 1 tells all lists of syndromes apart. *)
LEMMA SameDiscs ==
  ASSUME NEW p \in Polynomials, p[0] = {0}, NEW q \in SyndromeLists, NEW u \in SyndromeLists,
         \A n \in 0 .. NRoots - 1 : Disc(p, q, n) = Disc(p, u, n)
  PROVE  \A n \in 0 .. NRoots - 1 : q[n] = u[n]
  <1> DEFINE T == {n \in 0 .. NRoots : \A m \in 0 .. n - 1 : q[m] = u[m]}
  <1>1. nn \in Nat \ {0} /\ NRoots \in Nat /\ NRoots < nn
    BY Sizes, ReedSolomonAssumption
  <1>2. 0 \in T
    BY <1>1
  <1>3. ASSUME NEW n \in 0 .. NRoots - 1, \A m \in 0 .. n - 1 : q[m] = u[m]
        PROVE  q[n] = u[n]
    <2> DEFINE F == [i \in 0 .. nn |-> Term(Products(p, q, n), i)]
               G == [i \in 0 .. nn |-> Term(Products(p, u, n), i)]
               H == [i \in 0 .. nn |-> Plus(F[i], G[i])]
    <2>1. /\ \A i \in 0 .. nn : /\ F[i] = IF i <= n THEN Mul(p[i], q[n - i]) ELSE {}
                                /\ G[i] = IF i <= n THEN Mul(p[i], u[n - i]) ELSE {}
          /\ F \in Series /\ G \in Series
      BY ProductTerms DEF IsTerms, Series
    <2>2. PlusAll(F) = Disc(p, q, n) /\ PlusAll(G) = Disc(p, u, n)
      <3>1. \A i \in 0 .. nn : Term(Products(p, q, n), i) = F[i] /\ Term(Products(p, u, n), i) = G[i]
        OBVIOUS
      <3> HIDE DEF F, G
      <3> QED
        BY <2>1, <3>1, SumOfTerms DEF Disc
    <2> HIDE DEF F, G
    <2>3. H \in Series
      BY <2>1, PlusType DEF Series
    <2>4. PlusAll(H) = {}
      <3>1. \A i \in 0 .. nn : H[i] = Plus(F[i], G[i])
        OBVIOUS
      <3> HIDE DEF H
      <3>2. PlusAll(H) = Plus(PlusAll(F), PlusAll(G))
        BY <2>1, <2>3, <3>1, SumPlus
      <3> QED
        BY <2>2, <3>2, PlusRules
    <2>5. \A i \in 1 .. nn : H[i] = {}
      <3> SUFFICES ASSUME NEW i \in 1 .. nn PROVE F[i] = G[i]
        BY PlusRules
      <3>1. i \in 0 .. nn
        BY <1>1
      <3>2. CASE i <= n
        <4>1. n - i \in 0 .. n - 1
          BY <3>2
        <4> QED
          BY <1>3, <2>1, <3>1, <4>1
      <3>3. CASE ~(i <= n)
        BY <2>1, <3>1, <3>3
      <3> QED
        BY <3>2, <3>3
    <2>6. H[0] = Plus(q[n], u[n])
      <3>1. 0 \in 0 .. nn /\ 0 <= n /\ n - 0 = n
        BY <1>1
      <3>2. q[n] \in Symbols /\ u[n] \in Symbols
        BY DEF SyndromeLists
      <3>3. F[0] = Mul({0}, q[n]) /\ G[0] = Mul({0}, u[n])
        BY <2>1, <3>1
      <3>4. F[0] = q[n] /\ G[0] = u[n]
        BY <3>2, <3>3, MulUnit
      <3> QED
        BY <3>1, <3>4
    <2> HIDE DEF H
    <2>7. H[0] = {}
      BY <2>3, <2>4, <2>5, FirstTermSum DEF Series
    <2> QED
      BY <2>6, <2>7, PlusZero
  <1>4. \A n \in 0 .. NRoots - 1 : n \in T => n + 1 \in T
    <2> SUFFICES ASSUME NEW n \in 0 .. NRoots - 1, n \in T PROVE n + 1 \in T
      OBVIOUS
    <2>1. q[n] = u[n]
      BY <1>3
    <2>2. \A m \in 0 .. n + 1 - 1 : m \in 0 .. n - 1 \/ m = n
      BY <1>1
    <2> QED
      BY <1>1, <2>1, <2>2
  <1>5. \A n \in T : \A m \in 0 .. n - 1 : q[m] = u[m]
    OBVIOUS
  <1> HIDE DEF T
  <1>6. NRoots \in T
    BY <1>1, <1>2, <1>4, Upwards
  <1> QED
    BY <1>5, <1>6

(* And the other way round: if the locator has as many roots as its        *)
(* length, the values of Forney's formula account for all the syndromes.   *)
LEMMA ErrorsFound ==
  ASSUME s \in SyndromeLists, IsLocator(s, lambda, b, el, r), r = NRoots, deg_lambda = el,
         NEW S, Splits(AsSeries(lambda), S), Cardinality(S) = deg_lambda,
         NEW A \in Series, \A j \in 0 .. nn : j \notin S => A[j] = {},
         \A k \in S : A[k] = Mul(ErrorValue(Inv(k)), Exp(Loc(k) * FCR))
  PROVE  ErrorsOf(A, S, s)
  <1> DEFINE f == AsSeries(lambda)
             C == Combination(A, f)
             t == deg_lambda
             Z == [i \in 0 .. nn |-> Plus(Omega[i], C[i])]
             u == [n \in 0 .. NRoots - 1 |-> Moment(A, n)]
  <1>1. nn \in Nat /\ NRoots \in Nat /\ NRoots < nn /\ t \in 0 .. NRoots
    BY Sizes, ReedSolomonAssumption, DegreeAtMostLength
  <1>2. lambda \in Polynomials /\ lambda[0] = {0} /\ \A n \in t .. NRoots - 1 : Disc(lambda, s, n) = {}
    <2>1. /\ lambda \in Polynomials /\ lambda[0] = {0}
          /\ \A n \in el .. r - 1 : Disc(lambda, s, n) = {}
      BY DEF IsLocator
    <2> QED
      BY <2>1
  <1>3. f \in Series /\ Splits(f, S) /\ C \in Series /\ S \in SUBSET (0 .. nn - 1)
    <2>1. f \in Series /\ Splits(f, S) /\ 0 \in 0 .. nn
      BY <1>1, <1>2, AsSeriesType
    <2> HIDE DEF f
    <2> QED
      BY <2>1, CombinationType DEF Splits
  <1>4. Omega \in Series /\ \A i \in 0 .. nn : Omega[i] = IF i < t THEN Disc(lambda, s, i) ELSE {}
    BY <1>1, <1>2, OmegaDisc
  <1>5. \A i \in 0 .. nn : i >= t => C[i] = {}
    BY <1>3, CombinationEnd
  <1> HIDE DEF C
  <1>6. \A k \in S : Value(Omega, Inv(k)) = Value(C, Inv(k))
    <2> SUFFICES ASSUME NEW k \in S PROVE Value(Omega, Inv(k)) = Value(C, Inv(k))
      OBVIOUS
    <2>1. Value(Omega, Inv(k)) =
          Mul(Mul(ErrorValue(Inv(k)), Exp(Loc(k) * FCR)), Value(Quotient(f, Loc(k), Inv(k)), Inv(k)))
      BY <1>1, <1>2, Forney
    <2>2. Value(C, Inv(k)) = Mul(A[k], Value(Quotient(f, Loc(k), Inv(k)), Inv(k)))
      BY <1>3, CombinationValue DEF C
    <2> QED
      BY <2>1, <2>2
  <1>7. Z \in Series /\ \A i \in 0 .. nn : Z[i] = Plus(Omega[i], C[i])
    BY <1>3, <1>4, PlusType DEF Series
  <1> HIDE DEF Z
  <1>8. \A i \in 0 .. nn : Z[i] = {}
    <2>1. \A i \in 0 .. nn : i >= t => Z[i] = {}
      <3> SUFFICES ASSUME NEW i \in 0 .. nn, i >= t PROVE Z[i] = {}
        OBVIOUS
      <3>1. Omega[i] = {} /\ C[i] = {}
        BY <1>1, <1>4, <1>5
      <3>2. Plus({}, {}) = {}
        BY PlusRules
      <3> QED
        BY <1>7, <3>1, <3>2
    <2>2. CASE t = 0
      BY <1>1, <2>1, <2>2
    <2>3. CASE t # 0
      <3> DEFINE R == RootsOf(S)
                 d == t - 1
      <3>1. R \in SUBSET (1 .. nn) /\ Cardinality(R) > d /\ d \in 0 .. nn
        BY <1>1, <1>3, <2>3, RootsOfType
      <3>2. \A c \in R : Value(Z, c) = {}
        <4> SUFFICES ASSUME NEW k \in S PROVE Value(Z, Inv(k)) = {}
          BY DEF RootsOf
        <4>1. Inv(k) \in Nat
          BY <1>1, <1>3, LocType
        <4>2. Value(Z, Inv(k)) = Plus(Value(Omega, Inv(k)), Value(C, Inv(k)))
          BY <1>3, <1>4, <1>7, <4>1, ValuePlus
        <4> QED
          BY <1>6, <4>2, PlusRules
      <3>3. Degree(Z, d)
        BY <1>1, <2>1 DEF Degree
      <3> HIDE DEF R, d
      <3> QED
        BY <1>7, <3>1, <3>2, <3>3, FewRoots
    <2> QED
      BY <2>2, <2>3
  <1>9. \A i \in 0 .. nn : Omega[i] = C[i]
    BY <1>7, <1>8, PlusZero
  <1>10. u \in SyndromeLists /\ \A n \in 0 .. NRoots - 1 : u[n] = Moment(A, n)
    <2>1. \A n \in 0 .. NRoots - 1 : n \in Nat
      BY <1>1
    <2>2. \A n \in 0 .. NRoots - 1 : Moment(A, n) \in Symbols
      BY <2>1, MomentParts
    <2> QED
      BY <2>2 DEF SyndromeLists
  <1> HIDE DEF u
  <1>11. \A n \in 0 .. NRoots - 1 : Disc(lambda, s, n) = Disc(lambda, u, n)
    <2> SUFFICES ASSUME NEW n \in 0 .. NRoots - 1 PROVE Disc(lambda, s, n) = Disc(lambda, u, n)
      OBVIOUS
    <2>1. n \in 0 .. nn /\ \A m \in 0 .. n : m \in 0 .. NRoots - 1
      BY <1>1
    <2>2. \A m \in 0 .. n : u[m] = Moment(A, m)
      BY <1>10, <2>1
    <2>3. Disc(lambda, u, n) = C[n]
      <3>1. Disc(lambda, u, n) = Combination(A, AsSeries(lambda))[n]
        BY <1>2, <1>10, <2>2, DiscCombination
      <3> QED
        BY <3>1 DEF C
    <2>4. Disc(lambda, s, n) = Omega[n]
      <3>1. CASE n < t
        BY <1>4, <2>1, <3>1
      <3>2. CASE ~(n < t)
        <4>1. n \in t .. NRoots - 1
          BY <1>1, <3>2
        <4> QED
          BY <1>2, <1>4, <2>1, <3>2, <4>1
      <3> QED
        BY <3>1, <3>2
    <2> QED
      BY <1>9, <2>1, <2>3, <2>4
  <1>12. \A n \in 0 .. NRoots - 1 : s[n] = u[n]
    BY <1>2, <1>10, <1>11, SameDiscs
  <1> QED
    BY <1>3, <1>10, <1>12 DEF ErrorsOf

-----------------------------------------------------------------------------
(* ncrs.c: bits, symbols and positions *)

(* Unpacking gives every bit of a message back. *)
THEOREM UnpackPack ==
  ASSUME NEW m \in Messages
  PROVE  Unpack(Pack(m)) = m
  <1>1. /\ SymSize \in Nat \ {0} /\ DataLen \in Nat /\ DataLen * SymSize \in Nat
        /\ Bits = 0 .. SymSize - 1 /\ 8 \in Nat \ {0}
    BY Sizes DEF Bits
  <1>2. MessageBytes \in Nat
    BY <1>1 DEF MessageBytes
  <1>3. /\ m \in [0 .. MessageBytes - 1 -> SUBSET (0 .. 7)]
        /\ \A k \in DataLen * SymSize .. 8 * MessageBytes - 1 : ~BitAt(m, 8, k)
    BY NcrsAssumption
  <1>4. ASSUME NEW i \in 0 .. MessageBytes - 1, NEW j \in 0 .. 7
        PROVE  j \in Unpack(Pack(m))[i] <=> j \in m[i]
    <2> DEFINE k == 8 * i + 7 - j
               q == k \div SymSize
               t == k % SymSize
    <2>1. k \in Nat /\ k = 8 * i + (7 - j) /\ 7 - j \in 0 .. 7 /\ k <= 8 * MessageBytes - 1
      BY <1>2
    <2>2. k % 8 = 7 - j /\ k \div 8 = i
      BY <2>1
    <2>3. BitAt(m, 8, k) <=> j \in m[i]
      BY <2>2 DEF BitAt
    <2>4. j \in Unpack(Pack(m))[i] <=> k < DataLen * SymSize /\ BitAt(Pack(m), SymSize, k)
      BY DEF Unpack
    <2> HIDE DEF k
    <2>5. k = SymSize * q + t /\ q \in Int /\ t \in 0 .. SymSize - 1
      <3>1. k \in Int /\ SymSize \in Nat \ {0}
        BY <1>1, <2>1
      <3> QED
        BY <3>1, Divide
    <2>6. ASSUME k < DataLen * SymSize
          PROVE  BitAt(Pack(m), SymSize, k) <=> BitAt(m, 8, k)
      <3> HIDE DEF q, t
      <3>1. q >= 0
        <4> SUFFICES ASSUME q <= -1 PROVE FALSE
          BY <2>5
        <4>1. SymSize * q <= -SymSize
          BY <1>1, <2>5
        <4> QED
          BY <1>1, <2>1, <2>5, <4>1
      <3>2. q <= DataLen - 1
        <4> SUFFICES ASSUME q >= DataLen PROVE FALSE
          BY <1>1, <2>5
        <4>1. SymSize * q >= DataLen * SymSize
          BY <1>1, <2>5, <3>1
        <4> QED
          BY <1>1, <2>1, <2>5, <2>6, <4>1
      <3>3. q \in 0 .. DataLen - 1 /\ SymSize - 1 - t \in Bits
        BY <1>1, <2>5, <3>1, <3>2
      <3>4. SymSize - 1 - t \in Pack(m)[q] <=>
            BitAt(m, 8, q * SymSize + SymSize - 1 - (SymSize - 1 - t))
        BY <3>3 DEF Pack
      <3>5. q * SymSize + SymSize - 1 - (SymSize - 1 - t) = k
        BY <1>1, <2>5
      <3>6. BitAt(Pack(m), SymSize, k) <=> SymSize - 1 - t \in Pack(m)[q]
        BY DEF BitAt, q, t
      <3> QED
        BY <3>4, <3>5, <3>6
    <2>7. ASSUME ~(k < DataLen * SymSize)
          PROVE  ~BitAt(m, 8, k)
      <3>1. k \in DataLen * SymSize .. 8 * MessageBytes - 1
        BY <1>1, <1>2, <2>1, <2>7
      <3> QED
        BY <1>3, <3>1
    <2> QED
      BY <2>3, <2>4, <2>6, <2>7
  <1>5. \A i \in 0 .. MessageBytes - 1 : Unpack(Pack(m))[i] = m[i]
    <2> SUFFICES ASSUME NEW i \in 0 .. MessageBytes - 1 PROVE Unpack(Pack(m))[i] = m[i]
      OBVIOUS
    <2>1. m[i] \in SUBSET (0 .. 7)
      BY <1>3
    <2>2. Unpack(Pack(m))[i] \in SUBSET (0 .. 7)
      BY DEF Unpack
    <2> QED
      BY <1>4, <2>1, <2>2
  <1>6. Unpack(Pack(m)) = [i \in 0 .. MessageBytes - 1 |-> Unpack(Pack(m))[i]]
    BY DEF Unpack
  <1>7. m = [i \in 0 .. MessageBytes - 1 |-> m[i]]
    BY <1>3
  <1> QED
    BY <1>5, <1>6, <1>7

(* Where a position of the message is in the code word, and back. *)
WordIndex(p) == IF p % 3 = 2 THEN DataLen + (p \div 3) ELSE 2 * (p \div 3) + (p % 3)
Place(j) == IF j < DataLen THEN 3 * (j \div 2) + (j % 2) ELSE 3 * (j - DataLen) + 2

LEMMA WordIndexType ==
  ASSUME NEW p \in Positions
  PROVE  WordIndex(p) \in 0 .. nn - 1 /\ Place(WordIndex(p)) = p
  <1> DEFINE q == p \div 3
             t == p % 3
  <1>1. nn = 3 * NRoots + 1 /\ DataLen = 2 * NRoots + 1 /\ NRoots \in Nat /\ p \in 0 .. nn - 1
    BY MoreSizes DEF Positions
  <1>2. p = 3 * q + t /\ q \in Nat /\ t \in 0 .. 2
    BY <1>1
  <1>3. CASE t = 2
    <2>1. WordIndex(p) = DataLen + q /\ q < NRoots
      BY <1>1, <1>2, <1>3 DEF WordIndex
    <2> HIDE DEF q, t
    <2> QED
      BY <1>1, <1>2, <1>3, <2>1 DEF Place
  <1>4. CASE t # 2
    <2>1. WordIndex(p) = 2 * q + t /\ t \in 0 .. 1
      BY <1>2, <1>4 DEF WordIndex
    <2> HIDE DEF q, t
    <2>2. 2 * q + t < DataLen
      BY <1>1, <1>2, <2>1
    <2>3. (2 * q + t) \div 2 = q /\ (2 * q + t) % 2 = t
      BY <1>2, <2>1
    <2> QED
      BY <1>1, <1>2, <2>1, <2>2, <2>3 DEF Place
  <1> QED
    BY <1>3, <1>4

LEMMA PlaceType ==
  ASSUME NEW j \in 0 .. nn - 1
  PROVE  Place(j) \in Positions /\ WordIndex(Place(j)) = j
  <1>1. nn = 3 * NRoots + 1 /\ DataLen = 2 * NRoots + 1 /\ NRoots \in Nat /\ j \in Nat
    BY MoreSizes
  <1>2. CASE j < DataLen
    <2> DEFINE q == j \div 2
               t == j % 2
    <2>1. j = 2 * q + t /\ q \in Nat /\ t \in 0 .. 1 /\ Place(j) = 3 * q + t
      BY <1>1, <1>2 DEF Place
    <2> HIDE DEF q, t
    <2>2. (3 * q + t) \div 3 = q /\ (3 * q + t) % 3 = t
      BY <2>1
    <2>3. 3 * q + t \in 0 .. nn - 1
      BY <1>1, <1>2, <2>1
    <2> QED
      BY <2>1, <2>2, <2>3 DEF WordIndex, Positions
  <1>3. CASE ~(j < DataLen)
    <2> DEFINE q == j - DataLen
    <2>1. j = DataLen + q /\ q \in 0 .. NRoots - 1 /\ Place(j) = 3 * q + 2
      BY <1>1, <1>3 DEF Place
    <2> HIDE DEF q
    <2>2. (3 * q + 2) \div 3 = q /\ (3 * q + 2) % 3 = 2
      BY <1>1, <2>1
    <2>3. 3 * q + 2 \in 0 .. nn - 1
      BY <1>1, <2>1
    <2> QED
      BY <2>1, <2>2, <2>3 DEF WordIndex, Positions
  <1> QED
    BY <1>2, <1>3

LEMMA InterleavedWord ==
  ASSUME NEW d, NEW par, NEW p \in Positions
  PROVE  Interleaved(d, par)[p] = WordOf(d, par)[WordIndex(p)]
  <1>1. nn = 3 * NRoots + 1 /\ DataLen = 2 * NRoots + 1 /\ NRoots \in Nat /\ p \in 0 .. nn - 1
    BY MoreSizes DEF Positions
  <1>2. WordIndex(p) \in 0 .. nn - 1
    BY WordIndexType
  <1>3. WordOf(d, par)[WordIndex(p)] = Word(d, par, WordIndex(p))
    BY <1>2 DEF WordOf
  <1> DEFINE q == p \div 3
             t == p % 3
  <1>4. p = 3 * q + t /\ q \in Nat /\ t \in 0 .. 2
    BY <1>1
  <1>5. CASE t = 2
    <2>1. WordIndex(p) = DataLen + q /\ Interleaved(d, par)[p] = par[q]
      BY <1>5 DEF WordIndex, Interleaved
    <2> HIDE DEF q, t
    <2> DEFINE j == DataLen + q
    <2>2. ~(j < DataLen) /\ j - DataLen = q
      BY <1>1, <1>4
    <2>3. WordIndex(p) = j
      BY <2>1
    <2> HIDE DEF j
    <2>4. Word(d, par, j) = par[q]
      BY <2>2 DEF Word
    <2> QED
      BY <1>3, <2>1, <2>3, <2>4
  <1>6. CASE t # 2
    <2>1. WordIndex(p) = 2 * q + t /\ Interleaved(d, par)[p] = d[2 * q + t] /\ t \in 0 .. 1
      BY <1>4, <1>6 DEF WordIndex, Interleaved
    <2> HIDE DEF q, t
    <2>2. 2 * q + t < DataLen
      BY <1>1, <1>4, <2>1
    <2> QED
      BY <1>3, <2>1, <2>2 DEF Word
  <1> QED
    BY <1>5, <1>6

(* ncrs_decode takes a received message apart the way it was put together. *)
LEMMA PartsInterleaved ==
  ASSUME NEW word \in Received
  PROVE  Interleaved(DataOf(word), ParityOf(word)) = word
  <1>1. ASSUME NEW p \in Positions
        PROVE  Interleaved(DataOf(word), ParityOf(word))[p] = word[p]
    <2>1. nn = 3 * NRoots + 1 /\ DataLen = 2 * NRoots + 1 /\ NRoots \in Nat /\ p \in 0 .. nn - 1
      BY MoreSizes DEF Positions
    <2> DEFINE q == p \div 3
               t == p % 3
    <2>2. p = 3 * q + t /\ q \in Nat /\ t \in 0 .. 2
      BY <2>1
    <2>3. CASE t = 2
      <3>1. Interleaved(DataOf(word), ParityOf(word))[p] = ParityOf(word)[q]
        BY <2>3 DEF Interleaved
      <3> HIDE DEF q, t
      <3>2. q \in 0 .. NRoots - 1
        BY <2>1, <2>2, <2>3
      <3> QED
        BY <2>2, <2>3, <3>1, <3>2 DEF ParityOf
    <2>4. CASE t # 2
      <3>1. Interleaved(DataOf(word), ParityOf(word))[p] = DataOf(word)[2 * q + t] /\ t \in 0 .. 1
        BY <2>2, <2>4 DEF Interleaved
      <3> HIDE DEF q, t
      <3>2. 2 * q + t \in 0 .. DataLen - 1
        BY <2>1, <2>2, <3>1
      <3>3. (2 * q + t) \div 2 = q /\ (2 * q + t) % 2 = t
        BY <2>2, <3>1
      <3> QED
        BY <2>2, <3>1, <3>2, <3>3 DEF DataOf
    <2> QED
      BY <2>3, <2>4
  <1>2. Interleaved(DataOf(word), ParityOf(word)) =
        [p \in Positions |-> Interleaved(DataOf(word), ParityOf(word))[p]]
    BY DEF Interleaved
  <1>3. word = [p \in Positions |-> word[p]]
    BY DEF Received
  <1> QED
    BY <1>1, <1>2, <1>3

(* Messages differ in as many positions as their words. *)
LEMMA DifferencesOfWords ==
  ASSUME NEW u \in Words, NEW v \in Words, NEW w, NEW x,
         \A p \in Positions : w[p] = u[WordIndex(p)] /\ x[p] = v[WordIndex(p)]
  PROVE  Differences(w, x) = Cardinality({j \in 0 .. nn - 1 : u[j] # v[j]})
  <1> DEFINE S == {j \in 0 .. nn - 1 : u[j] # v[j]}
             R == {p \in Positions : w[p] # x[p]}
             f == [j \in S |-> Place(j)]
  <1>1. f \in [S -> R]
    <2> SUFFICES ASSUME NEW j \in S PROVE Place(j) \in R
      OBVIOUS
    <2>1. Place(j) \in Positions /\ WordIndex(Place(j)) = j
      BY PlaceType
    <2> QED
      BY <2>1
  <1>2. IsInjective(f)
    <2> SUFFICES ASSUME NEW j \in S, NEW k \in S, Place(j) = Place(k) PROVE j = k
      BY DEF IsInjective
    <2>1. WordIndex(Place(j)) = j /\ WordIndex(Place(k)) = k
      BY PlaceType
    <2> QED
      BY <2>1
  <1>3. \A p \in R : \E j \in S : f[j] = p
    <2> SUFFICES ASSUME NEW p \in R PROVE \E j \in S : f[j] = p
      OBVIOUS
    <2>1. WordIndex(p) \in 0 .. nn - 1 /\ Place(WordIndex(p)) = p
      BY WordIndexType
    <2>2. WordIndex(p) \in S
      BY <2>1
    <2> QED
      BY <2>1, <2>2
  <1>4. IsFiniteSet(S) /\ S \in SUBSET (0 .. nn - 1)
    <2>1. S \in SUBSET (0 .. nn - 1)
      OBVIOUS
    <2> QED
      BY <2>1, SomePositions
  <1> HIDE DEF S, R, f
  <1>5. ExistsBijection(S, R)
    BY <1>1, <1>2, <1>3 DEF ExistsBijection, Bijection, Injection, Surjection
  <1>6. Cardinality(R) = Cardinality(S)
    BY <1>4, <1>5, FS_Bijection
  <1> QED
    BY <1>6 DEF Differences, S, R

(* What is wrong with a word as a transmission of m. *)
ErrorWord(word, m) ==
  Sum(WordOf(DataOf(word), ParityOf(word)), WordOf(Pack(m), encode_rs8(Pack(m))))
WrongIndexes(word, m) == {j \in 0 .. nn - 1 : ErrorWord(word, m)[j] # {}}

LEMMA ErrorWordType ==
  ASSUME NEW word \in Received, NEW m
  PROVE  /\ ErrorWord(word, m) \in Words
         /\ WrongIndexes(word, m) \in SUBSET (0 .. nn - 1)
         /\ ErrorsOf(Scaled(ErrorWord(word, m)), WrongIndexes(word, m),
                     Syndromes(DataOf(word), ParityOf(word)))
         /\ \A j \in WrongIndexes(word, m) : Scaled(ErrorWord(word, m))[j] # {}
         /\ Cardinality(WrongIndexes(word, m)) = Differences(ncrs_encode(m), word)
         /\ \A k \in 0 .. DataLen - 1 :
              /\ k \in 0 .. nn - 1
              /\ ErrorWord(word, m)[k] = Plus(DataOf(word)[k], Pack(m)[k])
  <1> DEFINE d == DataOf(word)
             par == ParityOf(word)
             c == Pack(m)
             cp == encode_rs8(Pack(m))
             u == WordOf(d, par)
             v == WordOf(c, cp)
             E == Sum(u, v)
             S == WrongIndexes(word, m)
             A == Scaled(E)
             q == Syndromes(d, par)
  <1>1. /\ nn \in Nat /\ NRoots \in Nat /\ NRoots < nn /\ DataLen \in Nat /\ nn = DataLen + NRoots
        /\ \A n \in 0 .. NRoots - 1 : n \in Nat
    BY MoreSizes, ReedSolomonAssumption
  <1>2. d \in DataLists /\ par \in SyndromeLists
    BY PartsType
  <1>3. c \in DataLists /\ cp \in SyndromeLists
    BY PackType, EncodeType
  <1>4. E = ErrorWord(word, m)
    BY DEF ErrorWord
  <1>5. \A n \in 0 .. NRoots - 1 : Syndromes(c, cp)[n] = {}
    BY <1>3, EncodedIsCodeword
  <1>6. \A n \in 0 .. NRoots - 1 : q[n] = Moment(Scaled(u), n) /\ Syndromes(c, cp)[n] = Moment(Scaled(v), n)
    BY <1>2, <1>3, SyndromeMoment
  <1>7. \A j \in 0 .. nn - 1 : u[j] = Word(d, par, j) /\ v[j] = Word(c, cp, j)
    BY DEF WordOf
  <1>8. \A k \in 0 .. DataLen - 1 : k \in 0 .. nn - 1 /\ u[k] = d[k] /\ v[k] = c[k]
    BY <1>1, <1>7 DEF Word
  <1>9. u \in Words /\ v \in Words
    BY <1>2, <1>3, WordType
  <1>10. S = {j \in 0 .. nn - 1 : E[j] # {}}
    BY <1>4 DEF WrongIndexes
  <1>11. ncrs_encode(m) = Interleaved(c, cp) /\ word = Interleaved(d, par)
    BY PartsInterleaved DEF ncrs_encode
  <1>12. \A p \in Positions : ncrs_encode(m)[p] = v[WordIndex(p)] /\ word[p] = u[WordIndex(p)]
    BY <1>11, InterleavedWord
  <1> HIDE DEF u, v, S, q, c, cp, d, par
  <1>13. E \in Words /\ \A j \in 0 .. nn - 1 : E[j] = Plus(u[j], v[j])
    BY <1>1, <1>9, SumMoment
  <1>14. \A n \in 0 .. NRoots - 1 : q[n] = Moment(A, n)
    <2> SUFFICES ASSUME NEW n \in 0 .. NRoots - 1 PROVE q[n] = Moment(A, n)
      OBVIOUS
    <2>1. Moment(A, n) = Plus(Moment(Scaled(u), n), Moment(Scaled(v), n))
      BY <1>1, <1>9, SumMoment
    <2>2. Moment(Scaled(v), n) = {} /\ Moment(Scaled(u), n) = q[n]
      BY <1>5, <1>6
    <2> QED
      BY <2>1, <2>2, PlusRules
  <1> HIDE DEF E
  <1>15. /\ A \in Series /\ A[nn] = {}
         /\ \A j \in 0 .. nn - 1 : A[j] = {} <=> E[j] = {}
    BY <1>13, ScaledType
  <1>16. \A j \in 0 .. nn : j \notin S => A[j] = {}
    <2> SUFFICES ASSUME NEW j \in 0 .. nn, j \notin S PROVE A[j] = {}
      OBVIOUS
    <2>1. j = nn \/ j \in 0 .. nn - 1
      BY <1>1
    <2> QED
      BY <1>10, <1>15, <2>1
  <1>17. S \in SUBSET (0 .. nn - 1) /\ \A j \in S : A[j] # {}
    BY <1>10, <1>15
  <1>18. ErrorsOf(A, S, q)
    BY <1>14, <1>15, <1>16, <1>17 DEF ErrorsOf
  <1>19. Cardinality(S) = Differences(ncrs_encode(m), word)
    <2>1. \A j \in 0 .. nn - 1 : E[j] = {} <=> v[j] = u[j]
      BY <1>13, PlusZero
    <2>2. S = {j \in 0 .. nn - 1 : v[j] # u[j]}
      BY <1>10, <2>1
    <2>3. Differences(ncrs_encode(m), word) = Cardinality({j \in 0 .. nn - 1 : v[j] # u[j]})
      BY <1>9, <1>12, DifferencesOfWords
    <2> QED
      BY <2>2, <2>3
  <1> QED
    BY <1>4, <1>8, <1>13, <1>17, <1>18, <1>19 DEF S, q, d, par, c

(* A word without syndromes that is close to a message is that message. *)
LEMMA CleanWord ==
  ASSUME NEW word \in Received, NEW m, 2 * Differences(ncrs_encode(m), word) <= NRoots,
         \A n \in 0 .. NRoots - 1 : Syndromes(DataOf(word), ParityOf(word))[n] = {}
  PROVE  DataOf(word) = Pack(m) /\ Differences(ncrs_encode(m), word) = 0
  <1> DEFINE E == ErrorWord(word, m)
             S == WrongIndexes(word, m)
             A == Scaled(E)
             q == Syndromes(DataOf(word), ParityOf(word))
             t == Cardinality(S)
  <1>1. nn \in Nat /\ NRoots \in Nat /\ NRoots < nn
    BY Sizes, ReedSolomonAssumption
  <1>2. /\ E \in Words /\ S \in SUBSET (0 .. nn - 1) /\ ErrorsOf(A, S, q) /\ \A j \in S : A[j] # {}
        /\ t = Differences(ncrs_encode(m), word)
        /\ \A k \in 0 .. DataLen - 1 : k \in 0 .. nn - 1 /\ E[k] = Plus(DataOf(word)[k], Pack(m)[k])
    BY ErrorWordType
  <1>3. t \in Nat /\ IsFiniteSet(S)
    BY <1>2, SomePositions
  <1>4. t <= NRoots
    BY <1>1, <1>2, <1>3
  <1>5. /\ A \in Series /\ \A j \in 0 .. nn : j \notin S => A[j] = {}
        /\ \A n \in 0 .. NRoots - 1 : Moment(A, n) = {}
    BY <1>2 DEF ErrorsOf
  <1>6. \A n \in 0 .. 0 + Cardinality(S) - 1 : Moment(A, n) = {}
    BY <1>1, <1>3, <1>4, <1>5
  <1> HIDE DEF A, E, q
  <1>7. \A j \in 0 .. nn : A[j] = {}
    <2>1. 0 \in Nat /\ 0 + Cardinality(S) <= nn
      BY <1>1, <1>3, <1>4
    <2> HIDE DEF S, t
    <2> QED
      BY <1>2, <1>5, <1>6, <2>1, FewMoments
  <1>8. S = {}
    BY <1>1, <1>2, <1>7
  <1>9. t = 0
    BY <1>8, FS_EmptySet
  <1>10. \A k \in 0 .. DataLen - 1 : DataOf(word)[k] = Pack(m)[k]
    <2>1. \A k \in 0 .. nn - 1 : E[k] = {}
      BY <1>8 DEF WrongIndexes, E
    <2> QED
      BY <1>2, <2>1, PlusZero
  <1>11. DataOf(word) = Pack(m)
    <2>1. DataOf(word) \in DataLists /\ Pack(m) \in DataLists
      BY PartsType, PackType
    <2>2. /\ DataOf(word) = [k \in 0 .. DataLen - 1 |-> DataOf(word)[k]]
          /\ Pack(m) = [k \in 0 .. DataLen - 1 |-> Pack(m)[k]]
      BY <2>1 DEF DataLists
    <2> QED
      BY <1>10, <2>2
  <1> QED
    BY <1>2, <1>9, <1>11

(* The roots that the decoder finds, and their positions. *)
LEMMA RootAtPosition ==
  ASSUME NEW S \in SUBSET (0 .. nn - 1), Roots = RootsOf(S), NEW k \in 0 .. nn - 1
  PROVE  /\ (\E root \in Roots : Location(root) = k) <=> k \in S
         /\ k \in S => (CHOOSE root \in Roots : Location(root) = k) = Inv(k)
  <1>1. \A j \in S : Inv(j) \in RootsOf(S) /\ Location(Inv(j)) = j
    BY RootsOfType
  <1>2. \A root \in Roots : \E j \in S : root = Inv(j)
    BY DEF RootsOf
  <1>3. \A root \in Roots : Location(root) = k => k \in S /\ root = Inv(k)
    BY <1>1, <1>2
  <1>4. k \in S => Inv(k) \in Roots /\ Location(Inv(k)) = k
    BY <1>1
  <1> QED
    BY <1>3, <1>4

(* decode_rs.h:205-274: a word that is close enough to a message is        *)
(* corrected to that message, and the number of corrections is its         *)
(* distance from it.                                                       *)
LEMMA CloseWordCorrected ==
  ASSUME NEW word \in Received, NEW m, 2 * Differences(ncrs_encode(m), word) <= NRoots,
         data = DataOf(word), s = Syndromes(DataOf(word), ParityOf(word)),
         IsLocator(s, lambda, b, el, r), Shortest(s, el, r), Correct
  PROVE  data' = Pack(m) /\ corrections' = Differences(ncrs_encode(m), word)
  <1> DEFINE E == ErrorWord(word, m)
             S == WrongIndexes(word, m)
             A == Scaled(E)
             t == Cardinality(S)
  <1>1. /\ nn \in Nat /\ NRoots \in Nat /\ NRoots < nn /\ DataLen \in Nat /\ FCR \in Nat
    BY Sizes, MoreSizes, ReedSolomonAssumption
  <1>2. /\ E \in Words /\ S \in SUBSET (0 .. nn - 1) /\ ErrorsOf(A, S, s) /\ \A j \in S : A[j] # {}
        /\ t = Differences(ncrs_encode(m), word)
        /\ \A k \in 0 .. DataLen - 1 : k \in 0 .. nn - 1 /\ E[k] = Plus(DataOf(word)[k], Pack(m)[k])
    BY ErrorWordType
  <1>3. t \in Nat /\ r = NRoots
    BY <1>2, SomePositions DEF Correct
  <1>4. s \in SyndromeLists /\ DataOf(word) \in DataLists
    BY PartsType, PartsAreWord, SyndromesType
  <1>5. lambda \in Polynomials /\ deg_lambda \in 0 .. NRoots
    BY DegreeAtMostLength DEF IsLocator
  <1> HIDE DEF S, A, E
  <1>6. Roots = RootsOf(S) /\ Cardinality(Roots) = t /\ deg_lambda = t
    <2>1. Shortest(s, el, NRoots) /\ 2 * Cardinality(S) <= NRoots
      BY <1>2, <1>3
    <2> QED
      BY <1>2, <1>3, <1>4, <2>1, RootsAreErrors
  <1>7. Splits(AsSeries(lambda), S)
    <2>1. /\ Roots = {i \in 1 .. nn : Value(AsSeries(lambda), i) = {}}
          /\ AsSeries(lambda) \in Series /\ AsSeries(lambda)[0] = {0}
          /\ Degree(AsSeries(lambda), deg_lambda)
      BY ChienSearch
    <2>2. \A j \in S : Inv(j) \in Roots
      BY <1>6 DEF RootsOf
    <2>3. \A j \in S : Value(AsSeries(lambda), Inv(j)) = {}
      BY <2>1, <2>2
    <2>4. t <= NRoots
      BY <1>1, <1>5, <1>6
    <2> QED
      BY <1>2, <1>6, <2>1, <2>3, <2>4 DEF Splits
  <1>8. \A k \in S : ErrorValue(Inv(k)) = E[k]
    <2> SUFFICES ASSUME NEW k \in S PROVE ErrorValue(Inv(k)) = E[k]
      OBVIOUS
    <2> DEFINE x == ErrorValue(Inv(k))
               Y == Exp(Loc(k) * FCR)
    <2>1. x \in Symbols /\ Mul(x, Y) = A[k]
      BY <1>2, <1>4, <1>5, <1>6, <1>7, ErrorValues
    <2>2. k \in 0 .. nn - 1
      BY <1>2
    <2>3. E[k] \in Symbols /\ Y \in Symbols /\ Y # {} /\ A[k] = Mul(E[k], Y)
      BY <1>2, <2>2, ScaledType DEF A
    <2> HIDE DEF x, Y
    <2>4. Mul(Y, x) = Mul(Y, E[k])
      <3>1. Mul(x, Y) = Mul(Y, x)
        BY <2>1, <2>3, MulCommutes
      <3>2. Mul(E[k], Y) = Mul(Y, E[k])
        BY <2>3, MulCommutes
      <3> QED
        BY <2>1, <2>3, <3>1, <3>2
    <2>5. x = E[k]
      <3> DEFINE z == E[k]
      <3>1. z \in Symbols /\ Mul(Y, x) = Mul(Y, z)
        BY <2>3, <2>4
      <3> HIDE DEF z
      <3>2. x = z
        BY <2>1, <2>3, <3>1, MulCancel
      <3> QED
        BY <3>2 DEF z
    <2> QED
      BY <2>5 DEF x
  <1>9. DOMAIN data = 0 .. DataLen - 1 /\ \A k \in 0 .. DataLen - 1 : data[k] \in Symbols
    BY <1>4 DEF DataLists
  <1>10. /\ corrections' = t
         /\ data' = [k \in 0 .. DataLen - 1 |->
              IF \E root \in Roots : Location(root) = k
                THEN Plus(data[k], ErrorValue(CHOOSE root \in Roots : Location(root) = k))
                ELSE data[k]]
    BY <1>6, <1>9 DEF Correct
  <1>11. \A k \in 0 .. DataLen - 1 : data'[k] = Pack(m)[k]
    <2> SUFFICES ASSUME NEW k \in 0 .. DataLen - 1 PROVE data'[k] = Pack(m)[k]
      OBVIOUS
    <2> DEFINE root0 == CHOOSE root \in Roots : Location(root) = k
    <2>1. k \in 0 .. nn - 1 /\ E[k] = Plus(data[k], Pack(m)[k])
      BY <1>2
    <2>2. (\E root \in Roots : Location(root) = k) <=> k \in S
      BY <1>2, <1>6, <2>1, RootAtPosition
    <2>3. k \in S => root0 = Inv(k)
      BY <1>2, <1>6, <2>1, RootAtPosition
    <2>4. data'[k] = IF k \in S THEN Plus(data[k], ErrorValue(root0)) ELSE data[k]
      BY <1>10, <2>2
    <2> HIDE DEF root0
    <2>5. CASE k \in S
      <3>1. data'[k] = Plus(data[k], E[k])
        BY <1>8, <2>3, <2>4, <2>5
      <3> QED
        BY <2>1, <3>1, PlusTwice
    <2>6. CASE k \notin S
      <3>1. E[k] = {}
        BY <2>1, <2>6 DEF S, WrongIndexes, E
      <3> QED
        BY <2>1, <2>4, <2>6, <3>1, PlusZero
    <2> QED
      BY <2>5, <2>6
  <1>12. data' = Pack(m)
    <2>1. Pack(m) = [k \in 0 .. DataLen - 1 |-> Pack(m)[k]]
      BY PackType DEF DataLists
    <2>2. data' = [k \in 0 .. DataLen - 1 |-> data'[k]]
      BY <1>10
    <2> QED
      BY <1>11, <2>1, <2>2
  <1> QED
    BY <1>2, <1>10, <1>12

-----------------------------------------------------------------------------
(* ncrs_decode *)

(* The message as the attempt takes it. *)
Attempt == Moved(encoded_message, shift_attempt)

Decided == data # <<>> /\ corrections # Undecided

RecoverInv ==
  /\ ShortestInv
  /\ message \in Messages
  /\ shift_attempt \in 0 .. 2 * MaxShiftDistance
  /\ corrections \in Nat \cup {Undecided, -EBADMSG}
  /\ data # <<>> => s = Syndromes(DataOf(Attempt), ParityOf(Attempt))
  /\ corrections = Undecided => data = DataOf(Attempt) /\ parity = ParityOf(Attempt)
  /\ Decided /\ Repairable(Offset(shift_attempt)) =>
       data = Pack(message) /\ corrections = Wrong(Offset(shift_attempt))
  /\ \A attempt \in 0 .. shift_attempt - 1 : ~Repairable(Offset(attempt))
  /\ rc # Running =>
       /\ Decided
       /\ \/ /\ rc = 0 /\ \A attempt \in 0 .. 2 * MaxShiftDistance : ~Repairable(Offset(attempt))
          \/ /\ corrections \in Nat /\ rc = 1 + shift_attempt + corrections * 10
             /\ decoded = Unpack(data)

LEMMA WrongIsDistance ==
  ASSUME NEW attempt
  PROVE  Wrong(Offset(attempt)) = Differences(ncrs_encode(message), Moved(encoded_message, attempt))
  BY DEF Wrong, Moved

LEMMA RepairableIsClose ==
  ASSUME NEW attempt
  PROVE  Repairable(Offset(attempt)) <=>
         2 * Differences(ncrs_encode(message), Moved(encoded_message, attempt)) <= NRoots
  BY WrongIsDistance DEF Repairable

(* An attempt at a repairable message is decided rightly at once or later. *)
LEMMA TryShiftRecovers ==
  ASSUME LocatorInv, message \in Messages, NEW attempt \in 0 .. 2 * MaxShiftDistance, TryShift(attempt),
         \A before \in 0 .. attempt - 1 : ~Repairable(Offset(before)), rc = Running
  PROVE  RecoverInv'
  <1> DEFINE word == Moved(encoded_message, attempt)
             q == Syndromes(DataOf(word), ParityOf(word))
  <1>1. word \in Received
    BY MovedType DEF LocatorInv
  <1>2. /\ shift_attempt' = attempt /\ message' = message /\ encoded_message' = encoded_message
        /\ rc' = rc /\ data' = DataOf(word) /\ parity' = ParityOf(word) /\ s' = q
        /\ corrections' = IF \A i \in DOMAIN s' : s'[i] = {} THEN 0 ELSE Undecided
    BY DEF TryShift, Deinterleaved, decode_rs8, DataOf, ParityOf
  <1>3. ShortestInv'
    BY TryShiftLocatorInv, TryShiftShortest DEF ShortestInv
  <1>4. Attempt' = word
    BY <1>2 DEF Attempt, Moved, At, Offset
  <1>5. DOMAIN q = 0 .. NRoots - 1
    BY DEF Syndromes
  <1>6. Wrong(Offset(attempt))' = Wrong(Offset(attempt))
    BY <1>2 DEF Wrong
  <1>7. \A n : Repairable(Offset(n))' <=> Repairable(Offset(n))
    BY <1>2 DEF Repairable, Wrong
  <1>8. ASSUME Decided', Repairable(Offset(attempt))
        PROVE  data' = Pack(message) /\ corrections' = Wrong(Offset(attempt))
    <2>1. corrections' = 0 /\ \A n \in 0 .. NRoots - 1 : q[n] = {}
      BY <1>2, <1>5, <1>8 DEF Decided
    <2>2. 2 * Differences(ncrs_encode(message), word) <= NRoots
      BY <1>8, RepairableIsClose
    <2>3. DataOf(word) = Pack(message) /\ Differences(ncrs_encode(message), word) = 0
      BY <1>1, <2>1, <2>2, CleanWord
    <2> QED
      BY <1>2, <2>1, <2>3, WrongIsDistance
  <1>9. corrections' \in Nat \cup {Undecided, -EBADMSG}
    BY <1>2
  <1>10. (Decided /\ Repairable(Offset(shift_attempt)) =>
            data = Pack(message) /\ corrections = Wrong(Offset(shift_attempt)))'
    <2>1. Repairable(Offset(shift_attempt))' <=> Repairable(Offset(attempt))
      BY <1>2 DEF Repairable, Wrong, Offset
    <2>2. Wrong(Offset(shift_attempt))' = Wrong(Offset(attempt))
      BY <1>2 DEF Wrong, Offset
    <2> QED
      BY <1>2, <1>8, <2>1, <2>2
  <1>11. (\A before \in 0 .. shift_attempt - 1 : ~Repairable(Offset(before)))'
    BY <1>2, <1>7
  <1> HIDE DEF word, q
  <1> QED
    BY <1>2, <1>3, <1>4, <1>9, <1>10, <1>11 DEF RecoverInv, q, Running

LEMMA InitRecoverInv == Init => RecoverInv
  <1> SUFFICES ASSUME Init PROVE RecoverInv
    OBVIOUS
  <1>1. ShortestInv
    BY InitLocatorInv DEF ShortestInv, Init
  <1>2. \A attempt \in 0 .. shift_attempt - 1 : FALSE
    BY DEF Init
  <1>3. shift_attempt \in 0 .. 2 * MaxShiftDistance
    BY NcrsAssumption DEF Init
  <1> QED
    BY <1>1, <1>2, <1>3 DEF Init, RecoverInv, Decided, Running, Undecided, EBADMSG

(* The invariant says nothing else of the decoder than this. *)
LEMMA RecoverInvSame ==
  ASSUME RecoverInv, UNCHANGED <<decodeVars, message, encoded_message, shift_attempt, rc, decoded>>
  PROVE  RecoverInv'
  <1>1. ShortestInv'
    BY DEF RecoverInv, ShortestInv, LocatorInv, decodeVars, Shortest
  <1>2. Attempt' = Attempt
    BY DEF Attempt, Moved, At, Offset
  <1> QED
    BY <1>1, <1>2 DEF RecoverInv, decodeVars, Decided, Repairable, Wrong, Offset

LEMMA BerlekampMasseyRecovers ==
  ASSUME RecoverInv, Decode, BerlekampMassey
  PROVE  RecoverInv'
  <1>1. ShortestInv'
    BY NextShortestInv DEF RecoverInv, Next
  <1>2. Attempt' = Attempt
    BY DEF Decode, Attempt, Moved, At, Offset
  <1>3. corrections = Undecided /\ corrections' = corrections /\ rc = Running
    BY DEF Decode, BerlekampMassey
  <1>4. data # <<>>
    BY <1>3 DEF RecoverInv, ShortestInv, LocatorInv, Undecided, EBADMSG
  <1> QED
    BY <1>1, <1>2, <1>3, <1>4 DEF RecoverInv, Decode, BerlekampMassey, Decided, Repairable, Wrong, Offset

LEMMA CorrectRecovers ==
  ASSUME RecoverInv, Decode, Correct
  PROVE  RecoverInv'
  <1>1. ShortestInv'
    BY NextShortestInv DEF RecoverInv, Next
  <1>2. Attempt' = Attempt
    BY DEF Decode, Attempt, Moved, At, Offset
  <1>3. corrections = Undecided /\ rc = Running /\ rc' = rc
        /\ s' = s /\ message' = message /\ encoded_message' = encoded_message
        /\ shift_attempt' = shift_attempt
    BY DEF Decode, Correct
  <1>4. data # <<>>
    BY <1>3 DEF RecoverInv, ShortestInv, LocatorInv, Undecided, EBADMSG
  <1>5. /\ s = Syndromes(DataOf(Attempt), ParityOf(Attempt)) /\ data = DataOf(Attempt)
        /\ IsLocator(s, lambda, b, el, r) /\ Shortest(s, el, r) /\ encoded_message \in Received
    BY <1>3, <1>4 DEF RecoverInv, ShortestInv, LocatorInv
  <1>6. Attempt \in Received
    BY <1>5, MovedType DEF Attempt
  <1>7. ASSUME Repairable(Offset(shift_attempt))
        PROVE  data' = Pack(message) /\ corrections' = Wrong(Offset(shift_attempt))
    <2>1. 2 * Differences(ncrs_encode(message), Attempt) <= NRoots
      BY <1>7, RepairableIsClose DEF Attempt
    <2>2. data' = Pack(message) /\ corrections' = Differences(ncrs_encode(message), Attempt)
      BY <1>5, <1>6, <2>1, CloseWordCorrected
    <2> QED
      BY <2>2, WrongIsDistance DEF Attempt
  <1>8. corrections' \in Nat \cup {-EBADMSG} /\ corrections' # Undecided
    <2>1. Cardinality(Roots) \in Nat
      BY <1>5, ChienSearch
    <2> QED
      BY <2>1 DEF Correct, Undecided, EBADMSG
  <1>9. \A n : Repairable(Offset(n))' <=> Repairable(Offset(n))
    BY <1>3 DEF Repairable, Wrong
  <1>10. (Decided /\ Repairable(Offset(shift_attempt)) =>
            data = Pack(message) /\ corrections = Wrong(Offset(shift_attempt)))'
    <2>1. Repairable(Offset(shift_attempt))' <=> Repairable(Offset(shift_attempt))
      BY <1>3 DEF Repairable, Wrong, Offset
    <2>2. Wrong(Offset(shift_attempt))' = Wrong(Offset(shift_attempt))
      BY <1>3 DEF Wrong, Offset
    <2> QED
      BY <1>3, <1>7, <2>1, <2>2
  <1>11. (\A before \in 0 .. shift_attempt - 1 : ~Repairable(Offset(before)))'
    BY <1>3, <1>9 DEF RecoverInv
  <1> QED
    BY <1>1, <1>2, <1>3, <1>5, <1>8, <1>10, <1>11 DEF RecoverInv

LEMMA NextRecoverInv == RecoverInv /\ [Next]_vars => RecoverInv'
  <1> SUFFICES ASSUME RecoverInv, [Next]_vars PROVE RecoverInv'
    OBVIOUS
  <1>1. LocatorInv /\ ShortestInv' /\ MaxShiftDistance \in Nat
    BY NextShortestInv, NcrsAssumption DEF RecoverInv, ShortestInv
  <1>2. CASE Begin
    <2>1. \A before \in 0 .. 0 - 1 : FALSE
      OBVIOUS
    <2>2. 0 \in 0 .. 2 * MaxShiftDistance
      BY <1>1
    <2> QED
      BY <1>1, <1>2, <2>1, <2>2, TryShiftRecovers DEF Begin, RecoverInv
  <1>3. CASE Decode
    BY <1>3, BerlekampMasseyRecovers, CorrectRecovers DEF Decode
  <1>4. CASE NextShift
    <2>1. shift_attempt + 1 \in 0 .. 2 * MaxShiftDistance /\ shift_attempt \in Nat
      BY <1>1, <1>4 DEF NextShift, RecoverInv
    <2>2. ~Repairable(Offset(shift_attempt))
      <3>1. corrections < 0 /\ Decided
        BY <1>4 DEF NextShift, Decided
      <3> SUFFICES ASSUME Repairable(Offset(shift_attempt)) PROVE FALSE
        OBVIOUS
      <3>2. corrections = Differences(ncrs_encode(message), Attempt)
        BY <3>1, WrongIsDistance DEF RecoverInv, Attempt
      <3>3. Attempt \in Received
        BY <1>1, MovedType DEF LocatorInv, Attempt
      <3>4. Differences(ncrs_encode(message), Attempt) \in Nat
        BY <3>3, ErrorWordType, SomePositions
      <3> QED
        BY <3>1, <3>2, <3>4
    <2>3. \A before \in 0 .. shift_attempt + 1 - 1 : ~Repairable(Offset(before))
      <3>1. \A before \in 0 .. shift_attempt + 1 - 1 :
              before \in 0 .. shift_attempt - 1 \/ before = shift_attempt
        BY <2>1
      <3> QED
        BY <2>2, <3>1 DEF RecoverInv
    <2> DEFINE attempt == shift_attempt + 1
    <2>4. /\ attempt \in 0 .. 2 * MaxShiftDistance /\ TryShift(attempt) /\ rc = Running
          /\ \A before \in 0 .. attempt - 1 : ~Repairable(Offset(before))
      BY <1>4, <2>1, <2>3 DEF NextShift
    <2> HIDE DEF attempt
    <2> QED
      BY <1>1, <2>4, TryShiftRecovers DEF RecoverInv
  <1>5. CASE GiveUp
    <2>1. /\ rc' = 0 /\ Decided' /\ corrections < 0 /\ Decided /\ shift_attempt = 2 * MaxShiftDistance
          /\ UNCHANGED <<decodeVars, message, encoded_message, shift_attempt, decoded>>
      BY <1>5 DEF GiveUp, Decided, decodeVars
    <2>2. ~Repairable(Offset(shift_attempt))
      <3> SUFFICES ASSUME Repairable(Offset(shift_attempt)) PROVE FALSE
        OBVIOUS
      <3>1. corrections = Differences(ncrs_encode(message), Attempt)
        BY <2>1, WrongIsDistance DEF RecoverInv, Attempt
      <3>2. Attempt \in Received
        BY <1>1, MovedType DEF LocatorInv, Attempt
      <3>3. Differences(ncrs_encode(message), Attempt) \in Nat
        BY <3>2, ErrorWordType, SomePositions
      <3> QED
        BY <2>1, <3>1, <3>3
    <2>3. \A attempt \in 0 .. 2 * MaxShiftDistance : ~Repairable(Offset(attempt))
      <3>1. \A attempt \in 0 .. 2 * MaxShiftDistance :
              attempt \in 0 .. shift_attempt - 1 \/ attempt = shift_attempt
        BY <1>1, <2>1
      <3> QED
        BY <2>2, <3>1 DEF RecoverInv
    <2>4. Attempt' = Attempt
      BY <2>1 DEF Attempt, Moved, At, Offset
    <2>5. \A n : Repairable(Offset(n))' <=> Repairable(Offset(n))
      BY <2>1 DEF Repairable, Wrong
    <2>6. Wrong(Offset(shift_attempt))' = Wrong(Offset(shift_attempt))
          /\ (Repairable(Offset(shift_attempt))' <=> Repairable(Offset(shift_attempt)))
      BY <2>1 DEF Wrong, Offset, Repairable
    <2> QED
      BY <1>1, <2>1, <2>3, <2>4, <2>5, <2>6 DEF RecoverInv, decodeVars, Decided
  <1>6. CASE Success
    <2>1. /\ rc' = 1 + shift_attempt + corrections * 10 /\ decoded' = Unpack(data) /\ corrections >= 0
          /\ UNCHANGED <<decodeVars, message, encoded_message, shift_attempt>>
      BY <1>6 DEF Success
    <2>2. corrections \in Nat /\ corrections # Undecided /\ data # <<>>
      BY <1>1, <2>1 DEF RecoverInv, LocatorInv, Undecided, EBADMSG
    <2>3. Attempt' = Attempt
      BY <2>1 DEF Attempt, Moved, At, Offset
    <2>4. \A n : Repairable(Offset(n))' <=> Repairable(Offset(n))
      BY <2>1 DEF Repairable, Wrong
    <2>5. Wrong(Offset(shift_attempt))' = Wrong(Offset(shift_attempt))
          /\ (Repairable(Offset(shift_attempt))' <=> Repairable(Offset(shift_attempt)))
      BY <2>1 DEF Wrong, Offset, Repairable
    <2> QED
      BY <1>1, <2>1, <2>2, <2>3, <2>4, <2>5 DEF RecoverInv, decodeVars, Decided
  <1>7. CASE UNCHANGED vars
    BY <1>7, RecoverInvSame DEF vars
  <1> QED
    BY <1>2, <1>3, <1>4, <1>5, <1>6, <1>7 DEF Next

(* ncrs_decode recovers a message to the last bit, with the right count of *)
(* errors, if any of the shifts it tries leaves no more symbols lost or    *)
(* wrong than half the parity -- unless a shift tried earlier comes near   *)
(* to another message: for every field, message and fault.                 *)
THEOREM DecoderRecovers == Spec => []RecoversWithinCapacity
  <1>1. RecoverInv => RecoversWithinCapacity
    <2> SUFFICES ASSUME RecoverInv, rc # Running,
                        NEW d \in -MaxShiftDistance .. MaxShiftDistance - 1, Repairable(d)
                 PROVE  /\ rc > 0
                        /\ Repairable(Offset(shift_attempt)) =>
                             decoded = message /\ (rc - 1) \div 10 = Wrong(Offset(shift_attempt))
      BY DEF RecoversWithinCapacity
    <2>1. MaxShiftDistance \in 0 .. 4
      BY NcrsAssumption
    <2>2. \E attempt \in 0 .. 2 * MaxShiftDistance : Offset(attempt) = d
      <3>1. CASE d >= 0
        <4>1. 2 * d + 1 \in 0 .. 2 * MaxShiftDistance /\ (2 * d + 1) % 2 = 1 /\ (2 * d + 1) \div 2 = d
          BY <2>1, <3>1
        <4> QED
          BY <4>1 DEF Offset
      <3>2. CASE d < 0
        <4> DEFINE e == -d
        <4>1. e \in Nat /\ d = -e /\ 2 * e \in 0 .. 2 * MaxShiftDistance
          BY <2>1, <3>2
        <4> HIDE DEF e
        <4>2. (2 * e) % 2 = 0 /\ (2 * e) \div 2 = e
          BY <4>1
        <4>3. Offset(2 * e) = -e
          BY <4>2 DEF Offset
        <4> QED
          BY <4>1, <4>3
      <3> QED
        BY <2>1, <3>1, <3>2
    <2>3. /\ corrections \in Nat /\ rc = 1 + shift_attempt + corrections * 10
          /\ decoded = Unpack(data) /\ Decided
      BY <2>2 DEF RecoverInv
    <2>4. shift_attempt \in 0 .. 9
      BY <2>1 DEF RecoverInv
    <2>5. rc > 0 /\ (rc - 1) \div 10 = corrections
      BY <2>3, <2>4
    <2>6. ASSUME Repairable(Offset(shift_attempt))
          PROVE  decoded = message /\ (rc - 1) \div 10 = Wrong(Offset(shift_attempt))
      <3>1. data = Pack(message) /\ corrections = Wrong(Offset(shift_attempt)) /\ message \in Messages
        BY <2>3, <2>6 DEF RecoverInv
      <3> QED
        BY <2>3, <2>5, <3>1, UnpackPack
    <2> QED
      BY <2>5, <2>6
  <1> QED
    BY <1>1, InitRecoverInv, NextRecoverInv, PTL DEF Spec

-----------------------------------------------------------------------------
(* What is accepted *)

LEMMA InvLocation ==
  ASSUME NEW c \in 1 .. nn
  PROVE  Location(c) \in 0 .. nn - 1 /\ Inv(Location(c)) = c
  <1> DEFINE x == c * iprim - 1
             j == x % nn
             k == x \div nn
  <1>1. nn \in Nat \ {0} /\ Prim \in Nat /\ c \in Nat /\ c # 0
    BY Sizes
  <1>2. iprim \in Nat
    BY IPrim
  <1>3. PICK q \in Nat : iprim * Prim = nn * q + 1
    BY IPrim
  <1>4. x \in Int
    BY <1>1, <1>2
  <1>5. Location(c) = j
    BY DEF Location
  <1>6. x = nn * k + j /\ k \in Int /\ j \in 0 .. nn - 1
    <2> HIDE DEF x
    <2> QED
      BY <1>1, <1>4, Divide
  <1>7. 1 + j = c * iprim - nn * k
    <2> HIDE DEF j, k
    <2> QED
      BY <1>1, <1>2, <1>6
  <1> HIDE DEF x, j, k
  <1>8. j \in 0 .. nn /\ Loc(j) = Prim * (nn - 1 - j) /\ Loc(j) \in Nat
        /\ Inv(j) \in 1 .. nn /\ Inv(j) \in Nat /\ Reciprocals(Loc(j), Inv(j))
    BY <1>1, <1>6, LocType DEF Loc
  <1> DEFINE K == Prim - c * q + k * Prim
  <1>9. Loc(j) + c = nn * K
    <2> DEFINE ip == iprim
    <2>1. Prim * (1 + j) = Prim * (c * ip) - Prim * (nn * k)
      <3>1. ip \in Nat /\ 1 + j = c * ip - nn * k
        BY <1>2, <1>7
      <3> HIDE DEF ip
      <3> QED
        BY <1>1, <1>6, <3>1
    <2>2. Prim * (c * ip) = c * (ip * Prim)
      <3>1. ip \in Nat
        BY <1>2
      <3> HIDE DEF ip
      <3> QED
        BY <1>1, <3>1
    <2>3. c * (ip * Prim) = c * (nn * q) + c
      <3>1. ip * Prim = nn * q + 1
        BY <1>3
      <3> HIDE DEF ip
      <3>2. c * (nn * q + 1) = c * (nn * q) + c
        BY <1>1, <1>3
      <3> QED
        BY <3>1, <3>2
    <2>4. Prim * (nn - 1 - j) = Prim * nn - Prim * (1 + j)
      BY <1>1, <1>6
    <2>5. Loc(j) + c = Prim * nn - c * (nn * q) + Prim * (nn * k)
      <3> DEFINE u == Prim * (1 + j)
                 v == Prim * (c * ip)
                 w == Prim * (nn * k)
                 y == c * (nn * q)
                 z == Prim * nn
                 lj == Loc(j)
      <3>1. lj = z - u /\ u = v - w /\ v = y + c
        BY <1>8, <2>1, <2>2, <2>3, <2>4
      <3>2. u \in Int /\ w \in Int /\ y \in Int /\ z \in Int
        BY <1>1, <1>3, <1>6
      <3>3. v \in Int
        BY <1>1, <3>1, <3>2
      <3> HIDE DEF u, v, w, y, z, lj
      <3>4. lj + c = z - y + w
        BY <1>1, <3>1, <3>2, <3>3
      <3> QED
        BY <3>4 DEF lj, z, y, w
    <2>6. nn * K = Prim * nn - c * (nn * q) + Prim * (nn * k)
      BY <1>1, <1>3, <1>6
    <2> QED
      BY <2>5, <2>6
  <1>10. K \in Nat
    <2>1. K \in Int
      BY <1>1, <1>3, <1>6
    <2> HIDE DEF K
    <2> SUFFICES ASSUME K <= -1 PROVE FALSE
      BY <2>1
    <2>2. nn * K <= -nn
      BY <1>1, <2>1
    <2> QED
      BY <1>1, <1>8, <1>9, <2>2
  <1> HIDE DEF K
  <1>11. Exp(Loc(j) + c) = {0}
    BY <1>1, <1>9, <1>10, ExpPeriod
  <1>12. Mul(Exp(Loc(j)), Exp(c)) = {0}
    BY <1>1, <1>8, <1>11, MulExp
  <1>13. /\ Exp(c) \in Symbols /\ Exp(Loc(j)) \in Symbols /\ Exp(Inv(j)) \in Symbols
    BY <1>1, <1>8, ExpType
  <1>14. Reciprocals(c, Loc(j)) /\ Reciprocals(Inv(j), Loc(j))
    BY <1>8, <1>12, <1>13, MulCommutes DEF Reciprocals
  <1>15. Exp(c) = Exp(Inv(j))
    BY <1>1, <1>8, <1>14, InverseOne
  <1>16. c = Inv(j)
    BY <1>8, <1>15, ExpInjectiveRoots
  <1> QED
    BY <1>5, <1>6, <1>16

(* The positions that the roots of the locator stand for. *)
Blamed == {Location(c) : c \in Roots}

LEMMA BlamedType ==
  ASSUME IsLocator(s, lambda, b, el, r), Cardinality(Roots) = deg_lambda
  PROVE  /\ Roots = RootsOf(Blamed) /\ Cardinality(Blamed) = deg_lambda
         /\ Blamed \in SUBSET (0 .. nn - 1)
         /\ Splits(AsSeries(lambda), Blamed)
  <1>1. /\ Roots = {i \in 1 .. nn : Value(AsSeries(lambda), i) = {}}
        /\ AsSeries(lambda) \in Series /\ AsSeries(lambda)[0] = {0}
        /\ Degree(AsSeries(lambda), deg_lambda) /\ deg_lambda \in 0 .. NRoots
    BY ChienSearch
  <1>2. \A c \in Roots : c \in 1 .. nn
    BY <1>1
  <1>3. \A c \in Roots : Location(c) \in 0 .. nn - 1 /\ Inv(Location(c)) = c
    BY <1>2, InvLocation
  <1>4. Blamed \in SUBSET (0 .. nn - 1)
    BY <1>3 DEF Blamed
  <1>5. Roots = RootsOf(Blamed)
    <2>1. \A c \in Roots : c \in RootsOf(Blamed)
      BY <1>3 DEF RootsOf, Blamed
    <2>2. \A c \in RootsOf(Blamed) : c \in Roots
      BY <1>3 DEF RootsOf, Blamed
    <2> QED
      BY <2>1, <2>2
  <1>6. Cardinality(Blamed) = deg_lambda
    BY <1>4, <1>5, RootsOfType
  <1>7. \A j \in Blamed : Value(AsSeries(lambda), Inv(j)) = {}
    <2>1. \A j \in Blamed : Inv(j) \in Roots
      BY <1>5 DEF RootsOf
    <2> QED
      BY <1>1, <2>1
  <1>8. Cardinality(Blamed) <= NRoots
    BY <1>1, <1>6, Sizes
  <1> QED
    BY <1>1, <1>4, <1>5, <1>6, <1>7, <1>8 DEF Splits

(* The error that Forney's formula gives each position. *)
Estimate == [j \in 0 .. nn - 1 |-> IF j \in Blamed THEN ErrorValue(Inv(j)) ELSE {}]

LEMMA EstimateType ==
  ASSUME s \in SyndromeLists, IsLocator(s, lambda, b, el, r), Shortest(s, el, r), r = NRoots,
         deg_lambda = el, Cardinality(Roots) = deg_lambda
  PROVE  /\ Estimate \in Words
         /\ ErrorsOf(Scaled(Estimate), Blamed, s)
         /\ \A j \in 0 .. nn - 1 : Estimate[j] # {} <=> j \in Blamed
  <1> DEFINE S == Blamed
             E == Estimate
             A == Scaled(E)
             t == deg_lambda
  <1>1. nn \in Nat /\ NRoots \in Nat /\ NRoots < nn /\ FCR \in Nat
    BY Sizes, ReedSolomonAssumption
  <1>2. Cardinality(S) = t /\ S \in SUBSET (0 .. nn - 1) /\ Splits(AsSeries(lambda), S)
    BY BlamedType
  <1>3. lambda \in Polynomials /\ t \in 0 .. NRoots
    BY DegreeAtMostLength DEF IsLocator
  <1>4. \A k \in S : ErrorValue(Inv(k)) \in Symbols
    BY <1>2, <1>3, Forney
  <1>5. E \in Words
    BY <1>4, Unit DEF Estimate, Words
  <1>6. \A j \in 0 .. nn - 1 : E[j] = IF j \in S THEN ErrorValue(Inv(j)) ELSE {}
    BY DEF Estimate
  <1> HIDE DEF S, E
  <1>7. /\ A \in Series /\ A[nn] = {}
        /\ \A j \in 0 .. nn - 1 : A[j] = Mul(E[j], Exp(Loc(j) * FCR)) /\ (A[j] = {} <=> E[j] = {})
    BY <1>5, ScaledType
  <1> HIDE DEF A
  <1>8. \A j \in 0 .. nn : j \notin S => A[j] = {}
    <2> SUFFICES ASSUME NEW j \in 0 .. nn, j \notin S PROVE A[j] = {}
      OBVIOUS
    <2>1. j = nn \/ j \in 0 .. nn - 1
      BY <1>1
    <2> QED
      BY <1>6, <1>7, <2>1
  <1>9. \A k \in S : A[k] = Mul(ErrorValue(Inv(k)), Exp(Loc(k) * FCR))
    BY <1>2, <1>6, <1>7
  <1>10. ErrorsOf(A, S, s)
    BY <1>2, <1>7, <1>8, <1>9, ErrorsFound
  <1> DEFINE S2 == {j \in S : E[j] # {}}
             t2 == Cardinality(S2)
  <1>11. S2 = S
    <2>1. S2 \in SUBSET (0 .. nn - 1) /\ IsFiniteSet(S) /\ S2 \subseteq S
      BY <1>2, SomePositions
    <2>2. t2 <= t /\ (t2 = t => S2 = S) /\ t2 \in Nat
      BY <1>2, <2>1, FS_Subset, FS_CardinalityType
    <2>3. ErrorsOf(A, S2, s)
      <3>1. \A j \in 0 .. nn : j \notin S2 => A[j] = {}
        <4> SUFFICES ASSUME NEW j \in 0 .. nn, j \notin S2 PROVE A[j] = {}
          OBVIOUS
        <4>1. CASE j \notin S
          BY <1>8, <4>1
        <4>2. CASE j \in S
          <5>1. E[j] = {} /\ j \in 0 .. nn - 1
            BY <1>2, <4>2
          <5> QED
            BY <1>7, <5>1
        <4> QED
          BY <4>1, <4>2
      <3> HIDE DEF S2
      <3> QED
        BY <1>7, <1>10, <2>1, <3>1 DEF ErrorsOf
    <2> HIDE DEF S2
    <2>4. t2 \in 0 .. NRoots /\ t2 \in Nat
      BY <1>1, <1>3, <2>2
    <2>5. \E p : IsRecurrence(p, s, t2, NRoots)
      BY <2>3, <2>4, PositionsRecurrence
    <2>6. el <= t2
      BY <2>4, <2>5 DEF Shortest
    <2> HIDE DEF t2
    <2> QED
      BY <1>1, <1>3, <2>2, <2>6
  <1>12. \A j \in 0 .. nn - 1 : E[j] # {} <=> j \in S
    BY <1>6, <1>11
  <1> QED
    BY <1>5, <1>10, <1>12 DEF S, E, A

(* A word with these data and parity symbols. *)
LEMMA WordApart ==
  ASSUME NEW v \in Words
  PROVE  /\ [k \in 0 .. DataLen - 1 |-> v[k]] \in DataLists
         /\ [j \in 0 .. NRoots - 1 |-> v[DataLen + j]] \in SyndromeLists
         /\ WordOf([k \in 0 .. DataLen - 1 |-> v[k]], [j \in 0 .. NRoots - 1 |-> v[DataLen + j]]) = v
  <1> DEFINE d == [k \in 0 .. DataLen - 1 |-> v[k]]
             par == [j \in 0 .. NRoots - 1 |-> v[DataLen + j]]
  <1>1. nn \in Nat /\ DataLen \in Nat /\ NRoots \in Nat /\ nn = DataLen + NRoots
    BY MoreSizes
  <1>2. (\A k \in 0 .. DataLen - 1 : k \in 0 .. nn - 1)
        /\ (\A j \in 0 .. NRoots - 1 : DataLen + j \in 0 .. nn - 1)
    BY <1>1
  <1>3. d \in DataLists /\ par \in SyndromeLists
    BY <1>2 DEF Words, DataLists, SyndromeLists
  <1>4. \A j \in 0 .. nn - 1 : Word(d, par, j) = v[j]
    <2> SUFFICES ASSUME NEW j \in 0 .. nn - 1 PROVE Word(d, par, j) = v[j]
      OBVIOUS
    <2>1. CASE j < DataLen
      <3>1. j \in 0 .. DataLen - 1
        BY <1>1, <2>1
      <3> QED
        BY <2>1, <3>1 DEF Word
    <2>2. CASE ~(j < DataLen)
      <3> DEFINE i == j - DataLen
      <3>1. i \in 0 .. NRoots - 1 /\ DataLen + i = j
        BY <1>1, <2>2
      <3>2. Word(d, par, j) = par[i]
        BY <2>2 DEF Word
      <3> HIDE DEF i
      <3> QED
        BY <3>1, <3>2
    <2> QED
      BY <2>1, <2>2
  <1>5. WordOf(d, par) = [j \in 0 .. nn - 1 |-> Word(d, par, j)]
    BY DEF WordOf
  <1>6. v = [j \in 0 .. nn - 1 |-> v[j]]
    BY DEF Words
  <1> HIDE DEF d, par
  <1>7. WordOf(d, par) = v
    BY <1>4, <1>5, <1>6
  <1> QED
    BY <1>3, <1>7 DEF d, par

LEMMA CorrectionIsCodeword ==
  ASSUME NEW word \in Received, data = DataOf(word), s = Syndromes(DataOf(word), ParityOf(word)),
         IsLocator(s, lambda, b, el, r), Shortest(s, el, r), deg_lambda = el,
         Correct, corrections' > 0
  PROVE  Differences(Interleaved(data', encode_rs8(data')), word) = corrections'
  <1> DEFINE u == WordOf(DataOf(word), ParityOf(word))
             E == Estimate
             S == Blamed
             v == Sum(u, E)
             d2 == [k \in 0 .. DataLen - 1 |-> v[k]]
             par2 == [j \in 0 .. NRoots - 1 |-> v[DataLen + j]]
  <1>1. /\ nn \in Nat /\ NRoots \in Nat /\ NRoots < nn /\ DataLen \in Nat /\ nn = DataLen + NRoots
        /\ \A n \in 0 .. NRoots - 1 : n \in Nat
    BY MoreSizes, ReedSolomonAssumption
  <1>2. Cardinality(Roots) = deg_lambda /\ corrections' = deg_lambda /\ r = NRoots
    BY DEF Correct, EBADMSG
  <1>3. DataOf(word) \in DataLists /\ ParityOf(word) \in SyndromeLists /\ s \in SyndromeLists
    BY PartsType, PartsAreWord, SyndromesType
  <1>4. Roots = RootsOf(S) /\ Cardinality(S) = deg_lambda /\ S \in SUBSET (0 .. nn - 1)
    BY <1>2, BlamedType
  <1>5. E \in Words /\ ErrorsOf(Scaled(E), S, s) /\ \A j \in 0 .. nn - 1 : E[j] # {} <=> j \in S
    BY <1>2, <1>3, EstimateType
  <1>6. \A j \in 0 .. nn - 1 : E[j] = IF j \in S THEN ErrorValue(Inv(j)) ELSE {}
    BY DEF Estimate
  <1>7. u \in Words /\ \A n \in 0 .. NRoots - 1 : s[n] = Moment(Scaled(u), n)
    BY <1>3, WordType, SyndromeMoment
  <1>8. \A k \in 0 .. DataLen - 1 : k \in 0 .. nn - 1 /\ u[k] = data[k]
    BY <1>1 DEF WordOf, Word
  <1>9. \A p \in Positions : word[p] = u[WordIndex(p)]
    BY PartsInterleaved, InterleavedWord
  <1> HIDE DEF u, E, S
  <1>10. v \in Words /\ \A j \in 0 .. nn - 1 : v[j] = Plus(u[j], E[j])
    BY <1>1, <1>5, <1>7, SumMoment
  <1>11. \A n \in 0 .. NRoots - 1 : Moment(Scaled(v), n) = {}
    <2> SUFFICES ASSUME NEW n \in 0 .. NRoots - 1 PROVE Moment(Scaled(v), n) = {}
      OBVIOUS
    <2>1. Moment(Scaled(v), n) = Plus(Moment(Scaled(u), n), Moment(Scaled(E), n))
      BY <1>1, <1>5, <1>7, SumMoment
    <2>2. Moment(Scaled(u), n) = s[n] /\ Moment(Scaled(E), n) = s[n]
      BY <1>5, <1>7 DEF ErrorsOf
    <2> QED
      BY <2>1, <2>2, PlusRules
  <1> HIDE DEF v
  <1>12. d2 \in DataLists /\ par2 \in SyndromeLists /\ WordOf(d2, par2) = v
    BY <1>10, WordApart
  <1>13. \A k \in 0 .. DataLen - 1 : d2[k] = v[k]
    OBVIOUS
  <1> HIDE DEF d2, par2
  <1>14. \A n \in 0 .. NRoots - 1 : Syndromes(d2, par2)[n] = {}
    BY <1>11, <1>12, SyndromeMoment
  <1>15. par2 = encode_rs8(d2)
    BY <1>12, <1>14, CodewordIsEncoded
  <1>16. DOMAIN data = 0 .. DataLen - 1 /\ \A k \in 0 .. DataLen - 1 : data[k] \in Symbols
    BY <1>3 DEF DataLists
  <1>17. data' = [k \in 0 .. DataLen - 1 |->
              IF \E root \in Roots : Location(root) = k
                THEN Plus(data[k], ErrorValue(CHOOSE root \in Roots : Location(root) = k))
                ELSE data[k]]
    BY <1>2, <1>16 DEF Correct
  <1>18. \A k \in 0 .. DataLen - 1 : data'[k] = d2[k]
    <2> SUFFICES ASSUME NEW k \in 0 .. DataLen - 1 PROVE data'[k] = d2[k]
      OBVIOUS
    <2> DEFINE root0 == CHOOSE root \in Roots : Location(root) = k
    <2>1. k \in 0 .. nn - 1 /\ d2[k] = Plus(data[k], E[k])
      BY <1>8, <1>10, <1>13
    <2>2. (\E root \in Roots : Location(root) = k) <=> k \in S
      BY <1>4, <2>1, RootAtPosition
    <2>3. k \in S => root0 = Inv(k)
      BY <1>4, <2>1, RootAtPosition
    <2>4. data'[k] = IF k \in S THEN Plus(data[k], ErrorValue(root0)) ELSE data[k]
      BY <1>17, <2>2
    <2> HIDE DEF root0
    <2>5. CASE k \in S
      BY <1>6, <2>1, <2>3, <2>4, <2>5
    <2>6. CASE k \notin S
      <3>1. E[k] = {}
        BY <1>6, <2>1, <2>6
      <3> QED
        BY <2>1, <2>4, <2>6, <3>1, PlusRules
    <2> QED
      BY <2>5, <2>6
  <1>19. data' = d2
    <2>1. d2 = [k \in 0 .. DataLen - 1 |-> d2[k]]
      BY <1>12 DEF DataLists
    <2>2. data' = [k \in 0 .. DataLen - 1 |-> data'[k]]
      BY <1>17
    <2> QED
      BY <1>18, <2>1, <2>2
  <1>20. Differences(Interleaved(d2, par2), word) = Cardinality(S)
    <2>1. \A p \in Positions : Interleaved(d2, par2)[p] = v[WordIndex(p)]
      BY <1>12, InterleavedWord
    <2>2. Differences(Interleaved(d2, par2), word) = Cardinality({j \in 0 .. nn - 1 : v[j] # u[j]})
      BY <1>7, <1>9, <1>10, <2>1, DifferencesOfWords
    <2>3. \A j \in 0 .. nn - 1 : v[j] # u[j] <=> j \in S
      <3> SUFFICES ASSUME NEW j \in 0 .. nn - 1 PROVE v[j] # u[j] <=> j \in S
        OBVIOUS
      <3>1. v[j] = Plus(u[j], E[j]) /\ (E[j] # {} <=> j \in S)
        BY <1>5, <1>10
      <3>2. Plus(u[j], v[j]) = E[j]
        BY <3>1, PlusTwice
      <3>3. Plus(u[j], v[j]) = {} <=> u[j] = v[j]
        BY PlusZero
      <3> QED
        BY <3>1, <3>2, <3>3
    <2>4. {j \in 0 .. nn - 1 : v[j] # u[j]} = S
      BY <1>4, <2>3
    <2> QED
      BY <2>2, <2>4
  <1> QED
    BY <1>2, <1>4, <1>15, <1>19, <1>20

AcceptInv == RecoverInv /\ AcceptedIsCodeword

LEMMA NextAcceptInv == AcceptInv /\ [Next]_vars => AcceptInv'
  <1> SUFFICES ASSUME AcceptInv, [Next]_vars PROVE AcceptedIsCodeword'
    BY NextRecoverInv DEF AcceptInv
  <1>1. ASSUME NEW attempt, TryShift(attempt)
        PROVE  AcceptedIsCodeword'
    BY <1>1 DEF TryShift, Deinterleaved, decode_rs8, AcceptedIsCodeword, Undecided
  <1>2. ASSUME UNCHANGED <<decodeVars, encoded_message, shift_attempt>>
        PROVE  AcceptedIsCodeword'
    BY <1>2 DEF AcceptInv, AcceptedIsCodeword, decodeVars, Moved, At, Offset, deg_lambda
  <1>3. CASE Begin
    BY <1>1, <1>3 DEF Begin
  <1>4. CASE Decode
    <2>1. CASE BerlekampMassey
      BY <2>1 DEF BerlekampMassey, AcceptedIsCodeword, Undecided
    <2>2. CASE Correct
      <3> SUFFICES ASSUME corrections' > 0, deg_lambda' = el'
                   PROVE  Differences(Interleaved(data', encode_rs8(data')),
                                      Moved(encoded_message', shift_attempt')) = corrections'
        BY DEF AcceptedIsCodeword
      <3>1. /\ corrections = Undecided /\ lambda' = lambda /\ el' = el
            /\ encoded_message' = encoded_message /\ shift_attempt' = shift_attempt
        BY <1>4, <2>2 DEF Decode, Correct
      <3>2. deg_lambda = el
        BY <3>1 DEF deg_lambda
      <3>3. data # <<>>
        BY <3>1 DEF AcceptInv, RecoverInv, ShortestInv, LocatorInv, Undecided, EBADMSG
      <3>4. /\ s = Syndromes(DataOf(Attempt), ParityOf(Attempt)) /\ data = DataOf(Attempt)
            /\ IsLocator(s, lambda, b, el, r) /\ Shortest(s, el, r) /\ encoded_message \in Received
        BY <3>1, <3>3 DEF AcceptInv, RecoverInv, ShortestInv, LocatorInv
      <3>5. Attempt \in Received
        BY <3>4, MovedType DEF Attempt
      <3>6. Differences(Interleaved(data', encode_rs8(data')), Attempt) = corrections'
        BY <2>2, <3>2, <3>4, <3>5, CorrectionIsCodeword
      <3> QED
        BY <3>1, <3>6 DEF Attempt
    <2> QED
      BY <1>4, <2>1, <2>2 DEF Decode
  <1>5. CASE NextShift
    BY <1>1, <1>5 DEF NextShift
  <1>6. CASE GiveUp \/ Success \/ UNCHANGED vars
    BY <1>2, <1>6 DEF GiveUp, Success, vars
  <1> QED
    BY <1>3, <1>4, <1>5, <1>6 DEF Next

(* decode_rs8 accepts a word, if its locator has the degree that belongs   *)
(* to its length, only by making it a word of the code, and returns the    *)
(* number of symbols that are different: for every field and every word.   *)
THEOREM AcceptedIsInCode == Spec => []AcceptedIsCodeword
  <1>1. Init => AcceptInv
    BY InitRecoverInv DEF Init, AcceptInv, AcceptedIsCodeword, EBADMSG
  <1> QED
    BY <1>1, NextAcceptInv, PTL DEF Spec, AcceptInv
=============================================================================
