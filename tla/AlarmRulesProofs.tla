-------------------------- MODULE AlarmRulesProofs --------------------------
(* Lemmas about times of day in two bytes and about the rules of the       *)
(* alarm, for every size of a byte and every length of the day and of the  *)
(* alarm's window.                                                         *)
EXTENDS AlarmRules, WellFoundedInduction, TLAPS

-----------------------------------------------------------------------------
(* Times of day in two bytes *)

(* Multiplication keeps the order. *)
LEMMA TimesMonotone ==
  ASSUME NEW a \in Nat, NEW b \in Nat, NEW c \in Nat, a <= b
  PROVE  a * c <= b * c
  <1>1. b = a + (b - a) /\ b - a \in Nat
    OBVIOUS
  <1>2. b * c = a * c + (b - a) * c
    BY <1>1
  <1>3. (b - a) * c \in Nat
    BY <1>1
  <1> QED
    BY <1>2, <1>3

(* The two bytes of a time, and the time they stand for. *)
LEMMA TwoBytes ==
  ASSUME NEW t \in Words
  PROVE  /\ t \div ByteSize \in Bytes
         /\ t % ByteSize \in Bytes
         /\ (t \div ByteSize) * ByteSize + (t % ByteSize) = t
  <1> USE TimesAssumption DEF Words, Bytes
  <1>1. t \in Nat /\ ByteSize \in Nat \ {0}
    OBVIOUS
  <1>2. t \div ByteSize \in Nat /\ t % ByteSize \in Bytes
    BY <1>1
  <1>3. (t \div ByteSize) * ByteSize + (t % ByteSize) = t
    BY <1>1
  <1>4. t \div ByteSize < ByteSize
    <2> SUFFICES ASSUME ByteSize <= t \div ByteSize PROVE FALSE
      BY <1>2
    <2>1. ByteSize * ByteSize <= (t \div ByteSize) * ByteSize
      BY <1>2, TimesMonotone
    <2> QED
      BY <2>1, <1>2, <1>3
  <1> QED
    BY <1>2, <1>3, <1>4

(* Two bytes always stand for a time. *)
LEMMA BytesMakeWord ==
  ASSUME NEW hi \in Bytes, NEW lo \in Bytes
  PROVE  hi * ByteSize + lo \in Words
  <1> USE TimesAssumption DEF Words, Bytes
  <1>1. hi * ByteSize <= (ByteSize - 1) * ByteSize
    BY TimesMonotone
  <1>2. (ByteSize - 1) * ByteSize = ByteSize * ByteSize - ByteSize
    OBVIOUS
  <1>3. hi * ByteSize \in Nat
    OBVIOUS
  <1> QED
    BY <1>1, <1>2, <1>3

(* What is loaded at boot is a time of day. *)
LEMMA BootTimeInDay ==
  ASSUME NEW t \in Words
  PROVE  BootTime(t) \in Minutes /\ BootTime(t) \in Words
  BY TimesAssumption DEF Words, Minutes, BootTime

(* An hour and a minute in a byte each are a time that fits two bytes.     *)
LEMMA HourAndMinute ==
  ASSUME NEW hour \in Bytes, NEW minute \in Bytes
  PROVE  hour * HourLen + minute \in Words
  <1> USE TimesAssumption DEF Bytes, Words
  <1>1. hour * HourLen <= (ByteSize - 1) * HourLen
    BY TimesMonotone
  <1>2. HourLen * (ByteSize - 1) <= (ByteSize - 1) * (ByteSize - 1)
    BY TimesMonotone
  <1>3. (ByteSize - 1) * HourLen = HourLen * (ByteSize - 1)
    OBVIOUS
  <1>4. (ByteSize - 1) * (ByteSize - 1) = ByteSize * ByteSize - 2 * ByteSize + 1
    OBVIOUS
  <1>5. hour * HourLen \in Nat
    OBVIOUS
  <1> QED
    BY <1>1, <1>2, <1>3, <1>4, <1>5

(* So is what the right button makes of a time. *)
LEMMA ResetTimeIsWord ==
  ASSUME NEW t \in Words
  PROVE  ResetTime(t) \in Words
  <1> USE TimesAssumption DEF Bytes, Words
  <1>1. (t \div HourLen) % ByteSize \in Bytes
    OBVIOUS
  <1>2. t % HourLen \in Bytes
    OBVIOUS
  <1> QED
    BY <1>1, <1>2, HourAndMinute DEF ResetTime

-----------------------------------------------------------------------------
(* Induction over numbers *)

(* Every set of natural numbers that is not empty has a least element. *)
LEMMA LeastNumber ==
  ASSUME NEW T, T \subseteq Nat, T # {}
  PROVE  \E m \in T : \A n \in T : m <= n
  <1> DEFINE less == OpToRel(<, Nat)
  <1>1. \E m \in T : \A n \in T : <<n, m>> \notin less
    BY NatLessThanWellFounded, WFMin
  <1>2. PICK m \in T : \A n \in T : <<n, m>> \notin less
    BY <1>1
  <1>3. \A n \in T : ~(n < m)
    BY <1>2 DEF OpToRel
  <1> QED
    BY <1>3

-----------------------------------------------------------------------------
(* The loop of alarm_update *)

(* The time of day k minutes after the time t. *)
Onward(t, k) == IF t + k >= WholeDay THEN t + k - WholeDay ELSE t + k

(* The i-th round of the loop tests the (i-1)-th minute after the alarm. *)
LEMMA TestTimeIsOnward ==
  ASSUME NEW time \in Nat, NEW i \in 1 .. SoundsFor
  PROVE  TestTime(time, i) = Onward(BootTime(time), i - 1)
  <1> USE TimesAssumption, SoundsForAssumption
  <1> DEFINE Round(f, k) == LET t == IF k = 1 THEN time ELSE f[k - 1] + 1
                            IN  IF t >= WholeDay THEN 0 ELSE t
             Walk(f) == [k \in 1 .. SoundsFor |-> Round(f, k)]
             test == CHOOSE f : f = Walk(f)
             line == [k \in 1 .. SoundsFor |-> Onward(BootTime(time), k - 1)]
  <1>1. TestTime(time, i) = test[i]
    BY DEF TestTime
  <1>2. line = Walk(line)
    <2> SUFFICES ASSUME NEW k \in 1 .. SoundsFor PROVE Onward(BootTime(time), k - 1) = Round(line, k)
      OBVIOUS
    <2>1. CASE k = 1
      BY <2>1 DEF Onward, BootTime
    <2>2. CASE k # 1
      <3>1. line[k - 1] = Onward(BootTime(time), k - 2)
        BY <2>2
      <3> QED
        BY <2>2, <3>1 DEF Onward, BootTime
    <2> QED
      BY <2>1, <2>2
  <1>3. test = Walk(test)
    <2> HIDE DEF Walk
    <2> QED
      BY <1>2
  <1>4. \A k \in 1 .. SoundsFor : test[k] = Round(test, k)
    <2> HIDE DEF test
    <2> QED
      BY <1>3
  <1> HIDE DEF test
  <1> DEFINE Wrong == {k \in 1 .. SoundsFor : test[k] # line[k]}
  <1>5. Wrong = {}
    <2> SUFFICES ASSUME Wrong # {} PROVE FALSE
      OBVIOUS
    <2>1. PICK k \in Wrong : \A n \in Wrong : k <= n
      <3>1. Wrong \subseteq Nat
        OBVIOUS
      <3> QED
        BY <3>1, LeastNumber
    <2>2. CASE k = 1
      BY <2>1, <2>2, <1>4 DEF Onward, BootTime
    <2>3. CASE k # 1
      <3>1. k - 1 \in 1 .. SoundsFor /\ k - 1 \notin Wrong
        BY <2>1, <2>3
      <3>2. test[k - 1] = line[k - 1]
        BY <3>1
      <3>3. Round(test, k) = Round(line, k)
        BY <3>2
      <3> QED
        BY <3>3, <1>2, <1>4
    <2> QED
      BY <2>2, <2>3
  <1> QED
    BY <1>1, <1>5

(* The minutes from one time of day to another, across midnight or not. *)
LEMMA ElapsedCases ==
  ASSUME NEW from \in Minutes, NEW at \in Minutes
  PROVE  /\ (at - from) % WholeDay = IF at >= from THEN at - from ELSE at - from + WholeDay
         /\ (at - from) % WholeDay \in Minutes
         /\ \A k \in Minutes : Onward(from, k) = at <=> k = (at - from) % WholeDay
  <1> USE TimesAssumption DEF Minutes
  <1>1. CASE at >= from
    <2>1. (at - from) % WholeDay = at - from
      BY <1>1
    <2> QED
      BY <1>1, <2>1 DEF Onward
  <1>2. CASE at < from
    <2>1. (at - from) % WholeDay = at - from + WholeDay
      BY <1>2
    <2> QED
      BY <1>2, <2>1 DEF Onward
  <1> QED
    BY <1>1, <1>2

(* What the loop finds: the minutes since the alarm time, counted from 1,  *)
(* as long as there are no more than SoundsFor of them.                    *)
LEMMA RegionIsElapsed ==
  ASSUME NEW time \in Words, NEW at \in Minutes
  PROVE  LET elapsed == (at - BootTime(time)) % WholeDay
         IN  InActiveRegion(time, at) = IF elapsed < SoundsFor THEN elapsed + 1 ELSE 0
  <1> DEFINE elapsed == (at - BootTime(time)) % WholeDay
             Meets(i) == TestTime(time, i) = at
             First(i) == Meets(i) /\ \A j \in 1 .. i - 1 : ~Meets(j)
  <1>1. BootTime(time) \in Minutes /\ time \in Nat
    BY BootTimeInDay, TimesAssumption DEF Words
  <1>2. elapsed \in Minutes
    BY <1>1, ElapsedCases
  <1> HIDE DEF elapsed
  <1>3. \A i \in 1 .. SoundsFor : Meets(i) <=> i = elapsed + 1
    <2> SUFFICES ASSUME NEW i \in 1 .. SoundsFor PROVE Meets(i) <=> i = elapsed + 1
      OBVIOUS
    <2>1. i - 1 \in Minutes
      BY SoundsForAssumption, TimesAssumption DEF Minutes
    <2>2. Onward(BootTime(time), i - 1) = at <=> i - 1 = elapsed
      BY <1>1, <2>1, ElapsedCases DEF elapsed
    <2> QED
      BY <2>2, <1>1, <1>2, TestTimeIsOnward DEF Minutes
  <1>4. InActiveRegion(time, at) =
          IF \E i \in 1 .. SoundsFor : Meets(i) THEN CHOOSE i \in 1 .. SoundsFor : First(i) ELSE 0
    BY DEF InActiveRegion
  <1> HIDE DEF Meets
  <1>5. CASE elapsed < SoundsFor
    <2>1. elapsed + 1 \in 1 .. SoundsFor
      BY <1>2, <1>5, SoundsForAssumption DEF Minutes
    <2>2. \A i \in 1 .. SoundsFor : First(i) <=> i = elapsed + 1
      <3> SUFFICES ASSUME NEW i \in 1 .. SoundsFor PROVE First(i) <=> i = elapsed + 1
        OBVIOUS
      <3>1. \A j \in 1 .. i - 1 : j \in 1 .. SoundsFor
        BY SoundsForAssumption, TimesAssumption
      <3>2. i = elapsed + 1 => \A j \in 1 .. i - 1 : j # elapsed + 1
        BY <2>1
      <3> QED
        BY <1>3, <2>1, <3>1, <3>2
    <2>3. (CHOOSE i \in 1 .. SoundsFor : First(i)) = elapsed + 1
      <3> HIDE DEF First
      <3> QED
        BY <2>1, <2>2
    <2> QED
      BY <1>3, <1>4, <1>5, <2>1, <2>3 DEF elapsed
  <1>6. CASE ~(elapsed < SoundsFor)
    <2>1. ~\E i \in 1 .. SoundsFor : Meets(i)
      BY <1>2, <1>3, <1>6, SoundsForAssumption DEF Minutes
    <2> QED
      BY <1>4, <1>6, <2>1 DEF elapsed
  <1> QED
    BY <1>5, <1>6

(* The alarm may sound exactly in its window. *)
LEMMA RegionIsInWindow ==
  ASSUME NEW time \in Words, NEW at \in Minutes
  PROVE  InActiveRegion(time, at) # 0 <=> (at - BootTime(time)) % WholeDay < SoundsFor
  <1>1. (at - BootTime(time)) % WholeDay \in Nat
    BY BootTimeInDay, ElapsedCases, TimesAssumption DEF Minutes
  <1> QED
    BY <1>1, RegionIsElapsed
=============================================================================
