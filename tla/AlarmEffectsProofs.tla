------------------------- MODULE AlarmEffectsProofs -------------------------
(* Theorems about the light of the alarm, for every length of a minute, of *)
(* a phase and of a round, every period, every difference of the clocks,   *)
(* and any number of alarms and of clock_set commands.                     *)
EXTENDS AlarmEffects, WellFoundedInduction, TLAPS

-----------------------------------------------------------------------------
(* Numbers *)

(* There is a longest round. *)
LEMMA Longest ==
  ASSUME NEW d \in Rounds
  PROVE  LongestRound \in Rounds /\ LongestRound \in 1 .. Second /\ d \in 1 .. LongestRound
  <1> USE EffectsAssumption
  <1> DEFINE less == OpToRel(<, Nat)
             T == {Second - r : r \in Rounds}
  <1>1. T \subseteq Nat /\ T # {}
    OBVIOUS
  <1>2. \E m \in T : \A n \in T : <<n, m>> \notin less
    <2> HIDE DEF T
    <2> QED
      BY <1>1, NatLessThanWellFounded, WFMin
  <1>3. PICK m \in T : \A n \in T : <<n, m>> \notin less
    BY <1>2
  <1>4. \A n \in T : ~(n < m)
    BY <1>1, <1>3 DEF OpToRel
  <1>5. PICK r \in Rounds : m = Second - r
    BY <1>3
  <1>6. \A s \in Rounds : r >= s
    <2> SUFFICES ASSUME NEW s \in Rounds PROVE r >= s
      OBVIOUS
    <2>1. ~(Second - s < Second - r)
      BY <1>4, <1>5
    <2>2. r \in Nat /\ s \in Nat /\ Second \in Nat
      OBVIOUS
    <2> QED
      BY <2>1, <2>2
  <1>7. LongestRound \in Rounds /\ \A s \in Rounds : LongestRound >= s
    BY <1>6 DEF LongestRound, Max
  <1> QED
    BY <1>7

(* Multiplication keeps the order. *)
LEMMA TimesMonotone ==
  ASSUME NEW a \in Nat, NEW b \in Nat, NEW c \in Nat, a <= b
  PROVE  a * c <= b * c
  <1>1. b = a + (b - a) /\ b - a \in Nat
    OBVIOUS
  <1>2. b * c = a * c + (b - a) * c
    BY <1>1
  <1>3. (b - a) * c \in Nat
    BY <1>1
  <1> QED
    BY <1>2, <1>3

(* The quotient, from the multiples around a number. *)
LEMMA Quotient ==
  ASSUME NEW w \in Nat \ {0}, NEW u \in Nat, NEW q \in Nat
  PROVE  /\ u \div w \in Nat
         /\ u >= q * w => u \div w >= q
         /\ u < q * w => u \div w < q
         /\ u % w = u - (u \div w) * w
  <1> DEFINE k == u \div w
             r == u % w
  <1>1. k \in Nat /\ r \in 0 .. w - 1 /\ k * w + r = u
    OBVIOUS
  <1> HIDE DEF k, r
  <1>2. k * w \in Nat /\ q * w \in Nat /\ (k + 1) * w = k * w + w
    BY <1>1
  <1>3. ASSUME u >= q * w PROVE k >= q
    <2> SUFFICES ASSUME k + 1 <= q PROVE FALSE
      BY <1>1
    <2>1. (k + 1) * w <= q * w
      BY <1>1, TimesMonotone
    <2> QED
      BY <2>1, <1>1, <1>2, <1>3
  <1>4. ASSUME u < q * w PROVE k < q
    <2> SUFFICES ASSUME q <= k PROVE FALSE
      BY <1>1
    <2>1. q * w <= k * w
      BY <1>1, TimesMonotone
    <2> QED
      BY <2>1, <1>1, <1>2, <1>4
  <1>5. r = u - k * w
    BY <1>1, <1>2
  <1> QED
    BY <1>1, <1>3, <1>4, <1>5 DEF k, r

(* A minute is a number of whole seconds, and the longest alarm is shorter *)
(* than Word, whatever the clocks do.                                      *)
LEMMA Lengths ==
  /\ MinuteLen \in Nat \ {0} /\ Second \in Nat \ {0} /\ Second <= MinuteLen
  /\ MinuteLen + MaxDrift < Word /\ Word \in Nat \ {0} /\ MaxDrift \in Nat
  /\ PhaseLen \in Nat \ {0} /\ MaxMinutes \in Nat \ {0}
  /\ \A k \in Nat : k <= MaxMinutes =>
       k * MinuteLen \in Nat /\ (k + 1) * MinuteLen + MaxDrift < Word
  <1> USE EffectsAssumption
  <1>1. Second <= MinuteLen
    OBVIOUS
  <1>2. ASSUME NEW k \in Nat, k <= MaxMinutes
        PROVE  k * MinuteLen \in Nat /\ (k + 1) * MinuteLen + MaxDrift < Word
    <2>1. (k + 1) * MinuteLen <= (MaxMinutes + 1) * MinuteLen
      BY <1>2, TimesMonotone
    <2>2. (MaxMinutes + 1) * MinuteLen = MinuteLen * (MaxMinutes + 1)
      OBVIOUS
    <2>3. k * MinuteLen \in Nat /\ (k + 1) * MinuteLen \in Nat
      BY <1>2
    <2>4. /\ MinuteLen * (MaxMinutes + 1) \in Nat /\ MaxDrift \in Nat /\ Word \in Nat
          /\ MinuteLen * (MaxMinutes + 1) + MaxDrift < Word
      OBVIOUS
    <2> HIDE EffectsAssumption
    <2> QED
      BY <2>1, <2>2, <2>3, <2>4
  <1>3. 1 * MinuteLen = MinuteLen /\ 0 + 1 = 1
    OBVIOUS
  <1>4. MinuteLen + MaxDrift < Word
    BY <1>2, <1>3
  <1> QED
    BY <1>1, <1>2, <1>4

(* The remainder of a sum, one part of which was reduced before.  It is    *)
(* the sum if that is in range, and never more than it if it is no less    *)
(* than 0.                                                                 *)
LEMMA ReducedSum ==
  ASSUME NEW w \in Nat \ {0}, NEW t \in Nat, NEW delta \in Int, t + delta >= 0
  PROVE  /\ (t + (delta % w)) % w \in Nat
         /\ (t + (delta % w)) % w <= t + delta
         /\ t + delta < w => (t + (delta % w)) % w = t + delta
  <1> DEFINE r == delta % w
             q == delta \div w
             y == t + r
             z == y % w
             k == y \div w
  <1>1. q \in Int /\ r \in 0 .. w - 1 /\ q * w + r = delta
    OBVIOUS
  <1> HIDE DEF r, q
  <1>2. y \in Nat
    BY <1>1
  <1> HIDE DEF y
  <1>3. k \in Int /\ z \in 0 .. w - 1 /\ k * w + z = y
    BY <1>2
  <1> HIDE DEF z, k
  <1>4. t + delta = (k + q) * w + z
    <2>1. t + delta = q * w + y
      BY <1>1 DEF y
    <2>2. (k + q) * w = k * w + q * w
      BY <1>1, <1>3
    <2>3. k * w \in Int /\ q * w \in Int /\ z \in Int /\ y \in Int
      BY <1>1, <1>2, <1>3
    <2> QED
      BY <1>3, <2>1, <2>2, <2>3
  <1> DEFINE c == k + q
  <1>5. c \in Int
    BY <1>1, <1>3
  <1>6. c >= 0
    <2> SUFFICES ASSUME c <= -1 PROVE FALSE
      BY <1>5
    <2>1. -c \in Nat /\ 1 <= -c
      BY <1>5
    <2>2. 1 * w <= (-c) * w
      BY <2>1, TimesMonotone
    <2>3. (-c) * w = -(c * w) /\ c * w \in Int
      BY <1>5
    <2> QED
      BY <1>3, <1>4, <2>2, <2>3
  <1>7. c * w \in Nat /\ (c # 0 => c * w >= w)
    <2>1. c \in Nat
      BY <1>5, <1>6
    <2>2. c * w \in Nat
      BY <2>1
    <2>3. ASSUME c # 0 PROVE 1 * w <= c * w
      <3>1. 1 <= c
        BY <2>1, <2>3
      <3> QED
        BY <2>1, <3>1, TimesMonotone
    <2> QED
      BY <2>2, <2>3
  <1>8. /\ z \in Nat /\ z <= t + delta
        /\ t + delta < w => z = t + delta
    <2>1. t + delta = c * w + z /\ z \in 0 .. w - 1
      BY <1>3, <1>4
    <2>2. c = 0 => c * w = 0
      OBVIOUS
    <2> HIDE DEF c
    <2> QED
      BY <1>7, <2>1, <2>2
  <1> QED
    BY <1>8 DEF z, y, r

(* Where a round ends that begins in a minute at i and takes d. *)
LEMMA RoundEnds ==
  ASSUME NEW i, i \in 0 .. MinuteLen - 1, NEW d, d \in 1 .. Second
  PROVE  /\ i + d >= MinuteLen => (i + d) % MinuteLen = i + d - MinuteLen
         /\ i + d < MinuteLen => (i + d) % MinuteLen = i + d
         /\ i + d >= MinuteLen => (i + d) \div Second > i \div Second
  <1> USE Lengths
  <1>1. (i + d) % MinuteLen = IF i + d >= MinuteLen THEN i + d - MinuteLen ELSE i + d
    <2>1. i + d < 2 * MinuteLen /\ i + d \in Nat
      OBVIOUS
    <2>2. (i + d) \div MinuteLen = IF i + d >= MinuteLen THEN 1 ELSE 0
      <3>1. /\ i + d >= 1 * MinuteLen => (i + d) \div MinuteLen >= 1
            /\ i + d < 1 * MinuteLen => (i + d) \div MinuteLen < 1
            /\ i + d < 2 * MinuteLen => (i + d) \div MinuteLen < 2
            /\ (i + d) \div MinuteLen \in Nat
        BY <2>1, Quotient
      <3> QED
        BY <2>1, <3>1
    <2>3. (i + d) % MinuteLen = (i + d) - ((i + d) \div MinuteLen) * MinuteLen
      BY <2>1, Quotient
    <2> QED
      BY <2>1, <2>2, <2>3
  <1>2. ASSUME i + d >= MinuteLen
        PROVE  (i + d) \div Second > i \div Second
    <2> DEFINE q == MinuteLen \div Second
    <2>1. q \in Nat /\ MinuteLen = q * Second
      BY EffectsAssumption
    <2> HIDE DEF q
    <2>2. (i + d) \div Second >= q /\ i \div Second < q
      BY <1>2, <2>1, Quotient
    <2> QED
      BY <2>1, <2>2
  <1> QED
    BY <1>1, <1>2

-----------------------------------------------------------------------------
(* The time that the effects go by *)

(* Booting begins alarm and minute together only by chance: until a minute *)
(* has begun, sinceOffset is behind.  From then on it is, but for the      *)
(* drift, as late as the round that noticed the minute.  As long as the    *)
(* clock is not set, alarm_active and sinceOffset make the running time    *)
(* that was last used.                                                     *)
EffectsInv ==
  /\ inMinute \in 0 .. MinuteLen - 1 /\ sinceOffset \in Nat
  /\ drift \in -MaxDrift .. MaxDrift
  /\ alarm_active \in 0 .. MaxMinutes
  /\ alarms \in Nat /\ clockSets \in Nat /\ last_running_time \in Nat
  /\ strobe_trigger \in Nat /\ sound_trigger \in Nat
  /\ synced => Rounds # {} /\ inMinute + drift - sinceOffset \in 0 .. LongestRound - 1
  /\ clockSets = 0 =>
       /\ sinceOffset <= inMinute + drift
       /\ alarm_active > 0 =>
            ~jumped /\ last_running_time = (alarm_active - 1) * MinuteLen + sinceOffset
       /\ alarm_active > 0 /\ regular => synced

LEMMA InitEffectsInv == Init => EffectsInv
  BY Lengths DEF Init, EffectsInv

(* What alarm_update may answer, with no jump of the clock before. *)
LEMMA UpdateAnswers ==
  ASSUME EffectsInv, NEW newMinute \in BOOLEAN, AlarmUpdate(newMinute)
  PROVE  /\ alarm_active' \in 0 .. MaxMinutes /\ alarms' \in Nat /\ ~jumped'
         /\ alarm_active > 0 /\ ~jumped =>
              /\ UNCHANGED <<alarms, regular>>
              /\ newMinute => alarm_active' = alarm_active + 1 \/ alarm_active' = 0
              /\ ~newMinute => alarm_active' = alarm_active
         /\ alarm_active = 0 =>
              \/ alarm_active' = 0 /\ UNCHANGED <<alarms, regular>>
              \/ /\ alarm_active' > 0 /\ alarms' = alarms + 1
                 /\ regular' => newMinute /\ alarms = 0 /\ alarm_active' = 1
  <1>1. /\ alarm_active \in 0 .. MaxMinutes /\ alarms \in Nat /\ MaxMinutes \in Nat \ {0}
        /\ jumped' = FALSE
    BY Lengths DEF EffectsInv, AlarmUpdate
  <1>2. CASE newMinute /\ alarm_active = 0 /\ Begin(1, TRUE)
    <2>1. alarm_active' = 1 /\ alarms' = alarms + 1 /\ (regular' => alarms = 0)
      BY <1>2 DEF Begin
    <2> QED
      BY <1>1, <1>2, <2>1
  <1>3. CASE newMinute /\ NextMinute
    <2>1. (alarm_active + 1) % (MaxMinutes + 1) = IF alarm_active = MaxMinutes THEN 0 ELSE alarm_active + 1
      BY <1>1
    <2>2. /\ alarm_active > 0 /\ UNCHANGED <<alarms, regular>>
          /\ alarm_active' = IF alarm_active = MaxMinutes THEN 0 ELSE alarm_active + 1
      BY <1>3, <2>1 DEF NextMinute, MoveTo
    <2> QED
      BY <1>1, <1>3, <2>2
  <1>4. CASE jumped /\ alarm_active = 0 /\ \E minute \in 1 .. MaxMinutes : Begin(minute, FALSE)
    <2>1. alarm_active' \in 1 .. MaxMinutes /\ alarms' = alarms + 1 /\ ~regular'
      BY <1>4 DEF Begin
    <2> QED
      BY <1>1, <1>4, <2>1
  <1>5. CASE jumped /\ alarm_active > 0 /\ \E minute \in 0 .. MaxMinutes : MoveTo(minute)
    <2>1. alarm_active' \in 0 .. MaxMinutes /\ UNCHANGED <<alarms, regular>>
      BY <1>5 DEF MoveTo
    <2> QED
      BY <1>1, <1>5, <2>1
  <1>6. CASE ~(newMinute /\ alarm_active > 0) /\ GoOn
    <2>1. UNCHANGED <<alarm_active, alarms, regular>>
      BY <1>6 DEF GoOn
    <2> QED
      BY <1>1, <1>6, <2>1
  <1> QED
    BY <1>2, <1>3, <1>4, <1>5, <1>6 DEF AlarmUpdate

(* Every phase has a period. *)
LEMMA StrobePeriodPositive ==
  ASSUME RunningTime \in Nat
  PROVE  StrobePeriod \in Nat \ {0}
  <1> DEFINE last == Len(StrobePeriods) - 1
  <1>1. Phase \in Nat
    BY Lengths DEF Phase
  <1>2. StrobePeriods \in Seq(Nat \ {0}) /\ Len(StrobePeriods) > 1
    BY EffectsAssumption
  <1>3. last \in Nat \ {0}
    BY <1>2
  <1>4. LightPhase = IF Phase <= last THEN Phase ELSE ((Phase - 1) % last) + 1
    BY DEF LightPhase
  <1>5. LightPhase \in 0 .. last
    <2> HIDE DEF last
    <2>1. (Phase - 1) % last \in 0 .. last - 1
      BY <1>1, <1>3
    <2> QED
      BY <1>1, <1>3, <1>4, <2>1
  <1> QED
    BY <1>2, <1>5 DEF StrobePeriod

(* The running time in minute a of the alarm. *)
LEMMA RunningTimes ==
  ASSUME NEW a \in 1 .. MaxMinutes, NEW s \in Nat
  PROVE  LET u == (a - 1) * MinuteLen + s
         IN  /\ u \in Nat /\ u % Word \in Nat
             /\ s < MinuteLen + MaxDrift => u < Word /\ u % Word = u
  <1> DEFINE k == a - 1
             u == k * MinuteLen + s
  <1>1. k \in Nat /\ k <= MaxMinutes
    BY Lengths
  <1> HIDE DEF k
  <1>2. k * MinuteLen \in Nat /\ (k + 1) * MinuteLen + MaxDrift < Word
    BY <1>1, Lengths
  <1>3. (k + 1) * MinuteLen = k * MinuteLen + MinuteLen
    BY <1>1, Lengths
  <1>4. u \in Nat /\ (s < MinuteLen + MaxDrift => u < Word)
    BY <1>2, <1>3, Lengths
  <1> HIDE DEF u
  <1>5. u % Word \in Nat /\ (u < Word => u % Word = u)
    BY <1>4, Lengths
  <1> QED
    BY <1>4, <1>5 DEF k, u

(* The periods of the sounds are positive too, where there is one. *)
LEMMA SoundPeriodNatural ==
  ASSUME RunningTime \in Nat
  PROVE  SoundPeriod \in Nat
  <1>1. Phase \in Nat
    BY Lengths DEF Phase
  <1>2. SoundPeriods \in Seq(Nat \ {0}) /\ Len(SoundPeriods) \in Nat \ {0}
    BY EffectsAssumption
  <1>3. CASE Phase < 3
    BY <1>3 DEF SoundPeriod
  <1>4. CASE ~(Phase < 3)
    <2> DEFINE i == Phase - 2
               n == Len(SoundPeriods)
    <2>1. i \in Nat \ {0} /\ n \in Nat \ {0}
      BY <1>1, <1>2, <1>4
    <2> HIDE DEF i, n
    <2>2. Min({i, n}) = IF i <= n THEN i ELSE n
      BY <2>1 DEF Min
    <2>3. Min({i, n}) \in 1 .. n
      BY <2>1, <2>2
    <2>4. SoundPeriod = SoundPeriods[Min({i, n})]
      BY <1>4 DEF SoundPeriod, i, n
    <2> QED
      BY <1>2, <2>3, <2>4 DEF n
  <1> QED
    BY <1>3, <1>4

(* A trigger after the time since the last round was added. *)
Added(trigger) == (trigger + MillisecondDelta) % Word

LEMMA AddedNatural ==
  ASSUME EffectsInv, RunningTime \in Nat, NEW trigger \in Nat
  PROVE  /\ Added(trigger) \in Nat
         /\ trigger + RunningTime >= last_running_time =>
              Added(trigger) <= trigger + RunningTime - last_running_time
         /\ trigger + RunningTime >= last_running_time
            /\ trigger + RunningTime - last_running_time < Word =>
              Added(trigger) = trigger + RunningTime - last_running_time
  <1> DEFINE delta == RunningTime - last_running_time
  <1>1. delta \in Int /\ Word \in Nat \ {0} /\ last_running_time \in Nat
    BY Lengths DEF EffectsInv
  <1>2. Added(trigger) = (trigger + (delta % Word)) % Word
    BY DEF Added, MillisecondDelta
  <1>3. Added(trigger) \in Nat
    <2>1. delta % Word \in Nat
      BY <1>1
    <2> HIDE DEF delta
    <2> QED
      BY <1>1, <1>2, <2>1
  <1>4. trigger + RunningTime - last_running_time = trigger + delta
        /\ (trigger + RunningTime >= last_running_time => trigger + delta >= 0)
    BY <1>1
  <1> HIDE DEF delta
  <1> QED
    BY <1>1, <1>2, <1>3, <1>4, ReducedSum

(* What a round leaves in the triggers. *)
LEMMA TriggersAfter ==
  ASSUME EffectsInv, Effects, RunningTime \in Nat
  PROVE  /\ strobe_trigger' = IF Added(strobe_trigger) >= StrobePeriod
                                THEN Added(strobe_trigger) - StrobePeriod
                                ELSE Added(strobe_trigger)
         /\ LightPhase >= 2 => (lit' <=> Added(strobe_trigger) >= StrobePeriod)
         /\ strobe_trigger' \in Nat /\ strobe_trigger' <= Added(strobe_trigger)
         /\ sound_trigger' \in Nat
         /\ sound_trigger' = 0 \/ sound_trigger' <= Added(sound_trigger)
  <1>1. /\ strobe_trigger \in Nat /\ sound_trigger \in Nat
        /\ Added(strobe_trigger) \in Nat /\ Added(sound_trigger) \in Nat
    BY AddedNatural DEF EffectsInv
  <1>2. StrobePeriod \in Nat \ {0} /\ SoundPeriod \in Nat
    BY StrobePeriodPositive, SoundPeriodNatural
  <1>3. /\ strobe_trigger' = IF Added(strobe_trigger) >= StrobePeriod
                               THEN Added(strobe_trigger) - StrobePeriod
                               ELSE Added(strobe_trigger)
        /\ LightPhase >= 2 => lit' = (Added(strobe_trigger) >= StrobePeriod)
    BY DEF Effects, Strobe, Added
  <1>4. strobe_trigger' \in Nat /\ strobe_trigger' <= Added(strobe_trigger)
    BY <1>1, <1>2, <1>3
  <1> DEFINE heard == IF Phase < 3 THEN 0 ELSE Added(sound_trigger)
  <1>5. sound_trigger' = IF heard >= SoundPeriod /\ SoundPeriod > 0
                           THEN heard - SoundPeriod ELSE heard
    <2>1. /\ tone' = (heard >= SoundPeriod /\ SoundPeriod > 0)
          /\ sound_trigger' = IF tone' THEN heard - SoundPeriod ELSE heard
      BY DEF Effects, Sound, Added
    <2> QED
      BY <2>1, Zenon
  <1>6. heard \in Nat /\ (heard = 0 \/ heard = Added(sound_trigger))
    BY <1>1
  <1> HIDE DEF heard
  <1>7. sound_trigger' \in Nat /\ sound_trigger' <= heard
    BY <1>2, <1>5, <1>6
  <1>8. sound_trigger' = 0 \/ sound_trigger' <= Added(sound_trigger)
    BY <1>6, <1>7
  <1> QED
    BY <1>1, <1>3, <1>4, <1>7, <1>8

(* A round of loop() keeps the running time and the triggers in range. *)
LEMMA UpdateAlarm ==
  ASSUME EffectsInv, update_alarm, alarm_active' \in 0 .. MaxMinutes, sinceOffset' \in Nat
  PROVE  /\ last_running_time' \in Nat /\ strobe_trigger' \in Nat /\ sound_trigger' \in Nat
         /\ alarm_active' = 0 =>
              UNCHANGED last_running_time /\ strobe_trigger' = 0 /\ sound_trigger' = 0 /\ ~lit'
         /\ alarm_active' > 0 =>
              /\ last_running_time' = ((alarm_active' - 1) * MinuteLen + sinceOffset') % Word
              /\ last_running_time' = RunningTime /\ RunningTime \in Nat
              /\ Effects
  <1>1. CASE alarm_active' = 0
    BY <1>1 DEF update_alarm, Dark, EffectsInv
  <1>2. CASE alarm_active' # 0
    <2>1. alarm_active' \in 1 .. MaxMinutes
      BY <1>2, Lengths
    <2>2. RunningTime \in Nat
      BY <2>1, RunningTimes DEF RunningTime
    <2>3. last_running_time' = RunningTime /\ Effects
      BY <1>2 DEF update_alarm, Effects
    <2>4. strobe_trigger' \in Nat /\ sound_trigger' \in Nat
      BY <2>2, <2>3, TriggersAfter
    <2> QED
      BY <1>2, <2>2, <2>3, <2>4 DEF RunningTime
  <1> QED
    BY <1>1, <1>2

(* How far sinceOffset is behind, after a round within a minute. *)
LEMMA SameDistance ==
  ASSUME NEW i \in Int, NEW gained \in Int, NEW s \in Int, NEW d \in Int, NEW m \in Int
  PROVE  /\ (i + d) + (gained + m - d) - (s + m) = i + gained - s
         /\ s <= i + gained => s + m <= (i + d) + (gained + m - d)
  OBVIOUS

LEMMA LoopEffectsInv ==
  ASSUME EffectsInv, NEW d \in Rounds, NEW m \in Rounds, Loop(d, m)
  PROVE  EffectsInv'
  <1> DEFINE t == inMinute + d
  <1>1. /\ d \in 1 .. LongestRound /\ m \in 1 .. LongestRound
        /\ LongestRound \in 1 .. Second /\ d \in 1 .. Second
        /\ LongestRound \in Nat
    BY Longest, Lengths
  <1>2. /\ inMinute \in 0 .. MinuteLen - 1 /\ sinceOffset \in Nat /\ inMinute \in Nat
        /\ drift \in -MaxDrift .. MaxDrift /\ drift \in Int
    BY Lengths DEF EffectsInv
  <1>3. /\ inMinute' = IF t >= MinuteLen THEN t - MinuteLen ELSE t
        /\ t >= MinuteLen => t \div Second > inMinute \div Second
    <2>1. inMinute' = t % MinuteLen
      BY DEF Loop
    <2>2. inMinute \in 0 .. MinuteLen - 1 /\ d \in 1 .. Second
      BY <1>1, <1>2
    <2>3. inMinute \in Nat /\ d \in Nat /\ MinuteLen \in Nat \ {0} /\ Second \in Nat \ {0}
      BY <1>1, <1>2, Lengths
    <2>4. /\ inMinute + d >= MinuteLen => (inMinute + d) % MinuteLen = inMinute + d - MinuteLen
          /\ inMinute + d < MinuteLen => (inMinute + d) % MinuteLen = inMinute + d
          /\ inMinute + d >= MinuteLen => (inMinute + d) \div Second > inMinute \div Second
      BY <2>2, RoundEnds
    <2> QED
      BY <2>1, <2>3, <2>4
  <1> DEFINE newMinute == t >= MinuteLen
             newSecond == t \div Second > inMinute \div Second
  <1>4. /\ sinceOffset' = IF newMinute THEN 0 ELSE (sinceOffset + m) % Word
        /\ drift + m - d \in -MaxDrift .. MaxDrift
        /\ drift' = IF newMinute THEN 0 ELSE drift + m - d
        /\ IF newSecond THEN AlarmUpdate(newMinute) ELSE GoOn /\ UNCHANGED jumped
        /\ update_alarm
        /\ synced' = (synced \/ newMinute)
        /\ clockSets' = clockSets
    BY DEF Loop
  <1>5. t \in Nat /\ newMinute \in BOOLEAN /\ (newMinute <=> t >= MinuteLen) /\ (newMinute => newSecond)
    BY <1>1, <1>2, <1>3
  <1>6. (sinceOffset + m) % Word \in Nat /\ (sinceOffset + m < Word => (sinceOffset + m) % Word = sinceOffset + m)
    BY <1>1, <1>2, Lengths
  <1>7. inMinute' = IF newMinute THEN t - MinuteLen ELSE t
    BY <1>3
  <1>8. /\ MinuteLen \in Nat /\ Word \in Nat /\ MinuteLen + MaxDrift < Word /\ MaxDrift \in Nat
        /\ Second <= MinuteLen /\ Second \in Nat
    BY Lengths
  <1> HIDE DEF newMinute, newSecond
  <1>9. /\ inMinute' \in 0 .. MinuteLen - 1 /\ sinceOffset' \in Nat
        /\ drift' \in -MaxDrift .. MaxDrift
    BY <1>1, <1>2, <1>4, <1>5, <1>6, <1>7, <1>8
  <1>10. /\ alarm_active' \in 0 .. MaxMinutes /\ alarms' \in Nat
         /\ clockSets \in Nat
    <2>1. CASE newSecond
      BY <1>4, <1>5, <2>1, UpdateAnswers DEF EffectsInv
    <2>2. CASE ~newSecond
      BY <1>4, <2>2 DEF GoOn, EffectsInv
    <2> QED
      BY <2>1, <2>2
  <1>11. last_running_time' \in Nat /\ strobe_trigger' \in Nat /\ sound_trigger' \in Nat
    BY <1>4, <1>9, <1>10, UpdateAlarm
  <1>12. ASSUME ~newMinute, sinceOffset <= inMinute + drift
         PROVE  sinceOffset' = sinceOffset + m /\ drift' = drift + m - d /\ inMinute' = inMinute + d
    <2>1. sinceOffset + m < Word
      BY <1>1, <1>2, <1>4, <1>5, <1>8, <1>12
    <2> QED
      BY <1>4, <1>6, <1>7, <1>12, <2>1
  <1>13. synced' => inMinute' + drift' - sinceOffset' \in 0 .. LongestRound - 1
    <2>1. CASE newMinute
      BY <1>1, <1>2, <1>4, <1>5, <1>7, <1>8, <2>1
    <2>2. CASE ~newMinute
      <3>1. synced => inMinute + drift - sinceOffset \in 0 .. LongestRound - 1
        BY DEF EffectsInv
      <3>2. synced => sinceOffset <= inMinute + drift
        BY <1>1, <1>2, <3>1
      <3>3. synced =>
              /\ sinceOffset' = sinceOffset + m /\ drift' = drift + m - d
              /\ inMinute' = inMinute + d
        BY <1>12, <2>2, <3>2
      <3>4. m \in Int /\ d \in Int /\ inMinute \in Int /\ drift \in Int /\ sinceOffset \in Int
        BY <1>1, <1>2
      <3>5. synced => inMinute' + drift' - sinceOffset' = inMinute + drift - sinceOffset
        <4>1. (inMinute + d) + (drift + m - d) - (sinceOffset + m) = inMinute + drift - sinceOffset
          BY <3>4, SameDistance
        <4> QED
          BY <3>3, <4>1, Zenon
      <3>6. synced' => synced
        BY <1>4, <2>2
      <3> QED
        BY <3>1, <3>5, <3>6
    <2> QED
      BY <2>1, <2>2
  <1>14. ASSUME clockSets = 0
         PROVE  /\ sinceOffset' <= inMinute' + drift'
                /\ alarm_active' > 0 =>
                     /\ ~jumped'
                     /\ last_running_time' = (alarm_active' - 1) * MinuteLen + sinceOffset'
                     /\ regular' => synced'
    <2>1. sinceOffset' <= inMinute' + drift'
      <3>1. sinceOffset <= inMinute + drift
        BY <1>14 DEF EffectsInv
      <3>2. CASE newMinute
        <4>1. sinceOffset' = 0 /\ drift' = 0
          BY <1>4, <3>2
        <4>2. inMinute' \in Nat
          BY <1>8, <1>9
        <4>3. \A i \in Nat : 0 <= i + 0
          OBVIOUS
        <4> QED
          BY <4>1, <4>2, <4>3, Zenon
      <3>3. CASE ~newMinute
        <4>1. /\ sinceOffset' = sinceOffset + m /\ drift' = drift + m - d
              /\ inMinute' = inMinute + d
          BY <1>12, <3>1, <3>3
        <4>2. m \in Int /\ d \in Int /\ inMinute \in Int /\ drift \in Int /\ sinceOffset \in Int
          BY <1>1, <1>2
        <4>3. sinceOffset + m <= (inMinute + d) + (drift + m - d)
          BY <3>1, <4>2, SameDistance
        <4> QED
          BY <4>1, <4>3, Zenon
      <3> QED
        BY <3>2, <3>3
    <2> SUFFICES ASSUME alarm_active' > 0
                 PROVE  /\ ~jumped'
                        /\ last_running_time' = (alarm_active' - 1) * MinuteLen + sinceOffset'
                        /\ regular' => synced'
      BY <2>1
    <2>2. alarm_active' \in 1 .. MaxMinutes /\ alarm_active \in 0 .. MaxMinutes
      BY <1>10, Lengths DEF EffectsInv
    <2>3. sinceOffset' < MinuteLen + MaxDrift
      <3>1. sinceOffset' \in Int /\ inMinute' \in Int /\ drift' \in Int
            /\ inMinute' <= MinuteLen - 1 /\ drift' <= MaxDrift
        BY <1>8, <1>9
      <3>2. \A s, i, gained \in Int :
              s <= i + gained /\ i <= MinuteLen - 1 /\ gained <= MaxDrift => s < MinuteLen + MaxDrift
        <4> HIDE DEF t
        <4> QED
          BY <1>8
      <3> QED
        BY <2>1, <3>1, <3>2, Zenon
    <2>4. last_running_time' = (alarm_active' - 1) * MinuteLen + sinceOffset'
      BY <1>4, <1>9, <1>10, <2>2, <2>3, UpdateAlarm, RunningTimes
    <2>5. alarm_active > 0 => ~jumped /\ (regular => synced)
      BY <1>14 DEF EffectsInv
    <2>6. CASE newSecond
      <3>1. AlarmUpdate(newMinute)
        BY <1>4, <2>6
      <3>2. ~jumped'
        BY <1>5, <3>1, UpdateAnswers
      <3>3. CASE alarm_active > 0
        <4>1. UNCHANGED <<alarms, regular>>
          BY <1>5, <2>5, <3>1, <3>3, UpdateAnswers
        <4> QED
          BY <1>4, <2>4, <2>5, <3>2, <3>3, <4>1
      <3>4. CASE alarm_active = 0
        <4>1. regular' => newMinute
          <5>1. alarm_active' # 0
            BY <2>2
          <5> QED
            BY <1>5, <5>1, <3>1, <3>4, UpdateAnswers
        <4>2. regular' => synced'
          BY <1>4, <4>1
        <4> QED
          BY <2>4, <3>2, <4>2
      <3> QED
        BY <2>2, <3>3, <3>4
    <2>7. CASE ~newSecond
      BY <1>4, <2>4, <2>5, <2>7 DEF GoOn
    <2> QED
      BY <2>6, <2>7
  <1>15. EffectsInv'
    BY <1>4, <1>9, <1>10, <1>11, <1>13, <1>14 DEF EffectsInv, LongestRound
  <1> QED
    BY <1>15

LEMMA StepEffectsInv == EffectsInv /\ [Next]_vars => EffectsInv'
  <1> SUFFICES ASSUME EffectsInv, [Next]_vars PROVE EffectsInv'
    OBVIOUS
  <1>1. CASE \E d, m \in Rounds : Loop(d, m)
    BY <1>1, LoopEffectsInv
  <1>2. CASE Cancel
    <2>1. 0 \in 0 .. MaxMinutes /\ 0 \in Nat
      BY Lengths
    <2> QED
      BY <1>2, <2>1 DEF Cancel, Dark, EffectsInv, LongestRound
  <1>3. CASE \E t \in ClockTimes : ClockSet(t)
    <2>1. PICK t \in ClockTimes : ClockSet(t)
      BY <1>3
    <2>2. t \in 0 .. MinuteLen - 1 /\ 0 \in -MaxDrift .. MaxDrift
      BY EffectsAssumption
    <2>3. clockSets' \in Nat /\ clockSets' # 0
      BY <2>1 DEF ClockSet, EffectsInv
    <2> QED
      BY <2>1, <2>2, <2>3 DEF ClockSet, EffectsInv
  <1>4. CASE UNCHANGED vars
    BY <1>4 DEF vars, EffectsInv, LongestRound
  <1> QED
    BY <1>1, <1>2, <1>3, <1>4 DEF Next

(* The inductive invariant. *)
THEOREM EffectsInvariance == Spec => []EffectsInv
  BY InitEffectsInv, StepEffectsInv, PTL DEF Spec

(* cpeclock.ino:286 and 466: whenever the clock is set and whatever time   *)
(* it boots at, from the next minute on the time of the effects is that of *)
(* the clock, as late as the round that noticed the minute and as far from *)
(* it as two clocks come apart in one minute: their difference is not      *)
(* carried into the next.                                                  *)
THEOREM OffsetIsOfMinute == Spec => []OffsetFollowsMinute
  <1>1. EffectsInv => OffsetFollowsMinute
    <2> SUFFICES ASSUME EffectsInv, synced
                 PROVE  inMinute - sinceOffset \in -MaxDrift .. LongestRound - 1 + MaxDrift
      BY DEF OffsetFollowsMinute
    <2>1. PICK d \in Rounds : TRUE
      BY DEF EffectsInv
    <2>2. LongestRound \in Nat
      BY Longest, Lengths
    <2>3. /\ inMinute \in Int /\ sinceOffset \in Int /\ drift \in Int /\ MaxDrift \in Nat
          /\ drift \in -MaxDrift .. MaxDrift
          /\ inMinute + drift - sinceOffset \in 0 .. LongestRound - 1
      BY Lengths DEF EffectsInv
    <2> QED
      BY <2>2, <2>3
  <1> QED
    BY <1>1, EffectsInvariance, PTL

(* cpeclock.ino:322: a trigger that holds no more than the running time    *)
(* goes on doing so, with any number of alarms, buttons and clock_set      *)
(* commands, unless the running time goes back by more than it holds.      *)
THEOREM TriggersOnlyWrapBack == Spec => TriggersWrapOnlyBack
  <1> DEFINE Held == alarm_active > 0 /\ Behind /\ ~Behind' =>
                       last_running_time' + Min({strobe_trigger, sound_trigger}) < last_running_time
  <1>1. EffectsInv /\ EffectsInv' /\ [Next]_vars => [Held]_vars
    <2> SUFFICES ASSUME EffectsInv, EffectsInv', Next, Behind,
                        ~(last_running_time' + Min({strobe_trigger, sound_trigger}) < last_running_time)
                 PROVE  Behind'
      OBVIOUS
    <2>1. /\ last_running_time \in Nat /\ strobe_trigger \in Nat /\ sound_trigger \in Nat
          /\ last_running_time' \in Nat /\ strobe_trigger' \in Nat /\ sound_trigger' \in Nat
          /\ strobe_trigger <= last_running_time /\ sound_trigger <= last_running_time
      BY DEF EffectsInv, Behind
    <2>2. /\ strobe_trigger + last_running_time' >= last_running_time
          /\ sound_trigger + last_running_time' >= last_running_time
      <3>1. Min({strobe_trigger, sound_trigger})
              = IF strobe_trigger <= sound_trigger THEN strobe_trigger ELSE sound_trigger
        BY <2>1 DEF Min
      <3>2. ~(last_running_time' + (IF strobe_trigger <= sound_trigger
                                      THEN strobe_trigger ELSE sound_trigger) < last_running_time)
        BY <3>1, Zenon
      <3>3. \A last, next, a, b \in Nat :
              ~(next + (IF a <= b THEN a ELSE b) < last) => a + next >= last /\ b + next >= last
        OBVIOUS
      <3> QED
        BY <2>1, <3>2, <3>3, Zenon
    <2>3. CASE \E d, m \in Rounds : Loop(d, m)
      <3>1. update_alarm /\ alarm_active' \in 0 .. MaxMinutes /\ sinceOffset' \in Nat
        BY <2>3 DEF Loop, EffectsInv
      <3>2. CASE alarm_active' = 0
        BY <2>1, <3>1, <3>2, UpdateAlarm DEF Behind
      <3>3. CASE alarm_active' > 0
        <4>1. last_running_time' = RunningTime /\ RunningTime \in Nat /\ Effects
          BY <3>1, <3>3, UpdateAlarm
        <4>2. /\ Added(strobe_trigger) <= strobe_trigger + last_running_time' - last_running_time
              /\ Added(sound_trigger) <= sound_trigger + last_running_time' - last_running_time
              /\ Added(strobe_trigger) \in Nat /\ Added(sound_trigger) \in Nat
          BY <2>1, <2>2, <4>1, AddedNatural
        <4>3. /\ strobe_trigger' <= Added(strobe_trigger)
              /\ sound_trigger' = 0 \/ sound_trigger' <= Added(sound_trigger)
          BY <4>1, TriggersAfter
        <4> QED
          BY <2>1, <4>2, <4>3 DEF Behind
      <3> QED
        BY <3>1, <3>2, <3>3, Lengths
    <2>4. CASE Cancel
      BY <2>1, <2>4 DEF Cancel, Dark, Behind
    <2>5. CASE \E t \in ClockTimes : ClockSet(t)
      BY <2>1, <2>5 DEF ClockSet, Behind
    <2> QED
      BY <2>3, <2>4, <2>5 DEF Next
  <1> QED
    BY <1>1, EffectsInvariance, PTL DEF Spec, TriggersWrapOnlyBack

(* One round of an alarm that goes on, if the clock has not been set. *)
LEMMA RoundOfAlarm ==
  ASSUME EffectsInv, clockSets = 0, alarm_active > 0, NEW d \in Rounds, NEW m \in Rounds,
         Loop(d, m), alarm_active' > 0, EffectsInv'
  PROVE  /\ m \in 1 .. LongestRound /\ LongestRound \in Nat
         /\ regular' = regular /\ alarms' = alarms
         /\ Effects /\ last_running_time' = RunningTime /\ RunningTime \in Nat
         /\ \/ /\ alarm_active' = alarm_active
               /\ last_running_time' = last_running_time + m
            \/ /\ alarm_active' = alarm_active + 1 /\ sinceOffset' = 0
               /\ last_running_time - last_running_time' < drift
               /\ regular => last_running_time' - last_running_time <= 2 * LongestRound + MaxDrift
  <1> DEFINE t == inMinute + d
             newMinute == t >= MinuteLen
             newSecond == t \div Second > inMinute \div Second
  <1>1. /\ d \in 1 .. LongestRound /\ m \in 1 .. LongestRound /\ LongestRound \in Nat
        /\ d \in 1 .. Second /\ m \in 1 .. Second
    BY Longest, Lengths
  <1>2. /\ inMinute \in Nat /\ inMinute \in 0 .. MinuteLen - 1 /\ sinceOffset \in Nat
        /\ drift \in -MaxDrift .. MaxDrift /\ drift \in Int
        /\ sinceOffset <= inMinute + drift /\ alarm_active \in 1 .. MaxMinutes
        /\ ~jumped /\ last_running_time = (alarm_active - 1) * MinuteLen + sinceOffset
        /\ regular => inMinute + drift - sinceOffset <= LongestRound - 1
    BY <1>1, Lengths DEF EffectsInv
  <1>3. clockSets' = 0 /\ alarm_active' \in 1 .. MaxMinutes /\ sinceOffset' \in Nat
        /\ last_running_time' = (alarm_active' - 1) * MinuteLen + sinceOffset'
    BY Lengths DEF Loop, EffectsInv
  <1>4. /\ sinceOffset' = IF newMinute THEN 0 ELSE (sinceOffset + m) % Word
        /\ drift + m - d \in -MaxDrift .. MaxDrift
        /\ IF newSecond THEN AlarmUpdate(newMinute) ELSE GoOn /\ UNCHANGED jumped
        /\ update_alarm
    BY DEF Loop
  <1>5. newMinute => newSecond
    BY <1>1, <1>2, RoundEnds
  <1>6. Effects /\ last_running_time' = RunningTime /\ RunningTime \in Nat
    <2>1. alarm_active' \in 0 .. MaxMinutes
      BY <1>3, Lengths
    <2> QED
      BY <1>3, <1>4, <2>1, UpdateAlarm
  <1>7. newMinute \in BOOLEAN /\ (newMinute <=> inMinute + d >= MinuteLen)
    OBVIOUS
  <1>8. /\ MinuteLen \in Nat /\ Word \in Nat /\ MinuteLen + MaxDrift < Word
        /\ Second <= MinuteLen /\ Second \in Nat /\ MaxDrift \in Nat
    BY Lengths
  <1> HIDE DEF newMinute, newSecond
  <1>9. UNCHANGED <<regular, alarms>> /\ alarm_active' = IF newMinute THEN alarm_active + 1 ELSE alarm_active
    <2>1. CASE newSecond
      <3>1. /\ UNCHANGED <<alarms, regular>>
            /\ newMinute => alarm_active' = alarm_active + 1 \/ alarm_active' = 0
            /\ ~newMinute => alarm_active' = alarm_active
        BY <1>2, <1>4, <1>7, <2>1, UpdateAnswers
      <3> QED
        BY <1>3, <3>1
    <2>2. CASE ~newSecond
      BY <1>4, <1>5, <2>2 DEF GoOn
    <2> QED
      BY <2>1, <2>2
  <1>10. CASE newMinute
    <2> DEFINE before == (alarm_active - 1) * MinuteLen
    <2>1. alarm_active' = alarm_active + 1 /\ sinceOffset' = 0
      BY <1>4, <1>9, <1>10
    <2>2. before \in Nat /\ alarm_active * MinuteLen = before + MinuteLen
      BY <1>2, <1>8
    <2>3. last_running_time' = before + MinuteLen
      BY <1>2, <1>3, <1>8, <2>1, <2>2
    <2>4. last_running_time = before + sinceOffset
      BY <1>2
    <2> HIDE DEF before
    <2>5. inMinute <= MinuteLen - 1 /\ inMinute + d >= MinuteLen
      BY <1>2, <1>7, <1>8, <1>10
    <2>6. sinceOffset - MinuteLen < drift
      BY <1>2, <1>8, <2>5
    <2>7. regular => MinuteLen - sinceOffset <= 2 * LongestRound + MaxDrift
      BY <1>1, <1>2, <1>8, <2>5
    <2>8. /\ last_running_time - last_running_time' = sinceOffset - MinuteLen
          /\ last_running_time' - last_running_time = MinuteLen - sinceOffset
      BY <1>2, <1>8, <2>2, <2>3, <2>4
    <2> QED
      BY <1>1, <1>6, <1>9, <2>1, <2>6, <2>7, <2>8
  <1>11. CASE ~newMinute
    <2>1. alarm_active' = alarm_active
      BY <1>9, <1>11
    <2>2. sinceOffset' = sinceOffset + m
      <3>1. sinceOffset + m < Word /\ sinceOffset + m \in Nat
        BY <1>1, <1>2, <1>4, <1>7, <1>8, <1>11
      <3> QED
        BY <1>4, <1>8, <1>11, <3>1
    <2>3. (alarm_active - 1) * MinuteLen \in Nat
      BY <1>2, <1>8
    <2>4. last_running_time' = last_running_time + m
      BY <1>1, <1>2, <1>3, <2>1, <2>2, <2>3
    <2> QED
      BY <1>1, <1>6, <1>9, <2>1, <2>4
  <1> QED
    BY <1>10, <1>11

(* A step of an alarm that goes on with the clock never set is a round. *)
LEMMA AlarmStep ==
  ASSUME EffectsInv, [Next]_vars, clockSets' = 0, alarm_active' > 0
  PROVE  clockSets = 0 /\ (UNCHANGED vars \/ \E d, m \in Rounds : Loop(d, m))
  <1>1. CASE \E d, m \in Rounds : Loop(d, m)
    BY <1>1 DEF Loop
  <1>2. CASE Cancel
    BY <1>2 DEF Cancel, Dark
  <1>3. CASE \E t \in ClockTimes : ClockSet(t)
    BY <1>3 DEF ClockSet, EffectsInv
  <1>4. CASE UNCHANGED vars
    BY <1>4 DEF vars
  <1> QED
    BY <1>1, <1>2, <1>3, <1>4 DEF Next

(* cpeclock.ino:319 and 464-469: although the end of a minute is noticed   *)
(* in two places, and is the end of the real-time clock's minute and not   *)
(* of millis(), the running time of an alarm goes back only there, by less *)
(* than the drift of that one minute, and never leaps by more than two     *)
(* rounds and that drift, for rounds and minutes of any length.            *)
THEOREM RunningTimeGoesOn == Spec => RunningTimeFollowsClock
  <1> DEFINE Follows ==
        clockSets' = 0 /\ alarm_active > 0 /\ alarm_active' > 0 =>
          /\ \/ last_running_time' > last_running_time
             \/ alarm_active' # alarm_active /\ last_running_time - last_running_time' < drift
          /\ regular => last_running_time' - last_running_time <= 2 * LongestRound + MaxDrift
  <1>1. EffectsInv /\ EffectsInv' /\ [Next]_vars => [Follows]_vars
    <2> SUFFICES ASSUME EffectsInv, EffectsInv', [Next]_vars, clockSets' = 0, alarm_active > 0,
                        alarm_active' > 0, ~UNCHANGED vars
                 PROVE  /\ \/ last_running_time' > last_running_time
                           \/ /\ alarm_active' # alarm_active
                              /\ last_running_time - last_running_time' < drift
                        /\ regular => last_running_time' - last_running_time
                                        <= 2 * LongestRound + MaxDrift
      OBVIOUS
    <2>1. PICK d \in Rounds, m \in Rounds : Loop(d, m) /\ clockSets = 0
      BY AlarmStep
    <2>2. last_running_time \in Nat /\ alarm_active \in Nat /\ MaxDrift \in Nat
      BY Lengths DEF EffectsInv
    <2>3. /\ m \in 1 .. LongestRound /\ LongestRound \in Nat
          /\ \/ /\ alarm_active' = alarm_active
                /\ last_running_time' = last_running_time + m
             \/ /\ alarm_active' = alarm_active + 1
                /\ last_running_time - last_running_time' < drift
                /\ regular => last_running_time' - last_running_time <= 2 * LongestRound + MaxDrift
      BY <2>1, RoundOfAlarm
    <2> QED
      BY <2>2, <2>3
  <1> QED
    BY <1>1, EffectsInvariance, PTL DEF Spec, RunningTimeFollowsClock

-----------------------------------------------------------------------------
(* The strobe of the first alarm *)

(* A minute has two phases; the first two flash equally often; no round is *)
(* longer than the time between two flashes of those; and the third leaves *)
(* room between its flashes for one of the first period, two rounds, and   *)
(* what the clocks come apart in a minute.  In cpeclock.ino phases are     *)
(* 30000 and these periods 250, 250 and 2000 milliseconds.                 *)
ShortRounds ==
  /\ MinuteLen = 2 * PhaseLen /\ MaxDrift <= PhaseLen
  /\ Len(StrobePeriods) > 2 /\ StrobePeriods[2] = StrobePeriods[1]
  /\ LongestRound <= StrobePeriods[1]
  /\ StrobePeriods[1] + 2 * LongestRound + MaxDrift <= StrobePeriods[3]
  /\ StrobePeriods[3] <= PhaseLen

(* The first minute of an alarm lasts longer than two phases if millis()   *)
(* is fast.  What it is over, strobe_trigger holds, without a flash: the   *)
(* running time goes back by as much when the minute ends.                 *)
FirstMinute ==
  /\ last_running_time < MinuteLen => strobe_trigger < StrobePeriods[1]
  /\ last_running_time >= MinuteLen =>
       /\ last_running_time - MinuteLen <= strobe_trigger
       /\ strobe_trigger < StrobePeriods[1] + LongestRound + (last_running_time - MinuteLen)
       /\ ~lit

(* In the second minute strobe_trigger is no longer than the time since    *)
(* the last flash.                                                         *)
SecondMinute ==
  InPhase2 => strobe_trigger < StrobePeriods[3] /\ (lit => strobe_trigger < LongestRound)

StrobeInv ==
  /\ alarms = 0 => regular /\ alarm_active = 0 /\ last_running_time = 0
  /\ alarm_active = 0 => strobe_trigger = 0
  /\ regular /\ clockSets = 0 =>
       /\ alarm_active = 1 => FirstMinute
       /\ alarm_active = 2 => SecondMinute

LEMMA InitStrobeInv == Init => StrobeInv
  BY DEF Init, StrobeInv

(* The periods of the first three phases. *)
LEMMA FirstPeriods ==
  ASSUME ShortRounds, RunningTime \in Nat
  PROVE  /\ RunningTime < MinuteLen => StrobePeriod = StrobePeriods[1]
         /\ RunningTime \div PhaseLen = 2 => LightPhase = 2 /\ StrobePeriod = StrobePeriods[3]
  <1>1. PhaseLen \in Nat \ {0} /\ Phase = RunningTime \div PhaseLen
    BY Lengths DEF Phase
  <1>2. Phase \in Nat /\ (RunningTime < 2 * PhaseLen => Phase < 2)
    BY <1>1, Quotient
  <1>3. Len(StrobePeriods) \in Nat /\ Len(StrobePeriods) > 2
    BY EffectsAssumption DEF ShortRounds
  <1>4. Phase <= 2 => LightPhase = Phase
    BY <1>2, <1>3 DEF LightPhase
  <1>5. CASE RunningTime < MinuteLen
    <2>1. RunningTime < 2 * PhaseLen
      BY <1>5 DEF ShortRounds
    <2>2. LightPhase = 0 \/ LightPhase = 1
      BY <1>2, <1>4, <2>1
    <2>3. StrobePeriod = StrobePeriods[1]
      BY <2>2 DEF StrobePeriod, ShortRounds
    <2>4. Phase # 2
      BY <1>2, <2>1
    <2> QED
      BY <1>1, <2>3, <2>4
  <1>6. CASE ~(RunningTime < MinuteLen)
    BY <1>1, <1>2, <1>4, <1>6 DEF StrobePeriod
  <1> QED
    BY <1>5, <1>6

(* When phase 2 is. *)
LEMMA PhaseTwo ==
  ASSUME NEW u \in Nat
  PROVE  u \div PhaseLen = 2 <=> 2 * PhaseLen <= u /\ u < 3 * PhaseLen
  <1>1. PhaseLen \in Nat \ {0}
    BY Lengths
  <1>2. /\ u >= 2 * PhaseLen => u \div PhaseLen >= 2
        /\ u < 2 * PhaseLen => u \div PhaseLen < 2
        /\ u >= 3 * PhaseLen => u \div PhaseLen >= 3
        /\ u < 3 * PhaseLen => u \div PhaseLen < 3
        /\ u \div PhaseLen \in Nat
    BY <1>1, Quotient
  <1> QED
    BY <1>1, <1>2

(* What a round does to strobe_trigger, if the sum is in range.            *)
LEMMA ExactStrobe ==
  ASSUME EffectsInv, Effects, last_running_time' = RunningTime, RunningTime \in Nat,
         NEW sum \in Nat, sum = strobe_trigger + (last_running_time' - last_running_time), sum < Word
  PROVE  /\ strobe_trigger' = IF sum >= StrobePeriod THEN sum - StrobePeriod ELSE sum
         /\ LightPhase >= 2 => (lit' <=> sum >= StrobePeriod)
  <1>1. strobe_trigger \in Nat /\ last_running_time \in Nat
    BY DEF EffectsInv
  <1>2. /\ strobe_trigger + RunningTime >= last_running_time
        /\ strobe_trigger + RunningTime - last_running_time = sum
    BY <1>1
  <1>3. Added(strobe_trigger) = sum
    BY <1>1, <1>2, AddedNatural
  <1> QED
    BY <1>3, TriggersAfter

(* A round of the first alarm. *)
LEMMA AlarmRound ==
  ASSUME ShortRounds, EffectsInv, EffectsInv', StrobeInv, NEW d \in Rounds, NEW m \in Rounds,
         Loop(d, m), regular, clockSets' = 0, alarm_active > 0, alarm_active' > 0
  PROVE  /\ alarm_active' = 1 => FirstMinute'
         /\ alarm_active' = 2 => SecondMinute'
         /\ ~FlashesTwice
  <1> DEFINE P1 == StrobePeriods[1]
             P3 == StrobePeriods[3]
             sum == strobe_trigger + (last_running_time' - last_running_time)
  <1>1. clockSets = 0
    BY DEF Loop
  <1>2. /\ P1 \in Nat \ {0} /\ P3 \in Nat \ {0}
        /\ PhaseLen \in Nat \ {0} /\ MaxDrift \in Nat /\ LongestRound \in Nat
        /\ MinuteLen = 2 * PhaseLen /\ MinuteLen \in Nat /\ MaxDrift <= PhaseLen
        /\ LongestRound <= P1 /\ P1 + 2 * LongestRound + MaxDrift <= P3 /\ P3 <= PhaseLen
        /\ Word \in Nat /\ MinuteLen < Word
    <2>1. LongestRound \in Nat
      BY Longest, Lengths
    <2>2. P1 \in Nat \ {0} /\ P3 \in Nat \ {0}
      <3>1. StrobePeriods \in Seq(Nat \ {0}) /\ Len(StrobePeriods) > 2
        BY EffectsAssumption DEF ShortRounds
      <3> QED
        BY <3>1
    <2>3. /\ MinuteLen = 2 * PhaseLen /\ MaxDrift <= PhaseLen
          /\ LongestRound <= P1 /\ P1 + 2 * LongestRound + MaxDrift <= P3 /\ P3 <= PhaseLen
      BY DEF ShortRounds
    <2>4. /\ PhaseLen \in Nat \ {0} /\ MaxDrift \in Nat /\ MinuteLen \in Nat /\ Word \in Nat
          /\ MinuteLen < Word
      BY Lengths
    <2> QED
      BY <2>1, <2>2, <2>3, <2>4
  <1>3. /\ strobe_trigger \in Nat /\ strobe_trigger' \in Nat
        /\ last_running_time \in Nat /\ last_running_time' \in Nat
        /\ sinceOffset \in Nat /\ sinceOffset' \in Nat
        /\ alarm_active \in 1 .. MaxMinutes /\ alarm_active' \in 1 .. MaxMinutes
        /\ MaxMinutes \in Nat /\ alarm_active \in Nat /\ alarm_active' \in Nat
    <2>1. alarm_active \in 0 .. MaxMinutes /\ alarm_active' \in 0 .. MaxMinutes /\ MaxMinutes \in Nat
      BY Lengths DEF EffectsInv
    <2>2. /\ strobe_trigger \in Nat /\ strobe_trigger' \in Nat
          /\ last_running_time \in Nat /\ last_running_time' \in Nat
          /\ sinceOffset \in Nat /\ sinceOffset' \in Nat
      BY DEF EffectsInv
    <2> QED
      BY <2>1, <2>2
  <1>4. /\ last_running_time = (alarm_active - 1) * MinuteLen + sinceOffset
        /\ last_running_time' = (alarm_active' - 1) * MinuteLen + sinceOffset'
    BY <1>1 DEF EffectsInv
  <1>5. sinceOffset < MinuteLen + MaxDrift /\ sinceOffset' < MinuteLen + MaxDrift
    <2>1. /\ sinceOffset <= inMinute + drift /\ inMinute \in 0 .. MinuteLen - 1
          /\ drift \in -MaxDrift .. MaxDrift
      BY <1>1 DEF EffectsInv
    <2>2. /\ sinceOffset' <= inMinute' + drift' /\ inMinute' \in 0 .. MinuteLen - 1
          /\ drift' \in -MaxDrift .. MaxDrift
      BY DEF EffectsInv
    <2>3. \A s \in Nat, i \in 0 .. MinuteLen - 1, gained \in -MaxDrift .. MaxDrift :
            s <= i + gained => s < MinuteLen + MaxDrift
      BY <1>2
    <2> QED
      BY <1>3, <2>1, <2>2, <2>3, Zenon
  <1>6. /\ m \in 1 .. LongestRound
        /\ Effects /\ last_running_time' = RunningTime /\ RunningTime \in Nat
        /\ \/ /\ alarm_active' = alarm_active
              /\ last_running_time' = last_running_time + m
           \/ /\ alarm_active' = alarm_active + 1 /\ sinceOffset' = 0
              /\ last_running_time' - last_running_time <= 2 * LongestRound + MaxDrift
    BY <1>1, RoundOfAlarm
  <1>7. sum \in Nat /\ sum < Word =>
          /\ strobe_trigger' = IF sum >= StrobePeriod THEN sum - StrobePeriod ELSE sum
          /\ LightPhase >= 2 => (lit' <=> sum >= StrobePeriod)
    BY <1>6, ExactStrobe
  <1>8. /\ last_running_time' < MinuteLen => StrobePeriod = P1
        /\ 2 * PhaseLen <= last_running_time' /\ last_running_time' < 3 * PhaseLen =>
             LightPhase >= 2 /\ StrobePeriod = P3
    BY <1>3, <1>6, FirstPeriods, PhaseTwo
  <1>9. /\ InPhase2 <=> MinuteLen <= last_running_time /\ last_running_time < 3 * PhaseLen
        /\ InPhase2' <=> MinuteLen <= last_running_time' /\ last_running_time' < 3 * PhaseLen
    BY <1>2, <1>3, PhaseTwo DEF InPhase2
  <1>10. StrobeInv
    OBVIOUS
  <1> HIDE DEF P1, P3
  <1>11. /\ alarm_active = 1 => last_running_time = sinceOffset
         /\ alarm_active = 2 => last_running_time = MinuteLen + sinceOffset
         /\ alarm_active' = 1 => last_running_time' = sinceOffset'
         /\ alarm_active' = 2 => last_running_time' = MinuteLen + sinceOffset'
    <2>1. \A a, s \in Nat : /\ a = 1 => (a - 1) * MinuteLen + s = s
                            /\ a = 2 => (a - 1) * MinuteLen + s = MinuteLen + s
      BY <1>2
    <2> QED
      BY <1>3, <1>4, <2>1, Zenon
  <1>12. CASE alarm_active = 1 /\ alarm_active' = 1
    <2>1. last_running_time' = last_running_time + m /\ m \in Nat /\ m <= LongestRound
      BY <1>2, <1>6, <1>12
    <2>2. /\ sum = strobe_trigger + m /\ sum \in Nat
          /\ last_running_time' < MinuteLen + MaxDrift
      BY <1>3, <1>5, <1>11, <1>12, <2>1
    <2>3. FirstMinute
      BY <1>1, <1>10, <1>12 DEF StrobeInv
    <2> HIDE DEF sum
    <2>4. /\ last_running_time < MinuteLen => strobe_trigger < P1
          /\ last_running_time >= MinuteLen =>
               /\ last_running_time - MinuteLen <= strobe_trigger
               /\ strobe_trigger < P1 + LongestRound + (last_running_time - MinuteLen)
               /\ ~lit
      BY <2>3 DEF FirstMinute, P1
    <2>5. CASE last_running_time' < MinuteLen
      <3>1. strobe_trigger < P1 /\ sum < P1 + LongestRound
        BY <1>2, <1>3, <2>1, <2>2, <2>4, <2>5
      <3>2. sum < Word
        BY <1>2, <2>2, <3>1
      <3>3. strobe_trigger' = IF sum >= P1 THEN sum - P1 ELSE sum
        BY <1>7, <1>8, <2>2, <2>5, <3>2
      <3>4. strobe_trigger' < P1
        BY <1>2, <2>2, <3>1, <3>3
      <3>5. ~(last_running_time' >= MinuteLen) /\ ~InPhase2'
        BY <1>2, <1>3, <1>9, <2>5
      <3>6. FirstMinute'
        BY <3>4, <3>5 DEF FirstMinute, P1
      <3> QED
        BY <1>12, <3>5, <3>6 DEF FlashesTwice
    <2>6. CASE last_running_time' >= MinuteLen
      <3>1. /\ sum < P1 + LongestRound + (last_running_time' - MinuteLen)
            /\ last_running_time' - MinuteLen <= sum
        BY <1>2, <1>3, <2>1, <2>2, <2>4, <2>6
      <3>2. sum < P3 /\ sum < Word /\ last_running_time' < 3 * PhaseLen
        BY <1>2, <1>3, <2>2, <2>6, <3>1
      <3>3. StrobePeriod = P3 /\ LightPhase >= 2
        BY <1>2, <1>8, <2>6, <3>2
      <3>4. ~(sum >= P3)
        BY <1>2, <2>2, <3>2
      <3>5. strobe_trigger' = sum /\ ~lit'
        BY <1>7, <2>2, <3>2, <3>3, <3>4
      <3>6. FirstMinute'
        <4>1. /\ strobe_trigger' < P1 + LongestRound + (last_running_time' - MinuteLen)
              /\ last_running_time' - MinuteLen <= strobe_trigger'
          BY <3>1, <3>5, Zenon
        <4>2. ~(last_running_time' < MinuteLen)
          BY <1>2, <1>3, <2>6
        <4> QED
          BY <3>5, <4>1, <4>2, Zenon DEF FirstMinute, P1, LongestRound
      <3> QED
        BY <1>12, <3>5, <3>6 DEF FlashesTwice
    <2> QED
      BY <1>2, <1>3, <2>5, <2>6
  <1>13. CASE alarm_active = 1 /\ alarm_active' = 2
    <2>1. /\ sinceOffset' = 0 /\ last_running_time' = MinuteLen
          /\ last_running_time' - last_running_time <= 2 * LongestRound + MaxDrift
      BY <1>2, <1>3, <1>6, <1>11, <1>13
    <2>2. FirstMinute
      BY <1>1, <1>10, <1>13 DEF StrobeInv
    <2>3. sum = strobe_trigger + (MinuteLen - last_running_time)
      BY <2>1
    <2> HIDE DEF sum
    <2>4. /\ last_running_time < MinuteLen => strobe_trigger < P1
          /\ last_running_time >= MinuteLen =>
               /\ last_running_time - MinuteLen <= strobe_trigger
               /\ strobe_trigger < P1 + LongestRound + (last_running_time - MinuteLen)
      BY <2>2 DEF FirstMinute, P1
    <2>5. sum \in Nat /\ sum < P3
      <3>1. CASE last_running_time < MinuteLen
        BY <1>2, <1>3, <2>1, <2>3, <2>4, <3>1
      <3>2. CASE ~(last_running_time < MinuteLen)
        BY <1>2, <1>3, <2>3, <2>4, <3>2
      <3> QED
        BY <3>1, <3>2
    <2>6. sum < Word /\ StrobePeriod = P3 /\ LightPhase >= 2
      BY <1>2, <1>8, <2>1, <2>5
    <2>7. ~(sum >= P3)
      BY <1>2, <2>5
    <2>8. strobe_trigger' < P3 /\ ~lit'
      BY <1>7, <2>5, <2>6, <2>7
    <2> QED
      BY <1>13, <2>8 DEF SecondMinute, FlashesTwice, P3
  <1>14. CASE alarm_active = 2 /\ alarm_active' = 2
    <2> SUFFICES ASSUME InPhase2'
                 PROVE  /\ strobe_trigger' < P3 /\ (lit' => strobe_trigger' < LongestRound)
                        /\ ~(lit /\ lit')
      BY <1>14 DEF SecondMinute, FlashesTwice, P3, LongestRound
    <2>1. last_running_time' = last_running_time + m /\ m \in Nat /\ m <= LongestRound
      BY <1>2, <1>6, <1>14
    <2>2. sum = strobe_trigger + m /\ sum \in Nat
      BY <1>3, <2>1
    <2>3. InPhase2
      BY <1>2, <1>3, <1>9, <1>11, <1>14, <2>1
    <2>4. strobe_trigger < P3 /\ (lit => strobe_trigger < LongestRound)
      BY <1>1, <1>10, <1>14, <2>3 DEF StrobeInv, SecondMinute, P3
    <2> HIDE DEF sum
    <2>5. sum < P3 + LongestRound /\ (lit => sum < P3)
      BY <1>2, <1>3, <2>1, <2>2, <2>4
    <2>6. sum < Word
      BY <1>2, <2>2, <2>5
    <2>7. StrobePeriod = P3 /\ LightPhase >= 2
      BY <1>2, <1>8, <1>9
    <2>8. /\ strobe_trigger' = IF sum >= P3 THEN sum - P3 ELSE sum
          /\ lit' <=> sum >= P3
      BY <1>7, <2>2, <2>6, <2>7
    <2>9. CASE sum >= P3
      BY <1>2, <2>2, <2>5, <2>8, <2>9
    <2>10. CASE ~(sum >= P3)
      BY <1>2, <2>2, <2>8, <2>10
    <2> QED
      BY <2>9, <2>10
  <1>15. CASE alarm_active' > 2
    <2>1. ~InPhase2'
      <3>1. alarm_active' - 1 \in Nat /\ 2 <= alarm_active' - 1
        <4>1. \A a \in Nat : a > 2 => a - 1 \in Nat /\ 2 <= a - 1
          OBVIOUS
        <4> QED
          BY <1>3, <1>15, <4>1, Zenon
      <3>2. 2 * MinuteLen <= (alarm_active' - 1) * MinuteLen
        BY <1>2, <3>1, TimesMonotone
      <3>3. (alarm_active' - 1) * MinuteLen \in Nat
        BY <1>2, <3>1
      <3>4. last_running_time' >= 2 * MinuteLen
        <4>1. \A before, s \in Nat : 2 * MinuteLen <= before => before + s >= 2 * MinuteLen
          BY <1>2
        <4> QED
          BY <1>3, <1>4, <3>2, <3>3, <4>1, Zenon
      <3> QED
        BY <1>2, <1>3, <1>9, <3>4
    <2> QED
      BY <1>3, <1>15, <2>1 DEF FlashesTwice
  <1> QED
    BY <1>3, <1>6, <1>12, <1>13, <1>14, <1>15

LEMMA LoopUpdates ==
  ASSUME NEW d \in Rounds, NEW m \in Rounds, Loop(d, m)
  PROVE  \E newMinute \in BOOLEAN :
           (AlarmUpdate(newMinute) \/ GoOn) /\ (newMinute => sinceOffset' = 0)
  <1> DEFINE newMinute == inMinute + d >= MinuteLen
  <1>1. newMinute \in BOOLEAN
    OBVIOUS
  <1>2. (AlarmUpdate(newMinute) \/ GoOn) /\ (newMinute => sinceOffset' = 0)
    BY DEF Loop
  <1> HIDE DEF newMinute
  <1> QED
    BY <1>1, <1>2

(* A round without an alarm, before it or after. *)
LEMMA DarkRound ==
  ASSUME EffectsInv, EffectsInv', StrobeInv, NEW d \in Rounds, NEW m \in Rounds, Loop(d, m),
         alarm_active' = 0
  PROVE  StrobeInv'
  <1>1. alarm_active \in 0 .. MaxMinutes /\ alarm_active' \in 0 .. MaxMinutes /\ sinceOffset' \in Nat
        /\ MaxMinutes \in Nat /\ alarms \in Nat
    BY Lengths DEF EffectsInv
  <1>2. strobe_trigger' = 0 /\ last_running_time' = last_running_time
    BY <1>1, UpdateAlarm DEF Loop
  <1>3. alarms' = 0 => alarms = 0 /\ (regular => regular')
    <2>1. PICK newMinute \in BOOLEAN : AlarmUpdate(newMinute) \/ GoOn
      BY LoopUpdates
    <2>2. CASE GoOn
      BY <2>2 DEF GoOn
    <2>3. CASE AlarmUpdate(newMinute)
      BY <1>1, <2>3 DEF AlarmUpdate, Begin, GoOn, MoveTo, NextMinute
    <2> QED
      BY <2>1, <2>2, <2>3
  <1> QED
    BY <1>2, <1>3 DEF StrobeInv

(* The round in which an alarm begins. *)
LEMMA FirstRound ==
  ASSUME ShortRounds, EffectsInv, EffectsInv', StrobeInv, NEW d \in Rounds, NEW m \in Rounds,
         Loop(d, m), alarm_active = 0, alarm_active' > 0
  PROVE  StrobeInv'
  <1>1. /\ alarm_active' \in 1 .. MaxMinutes /\ sinceOffset' \in Nat /\ MaxMinutes \in Nat
        /\ alarms \in Nat
    BY Lengths DEF EffectsInv
  <1>2. PICK newMinute \in BOOLEAN :
          (AlarmUpdate(newMinute) \/ GoOn) /\ (newMinute => sinceOffset' = 0)
    BY LoopUpdates
  <1>3. AlarmUpdate(newMinute)
    BY <1>1, <1>2 DEF GoOn
  <1>4. alarms' = alarms + 1 /\ (regular' => newMinute /\ alarms = 0 /\ alarm_active' = 1)
    <2>1. alarm_active' # 0
      BY <1>1
    <2> QED
      BY <1>3, <2>1, UpdateAnswers
  <1>5. ASSUME regular', clockSets' = 0
        PROVE  alarm_active' = 1 /\ FirstMinute'
    <2>1. /\ strobe_trigger = 0 /\ last_running_time = 0
          /\ alarm_active' = 1 /\ sinceOffset' = 0
      BY <1>2, <1>4, <1>5 DEF StrobeInv
    <2>2. last_running_time' = (1 - 1) * MinuteLen + 0
      BY <1>5, <2>1 DEF EffectsInv
    <2>3. last_running_time' = 0
      BY <2>2, Lengths
    <2>4. last_running_time' = RunningTime /\ RunningTime \in Nat /\ Effects
      <3>1. alarm_active' \in 0 .. MaxMinutes /\ update_alarm
        BY <1>1 DEF Loop
      <3> QED
        BY <1>1, <3>1, UpdateAlarm
    <2>5. StrobePeriod = StrobePeriods[1] /\ StrobePeriod \in Nat \ {0}
      BY <2>3, <2>4, FirstPeriods, StrobePeriodPositive, Lengths
    <2>6. 0 < Word /\ 0 = strobe_trigger + (last_running_time' - last_running_time)
      BY <2>1, <2>3, Lengths
    <2>7. strobe_trigger' = IF 0 >= StrobePeriod THEN 0 - StrobePeriod ELSE 0
      BY <2>4, <2>6, ExactStrobe
    <2>8. strobe_trigger' = 0 /\ 0 < StrobePeriods[1]
      BY <2>5, <2>7
    <2>9. ~(last_running_time' >= MinuteLen)
      BY <2>3, Lengths
    <2> QED
      BY <2>1, <2>8, <2>9 DEF FirstMinute
  <1>6. alarms' # 0 /\ alarm_active' # 0
    BY <1>1, <1>4
  <1>7. regular' /\ clockSets' = 0 => (alarm_active' = 2 => SecondMinute')
    BY <1>5
  <1> QED
    BY <1>5, <1>6, <1>7 DEF StrobeInv

(* A round of an alarm that goes on. *)
LEMMA LaterRound ==
  ASSUME ShortRounds, EffectsInv, EffectsInv', StrobeInv, NEW d \in Rounds, NEW m \in Rounds,
         Loop(d, m), alarm_active > 0, alarm_active' > 0
  PROVE  StrobeInv'
  <1>1. alarm_active \in 1 .. MaxMinutes /\ alarm_active' \in 1 .. MaxMinutes
        /\ MaxMinutes \in Nat /\ alarms \in Nat
    BY Lengths DEF EffectsInv
  <1>2. alarms' = 0 => alarms = 0
    <2>1. PICK newMinute \in BOOLEAN : AlarmUpdate(newMinute) \/ GoOn
      BY LoopUpdates
    <2>2. CASE GoOn
      BY <2>2 DEF GoOn
    <2>3. CASE AlarmUpdate(newMinute)
      BY <1>1, <2>3 DEF AlarmUpdate, Begin, GoOn, MoveTo, NextMinute
    <2> QED
      BY <2>1, <2>2, <2>3
  <1>3. alarms' # 0 /\ alarm_active' # 0
    BY <1>1, <1>2 DEF StrobeInv
  <1>4. ASSUME regular', clockSets' = 0
        PROVE  /\ alarm_active' = 1 => FirstMinute'
               /\ alarm_active' = 2 => SecondMinute'
    <2>1. clockSets = 0
      BY <1>4 DEF Loop
    <2>2. regular
      BY <1>4, <2>1, RoundOfAlarm
    <2> QED
      BY <1>4, <2>2, AlarmRound
  <1> QED
    BY <1>3, <1>4 DEF StrobeInv

LEMMA StepStrobeInv ==
  ASSUME ShortRounds, EffectsInv, EffectsInv', StrobeInv, [Next]_vars
  PROVE  StrobeInv'
  <1>1. ASSUME NEW d \in Rounds, NEW m \in Rounds, Loop(d, m)
        PROVE  StrobeInv'
    <2>1. alarm_active \in Nat /\ alarm_active' \in Nat
      BY Lengths DEF EffectsInv
    <2> QED
      BY <1>1, <2>1, DarkRound, FirstRound, LaterRound
  <1>2. CASE Cancel
    <2>1. alarms = 0 => alarm_active = 0
      BY DEF StrobeInv
    <2> QED
      BY <1>2, <2>1 DEF Cancel, Dark, StrobeInv
  <1>3. CASE \E t \in ClockTimes : ClockSet(t)
    <2>1. clockSets' # 0
      BY <1>3 DEF ClockSet, EffectsInv
    <2> QED
      BY <1>3, <2>1 DEF ClockSet, StrobeInv
  <1>4. CASE UNCHANGED vars
    BY <1>4 DEF vars, StrobeInv, FirstMinute, SecondMinute, InPhase2, LongestRound
  <1> QED
    BY <1>1, <1>2, <1>3, <1>4 DEF Next

(* cpeclock.ino:354: for the first alarm, no phase puts aside time that    *)
(* phase 2 would make up for with flashes in two rounds running, whatever  *)
(* the lengths of the rounds, the minute's end between them, and however   *)
(* far apart the two clocks come until then.                               *)
THEOREM FirstAlarmFlashesOnce ==
  ASSUME ShortRounds
  PROVE  Spec => FirstAlarmStrobes
  <1>1. ShortRounds /\ EffectsInv /\ EffectsInv' /\ StrobeInv /\ [Next]_vars => StrobeInv'
    BY StepStrobeInv
  <1>2. EffectsInv /\ EffectsInv' /\ StrobeInv /\ [Next]_vars
          => [regular /\ clockSets' = 0 => ~FlashesTwice]_vars
    <2> SUFFICES ASSUME EffectsInv, EffectsInv', StrobeInv, [Next]_vars, regular, clockSets' = 0,
                        FlashesTwice, ~UNCHANGED vars
                 PROVE  FALSE
      OBVIOUS
    <2>1. alarm_active > 0 /\ alarm_active' > 0
      BY DEF FlashesTwice, InPhase2
    <2>2. PICK d \in Rounds, m \in Rounds : Loop(d, m)
      BY <2>1, AlarmStep
    <2> QED
      BY <2>1, <2>2, AlarmRound
  <1> QED
    BY <1>1, <1>2, InitStrobeInv, EffectsInvariance, ShortRounds, PTL
       DEF Spec, FirstAlarmStrobes
=============================================================================
