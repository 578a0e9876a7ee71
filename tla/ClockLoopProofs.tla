--------------------------- MODULE ClockLoopProofs ---------------------------
(* Theorems about night and day and about the main loop, for every length  *)
(* of the day, of its minutes and of the display's times, every contents   *)
(* of the NVRAM, and any number of commands, buttons and power failures.   *)
EXTENDS ClockLoop, AlarmRulesProofs

-----------------------------------------------------------------------------
(* night_day_time_test *)

(* The three cases of the test. *)
LEMMA NightTestCases ==
  ASSUME NEW night \in Nat, NEW day \in Nat, NEW now \in Nat
  PROVE  NightTest(night, day, now) <=>
           \/ day = night
           \/ day < night /\ (now < day \/ now >= night)
           \/ day > night /\ now >= night /\ now < day
  <1>1. CASE day = night
    BY <1>1 DEF NightTest
  <1>2. CASE day < night
    BY <1>2 DEF NightTest
  <1>3. CASE day > night
    BY <1>3 DEF NightTest
  <1> QED
    BY <1>1, <1>2, <1>3

(* A time of day is reached from any other by going forward. *)
LEMMA LaterReaches ==
  ASSUME NEW night \in Minutes, NEW now \in Minutes
  PROVE  LET k == IF now >= night THEN now - night ELSE now - night + WholeDay
         IN k \in Minutes /\ Later(night, k) = now
  BY TimesAssumption DEF Minutes, Later

LEMMA IntervalAroundTheClock == NightIsInterval
  <1> USE TimesAssumption DEF Minutes
  <1> SUFFICES ASSUME NEW night \in Minutes, NEW day \in Minutes, NEW now \in Minutes
               PROVE  NightTest(night, day, now) <=>
                        \E k \in Minutes : Later(night, k) = now
                                           /\ \A j \in 1 .. k : Later(night, j) # day
    BY DEF NightIsInterval
  <1> DEFINE k0 == IF now >= night THEN now - night ELSE now - night + WholeDay
             d0 == IF day >= night THEN day - night ELSE day - night + WholeDay
  <1>1. k0 \in Minutes /\ Later(night, k0) = now
    BY LaterReaches
  <1>2. d0 \in Minutes /\ Later(night, d0) = day
    BY LaterReaches
  <1>3. NightTest(night, day, now) <=> d0 = 0 \/ k0 < d0
    BY DEF NightTest
  <1>4. ASSUME NEW k \in Minutes, Later(night, k) = now
        PROVE  k = k0
    BY <1>4 DEF Later
  <1>5. ASSUME NEW j \in Minutes, Later(night, j) = day
        PROVE  j = d0
    BY <1>5 DEF Later
  <1> HIDE DEF k0, d0
  <1>6. ASSUME d0 = 0 \/ k0 < d0
        PROVE  \A j \in 1 .. k0 : Later(night, j) # day
    <2> SUFFICES ASSUME NEW j \in 1 .. k0, Later(night, j) = day PROVE FALSE
      OBVIOUS
    <2>1. j \in Minutes /\ j # 0 /\ j <= k0
      BY <1>1
    <2> QED
      BY <2>1, <1>5, <1>6, <1>1, <1>2
  <1>7. ASSUME d0 # 0, d0 <= k0
        PROVE  ~ \A j \in 1 .. k0 : Later(night, j) # day
    <2>1. d0 \in 1 .. k0
      BY <1>7, <1>1, <1>2
    <2> QED
      BY <2>1, <1>2
  <1> QED
    BY <1>1, <1>2, <1>3, <1>4, <1>6, <1>7

(* The test of night_day_time.c, with its three cases, is that of an       *)
(* interval around the clock.                                              *)
THEOREM NightTestIsInterval == NightSpec => []NightIsInterval
  BY IntervalAroundTheClock, PTL

-----------------------------------------------------------------------------
(* The copy in the NVRAM *)

(* How far save_to_nvram has come. *)
SavedInv ==
  /\ nightPc \in {"nightLo", "dayHi", "dayLo", "idle"} =>
       nightNv.nightHi = start_night_time \div ByteSize
  /\ nightPc \in {"dayHi", "dayLo", "idle"} => nightNv.nightLo = start_night_time % ByteSize
  /\ nightPc \in {"dayLo", "idle"} => nightNv.dayHi = start_day_time \div ByteSize
  /\ nightPc = "idle" => nightNv.dayLo = start_day_time % ByteSize

NightInv == NightTypeOK /\ SavedInv

LEMMA NightInitInv == NightInit => NightInv
  <1> SUFFICES ASSUME NightInit PROVE NightInv
    OBVIOUS
  <1>1. 0 \in Words
    BY TimesAssumption DEF Words
  <1> QED
    BY <1>1, NightAssumption DEF NightInit, NightInv, NightTypeOK, SavedInv

(* A function changes both times and writes the first byte. *)
LEMMA SaveNightInv ==
  ASSUME NightInv, NEW night \in Words, NEW day \in Words, SaveNight(night, day)
  PROVE  NightInv'
  <1>1. night \div ByteSize \in Bytes
    BY TwoBytes
  <1>2. nightNv \in NightNvram
    BY DEF NightInv, NightTypeOK
  <1>3. nightNv' \in NightNvram /\ nightNv'.nightHi = night \div ByteSize
    BY <1>1, <1>2 DEF SaveNight, NightNvram
  <1> QED
    BY <1>3 DEF SaveNight, NightInv, NightTypeOK, SavedInv

(* Each of the other writes. *)
LEMMA SaveNightRestInv ==
  ASSUME NightInv, SaveNightRest
  PROVE  NightInv'
  <1> USE DEF NightInv, NightTypeOK, SavedInv, SaveByte, NightNvram
  <1>1. /\ start_night_time % ByteSize \in Bytes
        /\ start_day_time \div ByteSize \in Bytes
        /\ start_day_time % ByteSize \in Bytes
    BY TwoBytes
  <1>2. CASE SaveByte("nightLo", "nightLo", start_night_time % ByteSize, "dayHi")
    BY <1>1, <1>2
  <1>3. CASE SaveByte("dayHi", "dayHi", start_day_time \div ByteSize, "dayLo")
    BY <1>1, <1>3
  <1>4. CASE SaveByte("dayLo", "dayLo", start_day_time % ByteSize, "idle")
    BY <1>1, <1>4
  <1> QED
    BY <1>2, <1>3, <1>4 DEF SaveNightRest

(* Whatever the bytes are, they make two times. *)
LEMMA StoredTimes ==
  ASSUME NightTypeOK
  PROVE  StoredNight \in Words /\ StoredDay \in Words
  BY BytesMakeWord DEF NightTypeOK, NightNvram, StoredNight, StoredDay

LEMMA NightStepInv == NightInv /\ [NightNext]_nightVars => NightInv'
  <1> SUFFICES ASSUME NightInv, [NightNext]_nightVars PROVE NightInv'
    OBVIOUS
  <1>1. CASE \E night, day \in NightTimes : night_day_time_set(night, day)
    BY <1>1, NightAssumption, SaveNightInv DEF night_day_time_set
  <1>2. CASE SaveNightRest
    BY <1>2, SaveNightRestInv
  <1>3. CASE night_day_time_init
    <2>1. BootTime(StoredNight) \in Words /\ BootTime(StoredDay) \in Words
      BY StoredTimes, BootTimeInDay DEF NightInv
    <2> QED
      BY <1>3, <2>1, SaveNightInv DEF night_day_time_init
  <1>4. CASE NightPowerFail
    <2>1. 0 \in Words
      BY TimesAssumption DEF Words
    <2> QED
      BY <1>4, <2>1 DEF NightPowerFail, NightInv, NightTypeOK, SavedInv
  <1>5. CASE UNCHANGED nightVars
    BY <1>5 DEF nightVars, NightInv, NightTypeOK, SavedInv
  <1> QED
    BY <1>1, <1>2, <1>3, <1>4, <1>5 DEF NightNext

(* The inductive invariant: both times are words, and so far as            *)
(* save_to_nvram has come, the NVRAM holds their bytes.                    *)
THEOREM NightInvariance == NightSpec => []NightInv
  BY NightInitInv, NightStepInv, PTL DEF NightSpec

(* Between two calls the bytes in the NVRAM stand for the two times.       *)
LEMMA IdleIsStored ==
  ASSUME NightInv, nightPc = "idle"
  PROVE  StoredNight = start_night_time /\ StoredDay = start_day_time
  <1>1. /\ nightNv.nightHi = start_night_time \div ByteSize
        /\ nightNv.nightLo = start_night_time % ByteSize
        /\ nightNv.dayHi = start_day_time \div ByteSize
        /\ nightNv.dayLo = start_day_time % ByteSize
    BY DEF NightInv, SavedInv
  <1> QED
    BY <1>1, TwoBytes DEF NightInv, NightTypeOK, StoredNight, StoredDay

LEMMA InvKeepsNight == NightInv => RebootKeepsNight
  <1> SUFFICES ASSUME NightInv, nightPc = "idle", NEW now \in Minutes
               PROVE  LET lost == start_night_time >= WholeDay
                                   /\ start_day_time \notin 1 .. start_night_time
                      IN /\ AfterReboot(now) <=> lost \/ NightTest(start_night_time, start_day_time, now)
                         /\ lost => ~NightTest(start_night_time, start_day_time, now)
    BY DEF RebootKeepsNight
  <1>1. /\ start_night_time \in Nat
        /\ start_day_time \in Nat
    BY TimesAssumption DEF NightInv, NightTypeOK, Words
  <1>2. AfterReboot(now) <=> NightTest(BootTime(start_night_time), BootTime(start_day_time), now)
    BY IdleIsStored DEF AfterReboot
  <1> DEFINE night == start_night_time
             day   == start_day_time
             lost  == night >= WholeDay /\ day \notin 1 .. night
             night0 == BootTime(night)
             day0   == BootTime(day)
  <1>3. night0 \in Nat /\ day0 \in Nat /\ now \in 0 .. WholeDay - 1
    BY <1>1 DEF BootTime, Minutes
  <1>4. night0 = (IF night >= WholeDay THEN 0 ELSE night)
        /\ day0 = (IF day >= WholeDay THEN 0 ELSE day)
    BY DEF BootTime
  <1>5. NightTest(night0, day0, now) <=>
          \/ day0 = night0
          \/ day0 < night0 /\ (now < day0 \/ now >= night0)
          \/ day0 > night0 /\ now >= night0 /\ now < day0
    BY <1>3, NightTestCases
  <1>6. NightTest(night, day, now) <=>
          \/ day = night
          \/ day < night /\ (now < day \/ now >= night)
          \/ day > night /\ now >= night /\ now < day
    BY <1>1, <1>3, NightTestCases
  <1>7. lost => ~NightTest(night, day, now)
    BY <1>1, <1>3, <1>6, TimesAssumption
  <1>8. NightTest(night0, day0, now) <=> lost \/ NightTest(night, day, now)
    <2> HIDE DEF night0, day0
    <2> QED
      BY <1>1, <1>3, <1>4, <1>5, <1>6, TimesAssumption
  <1> QED
    BY <1>2, <1>7, <1>8

(* Whatever times the radio has sent and wherever the power failed before, *)
(* a reboot between two calls keeps the night, except for the nights that  *)
(* start past the end of the day.                                          *)
THEOREM NightSurvivesReboot == NightSpec => []RebootKeepsNight
  BY NightInvariance, InvKeepsNight, PTL

-----------------------------------------------------------------------------
(* Night and day in the main loop *)

LEMMA StepIsNightStep == [Next]_vars => [NightNext]_nightVars
  <1> SUFFICES ASSUME [Next]_vars PROVE [NightNext]_nightVars
    OBVIOUS
  <1>1. CASE Setup
    BY <1>1 DEF Setup, NightNext
  <1>2. CASE Round
    <2>1. PICK cmd \in Commands :
            IF cmd.kind = "N" THEN \E night, day \in NightTimes : night_day_time_set(night, day)
                              ELSE UNCHANGED nightVars
      BY <1>2 DEF Round, Loop
    <2> QED
      BY <2>1 DEF NightNext
  <1>3. CASE SaveByteOfNight
    BY <1>3 DEF SaveByteOfNight, NightNext
  <1>4. CASE PowerFail
    BY <1>4 DEF PowerFail, NightNext
  <1>5. CASE UNCHANGED vars
    BY <1>5 DEF vars
  <1> QED
    BY <1>1, <1>2, <1>3, <1>4, <1>5 DEF Next

(* The main loop calls night_day_time.c as NightSpec allows: one function  *)
(* at a time, and night_day_time_init first.                               *)
THEOREM LoopCallsNightDay == Spec => NightSpec
  <1>1. Init => NightInit
    BY DEF Init
  <1> QED
    BY <1>1, StepIsNightStep, PTL DEF Spec, NightSpec

(* Therefore a reboot of the whole clock keeps the night, too.             *)
THEOREM ClockRebootKeepsNight == Spec => []RebootKeepsNight
  BY LoopCallsNightDay, NightSurvivesReboot, PTL

-----------------------------------------------------------------------------
(* Times *)

LEMMA ModUnique ==
  ASSUME NEW w \in Nat \ {0}, NEW k \in Nat, NEW m \in 0 .. w - 1
  PROVE  (k * w + m) % w = m
  <1> DEFINE u == k * w + m
             q == u \div w
  <1>1. k * w \in Nat /\ u \in Nat
    OBVIOUS
  <1>2. q \in Nat /\ u % w \in 0 .. w - 1
    BY <1>1
  <1>3. q * w + (u % w) = u
    BY <1>1
  <1>4. q * w \in Nat /\ (q + 1) * w = q * w + w /\ (k + 1) * w = k * w + w
    BY <1>2
  <1> HIDE DEF q
  <1>5. CASE q < k
    <2>1. (q + 1) * w <= k * w
      BY <1>2, <1>5, TimesMonotone
    <2> QED
      BY <2>1, <1>1, <1>2, <1>3, <1>4
  <1>6. CASE q > k
    <2>1. (k + 1) * w <= q * w
      BY <1>2, <1>6, TimesMonotone
    <2> QED
      BY <2>1, <1>1, <1>2, <1>3, <1>4
  <1>7. CASE q = k
    BY <1>1, <1>2, <1>3, <1>7
  <1> QED
    BY <1>2, <1>5, <1>6, <1>7

(* There is a next such time of day, and it is less than a day ahead. *)
LEMMA NextTimeOfDay ==
  ASSUME NEW w \in Nat \ {0}, NEW t \in Nat, NEW m \in 0 .. w - 1
  PROVE  \E u \in t + 1 .. t + w : u % w = m
  <1> DEFINE k == t \div w
  <1>1. k \in Nat /\ (t % w) \in 0 .. w - 1
    OBVIOUS
  <1>2. k * w + (t % w) = t
    OBVIOUS
  <1> HIDE DEF k
  <1>3. k * w \in Nat /\ (k + 1) * w = k * w + w
    BY <1>1
  <1>4. (k * w + m) % w = m /\ ((k + 1) * w + m) % w = m
    BY <1>1, ModUnique
  <1>5. CASE m > t % w
    <2>1. k * w + m \in t + 1 .. t + w
      BY <1>1, <1>2, <1>3, <1>5
    <2> QED
      BY <2>1, <1>4
  <1>6. CASE m <= t % w
    <2>1. (k + 1) * w + m \in t + 1 .. t + w
      BY <1>1, <1>2, <1>3, <1>6
    <2> QED
      BY <2>1, <1>4
  <1> QED
    BY <1>1, <1>5, <1>6

LEMMA ClockSetForward ==
  ASSUME NEW t \in Nat, NEW time \in ClockTimes
  PROVE  ClockSet(t, time) \in Nat /\ ClockSet(t, time) > t
  <1> DEFINE w == WholeDay * MinuteLen
  <1>1. w \in Nat \ {0}
    BY TimesAssumption, ClockAssumption
  <1>2. time \in 0 .. w - 1
    BY ClockAssumption
  <1> HIDE DEF w
  <1>3. \E u \in t + 1 .. t + w : u % w = time
    BY <1>1, <1>2, NextTimeOfDay
  <1>4. (CHOOSE u \in t + 1 .. t + w : u % w = time) \in t + 1 .. t + w
    BY <1>3
  <1>5. ClockSet(t, time) = CHOOSE u \in t + 1 .. t + w : u % w = time
    BY DEF ClockSet, w
  <1> QED
    BY <1>1, <1>4, <1>5

LEMMA AnotherSecond ==
  ASSUME NEW t \in Nat
  PROVE  (t + 1) % MinuteLen # t % MinuteLen
  <1> DEFINE r == t % MinuteLen
             k == t \div MinuteLen
  <1> USE ClockAssumption
  <1>1. k \in Nat /\ r \in 0 .. MinuteLen - 1 /\ k * MinuteLen + r = t
    OBVIOUS
  <1> HIDE DEF r, k
  <1>2. CASE r < MinuteLen - 1
    <2> DEFINE next == r + 1
    <2>0. next \in 0 .. MinuteLen - 1 /\ MinuteLen \in Nat \ {0}
      BY <1>1, <1>2
    <2> HIDE DEF next
    <2>3. (k * MinuteLen + next) % MinuteLen = next
      BY <1>1, <2>0, ModUnique
    <2>1. (k * MinuteLen + (r + 1)) % MinuteLen = r + 1
      BY <2>3 DEF next
    <2>2. t + 1 = k * MinuteLen + (r + 1)
      BY <1>1
    <2> QED
      BY <2>1, <2>2, <1>1 DEF r
  <1>3. CASE r = MinuteLen - 1
    <2>1. ((k + 1) * MinuteLen + 0) % MinuteLen = 0
      BY <1>1, ModUnique
    <2>2. t + 1 = (k + 1) * MinuteLen + 0
      BY <1>1, <1>3
    <2> QED
      BY <2>1, <2>2, <1>1, <1>3 DEF r
  <1> QED
    BY <1>1, <1>2, <1>3

(* Counting on in steps of one, the remainder counts on or starts again. *)
LEMMA NextRemainder ==
  ASSUME NEW w \in Nat \ {0}, NEW u \in Nat
  PROVE  \/ (u + 1) % w = (u % w) + 1 /\ (u + 1) \div w = u \div w
         \/ u % w = w - 1 /\ (u + 1) % w = 0 /\ (u + 1) \div w = (u \div w) + 1
  <1> DEFINE r == u % w
             k == u \div w
             r1 == (u + 1) % w
             k1 == (u + 1) \div w
  <1>1. /\ k \in Nat /\ r \in 0 .. w - 1 /\ k * w + r = u
        /\ k1 \in Nat /\ r1 \in 0 .. w - 1 /\ k1 * w + r1 = u + 1
    OBVIOUS
  <1> HIDE DEF r, k, r1, k1
  <1>2. /\ (k + 1) * w = k * w + w /\ (k1 + 1) * w = k1 * w + w /\ (k + 2) * w = k * w + w + w
        /\ k * w \in Nat /\ k1 * w \in Nat
    BY <1>1
  <1>3. ~(k1 + 1 <= k)
    <2> SUFFICES ASSUME k1 + 1 <= k PROVE FALSE
      OBVIOUS
    <2>1. (k1 + 1) * w <= k * w
      BY <1>1, TimesMonotone
    <2> QED
      BY <1>1, <1>2, <2>1
  <1>4. ~(k + 2 <= k1)
    <2> SUFFICES ASSUME k + 2 <= k1 PROVE FALSE
      OBVIOUS
    <2>1. (k + 2) * w <= k1 * w
      BY <1>1, TimesMonotone
    <2> QED
      BY <1>1, <1>2, <2>1
  <1>5. k1 = k \/ k1 = k + 1
    BY <1>1, <1>3, <1>4
  <1>6. CASE k1 = k
    BY <1>1, <1>2, <1>6 DEF r, k, r1, k1
  <1>7. CASE k1 = k + 1
    BY <1>1, <1>2, <1>7 DEF r, k, r1, k1
  <1> QED
    BY <1>5, <1>6, <1>7

(* The next second is in the same minute or begins the next one. *)
LEMMA NextSecond ==
  ASSUME NEW t \in Nat
  PROVE  \/ /\ (t + 1) % MinuteLen = (t % MinuteLen) + 1
            /\ MinuteOf(t + 1) = MinuteOf(t)
         \/ /\ t % MinuteLen = MinuteLen - 1 /\ (t + 1) % MinuteLen = 0
            /\ MinuteOf(t + 1) = IF MinuteOf(t) = WholeDay - 1 THEN 0 ELSE MinuteOf(t) + 1
  <1> USE ClockAssumption, TimesAssumption
  <1> DEFINE m == t \div MinuteLen
  <1>2. m \in Nat /\ MinuteLen \in Nat \ {0} /\ MinuteOf(t) = m % WholeDay
    BY DEF MinuteOf
  <1>3. MinuteOf(t + 1) = ((t + 1) \div MinuteLen) % WholeDay
    BY DEF MinuteOf
  <1> HIDE DEF m
  <1>4. (m + 1) % WholeDay = IF m % WholeDay = WholeDay - 1 THEN 0 ELSE (m % WholeDay) + 1
    <2>1. m % WholeDay \in 0 .. WholeDay - 1 /\ (m + 1) % WholeDay \in 0 .. WholeDay - 1
      BY <1>2
    <2>2. \/ (m + 1) % WholeDay = (m % WholeDay) + 1
          \/ m % WholeDay = WholeDay - 1 /\ (m + 1) % WholeDay = 0
      BY <1>2, NextRemainder
    <2> HIDE DEF m
    <2> QED
      BY <2>1, <2>2
  <1>5. \/ (t + 1) % MinuteLen = (t % MinuteLen) + 1 /\ (t + 1) \div MinuteLen = t \div MinuteLen
        \/ /\ t % MinuteLen = MinuteLen - 1 /\ (t + 1) % MinuteLen = 0
           /\ (t + 1) \div MinuteLen = (t \div MinuteLen) + 1
    BY <1>2, NextRemainder
  <1>6. CASE (t + 1) \div MinuteLen = m
    BY <1>2, <1>3, <1>5, <1>6 DEF m
  <1>7. CASE (t + 1) \div MinuteLen = m + 1
    <2>1. MinuteOf(t + 1) = IF MinuteOf(t) = WholeDay - 1 THEN 0 ELSE MinuteOf(t) + 1
      BY <1>2, <1>3, <1>4, <1>7
    <2>2. t % MinuteLen = MinuteLen - 1 /\ (t + 1) % MinuteLen = 0
      BY <1>2, <1>5, <1>7 DEF m
    <2> QED
      BY <2>1, <2>2
  <1> QED
    BY <1>5, <1>6, <1>7 DEF m

-----------------------------------------------------------------------------
(* The alarm *)

IsAlarm(a) == DOMAIN a = {"time", "state", "active"}

(* What alarm_active should be at the time t. *)
Current(a, t) ==
  a.active = IF a.state = ALARM_ACTIVE THEN InActiveRegion(a.time, MinuteOf(t)) ELSE 0

LEMMA UpdateIsCurrent ==
  ASSUME NEW a, IsAlarm(a), NEW t
  PROVE  IsAlarm(AlarmUpdate(a, t)) /\ Current(AlarmUpdate(a, t), t)
  <1> DEFINE region == InActiveRegion(a.time, MinuteOf(t))
             state == NextState(a.state, region)
             active == IF state = ALARM_ACTIVE THEN region ELSE 0
             b == AlarmUpdate(a, t)
  <1>1. b = [a EXCEPT !.state = state, !.active = active]
    BY DEF AlarmUpdate
  <1> HIDE DEF b, state, active
  <1>2. IsAlarm(b) /\ b.time = a.time /\ b.state = state /\ b.active = active
    BY <1>1 DEF IsAlarm
  <1>4. IsAlarm(b) /\ Current(b, t)
    BY <1>2 DEF Current, active
  <1> QED
    BY <1>4 DEF b

LEMMA SetAndUnset ==
  ASSUME NEW a, IsAlarm(a), NEW time
  PROVE  /\ IsAlarm(AlarmSet(a, time)) /\ AlarmSet(a, time).active = a.active
         /\ AlarmSet(a, time).state # ALARM_ACTIVE
         /\ IsAlarm(AlarmUnset(a)) /\ AlarmUnset(a).active = a.active
         /\ AlarmUnset(a).state # ALARM_ACTIVE
  BY DEF IsAlarm, AlarmSet, AlarmUnset, ALARM_RESET, ALARM_ACTIVE, ALARM_DISABLED

(* The buttons: set and unset again, whatever the state was. *)
LEMMA ButtonIsCurrent ==
  ASSUME NEW a, IsAlarm(a), NEW t, Current(a, t), NEW time
  PROVE  /\ IsAlarm(Button(a, AlarmSet(a, time), t)) /\ Current(Button(a, AlarmSet(a, time), t), t)
         /\ IsAlarm(Button(a, AlarmUnset(a), t)) /\ Current(Button(a, AlarmUnset(a), t), t)
  <1>1. ASSUME NEW b, IsAlarm(b), b.state # ALARM_ACTIVE, b.active = a.active
        PROVE  IsAlarm(Button(a, b, t)) /\ Current(Button(a, b, t), t)
    <2>1. CASE b.state = a.state
      BY <1>1, <2>1 DEF Button, Current
    <2>2. CASE b.state # a.state
      BY <1>1, <2>2, UpdateIsCurrent DEF Button
    <2> QED
      BY <2>1, <2>2
  <1> DEFINE b1 == AlarmSet(a, time)
             b2 == AlarmUnset(a)
  <1>2. IsAlarm(b1) /\ b1.state # ALARM_ACTIVE /\ b1.active = a.active
    BY SetAndUnset
  <1>3. IsAlarm(b2) /\ b2.state # ALARM_ACTIVE /\ b2.active = a.active
    BY SetAndUnset
  <1> HIDE DEF b1, b2
  <1>4. IsAlarm(Button(a, b1, t)) /\ Current(Button(a, b1, t), t)
    BY <1>1, <1>2
  <1>5. IsAlarm(Button(a, b2, t)) /\ Current(Button(a, b2, t), t)
    BY <1>1, <1>3
  <1> QED
    BY <1>4, <1>5 DEF b1, b2

LEMMA ButtonIsAlarm ==
  ASSUME NEW a, IsAlarm(a), NEW t, NEW time
  PROVE  IsAlarm(Button(a, AlarmSet(a, time), t)) /\ IsAlarm(Button(a, AlarmUnset(a), t))
  <1>1. IsAlarm(AlarmSet(a, time)) /\ IsAlarm(AlarmUnset(a))
    BY SetAndUnset
  <1> QED
    BY <1>1, UpdateIsCurrent DEF Button

-----------------------------------------------------------------------------
(* The inductive invariant: in running, now_time is the time of the DS1307 *)
(* as of the last round.                                                   *)
ClockInv ==
  /\ rtc \in Nat /\ screen_off_time \in Nat /\ message_off_time \in Nat
  /\ IF Running THEN now_time = rtc ELSE message_off_time = 0 /\ ~answered
  /\ IsAlarm(alarm)
  /\ AlarmActiveIsCurrent
  /\ DisplayTimesHold

LEMMA InitClockInv == Init => ClockInv
  <1> SUFFICES ASSUME Init PROVE ClockInv
    OBVIOUS
  <1>1. IsAlarm(alarm)
    BY DEF Init, IsAlarm
  <1>2. ~Running
    BY DEF Init, NightInit, Running
  <1> QED
    BY <1>1, <1>2 DEF Init, ClockInv, AlarmActiveIsCurrent, DisplayTimesHold

LEMMA ScreenTimes ==
  ASSUME NEW t \in Nat
  PROVE  ScreenOn(t) \in t .. t + DayScreenOn
  BY ClockAssumption DEF ScreenOn

LEMMA SetupInv == ASSUME ClockInv, Setup PROVE ClockInv'
  <1> USE DEF ClockInv
  <1>1. rtc' = rtc /\ now_time' = rtc /\ rtc \in Nat /\ commanded' = TRUE /\ Running' /\ ~Running
    BY DEF Setup, Running, night_day_time_init, SaveNight
  <1>2. IsAlarm(alarm')
    <2>1. alarm' = [alarm EXCEPT !.time = BootTime(alarm.time)] /\ IsAlarm(alarm)
      BY DEF Setup
    <2> QED
      BY <2>1 DEF IsAlarm
  <1>3. screen_off_time' \in rtc .. rtc + DayScreenOn
    BY <1>1, ScreenTimes DEF Setup
  <1>4. message_off_time' = 0 /\ ~answered'
    BY <1>1 DEF Setup
  <1>5. DisplayTimesHold'
    BY <1>1, <1>3, <1>4, ClockAssumption DEF DisplayTimesHold
  <1> QED
    BY <1>1, <1>2, <1>3, <1>4, <1>5, ClockAssumption DEF AlarmActiveIsCurrent

LEMMA SaveByteOfNightInv == ASSUME ClockInv, SaveByteOfNight PROVE ClockInv'
  <1>1. UNCHANGED <<clockVars, requests, crashes>> /\ Running /\ Running'
    BY DEF SaveByteOfNight, SaveNightRest, SaveByte, Running
  <1> QED
    BY <1>1 DEF clockVars, ClockInv, AlarmActiveIsCurrent, DisplayTimesHold, MinuteOf

LEMMA PowerFailInv == ASSUME ClockInv, PowerFail PROVE ClockInv'
  <1> USE DEF ClockInv
  <1>1. ~Running' /\ rtc' \in Nat /\ message_off_time' = 0 /\ ~answered' /\ screen_off_time' \in Nat
    BY ClockAssumption DEF PowerFail, NightPowerFail, Running
  <1>2. IsAlarm(alarm')
    <2>1. alarm' = [alarm EXCEPT !.active = 0] /\ IsAlarm(alarm)
      BY DEF PowerFail
    <2> QED
      BY <2>1 DEF IsAlarm
  <1> QED
    BY <1>1, <1>2 DEF AlarmActiveIsCurrent, DisplayTimesHold

(* A command leaves the alarm and the time as they are, or the radio has   *)
(* commanded.                                                              *)
LEMMA AfterMailIsAlarm ==
  ASSUME NEW a, IsAlarm(a), NEW cmd \in Commands
  PROVE  /\ IsAlarm(AfterMail(a, cmd))
         /\ cmd.kind \notin {"a", "A", "T"} => AfterMail(a, cmd) = a
  <1>1. CASE cmd.kind = "A"
    BY <1>1, SetAndUnset DEF AfterMail
  <1>2. CASE cmd.kind = "a"
    BY <1>2, SetAndUnset DEF AfterMail
  <1>3. CASE cmd.kind # "A" /\ cmd.kind # "a"
    BY <1>3 DEF AfterMail
  <1> QED
    BY <1>1, <1>2, <1>3

LEMMA TimeAfterMailLater ==
  ASSUME NEW t \in Nat, NEW cmd \in Commands
  PROVE  /\ TimeAfterMail(t, cmd) \in Nat /\ TimeAfterMail(t, cmd) >= t
         /\ cmd.kind # "T" => TimeAfterMail(t, cmd) = t
  <1>1. CASE cmd.kind = "T"
    <2>1. cmd \in [kind : {"T"}, time : ClockTimes]
      BY <1>1 DEF Commands
    <2>2. cmd.time \in ClockTimes
      BY <2>1
    <2> QED
      BY <1>1, <2>2, ClockSetForward DEF TimeAfterMail
  <1>2. CASE cmd.kind # "T"
    BY <1>2 DEF TimeAfterMail
  <1> QED
    BY <1>1, <1>2

LEMMA RoundInv == ASSUME ClockInv, Round PROVE ClockInv'
  <1>1. PICK step \in {0, 1}, cmd \in Commands, right \in BOOLEAN, left \in BOOLEAN, ext \in BOOLEAN :
          Loop(step, cmd, right, left, ext)
    BY DEF Round
  <1> DEFINE count  == IF ext THEN extension_button_pressed + 1 ELSE 0
             cancel == left \/ count = CancelAt
             reset  == right \/ count = ResetAt
             t0     == rtc + step
             a1     == IF t0 % MinuteLen # now_time % MinuteLen THEN AlarmUpdate(alarm, t0) ELSE alarm
             t      == TimeAfterMail(t0, cmd)
             a2     == AfterMail(a1, cmd)
             a3     == IF reset THEN Button(a2, AlarmSet(a2, ResetTime(a2.time)), t) ELSE a2
             a4     == IF cancel THEN Button(a3, AlarmUnset(a3), t) ELSE a3
             shown  == Displays(cmd, t) \/ reset \/ cancel
  <1>2. /\ nightPc = "idle" /\ (nightPc' = "idle" \/ nightPc' = "nightLo")
        /\ rtc' = t /\ now_time' = t /\ alarm' = a4
        /\ Display(shown, ext, t)
        /\ held' = IF ext THEN held + 1 ELSE 0
        /\ commanded' = (cmd.kind \in {"a", "A", "T"} \/ (commanded /\ step = 0))
        /\ answered' = (shown \/ (answered /\ step = 0))
    BY <1>1 DEF Loop, nightVars, night_day_time_set, SaveNight
  <1>3. /\ Running /\ Running' /\ now_time = rtc /\ rtc \in Nat /\ IsAlarm(alarm)
        /\ screen_off_time \in Nat /\ message_off_time \in Nat
    BY <1>2 DEF Running, ClockInv
  <1>4. t0 \in Nat /\ t0 >= rtc /\ (step = 0 => t0 = rtc)
    BY <1>3
  <1>5. t \in Nat /\ t >= t0 /\ (cmd.kind # "T" => t = t0)
    BY <1>4, TimeAfterMailLater
  <1>6. IsAlarm(a1) /\ (step = 1 \/ ~commanded => Current(a1, t0))
    <2>1. CASE t0 % MinuteLen # now_time % MinuteLen
      BY <2>1, <1>3, UpdateIsCurrent
    <2>2. CASE t0 % MinuteLen = now_time % MinuteLen
      <3>1. step = 0
        BY <2>2, <1>3, AnotherSecond
      <3>2. t0 = now_time /\ a1 = alarm
        BY <3>1, <2>2, <1>3
      <3>3. ~commanded => Current(alarm, now_time)
        BY <1>3 DEF ClockInv, AlarmActiveIsCurrent, Current
      <3> HIDE DEF t0, a1
      <3> QED
        BY <3>1, <3>2, <3>3, <1>3
    <2> QED
      BY <2>1, <2>2
  <1> HIDE DEF t0, a1, t
  <1>7. IsAlarm(a2) /\ (~commanded' => Current(a2, t))
    <2>1. IsAlarm(a2) /\ (cmd.kind \notin {"a", "A", "T"} => a2 = a1)
      BY <1>6, AfterMailIsAlarm
    <2>2. ~commanded' => cmd.kind \notin {"a", "A", "T"} /\ (step = 1 \/ ~commanded)
      BY <1>2
    <2> HIDE DEF a2
    <2> QED
      BY <2>1, <2>2, <1>5, <1>6
  <1> HIDE DEF a2
  <1>8. IsAlarm(a3) /\ (~commanded' => Current(a3, t))
    BY <1>7, ButtonIsAlarm, ButtonIsCurrent
  <1> HIDE DEF a3
  <1>9. IsAlarm(a4) /\ (~commanded' => Current(a4, t))
    BY <1>8, ButtonIsAlarm, ButtonIsCurrent
  <1> HIDE DEF a4
  <1>10. AlarmActiveIsCurrent'
    BY <1>2, <1>9 DEF AlarmActiveIsCurrent, Current, MinuteOf
  <1>11. ~shown => cmd.kind # "T"
    BY DEF Displays
  <1> HIDE DEF shown
  <1>12. /\ screen_off_time' = IF shown \/ ext THEN ScreenOn(t) ELSE screen_off_time
         /\ message_off_time' = IF shown THEN t + MessageOn ELSE message_off_time
    BY <1>2 DEF Display
  <1>13. ScreenOn(t) \in t .. t + DayScreenOn
    BY <1>5, ScreenTimes
  <1>14. /\ screen_off_time - now_time <= DayScreenOn
         /\ message_off_time - now_time <= MessageOn
         /\ answered => screen_off_time >= now_time /\ message_off_time >= now_time
    BY <1>3 DEF ClockInv, DisplayTimesHold
  <1>15. answered' /\ ~shown => answered /\ t = rtc
    BY <1>2, <1>4, <1>5, <1>11
  <1>16. held' > 0 => ext
    BY <1>2
  <1>17. screen_off_time' \in Nat /\ message_off_time' \in Nat
    BY <1>3, <1>5, <1>12, <1>13, ClockAssumption
  <1>18. /\ screen_off_time' - t <= DayScreenOn
         /\ held' > 0 \/ answered' => screen_off_time' >= t
    BY <1>3, <1>4, <1>5, <1>12, <1>13, <1>14, <1>15, <1>16, ClockAssumption
  <1>19. message_off_time' - t <= MessageOn /\ (answered' => message_off_time' >= t)
    BY <1>3, <1>4, <1>5, <1>12, <1>14, <1>15, ClockAssumption
  <1>20. DisplayTimesHold'
    BY <1>2, <1>18, <1>19 DEF DisplayTimesHold
  <1> QED
    BY <1>2, <1>3, <1>5, <1>9, <1>10, <1>17, <1>20 DEF ClockInv

LEMMA StepClockInv == ClockInv /\ [Next]_vars => ClockInv'
  <1>1. ASSUME ClockInv, UNCHANGED vars PROVE ClockInv'
    BY <1>1 DEF vars, clockVars, nightVars, ClockInv, Running, AlarmActiveIsCurrent, MinuteOf,
                DisplayTimesHold
  <1> QED
    BY <1>1, SetupInv, RoundInv, SaveByteOfNightInv, PowerFailInv DEF Next

(* The inductive invariant: while the clock runs it has the time of the    *)
(* DS1307 as of the last round, so that the next second is noticed, and    *)
(* without power nothing is on the display.                                *)
THEOREM ClockInvariance == Spec => []ClockInv
  BY InitClockInv, StepClockInv, PTL DEF Spec

(* cpeclock.ino:466-535: except in the second of a command by radio,       *)
(* alarm_active is what alarm_update would answer now: across the round's  *)
(* order of work, the buttons, commands and boots, for any alarm time.     *)
THEOREM SoundsWhenItShould == Spec => []AlarmActiveIsCurrent
  BY ClockInvariance, PTL DEF ClockInv

(* cpeclock.ino:245-288: the display's times are right wherever clock_set  *)
(* moves the time.                                                         *)
THEOREM DisplayIsOnWhenItShould == Spec => []DisplayTimesHold
  BY ClockInvariance, PTL DEF ClockInv

-----------------------------------------------------------------------------
(* Holding the extension button *)

(* The alarm sounds for longer than the button must be held to cancel it:  *)
(* ALARM_SOUNDS_FOR is 10 minutes, and 100 rounds take less than that.     *)
WindowOutlastsHold == CancelAt <= SoundsFor * MinuteLen

(* The minutes and the seconds since the last alarm time. *)
Elapsed(a, t) == (MinuteOf(t) - BootTime(a.time)) % WholeDay
SecondsIn(a, t) == Elapsed(a, t) * MinuteLen + (t % MinuteLen)
InWindow(a, t) == Elapsed(a, t) < SoundsFor

(* The alarm has been set no more than n seconds ago, and if it sounds, it *)
(* has begun since.                                                        *)
SetAgain(a, t, n) ==
  \/ a.state = ALARM_RESET
  \/ a.state = ALARM_ENABLED /\ ~InWindow(a, t)
  \/ a.state = ALARM_ACTIVE /\ InWindow(a, t) /\ SecondsIn(a, t) < n

HoldInv ==
  /\ alarm.time \in Words
  /\ held \in Nat
  /\ ~Running => held = 0
  /\ extension_button_pressed = held % ResetAt
  /\ alone /\ held % ResetAt >= CancelAt => alarm.state = ALARM_DISABLED
  /\ alone /\ held >= ResetAt /\ held % ResetAt < CancelAt =>
       SetAgain(alarm, now_time, held % ResetAt)

LEMMA UpdateFields ==
  ASSUME NEW a, IsAlarm(a), a.time \in Words, NEW t \in Nat
  PROVE  /\ AlarmUpdate(a, t).time = a.time
         /\ AlarmUpdate(a, t).state = NextState(a.state, InActiveRegion(a.time, MinuteOf(t)))
         /\ MinuteOf(t) \in Minutes /\ Elapsed(a, t) \in Minutes /\ Elapsed(a, t) \in Nat
         /\ InActiveRegion(a.time, MinuteOf(t)) # 0 <=> InWindow(a, t)
  <1> USE TimesAssumption, ClockAssumption
  <1>1. MinuteOf(t) \in Minutes
    <2>1. t \div MinuteLen \in Nat
      OBVIOUS
    <2> QED
      BY <2>1 DEF MinuteOf, Minutes
  <1>2. Elapsed(a, t) \in Minutes
    BY <1>1, BootTimeInDay, ElapsedCases DEF Elapsed
  <1>3. InActiveRegion(a.time, MinuteOf(t)) # 0 <=> InWindow(a, t)
    BY <1>1, RegionIsInWindow DEF InWindow, Elapsed
  <1>4. /\ AlarmUpdate(a, t).time = a.time
        /\ AlarmUpdate(a, t).state = NextState(a.state, InActiveRegion(a.time, MinuteOf(t)))
    BY DEF AlarmUpdate, IsAlarm
  <1> QED
    BY <1>1, <1>2, <1>3, <1>4 DEF Minutes

(* A cancelled alarm stays cancelled. *)
LEMMA DisabledStays ==
  ASSUME NEW a, IsAlarm(a), NEW t, a.state = ALARM_DISABLED
  PROVE  AlarmUpdate(a, t).state = ALARM_DISABLED
  BY DEF IsAlarm, AlarmUpdate, NextState, ALARM_DISABLED, ALARM_ACTIVE, ALARM_ENABLED, ALARM_RESET

(* A second later, an alarm that is set sounds only if it begins. *)
LEMMA SetAgainStays ==
  ASSUME NEW a, IsAlarm(a), a.time \in Words, NEW t \in Nat, NEW n \in Nat,
         SetAgain(a, t, n), n < SoundsFor * MinuteLen
  PROVE  SetAgain(AlarmUpdate(a, t + 1), t + 1, n + 1)
  <1> USE TimesAssumption, ClockAssumption, SoundsForAssumption
  <1> DEFINE b == AlarmUpdate(a, t + 1)
             e == Elapsed(a, t)
             f == Elapsed(a, t + 1)
             s == t % MinuteLen
  <1>1. t + 1 \in Nat /\ b.time = a.time
        /\ b.state = NextState(a.state, InActiveRegion(a.time, MinuteOf(t + 1)))
    BY UpdateFields
  <1>2. /\ e \in Minutes /\ f \in Minutes
        /\ InActiveRegion(a.time, MinuteOf(t + 1)) # 0 <=> InWindow(a, t + 1)
    BY <1>1, UpdateFields
  <1>3. \/ (t + 1) % MinuteLen = s + 1 /\ f = e
        \/ /\ s = MinuteLen - 1 /\ (t + 1) % MinuteLen = 0
           /\ f = IF e = WholeDay - 1 THEN 0 ELSE e + 1
    <2> DEFINE from == BootTime(a.time)
               m == MinuteOf(t)
               m1 == MinuteOf(t + 1)
    <2>1. from \in Minutes /\ m \in Minutes /\ m1 \in Minutes
      BY <1>1, BootTimeInDay, UpdateFields
    <2>2. e = (m - from) % WholeDay /\ f = (m1 - from) % WholeDay
      BY DEF Elapsed
    <2>3. /\ e = IF m >= from THEN m - from ELSE m - from + WholeDay
          /\ f = IF m1 >= from THEN m1 - from ELSE m1 - from + WholeDay
      <3> HIDE DEF from, m, m1, e, f
      <3> QED
        BY <2>1, <2>2, ElapsedCases
    <2>4. \/ (t + 1) % MinuteLen = s + 1 /\ m1 = m
          \/ /\ s = MinuteLen - 1 /\ (t + 1) % MinuteLen = 0
             /\ m1 = IF m = WholeDay - 1 THEN 0 ELSE m + 1
      BY NextSecond
    <2> HIDE DEF from, m, m1, e, f, s
    <2> QED
      BY <2>1, <2>3, <2>4 DEF Minutes
  <1>4. /\ SecondsIn(a, t) = e * MinuteLen + s
        /\ SecondsIn(a, t + 1) = f * MinuteLen + ((t + 1) % MinuteLen)
        /\ s \in 0 .. MinuteLen - 1
        /\ InWindow(a, t) <=> e < SoundsFor
        /\ InWindow(a, t + 1) <=> f < SoundsFor
    BY DEF SecondsIn, InWindow
  <1>5. /\ SecondsIn(b, t + 1) = SecondsIn(a, t + 1)
        /\ InWindow(b, t + 1) <=> InWindow(a, t + 1)
    BY <1>1 DEF SecondsIn, InWindow, Elapsed
  <1> HIDE DEF b, e, f, s
  <1>6. e \in Nat /\ f \in Nat /\ e < WholeDay
    BY <1>2 DEF Minutes
  <1>7. (e + 1) * MinuteLen = e * MinuteLen + MinuteLen /\ e * MinuteLen \in Nat
    BY <1>6
  <1>8. CASE a.state = ALARM_RESET
    BY <1>1, <1>2, <1>5, <1>8 DEF b, SetAgain, NextState, ALARM_RESET, ALARM_ENABLED, ALARM_ACTIVE,
                                  ALARM_DISABLED
  <1>9. CASE a.state = ALARM_ENABLED /\ ~InWindow(a, t)
    <2>1. InWindow(a, t + 1) => SecondsIn(a, t + 1) = 0
      BY <1>3, <1>4, <1>6, <1>9
    <2>2. CASE InWindow(a, t + 1)
      <3>1. b.state = ALARM_ACTIVE
        BY <1>1, <1>2, <1>9, <2>2 DEF b, NextState, ALARM_RESET, ALARM_ENABLED, ALARM_ACTIVE
      <3> QED
        BY <1>5, <2>1, <2>2, <3>1 DEF b, SetAgain
    <2>3. CASE ~InWindow(a, t + 1)
      <3>1. b.state = ALARM_ENABLED
        BY <1>1, <1>2, <1>9, <2>3 DEF b, NextState, ALARM_RESET, ALARM_ENABLED, ALARM_ACTIVE
      <3> QED
        BY <1>5, <2>3, <3>1 DEF b, SetAgain
    <2> QED
      BY <2>2, <2>3
  <1>10. CASE a.state = ALARM_ACTIVE /\ InWindow(a, t) /\ SecondsIn(a, t) < n
    <2>1. SecondsIn(a, t + 1) = SecondsIn(a, t) + 1
      BY <1>3, <1>4, <1>6, <1>7, <1>10
    <2>2. InWindow(a, t + 1)
      <3>1. f = e \/ (f = e + 1 /\ (e + 1) * MinuteLen < SoundsFor * MinuteLen)
        BY <1>3, <1>4, <1>6, <1>7, <1>10, <2>1
      <3>2. CASE f = e
        BY <1>4, <1>10, <3>2
      <3>3. CASE f = e + 1 /\ (e + 1) * MinuteLen < SoundsFor * MinuteLen
        <4>1. ~(SoundsFor <= e + 1)
          BY <1>6, <3>3, TimesMonotone
        <4> QED
          BY <1>4, <1>6, <3>3, <4>1
      <3> QED
        BY <3>1, <3>2, <3>3
    <2>3. b.state = ALARM_ACTIVE
      BY <1>1, <1>2, <1>10, <2>2 DEF b, NextState, ALARM_RESET, ALARM_ENABLED, ALARM_ACTIVE
    <2>4. SecondsIn(a, t) \in Nat
      BY <1>4, <1>7
    <2> QED
      BY <1>5, <1>10, <2>1, <2>2, <2>3, <2>4 DEF b, SetAgain
  <1> QED
    BY <1>8, <1>9, <1>10 DEF SetAgain

(* The counter is the number of rounds since the last reset. *)
LEMMA CountRounds ==
  ASSUME NEW h \in Nat
  PROVE  /\ h % ResetAt \in 0 .. ResetAt - 1
         /\ (h + 1) % ResetAt = CountAfter((h % ResetAt) + 1)
         /\ h < ResetAt => h % ResetAt = h
  <1> USE ClockAssumption
  <1>1. ResetAt \in Nat \ {0} /\ h % ResetAt \in 0 .. ResetAt - 1
    OBVIOUS
  <1>2. \/ (h + 1) % ResetAt = (h % ResetAt) + 1
        \/ h % ResetAt = ResetAt - 1 /\ (h + 1) % ResetAt = 0
    BY <1>1, NextRemainder
  <1>3. (h + 1) % ResetAt \in 0 .. ResetAt - 1
    BY <1>1
  <1>4. h < ResetAt => h % ResetAt = h
    BY <1>1
  <1> HIDE ClockAssumption
  <1> QED
    BY <1>1, <1>2, <1>3, <1>4 DEF CountAfter

(* The extension button sets the alarm or cancels it, whatever it was. *)
LEMMA SetButton ==
  ASSUME NEW a, IsAlarm(a), a.time \in Words, NEW t \in Nat
  PROVE  LET b == Button(a, AlarmSet(a, ResetTime(a.time)), t)
         IN  IsAlarm(b) /\ b.time \in Words /\ SetAgain(b, t, 0)
  <1> DEFINE s == AlarmSet(a, ResetTime(a.time))
             u == AlarmUpdate(s, t)
  <1>1. ResetTime(a.time) \in Words
    BY ResetTimeIsWord
  <1>2. IsAlarm(s) /\ s.time \in Words /\ s.state = ALARM_RESET
    BY <1>1 DEF AlarmSet, IsAlarm
  <1> HIDE DEF s
  <1>3. IsAlarm(u) /\ u.time = s.time
    BY <1>2, UpdateIsCurrent, UpdateFields
  <1>4. u.state = IF InWindow(s, t) THEN ALARM_RESET ELSE ALARM_ENABLED
    <2>1. /\ u.state = NextState(s.state, InActiveRegion(s.time, MinuteOf(t)))
          /\ InActiveRegion(s.time, MinuteOf(t)) # 0 <=> InWindow(s, t)
      BY <1>2, UpdateFields
    <2> QED
      BY <1>2, <2>1 DEF NextState, ALARM_RESET, ALARM_ENABLED, ALARM_ACTIVE, ALARM_DISABLED
  <1>5. InWindow(u, t) <=> InWindow(s, t)
    BY <1>3 DEF InWindow, Elapsed
  <1> HIDE DEF u
  <1>6. SetAgain(s, t, 0) /\ SetAgain(u, t, 0)
    BY <1>2, <1>4, <1>5 DEF SetAgain
  <1>7. Button(a, s, t) = s \/ Button(a, s, t) = u
    BY DEF Button, u
  <1> QED
    BY <1>2, <1>3, <1>6, <1>7 DEF s

LEMMA UnsetButton ==
  ASSUME NEW a, IsAlarm(a), a.time \in Words, NEW t \in Nat
  PROVE  LET b == Button(a, AlarmUnset(a), t)
         IN  IsAlarm(b) /\ b.time \in Words /\ b.state = ALARM_DISABLED
  <1> DEFINE s == AlarmUnset(a)
             u == AlarmUpdate(s, t)
  <1>1. IsAlarm(s) /\ s.time = a.time /\ s.state = ALARM_DISABLED
    BY DEF AlarmUnset, IsAlarm
  <1> HIDE DEF s
  <1>2. IsAlarm(u) /\ u.time = a.time /\ u.state = ALARM_DISABLED
    BY <1>1, UpdateIsCurrent, UpdateFields, DisabledStays
  <1>3. Button(a, s, t) = s \/ Button(a, s, t) = u
    BY DEF Button
  <1> QED
    BY <1>1, <1>2, <1>3 DEF s

LEMMA InitHoldInv == Init => HoldInv
  <1> SUFFICES ASSUME Init PROVE HoldInv
    OBVIOUS
  <1>1. 0 % ResetAt = 0 /\ ResetAt > 0
    BY ClockAssumption
  <1>2. alarm.time \in Words
    BY ClockAssumption DEF Init
  <1> QED
    BY <1>1, <1>2, ClockAssumption DEF Init, HoldInv

LEMMA RoundHold == ASSUME WindowOutlastsHold, ClockInv, HoldInv, Round PROVE HoldInv'
  <1>1. PICK step \in {0, 1}, cmd \in Commands, right \in BOOLEAN, left \in BOOLEAN, ext \in BOOLEAN :
          Loop(step, cmd, right, left, ext)
    BY DEF Round
  <1> DEFINE count  == IF ext THEN extension_button_pressed + 1 ELSE 0
             cancel == left \/ count = CancelAt
             reset  == right \/ count = ResetAt
             t0     == rtc + step
             a1     == IF t0 % MinuteLen # now_time % MinuteLen THEN AlarmUpdate(alarm, t0) ELSE alarm
             t      == TimeAfterMail(t0, cmd)
             a2     == AfterMail(a1, cmd)
             a3     == IF reset THEN Button(a2, AlarmSet(a2, ResetTime(a2.time)), t) ELSE a2
             a4     == IF cancel THEN Button(a3, AlarmUnset(a3), t) ELSE a3
             n      == held % ResetAt
  <1>2. /\ nightPc = "idle" /\ (nightPc' = "idle" \/ nightPc' = "nightLo")
        /\ now_time' = t /\ alarm' = a4
        /\ extension_button_pressed' = CountAfter(count)
        /\ held' = IF ext THEN held + 1 ELSE 0
        /\ alone' = (ext /\ (held = 0 \/ alone) /\ ~left /\ ~right /\ cmd.kind \notin {"a", "A", "T"})
    BY <1>1 DEF Loop, nightVars, night_day_time_set, SaveNight
  <1>3. /\ Running /\ Running' /\ now_time = rtc /\ rtc \in Nat /\ IsAlarm(alarm)
        /\ alarm.time \in Words /\ held \in Nat /\ extension_button_pressed = n
    BY <1>2 DEF Running, ClockInv, HoldInv
  <1>4. /\ n \in 0 .. ResetAt - 1 /\ (held + 1) % ResetAt = CountAfter(n + 1)
        /\ held < ResetAt => n = held
    BY <1>3, CountRounds
  <1>5. t0 \in Nat /\ t \in Nat /\ (cmd.kind # "T" => t = t0)
    BY <1>3, TimeAfterMailLater
  <1> HIDE DEF n
  <1>6. held' \in Nat /\ extension_button_pressed' = held' % ResetAt
    <2>1. CASE ext
      BY <1>2, <1>3, <1>4, <2>1
    <2>2. CASE ~ext
      <3>1. 0 % ResetAt = 0 /\ ResetAt # 0
        BY ClockAssumption
      <3> QED
        BY <1>2, <2>2, <3>1 DEF CountAfter
    <2> QED
      BY <2>1, <2>2
  (* The alarm's time, whatever has been done to it. *)
  <1>7. /\ a1.time = alarm.time /\ IsAlarm(a1)
        /\ \/ a1 = alarm /\ t0 = now_time
           \/ a1 = AlarmUpdate(alarm, t0) /\ t0 = now_time + 1
    <2>1. CASE t0 % MinuteLen # now_time % MinuteLen
      <3>1. step = 1
        BY <1>3, <2>1
      <3> QED
        BY <1>3, <1>5, <2>1, <3>1, UpdateFields, UpdateIsCurrent
    <2>2. CASE t0 % MinuteLen = now_time % MinuteLen
      <3>1. step = 0
        BY <2>2, <1>3, AnotherSecond
      <3> QED
        BY <1>3, <2>2, <3>1
    <2> QED
      BY <2>1, <2>2
  <1> HIDE DEF t0, a1, t
  <1>8. /\ a2.time \in Words /\ IsAlarm(a2)
        /\ cmd.kind \notin {"a", "A", "T"} => a2 = a1
    <2>1. IsAlarm(a2) /\ (cmd.kind \notin {"a", "A", "T"} => a2 = a1)
      BY <1>7, AfterMailIsAlarm
    <2>2. CASE cmd.kind = "A"
      <3>1. cmd.time \in AlarmTimes
        BY <2>2 DEF Commands
      <3>2. a2.time = cmd.time
        BY <1>7, <2>2 DEF AfterMail, AlarmSet, IsAlarm
      <3> QED
        BY <2>1, <3>1, <3>2, ClockAssumption
    <2>3. CASE cmd.kind # "A"
      <3>1. a2.time = a1.time
        BY <1>7, <2>3 DEF AfterMail, AlarmUnset, IsAlarm
      <3> QED
        BY <1>3, <1>7, <2>1, <3>1
    <2> QED
      BY <2>2, <2>3
  <1> HIDE DEF a2
  <1>9. IsAlarm(a3) /\ a3.time \in Words
    <2>1. CASE reset
      BY <1>5, <1>8, <2>1, SetButton
    <2>2. CASE ~reset
      BY <1>8, <2>2
    <2> QED
      BY <2>1, <2>2
  <1>10. ~reset => a3 = a2
    OBVIOUS
  <1>11. reset => SetAgain(a3, t, 0)
    BY <1>5, <1>8, SetButton
  <1> HIDE DEF a3
  <1>12. IsAlarm(a4) /\ a4.time \in Words
    BY <1>5, <1>9, UnsetButton
  <1>13. (~cancel => a4 = a3) /\ (cancel => a4.state = ALARM_DISABLED)
    BY <1>5, <1>9, UnsetButton
  <1> HIDE DEF a4
  <1>14. ASSUME alone'
         PROVE  /\ cancel <=> n + 1 = CancelAt
                /\ reset <=> n + 1 = ResetAt
                /\ held = 0 \/ alone
                /\ held' = held + 1 /\ held' % ResetAt = CountAfter(n + 1)
                /\ a2 = a1 /\ t = t0
    BY <1>2, <1>3, <1>4, <1>5, <1>8, <1>14
  <1> HIDE DEF cancel, reset
  <1>15. CancelAt \in Nat /\ ResetAt \in Nat /\ 0 < CancelAt /\ CancelAt < ResetAt
    BY ClockAssumption
  <1>16. ASSUME alone', held' % ResetAt >= CancelAt
         PROVE  a4.state = ALARM_DISABLED
    <2>1. n + 1 >= CancelAt /\ n + 1 # ResetAt
      BY <1>4, <1>14, <1>15, <1>16 DEF CountAfter
    <2>2. CASE n + 1 = CancelAt
      BY <1>13, <1>14, <1>16, <2>2
    <2>3. CASE n + 1 # CancelAt
      <3>1. n >= CancelAt /\ held # 0
        BY <1>3, <1>4, <1>15, <2>1, <2>3
      <3>2. alarm.state = ALARM_DISABLED
        BY <1>14, <1>16, <3>1 DEF HoldInv, n
      <3>3. a1.state = ALARM_DISABLED
        BY <1>3, <1>7, <3>2, DisabledStays
      <3> QED
        BY <1>10, <1>13, <1>14, <1>16, <2>1, <2>3, <3>3
    <2> QED
      BY <2>2, <2>3
  <1>17. ASSUME alone', held' >= ResetAt, held' % ResetAt < CancelAt
         PROVE  SetAgain(a4, t, held' % ResetAt)
    <2>1. CASE n + 1 = ResetAt
      <3>1. held' % ResetAt = 0
        BY <1>14, <1>17, <2>1 DEF CountAfter
      <3> QED
        BY <1>11, <1>13, <1>14, <1>15, <1>17, <2>1, <3>1
    <2>2. CASE n + 1 # ResetAt
      <3>1. held' % ResetAt = n + 1 /\ n + 1 < CancelAt
        BY <1>14, <1>17, <2>2 DEF CountAfter
      <3>2. held >= ResetAt /\ alone
        BY <1>3, <1>4, <1>14, <1>15, <1>17, <2>2
      <3>3. SetAgain(alarm, now_time, n) /\ n \in Nat
        BY <1>4, <1>15, <3>1, <3>2 DEF HoldInv, n
      <3>4. a4 = a1
        BY <1>4, <1>10, <1>13, <1>14, <1>15, <1>17, <2>2, <3>1
      <3>5. CASE a1 = alarm /\ t0 = now_time
        <4>1. SecondsIn(alarm, now_time) < n => SecondsIn(alarm, now_time) < n + 1
          <5>1. SecondsIn(alarm, now_time) \in Nat
            <6>1. Elapsed(alarm, now_time) \in Nat /\ now_time \in Nat
              BY <1>3, UpdateFields
            <6> QED
              BY <6>1, ClockAssumption DEF SecondsIn
          <5> QED
            BY <3>3, <5>1
        <4> QED
          BY <1>14, <1>17, <3>1, <3>3, <3>4, <3>5, <4>1 DEF SetAgain
      <3>6. CASE a1 = AlarmUpdate(alarm, t0) /\ t0 = now_time + 1
        <4>1. n < SoundsFor * MinuteLen
          <5>1. SoundsFor * MinuteLen \in Nat
            BY SoundsForAssumption, TimesAssumption, ClockAssumption
          <5> QED
            BY <1>15, <3>1, <3>3, <5>1 DEF WindowOutlastsHold
        <4>2. SetAgain(AlarmUpdate(alarm, now_time + 1), now_time + 1, n + 1)
          BY <1>3, <3>3, <4>1, SetAgainStays
        <4> QED
          BY <1>14, <1>17, <3>1, <3>4, <3>6, <4>2
      <3> QED
        BY <1>7, <3>5, <3>6
    <2> QED
      BY <2>1, <2>2
  <1> QED
    BY <1>2, <1>3, <1>6, <1>12, <1>16, <1>17 DEF HoldInv

LEMMA StepHoldInv == ASSUME WindowOutlastsHold, ClockInv, HoldInv, [Next]_vars PROVE HoldInv'
  <1>1. CASE Setup
    <2>1. /\ alarm' = [alarm EXCEPT !.time = BootTime(alarm.time)] /\ Running'
          /\ UNCHANGED <<extension_button_pressed, held, alone>> /\ ~Running
      BY <1>1 DEF Setup, Running, night_day_time_init, SaveNight
    <2>2. alarm'.time \in Words
      BY <2>1, BootTimeInDay DEF HoldInv, ClockInv, IsAlarm
    <2>3. held = 0 /\ 0 % ResetAt = 0 /\ 0 < CancelAt /\ 0 < ResetAt
      BY <2>1, ClockAssumption DEF HoldInv
    <2> QED
      BY <2>1, <2>2, <2>3, ClockAssumption DEF HoldInv
  <1>2. CASE Round
    BY <1>2, RoundHold
  <1>3. CASE SaveByteOfNight
    <2>1. UNCHANGED <<alarm, now_time, extension_button_pressed, held, alone>> /\ Running
      BY <1>3 DEF SaveByteOfNight, SaveNightRest, SaveByte, Running, clockVars
    <2>2. Running'
      BY <1>3 DEF SaveByteOfNight, SaveNightRest, SaveByte, Running
    <2> QED
      BY <2>1, <2>2 DEF HoldInv, SetAgain, SecondsIn, InWindow, Elapsed, MinuteOf
  <1>4. CASE PowerFail
    <2>1. /\ alarm' = [alarm EXCEPT !.active = 0]
          /\ extension_button_pressed' = 0 /\ held' = 0 /\ alone' = FALSE
      BY <1>4 DEF PowerFail
    <2>2. alarm'.time \in Words
      BY <2>1 DEF HoldInv, ClockInv, IsAlarm
    <2>3. 0 % ResetAt = 0
      BY ClockAssumption
    <2> QED
      BY <2>1, <2>2, <2>3 DEF HoldInv
  <1>5. CASE UNCHANGED vars
    BY <1>5 DEF vars, clockVars, nightVars, HoldInv, Running, SetAgain, SecondsIn, InWindow, Elapsed,
                MinuteOf
  <1> QED
    BY <1>1, <1>2, <1>3, <1>4, <1>5 DEF Next

(* The inductive invariant: the counter is the number of rounds since the  *)
(* last reset; from CancelAt on the alarm is off, and after a reset it can *)
(* sound only if its time has come since, so that its window is not over   *)
(* before the next cancel.                                                 *)
THEOREM HoldInvariance ==
  ASSUME WindowOutlastsHold
  PROVE  Spec => []HoldInv
  <1>1. ClockInv /\ HoldInv /\ [Next]_vars => HoldInv'
    BY WindowOutlastsHold, StepHoldInv
  <1> QED
    BY <1>1, InitHoldInv, ClockInvariance, PTL DEF Spec

(* cpeclock.ino:486-507: however long the extension button is held, and    *)
(* whatever the alarm was doing, it is cancelled, set again, and so on;    *)
(* once it is set it is never found disabled before it is cancelled.       *)
THEOREM HoldingCancelsAndSets ==
  ASSUME WindowOutlastsHold
  PROVE  Spec => []HoldCancelsAndSets
  <1>1. ClockInv /\ HoldInv => HoldCancelsAndSets
    <2> SUFFICES ASSUME ClockInv, HoldInv, alone, held > 0 PROVE HoldCancelsAndSets
      BY DEF HoldCancelsAndSets
    <2>1. Running
      BY DEF HoldInv
    <2>2. ~commanded /\ alarm.state = ALARM_DISABLED => alarm.active = 0
      BY <2>1 DEF ClockInv, AlarmActiveIsCurrent, ALARM_DISABLED, ALARM_ACTIVE
    <2>3. held >= ResetAt /\ held % ResetAt < CancelAt => alarm.state # ALARM_DISABLED
      BY DEF HoldInv, SetAgain, ALARM_DISABLED, ALARM_ENABLED, ALARM_ACTIVE, ALARM_RESET
    <2> QED
      BY <2>2, <2>3 DEF HoldInv, HoldCancelsAndSets
  <1> QED
    BY <1>1, HoldInvariance, ClockInvariance, WindowOutlastsHold, PTL
=============================================================================
