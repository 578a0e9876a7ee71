---------------------------- MODULE AlarmProofs ----------------------------
(* Theorems about the alarm and its NVRAM, for every length of the day and *)
(* of the hour, every size of a byte, every command and any number of      *)
(* power failures.                                                         *)
EXTENDS Alarm, AlarmRulesProofs

(* How far save_to_nvram has come. *)
SavedInv ==
  /\ pc \in {"saveLo", "saveState", "idle"} => nv.hi = alarm_time \div ByteSize
  /\ pc \in {"saveState", "idle"} => nv.lo = alarm_time % ByteSize
  /\ pc = "idle" => nv.state = alarm_state

AlarmInv == TypeOK /\ SavedInv

States == {ALARM_DISABLED, ALARM_ENABLED, ALARM_ACTIVE, ALARM_RESET}

LEMMA StatesAreBytes == States \subseteq Bytes /\ 0 \in Words /\ 0 \in Minutes
  BY TimesAssumption, AlarmAssumption
     DEF States, Bytes, Words, Minutes, ALARM_DISABLED, ALARM_ENABLED, ALARM_ACTIVE, ALARM_RESET,
         ALARM_INVALID_STATE

LEMMA InitAlarmInv == Init => AlarmInv
  <1> SUFFICES ASSUME Init PROVE AlarmInv
    OBVIOUS
  <1>1. nv \in Nvram /\ now \in Minutes
    BY AlarmAssumption DEF Init
  <1>2. alarm_time \in Words /\ alarm_state \in States
    BY StatesAreBytes DEF Init, States
  <1>3. before \in Nat \X Bytes
    <2>1. 0 \in Nat /\ ALARM_DISABLED \in Bytes
      BY StatesAreBytes DEF States
    <2> QED
      BY <2>1 DEF Init
  <1>4. requests \in 0 .. MaxRequests /\ crashes \in 0 .. MaxCrashes
    BY AlarmAssumption DEF Init
  <1> QED
    BY <1>1, <1>2, <1>3, <1>4 DEF Init, AlarmInv, TypeOK, SavedInv, States

(* A function changes the alarm and writes the first byte. *)
LEMMA SaveInv ==
  ASSUME AlarmInv, NEW time \in Words, NEW state \in States, Save(time, state)
  PROVE  /\ alarm_time' \in Words /\ alarm_state' \in States /\ nv' \in Nvram
         /\ pc' = "saveLo" /\ before' \in Nat \X Bytes
         /\ nv'.hi = alarm_time' \div ByteSize
  <1>1. time \div ByteSize \in Bytes
    BY TwoBytes
  <1>2. (time \div ByteSize) % ByteSize = time \div ByteSize
    BY <1>1, TimesAssumption DEF Bytes
  <1>3. nv' = [nv EXCEPT !.hi = time \div ByteSize] /\ nv \in Nvram
    BY <1>2 DEF Save, AlarmInv, TypeOK
  <1>4. nv' \in Nvram /\ nv'.hi = time \div ByteSize
    BY <1>1, <1>3 DEF Nvram
  <1>5. alarm_time \in Nat /\ alarm_state \in Bytes
    BY StatesAreBytes, TimesAssumption DEF AlarmInv, TypeOK, Words, States
  <1> QED
    BY <1>4, <1>5 DEF Save

LEMMA NextStateIsState ==
  ASSUME NEW state \in States, NEW region
  PROVE  NextState(state, region) \in States
  BY DEF NextState, States, ALARM_DISABLED, ALARM_ENABLED, ALARM_ACTIVE, ALARM_RESET

(* A command or a button, which saves the alarm. *)
LEMMA RequestInv ==
  ASSUME AlarmInv, Request, NEW time \in Words, NEW state \in States, Save(time, state)
  PROVE  AlarmInv'
  <1>1. requests' \in 0 .. MaxRequests
    BY AlarmAssumption DEF Request, AlarmInv, TypeOK
  <1> QED
    BY <1>1, SaveInv DEF Request, AlarmInv, TypeOK, SavedInv, States

LEMMA AlarmUpdateInv == ASSUME AlarmInv, AlarmUpdate PROVE AlarmInv'
  <1>1. alarm_time \in Words /\ alarm_state \in States
    BY DEF AlarmInv, TypeOK, States
  <1>2. CASE NextState(alarm_state, Region) = alarm_state
    BY <1>2 DEF AlarmUpdate, AlarmInv, TypeOK, SavedInv
  <1>3. CASE NextState(alarm_state, Region) # alarm_state
    <2>1. Save(alarm_time, NextState(alarm_state, Region))
      BY <1>3 DEF AlarmUpdate
    <2> QED
      BY <2>1, <1>1, NextStateIsState, SaveInv
         DEF AlarmUpdate, AlarmInv, TypeOK, SavedInv, States
  <1> QED
    BY <1>2, <1>3

(* The writes after the first. *)
LEMMA SaveRestInv == ASSUME AlarmInv, SaveLo \/ SaveState PROVE AlarmInv'
  <1>1. CASE SaveLo
    <2>1. alarm_time % ByteSize \in Bytes
      BY TwoBytes DEF AlarmInv, TypeOK
    <2> QED
      BY <1>1, <2>1 DEF SaveLo, AlarmInv, TypeOK, SavedInv, Nvram
  <1>2. CASE SaveState
    <2>1. alarm_state \in Bytes
      BY StatesAreBytes DEF AlarmInv, TypeOK, States
    <2> QED
      BY <1>2, <2>1 DEF SaveState, AlarmInv, TypeOK, SavedInv, Nvram
  <1> QED
    BY <1>1, <1>2

(* alarm_init, whatever the bytes are. *)
LEMMA AlarmInitInv == ASSUME AlarmInv, AlarmInit PROVE AlarmInv'
  <1>1. nv \in Nvram
    BY DEF AlarmInv, TypeOK
  <1>2. Stored \in Words
    BY <1>1, BytesMakeWord DEF Stored, Nvram
  <1>3. BootTime(Stored) \in Words /\ BootTime(Stored) \div ByteSize \in Bytes
    BY <1>2, BootTimeInDay, TwoBytes
  <1>4. BootState(nv.state) \in States
    BY <1>1 DEF Nvram, BootState, States, Bytes, ALARM_DISABLED, ALARM_ENABLED, ALARM_ACTIVE,
                ALARM_RESET, ALARM_INVALID_STATE
  <1>5. nv' \in Nvram /\ nv'.hi = alarm_time' \div ByteSize
    BY <1>1, <1>3 DEF AlarmInit, Nvram
  <1>6. before' \in Nat \X Bytes
    BY <1>3, <1>4, StatesAreBytes, TimesAssumption DEF AlarmInit, Words
  <1> QED
    BY <1>3, <1>4, <1>5, <1>6 DEF AlarmInit, AlarmInv, TypeOK, SavedInv, States

LEMMA StepAlarmInv == AlarmInv /\ [Next]_vars => AlarmInv'
  <1> SUFFICES ASSUME AlarmInv, [Next]_vars PROVE AlarmInv'
    OBVIOUS
  <1>1. ALARM_RESET \in States /\ ALARM_DISABLED \in States
    BY DEF States
  <1>2. alarm_time \in Words
    BY DEF AlarmInv, TypeOK
  <1>3. CASE \E input \in Inputs : AlarmSet(input[1], input[2])
    <2>1. PICK input \in Inputs : AlarmSet(input[1], input[2])
      BY <1>3
    <2>2. input[1] \in Bytes /\ input[2] \in Bytes
      BY AlarmAssumption
    <2> QED
      BY <2>1, <2>2, <1>1, HourAndMinute, RequestInv DEF AlarmSet
  <1>4. CASE AlarmUnset
    BY <1>4, <1>1, <1>2, RequestInv DEF AlarmUnset
  <1>5. CASE AlarmReset
    BY <1>5, <1>1, <1>2, ResetTimeIsWord, RequestInv DEF AlarmReset
  <1>6. CASE AlarmUpdate
    BY <1>6, AlarmUpdateInv
  <1>7. CASE SaveLo \/ SaveState
    BY <1>7, SaveRestInv
  <1>8. CASE Tick
    <2>1. (now + 1) % WholeDay \in Minutes
      BY TimesAssumption DEF AlarmInv, TypeOK, Minutes
    <2> QED
      BY <1>8, <2>1 DEF Tick, AlarmInv, TypeOK, SavedInv
  <1>9. CASE \E minute \in Minutes : ClockSet(minute)
    <2>1. requests' \in 0 .. MaxRequests
      BY <1>9, AlarmAssumption DEF ClockSet, AlarmInv, TypeOK
    <2>2. now' \in Minutes
      BY <1>9 DEF ClockSet
    <2> QED
      BY <1>9, <2>1, <2>2 DEF ClockSet, AlarmInv, TypeOK, SavedInv
  <1>10. CASE PowerFail
    <2>1. crashes' \in 0 .. MaxCrashes
      BY <1>10, AlarmAssumption DEF PowerFail, AlarmInv, TypeOK
    <2> QED
      BY <1>10, <2>1, StatesAreBytes DEF PowerFail, AlarmInv, TypeOK, SavedInv, States
  <1>11. CASE AlarmInit
    BY <1>11, AlarmInitInv
  <1>12. CASE UNCHANGED vars
    BY <1>12 DEF vars, AlarmInv, TypeOK, SavedInv
  <1> QED
    BY <1>3, <1>4, <1>5, <1>6, <1>7, <1>8, <1>9, <1>10, <1>11, <1>12 DEF Next

-----------------------------------------------------------------------------
(* The inductive invariant: every variable keeps its range, whatever the   *)
(* radio sends and the NVRAM holds, and so far as save_to_nvram has come   *)
(* the NVRAM holds the alarm.                                              *)
THEOREM AlarmInvariance == Spec => []AlarmInv
  BY InitAlarmInv, StepAlarmInv, PTL DEF Spec

(* No command, button or contents of the NVRAM takes the alarm out of its  *)
(* states or its time out of 16 bits.                                      *)
THEOREM AlarmTypeCorrect == Spec => []TypeOK
  <1>1. AlarmInv => TypeOK
    BY DEF AlarmInv
  <1> QED
    BY <1>1, AlarmInvariance, PTL

(* No path through alarm.c changes the alarm and forgets to save it.       *)
THEOREM AlarmIsSaved == Spec => []NvramMatchesRam
  <1>1. AlarmInv => NvramMatchesRam
    BY TwoBytes DEF AlarmInv, TypeOK, SavedInv, NvramMatchesRam, Stored
  <1> QED
    BY <1>1, AlarmInvariance, PTL

(* The minute loop of alarm_update, in closed form: whatever time is set,  *)
(* the alarm is in its window for the SoundsFor minutes from that time on, *)
(* across midnight; a time past the end of the day stands for midnight.    *)
THEOREM RegionIsTheWindow == Spec => []RegionIsWindow
  <1>1. TypeOK => RegionIsWindow
    BY RegionIsElapsed DEF TypeOK, RegionIsWindow
  <1> QED
    BY <1>1, AlarmTypeCorrect, PTL

-----------------------------------------------------------------------------
(* What the alarm promises, for commands that send times of day.  The      *)
(* NVRAM may hold anything at first.                                       *)

(* set_alarm is given a time of day (txnc433.c:94 asks for one, although   *)
(* nothing checks it), and a byte can count the hours of a day.            *)
OnlyTimesOfDay ==
  /\ \A input \in Inputs : input[1] * HourLen + input[2] \in Minutes
  /\ WholeDay <= ByteSize * HourLen

(* The alarm as it was, in the middle of a save: at boot nothing changes   *)
(* but what is out of range, an update or a cancel keeps the time.         *)
StepKnown ==
  IF before = <<alarm_time, alarm_state>>
    THEN BootState(nv.state) = alarm_state
    ELSE /\ nv.state = before[2]
         /\ alarm_state # ALARM_RESET => before[1] = alarm_time /\ Stored = alarm_time

DayInv ==
  /\ alarm_time \in Minutes
  /\ before \in Minutes \X States
  /\ pc \in {"saveLo", "saveState"} => StepKnown

(* The right button sets the alarm for the same time again. *)
LEMMA ResetTimeSame ==
  ASSUME OnlyTimesOfDay, NEW t \in Minutes
  PROVE  ResetTime(t) = t
  <1> USE TimesAssumption DEF Minutes
  <1>1. t \in Nat /\ HourLen \in Nat \ {0} /\ ByteSize \in Nat
    OBVIOUS
  <1>2. t \div HourLen \in Nat /\ t % HourLen \in Nat /\ (t \div HourLen) * HourLen + (t % HourLen) = t
    BY <1>1
  <1>3. t \div HourLen < ByteSize
    <2> SUFFICES ASSUME ByteSize <= t \div HourLen PROVE FALSE
      BY <1>1, <1>2
    <2>1. ByteSize * HourLen <= (t \div HourLen) * HourLen
      BY <1>1, <1>2, TimesMonotone
    <2> QED
      BY <1>2, <2>1 DEF OnlyTimesOfDay
  <1>4. (t \div HourLen) % ByteSize = t \div HourLen
    BY <1>1, <1>2, <1>3
  <1> QED
    BY <1>2, <1>4 DEF ResetTime

LEMMA BootStateOfState ==
  ASSUME NEW state \in States
  PROVE  BootState(state) = state
  BY DEF States, BootState, ALARM_DISABLED, ALARM_ENABLED, ALARM_ACTIVE, ALARM_RESET,
         ALARM_INVALID_STATE

(* The bytes of a stored time. *)
LEMMA StoredBytes ==
  ASSUME NEW hi \in Bytes, NEW lo \in Bytes
  PROVE  (hi * ByteSize + lo) \div ByteSize = hi /\ (hi * ByteSize + lo) % ByteSize = lo
  <1> DEFINE t == hi * ByteSize + lo
             q == t \div ByteSize
  <1> USE TimesAssumption DEF Bytes
  <1>1. t \in Nat /\ ByteSize \in Nat \ {0}
    OBVIOUS
  <1>2. q \in Nat /\ t % ByteSize \in Bytes /\ q * ByteSize + (t % ByteSize) = t
    BY <1>1
  <1> HIDE DEF q
  <1>3. ~(q + 1 <= hi)
    <2> SUFFICES ASSUME q + 1 <= hi PROVE FALSE
      OBVIOUS
    <2>1. (q + 1) * ByteSize <= hi * ByteSize
      BY <1>2, TimesMonotone
    <2>2. (q + 1) * ByteSize = q * ByteSize + ByteSize
      BY <1>2
    <2> QED
      BY <1>2, <2>1, <2>2
  <1>4. ~(hi + 1 <= q)
    <2> SUFFICES ASSUME hi + 1 <= q PROVE FALSE
      OBVIOUS
    <2>1. (hi + 1) * ByteSize <= q * ByteSize
      BY <1>2, TimesMonotone
    <2>2. (hi + 1) * ByteSize = hi * ByteSize + ByteSize
      OBVIOUS
    <2> QED
      BY <1>2, <2>1, <2>2
  <1>5. q = hi
    BY <1>2, <1>3, <1>4
  <1> QED
    BY <1>2, <1>5 DEF q

LEMMA InitDayInv == Init => DayInv
  <1> SUFFICES ASSUME Init PROVE DayInv
    OBVIOUS
  <1>1. 0 \in Minutes /\ ALARM_DISABLED \in States
    BY StatesAreBytes DEF States
  <1> QED
    BY <1>1 DEF Init, DayInv

(* Between two calls the NVRAM holds the alarm. *)
LEMMA IdleIsSaved ==
  ASSUME AlarmInv, pc = "idle"
  PROVE  Stored = alarm_time /\ nv.state = alarm_state
  BY TwoBytes DEF AlarmInv, TypeOK, SavedInv, Stored

(* The first write of a save changes nothing while the time is the same.   *)
LEMMA SaveSameTime ==
  ASSUME AlarmInv, pc = "idle", NEW state, Save(alarm_time, state)
  PROVE  nv' = nv
  <1>1. alarm_time \div ByteSize \in Bytes /\ nv.hi = alarm_time \div ByteSize /\ nv \in Nvram
    BY TwoBytes DEF AlarmInv, TypeOK, SavedInv
  <1>2. (alarm_time \div ByteSize) % ByteSize = nv.hi
    BY <1>1, TimesAssumption DEF Bytes
  <1>3. [nv EXCEPT !.hi = nv.hi] = nv
    BY <1>1 DEF Nvram
  <1> QED
    BY <1>2, <1>3 DEF Save

LEMMA SaveDayInv ==
  ASSUME AlarmInv, DayInv, pc = "idle", NEW time \in Minutes, NEW state \in States,
         Save(time, state), time = alarm_time \/ state = ALARM_RESET
  PROVE  DayInv'
  <1>1. nv'.state = nv.state
    BY DEF Save, AlarmInv, TypeOK, Nvram
  <1>2. nv'.state = alarm_state /\ alarm_state \in States /\ alarm_time \in Minutes
    BY <1>1, IdleIsSaved DEF DayInv, AlarmInv, TypeOK, States
  <1>3. alarm_time' = time /\ alarm_state' = state /\ before' = <<alarm_time, alarm_state>>
    BY DEF Save
  <1>4. state # ALARM_RESET => Stored' = time
    <2> SUFFICES ASSUME state # ALARM_RESET PROVE Stored' = time
      OBVIOUS
    <2>1. Save(alarm_time, state)
      OBVIOUS
    <2> QED
      BY <2>1, SaveSameTime, IdleIsSaved DEF Stored
  <1>5. StepKnown'
    BY <1>2, <1>3, <1>4, BootStateOfState DEF StepKnown
  <1> QED
    BY <1>2, <1>3, <1>5 DEF DayInv

LEMMA SaveRestDayInv == ASSUME AlarmInv, DayInv, SaveLo \/ SaveState PROVE DayInv'
  <1>1. CASE SaveLo
    <2>1. nv'.state = nv.state /\ nv'.lo = alarm_time % ByteSize /\ nv'.hi = nv.hi
      BY <1>1 DEF SaveLo, AlarmInv, TypeOK, Nvram
    <2>2. nv.hi = alarm_time \div ByteSize
      BY <1>1 DEF SaveLo, AlarmInv, SavedInv
    <2>3. Stored' = alarm_time
      BY <2>1, <2>2, TwoBytes DEF Stored, AlarmInv, TypeOK
    <2>4. StepKnown
      BY <1>1 DEF SaveLo, DayInv
    <2>5. StepKnown'
      BY <1>1, <2>1, <2>3, <2>4 DEF SaveLo, StepKnown
    <2> QED
      BY <1>1, <2>5 DEF SaveLo, DayInv
  <1>2. CASE SaveState
    BY <1>2 DEF SaveState, DayInv
  <1> QED
    BY <1>1, <1>2

(* What alarm_init loads. *)
LEMMA AlarmInitLoads ==
  ASSUME AlarmInv, AlarmInit
  PROVE  /\ BootTime(Stored) \in Minutes /\ Stored \in Words
         /\ BootState(nv.state) \in States
         /\ nv'.state = nv.state /\ nv'.lo = nv.lo /\ nv'.hi = BootTime(Stored) \div ByteSize
  <1>1. nv \in Nvram
    BY DEF AlarmInv, TypeOK
  <1>2. Stored \in Words
    BY <1>1, BytesMakeWord DEF Stored, Nvram
  <1>3. BootTime(Stored) \in Minutes
    BY <1>2, BootTimeInDay
  <1>4. BootState(nv.state) \in States
    BY <1>1 DEF Nvram, BootState, States, Bytes, ALARM_DISABLED, ALARM_ENABLED, ALARM_ACTIVE,
                ALARM_RESET, ALARM_INVALID_STATE
  <1> QED
    BY <1>1, <1>2, <1>3, <1>4 DEF AlarmInit, Nvram

LEMMA StepDayInv == OnlyTimesOfDay /\ AlarmInv /\ DayInv /\ [Next]_vars => DayInv'
  <1> SUFFICES ASSUME OnlyTimesOfDay, AlarmInv, DayInv, [Next]_vars PROVE DayInv'
    OBVIOUS
  <1>1. ALARM_RESET \in States /\ ALARM_DISABLED \in States
    BY DEF States
  <1>2. alarm_time \in Minutes /\ alarm_state \in States
    BY DEF DayInv, AlarmInv, TypeOK, States
  <1>3. CASE \E input \in Inputs : AlarmSet(input[1], input[2])
    <2>1. PICK input \in Inputs : AlarmSet(input[1], input[2])
      BY <1>3
    <2>2. input[1] * HourLen + input[2] \in Minutes
      BY DEF OnlyTimesOfDay
    <2> QED
      BY <2>1, <2>2, <1>1, SaveDayInv DEF AlarmSet, Request
  <1>4. CASE AlarmUnset
    BY <1>4, <1>1, <1>2, SaveDayInv DEF AlarmUnset, Request
  <1>5. CASE AlarmReset
    BY <1>5, <1>1, <1>2, ResetTimeSame, SaveDayInv DEF AlarmReset, Request
  <1>6. CASE AlarmUpdate
    <2>1. CASE NextState(alarm_state, Region) = alarm_state
      BY <1>6, <2>1 DEF AlarmUpdate, DayInv, StepKnown, Stored
    <2>2. CASE NextState(alarm_state, Region) # alarm_state
      BY <1>6, <2>2, <1>2, NextStateIsState, SaveDayInv DEF AlarmUpdate
    <2> QED
      BY <2>1, <2>2
  <1>7. CASE SaveLo \/ SaveState
    BY <1>7, SaveRestDayInv
  <1>8. CASE Tick \/ \E minute \in Minutes : ClockSet(minute)
    BY <1>8 DEF Tick, ClockSet, DayInv, StepKnown, Stored
  <1>9. CASE PowerFail
    BY <1>9, <1>1, StatesAreBytes DEF PowerFail, DayInv
  <1>10. CASE AlarmInit
    <2>1. StepKnown'
      BY <1>10, AlarmInitLoads DEF AlarmInit, StepKnown
    <2> QED
      BY <1>10, <2>1, AlarmInitLoads DEF AlarmInit, DayInv
  <1>11. CASE UNCHANGED vars
    BY <1>11 DEF vars, DayInv, StepKnown, Stored
  <1> QED
    BY <1>3, <1>4, <1>5, <1>6, <1>7, <1>8, <1>9, <1>10, <1>11 DEF Next

(* The alarm's time stays a time of day, and in the middle of a save it is *)
(* known what the NVRAM would bring back.                                  *)
THEOREM DayInvariance ==
  ASSUME OnlyTimesOfDay
  PROVE  Spec => []DayInv
  <1>1. AlarmInv /\ DayInv /\ [Next]_vars => DayInv'
    BY OnlyTimesOfDay, StepDayInv
  <1> QED
    BY <1>1, InitDayInv, AlarmInvariance, PTL DEF Spec

(* What alarm_get and alarm_set make of any time that two bytes can set. *)
LEMMA ResetOfCommand ==
  ASSUME NEW hour \in Bytes, NEW minute \in Bytes, NEW time, time = hour * HourLen + minute
  PROVE  ResetTime(time) = IF time < ByteSize * HourLen THEN time ELSE time - ByteSize * HourLen
  <1> DEFINE q == time \div HourLen
             r == time % HourLen
  <1>1. /\ HourLen \in Nat \ {0} /\ ByteSize \in Nat \ {0} /\ HourLen <= ByteSize
        /\ hour \in Nat /\ hour <= ByteSize - 1 /\ minute \in Nat /\ minute <= ByteSize - 1
    BY TimesAssumption DEF Bytes
  <1>2. time \in Nat
    BY HourAndMinute, TimesAssumption DEF Words
  <1>3. q \in Nat /\ r \in 0 .. HourLen - 1 /\ q * HourLen + r = time
    BY <1>1, <1>2
  <1>4. ResetTime(time) = (q % ByteSize) * HourLen + r
    BY DEF ResetTime
  <1> HIDE DEF q, r
  <1>5. q * HourLen \in Nat /\ ByteSize * HourLen \in Nat /\ (ByteSize - 1) * HourLen \in Nat
        /\ (ByteSize - 1) * HourLen = ByteSize * HourLen - HourLen
    BY <1>1, <1>3
  <1>6. q < 2 * ByteSize
    <2> SUFFICES ASSUME 2 * ByteSize <= q PROVE FALSE
      BY <1>1, <1>3
    <2>1. (2 * ByteSize) * HourLen <= q * HourLen
      BY <1>1, <1>3, TimesMonotone
    <2>2. (2 * ByteSize) * HourLen = ByteSize * HourLen + ByteSize * HourLen
      BY <1>1
    <2>3. hour * HourLen <= (ByteSize - 1) * HourLen /\ hour * HourLen \in Nat
      BY <1>1, TimesMonotone
    <2>4. 1 * ByteSize <= HourLen * ByteSize
      BY <1>1, TimesMonotone
    <2>5. HourLen * ByteSize = ByteSize * HourLen /\ 1 * ByteSize = ByteSize
      BY <1>1
    <2> QED
      BY <1>1, <1>3, <1>5, <2>1, <2>2, <2>3, <2>4, <2>5
  <1>7. CASE q < ByteSize
    <2>1. q * HourLen <= (ByteSize - 1) * HourLen
      BY <1>1, <1>3, <1>7, TimesMonotone
    <2>2. time < ByteSize * HourLen
      BY <1>1, <1>3, <1>5, <2>1
    <2>3. q % ByteSize = q
      BY <1>1, <1>3, <1>7
    <2> QED
      BY <1>3, <1>4, <2>2, <2>3
  <1>8. CASE q >= ByteSize
    <2>1. ByteSize * HourLen <= q * HourLen
      BY <1>1, <1>3, <1>8, TimesMonotone
    <2>2. ~(time < ByteSize * HourLen)
      BY <1>2, <1>3, <1>5, <2>1
    <2>3. q % ByteSize = q - ByteSize
      BY <1>1, <1>3, <1>6, <1>8
    <2>4. (q - ByteSize) * HourLen = q * HourLen - ByteSize * HourLen
      BY <1>1, <1>3
    <2> QED
      BY <1>1, <1>3, <1>4, <1>5, <2>2, <2>3, <2>4
  <1> QED
    BY <1>1, <1>3, <1>7, <1>8

(* alarm.c:53-65: whatever command has set the alarm, in the day or not,   *)
(* and at any time of day, the right button moves it only if it was set to *)
(* more hours than a byte counts, and then away from midnight.             *)
THEOREM ResetMovesOnlyOverflow ==
  ASSUME WholeDay <= ByteSize * HourLen
  PROVE  Spec => []ResetMovesOverflowOnly
  <1>1. AlarmInv => ResetMovesOverflowOnly
    <2> SUFFICES ASSUME AlarmInv, NEW hour \in Bytes, NEW minute \in Bytes,
                        NEW time, time = hour * HourLen + minute
                 PROVE  IF time < ByteSize * HourLen
                          THEN ResetTime(time) = time
                          ELSE /\ ResetTime(time) = time - ByteSize * HourLen
                               /\ InActiveRegion(time, now) = InActiveRegion(0, now)
      BY DEF ResetMovesOverflowOnly
    <2>1. ResetTime(time) = IF time < ByteSize * HourLen THEN time ELSE time - ByteSize * HourLen
      BY ResetOfCommand
    <2>2. ASSUME ~(time < ByteSize * HourLen)
          PROVE  InActiveRegion(time, now) = InActiveRegion(0, now)
      <3>1. time \in Words /\ 0 \in Words /\ now \in Minutes
        BY HourAndMinute, StatesAreBytes DEF AlarmInv, TypeOK
      <3>2. BootTime(time) = 0 /\ BootTime(0) = 0
        <4>1. time \in Nat /\ WholeDay \in Nat \ {0} /\ ByteSize * HourLen \in Nat
          BY <3>1, TimesAssumption DEF Words
        <4> QED
          BY <2>2, <4>1 DEF BootTime
      <3>3. /\ InActiveRegion(time, now) = IF (now - 0) % WholeDay < SoundsFor
                                             THEN ((now - 0) % WholeDay) + 1 ELSE 0
            /\ InActiveRegion(0, now) = IF (now - 0) % WholeDay < SoundsFor
                                          THEN ((now - 0) % WholeDay) + 1 ELSE 0
        BY <3>1, <3>2, RegionIsElapsed
      <3> QED
        BY <3>3
    <2> QED
      BY <2>1, <2>2
  <1> QED
    BY <1>1, AlarmInvariance, PTL

-----------------------------------------------------------------------------
(* The refinement of OneShotAlarm, one step of the alarm at a time *)

Modes == {"off", "set", "armed", "sounding"}

LEMMA ModesOfStates ==
  ASSUME NEW state \in States
  PROVE  /\ ModeOf(state) \in Modes
         /\ ModeOf(state) = "off" <=> state = ALARM_DISABLED
         /\ ModeOf(state) = "armed" <=> state = ALARM_ENABLED
         /\ ModeOf(state) = "sounding" <=> state = ALARM_ACTIVE
         /\ ModeOf(state) = "set" <=> state = ALARM_RESET
  BY DEF ModeOf, States, Modes, ALARM_DISABLED, ALARM_ENABLED, ALARM_ACTIVE, ALARM_RESET

(* What is seen with the power on, and without. *)
LEMMA SeenWhenOn ==
  ASSUME AlarmInv, DayInv, pc # "off"
  PROVE  SeenTime = alarm_time /\ SeenState = alarm_state
  <1>1. BootTime(alarm_time) = alarm_time
    BY TimesAssumption DEF DayInv, Minutes, BootTime
  <1>2. BootState(alarm_state) = alarm_state
    BY BootStateOfState DEF AlarmInv, TypeOK, States
  <1> QED
    BY <1>1, <1>2 DEF SeenTime, SeenState

LEMMA SeenWhenOff ==
  ASSUME AlarmInv, pc = "off"
  PROVE  /\ SeenTime = BootTime(Stored) /\ SeenTime \in Minutes /\ Stored \in Words
         /\ SeenState = BootState(nv.state) /\ SeenState \in States
         /\ Torn <=> Stored >= WholeDay
  <1>1. nv \in Nvram
    BY DEF AlarmInv, TypeOK
  <1>2. Stored \in Words
    BY <1>1, BytesMakeWord DEF Stored, Nvram
  <1>3. BootTime(Stored) \in Minutes
    BY <1>2, BootTimeInDay
  <1>4. BootState(nv.state) \in States
    BY <1>1 DEF Nvram, BootState, States, Bytes, ALARM_DISABLED, ALARM_ENABLED, ALARM_ACTIVE,
                ALARM_RESET, ALARM_INVALID_STATE
  <1> QED
    BY <1>2, <1>3, <1>4 DEF SeenTime, SeenState, Torn

(* What a power cut may do at each point. *)
LEMMA RiskCases ==
  /\ Torn => Risk = Minutes \X {ModeOf(SeenState)}
  /\ ~Torn /\ pc \in {"saveLo", "saveState"} /\ before # <<alarm_time, alarm_state>> =>
       Risk = IF alarm_state = ALARM_RESET
                THEN Minutes \X {ModeOf(before[2])}
                ELSE {<<before[1], ModeOf(before[2])>>}
  /\ ~Torn /\ ~(pc \in {"saveLo", "saveState"} /\ before # <<alarm_time, alarm_state>>) =>
       Risk = {}
  BY DEF Risk

(* The same for the state after a step. *)
LEMMA RiskCasesNext ==
  /\ Torn' => Risk' = Minutes \X {ModeOf(SeenState')}
  /\ ~Torn' /\ pc' \in {"saveLo", "saveState"} /\ before' # <<alarm_time', alarm_state'>> =>
       Risk' = IF alarm_state' = ALARM_RESET
                 THEN Minutes \X {ModeOf(before'[2])}
                 ELSE {<<before'[1], ModeOf(before'[2])>>}
  /\ ~Torn' /\ ~(pc' \in {"saveLo", "saveState"} /\ before' # <<alarm_time', alarm_state'>>) =>
       Risk' = {}
  BY DEF Risk

LEMMA InitIsOneShot == Init => OneShot!Init
  <1> SUFFICES ASSUME Init PROVE OneShot!Init
    OBVIOUS
  <1>1. AlarmInv /\ pc = "off"
    BY InitAlarmInv DEF Init
  <1>2. SeenTime \in Minutes /\ ModeOf(SeenState) \in Modes
    BY <1>1, SeenWhenOff, ModesOfStates
  <1>3. Risk \in {{}, Minutes \X {ModeOf(SeenState)}}
    BY <1>1, RiskCases
  <1>4. now \in Minutes
    BY <1>1 DEF AlarmInv, TypeOK
  <1> QED
    BY <1>2, <1>3, <1>4 DEF OneShot!Init, OneShot!Times, Minutes, Modes

(* A function that changes the alarm: what is seen changes at once, and    *)
(* until the save is complete a power cut may take it back.                *)
LEMMA SaveIsSeen ==
  ASSUME OnlyTimesOfDay, AlarmInv, DayInv, AlarmInv', DayInv', pc = "idle",
         NEW time, NEW state, Save(time, state)
  PROVE  /\ SeenTime' = time /\ SeenState' = state
         /\ SeenTime = alarm_time /\ SeenState = alarm_state
         /\ Risk' \in {{}, IF state = ALARM_RESET
                              THEN Minutes \X {ModeOf(alarm_state)}
                              ELSE {<<alarm_time, ModeOf(alarm_state)>>}}
  <1>1. /\ alarm_time' = time /\ alarm_state' = state /\ pc' = "saveLo"
        /\ before' = <<alarm_time, alarm_state>>
    BY DEF Save
  <1>2. SeenTime' = time /\ SeenState' = state
    <2>1. (pc # "off")'
      BY <1>1
    <2>2. SeenTime' = alarm_time' /\ SeenState' = alarm_state'
      <3>1. BootTime(alarm_time') = alarm_time'
        BY TimesAssumption DEF DayInv, Minutes, BootTime
      <3>2. BootState(alarm_state') = alarm_state'
        BY BootStateOfState DEF AlarmInv, TypeOK, States
      <3> QED
        BY <2>1, <3>1, <3>2 DEF SeenTime, SeenState
    <2> QED
      BY <1>1, <2>2
  <1>3. ~Torn'
    <2>1. CASE before' = <<alarm_time', alarm_state'>>
      <3>1. Save(alarm_time, state) /\ time = alarm_time
        BY <1>1, <2>1
      <3>2. Stored' = alarm_time'
        BY <3>1, <1>1, SaveSameTime, IdleIsSaved DEF Stored
      <3> QED
        BY <1>1, <3>2 DEF Torn
    <2>2. CASE before' # <<alarm_time', alarm_state'>>
      BY <1>1, <2>2 DEF Torn
    <2> QED
      BY <2>1, <2>2
  <1>4. Risk' \in {{}, IF state = ALARM_RESET
                         THEN Minutes \X {ModeOf(alarm_state)}
                         ELSE {<<alarm_time, ModeOf(alarm_state)>>}}
    <2>1. before'[1] = alarm_time /\ before'[2] = alarm_state
      BY <1>1
    <2> QED
      BY <1>1, <1>3, <2>1, RiskCasesNext
  <1> QED
    BY <1>2, <1>4, SeenWhenOn

(* alarm_set, also by the right button. *)
LEMMA SetIsArm ==
  ASSUME OnlyTimesOfDay, AlarmInv, DayInv, AlarmInv', DayInv', pc = "idle", UNCHANGED now,
         NEW time \in Minutes, Save(time, ALARM_RESET)
  PROVE  OneShot!Next
  <1>1. ModeOf(ALARM_RESET) = "set"
    BY ModesOfStates DEF States
  <1>2. OneShot!Arm(time)
    BY <1>1, SaveIsSeen DEF OneShot!Arm, OneShot!Times, Minutes
  <1> QED
    BY <1>2 DEF OneShot!Next, OneShot!Times, Minutes

(* The other changes keep the time. *)
LEMMA SaveIsChange ==
  ASSUME OnlyTimesOfDay, AlarmInv, DayInv, AlarmInv', DayInv', pc = "idle", UNCHANGED now,
         NEW state \in States \ {ALARM_RESET}, Save(alarm_time, state)
  PROVE  OneShot!Change(ModeOf(state))
  BY SaveIsSeen DEF OneShot!Change

(* alarm_update is one of the three changes that time brings. *)
LEMMA UpdateIsOneShot ==
  ASSUME OnlyTimesOfDay, AlarmInv, DayInv, AlarmInv', DayInv', AlarmUpdate
  PROVE  [OneShot!Next]_(OneShot!vars)
  <1> DEFINE next == NextState(alarm_state, Region)
  <1>1. pc = "idle" /\ UNCHANGED now
    BY DEF AlarmUpdate
  <1>2. alarm_time \in Words /\ now \in Minutes /\ alarm_state \in States /\ alarm_time \in Minutes
    BY DEF AlarmInv, TypeOK, States, DayInv
  <1>3. CASE next = alarm_state
    BY <1>3 DEF AlarmUpdate, OneShot!vars, SeenTime, SeenState, Risk, Torn, Stored
  <1>4. CASE next # alarm_state
    <2>1. Save(alarm_time, next)
      BY <1>4 DEF AlarmUpdate
    <2>2. Region # 0 <=> OneShot!InWindow
      <3>1. BootTime(alarm_time) = SeenTime
        BY <1>1, <1>2, SeenWhenOn, TimesAssumption DEF BootTime, Minutes
      <3> QED
        BY <1>2, <3>1, RegionIsInWindow DEF Region, OneShot!InWindow
    <2>3. \/ alarm_state = ALARM_ACTIVE /\ Region = 0 /\ next = ALARM_DISABLED
          \/ alarm_state = ALARM_ENABLED /\ Region # 0 /\ next = ALARM_ACTIVE
          \/ alarm_state = ALARM_RESET /\ Region = 0 /\ next = ALARM_ENABLED
      BY <1>4 DEF NextState, ALARM_ACTIVE, ALARM_ENABLED, ALARM_RESET, ALARM_DISABLED
    <2>4. next \in States \ {ALARM_RESET}
      BY <2>3 DEF States, ALARM_ACTIVE, ALARM_ENABLED, ALARM_RESET, ALARM_DISABLED
    <2>5. OneShot!Change(ModeOf(next))
      <3> HIDE DEF next
      <3> QED
        BY <1>1, <2>1, <2>4, SaveIsChange
    <2>6. ModeOf(SeenState) = ModeOf(alarm_state)
      BY <1>1, SeenWhenOn
    <2>7. CASE alarm_state = ALARM_ACTIVE /\ Region = 0 /\ next = ALARM_DISABLED
      <3>1. ModeOf(alarm_state) = "sounding" /\ ModeOf(next) = "off"
        BY <1>2, <2>4, <2>7, ModesOfStates
      <3> QED
        BY <2>2, <2>5, <2>6, <2>7, <3>1 DEF OneShot!TimeOut, OneShot!Next
    <2>8. CASE alarm_state = ALARM_ENABLED /\ Region # 0 /\ next = ALARM_ACTIVE
      <3>1. ModeOf(alarm_state) = "armed" /\ ModeOf(next) = "sounding"
        BY <1>2, <2>4, <2>8, ModesOfStates
      <3> QED
        BY <2>2, <2>5, <2>6, <2>8, <3>1 DEF OneShot!Sound, OneShot!Next
    <2>9. CASE alarm_state = ALARM_RESET /\ Region = 0 /\ next = ALARM_ENABLED
      <3>1. ModeOf(alarm_state) = "set" /\ ModeOf(next) = "armed"
        BY <1>2, <2>4, <2>9, ModesOfStates
      <3> QED
        BY <2>2, <2>5, <2>6, <2>9, <3>1 DEF OneShot!Leave, OneShot!Next
    <2> QED
      BY <2>3, <2>7, <2>8, <2>9
  <1> QED
    BY <1>3, <1>4

(* The writes after the first leave what is seen as it is; what a power    *)
(* cut may do stays, or is over.                                           *)
LEMMA SaveRestIsOneShot ==
  ASSUME OnlyTimesOfDay, AlarmInv, DayInv, AlarmInv', DayInv', SaveLo \/ SaveState
  PROVE  [OneShot!Next]_(OneShot!vars)
  <1>1. /\ UNCHANGED <<alarm_time, alarm_state, before, now>>
        /\ pc \in {"saveLo", "saveState"} /\ pc # "off" /\ pc' # "off"
    BY DEF SaveLo, SaveState
  <1>2. SeenTime' = SeenTime /\ SeenState' = SeenState
    BY <1>1 DEF SeenTime, SeenState
  <1>3. Stored' = alarm_time
    <2>1. CASE SaveLo
      <3>1. nv'.lo = alarm_time % ByteSize /\ nv'.hi = nv.hi /\ nv.hi = alarm_time \div ByteSize
        BY <2>1 DEF SaveLo, AlarmInv, TypeOK, SavedInv, Nvram
      <3> QED
        BY <3>1, TwoBytes DEF Stored, AlarmInv, TypeOK
    <2>2. CASE SaveState
      <3>1. nv'.lo = nv.lo /\ nv'.hi = nv.hi
        BY <2>2 DEF SaveState, AlarmInv, TypeOK, Nvram
      <3>2. nv.hi = alarm_time \div ByteSize /\ nv.lo = alarm_time % ByteSize
        BY <2>2 DEF SaveState, AlarmInv, SavedInv
      <3> QED
        BY <3>1, <3>2, TwoBytes DEF Stored, AlarmInv, TypeOK
    <2> QED
      BY <2>1, <2>2
  <1>4. ~Torn'
    BY <1>1, <1>3 DEF Torn
  <1>5. Risk' \in {{}, Risk}
    <2>1. CASE pc' \in {"saveLo", "saveState"} /\ before' # <<alarm_time', alarm_state'>>
      <3>1. ~Torn
        BY <1>1, <2>1 DEF Torn
      <3> QED
        BY <1>1, <1>4, <2>1, <3>1, RiskCases, RiskCasesNext
    <2>2. CASE ~(pc' \in {"saveLo", "saveState"} /\ before' # <<alarm_time', alarm_state'>>)
      BY <1>4, <2>2, RiskCasesNext
    <2> QED
      BY <2>1, <2>2
  <1>6. CASE Risk' = Risk
    BY <1>1, <1>2, <1>6 DEF OneShot!vars
  <1>7. CASE Risk' = {}
    BY <1>1, <1>2, <1>7 DEF OneShot!Settle, OneShot!Next
  <1> QED
    BY <1>5, <1>6, <1>7

(* A power failure brings about what was at risk, or changes nothing. *)
LEMMA PowerFailIsOneShot ==
  ASSUME OnlyTimesOfDay, AlarmInv, DayInv, AlarmInv', DayInv', PowerFail
  PROVE  [OneShot!Next]_(OneShot!vars)
  <1>1. pc # "off" /\ pc' = "off" /\ nv' = nv /\ now' = now
    BY DEF PowerFail
  <1>2. /\ SeenTime' = BootTime(Stored) /\ SeenState' = BootState(nv.state)
        /\ Torn' <=> Stored >= WholeDay
    BY <1>1 DEF SeenTime, SeenState, Torn, Stored
  <1>3. SeenTime = alarm_time /\ SeenState = alarm_state
    BY <1>1, SeenWhenOn
  <1>4. BootTime(Stored) \in Minutes /\ alarm_time \in Minutes /\ alarm_state \in States
    <2>1. Stored \in Words
      BY BytesMakeWord DEF Stored, AlarmInv, TypeOK, Nvram
    <2> QED
      BY <2>1, BootTimeInDay DEF DayInv, AlarmInv, TypeOK, States
  <1>5. Risk' = IF Torn' THEN Minutes \X {ModeOf(SeenState')} ELSE {}
    BY <1>1, RiskCasesNext
  <1>6. Stored = alarm_time => ~Torn' /\ BootTime(Stored) = alarm_time
    BY <1>2, <1>4, TimesAssumption DEF Minutes, BootTime
  <1>7. CASE pc = "idle"
    <2>1. Stored = alarm_time /\ nv.state = alarm_state /\ BootState(alarm_state) = alarm_state
      BY <1>4, <1>7, IdleIsSaved, BootStateOfState
    <2>2. ~Torn
      BY <1>1, <2>1 DEF Torn
    <2>3. Risk = {} /\ Risk' = {}
      BY <1>5, <1>6, <1>7, <2>1, <2>2, RiskCases
    <2> QED
      BY <1>1, <1>2, <1>3, <1>6, <2>1, <2>3 DEF OneShot!vars
  <1>8. CASE pc # "idle" /\ before = <<alarm_time, alarm_state>>
    <2>1. pc \in {"saveLo", "saveState"}
      BY <1>1, <1>8 DEF AlarmInv, TypeOK
    <2>2. SeenState' = SeenState
      BY <1>2, <1>3, <1>8, <2>1 DEF DayInv, StepKnown
    <2>3. CASE Torn
      <3>1. Risk = Minutes \X {ModeOf(SeenState)}
        BY <2>3, RiskCases
      <3>2. <<SeenTime', ModeOf(SeenState')>> \in Risk
        BY <1>2, <1>4, <2>2, <3>1
      <3>3. Risk' \in {{}, Risk}
        BY <1>5, <2>2, <3>1
      <3> QED
        BY <1>1, <3>2, <3>3 DEF OneShot!PowerCut, OneShot!Next
    <2>4. CASE ~Torn
      <3>1. Stored = alarm_time
        BY <1>1, <1>8, <2>4 DEF Torn
      <3>2. Risk = {} /\ Risk' = {}
        BY <1>5, <1>6, <1>8, <2>4, <3>1, RiskCases
      <3> QED
        BY <1>1, <1>2, <1>3, <1>6, <2>2, <3>1, <3>2 DEF OneShot!vars
    <2> QED
      BY <2>3, <2>4
  <1>9. CASE pc # "idle" /\ before # <<alarm_time, alarm_state>>
    <2>1. pc \in {"saveLo", "saveState"}
      BY <1>1, <1>9 DEF AlarmInv, TypeOK
    <2>2. /\ before[1] \in Minutes /\ before[2] \in States /\ nv.state = before[2]
          /\ alarm_state # ALARM_RESET => before[1] = alarm_time /\ Stored = alarm_time
      BY <1>9, <2>1 DEF DayInv, StepKnown
    <2>3. SeenState' = before[2]
      BY <1>2, <2>2, BootStateOfState
    <2>4. ~Torn
      BY <1>1, <1>9 DEF Torn
    <2>5. CASE alarm_state = ALARM_RESET
      <3>1. Risk = Minutes \X {ModeOf(before[2])}
        BY <1>9, <2>1, <2>4, <2>5, RiskCases
      <3>2. <<SeenTime', ModeOf(SeenState')>> \in Risk
        BY <1>2, <1>4, <2>3, <3>1
      <3>3. Risk' \in {{}, Risk}
        BY <1>5, <2>3, <3>1
      <3> QED
        BY <1>1, <3>2, <3>3 DEF OneShot!PowerCut, OneShot!Next
    <2>6. CASE alarm_state # ALARM_RESET
      <3>1. Risk = {<<before[1], ModeOf(before[2])>>}
        BY <1>9, <2>1, <2>4, <2>6, RiskCases
      <3>2. <<SeenTime', ModeOf(SeenState')>> \in Risk
        BY <1>2, <1>6, <2>2, <2>3, <2>6, <3>1
      <3>3. Risk' = {}
        BY <1>5, <1>6, <2>2, <2>6
      <3> QED
        BY <1>1, <3>2, <3>3 DEF OneShot!PowerCut, OneShot!Next
    <2> QED
      BY <2>5, <2>6
  <1> QED
    BY <1>7, <1>8, <1>9

(* alarm_init changes nothing that is seen, and begins to repair a time    *)
(* that was left half written.                                             *)
LEMMA AlarmInitIsOneShot ==
  ASSUME OnlyTimesOfDay, AlarmInv, DayInv, AlarmInv', DayInv', AlarmInit
  PROVE  [OneShot!Next]_(OneShot!vars)
  <1>1. /\ pc = "off" /\ pc' = "saveLo" /\ now' = now
        /\ alarm_time' = BootTime(Stored) /\ alarm_state' = BootState(nv.state)
        /\ before' = <<alarm_time', alarm_state'>>
    BY DEF AlarmInit
  <1>2. BootTime(Stored) \in Minutes /\ BootState(nv.state) \in States /\ Stored \in Words
    BY AlarmInitLoads
  <1>3. SeenTime' = SeenTime /\ SeenState' = SeenState
    <2>1. BootTime(alarm_time') = alarm_time'
      BY <1>1, <1>2, TimesAssumption DEF BootTime, Minutes
    <2>2. BootState(alarm_state') = alarm_state'
      BY <1>1, <1>2, BootStateOfState
    <2> QED
      BY <1>1, <2>1, <2>2 DEF SeenTime, SeenState
  <1>4. Risk' = IF Torn' THEN Minutes \X {ModeOf(SeenState')} ELSE {}
    BY <1>1, RiskCasesNext
  <1>5. Risk = IF Torn THEN Minutes \X {ModeOf(SeenState)} ELSE {}
    BY <1>1, RiskCases
  <1>6. ~Torn => ~Torn'
    <2> SUFFICES ASSUME ~Torn PROVE ~Torn'
      OBVIOUS
    <2>1. BootTime(Stored) = Stored
      BY <1>1 DEF Torn, BootTime
    <2>2. nv.hi \in Bytes /\ nv.lo \in Bytes
      BY DEF AlarmInv, TypeOK, Nvram
    <2>3. Stored \div ByteSize = nv.hi
      BY <2>2, StoredBytes DEF Stored
    <2>4. Stored' = Stored
      BY <2>1, <2>3, AlarmInitLoads DEF Stored
    <2> QED
      BY <1>1, <2>1, <2>4 DEF Torn
  <1>7. Risk' \in {{}, Risk}
    BY <1>3, <1>4, <1>5, <1>6
  <1>8. CASE Risk' = Risk
    BY <1>1, <1>3, <1>8 DEF OneShot!vars
  <1>9. CASE Risk' = {}
    BY <1>1, <1>3, <1>9 DEF OneShot!Settle, OneShot!Next
  <1> QED
    BY <1>7, <1>8, <1>9

LEMMA StepIsOneShot ==
  ASSUME OnlyTimesOfDay, AlarmInv, DayInv, AlarmInv', DayInv', [Next]_vars
  PROVE  [OneShot!Next]_(OneShot!vars)
  <1>1. alarm_time \in Minutes
    BY DEF DayInv
  <1>2. CASE \E input \in Inputs : AlarmSet(input[1], input[2])
    <2>1. PICK input \in Inputs : AlarmSet(input[1], input[2])
      BY <1>2
    <2>2. input[1] * HourLen + input[2] \in Minutes
      BY DEF OnlyTimesOfDay
    <2> QED
      BY <2>1, <2>2, SetIsArm DEF AlarmSet, Request
  <1>3. CASE AlarmUnset
    <2>1. ALARM_DISABLED \in States \ {ALARM_RESET} /\ ModeOf(ALARM_DISABLED) = "off"
      BY ModesOfStates DEF States, ALARM_DISABLED, ALARM_RESET
    <2>2. OneShot!Change(ModeOf(ALARM_DISABLED))
      BY <1>3, <2>1, SaveIsChange DEF AlarmUnset, Request
    <2> QED
      BY <2>1, <2>2 DEF OneShot!Disarm, OneShot!Next
  <1>4. CASE AlarmReset
    BY <1>1, <1>4, ResetTimeSame, SetIsArm DEF AlarmReset, Request
  <1>5. CASE AlarmUpdate
    BY <1>5, UpdateIsOneShot
  <1>6. CASE SaveLo \/ SaveState
    BY <1>6, SaveRestIsOneShot
  <1>7. CASE Tick \/ \E minute \in Minutes : ClockSet(minute)
    <2>1. UNCHANGED <<alarm_time, alarm_state, nv, pc, before>>
      BY <1>7 DEF Tick, ClockSet
    <2>2. UNCHANGED <<SeenTime, ModeOf(SeenState), Risk>>
      BY <2>1 DEF SeenTime, SeenState, Risk, Torn, Stored
    <2>3. now' \in Minutes
      BY DEF AlarmInv, TypeOK
    <2> QED
      BY <2>2, <2>3 DEF OneShot!PassTime, OneShot!Times, OneShot!Next, Minutes
  <1>8. CASE PowerFail
    BY <1>8, PowerFailIsOneShot
  <1>9. CASE AlarmInit
    BY <1>9, AlarmInitIsOneShot
  <1>10. CASE UNCHANGED vars
    BY <1>10 DEF vars, OneShot!vars, SeenTime, SeenState, Risk, Torn, Stored
  <1> QED
    BY <1>2, <1>3, <1>4, <1>5, <1>6, <1>7, <1>8, <1>9, <1>10 DEF Next

(* alarm.c implements the one-shot alarm: for times of day, and whatever   *)
(* the NVRAM holds at first, its three separate writes never lose more     *)
(* than the step in progress, wherever and however often the power fails.  *)
THEOREM AlarmImplementsOneShot ==
  ASSUME OnlyTimesOfDay
  PROVE  Spec => ImplementsOneShot
  <1>1. AlarmInv /\ DayInv /\ AlarmInv' /\ DayInv' /\ [Next]_vars => [OneShot!Next]_(OneShot!vars)
    BY OnlyTimesOfDay, StepIsOneShot
  <1> QED
    BY <1>1, InitIsOneShot, AlarmInvariance, DayInvariance, PTL
       DEF Spec, ImplementsOneShot, OneShot!Spec
=============================================================================
