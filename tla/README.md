# cpeclock: models, model checking and proofs

cpeclock is an alarm clock (an Adafruit Circuit Playground Express) commanded
from a Raspberry Pi over a one-way 433MHz radio link. This directory holds TLA+
models of it, the TLC configurations that check them and proofs for TLAPS. Paths
such as `mail.c:191` are relative to the root of the repository.

    tlc -workers 2 -config RadioLinkOneSender.cfg MCRadioLink.tla
    tlapm RadioLinkProofs.tla

## Inventory of the system

A command such as "set the alarm to 7:00" goes through these parts:

    txnc433 --UDP broadcast--> home_easy.py --radio--> rx433.c --> mail.c --> alarm.c, clock, ...
    (counter in a file)        (queue, repeaters)      (interrupt)  (main loop, NVRAM)

| Component | State it keeps | Operations | What is hard |
|---|---|---|---|
| `txnc433/` command sender | secret file: counter and key | one process per command: load, `libnc_advance`, `libnc_encode`, send | a process may die anywhere; nothing locks the file |
| `hmac433.c` packet authentication | none | `hmac433_encode`, `hmac433_authenticate` | one byte of a 64-bit counter is transmitted; carries, resynchronisation |
| `ncrs.c` | none | `ncrs_encode`, `ncrs_decode` | interleaving of parity and data; which shift a damaged message is decoded at |
| `reed_solomon.c`, `decode_rs.h`, `encode_rs.h` | the field's tables | `encode_rs8`, `decode_rs8` | error patterns that only some words have; words too far from any code word |
| `home_easy.py` server | queue, `allow_send_at`, reactor timers | `datagramReceived`, `send_next`, relaying | timers, failures of pigpio, blocking sends, jumps of the wall clock |
| `tx433_driver.py` | pulse list | `write_nc`, `write_he`, `write_energenie` | timing only |
| `rx433.c` decoder | two decoders, a mailbox | `rx433_interrupt` | noise, skipped symbols, wrap of `micros()` |
| `mail.c` receiver | counter, previous packet; two counter slots and a state byte in NVRAM | `mail_init`, `save_counter`, `mail_receive_messages`, `new_packet` | power failure between any two NVRAM writes; repeats, reordering, noise |
| `alarm.c` | alarm time and state, three NVRAM bytes | set, unset, reset, get, update, init | midnight, unchecked input, power failure between writes |
| `night_day_time.c` | two times, four NVRAM bytes | set, test, init | intervals across midnight, unchecked input, power failure between writes |
| `cpeclock.ino` main loop | time, screen timers, `alarm_active`, buttons, effect triggers | `setup`, `loop`, `clock_set`, `display_message`, `update_alarm` | order of work in one round, time moved under running timers, wrapping milliseconds |

The components interact by calls from the main loop, except for three places:
the mailbox between the interrupt handler and `mail_receive_messages`
(`mail.c:145-156`), the NVRAM, which is all that survives a power failure, and
the secret file, which is all that survives a txnc433 process.

What makes each of them correct:

- **Link**: the clock carries out only commands that were sent, each counter
  once, oldest first, whatever the network repeats, reorders, loses or damages,
  and across power failures of the clock and deaths of the sender. After a loss
  of synchronisation, a `resync` heals it.
- **NVRAM counter**: the slot in use is always a whole counter that never goes
  back, and is ahead of everything carried out.
- **Symbols**: a message with no more wrong symbols than half the parity is
  recovered to the last bit, moved or not, and what is accepted is a code word.
- **Alarm**: a one-shot alarm that waits to leave its window, sounds in it and
  stops after it; a power failure undoes at most the step in progress.
- **Night and day**: an interval around the clock, the same after a reboot.
- **Main loop**: sound follows the alarm at once, holding the extension button
  cancels and sets, the display's times survive `clock_set`.
- **Queue**: every message is handed to the radio once, in order, and forwarded
  once if it was sent; one chain of timers while there is work, and no timer
  later than the interval or a jump of the clock makes it.

## Modules

| Module | Models | State ↔ code |
|---|---|---|
| `Hmac433` | `hmac433.c` as operators | `EncodedCounter`, `EncodedPacket` = `hmac433_encode`; `OrdinaryCounter`, `ResyncCounter`, `Authenticates` = `hmac433_authenticate` |
| `Txnc433` | the sender processes | `fileCounter` = the secret file, `txCounter[s]` = `secret_file.counter` in a process, `txPc[s]` = where it is in `main`, `air` = packets handed to `sendto` |
| `Mail` | `mail.c` with the NVRAM | `checks`, `nvState`, `slot` = the NVRAM; `rxCounter`, `previous` = the statics; `rxPc` = the next NVRAM write or call; `executed` is history |
| `RadioLink` | `Txnc433` and `Mail` with the network between them | `Deliver` hands any packet ever sent to the clock, whole or damaged |
| `CommandChannel` | what the link promises | `issued`, `executed` |
| `ReedSolomon` | `rs_init`, `encode_rs8`, `decode_rs8` as `ncrs.c` calls them | a symbol is the set of its bits that are 1; `s`, `lambda`, `b`, `el`, `r` as in `decode_rs.h`; one step of Berlekamp-Massey is an action, `Correct` the root search with Forney's formula |
| `Ncrs` | `ncrs_encode`, the radio, `ncrs_decode` | `shift_attempt`, `rc` as in the code; `Moved`, `Offset` = the copy at `ncrs.c:45-58` |
| `TimeOfDay` | minutes of the day in two bytes, `BootTime` | the range check that `alarm_init` and `night_day_time_init` share |
| `AlarmRules` | the pure part of `alarm.c` | `InActiveRegion`, `NextState`, `ResetTime` |
| `Alarm` | `alarm.c`, its NVRAM bytes, the time of day | `alarm_time`, `alarm_state` as in the code; `pc` = the next byte to save |
| `OneShotAlarm` | what the alarm promises | `time`, `mode`, and `risk`: what a power cut may do now |
| `NightDay` | `night_day_time.c` and its NVRAM bytes | `start_night_time`, `start_day_time` as in the code; `nightPc` = the next byte to save |
| `ClockLoop` | `setup`, `loop`, `clock_set`, `display_message`, buttons; composes `AlarmRules` and `NightDay` | `now_time`, `screen_off_time`, `message_off_time`, `extension_button_pressed` as in the code; `rtc` = the DS1307; `alarm` = time, state and `alarm_active` |
| `AlarmEffects` | `update_alarm` as `loop` calls it | `alarm_active`, `last_running_time` and the two triggers as in the code; `inMinute` = the RTC's time in the minute, `sinceOffset` = `millis() - millisecond_offset`, `drift` = what the one clock has gained on the other |
| `SendQueue` | the queue of `home_easy.py` | `send_queue`; `hold` = `allow_send_at` minus now; `timers`, `repeats` = the reactor's pending calls |
| `Mailbox` | the variables shared by `rx433_interrupt` and `mail_receive_messages` | same names; `pc` = the next access of the main loop, the handler runs whole between two of them |
| `Rx433` | `rx433_interrupt` with both decoders, and the rising edges of `tx433_driver.py` | `he_state`, `nc_count`, `nc_buffer`, `nc_timebase`, `old_time` as in the code; `edges` = the edges still to come |
| `MC...` | instances for TLC | symmetry, inputs, NVRAM contents, messages and faults |
| `...Proofs` | theorems about the module of that name | `RadioLinkProofs` includes `Hmac433` and `Mailbox`; `NcrsProofs` includes `ReedSolomon`; `AlarmRulesProofs` has the lemmas about `TimeOfDay` and `AlarmRules` for `AlarmProofs` and `ClockLoopProofs`; the latter includes `NightDay` |

Definitions named `Mut...` are plausible mistakes in the definition that follows
them. No specification uses them; each is there so that TLC can be run with it in
place of the right one, to see that a property notices.

### Granularity

One step is what nothing else can see the middle of. In `Mail`, `Alarm` and
`NightDay` every NVRAM write is a step, and the power may fail before each. The
eight one-byte writes of a counter are two steps: after the first the slot holds
`Garbage`, after the last the counter; the bytes between can only be observed by a
boot that uses the slot, and `ValidSlotWhole` says that there is none. In `Txnc433` the
loading, the advance, the encoding with its save, and the sending are the steps
between which another process may run or this one may die. In `SendQueue` one
callback of the reactor is a step, with the time it takes inside it. In
`Mailbox` every access of the main loop to a shared variable is a step, each
symbol of the `memcpy` too. In `Rx433` one call of the handler is a step, in
`ClockLoop` and `AlarmEffects` one round of `loop`; a round with a night command
goes on through the three other bytes it writes, and no other round begins
before. In `Ncrs` one shift with its syndromes is a step, each Berlekamp-Massey
iteration another.

### Abstractions

- The HMAC is ideal: it is the pair of the counter and the payload it signs.
  Truncation to 48 bits and collisions are left out. What it does not cover,
  `counter_low` and the resync flag, is not covered in the model either.
- In `RadioLink`, noise that gets past Reed-Solomon breaks the HMAC (`Damaged`);
  packets that do not decode are lost, which is the same as not being delivered.
- Payloads are model values, since nothing in the link depends on them.
- Counters are natural numbers. The program's are `uint64_t` and start at 1; one
  command adds at most 2^16 + 2^8, so an overflow takes more than 10^14 commands.
- `Low` is the number of values of the transmitted counter byte: 256 in the
  program, 2 in the runs, any number from 2 in the proofs.
- `ReedSolomon` writes every polynomial as field elements, where the code keeps
  some as logarithms; a symbol is a set of bits, and the exclusive or the symmetric
  difference, which the provers can reason about. Erasures, syndromes given by the caller and padding, which
  `ncrs.c` never passes, are left out, as is the list of shared control structures.
  The model was compared with the compiled `ncrs_decode` on the 2461 received
  words made from the instance of `MCNcrs`: return codes and messages agreed on all.
- A minute of `Alarm` is indivisible. `loop()` calls `alarm_update` every second
  (`cpeclock.ino:463-470`), so no minute goes by without it: `Tick` waits for it.
  The RTC runs on without power.
- `ClockLoop`: a round takes no more than a second (`step` is 0 or 1), as the
  loop has only short waits. `set_time` is sent with valid times. The alarm is
  changed in RAM; that its NVRAM follows is `Alarm`'s. "text" stands for every
  command that only displays something, and for the message of the sound switch.
- `Rx433`: a symbol is the set of its bits that are 1, a whole message is given
  back as symbols. Times are in parts of `NC_PULSE`, 8 to a pulse in the runs (32
  microseconds), with the Home Easy lengths of `tx433_driver.py` and the classes
  of `rx433.c:50` in the same scale. Differences are taken modulo `Word`. Only
  rising edges interrupt, so only they are modelled. A gap before a transmission
  stands for all that are equal to it modulo `Word`.
- `AlarmEffects`: of brightness only off and on, no colours; what `alarm_update`
  answers is any sequence that `alarm.c` can give.
- `AlarmEffects` has the program's two clocks: the time of day is the DS1307's,
  with a crystal of its own, and `millis()` counts the processor's oscillator
  (`cpeclock.ino:319`, `461`). A round takes `d` by the one and `m` by the other, any two
  of `Rounds`, as long as the two come apart by no more than `MaxDrift` between one
  round that notices a minute (or booting, or a `clock_set`) and the next. How large
  the drift is depends on the parts and is not in the code: a constant, any in the proofs.
- `Mailbox`: messages are numbers in the order they were decoded, and the symbols
  of a message carry its number, which is enough to recognise a torn one.
- `SendQueue` counts time in the 0.05s that `send_next` adds to its delays. A
  timer that is due is called before more time goes by idly, in any order. The
  wall clock is set at most once; setting it moves `allow_send_at` and the
  reactor's timers alike, for both go by `time.time()`.

## Runs

| Configuration | What it asks | States |
|---|---|---|
| `RadioLinkOneSender` | one sender at a time, one power failure, a formatted clock: slots, saved counter, quick rejection, self test, no reuse of counters, resync | 111,181 |
| `RadioLinkOverlap` | two overlapping senders, two payloads (symmetric), any NVRAM contents, one power failure: counters collide and the file may go back; the inductive invariant holds and the channel is still implemented | 444,223 |
| `RadioLinkFormatCrash` | finding 1 below | violation |
| `NcrsRadio` | the program's own code, GF(32) with ten parity symbols: two messages, up to seven wrong symbols, or moved by up to four with up to three wrong | 58,132 |
| `AlarmOneShot` | any bytes in the NVRAM, three requests, two power failures, fairness: the alarm implements `OneShotAlarm`, its NVRAM follows, it sounds and it stops, a reset moves only times that overflow | 93,548 |
| `ClockLoopRounds` | two commands or buttons, the extension button held through two turns, one power failure, twelve seconds: night, sound and display | 245,459 |
| `AlarmEffectsTime` | one alarm, begun in time or at boot, one `clock_set`, two clocks that come apart by up to two units in a minute | 2,439,872 |
| `AlarmEffectsSecond` | finding 3 below | violation |
| `Rx433Faults` | two transmissions, two edges lost or added, jitter | 769,131 |
| `MailboxTaken` | four new codes and three Home Easy codes, fairness of the main loop | 9,856 |
| `SendQueueFaults` | six messages, two failures of pigpio, one jump of the wall clock, fairness | 165,759 |
| `SendQueueStuck` | finding 2 below | violation |

Bounds, and why they are enough:

- `Low = 2`, `MaxCounter` 2 to 5: packets cross the carry of the low byte up to
  twice and a resync skips one or more turns, `advresync` (4 = Low * Low) two.
  Past that the arithmetic repeats, and `RadioLinkProofs` proves it for every `Low`.
- One or two senders: three overlapping processes interact through the file
  only, pairwise. The safety properties of the overlap are proved for any number.
- `MaxCrashes` 1 or 2: a failure anywhere, and another during the recovery from it.
- `GarbageCounters`: a counter behind the sender's and one ahead of it.
- `MCNcrs`: errors start at each of the 31 positions, side by side or three apart
  (so that they meet data, parity or both), 0 to 7 of them with two different masks;
  five can be corrected. Moves go one further than the search does. One message is
  of mixed bytes, the other of zeros, which looks the same wherever it moves.
- `WholeDay = 8` minutes in "hours" of 2, `SoundsFor = 3`, bytes of 5 values:
  times need two bytes, 8 of the 25 values are times of day, the window crosses
  midnight from two alarm times, and an hour that does not fit its byte exists.
- `ClockLoopRounds`: a day of 4 minutes of 2 seconds, so that twelve seconds pass
  midnight, `set_time` goes forward past it, and the alarm's window of two minutes
  begins and ends; the extension button acts at 2 and 3 rounds instead of 100 and
  300 and is held for up to 6. Night and day begin at 0, 2 and past the end of the
  day (5), the NVRAM may hold a time out of range.
- `SendInterval = 3` units, transmissions shorter (1) and longer (4) than it.
  Jumps of the clock by 2 forward and 5 back, less and more than the interval.
- `MaxFailures = 2`, `MaxMessages` 6: a queue of two behind each failure, and
  messages that arrive after it.
- `Rx433Faults`: codes of three symbols of two bits with ones and zeros at either
  end, `MAX_INCOMPLETE_SKIP` 1, Home Easy codes of three bits sent twice; gaps of
  just over a symbol, one and a half of one (the bound of the loop over skipped
  symbols) and long ones. A shorter gap modulo 2^32 microseconds is left out: after
  it a new transmission looks like the rest of an earlier one, which is possible
  in the program too, and repaired by the next. Two faults end a message early,
  in the middle of a symbol, or erase bits. The loop over skipped symbols
  (`rx433.c:116`) is entered with noise only: a symbol whose start edge is lost ends the
  message (`rx433.c:165`). `LossesShiftTheWhole`, which is about losses without noise,
  does not exercise that loop; `TypeOK` and `WholeIsDecoded` do.
- `MailboxTaken`: three symbols are a first, a last and one between; four codes
  are more than the two that an access may stand between.
- `AlarmEffectsTime`: units of 125ms, minutes of four seconds, phases of two
  instead of 60 and 30; `ALARM_SOUNDS_FOR` 3 gives all five light phases
  and the first three with sound. Rounds of one or two units by either clock, which
  come apart by up to two units in a minute: millis() gains or loses as much as a
  whole round. `clock_set` goes to shortly before the end of a minute, from any
  moment. A word of 200, above the longest alarm as 2^32 is. The strobe of phase 2
  has a period of one second instead of two, which would not fit in a phase.

All runs check for deadlock but three that really end: `Rx433Faults`, when nothing
more may be sent, `ClockLoopRounds`, at `MaxTime`, and `NcrsRadio`, when
`ncrs_decode` has returned.

### What some properties leave out

Each exception below is one the program needs; TLC found it.

- `AlarmActiveIsCurrent` excepts the second of a boot, as `setup` starts `alarm_active`
  with false, and the second of a command by radio. `loop` computes
  `alarm_active` once a second, before the mail, so an alarm cancelled by radio goes
  on until the next second, where the left button, which `mail.c:128` likens the command to,
  stops it at once. If the button is pressed in that second too, `alarm_unset`
  answers that nothing has changed, and the sound goes on all the same
  (`HoldCancelsAndSets`).
- `RebootKeepsNight` excepts nights that start past the end of the day, which
  `night_day_time_set` stores unchecked: such a night never comes, until a reboot
  puts its start to 0.
- `ResetMovesOverflowOnly` says what the right button does to every time that a command
  may set. Nothing checks those (`alarm.c:35`), and the hour goes through a `uint8_t` on
  its way back (`alarm.c:64`): a time of 256 hours or more does move, and then by
  256 hours. Such an alarm stood for midnight; the property says so and that no other moves.
- `RunningTimeFollowsClock` allows the running time to go back where a minute ends, by less
  than `millis()` has gained in it, and `TriggersWrapOnlyBack` speaks of the rounds in
  which it does not go back by more than the triggers hold. What happens in those
  is described under "Findings".
- `RecoversWithinCapacity` does not claim the last shift on one side. The attempts
  of `ncrs.c:45-50` are 0, 0, -1, 1, -2, 2, -3 places: the second repeats the first,
  so that no return code ends in 2, and +3 is never tried.
- `RecoversWithinCapacity` does not claim a message that at an earlier shift comes near
  to another code word: it may be taken for that one there, and the HMAC refuses it later.
- `AcceptedIsCodeword` is for locators of full degree. Others can be accepted by
  `decode_rs8` with a result that is no code word; the HMAC refuses it later.
- `RelayedOnce` and `AllSentAndRelayed`: a message is forwarded when its repeater's
  `network_send` has been called; that the call itself may fail is not modelled.
- `AllSentAndRelayed`, and `OneTimer` where it says that the chain of timers never
  breaks, speak of runs without failures of pigpio; finding 2 is what a failure does.

### Fairness

- `Alarm`: weak fairness of boot, of `alarm_update` (called every second), of
  the NVRAM writes and of time. `AlarmSoundsAndStops` needs no request to stop
  coming, since requests are bounded.
- `Mailbox`: weak fairness of the main loop, which no interrupt keeps from going on.
- `SendQueue`: weak fairness of the reactor's two kinds of callbacks and of time.

## Findings

1. `RadioLinkFormatCrash`: `mail_init` makes the NVRAM look formatted
   (`mail.c:48-50`) before `save_counter` has saved a counter. If the power fails
   in between, the next boot loads slot 0, which was never written. The counter is
   then arbitrary: if it is large the clock refuses every command, even a resync
   (`hmac433.c:41`), until the sender's counter passes it. `ResyncHeals` is
   therefore claimed for clocks that were formatted before.
2. `SendQueueStuck`: when `device_send` raises inside a call from the reactor
   while more is queued, `send_next` ends before `callLater`, and
   `datagramReceived` only starts an empty queue: the server never sends again.
3. `AlarmEffectsSecond`: `update_alarm` keeps `last_running_time` from one alarm to
   the next (`cpeclock.ino:304-314` resets the triggers only). The first
   `millisecond_delta` of a second alarm (`cpeclock.ino:322`) is therefore negative
   and wraps to nearly 2^32. `strobe_trigger` takes it up, and the strip flashes in
   every round instead of once in a period; `sound_trigger` does not, as it is 0 in the
   first three phases (`cpeclock.ino:417-422`). `FirstAlarmStrobes` says that the
   first alarm after a boot is right.

The same line has a second way to wrap, within the first alarm. When `millis()` is fast,
the running time goes back where a minute ends, and in the round that notices it the difference is
2^32 less a little. The sum with what a trigger holds is right again, if the trigger
holds more than that little; if not, it wraps below zero and its effect triggers in
every round from then on, the tones too. In `AlarmEffectsTime.cfg` with
`LateStarts = FALSE`, `ClockTimes = {}`, `MaxClockSets = 0`, `MaxMinutes = 4`, `Word = 300`
and the one invariant `Behind`, TLC shows it: with a drift of 2 the running time goes from
97 back to 96, `sound_trigger` from 0 to 295. No run is listed for it, because
whether and how often it happens depends on how far the two oscillators are apart,
which the code does not say. `TriggersWrapOnlyBack` is what does hold: nothing else makes
the triggers wrap.

Documented limits, which are no findings: a power failure between `save_counter`
and `new_packet` loses the command (the order protects against repetition);
overlapping txnc433 processes may stamp two packets with one counter, of which the
clock takes at most one. `DurableAhead` and `NoCounterReuse` state what holds.

## Proofs

The theorems hold for every value of the constants that the modules' named
assumptions admit; where a theorem needs more (one sender, a formatted NVRAM), its
`ASSUME` says so. No run's bound limits them: `MaxCrashes`, `MaxMessages` and the
others are any numbers.

`RadioLinkProofs` begins with `Hmac433`: for every `Low` from 2 and every counter,
the splice and the carry invert the truncation exactly in the window
(`OrdinaryCounterExact`), a resync packet rebuilds its counter, everything
`hmac433_encode` makes is `Stamped`, and so the condition under which a genuine
packet is accepted (`AuthenticatesExact`). It then proves `Spec => []IInv` and draws
the rest from it:

- `TypeCorrect`, `NothingRepeatedAfterReboot`, `WindowIsExact`,
  `EncodedPacketsPassSelfTest`, `QuickRejectSound`: invariants of every instance;
- `SlotInUseIsWhole`, `SavedCounterNeverGoesBack`: of every instance with
  `FreshNvram = FALSE`, as finding 1 makes necessary;
- `CounterUsedOnce` with one sender, `ResyncAlwaysHeals` with one sender and
  `FreshNvram = FALSE`: two senders may share a counter and set the file back;
- `LinkImplementsChannel`: the link implements `CommandChannel`.

None of the properties is inductive. `DurableAhead` says nothing of a save that is
half done, and so cannot survive its completion. `IInv` adds what is known at each
`rxPc`: while saving, the slot in use is older than the counter; before the state
byte is written the other slot already holds the counter (`NvramInv`); the
packet in hand was sent, and its counter is the last one accepted, so that
dispatching it appends a stamp above all others (`CurrentInv`); packets on the
air and about to be sent agree with their HMACs (`SentInv`); and a clock that was
formatted stays so (`FormattedInv`). `IInv` is checked by TLC in `RadioLinkOverlap`.
A single sender adds `AloneInv` (its copy of the counter is the file's, and a packet
about to be sent is ahead of all that were) and `HealInv` (the clock and its NVRAM
are at most one ahead of the file).

The end of `RadioLinkProofs` is about `Mailbox`: `MailboxInvariance`, and from it `MailboxTypeCorrect`, `NeverTorn` and
`TakenOnceInOrder`, for codes of any length and any number of messages. `NoTornCode`
looks only at the complete copy; `MailboxInv` adds that interrupts are enabled
exactly outside the critical section, that what the handler leaves is one message,
and how much of it has been copied. `OrderInv` says that what was taken is older than
the copy, and the copy older than what has come since.

`ClockLoopProofs` begins with `NightDay`: `NightTestIsInterval` reduces the three
cases of the test to an interval around the clock, for any length of the day.
`NightInvariance` says how far the four bytes in the NVRAM agree with the RAM at each
`nightPc`; between two calls they agree wholly, and `NightSurvivesReboot` is then about
the range check alone. `LoopCallsNightDay` shows that the whole clock's behaviours are
behaviours of `NightDay` by itself, which carries `NightSurvivesReboot` over
(`ClockRebootKeepsNight`). `ClockInv` says that a running clock has the DS1307's
time as of its last round, so that the next second is noticed; with it
`AlarmActiveIsCurrent` and `DisplayTimesHold` are inductive (`SoundsWhenItShould`,
`DisplayIsOnWhenItShould`). That `clock_set` always has a time to go to is the
lemma `ClockSetForward`.

`HoldingCancelsAndSets` needs `WindowOutlastsHold`: an alarm sounds for longer than the
button is held to cancel it, as 10 minutes are longer than 100 rounds. Without that,
an alarm set again after 300 rounds may be over by itself before round 400.
`HoldInv` ties the program's counter to the history (`extension_button_pressed` is
`held` modulo 300) and says what the alarm may be in each part of a turn: none from
the cancelling on; and after the setting one that waits, or one that sounds, for no
more seconds than there have been rounds since (`SetAgain`). Both parts of the
property follow from one round of it.

`AlarmRulesProofs`: the window of the alarm. `alarm_update` walks from the alarm's time
minute by minute, with a wrap at midnight and an early end, which the model keeps as
a recursive function. `TestTimeIsOnward` gives the time that each step tests in
closed form, by the least number at which it would differ (`LeastNumber`, from the
well-founded order of the naturals, which serves here as induction); from it,
`RegionIsElapsed` says that the walk returns the minutes since the alarm time plus
one, or 0 outside of the window, for every length of the day and of the window.

`AlarmProofs`: `AlarmTypeCorrect` and `AlarmIsSaved`, from how far `save_to_nvram`
has come (`SavedInv`), for any contents of the NVRAM and any commands;
`RegionIsTheWindow` from `RegionIsElapsed`. `ResetMovesOnlyOverflow` is for every hour and
minute that a command may set, in the day or not; it needs only that the hours of a day
fit a byte. `AlarmImplementsOneShot` assumes `OnlyTimesOfDay`: what is set is a time of
day, and an hour of one fits its byte, as in the run. Nothing in the program checks that: `txnc433.c:94`
documents `set_alarm <h> <m>` and sends any two bytes. A time past the end of the day
sounds at midnight, but a power cut while `alarm_init` repairs it in the NVRAM may
leave any other time there, and the right button may move it, as `ResetMovesOverflowOnly` says. `DayInv` then says that the alarm's time stays within the day
and what the NVRAM would bring back in the middle of each save (`StepKnown`), which
is the `risk` of `OneShotAlarm`; each action maps to one of its steps or to none.

`AlarmEffectsProofs`: `EffectsInv` says that once a minute has begun, the offset of the
milliseconds is behind the minute by less than a round, but for the drift since the minute
began (`OffsetIsOfMinute`), and, as long as the clock is not set, that the time last used by
the effects is made of `alarm_active` and that offset. A round therefore either adds its own
length by `millis()` to it or ends a minute, where both change together and the drift is
dropped (`RunningTimeGoesOn`). `TriggersOnlyWrapBack` follows from one round: what is taken
from a trigger is there, and what is added is what the running time has gained.
`FirstAlarmFlashesOnce` adds `StrobeInv`: in phase 2 of the first alarm `strobe_trigger` holds
no more than the time since the last flash. What it holds in the minute before is in
`FirstMinute`: with `millis()` fast that minute goes on into a third phase without a flash,
and then the running time goes back by as much as the trigger has gained; `SecondMinute`
takes it from there. It assumes `ShortRounds`: two phases to a minute, a drift of no
more than a phase, one period in the first two phases, which is no shorter than a
round, and a third that is longer by two rounds and the drift. `cpeclock.ino` has 30
seconds, periods of 250, 250 and 2000 milliseconds, and rounds that wait for none of these. Whether a round may be
longer is not in the code to see; with such rounds the time put aside could make
up for a flash that was missed.

`Rx433Proofs`: `DecoderTypeCorrect`, for every time at which an edge may come, every
jitter and any number of lost and added edges: `nc_count` is a place in the buffer
whenever a bit is written, the bit is one of the symbol, and 32 bits of a Home Easy
code are never exceeded. That the loop over skipped symbols ends inside the message is
the lemma `SkipInBuffer`. `DecoderInv` adds to the types that a Home Easy code which is
being received is not complete.
`WholeDecoded` proves `WholeIsDecoded` for every size of symbol, message and code,
every pulse, and any number of transmissions and faults before. `WholeInv` says what
each decoder holds after each edge of a transmission that has come whole: the symbols
and bits up to that edge, and a time base within the jitter of the second edge of the
symbol. Which edge comes next follows from the order of the edges (`Follows`), and that
it is taken for what it is from the distance between the two (`Distance`, `BitIsTaken`,
`HeClasses`). `LagInv`, that the decoder never waits for more than one and a half
symbols, shows that whatever was being received before is over with the first edge. Two assumptions
are needed: `SmallJitter`, two edges are together less than `EPSILON` (96 microseconds)
early or late, and `PausesBetween`, the pause before a transmission is longer than a
symbol and is not within a symbol and a half of the next multiple of 2^32 microseconds (71
minutes), when it would look shorter. The run's jitter and gaps satisfy both; that the
widths of `tx433_driver.py` fit the classes of `rx433.c:50`, with that much to spare,
is part of the proof (`Scale`, `HeClasses`).

`SendQueueProofs`: `QueueInvariance`, and from it `QueueTypeCorrect`,
`HandedOverInOrder`, `OneChainOfTimers` and `WaitsAreBounded`, for any transmission
times, jumps, failures and numbers of messages. `QueueInv` is the types and these
properties, which are inductive only together. `ForwardedOnce` proves `RelayedOnce`
for one repeater from `RelayInv`: the messages relayed and those waiting are together
those sent, no two calls of `network_send` wait with the same message, and one that is
tried now was never tried before.

`NcrsProofs` is the theory of the code, for every field that `rs_init` accepts, every
`FCR` and `Prim`, and every word:

- *The field.* `NextPower` is linear and the powers of the generator run through all
  symbols but 0, from which `MulAssociates` and `Distributes` follow for the
  multiplication by tables. Sums are a recursive function, and `Upwards` (again from
  the least number) serves as induction along them. `FewRoots`: a polynomial has no
  more roots than its degree.
- *The code.* The encoder's register is a rest modulo `genpoly` (`DividedValue`), so
  its words have no syndromes (`EncodedIsCodeword`), and no other parity has none
  (`CodewordIsEncoded`).
- *The search.* A syndrome is a moment of the errors (`SyndromeMoment`).
  `LocatorInv` adds to `LocatorGeneratesSyndromes` what the polynomial `b` is: a
  shorter recurrence that failed at an earlier step, with a discrepancy scaled to 1,
  so that adding it repairs this one. `LocatorIsMinimal` is Massey's theorem, which no run
  checks, as there are too many recurrences to try: where a recurrence of length l
  fails at syndrome m, only one longer than m - l can fit (`Massey`), and `ShortestInv`
  carries that through the loop.
- *The correction.* The polynomial with roots at the errors is a recurrence
  (`PositionsRecurrence`); no more errors than syndromes have moments that are all 0
  (`FewMoments`, Vandermonde's determinant); so the shortest recurrence has just
  those roots (`RootsAreErrors`). What `decode_rs.h` divides by is the value of the
  formal derivative there (`DerivativeAtRoot`), and so the result is the error
  (`Forney`, `ErrorValues`). `CloseWordCorrected` puts it together for `decode_rs8`.
- *The message.* `UnpackPack` and `PartsInterleaved`: nothing is lost on the way into
  symbols and positions. `RecoverInv` then says, at each point of the loop over the
  shifts, what is known of the attempt in progress if the message is repairable, which
  gives `DecoderRecovers`. `AcceptInv` says of an attempt that was accepted that its
  corrections make a word without syndromes, which gives `AcceptedIsInCode`.

The assumptions are those of the modules. `NcrsAssumption` takes two from the code: a
search of at most nine shifts, since the return code of `ncrs_decode` has one decimal
digit for them, and zeros in the last bits of a message, which are not sent: its last
byte is `counter_resync_flag`, 0 or 0x80 (`libnc.c:120-130`), of which one bit is sent. That the table of
`ReedSolomonAssumption` is complete is not tested by `rs_init`, which only looks at
its end; the polynomial 0x25 of `ncrs.c:14` has it.

Only model-checked:

- liveness (`AlarmSoundsAndStops`, `AllSentAndRelayed`,
  `NewestIsTaken`), which this prover does not reach;
- `LossesShiftTheWhole` and `HomeEasyExact` of `Rx433`, which are about edges that
  were lost: every set of edges that may be left would have to be told apart.

## Not modelled

- SHA-256 and HMAC: a standard hash, ideal in `Hmac433`; collisions are out of TLC's reach.
- Of the Reed-Solomon library, what `ncrs.c` does not use: erasures, padding,
  16-bit symbols, `list.h` and the failures of `malloc` in the one initialisation.
- `variant.h`, a pin table of the board.
- What is drawn on the display, colours, the serial port's log, and the failures in `setup`
  that stop the clock for good.
- Of `home_easy.py`, the decoding of datagrams and light names, Hue and the timer
  services; of `tx433_driver.py`, Energenie codes, which the clock does not decode, and
  the calls of pigpio; of `txnc433`, the wording of payloads and the wait for the next minute in `set_time`.
- The tests and captured data, read as documentation of what is intended.

## Plan

Done, in this order: the link and its proofs; `Alarm` against `OneShotAlarm`; `SendQueue`;
`Rx433`; `Mailbox`; `AlarmEffects`; `NightDay`; `ClockLoop`; `ReedSolomon` and `Ncrs`; the proofs
listed above. Left, the most useful first:

1. `HomeEasyExact`: after a lost edge two lengths are seen as one, which may look like
   a start but leaves too few bits for a code before the next start.
2. `Alarm` with its NVRAM inside `ClockLoop` in place of its rules alone.
