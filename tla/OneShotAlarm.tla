---------------------------- MODULE OneShotAlarm ----------------------------
(***************************************************************************)
(* What the alarm promises: once set it waits until the clock is outside   *)
(* its window, then sounds the next time the clock is inside, and stops    *)
(* for good when the window is over.  A power cut takes back at most the   *)
(* step in progress; cutting the very act of setting a time may leave the  *)
(* old mode with some other time, and so may a cut of the boot after that. *)
(***************************************************************************)
EXTENDS Integers

CONSTANTS WholeDay, SoundsFor

Times == 0 .. WholeDay - 1

VARIABLES
  time,   \* when the alarm is to sound
  mode,   \* "off", "set" (waiting to leave the window), "armed" or "sounding"
  now,    \* the time of day
  risk    \* the <<time, mode>> pairs that a power cut may bring about

vars == <<time, mode, now, risk>>

InWindow == (now - time) % WholeDay < SoundsFor

Init ==
  /\ time \in Times
  /\ mode \in {"off", "set", "armed", "sounding"}
  /\ now \in Times
  /\ risk \in {{}, Times \X {mode}}

Arm(t) ==
  /\ time' = t
  /\ mode' = "set"
  /\ risk' \in {{}, Times \X {mode}}
  /\ UNCHANGED now

Change(to) ==
  /\ mode' = to
  /\ risk' \in {{}, {<<time, mode>>}}
  /\ UNCHANGED <<time, now>>

Disarm  == Change("off")
Leave   == mode = "set" /\ ~InWindow /\ Change("armed")
Sound   == mode = "armed" /\ InWindow /\ Change("sounding")
TimeOut == mode = "sounding" /\ ~InWindow /\ Change("off")

Settle ==
  /\ risk' = {}
  /\ UNCHANGED <<time, mode, now>>

PassTime ==
  /\ now' \in Times
  /\ UNCHANGED <<time, mode, risk>>

PowerCut ==
  /\ \E r \in risk : time' = r[1] /\ mode' = r[2]
  /\ risk' \in {{}, risk}
  /\ UNCHANGED now

Next ==
  \/ \E t \in Times : Arm(t)
  \/ Disarm
  \/ Leave
  \/ Sound
  \/ TimeOut
  \/ Settle
  \/ PassTime
  \/ PowerCut

Spec == Init /\ [][Next]_vars
=============================================================================
