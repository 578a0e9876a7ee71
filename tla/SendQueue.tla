------------------------------ MODULE SendQueue ------------------------------
(***************************************************************************)
(* The transmission queue of the home_easy server (home_easy.py): one      *)
(* Twisted reactor thread that receives datagrams, sends one message per   *)
(* SEND_INTERVAL on the radio and forwards each to a repeater.             *)
(*                                                                         *)
(* Messages are numbered in the order they arrive.  Times count down in    *)
(* units of the 0.05s that send_next adds to its delay; a timer at 0 is    *)
(* due, and the reactor calls it as soon as it is free, in any order.      *)
(* device_send blocks the reactor while the message is on the air, and it  *)
(* raises an exception if pigpio fails.  Both allow_send_at and the        *)
(* reactor's timers go by time.time(), which can be set.                   *)
(***************************************************************************)
EXTENDS Integers, Sequences, SequencesExt

CONSTANTS
  SendInterval,   \* SEND_INTERVAL
  AirTimes,       \* how long device_send may take
  RepeaterDelays, \* {} without a repeater, {REPEATER_DELAY} with one
  Jumps,          \* by how much the wall clock may be set: back if positive
  LongAgo,        \* bound on how long allow_send_at has been over
  MaxMessages,    \* bound on the datagrams received
  MaxFailures     \* bound on the times pigpio fails

ASSUME SendQueueAssumption ==
  /\ SendInterval \in Nat /\ MaxMessages \in Nat /\ MaxFailures \in Nat
  /\ AirTimes \subseteq Nat /\ RepeaterDelays \subseteq Nat /\ Jumps \subseteq Int
  /\ LongAgo \in Int /\ LongAgo <= 0 /\ \A j \in Jumps : LongAgo + j <= 0

VARIABLES
  received,   \* datagrams enqueued so far
  send_queue,
  hold,       \* allow_send_at, from now
  timers,     \* the delays of the send_next calls the reactor has pending
  repeats,    \* the network_send calls it has pending: {[msg, delay], ...}
  jumped,     \* by how much the wall clock was set; it is set once at most
  attempts,   \* history: messages given to device_send, in order
  sent,       \* history: those it has sent
  relayed     \* history: those forwarded to the repeater

vars == <<received, send_queue, hold, timers, repeats, jumped, attempts, sent, relayed>>

Messages == 1 .. MaxMessages

TypeOK ==
  /\ received \in 0 .. MaxMessages
  /\ send_queue \in Seq(Messages)
  /\ hold \in Int
  /\ timers \in Seq(Nat)
  /\ repeats \subseteq [msg : Messages, delay : Nat]
  /\ jumped \in Jumps \cup {0}
  /\ attempts \in Seq(Messages)
  /\ sent \in Seq(Messages)
  /\ relayed \in Seq(Messages)

Init ==
  /\ received = 0
  /\ send_queue = <<>>
  /\ hold = LongAgo
  /\ timers = <<>>
  /\ repeats = {}
  /\ jumped = 0
  /\ attempts = <<>>
  /\ sent = <<>>
  /\ relayed = <<>>

Failures == Len(attempts) - Len(sent)

(* The time t goes by for what is pending; nothing is due before now, and  *)
(* no jump brings back an allow_send_at that is LongAgo.                   *)
NotBefore(limit, t) == IF t < limit THEN limit ELSE t
Hold(t) == hold' = NotBefore(LongAgo, t)
Aged(pending, t) == {[m EXCEPT !.delay = NotBefore(0, @ - t)] : m \in pending}
AgedTimers(pending, t) == [i \in DOMAIN pending |-> NotBefore(0, pending[i] - t)]

(* Each definition named Mut... is a plausible mistake in a later one.     *)
MutReschedule(delay, pending) == timers' = Append(pending, SendInterval + NotBefore(0, delay))

(* 0.05 + max(0, allow_send_at - t) *)
Reschedule(delay, pending) == timers' = Append(pending, 1 + NotBefore(0, delay))

-----------------------------------------------------------------------------
(* send_next on the queue q, called with the timers in pending left *)

TooEarly(q, pending) ==
  /\ q # <<>>
  /\ hold > 0
  /\ send_queue' = q
  /\ Reschedule(hold, pending)
  /\ UNCHANGED <<hold, repeats, attempts, sent, relayed>>

MutTransmit(q, t) ==
  /\ q # <<>>
  /\ hold <= 0
  /\ send_queue' = Front(q)
  /\ attempts' = Append(attempts, Last(q))
  /\ Hold(SendInterval - t)
  /\ UNCHANGED relayed

(* The message is taken from the queue and on the air for the time t. *)
Transmit(q, t) ==
  /\ q # <<>>
  /\ hold <= 0
  /\ send_queue' = Tail(q)
  /\ attempts' = Append(attempts, Head(q))
  /\ Hold(SendInterval - t)
  /\ UNCHANGED relayed

SendOne(q, pending) ==
  \E t \in AirTimes :
    /\ Transmit(q, t)
    /\ sent' = Append(sent, Head(q))
    /\ repeats' = Aged(repeats, t) \cup {[msg |-> Head(q), delay |-> d] : d \in RepeaterDelays}
    /\ IF Tail(q) = <<>> THEN timers' = AgedTimers(pending, t)
                         ELSE Reschedule(SendInterval - t, AgedTimers(pending, t))

(* pigpio fails, at once or later: the exception leaves send_next before   *)
(* it reschedules.                                                         *)
SendFails(q, pending) ==
  \E t \in AirTimes \cup {0} :
    /\ Failures < MaxFailures
    /\ Transmit(q, t)
    /\ repeats' = Aged(repeats, t)
    /\ timers' = AgedTimers(pending, t)
    /\ UNCHANGED sent

(* send_next checks for an empty queue; OneTimer says that no call meets   *)
(* one.                                                                    *)
NothingToSend(q, pending) ==
  /\ q = <<>>
  /\ send_queue' = q
  /\ timers' = pending
  /\ UNCHANGED <<hold, repeats, attempts, sent, relayed>>

SendNext(q, pending) ==
  NothingToSend(q, pending) \/ TooEarly(q, pending) \/ SendOne(q, pending) \/ SendFails(q, pending)

-----------------------------------------------------------------------------
Enqueue(q) ==
  /\ send_queue' = q
  /\ UNCHANGED <<hold, timers, repeats, attempts, sent, relayed>>

MutDatagramReceivedAlwaysSends ==
  /\ received < MaxMessages
  /\ received' = received + 1
  /\ SendNext(Append(send_queue, received'), timers)
  /\ UNCHANGED jumped

MutDatagramReceivedNeverFirst ==
  /\ received < MaxMessages
  /\ received' = received + 1
  /\ LET q == Append(send_queue, received')
     IN IF Len(send_queue) = 1 THEN SendNext(q, timers) ELSE Enqueue(q)
  /\ UNCHANGED jumped

(* datagramReceived, for a datagram that decodes to a message. *)
DatagramReceived ==
  /\ received < MaxMessages
  /\ received' = received + 1
  /\ LET q == Append(send_queue, received')
     IN IF Len(q) = 1 THEN SendNext(q, timers) ELSE Enqueue(q)
  /\ UNCHANGED jumped

(* The reactor calls a send_next that is due. *)
TimerFires ==
  \E i \in DOMAIN timers :
    /\ timers[i] = 0
    /\ SendNext(send_queue, RemoveAt(timers, i))
    /\ UNCHANGED <<received, jumped>>

MutRepeatFires ==
  \E m \in repeats :
    /\ m.delay = 0
    /\ relayed' = Append(relayed, m.msg)
    /\ repeats' = {}
    /\ UNCHANGED <<received, send_queue, hold, timers, jumped, attempts, sent>>

(* The reactor calls a network_send that is due. *)
RepeatFires ==
  \E m \in repeats :
    /\ m.delay = 0
    /\ relayed' = Append(relayed, m.msg)
    /\ repeats' = repeats \ {m}
    /\ UNCHANGED <<received, send_queue, hold, timers, jumped, attempts, sent>>

Age(t) ==
  /\ Hold(hold - t)
  /\ timers' = AgedTimers(timers, t)
  /\ repeats' = Aged(repeats, t)
  /\ UNCHANGED <<received, send_queue, attempts, sent, relayed>>

(* Time goes by while the reactor waits, with nothing due. *)
Tick ==
  /\ \A i \in DOMAIN timers : timers[i] > 0
  /\ \A m \in repeats : m.delay > 0
  /\ Age(1)
  /\ UNCHANGED jumped

(* Somebody sets the wall clock. *)
ClockJump ==
  /\ jumped = 0
  /\ jumped' \in Jumps
  /\ Age(-jumped')

Next == DatagramReceived \/ TimerFires \/ RepeatFires \/ Tick \/ ClockJump

Spec == Init /\ [][Next]_vars

(* The reactor keeps calling what is due, and time goes by.  Nobody has to *)
(* send datagrams or set the clock.                                        *)
FairSpec == Spec /\ WF_vars(TimerFires) /\ WF_vars(RepeatFires) /\ WF_vars(Tick)

-----------------------------------------------------------------------------
(* Properties *)

(* home_easy.py:174-218 hands every message to the radio once, in the      *)
(* order of arrival, pigpio failures and clock jumps or not: what was      *)
(* tried and what is still queued are together all that was received.      *)
InOrder == attempts \o send_queue = [i \in 1 .. received |-> i]

(* home_easy.py:206-209: every message that went out on the radio, and     *)
(* none that failed, is forwarded to the repeater exactly once.            *)
RelayedOnce ==
  RepeaterDelays # {} =>
    /\ {relayed[i] : i \in DOMAIN relayed} \cup {m.msg : m \in repeats}
         = {sent[i] : i \in DOMAIN sent}
    /\ Len(relayed) + Cardinality(repeats) = Len(sent)

(* home_easy.py:217: "more to send, or not ready to send yet" means that   *)
(* send_next is due again.                                                 *)
MoreToSendIsScheduled == send_queue # <<>> => timers # <<>>

(* datagramReceived starts the queue only when it was empty, and send_next *)
(* reschedules itself once: two chains of timers never run side by side    *)
(* and an empty queue leaves none behind, not even when pigpio fails and   *)
(* messages come in afterwards; without failures the chain never breaks.   *)
OneTimer ==
  LET chains == IF send_queue = <<>> THEN 0 ELSE 1
  IN Len(timers) <= chains /\ (Failures = 0 => Len(timers) = chains)

(* home_easy.py:197-218: a queue waits no longer than until allow_send_at  *)
(* and never for more than an interval, except that setting the clock back *)
(* makes it wait for as long again.                                        *)
WaitsNoLongerThanNeeded ==
  LET late == NotBefore(0, jumped)
  IN /\ hold <= SendInterval + late
     /\ \A i \in DOMAIN timers : timers[i] <= 1 + NotBefore(0, hold) + late

(* Unless pigpio fails, every message received is sent and then forwarded, *)
(* clock jumps or not.                                                     *)
AllSentAndRelayed ==
  \A m \in Messages :
    (received >= m) ~> (Failures > 0 \/ \E i \in DOMAIN relayed : relayed[i] = m)
=============================================================================
