--------------------------- MODULE SendQueueProofs ---------------------------
(* Theorems about the transmission queue, for every interval, every time   *)
(* on the air, and any number of messages, failures of pigpio and pending  *)
(* timers, with the wall clock set once, by any amount.                    *)
EXTENDS SendQueue, SequenceTheorems, FiniteSetTheorems, FunctionTheorems, TLAPS

(* How long a timer of send_next may still have to go. *)
Late == NotBefore(0, jumped)
Longest == 1 + NotBefore(0, hold) + Late
NoneLonger(pending, limit) == \A i \in DOMAIN pending : pending[i] <= limit

QueueInv ==
  /\ TypeOK
  /\ InOrder
  /\ Len(sent) <= Len(attempts)
  /\ OneTimer
  /\ WaitsNoLongerThanNeeded

-----------------------------------------------------------------------------
(* Sequences *)

LEMMA AgedTimersType ==
  ASSUME NEW pending \in Seq(Nat), NEW t \in Int
  PROVE  /\ AgedTimers(pending, t) \in Seq(Nat)
         /\ Len(AgedTimers(pending, t)) = Len(pending)
         /\ DOMAIN AgedTimers(pending, t) = DOMAIN pending
         /\ \A i \in DOMAIN pending : AgedTimers(pending, t)[i] = NotBefore(0, pending[i] - t)
  BY DEF AgedTimers, NotBefore

LEMMA PartOfTimers ==
  ASSUME NEW pending \in Seq(Nat), NEW m \in Nat, NEW k \in Nat, m + k <= Len(pending)
  PROVE  /\ SubSeq(pending, m + 1, m + k) \in Seq(Nat)
         /\ Len(SubSeq(pending, m + 1, m + k)) = k
         /\ \A j \in 1 .. k : SubSeq(pending, m + 1, m + k)[j] = pending[m + j]
  <1> DEFINE first == m + 1
             last == m + k
  <1>1. first \in Int /\ last \in Int /\ last - first + 1 = k
    OBVIOUS
  <1>2. \A j \in first .. last : pending[j] \in Nat
    BY ElementOfSeq
  <1> HIDE DEF first, last
  <1>3. /\ SubSeq(pending, first, last) \in Seq(Nat)
        /\ Len(SubSeq(pending, first, last)) = IF first <= last THEN last - first + 1 ELSE 0
        /\ \A j \in 1 .. last - first + 1 : SubSeq(pending, first, last)[j] = pending[first + j - 1]
    BY <1>1, <1>2, SubSeqProperties
  <1>4. first = m + 1 /\ last = m + k
    BY DEF first, last
  <1>5. Len(SubSeq(pending, first, last)) = k
    BY <1>1, <1>3, <1>4
  <1>6. ASSUME NEW j \in 1 .. k
        PROVE  SubSeq(pending, first, last)[j] = pending[m + j]
    <2>1. first + j - 1 = m + j
      BY <1>4
    <2> QED
      BY <1>1, <1>3, <2>1
  <1> QED
    BY <1>3, <1>4, <1>5, <1>6

LEMMA RemoveAtType ==
  ASSUME NEW pending \in Seq(Nat), NEW i \in DOMAIN pending
  PROVE  /\ RemoveAt(pending, i) \in Seq(Nat)
         /\ Len(RemoveAt(pending, i)) = Len(pending) - 1
         /\ \A j \in DOMAIN RemoveAt(pending, i) :
              \E k \in DOMAIN pending : RemoveAt(pending, i)[j] = pending[k]
  <1> DEFINE a == SubSeq(pending, 1, i - 1)
             b == SubSeq(pending, i + 1, Len(pending))
  <1>1. i \in 1 .. Len(pending) /\ Len(pending) \in Nat
    BY LenProperties
  <1>2. a \in Seq(Nat) /\ Len(a) = i - 1 /\ \A j \in 1 .. i - 1 : a[j] = pending[j]
    <2>1. i - 1 \in Nat /\ 0 + (i - 1) <= Len(pending)
      BY <1>1
    <2>2. /\ SubSeq(pending, 0 + 1, 0 + (i - 1)) \in Seq(Nat)
          /\ Len(SubSeq(pending, 0 + 1, 0 + (i - 1))) = i - 1
          /\ \A j \in 1 .. i - 1 : SubSeq(pending, 0 + 1, 0 + (i - 1))[j] = pending[0 + j]
      BY <2>1, PartOfTimers
    <2>3. 0 + 1 = 1 /\ 0 + (i - 1) = i - 1 /\ \A j \in 1 .. i - 1 : 0 + j = j
      BY <1>1
    <2> QED
      BY <2>2, <2>3
  <1>3. /\ b \in Seq(Nat)
        /\ Len(b) = Len(pending) - i
        /\ \A j \in 1 .. Len(pending) - i : b[j] = pending[i + j]
    <2> DEFINE k == Len(pending) - i
    <2>1. i \in Nat /\ k \in Nat /\ i + k = Len(pending) /\ i + k <= Len(pending)
      BY <1>1
    <2> HIDE DEF k
    <2>2. /\ SubSeq(pending, i + 1, i + k) \in Seq(Nat)
          /\ Len(SubSeq(pending, i + 1, i + k)) = k
          /\ \A j \in 1 .. k : SubSeq(pending, i + 1, i + k)[j] = pending[i + j]
      <3> HIDE DEF a, b
      <3> QED
        BY <2>1, PartOfTimers
    <2> QED
      BY <2>1, <2>2 DEF k
  <1>4. RemoveAt(pending, i) = a \o b
    BY DEF RemoveAt
  <1> HIDE DEF a, b
  <1>5. /\ a \o b \in Seq(Nat)
        /\ Len(a \o b) = Len(a) + Len(b)
        /\ \A j \in 1 .. Len(a) + Len(b) :
             (a \o b)[j] = IF j <= Len(a) THEN a[j] ELSE b[j - Len(a)]
    BY <1>2, <1>3, ConcatProperties
  <1>6. Len(a \o b) = Len(pending) - 1
    BY <1>1, <1>2, <1>3, <1>5
  <1>7. ASSUME NEW j \in DOMAIN (a \o b)
        PROVE  \E k \in DOMAIN pending : (a \o b)[j] = pending[k]
    <2>1. j \in 1 .. Len(a) + Len(b)
      BY <1>5, LenProperties
    <2>2. CASE j <= i - 1
      <3>1. j \in 1 .. i - 1 /\ j \in DOMAIN pending
        BY <2>1, <2>2, <1>1, LenProperties
      <3>2. (a \o b)[j] = a[j]
        BY <2>1, <2>2, <1>2, <1>5
      <3> QED
        BY <3>1, <3>2, <1>2
    <2>3. CASE j > i - 1
      <3> DEFINE k == j - (i - 1)
      <3>0. Len(a) + Len(b) = Len(pending) - 1
        BY <1>1, <1>2, <1>3
      <3>1. k \in 1 .. Len(pending) - i /\ i + k = j + 1
        BY <2>1, <2>3, <1>1, <3>0
      <3>2. ~(j <= Len(a)) /\ j - Len(a) = k
        BY <2>1, <2>3, <1>1, <1>2
      <3>3. (a \o b)[j] = b[k]
        BY <3>2, <2>1, <1>5
      <3>4. b[k] = pending[i + k]
        BY <3>1, <1>3
      <3>5. i + k \in DOMAIN pending
        BY <3>1, <1>1, LenProperties
      <3> QED
        BY <3>3, <3>4, <3>5
    <2> QED
      BY <2>1, <2>2, <2>3, <1>1
  <1> QED
    BY <1>4, <1>5, <1>6, <1>7

LEMMA AppendTimer ==
  ASSUME NEW pending \in Seq(Nat), NEW d \in Nat, NEW limit \in Int,
         NoneLonger(pending, limit), d <= limit
  PROVE  /\ Append(pending, d) \in Seq(Nat)
         /\ Len(Append(pending, d)) = Len(pending) + 1
         /\ NoneLonger(Append(pending, d), limit)
  <1>1. /\ Append(pending, d) \in Seq(Nat)
        /\ Len(Append(pending, d)) = Len(pending) + 1
        /\ \A i \in 1 .. Len(pending) : Append(pending, d)[i] = pending[i]
        /\ Append(pending, d)[Len(pending) + 1] = d
    BY AppendProperties
  <1>2. DOMAIN pending = 1 .. Len(pending) /\ Len(pending) \in Nat
    BY LenProperties
  <1>3. DOMAIN Append(pending, d) = 1 .. Len(pending) + 1
    BY <1>1, LenProperties
  <1> QED
    BY <1>1, <1>2, <1>3 DEF NoneLonger

(* What is handed to the radio leaves the head of the queue. *)
LEMMA HeadMoves ==
  ASSUME NEW S, NEW a \in Seq(S), NEW q \in Seq(S), q # <<>>
  PROVE  /\ Append(a, Head(q)) \o Tail(q) = a \o q
         /\ Append(a, Head(q)) \in Seq(S) /\ Tail(q) \in Seq(S)
         /\ Len(Append(a, Head(q))) = Len(a) + 1
         /\ Head(q) \in S
  <1>1. Head(q) \in S /\ Tail(q) \in Seq(S)
    BY HeadTailProperties
  <1>2. Append(a, Head(q)) \in Seq(S) /\ Len(Append(a, Head(q))) = Len(a) + 1
    BY <1>1, AppendProperties
  <1>3. q = <<Head(q)>> \o Tail(q)
    <2>1. Len(q) \in Nat \ {0}
      BY EmptySeq
    <2>2. q = SubSeq(q, 1, Len(q))
      BY SubSeqFull
    <2>3. SubSeq(q, 1, Len(q)) = <<q[1]>> \o SubSeq(q, 2, Len(q))
      BY <2>1, SubSeqRecursiveFirst
    <2>4. Tail(q) = SubSeq(q, 2, Len(q))
      BY TailIsSubSeq
    <2>5. Head(q) = q[1]
      BY <2>1
    <2> QED
      BY <2>2, <2>3, <2>4, <2>5
  <1>4. Append(a, Head(q)) = a \o <<Head(q)>>
    BY <1>1, AppendIsConcat
  <1>5. <<Head(q)>> \in Seq(S)
    BY <1>1
  <1>6. (a \o <<Head(q)>>) \o Tail(q) = a \o (<<Head(q)>> \o Tail(q))
    BY <1>1, <1>5, ConcatAssociative
  <1> QED
    BY <1>1, <1>2, <1>3, <1>4, <1>6

-----------------------------------------------------------------------------
(* Time *)

LEMMA AgedRepeats ==
  ASSUME TypeOK, NEW t \in Int
  PROVE  Aged(repeats, t) \subseteq [msg : Messages, delay : Nat]
  <1> SUFFICES ASSUME NEW m \in repeats
               PROVE  [m EXCEPT !.delay = NotBefore(0, @ - t)] \in [msg : Messages, delay : Nat]
    BY DEF Aged
  <1>1. m \in [msg : Messages, delay : Nat]
    BY DEF TypeOK
  <1>2. NotBefore(0, m.delay - t) \in Nat
    BY <1>1 DEF NotBefore
  <1> QED
    BY <1>1, <1>2

(* The limits after the time t, in which allow_send_at comes nearer. *)
LEMMA AgedNoneLonger ==
  ASSUME NEW pending \in Seq(Nat), NEW t \in Int, NEW limit \in Int, NEW later \in Int,
         NoneLonger(pending, limit), 0 <= later, limit - t <= later
  PROVE  NoneLonger(AgedTimers(pending, t), later)
  <1> SUFFICES ASSUME NEW i \in DOMAIN pending
               PROVE  NotBefore(0, pending[i] - t) <= later
    BY AgedTimersType DEF NoneLonger
  <1>1. pending[i] \in Nat /\ pending[i] <= limit
    BY DEF NoneLonger
  <1> QED
    BY <1>1 DEF NotBefore

-----------------------------------------------------------------------------
(* send_next *)

(* How many timers the queue q needs. *)
Chains(q) == IF q = <<>> THEN 0 ELSE 1

(* What a call does to the queue, to the chain of timers, and to how long  *)
(* anything waits.                                                         *)
LEMMA SendNextEffect ==
  ASSUME TypeOK, Len(sent) <= Len(attempts),
         NEW q \in Seq(Messages), NEW pending \in Seq(Nat), NEW late \in Nat,
         hold <= SendInterval + late, NoneLonger(pending, 1 + NotBefore(0, hold) + late),
         SendNext(q, pending)
  PROVE  /\ send_queue' \in Seq(Messages) /\ attempts' \in Seq(Messages) /\ sent' \in Seq(Messages)
         /\ repeats' \subseteq [msg : Messages, delay : Nat] /\ relayed' = relayed
         /\ attempts' \o send_queue' = attempts \o q
         /\ Len(sent') <= Len(attempts')
         /\ timers' \in Seq(Nat) /\ hold' \in Int
         /\ Len(timers') <= Len(pending) + Chains(send_queue')
         /\ Failures' = 0 => Failures = 0 /\ Len(timers') = Len(pending) + Chains(send_queue')
         /\ hold' <= SendInterval + late
         /\ NoneLonger(timers', 1 + NotBefore(0, hold') + late)
  <1> USE SendQueueAssumption
  <1>0. /\ hold \in Int /\ attempts \in Seq(Messages) /\ sent \in Seq(Messages)
        /\ Len(attempts) \in Nat /\ Len(sent) \in Nat /\ Len(pending) \in Nat
    BY LenProperties DEF TypeOK
  <1>1. CASE NothingToSend(q, pending)
    BY <1>1, <1>0 DEF NothingToSend, TypeOK, Failures, Chains
  <1>2. CASE TooEarly(q, pending)
    <2> DEFINE d == 1 + NotBefore(0, hold)
               limit == 1 + NotBefore(0, hold) + late
    <2>1. d \in Nat /\ limit \in Int /\ d <= limit
      BY <1>0 DEF NotBefore
    <2>2. timers' = Append(pending, d)
      BY <1>2 DEF TooEarly, Reschedule
    <2>3. NoneLonger(pending, limit)
      OBVIOUS
    <2> HIDE DEF d, limit
    <2>4. timers' \in Seq(Nat) /\ Len(timers') = Len(pending) + 1 /\ NoneLonger(timers', limit)
      BY <2>1, <2>2, <2>3, AppendTimer
    <2>5. q # <<>> /\ send_queue' = q /\ UNCHANGED <<hold, repeats, attempts, sent, relayed>>
      BY <1>2 DEF TooEarly
    <2> QED
      BY <2>4, <2>5, <1>0 DEF TypeOK, limit, Failures, Chains
  <1>3. ASSUME NEW t \in Nat, Transmit(q, t)
        PROVE  /\ q # <<>> /\ hold <= 0
               /\ send_queue' = Tail(q) /\ send_queue' \in Seq(Messages)
               /\ attempts' \in Seq(Messages) /\ Len(attempts') = Len(attempts) + 1
               /\ attempts' \o send_queue' = attempts \o q
               /\ hold' \in Int /\ hold' <= SendInterval + late
               /\ NotBefore(0, hold') = NotBefore(0, SendInterval - t)
               /\ relayed' = relayed /\ Head(q) \in Messages
    <2>1. q # <<>> /\ hold <= 0 /\ send_queue' = Tail(q) /\ attempts' = Append(attempts, Head(q))
          /\ relayed' = relayed
      BY <1>3 DEF Transmit
    <2>2. /\ hold' \in Int /\ hold' <= SendInterval + late
          /\ NotBefore(0, hold') = NotBefore(0, SendInterval - t)
      BY <1>3 DEF Transmit, Hold, NotBefore
    <2>3. /\ Append(attempts, Head(q)) \o Tail(q) = attempts \o q
          /\ Append(attempts, Head(q)) \in Seq(Messages) /\ Tail(q) \in Seq(Messages)
          /\ Len(Append(attempts, Head(q))) = Len(attempts) + 1
          /\ Head(q) \in Messages
      BY <2>1, <1>0, HeadMoves
    <2> QED
      BY <2>1, <2>2, <2>3, Zenon
  <1>4. ASSUME NEW t \in Nat, hold <= 0, NotBefore(0, hold') = NotBefore(0, SendInterval - t)
        PROVE  NoneLonger(AgedTimers(pending, t), 1 + NotBefore(0, hold') + late)
    <2> DEFINE limit == 1 + NotBefore(0, hold) + late
               later == 1 + NotBefore(0, SendInterval - t) + late
    <2>1. limit \in Int /\ later \in Int /\ 0 <= later /\ limit - t <= later
      BY <1>0, <1>4 DEF NotBefore
    <2>2. NoneLonger(pending, limit)
      OBVIOUS
    <2> HIDE DEF limit, later
    <2>3. NoneLonger(AgedTimers(pending, t), later)
      BY <2>1, <2>2, AgedNoneLonger
    <2> QED
      BY <2>3, <1>4 DEF later
  <1>5. CASE SendOne(q, pending)
    <2>1. PICK t \in AirTimes :
            /\ Transmit(q, t)
            /\ sent' = Append(sent, Head(q))
            /\ repeats' = Aged(repeats, t) \cup {[msg |-> Head(q), delay |-> d] : d \in RepeaterDelays}
            /\ IF Tail(q) = <<>> THEN timers' = AgedTimers(pending, t)
                                 ELSE Reschedule(SendInterval - t, AgedTimers(pending, t))
      BY <1>5 DEF SendOne
    <2>2. t \in Nat
      OBVIOUS
    <2> DEFINE aged == AgedTimers(pending, t)
               d == 1 + NotBefore(0, SendInterval - t)
               limit == 1 + NotBefore(0, hold') + late
    <2>3. /\ q # <<>> /\ hold <= 0
          /\ send_queue' = Tail(q) /\ send_queue' \in Seq(Messages)
          /\ attempts' \in Seq(Messages) /\ Len(attempts') = Len(attempts) + 1
          /\ attempts' \o send_queue' = attempts \o q
          /\ hold' \in Int /\ hold' <= SendInterval + late
          /\ NotBefore(0, hold') = NotBefore(0, SendInterval - t)
          /\ relayed' = relayed /\ Head(q) \in Messages
      BY <2>1, <2>2, <1>3
    <2>4. sent' \in Seq(Messages) /\ Len(sent') = Len(sent) + 1
      BY <2>1, <2>3, <1>0, AppendProperties
    <2>5. repeats' \subseteq [msg : Messages, delay : Nat]
      BY <2>1, <2>2, <2>3, AgedRepeats
    <2>6. aged \in Seq(Nat) /\ Len(aged) = Len(pending)
      BY <2>2, AgedTimersType
    <2>7. NoneLonger(aged, limit)
      BY <2>2, <2>3, <1>4
    <2>8. d \in Nat /\ limit \in Int /\ d <= limit
      <3>1. NotBefore(0, SendInterval - t) \in Nat
        BY <2>2 DEF NotBefore
      <3>2. NotBefore(0, hold') = NotBefore(0, SendInterval - t)
        BY <2>3
      <3> QED
        BY <3>1, <3>2
    <2>9. Failures' = Failures
      BY <2>3, <2>4, <1>0 DEF Failures
    <2>10. IF Tail(q) = <<>> THEN timers' = aged ELSE timers' = Append(aged, d)
      BY <2>1 DEF Reschedule
    <2> HIDE DEF aged, d, limit
    <2>11. /\ timers' \in Seq(Nat) /\ NoneLonger(timers', limit)
           /\ Len(timers') = Len(pending) + Chains(send_queue')
      <3>1. CASE Tail(q) = <<>>
        BY <3>1, <2>3, <2>6, <2>7, <2>10, <1>0 DEF Chains
      <3>2. CASE Tail(q) # <<>>
        BY <3>2, <2>3, <2>6, <2>7, <2>8, <2>10, AppendTimer DEF Chains
      <3> QED
        BY <3>1, <3>2
    <2>13. Len(timers') <= Len(pending) + Chains(send_queue')
      BY <2>11, <1>0 DEF Chains
    <2>12. Len(sent') <= Len(attempts')
      BY <2>3, <2>4, <1>0
    <2> QED
      BY <2>3, <2>4, <2>5, <2>9, <2>11, <2>12, <2>13, Zenon DEF limit
  <1>6. CASE SendFails(q, pending)
    <2>1. PICK t \in AirTimes \cup {0} :
            /\ Transmit(q, t)
            /\ repeats' = Aged(repeats, t)
            /\ timers' = AgedTimers(pending, t)
            /\ UNCHANGED sent
      BY <1>6 DEF SendFails
    <2>2. t \in Nat
      OBVIOUS
    <2>3. /\ q # <<>> /\ hold <= 0
          /\ send_queue' = Tail(q) /\ send_queue' \in Seq(Messages)
          /\ attempts' \in Seq(Messages) /\ Len(attempts') = Len(attempts) + 1
          /\ attempts' \o send_queue' = attempts \o q
          /\ hold' \in Int /\ hold' <= SendInterval + late
          /\ NotBefore(0, hold') = NotBefore(0, SendInterval - t)
          /\ relayed' = relayed
      BY <2>1, <2>2, <1>3
    <2>4. Failures' # 0 /\ sent' \in Seq(Messages) /\ Len(sent') <= Len(attempts')
      BY <2>1, <2>3, <1>0 DEF Failures
    <2>5. repeats' \subseteq [msg : Messages, delay : Nat]
      BY <2>1, <2>2, AgedRepeats
    <2>6. timers' \in Seq(Nat) /\ Len(timers') = Len(pending)
      BY <2>1, <2>2, AgedTimersType
    <2>7. NoneLonger(timers', 1 + NotBefore(0, hold') + late)
      BY <2>1, <2>2, <2>3, <1>4
    <2>8. Len(timers') <= Len(pending) + Chains(send_queue')
      BY <2>6, <1>0 DEF Chains
    <2> QED
      BY <2>3, <2>4, <2>5, <2>6, <2>7, <2>8, Zenon
  <1> QED
    BY <1>1, <1>2, <1>5, <1>6 DEF SendNext

-----------------------------------------------------------------------------
(* The inductive invariant *)

LEMMA AppendAssociative ==
  ASSUME NEW S, NEW a \in Seq(S), NEW q \in Seq(S), NEW e \in S
  PROVE  a \o Append(q, e) = Append(a \o q, e) /\ a \o q \in Seq(S)
  <1>1. <<e>> \in Seq(S)
    OBVIOUS
  <1>2. a \o q \in Seq(S)
    BY ConcatProperties
  <1>3. Append(q, e) = q \o <<e>> /\ Append(a \o q, e) = (a \o q) \o <<e>>
    BY <1>2, AppendIsConcat
  <1>4. (a \o q) \o <<e>> = a \o (q \o <<e>>)
    BY <1>1, ConcatAssociative
  <1> QED
    BY <1>2, <1>3, <1>4

Numbers(r) == [i \in 1 .. r |-> i]

(* A message that arrives is the next number, at the end. *)
LEMMA AppendNumber ==
  ASSUME NEW s \in Seq(Nat), NEW r \in Nat, s = Numbers(r)
  PROVE  Append(s, r + 1) = Numbers(r + 1)
  <1> DEFINE new == r + 1
             all == Numbers(new)
  <1>1. Len(s) = r /\ \A i \in 1 .. r : s[i] = i
    BY DEF Numbers
  <1>2. all \in Seq(Nat) /\ Len(all) = new /\ \A i \in 1 .. new : all[i] = i
    BY DEF Numbers
  <1>3. new \in Nat
    OBVIOUS
  <1> HIDE DEF all
  <1>4. /\ Append(s, new) \in Seq(Nat) /\ Len(Append(s, new)) = Len(s) + 1
        /\ \A i \in 1 .. Len(s) : Append(s, new)[i] = s[i]
        /\ Append(s, new)[Len(s) + 1] = new
    <2> HIDE DEF new
    <2> QED
      BY <1>3, AppendProperties
  <1>5. \A i \in 1 .. Len(all) : Append(s, new)[i] = all[i]
    BY <1>1, <1>2, <1>4
  <1>6. Len(Append(s, new)) = Len(all)
    BY <1>1, <1>2, <1>4
  <1>7. Append(s, new) = all
    BY <1>2, <1>4, <1>5, <1>6, SeqEqual
  <1> QED
    BY <1>7 DEF all

LEMMA NextArrives ==
  ASSUME NEW a \in Seq(Nat), NEW q \in Seq(Nat), NEW r \in Nat, a \o q = Numbers(r)
  PROVE  a \o Append(q, r + 1) = Numbers(r + 1)
  <1>1. \A e \in Nat : a \o Append(q, e) = Append(a \o q, e) /\ a \o q \in Seq(Nat)
    BY AppendAssociative
  <1>2. r + 1 \in Nat
    OBVIOUS
  <1>3. a \o Append(q, r + 1) = Append(a \o q, r + 1) /\ a \o q \in Seq(Nat)
    BY <1>1, <1>2
  <1> QED
    BY <1>3, AppendNumber

LEMMA InitQueueInv == Init => QueueInv
  <1> SUFFICES ASSUME Init PROVE QueueInv
    OBVIOUS
  <1> USE SendQueueAssumption DEF Init
  <1>1. \A S : <<>> \in Seq(S)
    OBVIOUS
  <1>2. received \in 0 .. MaxMessages /\ hold \in Int
    OBVIOUS
  <1>3. TypeOK
    BY <1>1, <1>2 DEF TypeOK
  <1>4. InOrder
    <2>1. [i \in 1 .. 0 |-> i] = <<>>
      OBVIOUS
    <2>2. <<>> \o <<>> = <<>>
      OBVIOUS
    <2> QED
      BY <2>1, <2>2 DEF InOrder
  <1>5. OneTimer /\ Len(sent) <= Len(attempts)
    BY DEF OneTimer
  <1>6. WaitsNoLongerThanNeeded
    BY DEF WaitsNoLongerThanNeeded, NotBefore
  <1> QED
    BY <1>3, <1>4, <1>5, <1>6 DEF QueueInv

(* The parts of the invariant in the form of the lemmas. *)
LEMMA QueueInvWaits ==
  ASSUME QueueInv
  PROVE  Late \in Nat /\ hold <= SendInterval + Late /\ NoneLonger(timers, Longest) /\ Longest \in Nat
  BY SendQueueAssumption DEF QueueInv, TypeOK, WaitsNoLongerThanNeeded, Late, Longest, NoneLonger, NotBefore

(* A call of send_next keeps the invariant, when the chain of timers that  *)
(* is left is as long as it has to be.                                     *)
LEMMA SendNextInv ==
  ASSUME QueueInv, received' \in 0 .. MaxMessages, UNCHANGED jumped,
         NEW q \in Seq(Messages), attempts \o q = [i \in 1 .. received' |-> i],
         NEW pending \in Seq(Nat), NoneLonger(pending, Longest),
         Len(pending) = 0,
         SendNext(q, pending)
  PROVE  QueueInv'
  <1>1. Late \in Nat /\ hold <= SendInterval + Late /\ TypeOK /\ Len(sent) <= Len(attempts)
    BY QueueInvWaits DEF QueueInv
  <1>2. NoneLonger(pending, 1 + NotBefore(0, hold) + Late)
    BY DEF Longest
  <1>3. /\ send_queue' \in Seq(Messages) /\ attempts' \in Seq(Messages) /\ sent' \in Seq(Messages)
        /\ repeats' \subseteq [msg : Messages, delay : Nat] /\ relayed' = relayed
        /\ attempts' \o send_queue' = attempts \o q
        /\ Len(sent') <= Len(attempts')
        /\ timers' \in Seq(Nat) /\ hold' \in Int
        /\ Len(timers') <= Len(pending) + Chains(send_queue')
        /\ Failures' = 0 => Failures = 0 /\ Len(timers') = Len(pending) + Chains(send_queue')
        /\ hold' <= SendInterval + Late
        /\ NoneLonger(timers', 1 + NotBefore(0, hold') + Late)
    BY <1>1, <1>2, SendNextEffect
  <1>4. TypeOK'
    BY <1>1, <1>3 DEF TypeOK
  <1>5. InOrder'
    BY <1>3 DEF InOrder
  <1>6. OneTimer'
    BY <1>3 DEF OneTimer, Chains
  <1>7. WaitsNoLongerThanNeeded'
    BY <1>3 DEF WaitsNoLongerThanNeeded, NoneLonger, Late
  <1> QED
    BY <1>3, <1>4, <1>5, <1>6, <1>7 DEF QueueInv

LEMMA DatagramReceivedInv == ASSUME QueueInv, DatagramReceived PROVE QueueInv'
  <1> DEFINE q == Append(send_queue, received')
  <1> USE DEF QueueInv
  <1>1. /\ received' = received + 1 /\ received' \in 0 .. MaxMessages /\ received' \in Messages
        /\ received \in Nat
    BY SendQueueAssumption DEF DatagramReceived, TypeOK, Messages
  <1>2. /\ q \in Seq(Messages) /\ Len(q) = Len(send_queue) + 1
        /\ send_queue \in Seq(Messages) /\ Len(send_queue) \in Nat
    BY <1>1, AppendProperties, LenProperties DEF TypeOK
  <1>3. attempts \o q = [i \in 1 .. received' |-> i]
    <2>1. attempts \in Seq(Nat) /\ send_queue \in Seq(Nat)
      BY SendQueueAssumption, SeqMonotonic DEF TypeOK, Messages
    <2>2. attempts \o send_queue = Numbers(received)
      BY DEF InOrder, Numbers
    <2> HIDE DEF QueueInv, q
    <2>3. attempts \o Append(send_queue, received + 1) = Numbers(received + 1)
      BY <1>1, <2>1, <2>2, NextArrives
    <2> QED
      BY <1>1, <2>3 DEF q, Numbers
  <1>4. CASE Len(q) = 1
    <2>1. send_queue = <<>>
      BY <1>2, <1>4, EmptySeq
    <2>2. Len(timers) = 0
      BY <2>1, LenProperties DEF OneTimer, TypeOK
    <2>3. SendNext(q, timers) /\ UNCHANGED jumped /\ timers \in Seq(Nat)
      BY <1>4 DEF DatagramReceived, TypeOK
    <2> HIDE DEF q, QueueInv
    <2> QED
      BY <1>1, <1>2, <1>3, <2>2, <2>3, QueueInvWaits, SendNextInv
  <1>5. CASE Len(q) # 1
    <2>1. Enqueue(q) /\ UNCHANGED jumped
      BY <1>5 DEF DatagramReceived
    <2>2. send_queue # <<>> /\ q # <<>>
      BY <1>2, <1>5, EmptySeq
    <2> HIDE DEF q
    <2>3. TypeOK'
      BY <1>1, <1>2, <2>1 DEF TypeOK, Enqueue
    <2>4. InOrder'
      BY <1>3, <2>1 DEF InOrder, Enqueue
    <2>5. OneTimer' /\ Len(sent') <= Len(attempts')
      BY <2>1, <2>2 DEF OneTimer, Enqueue, Failures
    <2>6. WaitsNoLongerThanNeeded'
      BY <2>1 DEF WaitsNoLongerThanNeeded, Enqueue
    <2> QED
      BY <2>3, <2>4, <2>5, <2>6
  <1> QED
    BY <1>4, <1>5

LEMMA TimerFiresInv == ASSUME QueueInv, TimerFires PROVE QueueInv'
  <1>1. PICK i \in DOMAIN timers :
          SendNext(send_queue, RemoveAt(timers, i)) /\ UNCHANGED <<received, jumped>>
    BY DEF TimerFires
  <1> DEFINE pending == RemoveAt(timers, i)
  <1>2. timers \in Seq(Nat) /\ send_queue \in Seq(Messages) /\ Len(timers) \in Nat
    BY LenProperties DEF QueueInv, TypeOK
  <1>3. /\ pending \in Seq(Nat) /\ Len(pending) = Len(timers) - 1
        /\ \A j \in DOMAIN pending : \E k \in DOMAIN timers : pending[j] = timers[k]
    BY <1>2, RemoveAtType
  <1>4. NoneLonger(pending, Longest)
    BY <1>3, QueueInvWaits DEF NoneLonger
  <1>5. Len(timers) # 0
    BY <1>2, LenProperties
  <1>6. Len(pending) = 0
    BY <1>2, <1>3, <1>5 DEF QueueInv, OneTimer
  <1>7. received' \in 0 .. MaxMessages /\ attempts \o send_queue = [k \in 1 .. received' |-> k]
    BY <1>1 DEF QueueInv, TypeOK, InOrder
  <1> HIDE DEF pending
  <1> QED
    BY <1>1, <1>2, <1>3, <1>4, <1>6, <1>7, SendNextInv DEF pending

LEMMA RepeatFiresInv == ASSUME QueueInv, RepeatFires PROVE QueueInv'
  <1>1. PICK m \in repeats :
          /\ relayed' = Append(relayed, m.msg)
          /\ repeats' = repeats \ {m}
          /\ UNCHANGED <<received, send_queue, hold, timers, jumped, attempts, sent>>
    BY DEF RepeatFires
  <1>2. m.msg \in Messages /\ relayed \in Seq(Messages)
    BY DEF QueueInv, TypeOK
  <1>3. relayed' \in Seq(Messages)
    BY <1>1, <1>2, AppendProperties
  <1>4. TypeOK'
    BY <1>1, <1>3 DEF QueueInv, TypeOK
  <1> QED
    BY <1>1, <1>4 DEF QueueInv, InOrder, OneTimer, Failures, WaitsNoLongerThanNeeded

(* Time, as it goes by or as it is set. *)
LEMMA AgeInv ==
  ASSUME QueueInv, NEW t \in Int, Age(t), jumped' \in Jumps \cup {0}, Late' \in Nat,
         hold - t <= SendInterval + Late',
         Longest - t <= 1 + NotBefore(0, NotBefore(LongAgo, hold - t)) + Late'
  PROVE  QueueInv'
  <1> USE SendQueueAssumption
  <1>1. hold \in Int /\ timers \in Seq(Nat) /\ Longest \in Nat /\ NoneLonger(timers, Longest)
    BY QueueInvWaits DEF QueueInv, TypeOK
  <1>2. /\ hold' = NotBefore(LongAgo, hold - t) /\ timers' = AgedTimers(timers, t)
        /\ repeats' = Aged(repeats, t) /\ UNCHANGED <<received, send_queue, attempts, sent, relayed>>
    BY DEF Age, Hold
  <1> DEFINE later == 1 + NotBefore(0, NotBefore(LongAgo, hold - t)) + Late'
  <1>3. later \in Int /\ 0 <= later /\ hold' \in Int /\ hold' <= SendInterval + Late'
    <2>1. hold - t \in Int
      BY <1>1
    <2>2. /\ NotBefore(LongAgo, hold - t) \in Int
          /\ NotBefore(LongAgo, hold - t) <= SendInterval + Late'
      BY <2>1 DEF NotBefore
    <2>3. NotBefore(0, NotBefore(LongAgo, hold - t)) \in Nat
      BY <2>2 DEF NotBefore
    <2> QED
      BY <1>2, <2>2, <2>3
  <1>4. later = 1 + NotBefore(0, hold') + Late'
    BY <1>2
  <1>5. timers' \in Seq(Nat) /\ Len(timers') = Len(timers)
    BY <1>1, <1>2, AgedTimersType
  <1>6. Longest - t <= later
    OBVIOUS
  <1> HIDE DEF later
  <1>7. NoneLonger(timers', later)
    BY <1>1, <1>2, <1>3, <1>6, AgedNoneLonger
  <1>8. repeats' \subseteq [msg : Messages, delay : Nat]
    BY <1>2, AgedRepeats DEF QueueInv
  <1>9. TypeOK'
    BY <1>2, <1>3, <1>5, <1>8 DEF QueueInv, TypeOK
  <1>10. InOrder' /\ OneTimer' /\ Len(sent') <= Len(attempts')
    BY <1>2, <1>5 DEF QueueInv, InOrder, OneTimer, Failures
  <1>11. WaitsNoLongerThanNeeded'
    BY <1>3, <1>4, <1>7 DEF WaitsNoLongerThanNeeded, NoneLonger, Late
  <1> QED
    BY <1>9, <1>10, <1>11 DEF QueueInv

LEMMA TickInv == ASSUME QueueInv, Tick PROVE QueueInv'
  <1> USE SendQueueAssumption
  <1>1. hold \in Int /\ hold <= SendInterval + Late /\ Late \in Nat
    BY QueueInvWaits DEF QueueInv, TypeOK
  <1>2. Age(1) /\ jumped' = jumped /\ Late' = Late /\ jumped' \in Jumps \cup {0}
    BY DEF Tick, QueueInv, TypeOK, Late
  <1>3. hold - 1 <= SendInterval + Late
    BY <1>1
  <1>4. Longest - 1 <= 1 + NotBefore(0, NotBefore(LongAgo, hold - 1)) + Late
    BY <1>1 DEF Longest, NotBefore
  <1> QED
    BY <1>1, <1>2, <1>3, <1>4, AgeInv

LEMMA ClockJumpInv == ASSUME QueueInv, ClockJump PROVE QueueInv'
  <1> USE SendQueueAssumption
  <1>1. hold \in Int /\ hold <= SendInterval + Late
    BY QueueInvWaits DEF QueueInv, TypeOK
  <1>2. PICK j \in Jumps : jumped' = j /\ Age(-j)
    BY DEF ClockJump
  <1>3. Late' = NotBefore(0, j) /\ Late = 0
    BY <1>2 DEF Late, ClockJump, NotBefore
  <1>4. j \in Int /\ LongAgo + j <= 0 /\ -j \in Int
    OBVIOUS
  <1>5. NotBefore(0, j) \in Nat /\ hold - (-j) <= SendInterval + NotBefore(0, j)
    BY <1>1, <1>3, <1>4 DEF NotBefore
  <1>6. Longest - (-j) <= 1 + NotBefore(0, NotBefore(LongAgo, hold - (-j))) + NotBefore(0, j)
    BY <1>1, <1>3, <1>4 DEF Longest, NotBefore
  <1> QED
    BY <1>2, <1>3, <1>4, <1>5, <1>6, AgeInv

LEMMA StepQueueInv == QueueInv /\ [Next]_vars => QueueInv'
  <1> SUFFICES ASSUME QueueInv, [Next]_vars PROVE QueueInv'
    OBVIOUS
  <1>1. CASE UNCHANGED vars
    BY <1>1 DEF vars, QueueInv, TypeOK, InOrder, OneTimer, Failures, WaitsNoLongerThanNeeded
  <1> QED
    BY <1>1, DatagramReceivedInv, TimerFiresInv, RepeatFiresInv, TickInv, ClockJumpInv DEF Next

-----------------------------------------------------------------------------
(* Forwarding: what waits for the repeater was sent, and is one call of    *)
(* network_send for each message.                                          *)

Members(seq) == {seq[i] : i \in DOMAIN seq}
Waiting(pending) == {m.msg : m \in pending}
OneEach(pending) == \A m, n \in pending : m.msg = n.msg => m = n

RelayInv ==
  /\ IsFiniteSet(repeats) /\ OneEach(repeats)
  /\ Members(sent) \subseteq Members(attempts)
  /\ Members(relayed) \cup Waiting(repeats) = Members(sent)
  /\ Len(relayed) + Cardinality(repeats) = Len(sent)

LEMMA AppendMember ==
  ASSUME NEW S, NEW seq \in Seq(S), NEW e \in S
  PROVE  Members(Append(seq, e)) = Members(seq) \cup {e} /\ Len(Append(seq, e)) = Len(seq) + 1
  <1>1. /\ DOMAIN Append(seq, e) = 1 .. Len(seq) + 1 /\ DOMAIN seq = 1 .. Len(seq)
        /\ Len(seq) \in Nat /\ Len(Append(seq, e)) = Len(seq) + 1
        /\ \A i \in 1 .. Len(seq) : Append(seq, e)[i] = seq[i]
        /\ Append(seq, e)[Len(seq) + 1] = e
    OBVIOUS
  <1> DEFINE longer == Append(seq, e)
  <1> HIDE DEF longer
  <1>2. Members(longer) \subseteq Members(seq) \cup {e}
    BY <1>1 DEF Members, longer
  <1>3. Members(seq) \subseteq Members(longer)
    BY <1>1 DEF Members, longer
  <1>4. e \in Members(longer)
    BY <1>1 DEF Members, longer
  <1> QED
    BY <1>1, <1>2, <1>3, <1>4 DEF longer

(* As time goes by, the same messages wait. *)
LEMMA AgedWait ==
  ASSUME NEW pending \in SUBSET [msg : Messages, delay : Nat], IsFiniteSet(pending), OneEach(pending),
         NEW t \in Int
  PROVE  /\ IsFiniteSet(Aged(pending, t)) /\ Cardinality(Aged(pending, t)) = Cardinality(pending)
         /\ Waiting(Aged(pending, t)) = Waiting(pending)
         /\ OneEach(Aged(pending, t))
  <1> DEFINE older == [m \in pending |-> [m EXCEPT !.delay = NotBefore(0, @ - t)]]
             aged  == Aged(pending, t)
  <1>1. \A m \in pending : older[m].msg = m.msg
    OBVIOUS
  <1>2. aged = {older[m] : m \in pending}
    BY DEF Aged
  <1>3. DOMAIN older = pending
    OBVIOUS
  <1>4. older \in [pending -> aged]
    BY <1>2
  <1> HIDE DEF older, aged
  <1>5. \A m, n \in pending : older[m] = older[n] => m = n
    BY <1>1 DEF OneEach
  <1>6. older \in Bijection(pending, aged)
    BY <1>2, <1>4, <1>5, Fun_IsBij
  <1>7. IsFiniteSet(aged) /\ Cardinality(aged) = Cardinality(pending)
    BY <1>6, FS_Bijection DEF ExistsBijection
  <1>8. Waiting(aged) = Waiting(pending)
    BY <1>1, <1>2 DEF Waiting
  <1>9. OneEach(aged)
    BY <1>1, <1>2 DEF OneEach
  <1> QED
    BY <1>7, <1>8, <1>9 DEF aged

(* A message that leaves the queue was not tried before. *)
LEMMA HeadIsNew ==
  ASSUME QueueInv, QueueInv', NEW h \in Messages, attempts' = Append(attempts, h)
  PROVE  h \notin Members(attempts)
  <1>1. /\ attempts \in Seq(Nat) /\ attempts' \in Seq(Nat) /\ send_queue' \in Seq(Nat)
        /\ received' \in Nat /\ h \in Nat
    BY SeqMonotonic, SendQueueAssumption DEF QueueInv, TypeOK, Messages
  <1>2. \A i \in 1 .. Len(attempts') : attempts'[i] = i
    <2>1. attempts' \o send_queue' = [i \in 1 .. received' |-> i]
      BY DEF QueueInv, InOrder
    <2> DEFINE both == attempts' \o send_queue'
    <2>2. /\ Len(attempts') \in Nat /\ DOMAIN both = 1 .. Len(attempts') + Len(send_queue')
          /\ Len(send_queue') \in Nat
          /\ \A i \in 1 .. Len(attempts') : both[i] = attempts'[i]
      BY <1>1
    <2>3. \A i \in DOMAIN both : both[i] = i
      BY <2>1
    <2> HIDE DEF both
    <2> QED
      BY <2>2, <2>3
  <1>3. /\ Len(attempts) \in Nat /\ Len(attempts') = Len(attempts) + 1
        /\ attempts'[Len(attempts) + 1] = h /\ DOMAIN attempts = 1 .. Len(attempts)
        /\ \A i \in 1 .. Len(attempts) : attempts'[i] = attempts[i]
    BY <1>1
  <1> QED
    BY <1>2, <1>3 DEF Members

LEMMA InitRelayInv == Init => RelayInv
  <1> SUFFICES ASSUME Init PROVE RelayInv
    OBVIOUS
  <1>1. repeats = {} /\ relayed = <<>> /\ sent = <<>> /\ attempts = <<>>
    BY DEF Init
  <1>2. IsFiniteSet({}) /\ Cardinality({}) = 0 /\ Len(<<>>) = 0 /\ Members(<<>>) = {}
    BY FS_EmptySet DEF Members
  <1> QED
    BY <1>1, <1>2 DEF RelayInv, OneEach, Waiting

(* send_next with one repeater, on whatever queue and timers.              *)
LEMMA SendNextRelays ==
  ASSUME NEW d \in Nat, RepeaterDelays = {d}, QueueInv, QueueInv', RelayInv,
         NEW q \in Seq(Messages), NEW pending, SendNext(q, pending)
  PROVE  RelayInv'
  <1>1. /\ repeats \in SUBSET [msg : Messages, delay : Nat] /\ sent \in Seq(Messages)
        /\ attempts \in Seq(Messages) /\ relayed \in Seq(Messages)
    BY DEF QueueInv, TypeOK
  <1>2. CASE UNCHANGED <<repeats, attempts, sent, relayed>>
    BY <1>2 DEF RelayInv
  <1>3. ASSUME NEW t \in AirTimes \cup {0}, Transmit(q, t)
        PROVE  /\ Head(q) \in Messages /\ attempts' = Append(attempts, Head(q)) /\ relayed' = relayed
               /\ Head(q) \notin Members(attempts)
               /\ Members(attempts') = Members(attempts) \cup {Head(q)}
               /\ t \in Int
    <2>1. Head(q) \in Messages /\ attempts' = Append(attempts, Head(q)) /\ relayed' = relayed
      BY <1>3 DEF Transmit
    <2>2. Members(attempts') = Members(attempts) \cup {Head(q)}
      BY <1>1, <2>1, AppendMember
    <2> QED
      BY <2>1, <2>2, HeadIsNew, SendQueueAssumption
  <1>4. CASE SendOne(q, pending)
    <2>1. PICK t \in AirTimes :
            /\ Transmit(q, t)
            /\ sent' = Append(sent, Head(q))
            /\ repeats' = Aged(repeats, t) \cup {[msg |-> Head(q), delay |-> d]}
      BY <1>4 DEF SendOne
    <2> DEFINE h    == Head(q)
               aged == Aged(repeats, t)
               last == [msg |-> h, delay |-> d]
    <2>2. /\ h \in Messages /\ relayed' = relayed /\ h \notin Members(attempts)
          /\ Members(attempts') = Members(attempts) \cup {h} /\ t \in Int
      BY <1>3, <2>1
    <2>3. /\ IsFiniteSet(aged) /\ Cardinality(aged) = Cardinality(repeats)
          /\ Waiting(aged) = Waiting(repeats) /\ OneEach(aged)
      BY <1>1, <2>2, AgedWait DEF RelayInv
    <2>4. Members(sent') = Members(sent) \cup {h} /\ Len(sent') = Len(sent) + 1
      BY <1>1, <2>1, <2>2, AppendMember
    <2>5. last.msg = h
      OBVIOUS
    <2> HIDE DEF h, aged, last
    <2>6. h \notin Waiting(aged)
      BY <2>2, <2>3 DEF RelayInv
    <2>7. last \notin aged /\ OneEach(aged \cup {last}) /\ Waiting(aged \cup {last}) = Waiting(aged) \cup {h}
      BY <2>3, <2>5, <2>6 DEF Waiting, OneEach
    <2>8. repeats' = aged \cup {last}
      BY <2>1 DEF h, aged, last
    <2>9. IsFiniteSet(repeats') /\ Cardinality(repeats') = Cardinality(repeats) + 1
      BY <2>3, <2>7, <2>8, FS_AddElement
    <2>10. Len(relayed') + Cardinality(repeats') = Len(sent')
      <3>1. Cardinality(repeats) \in Nat /\ Len(relayed) \in Nat /\ Len(sent) \in Nat
        BY <1>1, FS_CardinalityType DEF RelayInv
      <3>2. Len(relayed) + Cardinality(repeats) = Len(sent)
        BY DEF RelayInv
      <3> QED
        BY <2>2, <2>4, <2>9, <3>1, <3>2
    <2>11. Members(sent') \subseteq Members(attempts')
      BY <2>2, <2>4 DEF RelayInv
    <2>12. Members(relayed') \cup Waiting(repeats') = Members(sent')
      BY <2>2, <2>3, <2>4, <2>7, <2>8 DEF RelayInv
    <2> QED
      BY <2>7, <2>8, <2>9, <2>10, <2>11, <2>12 DEF RelayInv
  <1>5. CASE SendFails(q, pending)
    <2>1. PICK t \in AirTimes \cup {0} :
            Transmit(q, t) /\ repeats' = Aged(repeats, t) /\ sent' = sent
      BY <1>5 DEF SendFails
    <2>2. /\ relayed' = relayed /\ Members(attempts') = Members(attempts) \cup {Head(q)} /\ t \in Int
      BY <1>3, <2>1
    <2>3. /\ IsFiniteSet(repeats') /\ Cardinality(repeats') = Cardinality(repeats)
          /\ Waiting(repeats') = Waiting(repeats) /\ OneEach(repeats')
      BY <1>1, <2>1, <2>2, AgedWait DEF RelayInv
    <2> QED
      BY <2>1, <2>2, <2>3 DEF RelayInv
  <1> QED
    BY <1>2, <1>4, <1>5 DEF SendNext, NothingToSend, TooEarly

(* network_send takes one message to the repeater. *)
LEMMA RepeatFiresRelays == ASSUME QueueInv, RelayInv, RepeatFires PROVE RelayInv'
  <1>1. PICK m \in repeats :
          /\ relayed' = Append(relayed, m.msg)
          /\ repeats' = repeats \ {m}
          /\ UNCHANGED <<attempts, sent>>
    BY DEF RepeatFires
  <1>2. m.msg \in Messages /\ relayed \in Seq(Messages) /\ sent \in Seq(Messages)
    BY DEF QueueInv, TypeOK
  <1>3. Members(relayed') = Members(relayed) \cup {m.msg} /\ Len(relayed') = Len(relayed) + 1
    BY <1>1, <1>2, AppendMember
  <1>4. Waiting(repeats') \cup {m.msg} = Waiting(repeats) /\ OneEach(repeats')
    BY <1>1 DEF RelayInv, Waiting, OneEach
  <1>5. /\ IsFiniteSet(repeats') /\ Cardinality(repeats') = Cardinality(repeats) - 1
        /\ Cardinality(repeats) \in Nat
    BY <1>1, FS_RemoveElement, FS_CardinalityType DEF RelayInv
  <1>6. Len(relayed') + Cardinality(repeats') = Len(sent')
    <2>1. Len(relayed) \in Nat /\ Len(relayed) + Cardinality(repeats) = Len(sent)
      BY <1>2 DEF RelayInv
    <2> QED
      BY <1>1, <1>3, <1>5, <2>1
  <1>7. Members(relayed') \cup Waiting(repeats') = Members(sent')
    BY <1>1, <1>3, <1>4 DEF RelayInv
  <1> QED
    BY <1>1, <1>4, <1>5, <1>6, <1>7 DEF RelayInv

LEMMA AgeRelays == ASSUME QueueInv, RelayInv, NEW t \in Int, Age(t) PROVE RelayInv'
  <1>1. repeats' = Aged(repeats, t) /\ UNCHANGED <<attempts, sent, relayed>>
    BY DEF Age
  <1>2. repeats \in SUBSET [msg : Messages, delay : Nat]
    BY DEF QueueInv, TypeOK
  <1>3. /\ IsFiniteSet(repeats') /\ Cardinality(repeats') = Cardinality(repeats)
        /\ Waiting(repeats') = Waiting(repeats) /\ OneEach(repeats')
    BY <1>1, <1>2, AgedWait DEF RelayInv
  <1> QED
    BY <1>1, <1>3 DEF RelayInv

LEMMA StepRelayInv ==
  ASSUME NEW d \in Nat, RepeaterDelays = {d}, QueueInv, QueueInv', RelayInv, [Next]_vars
  PROVE  RelayInv'
  <1>1. send_queue \in Seq(Messages)
    BY DEF QueueInv, TypeOK
  <1>2. CASE DatagramReceived
    <2>1. received' \in Messages
      BY <1>2, SendQueueAssumption DEF DatagramReceived, QueueInv, TypeOK, Messages
    <2>2. Append(send_queue, received') \in Seq(Messages)
      BY <1>1, <2>1, AppendProperties
    <2>3. CASE SendNext(Append(send_queue, received'), timers)
      BY <2>2, <2>3, SendNextRelays
    <2>4. CASE Enqueue(Append(send_queue, received'))
      BY <2>4 DEF Enqueue, RelayInv
    <2> QED
      BY <1>2, <2>3, <2>4 DEF DatagramReceived
  <1>3. CASE TimerFires
    BY <1>1, <1>3, SendNextRelays DEF TimerFires
  <1>4. CASE RepeatFires
    BY <1>4, RepeatFiresRelays
  <1>5. CASE Tick
    BY <1>5, AgeRelays DEF Tick
  <1>6. CASE ClockJump
    <2>1. -jumped' \in Int /\ Age(-jumped')
      BY <1>6, SendQueueAssumption DEF ClockJump
    <2> QED
      BY <2>1, AgeRelays
  <1>7. CASE UNCHANGED vars
    BY <1>7 DEF vars, RelayInv
  <1> QED
    BY <1>2, <1>3, <1>4, <1>5, <1>6, <1>7 DEF Next

-----------------------------------------------------------------------------
(* The properties below hold together in every reachable state: the order  *)
(* needs the types, the bound on the waits and the single chain of timers  *)
(* need each other's types, and a failure is seen by the history alone.    *)
THEOREM QueueInvariance == Spec => []QueueInv
  BY InitQueueInv, StepQueueInv, PTL DEF Spec

(* Type correctness: a delay is never negative, whatever the clock does.   *)
THEOREM QueueTypeCorrect == Spec => []TypeOK
  BY QueueInvariance, PTL DEF QueueInv

(* home_easy.py:174-218: every message is handed to the radio once, in the *)
(* order of arrival.                                                       *)
THEOREM HandedOverInOrder == Spec => []InOrder
  BY QueueInvariance, PTL DEF QueueInv

(* home_easy.py:175-218: there are never two chains of timers, and none    *)
(* when there is no work; without failures of pigpio there is one while    *)
(* there is.                                                               *)
THEOREM OneChainOfTimers == Spec => []OneTimer
  BY QueueInvariance, PTL DEF QueueInv

(* home_easy.py:197-218: nothing waits longer than until allow_send_at,    *)
(* and that is never more than an interval ahead, plus what the clock was  *)
(* set back.                                                               *)
THEOREM WaitsAreBounded == Spec => []WaitsNoLongerThanNeeded
  BY QueueInvariance, PTL DEF QueueInv

(* home_easy.py:206-209: with a repeater, every message that went out on   *)
(* the radio is forwarded once, and none that failed.                      *)
THEOREM ForwardedOnce ==
  ASSUME NEW d \in Nat, RepeaterDelays = {d}
  PROVE  Spec => []RelayedOnce
  <1>1. QueueInv /\ QueueInv' /\ RelayInv /\ [Next]_vars => RelayInv'
    BY StepRelayInv
  <1>2. RelayInv => RelayedOnce
    BY DEF RelayInv, RelayedOnce, Members, Waiting
  <1> QED
    BY InitRelayInv, <1>1, <1>2, QueueInvariance, PTL DEF Spec
=============================================================================
