---------------------------- MODULE RadioLinkProofs ----------------------------
(***************************************************************************)
(* Proofs about the counter arithmetic of Hmac433 and about RadioLink, for *)
(* every number of overlapping senders, every set of commands, every byte  *)
(* size, any number of power failures, and for a fresh as well as a        *)
(* formatted NVRAM.  At the end, proofs about the Mailbox through which     *)
(* the receiver gets its codes, of every length and number.                *)
(***************************************************************************)
EXTENDS RadioLink, Mailbox, SequenceTheorems, TLAPS

-----------------------------------------------------------------------------
(* What the counter arithmetic of Hmac433 computes *)

(* Division with remainder, the only facts about % and \div used below. *)
LEMMA DivMod ==
  ASSUME NEW c \in Int
  PROVE  /\ c % Low \in 0 .. Low - 1
         /\ c \div Low \in Int
         /\ c = (c \div Low) * Low + (c % Low)
         /\ c \in Nat => c \div Low \in Nat
BY LowAssumption, SMT

LEMMA NoMultipleBetween ==
  ASSUME NEW k \in Int, -Low < k * Low, k * Low < Low
  PROVE  k = 0
BY LowAssumption, SMT

LEMMA ModUnique ==
  ASSUME NEW q \in Int, NEW r \in 0 .. Low - 1
  PROVE  (q * Low + r) % Low = r /\ (q * Low + r) \div Low = q
BY LowAssumption, SMT

LEMMA AlignBounds ==
  ASSUME NEW c \in Nat
  PROVE  /\ Align(c) \in Nat
         /\ Align(c) = (c \div Low) * Low
         /\ Align(c) <= c
         /\ c < Align(c) + Low
<1>1. c % Low \in 0 .. Low - 1 /\ c = (c \div Low) * Low + (c % Low) /\ c \div Low \in Nat
  BY DivMod
<1>2. (c \div Low) * Low \in Nat
  BY <1>1, LowAssumption, SMT
<1> QED
  BY <1>1, <1>2, LowAssumption DEF Align

(* The splice and its carry stay within one turn of the low byte, so the   *)
(* rebuilt counter is never behind the receiver's.                         *)
LEMMA OrdinaryCounterBounds ==
  ASSUME NEW c \in Nat, NEW low \in 0 .. Low - 1
  PROVE  /\ OrdinaryCounter(low, c) \in Nat
         /\ c <= OrdinaryCounter(low, c)
         /\ OrdinaryCounter(low, c) < c + Low
<1>1. Align(c) \in Nat /\ Align(c) <= c /\ c < Align(c) + Low
  BY AlignBounds
<1> QED  BY <1>1, LowAssumption DEF OrdinaryCounter

(* The rebuilt counter ends in the byte that was sent. *)
LEMMA OrdinaryCounterForm ==
  ASSUME NEW c \in Nat, NEW low \in 0 .. Low - 1
  PROVE  \E q \in Nat : OrdinaryCounter(low, c) = q * Low + low
<1>1. c \div Low \in Nat /\ Align(c) = (c \div Low) * Low
  <2>1. c \div Low \in Nat
    BY DivMod
  <2>2. Align(c) = (c \div Low) * Low
    BY AlignBounds
  <2> QED  BY <2>1, <2>2
<1>2. (c \div Low + 1) * Low = (c \div Low) * Low + Low
  BY <1>1, LowAssumption, SMT
<1>3. CASE Align(c) + low < c
  <2>1. OrdinaryCounter(low, c) = (c \div Low + 1) * Low + low
    BY <1>1, <1>2, <1>3, LowAssumption DEF OrdinaryCounter
  <2> QED  BY <1>1, <2>1
<1>4. CASE ~(Align(c) + low < c)
  BY <1>1, <1>4 DEF OrdinaryCounter
<1> QED  BY <1>3, <1>4

(* hmac433.c:21-26 rebuilds the counter n of a packet from its low byte    *)
(* iff n is neither behind the receiver's counter c nor a whole turn of    *)
(* the byte ahead of it.                                                   *)
THEOREM OrdinaryCounterExact ==
  ASSUME NEW n \in Nat, NEW c \in Nat
  PROVE  OrdinaryCounter(n % Low, c) = n <=> c <= n /\ n < c + Low
<1> DEFINE m == OrdinaryCounter(n % Low, c)
<1>1. n % Low \in 0 .. Low - 1 /\ n = (n \div Low) * Low + (n % Low) /\ n \div Low \in Nat
  BY DivMod
<1>2. m \in Nat /\ c <= m /\ m < c + Low
  BY <1>1, OrdinaryCounterBounds
<1>3. PICK q \in Nat : m = q * Low + (n % Low)
  BY <1>1, OrdinaryCounterForm
<1>4. ASSUME c <= n, n < c + Low PROVE m = n
  <2>1. q - (n \div Low) \in Int /\ m - n = (q - (n \div Low)) * Low
    BY <1>1, <1>3, LowAssumption, SMT
  <2>2. -Low < m - n /\ m - n < Low
    <3> HIDE DEF m
    <3> QED  BY <1>2, <1>4, LowAssumption
  <2>3. q - (n \div Low) = 0
    BY <2>1, <2>2, NoMultipleBetween
  <2> QED  BY <1>1, <1>3, <2>3
<1> HIDE DEF m
<1>5. m = n <=> c <= n /\ n < c + Low
  BY <1>2, <1>4
<1> QED  BY <1>5 DEF m

LEMMA DivUnique ==
  ASSUME NEW m \in Nat \ {0}, NEW q \in Nat, NEW r \in 0 .. m - 1
  PROVE  (q * m + r) \div m = q
BY SMT

LEMMA EncodedCounterAdvances ==
  ASSUME NEW resync \in BOOLEAN, NEW c \in Nat
  PROVE  EncodedCounter(resync, c) \in Nat /\ EncodedCounter(resync, c) > c
<1>1. c + Low \in Nat
  BY LowAssumption
<1>2. Align(c + Low) \in Nat /\ c + Low < Align(c + Low) + Low
  BY <1>1, AlignBounds
<1> QED  BY <1>1, <1>2, LowAssumption DEF EncodedCounter

(* The payload and the counter byte of a resync packet lose nothing.       *)
LEMMA ResyncRoundTrip ==
  ASSUME NEW c \in Nat, NEW cmd
  PROVE  LET new == EncodedCounter(TRUE, c)
             p   == EncodedPacket(TRUE, cmd, c)
         IN /\ p.body \in Nat
            /\ p.low \in 0 .. Low - 1
            /\ ResyncCounter(p) = new
<1> DEFINE new == EncodedCounter(TRUE, c)
           p   == EncodedPacket(TRUE, cmd, c)
           q   == (c + Low) \div Low
           q1  == q \div Low
           r1  == q % Low
<1>1. q \in Nat /\ new = q * Low
  <2>1. c + Low \in Nat
    BY LowAssumption
  <2>2. Align(c + Low) = q * Low
    BY <2>1, AlignBounds
  <2>3. q \in Nat
    BY <2>1, DivMod
  <2> QED  BY <2>2, <2>3 DEF EncodedCounter
<1>3. q1 \in Nat /\ r1 \in 0 .. Low - 1 /\ q = q1 * Low + r1
  BY <1>1, DivMod
<1> HIDE DEF q1, r1, q, new
<1>2. new \div Low = q
  <2>1. new = q * Low + 0 /\ 0 \in 0 .. Low - 1
    BY <1>1, LowAssumption, SMT
  <2>2. (q * Low + 0) \div Low = q
    BY <1>1, <2>1, ModUnique
  <2> QED  BY <2>1, <2>2
<1>4. new \div (Low * Low) = q1
  <2>1. Low * Low \in Nat \ {0} /\ r1 * Low \in 0 .. (Low * Low) - 1
    BY <1>3, LowAssumption, SMT
  <2>2. new = q1 * (Low * Low) + r1 * Low
    BY <1>1, <1>3, LowAssumption, SMT
  <2> QED  BY <1>3, <2>1, <2>2, DivUnique
<1>5. p.body = q1 /\ p.low = r1
  BY <1>2, <1>4 DEF EncodedPacket, new, r1
<1>6. ResyncCounter(p) = new
  BY <1>1, <1>3, <1>5 DEF ResyncCounter
<1> QED  BY <1>3, <1>5, <1>6 DEF new

(* hmac433_encode makes packets whose fields agree with their HMAC.        *)
LEMMA EncodedPacketStamped ==
  ASSUME NEW resync \in BOOLEAN, NEW c \in Nat, NEW cmd, ~resync => cmd \in Commands
  PROVE  LET p == EncodedPacket(resync, cmd, c)
         IN /\ p \in Packet
            /\ Stamped(p)
            /\ p.resync = resync
            /\ p.mac.ctr = EncodedCounter(resync, c)
<1> DEFINE new == EncodedCounter(resync, c)
           p   == EncodedPacket(resync, cmd, c)
<1>1. new \in Nat
  BY EncodedCounterAdvances
<1>2. p.resync = resync /\ p.mac = [ctr |-> new, body |-> p.body]
  BY DEF EncodedPacket
<1>3. ASSUME resync
      PROVE  p.body \in Nat /\ p.low \in 0 .. Low - 1 /\ ResyncCounter(p) = new
  BY <1>3, ResyncRoundTrip
<1>4. ASSUME ~resync
      PROVE  p.body \in Commands /\ p.low \in 0 .. Low - 1 /\ p.low = new % Low
  <2>1. p.body = cmd /\ p.low = new % Low
    BY <1>4 DEF EncodedPacket
  <2>2. new % Low \in 0 .. Low - 1
    BY <1>1, DivMod
  <2> QED  BY <1>4, <2>1, <2>2
<1>5. p = [resync |-> p.resync, low |-> p.low, body |-> p.body, mac |-> p.mac]
  BY DEF EncodedPacket
<1> HIDE DEF p, new
<1>6. p.body \in Body /\ p.low \in 0 .. Low - 1
  BY <1>3, <1>4 DEF Body
<1>7. p.mac \in Mac /\ p.mac.ctr = new /\ p.mac.body = p.body
  BY <1>1, <1>2, <1>6 DEF Mac
<1>8. p \in Packet
  BY <1>2, <1>5, <1>6, <1>7 DEF Packet
<1>9. Stamped(p)
  BY <1>2, <1>3, <1>4, <1>7 DEF Stamped
<1> QED  BY <1>2, <1>7, <1>8, <1>9 DEF p, new

(* For a packet as it was encoded, hmac433_authenticate tests exactly that *)
(* its counter is in the receiver's window: not behind, and less than one  *)
(* turn of the counter byte ahead unless the packet is a resync.           *)
THEOREM AuthenticatesExact ==
  ASSUME NEW p \in Packet, Stamped(p), NEW c \in Nat
  PROVE  /\ Authenticates(p, c) <=> p.mac.ctr >= c /\ (p.resync \/ p.mac.ctr < c + Low)
         /\ Authenticates(p, c) => NewCounter(p, c) = p.mac.ctr
<1>1. /\ p.mac = [ctr |-> p.mac.ctr, body |-> p.body]
      /\ p.mac.ctr \in Nat
  BY DEF Stamped, Mac
<1>2. Authenticates(p, c) <=> NewCounter(p, c) = p.mac.ctr /\ (p.resync => NewCounter(p, c) >= c)
  BY <1>1 DEF Authenticates
<1>3. CASE p.resync
  BY <1>1, <1>2, <1>3 DEF Stamped, NewCounter
<1>4. CASE ~p.resync
  <2>1. NewCounter(p, c) = OrdinaryCounter(p.mac.ctr % Low, c)
    BY <1>4 DEF Stamped, NewCounter
  <2>2. OrdinaryCounter(p.mac.ctr % Low, c) = p.mac.ctr <=> c <= p.mac.ctr /\ p.mac.ctr < c + Low
    BY <1>1, OrdinaryCounterExact
  <2> QED  BY <1>1, <1>2, <1>4, <2>1, <2>2
<1> QED  BY <1>3, <1>4

(* A packet whose hmac field was damaged is refused. *)
LEMMA DamagedRefused ==
  ASSUME NEW p \in Packet, Stamped(p), NEW c \in Nat
  PROVE  Damaged(p) \in Packet /\ ~Authenticates(Damaged(p), c)
<1> DEFINE d == Damaged(p)
<1>1. /\ d \in Packet
      /\ d.mac = NoMac /\ d.body = p.body /\ d.resync = p.resync /\ d.low = p.low
  BY DEF Damaged, Packet
<1>2. NewCounter(d, c) \in Nat
  <2>1. CASE p.resync
    <3>1. ResyncCounter(d) = ResyncCounter(p)
      BY <1>1 DEF ResyncCounter
    <3> QED  BY <1>1, <2>1, <3>1 DEF NewCounter, Stamped, Mac
  <2>2. CASE ~p.resync
    <3>1. d.low \in 0 .. Low - 1
      BY <1>1 DEF Packet
    <3>2. OrdinaryCounter(d.low, c) \in Nat
      BY <3>1, OrdinaryCounterBounds
    <3> QED  BY <1>1, <2>2, <3>2 DEF NewCounter
  <2> QED  BY <2>1, <2>2
<1>3. [ctr |-> NewCounter(d, c), body |-> d.body] \in Mac
  BY <1>1, <1>2 DEF Mac, Packet
<1> QED  BY <1>1, <1>3, NoMacAssumption DEF Authenticates

-----------------------------------------------------------------------------
(* The inductive invariant *)

(* Init establishes the inductive invariant. *)
LEMMA InitIInv == Init => IInv
<1> SUFFICES ASSUME Init PROVE IInv
  OBVIOUS
<1> USE DEF Init, TxInit, RxInit
<1>1. TxTypeOK
  BY TxBoundsAssumption DEF TxTypeOK, Requests
<1>2. RxTypeOK
  BY NvramAssumption DEF RxTypeOK, RxPcs
<1>3. SentInv
  BY DEF SentInv
<1>4. NvramInv
  BY DEF NvramInv, Saving, Formatting
<1>5. CurrentInv
  BY DEF CurrentInv, Saving, Formatting
<1>6. FormattedInv
  BY NvramAssumption, GarbageAssumption DEF FormattedInv, Formatted, Saving, Formatting
<1> QED  BY <1>1, <1>2, <1>3, <1>4, <1>5, <1>6 DEF IInv, TypeOK

-----------------------------------------------------------------------------
(* The senders *)

(* The receiver's part of the invariant mentions air only as a set that    *)
(* holds the packet in hand, and no sender takes a packet back.            *)
LEMMA ReceiverPartStable ==
  ASSUME IInv, UNCHANGED rxVars, air \subseteq air'
  PROVE  RxTypeOK' /\ NvramInv' /\ CurrentInv' /\ FormattedInv'
<1> USE DEF rxVars, IInv, TypeOK
<1>1. RxTypeOK'
  BY DEF RxTypeOK
<1>2. NvramInv'
  BY DEF NvramInv, Formatted, ExecutedBelow, OtherSlot
<1>3. CurrentInv'
  BY DEF CurrentInv, ExecutedBelow
<1>4. FormattedInv'
  BY DEF FormattedInv, Formatted
<1> QED  BY <1>1, <1>2, <1>3, <1>4

LEMMA SenderStepIInv ==
  ASSUME IInv, SenderStep
  PROVE  IInv'
<1> USE DEF IInv, TypeOK
<1>1. PICK s \in Senders :
        \/ \E request \in Requests : TxLoad(s, request)
        \/ TxAdvance(s)
        \/ TxEncode(s)
        \/ TxSend(s)
        \/ TxExit(s)
  BY DEF SenderStep, TxNext
<1>2. TxTypeOK /\ SentInv
  OBVIOUS
<1>3. CASE \E request \in Requests : TxLoad(s, request)
  <2>1. TxTypeOK'
    BY <1>2, <1>3 DEF TxLoad, TxTypeOK
  <2>2. SentInv'
    BY <1>2, <1>3 DEF TxLoad, TxTypeOK, SentInv
  <2>3. air \subseteq air'
    BY <1>3 DEF TxLoad
  <2> QED  BY <2>1, <2>2, <2>3, ReceiverPartStable DEF SenderStep
<1>4. CASE TxAdvance(s)
  <2>1. TxTypeOK'
    <3>1. txCounter[s] + Low * Low \in Nat
      BY <1>2, LowAssumption, SMT DEF TxTypeOK
    <3> QED  BY <1>2, <1>4, <3>1 DEF TxAdvance, TxTypeOK
  <2>2. SentInv'
    BY <1>2, <1>4 DEF TxAdvance, TxTypeOK, SentInv
  <2>3. air \subseteq air'
    BY <1>4 DEF TxAdvance
  <2> QED  BY <2>1, <2>2, <2>3, ReceiverPartStable DEF SenderStep
<1>5. CASE TxEncode(s)
  <2> DEFINE resync == txRequest[s] \notin Commands
             new    == EncodedCounter(resync, txCounter[s])
             packet == EncodedPacket(resync, txRequest[s], txCounter[s])
  <2>1. new \in Nat
    BY <1>2, EncodedCounterAdvances DEF TxTypeOK
  <2>2. packet \in Packet /\ Stamped(packet)
    BY <1>2, EncodedPacketStamped DEF TxTypeOK
  <2>3. /\ txPacket' = [txPacket EXCEPT ![s] = packet]
        /\ txCounter' = [txCounter EXCEPT ![s] = new]
        /\ fileCounter' \in {new, fileCounter}
        /\ \E next \in {"send", "idle"} : txPc' = [txPc EXCEPT ![s] = next]
        /\ UNCHANGED <<txRequest, air>>
    BY <1>5 DEF TxEncode
  <2> HIDE DEF resync, new, packet
  <2>4. TxTypeOK'
    BY <1>2, <2>1, <2>2, <2>3 DEF TxTypeOK
  <2>5. SentInv'
    BY <1>2, <2>2, <2>3, NoPacketAssumption DEF TxTypeOK, SentInv
  <2> QED  BY <2>3, <2>4, <2>5, ReceiverPartStable DEF SenderStep
<1>6. CASE TxSend(s)
  <2>1. txPacket[s] \in Packet /\ Stamped(txPacket[s])
    BY <1>2, <1>6 DEF TxSend, TxTypeOK, SentInv
  <2>2. TxTypeOK'
    BY <1>2, <1>6, <2>1 DEF TxSend, TxGone, TxTypeOK, Requests
  <2>3. SentInv'
    BY <1>2, <1>6, <2>1 DEF TxSend, TxGone, TxTypeOK, SentInv
  <2>4. air \subseteq air'
    BY <1>6 DEF TxSend
  <2> QED  BY <2>2, <2>3, <2>4, ReceiverPartStable DEF SenderStep
<1>7. CASE TxExit(s)
  <2>1. TxTypeOK'
    BY <1>2, <1>7 DEF TxExit, TxGone, TxTypeOK, Requests
  <2>2. SentInv'
    BY <1>2, <1>7 DEF TxExit, TxGone, TxTypeOK, SentInv
  <2>3. air \subseteq air'
    BY <1>7 DEF TxExit
  <2> QED  BY <2>1, <2>2, <2>3, ReceiverPartStable DEF SenderStep
<1> QED  BY <1>1, <1>3, <1>4, <1>5, <1>6, <1>7

-----------------------------------------------------------------------------
(* The receiver by itself *)

(* The senders' part of the invariant does not depend on the receiver. *)
LEMMA SenderPartStable ==
  ASSUME IInv, UNCHANGED txVars
  PROVE  TxTypeOK' /\ SentInv'
BY DEF IInv, TypeOK, txVars, TxTypeOK, SentInv

LEMMA BootIInv ==
  ASSUME IInv, UNCHANGED txVars,
         RxLoad \/ RxReformat \/ (\E i \in {1, 2} : RxFormatCheck(i)) \/ RxFormatState \/ RxVerify
  PROVE  IInv'
<1> USE DEF nvVars, ramVars, Saving, Formatting, RxPcs, Formatted
<1>1. RxTypeOK /\ NvramInv /\ CurrentInv /\ FormattedInv
  BY DEF IInv, TypeOK
<1>2. CASE RxLoad
  <2>1. RxTypeOK'
    BY <1>1, <1>2, GarbageAssumption DEF RxLoad, RxTypeOK
  <2>2. NvramInv'
    BY <1>1, <1>2 DEF RxLoad, RxTypeOK, NvramInv, ExecutedBelow
  <2>3. CurrentInv'
    BY <1>1, <1>2 DEF RxLoad, CurrentInv
  <2>4. FormattedInv'
    BY <1>1, <1>2 DEF RxLoad, FormattedInv
  <2> QED  BY <2>1, <2>2, <2>3, <2>4, SenderPartStable DEF IInv, TypeOK
<1>3. CASE RxReformat
  <2>1. RxTypeOK'
    BY <1>1, <1>3 DEF RxReformat, RxTypeOK
  <2>2. NvramInv'
    BY <1>1, <1>3 DEF RxReformat, NvramInv, ExecutedBelow
  <2>3. CurrentInv'
    BY <1>1, <1>3 DEF RxReformat, CurrentInv
  <2>4. FormattedInv'
    BY <1>1, <1>3 DEF RxReformat, FormattedInv
  <2> QED  BY <2>1, <2>2, <2>3, <2>4, SenderPartStable DEF IInv, TypeOK
<1>4. CASE \E i \in {1, 2} : RxFormatCheck(i)
  <2>1. RxTypeOK'
    BY <1>1, <1>4 DEF RxFormatCheck, RxTypeOK
  <2>2. NvramInv'
    BY <1>1, <1>4 DEF RxFormatCheck, NvramInv
  <2>3. CurrentInv'
    BY <1>1, <1>4 DEF RxFormatCheck, CurrentInv
  <2>4. FormattedInv'
    BY <1>1, <1>4 DEF RxFormatCheck, FormattedInv
  <2> QED  BY <2>1, <2>2, <2>3, <2>4, SenderPartStable DEF IInv, TypeOK
<1>5. CASE RxFormatState
  <2>1. RxTypeOK'
    BY <1>1, <1>5 DEF RxFormatState, RxTypeOK
  <2>2. NvramInv'
    BY <1>1, <1>5 DEF RxFormatState, NvramInv
  <2>3. CurrentInv'
    BY <1>1, <1>5 DEF RxFormatState, CurrentInv
  <2>4. FormattedInv'
    BY <1>1, <1>5 DEF RxFormatState, FormattedInv
  <2> QED  BY <2>1, <2>2, <2>3, <2>4, SenderPartStable DEF IInv, TypeOK
<1>6. CASE RxVerify
  <2>1. RxTypeOK'
    BY <1>1, <1>6 DEF RxVerify, RxTypeOK
  <2>2. NvramInv'
    BY <1>1, <1>6 DEF RxVerify, NvramInv
  <2>3. CurrentInv'
    BY <1>1, <1>6 DEF RxVerify, NvramInv, CurrentInv
  <2>4. FormattedInv'
    BY <1>1, <1>6 DEF RxVerify, FormattedInv
  <2> QED  BY <2>1, <2>2, <2>3, <2>4, SenderPartStable DEF IInv, TypeOK
<1> QED  BY <1>2, <1>3, <1>4, <1>5, <1>6

LEMMA StampsAreNat ==
  ASSUME RxTypeOK
  PROVE  \A k \in DOMAIN executed : executed[k].stamp \in Nat
<1> DEFINE Executed == [stamp : Nat, cmd : Body]
<1>1. executed \in Seq(Executed)
  BY DEF RxTypeOK
<1>2. \A k \in DOMAIN executed : executed[k] \in Executed
  <2> HIDE DEF Executed
  <2> QED  BY <1>1
<1> QED  BY <1>2

LEMMA SaveIInv ==
  ASSUME IInv, UNCHANGED txVars, RxSave \/ RxSaveRest \/ RxSaveState
  PROVE  IInv'
<1> USE DEF nvVars, ramVars, Saving, Formatting, RxPcs, Formatted, OtherSlot
<1>1. RxTypeOK /\ NvramInv /\ CurrentInv /\ FormattedInv
  BY DEF IInv, TypeOK
<1>2. air' = air
  BY DEF txVars
<1>3. nvState \in {0, 1} /\ OtherSlot \in {0, 1} /\ OtherSlot # nvState
  BY <1>1 DEF RxTypeOK, NvramInv, RxSave, RxSaveRest, RxSaveState
<1>4. CASE RxSave \/ RxSaveRest
  <2> DEFINE v == slot'[OtherSlot]
  <2>1. /\ slot' = [slot EXCEPT ![OtherSlot] = v]
        /\ v \in {Garbage, rxCounter}
        /\ slot'[nvState] = slot[nvState]
        /\ rxPc \in Saving /\ rxPc' \in {"saveRest", "saveState"}
        /\ rxPc' = "saveState" => v = rxCounter
        /\ UNCHANGED <<checks, nvState, ramVars, crashes, executed>>
    BY <1>1, <1>3, <1>4 DEF RxTypeOK, RxSave, RxSaveRest
  <2>2. RxTypeOK'
    BY <1>1, <1>3, <2>1 DEF RxTypeOK
  <2>3. NvramInv'
    BY <1>1, <2>1 DEF NvramInv, ExecutedBelow
  <2>4. CurrentInv'
    BY <1>1, <1>2, <2>1 DEF CurrentInv
  <2>5. FormattedInv'
    BY <1>1, <2>1 DEF FormattedInv
  <2> QED  BY <2>2, <2>3, <2>4, <2>5, SenderPartStable DEF IInv, TypeOK
<1>5. CASE RxSaveState
  <2>1. /\ nvState' = OtherSlot
        /\ slot'[nvState'] = rxCounter
        /\ rxCounter \in Nat
        /\ rxPc = "saveState"
        /\ rxPc' = IF current = NoPacket THEN "loop" ELSE "dispatch"
        /\ UNCHANGED <<checks, slot, ramVars, crashes, executed>>
    BY <1>1, <1>5 DEF RxTypeOK, NvramInv, RxSaveState
  <2>2. current # NoPacket => ExecutedBelow(rxCounter - 1) /\ ExecutedBelow(rxCounter)
    <3>1. SUFFICES ASSUME current # NoPacket, executed # <<>>
                   PROVE  ExecutedBelow(rxCounter - 1) /\ ExecutedBelow(rxCounter)
      BY DEF ExecutedBelow
    <3>2. slot[nvState] \in Nat /\ slot[nvState] < rxCounter /\ ExecutedBelow(slot[nvState])
      BY <1>1, <1>3, <2>1, <3>1 DEF RxTypeOK, NvramInv, CurrentInv
    <3>3. \A k \in DOMAIN executed : executed[k].stamp \in Nat
      BY <1>1, StampsAreNat
    <3> QED  BY <2>1, <3>2, <3>3 DEF ExecutedBelow
  <2>3. RxTypeOK'
    BY <1>1, <1>3, <2>1 DEF RxTypeOK
  <2>4. NvramInv'
    BY <1>1, <1>3, <2>1, <2>2, GarbageAssumption DEF NvramInv, CurrentInv, ExecutedBelow
  <2>5. CurrentInv'
    BY <1>1, <1>2, <2>1, <2>2 DEF CurrentInv, ExecutedBelow
  <2>6. FormattedInv'
    BY <1>1, <1>3, <2>1, GarbageAssumption DEF FormattedInv
  <2> QED  BY <2>3, <2>4, <2>5, <2>6, SenderPartStable DEF IInv, TypeOK
<1> QED  BY <1>4, <1>5

-----------------------------------------------------------------------------
(* The receiver and the network *)

LEMMA DispatchIInv ==
  ASSUME IInv, UNCHANGED txVars, RxDispatch
  PROVE  IInv'
<1> USE DEF nvVars, Saving, Formatting, RxPcs, Formatted
<1>1. RxTypeOK /\ NvramInv /\ CurrentInv /\ FormattedInv /\ SentInv
  BY DEF IInv, TypeOK
<1>2. /\ current \in air /\ current \in Packet /\ Stamped(current)
      /\ slot[nvState] = rxCounter
      /\ rxCounter \in Nat /\ rxCounter - 1 \in Nat
      /\ ExecutedBelow(rxCounter - 1)
  BY <1>1, NoPacketAssumption DEF RxDispatch, CurrentInv, SentInv, RxTypeOK, Stamped, Mac
<1> DEFINE item == [stamp |-> rxCounter - 1, cmd |-> current.body]
<1>3. item \in [stamp : Nat, cmd : Body]
  BY <1>2 DEF Packet
<1>4. /\ executed' \in {executed, Append(executed, item)}
      /\ rxPc = "dispatch" /\ rxPc' = "loop" /\ current' = NoPacket
      /\ UNCHANGED <<nvVars, rxCounter, previous, crashes>>
  BY DEF RxDispatch
<1> HIDE DEF item
<1>5. RxTypeOK'
  <2>1. executed' \in Seq([stamp : Nat, cmd : Body])
    <3>1. executed \in Seq([stamp : Nat, cmd : Body])
      BY <1>1 DEF RxTypeOK
    <3>2. Append(executed, item) \in Seq([stamp : Nat, cmd : Body])
      BY <1>3, <3>1, AppendProperties
    <3> QED  BY <1>4, <3>1, <3>2
  <2> QED  BY <1>1, <1>4, <2>1 DEF RxTypeOK
<1>6. ExecutedBelow(rxCounter)'
  <2>1. \A k \in DOMAIN executed : executed[k].stamp \in Nat
    BY <1>1, StampsAreNat
  <2>2. ExecutedBelow(rxCounter)
    BY <1>2, <2>1 DEF ExecutedBelow
  <2>3. CASE executed' = executed
    BY <1>4, <2>2, <2>3 DEF ExecutedBelow
  <2>4. CASE executed' = Append(executed, item)
    <3>1. item.stamp < rxCounter
      BY <1>2 DEF item
    <3>2. executed \in Seq([stamp : Nat, cmd : Body])
      BY <1>1 DEF RxTypeOK
    <3>3. \A k \in DOMAIN executed' : executed'[k] = item \/ (k \in DOMAIN executed /\ executed'[k] = executed[k])
      BY <1>3, <2>4, <3>2, AppendProperties
    <3> QED  BY <1>4, <2>2, <3>1, <3>3 DEF ExecutedBelow
  <2> QED  BY <1>4, <2>3, <2>4
<1>7. NvramInv'
  BY <1>1, <1>2, <1>4, <1>6, GarbageAssumption DEF NvramInv, ExecutedBelow
<1>8. CurrentInv'
  BY <1>1, <1>4 DEF CurrentInv
<1>9. FormattedInv'
  BY <1>1, <1>4 DEF FormattedInv
<1> QED  BY <1>5, <1>7, <1>8, <1>9, SenderPartStable DEF IInv, TypeOK

(* What mail_receive_messages does with anything that arrives.             *)
LEMMA ReceiveIInv ==
  ASSUME IInv, UNCHANGED txVars, NEW p \in air, RxReceive(p) \/ RxReceive(Damaged(p))
  PROVE  IInv'
<1> USE DEF nvVars, Saving, Formatting, RxPcs, Formatted
<1>1. TxTypeOK /\ RxTypeOK /\ NvramInv /\ CurrentInv /\ FormattedInv /\ SentInv
  BY DEF IInv, TypeOK
<1>2. air' = air
  BY DEF txVars
<1>3. p \in Packet /\ Stamped(p) /\ rxCounter \in Nat
  BY <1>1 DEF TxTypeOK, RxTypeOK, SentInv
<1>4. Damaged(p) \in Packet /\ ~Authenticates(Damaged(p), rxCounter)
  BY <1>3, DamagedRefused
<1>5. PICK d \in {p, Damaged(p)} : RxRebroadcast(d) \/ RxReject(d) \/ RxAccept(d)
  BY DEF RxReceive
<1>6. CASE RxRebroadcast(d)
  <2>1. UNCHANGED rxVars /\ air \subseteq air'
    BY <1>2, <1>6 DEF RxRebroadcast
  <2> QED  BY <2>1, SenderPartStable, ReceiverPartStable DEF IInv, TypeOK
<1>7. CASE RxReject(d)
  <2>1. RxTypeOK'
    BY <1>1, <1>3, <1>4, <1>7 DEF RxReject, RxTypeOK
  <2>2. NvramInv'
    BY <1>1, <1>7 DEF RxReject, NvramInv, ExecutedBelow
  <2>3. CurrentInv'
    BY <1>1, <1>7 DEF RxReject, CurrentInv
  <2>4. FormattedInv'
    BY <1>1, <1>7 DEF RxReject, FormattedInv
  <2> QED  BY <2>1, <2>2, <2>3, <2>4, SenderPartStable DEF IInv, TypeOK
<1>8. CASE RxAccept(d)
  <2>1. d = p
    BY <1>4, <1>8 DEF RxAccept
  <2>2. /\ NewCounter(p, rxCounter) = p.mac.ctr
        /\ p.mac.ctr \in Nat /\ p.mac.ctr >= rxCounter
    BY <1>3, <1>8, <2>1, AuthenticatesExact DEF RxAccept, Stamped, Mac
  <2>3. /\ rxPc = "loop" /\ rxPc' = "save"
        /\ current' = p /\ previous' = p
        /\ rxCounter' = p.mac.ctr + 1
        /\ UNCHANGED <<nvVars, crashes, executed>>
    BY <1>8, <2>1, <2>2 DEF RxAccept
  <2>4. RxTypeOK'
    BY <1>1, <1>3, <2>2, <2>3 DEF RxTypeOK
  <2>5. NvramInv'
    BY <1>1, <2>3 DEF NvramInv, ExecutedBelow
  <2>6. CurrentInv'
    BY <1>1, <1>2, <1>3, <2>2, <2>3, NoPacketAssumption DEF NvramInv, CurrentInv
  <2>7. FormattedInv'
    BY <1>1, <1>3, <2>3, NoPacketAssumption DEF FormattedInv
  <2> QED  BY <2>4, <2>5, <2>6, <2>7, SenderPartStable DEF IInv, TypeOK
<1> QED  BY <1>5, <1>6, <1>7, <1>8

(* A power failure leaves the NVRAM as it is, whatever was being written.  *)
LEMMA BlackoutIInv ==
  ASSUME IInv, Blackout
  PROVE  IInv'
<1> USE DEF nvVars, Saving, Formatting, RxPcs, Formatted
<1>1. RxTypeOK /\ NvramInv /\ CurrentInv /\ FormattedInv
  BY DEF IInv, TypeOK
<1>2. RxTypeOK'
  BY <1>1 DEF Blackout, PowerFail, RxTypeOK
<1>3. NvramInv'
  BY <1>1 DEF Blackout, PowerFail, NvramInv, ExecutedBelow
<1>4. CurrentInv'
  BY <1>1 DEF Blackout, PowerFail, CurrentInv
<1>5. FormattedInv'
  BY <1>1 DEF Blackout, PowerFail, FormattedInv
<1> QED  BY <1>2, <1>3, <1>4, <1>5, SenderPartStable DEF IInv, TypeOK, Blackout

(* The invariant holds in every reachable state: the senders and the       *)
(* receiver keep what each relies on, through every power failure.         *)
THEOREM Invariance == Spec => []IInv
<1>1. IInv /\ [Next]_vars => IInv'
  <2> SUFFICES ASSUME IInv, [Next]_vars PROVE IInv'
    OBVIOUS
  <2>1. CASE SenderStep
    BY <2>1, SenderStepIInv
  <2>2. CASE ReceiverStep
    BY <2>2, BootIInv, SaveIInv, DispatchIInv DEF ReceiverStep, RxInternal
  <2>3. CASE Deliver
    BY <2>3, ReceiveIInv DEF Deliver
  <2>4. CASE Blackout
    BY <2>4, BlackoutIInv
  <2>5. CASE UNCHANGED vars
    <3>1. UNCHANGED txVars /\ UNCHANGED rxVars /\ air \subseteq air'
      BY <2>5 DEF vars, txVars
    <3> QED  BY <3>1, SenderPartStable, ReceiverPartStable DEF IInv, TypeOK
  <2> QED  BY <2>1, <2>2, <2>3, <2>4, <2>5 DEF Next
<1> QED  BY InitIInv, <1>1, PTL DEF Spec

-----------------------------------------------------------------------------
(* The properties *)

(* Every variable keeps its type. *)
THEOREM TypeCorrect == Spec => []TypeOK
<1>1. IInv => TypeOK
  BY DEF IInv
<1> QED  BY Invariance, <1>1, PTL

(* mail.c saves the counter before it dispatches: the NVRAM is always      *)
(* ahead of every command carried out, so no reboot can repeat one.        *)
THEOREM NothingRepeatedAfterReboot == Spec => []DurableAhead
<1>1. IInv => DurableAhead
  BY DEF IInv, NvramInv, ExecutedBelow, DurableAhead
<1> QED  BY Invariance, <1>1, PTL

(* The clock accepts a packet that was sent iff its counter is in the      *)
(* window of hmac433_authenticate, whatever the clock's counter is.        *)
THEOREM WindowIsExact == Spec => []WindowAcceptance
<1>1. IInv => WindowAcceptance
  <2> SUFFICES ASSUME IInv, NEW p \in air
               PROVE  Authenticates(p, rxCounter) <=>
                        /\ p.mac.ctr >= rxCounter
                        /\ p.resync \/ p.mac.ctr < rxCounter + Low
    BY DEF WindowAcceptance
  <2>1. p \in Packet /\ Stamped(p) /\ rxCounter \in Nat
    BY DEF IInv, TypeOK, TxTypeOK, RxTypeOK, SentInv
  <2> QED  BY <2>1, AuthenticatesExact
<1> QED  BY Invariance, <1>1, PTL

(* With a formatted NVRAM, power failures never leave the clock with a     *)
(* half-written counter in use.                                            *)
THEOREM SlotInUseIsWhole ==
  ASSUME FreshNvram = FALSE
  PROVE  Spec => []ValidSlotWhole
<1>1. IInv => ValidSlotWhole
  BY DEF IInv, FormattedInv, ValidSlotWhole
<1> QED  BY Invariance, <1>1, PTL

(* libnc_encode never fails its own test of the packet it has just made.   *)
THEOREM EncodedPacketsPassSelfTest == Spec => []SelfTestPasses
<1>1. IInv => SelfTestPasses
  <2> SUFFICES ASSUME IInv, NEW s \in Senders,
                      NEW resync, resync = (txRequest[s] \notin Commands)
               PROVE  SelfTest(EncodedPacket(resync, txRequest[s], txCounter[s]),
                               EncodedCounter(resync, txCounter[s]))
    BY DEF SelfTestPasses
  <2> DEFINE p   == EncodedPacket(resync, txRequest[s], txCounter[s])
             new == EncodedCounter(resync, txCounter[s])
  <2>1. txCounter[s] \in Nat
    BY DEF IInv, TypeOK, TxTypeOK
  <2>2. new \in Nat /\ new > txCounter[s]
    BY <2>1, EncodedCounterAdvances
  <2>3. p \in Packet /\ Stamped(p) /\ p.mac.ctr = new
    BY <2>1, EncodedPacketStamped
  <2> HIDE DEF p, new
  <2>4. new - 1 \in Nat /\ new < (new - 1) + Low
    BY <2>1, <2>2, LowAssumption
  <2>5. Authenticates(p, new - 1)
    BY <2>2, <2>3, <2>4, AuthenticatesExact
  <2> QED  BY <2>5 DEF SelfTest, p, new
<1> QED  BY Invariance, <1>1, PTL

(* Once saved, the counter never goes back, across power failures too.     *)
THEOREM SavedCounterNeverGoesBack ==
  ASSUME FreshNvram = FALSE
  PROVE  Spec => DurableAdvances
<1> DEFINE A == slot[nvState] # Garbage => slot'[nvState'] # Garbage /\ slot'[nvState'] >= slot[nvState]
<1>1. IInv /\ [Next]_vars => A
  <2> SUFFICES ASSUME IInv, [Next]_vars PROVE A
    OBVIOUS
  <2>1. /\ RxTypeOK /\ NvramInv /\ CurrentInv /\ nvState \in {0, 1}
        /\ slot[nvState] \in Nat
        /\ rxPc \notin Formatting \cup {"halted"}
        /\ rxPc \in Saving => current # NoPacket
    BY DEF IInv, TypeOK, FormattedInv, Formatted, RxTypeOK
  <2>2. CASE UNCHANGED nvVars
    BY <2>1, <2>2, GarbageAssumption DEF nvVars
  <2>3. CASE RxSave \/ RxSaveRest
    <3>1. nvState' = nvState /\ slot'[nvState] = slot[nvState]
      BY <2>1, <2>3 DEF RxSave, RxSaveRest, OtherSlot, RxTypeOK
    <3> QED  BY <2>1, <3>1, GarbageAssumption
  <2>4. CASE RxSaveState
    <3>1. slot'[nvState'] = rxCounter /\ rxCounter \in Nat /\ slot[nvState] < rxCounter
      BY <2>1, <2>4, GarbageAssumption DEF RxSaveState, NvramInv, CurrentInv, RxTypeOK, Saving
    <3> QED  BY <2>1, <3>1, GarbageAssumption
  <2>5. ASSUME ~UNCHANGED nvVars PROVE RxSave \/ RxSaveRest \/ RxSaveState
    BY <2>1, <2>5 DEF Next, vars, rxVars, nvVars, SenderStep, Formatting, ReceiverStep, RxInternal, RxLoad,
         RxReformat, RxFormatCheck, RxFormatState, RxVerify, RxDispatch,
         Deliver, RxReceive, RxRebroadcast, RxReject, RxAccept, Blackout, PowerFail
  <2> QED  BY <2>2, <2>3, <2>4, <2>5
<1> QED  BY Invariance, <1>1, PTL DEF Spec, DurableAdvances

(* The quick reject of mail.c:177 drops only what would be refused.        *)
THEOREM QuickRejectSound == Spec => []RebroadcastRejectSound
<1>1. Init => RebroadcastRejectSound
  BY DEF Init, RxInit, RebroadcastRejectSound
<1>2. IInv /\ RebroadcastRejectSound /\ [Next]_vars => RebroadcastRejectSound'
  <2> SUFFICES ASSUME IInv, RebroadcastRejectSound, [Next]_vars PROVE RebroadcastRejectSound'
    OBVIOUS
  <2> USE DEF RebroadcastRejectSound
  <2>1. RxTypeOK /\ CurrentInv /\ SentInv
    BY DEF IInv, TypeOK
  <2>2. CASE UNCHANGED <<rxPc, previous, rxCounter>>
    BY <2>2
  <2>3. CASE rxPc' # "loop"
    BY <2>3
  <2>4. CASE RxLoad
    BY <2>1, <2>4 DEF RxLoad, CurrentInv
  <2>5. CASE RxSaveState
    BY <2>1, <2>5 DEF RxSaveState, CurrentInv, Saving, ramVars
  <2>6. CASE RxDispatch
    <3>1. /\ current \in Packet /\ Stamped(current) /\ current.mac.ctr < rxCounter
          /\ rxCounter \in Nat /\ previous' = current /\ rxCounter' = rxCounter
      BY <2>1, <2>6, NoPacketAssumption DEF RxDispatch, CurrentInv, SentInv, RxTypeOK, Stamped, Mac
    <3>2. ~Authenticates(current, rxCounter)
      <4>1. current.mac.ctr \in Nat
        BY <3>1 DEF Stamped, Mac
      <4> QED  BY <3>1, <4>1, AuthenticatesExact
    <3> QED  BY <3>1, <3>2
  <2>7. CASE \E p \in air : RxReject(p) \/ RxReject(Damaged(p))
    BY <2>7 DEF RxReject
  <2>8. ASSUME rxPc' = "loop", ~UNCHANGED <<rxPc, previous, rxCounter>>
        PROVE  RxLoad \/ RxSaveState \/ RxDispatch \/ \E p \in air : RxReject(p) \/ RxReject(Damaged(p))
    BY <2>8 DEF Next, vars, rxVars, ramVars, SenderStep, ReceiverStep, RxInternal,
         RxReformat, RxFormatCheck, RxFormatState, RxVerify, RxSave, RxSaveRest,
         Deliver, RxReceive, RxRebroadcast, RxAccept, Blackout, PowerFail
  <2> QED  BY <2>2, <2>3, <2>4, <2>5, <2>6, <2>7, <2>8
<1> QED  BY <1>1, <1>2, Invariance, PTL DEF Spec

-----------------------------------------------------------------------------
(* One sender at a time *)

(* Nobody but the sender at work writes the file: its counter is the one   *)
(* in the file, no packet is ahead of it, and a packet about to be sent is *)
(* ahead of all that were.                                                 *)
AloneInv ==
  /\ \A p \in air : p.mac.ctr <= fileCounter
  /\ \A s \in Senders : txPc[s] \in {"advance", "encode"} => txCounter[s] = fileCounter
  /\ \A s \in Senders : txPc[s] = "send" =>
       txPacket[s].mac.ctr = fileCounter /\ \A p \in air : p.mac.ctr < fileCounter

LEMMA StampsInAir ==
  ASSUME IInv
  PROVE  /\ fileCounter \in Nat
         /\ \A p \in air : p \in Packet /\ Stamped(p) /\ p.mac.ctr \in Nat
         /\ \A s \in Senders : txCounter[s] \in Nat
<1>1. \A p \in air : p \in Packet /\ Stamped(p)
  BY DEF IInv, TypeOK, TxTypeOK, SentInv
<1>2. \A p \in air : p.mac.ctr \in Nat
  BY <1>1 DEF Stamped, Mac
<1> QED  BY <1>1, <1>2 DEF IInv, TypeOK, TxTypeOK

(* What one step of the sender does to the file and the air.               *)
LEMMA AloneStep ==
  ASSUME NEW only, Senders = {only}, IInv, AloneInv, TxNext
  PROVE  AloneInv' /\ fileCounter' \in Nat /\ fileCounter' >= fileCounter
<1>1. /\ fileCounter \in Nat /\ txCounter[only] \in Nat
      /\ \A p \in air : p.mac.ctr \in Nat
  BY StampsInAir
<1>2. TxTypeOK
  BY DEF IInv, TypeOK
<1>3. CASE \E request \in Requests : TxLoad(only, request)
  BY <1>1, <1>2, <1>3 DEF TxLoad, TxTypeOK, AloneInv
<1>4. CASE TxAdvance(only)
  <2>1. txCounter[only] + Low * Low \in Nat /\ txCounter[only] + Low * Low >= txCounter[only]
    BY <1>1, LowAssumption, SMT
  <2>2. /\ txPc[only] = "advance" /\ txPc' = [txPc EXCEPT ![only] = "encode"]
        /\ txCounter' = [txCounter EXCEPT ![only] = fileCounter']
        /\ fileCounter' = txCounter[only] + Low * Low
        /\ air' = air
    BY <1>4 DEF TxAdvance
  <2>3. txCounter[only] = fileCounter
    BY <2>2 DEF AloneInv
  <2>4. fileCounter' \in Nat /\ fileCounter' >= fileCounter
    BY <2>1, <2>2, <2>3
  <2> QED  BY <1>1, <1>2, <2>2, <2>4 DEF TxTypeOK, AloneInv
<1>5. CASE TxEncode(only)
  <2> DEFINE resync == txRequest[only] \notin Commands
             new    == EncodedCounter(resync, txCounter[only])
             packet == EncodedPacket(resync, txRequest[only], txCounter[only])
             ok     == SelfTest(packet, new)
  <2>1. new \in Nat /\ new > txCounter[only]
    BY <1>1, EncodedCounterAdvances
  <2>2. packet.mac.ctr = new
    BY <1>1, EncodedPacketStamped
  <2>3. /\ txPc[only] = "encode"
        /\ txPc' = [txPc EXCEPT ![only] = IF ok THEN "send" ELSE "idle"]
        /\ fileCounter' = IF ok THEN new ELSE fileCounter
        /\ txPacket' = [txPacket EXCEPT ![only] = packet]
        /\ air' = air
    BY <1>5 DEF TxEncode
  <2> HIDE DEF new, packet, ok
  <2>4. txCounter[only] = fileCounter
    BY <2>3 DEF AloneInv
  <2> QED  BY <1>1, <1>2, <2>1, <2>2, <2>3, <2>4 DEF TxTypeOK, AloneInv
<1>6. CASE TxSend(only)
  BY <1>1, <1>2, <1>6 DEF TxSend, TxGone, TxTypeOK, AloneInv
<1>7. CASE TxExit(only)
  BY <1>1, <1>2, <1>7 DEF TxExit, TxGone, TxTypeOK, AloneInv
<1> QED  BY <1>3, <1>4, <1>5, <1>6, <1>7 DEF TxNext

LEMMA AloneInvStep ==
  ASSUME NEW only, Senders = {only}, IInv, AloneInv, [Next]_vars
  PROVE  AloneInv' /\ fileCounter' \in Nat /\ fileCounter' >= fileCounter
<1>1. CASE SenderStep
  BY <1>1, AloneStep DEF SenderStep
<1>2. ASSUME ~SenderStep PROVE UNCHANGED txVars
  BY <1>2 DEF Next, vars, ReceiverStep, Deliver, Blackout
<1>3. CASE UNCHANGED txVars
  <2>1. fileCounter \in Nat
    BY StampsInAir
  <2> QED  BY <1>3, <2>1 DEF txVars, AloneInv
<1> QED  BY <1>1, <1>2, <1>3

(* libnc.c:152 saves the counter before the packet leaves: with one sender *)
(* at a time, which may die at any point, no two packets that were sent    *)
(* have one counter.                                                       *)
THEOREM CounterUsedOnce ==
  ASSUME NEW only, Senders = {only}
  PROVE  Spec => []NoCounterReuse
<1> DEFINE Inv == AloneInv /\ NoCounterReuse
<1>1. Init => Inv
  BY DEF Init, TxInit, AloneInv, NoCounterReuse
<1>2. IInv /\ Inv /\ [Next]_vars => Inv'
  <2> SUFFICES ASSUME IInv, AloneInv, NoCounterReuse, [Next]_vars PROVE NoCounterReuse'
    BY AloneInvStep
  <2>1. CASE \E s \in Senders : TxSend(s)
    <3>1. air' = air \cup {txPacket[only]} /\ txPc[only] = "send"
      BY <2>1 DEF TxSend
    <3>2. txPacket[only].mac.ctr = fileCounter /\ \A p \in air : p.mac.ctr < fileCounter
      BY <3>1 DEF AloneInv
    <3>3. fileCounter \in Nat
      BY StampsInAir
    <3> QED  BY <3>1, <3>2, <3>3 DEF NoCounterReuse
  <2>2. ASSUME ~\E s \in Senders : TxSend(s) PROVE air' = air
    BY <2>2 DEF Next, vars, txVars, SenderStep, TxNext, TxLoad, TxAdvance, TxEncode, TxExit,
                ReceiverStep, Deliver, Blackout
  <2> QED  BY <2>1, <2>2 DEF NoCounterReuse
<1> QED  BY <1>1, <1>2, Invariance, PTL DEF Spec

(* Neither the clock nor its NVRAM is ever more than one ahead of the      *)
(* sender's file.                                                          *)
HealInv ==
  /\ rxCounter <= fileCounter + 1
  /\ \A i \in {0, 1} : slot[i] # Garbage => slot[i] <= fileCounter + 1

LEMMA StillBounded ==
  ASSUME NEW a \in Nat, NEW b \in Nat, b >= a
  PROVE  /\ 0 <= b + 1
         /\ \A n \in Nat : n <= a + 1 => n <= b + 1
OBVIOUS

LEMMA HealInvStep ==
  ASSUME NEW only, Senders = {only}, FreshNvram = FALSE, IInv, AloneInv, HealInv, [Next]_vars
  PROVE  HealInv'
<1> DEFINE Bounded(n) == n \in Nat /\ n <= fileCounter' + 1
<1>1. /\ \A p \in air : p \in Packet /\ Stamped(p)
      /\ \A p \in air : Bounded(p.mac.ctr + 1)
  <2>1. /\ fileCounter \in Nat /\ fileCounter' \in Nat /\ fileCounter' >= fileCounter
        /\ \A p \in air : p.mac.ctr <= fileCounter
        /\ \A p \in air : p \in Packet /\ Stamped(p) /\ p.mac.ctr \in Nat
    BY AloneInvStep, StampsInAir DEF AloneInv
  <2>2. ASSUME NEW p \in air PROVE Bounded(p.mac.ctr + 1)
    <3>1. p.mac.ctr \in Nat /\ p.mac.ctr <= fileCounter
      BY <2>1
    <3> QED  BY <2>1, <3>1
  <2> QED  BY <2>1, <2>2
<1>2. RxTypeOK /\ NvramInv /\ FormattedInv /\ rxCounter \in Nat /\ nvState \in {0, 1}
      /\ slot[nvState] # Garbage /\ slot \in [0 .. 1 -> Nat \cup {Garbage}]
      /\ \A i \in {0, 1} : slot[i] \in Nat \cup {Garbage}
      /\ rxPc \notin Formatting
  BY DEF IInv, TypeOK, FormattedInv, Formatted, RxTypeOK
<1>9. /\ Bounded(0) /\ Bounded(rxCounter)
      /\ \A i \in {0, 1} : slot[i] # Garbage => Bounded(slot[i])
  <2>1. fileCounter \in Nat /\ fileCounter' \in Nat /\ fileCounter' >= fileCounter
    BY AloneInvStep, StampsInAir
  <2>2. Bounded(0)
    BY <2>1, StillBounded
  <2>3. Bounded(rxCounter)
    BY <1>2, <2>1, StillBounded DEF HealInv
  <2>4. ASSUME NEW i \in {0, 1}, slot[i] # Garbage PROVE Bounded(slot[i])
    <3>1. slot[i] \in Nat /\ slot[i] <= fileCounter + 1
      BY <1>2, <2>4 DEF HealInv
    <3> QED  BY <2>1, <3>1, StillBounded
  <2> QED  BY <2>2, <2>3, <2>4
<1> DEFINE New == /\ Bounded(rxCounter')
                  /\ \A i \in {0, 1} : slot'[i] # Garbage => Bounded(slot'[i])
<1>10. New => HealInv'
  BY DEF HealInv
<1> HIDE DEF Bounded
<1>3. CASE UNCHANGED <<slot, rxCounter>>
  BY <1>3, <1>9, <1>10
<1>4. CASE RxLoad
  <2>1. rxCounter' = slot[nvState] /\ slot' = slot
    BY <1>2, <1>4 DEF RxLoad, nvVars
  <2> QED  BY <1>2, <1>9, <1>10, <2>1
<1>5. CASE RxSave \/ RxSaveRest
  <2>1. /\ OtherSlot \in {0, 1} /\ rxCounter' = rxCounter
        /\ \E v \in {Garbage, rxCounter} : slot' = [slot EXCEPT ![OtherSlot] = v]
    BY <1>2, <1>5 DEF RxSave, RxSaveRest, OtherSlot, ramVars
  <2>2. \A i \in {0, 1} : slot'[i] \in {slot[i], Garbage, rxCounter}
    BY <1>2, <2>1
  <2> QED  BY <1>9, <1>10, <2>1, <2>2
<1>6. CASE \E p \in air : RxAccept(p) \/ RxAccept(Damaged(p))
  <2>1. PICK p \in air : RxAccept(p) \/ RxAccept(Damaged(p))
    BY <1>6
  <2>2. ~Authenticates(Damaged(p), rxCounter)
    BY <1>1, <1>2, DamagedRefused
  <2>3. NewCounter(p, rxCounter) = p.mac.ctr
    BY <1>1, <1>2, <2>1, <2>2, AuthenticatesExact DEF RxAccept
  <2>4. rxCounter' = p.mac.ctr + 1 /\ slot' = slot
    BY <2>1, <2>2, <2>3 DEF RxAccept, nvVars
  <2> QED  BY <1>1, <1>9, <1>10, <2>4
<1>7. CASE Blackout
  <2>1. rxCounter' = 0 /\ slot' = slot
    BY <1>7 DEF Blackout, PowerFail, nvVars
  <2> QED  BY <1>9, <1>10, <2>1
<1>8. ASSUME ~UNCHANGED <<slot, rxCounter>>, ~RxLoad, ~(RxSave \/ RxSaveRest), ~Blackout
      PROVE  \E p \in air : RxAccept(p) \/ RxAccept(Damaged(p))
  BY <1>2, <1>8 DEF Next, vars, rxVars, nvVars, ramVars, SenderStep, Formatting, ReceiverStep,
       RxInternal, RxReformat, RxFormatCheck, RxFormatState, RxVerify, RxSaveState, RxDispatch,
       Deliver, RxReceive, RxRebroadcast, RxReject
<1> QED  BY <1>3, <1>4, <1>5, <1>6, <1>7, <1>8

(* With one sender at a time and a clock that was formatted before, a      *)
(* resync sent at any moment would be accepted, and the command after it.  *)
THEOREM ResyncAlwaysHeals ==
  ASSUME NEW only, Senders = {only}, FreshNvram = FALSE
  PROVE  Spec => []ResyncHeals
<1>1. Init => AloneInv /\ HealInv
  <2> SUFFICES ASSUME Init PROVE AloneInv /\ HealInv
    OBVIOUS
  <2>1. AloneInv
    BY DEF Init, TxInit, AloneInv
  <2>2. fileCounter \in Nat
    BY TxBoundsAssumption DEF Init, TxInit
  <2>3. HealInv
    BY <2>2 DEF Init, RxInit, HealInv
  <2> QED  BY <2>1, <2>3
<1>2. IInv /\ AloneInv /\ HealInv /\ [Next]_vars => AloneInv' /\ HealInv'
  BY AloneInvStep, HealInvStep
<1>3. IInv /\ HealInv => ResyncHeals
  <2> SUFFICES ASSUME IInv, HealInv PROVE ResyncHeals
    OBVIOUS
  <2> DEFINE new == EncodedCounter(TRUE, fileCounter)
             p   == EncodedPacket(TRUE, Resync, fileCounter)
  <2>1. fileCounter \in Nat /\ rxCounter \in Nat
    BY StampsInAir DEF IInv, TypeOK, RxTypeOK
  <2>2. new \in Nat /\ new > fileCounter
    BY <2>1, EncodedCounterAdvances
  <2>3. p \in Packet /\ Stamped(p) /\ p.resync /\ p.mac.ctr = new
    BY <2>1, EncodedPacketStamped
  <2> HIDE DEF new, p
  <2>4. new >= rxCounter
    BY <2>1, <2>2 DEF HealInv
  <2>5. Authenticates(p, rxCounter)
    BY <2>1, <2>3, <2>4, AuthenticatesExact
  <2>6. ASSUME NEW cmd \in Commands
        PROVE  Authenticates(EncodedPacket(FALSE, cmd, new), new + 1)
    <3> DEFINE q == EncodedPacket(FALSE, cmd, new)
    <3>1. q \in Packet /\ Stamped(q) /\ q.mac.ctr = EncodedCounter(FALSE, new)
      BY <2>2, EncodedPacketStamped
    <3>2. EncodedCounter(FALSE, new) = new + 1
      BY DEF EncodedCounter
    <3> HIDE DEF q
    <3>3. new + 1 \in Nat /\ q.mac.ctr = new + 1 /\ new + 1 < (new + 1) + Low
      <4>1. new + 1 \in Nat /\ new + 1 < (new + 1) + Low
        BY <2>2, LowAssumption
      <4>2. q.mac.ctr = new + 1
        BY <3>1, <3>2
      <4> QED  BY <4>1, <4>2
    <3>4. Authenticates(q, new + 1)
      BY <3>1, <3>3, AuthenticatesExact
    <3> QED  BY <3>4 DEF q
  <2> QED  BY <2>5, <2>6 DEF ResyncHeals, new, p
<1> QED  BY <1>1, <1>2, <1>3, Invariance, PTL DEF Spec

-----------------------------------------------------------------------------
(* Refinement *)

LEMMA InitRefines == Init => Channel!Init
BY DEF Init, TxInit, RxInit, Channel!Init, Issued

LEMMA IssuedStable ==
  ASSUME UNCHANGED air
  PROVE  UNCHANGED Issued
BY DEF Issued

(* Sending a packet issues its command. *)
LEMMA SenderStepRefines ==
  ASSUME IInv, IInv', SenderStep
  PROVE  [Channel!Next]_(Channel!vars)
<1>1. air \subseteq air' /\ UNCHANGED executed
  BY DEF SenderStep, TxNext, TxLoad, TxAdvance, TxEncode, TxSend, TxExit, rxVars
<1>2. Issued \subseteq Issued'
  BY <1>1 DEF Issued
<1>3. Issued' \subseteq Channel!Item
  BY DEF IInv, SentInv, Stamped, Mac, Issued, Channel!Item
<1> QED  BY <1>1, <1>2, <1>3 DEF Channel!Next, Channel!Issue

(* Dispatching a command carries out an issued item newer than all before. *)
LEMMA DispatchRefines ==
  ASSUME IInv, UNCHANGED txVars, RxDispatch
  PROVE  [Channel!Next]_(Channel!vars)
<1> DEFINE item == [stamp |-> rxCounter - 1, cmd |-> current.body]
<1>1. UNCHANGED Issued
  BY IssuedStable DEF txVars
<1>2. CASE current.resync
  BY <1>1, <1>2 DEF RxDispatch, Channel!vars
<1>3. CASE ~current.resync
  <2>1. /\ current \in air /\ Stamped(current) /\ rxCounter = current.mac.ctr + 1
        /\ ExecutedBelow(rxCounter - 1)
    BY DEF RxDispatch, IInv, CurrentInv, SentInv
  <2>2. current.mac.ctr = rxCounter - 1
    BY <2>1 DEF Stamped, Mac
  <2>3. item \in Issued
    BY <1>3, <2>1, <2>2 DEF Issued
  <2>4. executed' = Append(executed, item)
    BY <1>3 DEF RxDispatch
  <2>5. Channel!Execute(item)
    BY <1>1, <2>1, <2>4 DEF ExecutedBelow, Channel!Execute
  <2> QED  BY <2>3, <2>5 DEF Channel!Next
<1> QED  BY <1>2, <1>3

(* The link implements the abstract channel: at most once, in order, and   *)
(* only what was sent, for any number of senders and of power failures.    *)
THEOREM LinkImplementsChannel == Spec => ImplementsChannel
<1>1. IInv /\ IInv' /\ [Next]_vars => [Channel!Next]_(Channel!vars)
  <2> SUFFICES ASSUME IInv, IInv', [Next]_vars PROVE [Channel!Next]_(Channel!vars)
    OBVIOUS
  <2>1. CASE SenderStep
    BY <2>1, SenderStepRefines
  <2>2. CASE RxDispatch /\ UNCHANGED txVars
    BY <2>2, DispatchRefines
  <2>3. CASE UNCHANGED <<air, executed>>
    BY <2>3, IssuedStable DEF Channel!vars
  <2>4. ASSUME Next \/ UNCHANGED vars, ~SenderStep, ~(RxDispatch /\ UNCHANGED txVars)
        PROVE  UNCHANGED <<air, executed>>
    BY <2>4 DEF Next, vars, txVars, rxVars, ReceiverStep, RxInternal, RxLoad, RxReformat,
                RxFormatCheck, RxFormatState, RxVerify, RxSave, RxSaveRest, RxSaveState,
                Deliver, RxReceive, RxRebroadcast, RxReject, RxAccept, Blackout, PowerFail
  <2> QED  BY <2>1, <2>2, <2>3, <2>4
<1> QED  BY InitRefines, Invariance, <1>1, PTL DEF Spec, ImplementsChannel, Channel!Spec

-----------------------------------------------------------------------------
(* The mailbox: its inductive invariant *)

(* Interrupts are disabled from disable_interrupts to enable_interrupts. *)
CriticalInv == interrupts <=> pc \in {"disable", "process"}

(* The handler is not interrupted: what it leaves is one message. *)
BoxInv ==
  /\ \A i \in Symbols : rx433_new_code[i] = newest
  /\ rx433_new_code_ready => newest > 0

(* How far memcpy has come. *)
CopyInv ==
  /\ pc \in {"copyNew", "clearReady"} => rx433_new_code_ready
  /\ pc = "copyNew" => copied < DataSize /\ \A i \in 1 .. copied : copy_new_code[i] = newest
  /\ pc \in {"clearReady", "setCopyReady"} =>
       newest > 0 /\ \A i \in Symbols : copy_new_code[i] = newest
  /\ copy_new_code_ready =>
       pc \in {"enable", "process", "disable"}

(* The copy, once it is complete, is one message, whatever comes next. *)
ReadyInv ==
  copy_new_code_ready => \E n \in 1 .. newest : \A i \in Symbols : copy_new_code[i] = n

MailboxInv == BoxTypeOK /\ CriticalInv /\ BoxInv /\ CopyInv /\ ReadyInv

-----------------------------------------------------------------------------
(* The first state, before any interrupt: nothing is in the mailbox. *)
LEMMA InitInv == BoxInit => MailboxInv
  <1> SUFFICES ASSUME BoxInit PROVE MailboxInv
    OBVIOUS
  <1>1. BoxTypeOK
    <2>1. [i \in Symbols |-> 0] \in Code
      BY DEF Code
    <2>2. <<>> \in Seq(Code) /\ <<>> \in Seq(Nat)
      OBVIOUS
    <2>3. 0 \in 0 .. DataSize
      BY MailboxAssumption
    <2> QED
      BY <2>1, <2>2, <2>3 DEF BoxInit, BoxTypeOK, Steps
  <1>2. CriticalInv /\ CopyInv /\ ReadyInv
    BY DEF BoxInit, CriticalInv, CopyInv, ReadyInv
  <1>3. BoxInv
    BY DEF BoxInit, BoxInv, Symbols
  <1> QED
    BY <1>1, <1>2, <1>3 DEF MailboxInv

(* What process appends is a sequence of codes again. *)
LEMMA AppendKeepsSeq ==
  ASSUME NEW S, NEW s \in Seq(S), NEW e \in S
  PROVE  Append(s, e) \in Seq(S)
  OBVIOUS

(* Every access of the main loop and every interrupt keeps the invariant.  *)
LEMMA StepInv == MailboxInv /\ [BoxNext]_mailboxVars => MailboxInv'
  <1> SUFFICES ASSUME MailboxInv, [BoxNext]_mailboxVars PROVE MailboxInv'
    OBVIOUS
  <1> USE MailboxAssumption
  <1> USE DEF MailboxInv, BoxTypeOK, CriticalInv, BoxInv, CopyInv, ReadyInv, Symbols, Code, Steps,
          boxVars, copyVars, decodedVars, takenVars, At
  <1>1. CASE NewCodeDecoded
    BY <1>1 DEF NewCodeDecoded
  <1>2. CASE \E value \in {0, heDecoded + 1} : HomeEasyDecoded(value)
    BY <1>2 DEF HomeEasyDecoded
  <1>3. CASE DisableInterrupts
    BY <1>3 DEF DisableInterrupts
  <1>4. CASE TestHe
    BY <1>4 DEF TestHe
  <1>5. CASE CopyHe
    BY <1>5 DEF CopyHe
  <1>6. CASE ClearHe
    BY <1>6 DEF ClearHe
  <1>7. CASE TestNew
    BY <1>7 DEF TestNew
  <1>8. CASE CopyNew
    BY <1>8 DEF CopyNew
  <1>9. CASE ClearReady
    BY <1>9 DEF ClearReady
  <1>10. CASE SetCopyReady
    BY <1>10 DEF SetCopyReady
  <1>11. CASE EnableInterrupts
    BY <1>11 DEF EnableInterrupts
  <1>12. CASE Process
    <2>1. taken' \in Seq(Code) /\ heTaken' \in Seq(Nat)
      <3>1. Append(taken, copy_new_code) \in Seq(Code)
        BY AppendKeepsSeq, Zenon
      <3>2. taken' \in Seq(Code)
        BY <1>12, <3>1, Zenon DEF Process
      <3>3. heTaken' \in Seq(Nat)
        BY <1>12 DEF Process
      <3> QED
        BY <3>2, <3>3
    <2>2. BoxTypeOK' /\ CriticalInv' /\ BoxInv'
      BY <1>12, <2>1 DEF Process
    <2>3. CopyInv' /\ ReadyInv'
      BY <1>12, <2>1 DEF Process
    <2> QED
      BY <2>2, <2>3
  <1>13. CASE UNCHANGED mailboxVars
    BY <1>13 DEF mailboxVars
  <1> HIDE MailboxAssumption DEF MailboxInv, BoxTypeOK, CriticalInv, BoxInv, CopyInv, ReadyInv, Symbols,
          Code, Steps, boxVars, copyVars, decodedVars, takenVars, At
  <1> QED
    BY <1>1, <1>2, <1>3, <1>4, <1>5, <1>6, <1>7, <1>8, <1>9, <1>10, <1>11, <1>12, <1>13
       DEF BoxNext, MainLoop

-----------------------------------------------------------------------------
(* The invariant holds in every state, wherever the handler interrupts the *)
(* main loop.                                                              *)
THEOREM MailboxInvariance == BoxSpec => []MailboxInv
  BY InitInv, StepInv, PTL DEF BoxSpec

(* The variables of rx433.c and the copies of mail.c keep their types.     *)
THEOREM MailboxTypeCorrect == BoxSpec => []BoxTypeOK
  <1>1. MailboxInv => BoxTypeOK
    BY DEF MailboxInv
  <1> QED
    BY <1>1, MailboxInvariance, PTL

(* The critical section of mail.c:145-156 is enough: what ncrs_decode gets *)
(* is a message as it was decoded.                                         *)
THEOREM NeverTorn == BoxSpec => []NoTornCode
  <1>1. MailboxInv => NoTornCode
    BY DEF MailboxInv, BoxTypeOK, ReadyInv, NoTornCode, Code, Symbols
  <1> QED
    BY <1>1, MailboxInvariance, PTL

-----------------------------------------------------------------------------
(* The order in which messages are taken *)

(* After the copy of a Home Easy code, in this round. *)
HeCopied == pc \in {"clearHe", "testNew", "copyNew", "clearReady", "setCopyReady", "enable", "process"}

(* What was taken is older than what is in the mailbox and than the copy,  *)
(* and the copy, if it is still to be taken, is older than the mailbox.    *)
NewOrder ==
  /\ \A i, j \in DOMAIN taken : i < j => taken[i][1] < taken[j][1]
  /\ \A i \in DOMAIN taken :
       /\ taken[i][1] <= newest
       /\ rx433_new_code_ready \/ pc = "setCopyReady" => taken[i][1] < newest
       /\ copy_new_code_ready /\ pc # "disable" => taken[i][1] < copy_new_code[1]
  /\ copy_new_code_ready /\ pc # "disable" =>
       copy_new_code[1] <= newest /\ (rx433_new_code_ready => copy_new_code[1] < newest)
  /\ pc = "setCopyReady" => ~rx433_new_code_ready

HeOrder ==
  /\ \A i, j \in DOMAIN heTaken : i < j => heTaken[i] < heTaken[j]
  /\ rx433_home_easy <= heDecoded
  /\ \A i \in DOMAIN heTaken :
       /\ heTaken[i] <= heDecoded
       /\ rx433_home_easy # 0 => heTaken[i] < rx433_home_easy
       /\ copy_home_easy # 0 /\ pc # "disable" => heTaken[i] < copy_home_easy
  /\ copy_home_easy # 0 /\ pc # "disable" =>
       /\ HeCopied
       /\ copy_home_easy <= heDecoded
       /\ rx433_home_easy # 0 /\ pc # "clearHe" => copy_home_easy < rx433_home_easy

OrderInv == NewOrder /\ HeOrder

LEMMA InitOrder == BoxInit => OrderInv
  BY DEF BoxInit, OrderInv, NewOrder, HeOrder

(* One more at the end of a sequence. *)
LEMMA AppendedIs ==
  ASSUME NEW S, NEW s \in Seq(S), NEW e \in S
  PROVE  /\ DOMAIN Append(s, e) = 1 .. Len(s) + 1 /\ Len(s) \in Nat /\ DOMAIN s = 1 .. Len(s)
         /\ \A i \in 1 .. Len(s) : Append(s, e)[i] = s[i]
         /\ Append(s, e)[Len(s) + 1] = e
  OBVIOUS

(* The first symbols, which tell the messages apart, are numbers. *)
LEMMA FirstSymbols ==
  ASSUME BoxTypeOK
  PROVE  (\A i \in DOMAIN taken : taken[i][1] \in Nat) /\ copy_new_code[1] \in Nat
  <1>1. 1 \in Symbols
    BY MailboxAssumption DEF Symbols
  <1>2. \A i \in DOMAIN taken : taken[i] \in Code
    BY DEF BoxTypeOK
  <1> QED
    BY <1>1, <1>2 DEF BoxTypeOK, Code

LEMMA HandlerOrder ==
  ASSUME MailboxInv, OrderInv,
         NewCodeDecoded \/ \E value \in {0, heDecoded + 1} : HomeEasyDecoded(value)
  PROVE  OrderInv'
  <1> USE FirstSymbols DEF MailboxInv, CriticalInv, OrderInv, HeCopied, copyVars, takenVars
  <1>1. newest \in Nat /\ heDecoded \in Nat /\ rx433_home_easy \in Nat /\ copy_home_easy \in Nat
        /\ \A i \in DOMAIN heTaken : heTaken[i] \in Nat
    BY DEF BoxTypeOK
  <1>2. CASE NewCodeDecoded
    <2>1. NewOrder'
      BY <1>1, <1>2 DEF NewCodeDecoded, NewOrder
    <2>2. HeOrder'
      BY <1>2 DEF NewCodeDecoded, HeOrder
    <2> QED
      BY <2>1, <2>2
  <1>3. CASE \E value \in {0, heDecoded + 1} : HomeEasyDecoded(value)
    <2>1. NewOrder'
      BY <1>3 DEF HomeEasyDecoded, NewOrder
    <2>2. HeOrder'
      BY <1>1, <1>3 DEF HomeEasyDecoded, HeOrder
    <2> QED
      BY <2>1, <2>2
  <1> QED
    BY <1>2, <1>3

LEMMA ProcessOrder == ASSUME MailboxInv, OrderInv, Process PROVE OrderInv'
  <1>1. /\ pc = "process" /\ pc' = "disable"
        /\ UNCHANGED <<boxVars, interrupts, copyVars, decodedVars>>
        /\ taken' = IF copy_new_code_ready THEN Append(taken, copy_new_code) ELSE taken
        /\ heTaken' = IF copy_home_easy # 0 THEN Append(heTaken, copy_home_easy) ELSE heTaken
    BY DEF Process, At
  <1>2. /\ taken \in Seq(Code) /\ copy_new_code \in Code /\ newest \in Nat
        /\ heTaken \in Seq(Nat) /\ copy_home_easy \in Nat /\ heDecoded \in Nat
        /\ rx433_home_easy \in Nat /\ \A i \in DOMAIN heTaken : heTaken[i] \in Nat
    BY DEF MailboxInv, BoxTypeOK
  <1>3. (\A i \in DOMAIN taken : taken[i][1] \in Nat) /\ copy_new_code[1] \in Nat
    BY FirstSymbols DEF MailboxInv
  <1>4. NewOrder'
    <2>1. CASE ~copy_new_code_ready
      BY <1>1, <2>1 DEF OrderInv, NewOrder, boxVars, copyVars, decodedVars
    <2>2. CASE copy_new_code_ready
      <3>1. /\ DOMAIN taken' = 1 .. Len(taken) + 1 /\ Len(taken) \in Nat /\ DOMAIN taken = 1 .. Len(taken)
            /\ \A i \in 1 .. Len(taken) : taken'[i] = taken[i]
            /\ taken'[Len(taken) + 1] = copy_new_code
        BY <1>1, <1>2, <2>2, AppendedIs
      <3>2. \A i \in 1 .. Len(taken) + 1 : i \in DOMAIN taken \/ i = Len(taken) + 1
        BY <3>1
      <3> QED
        BY <1>1, <1>2, <1>3, <2>2, <3>1, <3>2 DEF OrderInv, NewOrder, boxVars, copyVars, decodedVars
    <2> QED
      BY <2>1, <2>2
  <1>5. HeOrder'
    <2>1. CASE copy_home_easy = 0
      BY <1>1, <2>1 DEF OrderInv, HeOrder, boxVars, copyVars, decodedVars
    <2>2. CASE copy_home_easy # 0
      <3>1. /\ DOMAIN heTaken' = 1 .. Len(heTaken) + 1 /\ Len(heTaken) \in Nat
            /\ DOMAIN heTaken = 1 .. Len(heTaken)
            /\ \A i \in 1 .. Len(heTaken) : heTaken'[i] = heTaken[i]
            /\ heTaken'[Len(heTaken) + 1] = copy_home_easy
        BY <1>1, <1>2, <2>2, AppendedIs
      <3>2. \A i \in 1 .. Len(heTaken) + 1 : i \in DOMAIN heTaken \/ i = Len(heTaken) + 1
        BY <3>1
      <3> QED
        BY <1>1, <1>2, <2>2, <3>1, <3>2 DEF OrderInv, HeOrder, boxVars, copyVars, decodedVars
    <2> QED
      BY <2>1, <2>2
  <1> QED
    BY <1>4, <1>5 DEF OrderInv

(* The critical section, in which the mailbox only empties. *)
LEMMA CriticalOrder ==
  ASSUME MailboxInv, OrderInv,
         \/ DisableInterrupts \/ TestHe \/ CopyHe \/ ClearHe \/ TestNew \/ CopyNew
         \/ ClearReady \/ SetCopyReady \/ EnableInterrupts
  PROVE  OrderInv'
  <1> USE DEF MailboxInv, CriticalInv, CopyInv, OrderInv, HeCopied, At, boxVars, copyVars, decodedVars,
              takenVars
  <1>1. newest \in Nat /\ heDecoded \in Nat /\ rx433_home_easy \in Nat /\ copy_home_easy \in Nat
        /\ copied \in Nat
    BY DEF BoxTypeOK
  <1>2. 1 \in Symbols
    BY MailboxAssumption DEF Symbols
  <1>3. CASE DisableInterrupts
    BY <1>3 DEF DisableInterrupts, NewOrder, HeOrder
  <1>4. CASE TestHe
    BY <1>4 DEF TestHe, NewOrder, HeOrder
  <1>5. CASE CopyHe
    <2>1. NewOrder'
      BY <1>5 DEF CopyHe, NewOrder
    <2>2. HeOrder'
      BY <1>5, Zenon DEF CopyHe, HeOrder
    <2> QED
      BY <2>1, <2>2
  <1>6. CASE ClearHe
    BY <1>1, <1>6 DEF ClearHe, NewOrder, HeOrder
  <1>7. CASE TestNew
    BY <1>7 DEF TestNew, NewOrder, HeOrder
  <1>8. CASE CopyNew
    BY <1>8 DEF CopyNew, NewOrder, HeOrder
  <1>9. CASE ClearReady
    <2>1. rx433_new_code_ready /\ ~copy_new_code_ready /\ ~copy_new_code_ready'
      BY <1>9 DEF ClearReady
    <2>2. NewOrder'
      BY <1>9, <2>1 DEF ClearReady, NewOrder
    <2>3. HeOrder'
      BY <1>9 DEF ClearReady, HeOrder
    <2> QED
      BY <2>2, <2>3
  <1>10. CASE SetCopyReady
    BY <1>1, <1>2, <1>10 DEF SetCopyReady, NewOrder, HeOrder
  <1>11. CASE EnableInterrupts
    BY <1>11 DEF EnableInterrupts, NewOrder, HeOrder
  <1> QED
    BY <1>3, <1>4, <1>5, <1>6, <1>7, <1>8, <1>9, <1>10, <1>11

LEMMA StepOrder == MailboxInv /\ OrderInv /\ [BoxNext]_mailboxVars => OrderInv'
  <1>1. ASSUME OrderInv, UNCHANGED mailboxVars PROVE OrderInv'
    BY <1>1 DEF mailboxVars, boxVars, copyVars, decodedVars, takenVars, OrderInv, NewOrder, HeOrder, HeCopied
  <1> QED
    BY <1>1, HandlerOrder, CriticalOrder, ProcessOrder DEF BoxNext, MainLoop

(* mail.c:137-170: no message is processed twice, and none after a later   *)
(* one, wherever the handler interrupts the main loop.  What was taken is  *)
(* always older than the copy, and that is older than what has come since. *)
THEOREM TakenOnceInOrder == BoxSpec => []TakenInOrder
  <1>1. OrderInv => TakenInOrder
    BY DEF OrderInv, NewOrder, HeOrder, TakenInOrder
  <1> QED
    BY <1>1, InitOrder, StepOrder, MailboxInvariance, PTL DEF BoxSpec
=============================================================================
