------------------------------- MODULE RadioLink -------------------------------
(***************************************************************************)
(* The command link from txnc433 to the clock: the senders of Txnc433, the *)
(* receiver of Mail, and between them everything that carries a packet     *)
(* (UDP broadcast, the home_easy queue, a repeater, the 433MHz radio).     *)
(* Any packet ever sent may reach the clock, at any time, any number of    *)
(* times, in any order, whole or damaged, or never.                        *)
(***************************************************************************)
EXTENDS Txnc433, Mail

vars == <<txVars, rxVars>>

TypeOK == TxTypeOK /\ RxTypeOK

Init == TxInit /\ RxInit

SenderStep == TxNext /\ UNCHANGED rxVars

ReceiverStep == RxInternal /\ UNCHANGED txVars

Deliver ==
  /\ \E p \in air : RxReceive(p) \/ RxReceive(Damaged(p))
  /\ UNCHANGED txVars

Blackout == PowerFail /\ UNCHANGED txVars

Next == SenderStep \/ ReceiverStep \/ Deliver \/ Blackout

Spec == Init /\ [][Next]_vars

-----------------------------------------------------------------------------
(* The inductive invariant behind the properties below. *)

SentInv ==
  /\ \A p \in air : Stamped(p)
  /\ \A s \in Senders : txPc[s] = "send" =>
       txPacket[s] # NoPacket /\ Stamped(txPacket[s])

ExecutedBelow(c) == \A k \in DOMAIN executed : executed[k].stamp < c

(* The NVRAM: what it promises depends on how far formatting and saving    *)
(* have got.                                                               *)
NvramInv ==
  /\ executed # <<>> => Formatted /\ slot[nvState] # Garbage /\ ExecutedBelow(slot[nvState])
  /\ rxPc \in Formatting => executed = <<>>
  /\ rxPc = "verify" => nvState = 0
  /\ rxPc \in Saving \cup {"loop", "dispatch"} => Formatted
  /\ rxPc = "saveState" => slot[OtherSlot] = rxCounter
  /\ rxPc = "loop" => slot[nvState] \in {Garbage, rxCounter}

(* The packet in hand was sent, and its counter is the last one accepted. *)
CurrentInv ==
  /\ rxPc \in {"boot"} \cup Formatting => current = NoPacket /\ previous = NoPacket
  /\ rxPc \in Saving =>
       IF current = NoPacket
         THEN executed = <<>> /\ previous = NoPacket
         ELSE slot[nvState] = Garbage \/ slot[nvState] < rxCounter
  /\ rxPc = "dispatch" =>
       current # NoPacket /\ slot[nvState] = rxCounter /\ ExecutedBelow(rxCounter - 1)
  /\ rxPc \in Saving \cup {"dispatch"} /\ current # NoPacket =>
       current \in air /\ previous = current /\ rxCounter = current.mac.ctr + 1

(* A clock that was formatted before never formats again. *)
FormattedInv ==
  ~FreshNvram =>
    /\ Formatted
    /\ slot[nvState] # Garbage
    /\ rxPc \notin Formatting \cup {"halted"}
    /\ rxPc \in Saving => current # NoPacket

IInv == TypeOK /\ SentInv /\ NvramInv /\ CurrentInv /\ FormattedInv

-----------------------------------------------------------------------------
(* The abstract channel: a command is issued once its packet is sent. *)

Issued == {[stamp |-> p.mac.ctr, cmd |-> p.body] : p \in {q \in air : ~q.resync}}

Channel == INSTANCE CommandChannel WITH issued <- Issued

(* Whatever the network repeats, reorders, loses or damages, whenever the  *)
(* power fails and however many txnc433 overlap, the clock carries out     *)
(* only commands that were sent, each stamp at most once, oldest first.    *)
ImplementsChannel == Channel!Spec

(* mail.c:190 saves the counter before new_packet runs: what the NVRAM     *)
(* says is in use is newer than everything already carried out, so that a  *)
(* power failure at any point cannot have a command carried out again.     *)
DurableAhead ==
  executed # <<>> =>
    /\ Formatted
    /\ slot[nvState] # Garbage
    /\ \A k \in DOMAIN executed : executed[k].stamp < slot[nvState]

(* mail.c:22-30 keeps two slots so that the one in use is never the one    *)
(* being written: once the check bytes and the state say that the NVRAM is *)
(* formatted, the slot in use holds a counter that was saved there.        *)
ValidSlotWhole ==
  rxPc = "boot" /\ Formatted => slot[nvState] # Garbage

(* hmac433.c:42: the counter must always advance.  The saved one never     *)
(* goes back, across power failures too.                                   *)
DurableAdvances ==
  [][slot[nvState] # Garbage => slot'[nvState'] # Garbage /\ slot'[nvState'] >= slot[nvState]]_vars

(* hmac433.c:21-45 accepts a genuine packet iff its full counter is not    *)
(* behind the receiver's and, when only its low byte is sent, is less than *)
(* one turn of that byte ahead: the splice and the carry never take a      *)
(* packet for one of another turn.                                         *)
WindowAcceptance ==
  \A p \in air :
    Authenticates(p, rxCounter) <=>
      /\ p.mac.ctr >= rxCounter
      /\ p.resync \/ p.mac.ctr < rxCounter + Low

(* mail.c:177 drops a packet equal to the one before without looking at    *)
(* its HMAC: that one would be refused anyway.                             *)
RebroadcastRejectSound ==
  rxPc = "loop" /\ previous # NoPacket => ~Authenticates(previous, rxCounter)

(* libnc.c:136-150 tests every packet against a receiver that is one       *)
(* behind: whatever the counter and the request, that test succeeds, so    *)
(* libnc_encode never refuses to send what it has just encoded.            *)
SelfTestPasses ==
  \A s \in Senders : txPc[s] = "encode" =>
    LET resync == txRequest[s] \notin Commands
    IN SelfTest(EncodedPacket(resync, txRequest[s], txCounter[s]), EncodedCounter(resync, txCounter[s]))

(* libnc.c:152 saves the counter before the packet leaves: with one        *)
(* process at a time, no counter is ever used for two packets, even if     *)
(* the process is killed between the two.                                  *)
NoCounterReuse ==
  \A p, q \in air : p.mac.ctr = q.mac.ctr => p = q

(* However many packets were lost, whatever state the clock is in, a       *)
(* resync sent now by a process that is alone would be accepted, and so    *)
(* would the first command after it.                                       *)
ResyncHeals ==
  rxPc = "loop" =>
    LET new == EncodedCounter(TRUE, fileCounter)
    IN /\ Authenticates(EncodedPacket(TRUE, Resync, fileCounter), rxCounter)
       /\ \A cmd \in Commands : Authenticates(EncodedPacket(FALSE, cmd, new), new + 1)
=============================================================================
