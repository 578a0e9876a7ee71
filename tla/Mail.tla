--------------------------------- MODULE Mail ---------------------------------
(***************************************************************************)
(* The receiving side in the clock (mail.c): the message counter, its two  *)
(* slots in the battery-backed NVRAM, and the main loop's handling of one  *)
(* packet at a time.  Every NVRAM write is a step of its own, and the      *)
(* power may fail between any two steps: the RAM is lost, the NVRAM stays. *)
(*                                                                         *)
(* A counter takes eight one-byte writes, so its slot is written in two    *)
(* steps: from the first byte on it holds Garbage, with the last one it    *)
(* holds the counter.  Reading Garbage gives some counter or other.        *)
(***************************************************************************)
EXTENDS Hmac433, Sequences

CONSTANTS
  Garbage,      \* contents of a slot never written, or partly written
  FreshNvram,   \* TRUE: the NVRAM has never been formatted
  GarbageCounters, \* the counters that reading Garbage may give
  MaxCrashes    \* bound on power failures

ASSUME GarbageAssumption == Garbage \notin Nat /\ GarbageCounters \subseteq Nat
ASSUME NvramAssumption == FreshNvram \in BOOLEAN /\ MaxCrashes \in Nat

VARIABLES
  checks,     \* which of the two check bytes in the NVRAM are right
  nvState,    \* NVRAM_STATE: the slot in use (2 stands for every value > 1)
  slot,       \* NVRAM_COUNTER_0 and NVRAM_COUNTER_1
  rxPc,       \* where the clock's program is
  rxCounter,  \* hmac_message_counter
  previous,   \* previous_packet
  current,    \* the packet being handled, NoPacket while formatting
  crashes,    \* power failures so far
  executed    \* what new_packet has carried out: <<[stamp, cmd], ...>>

nvVars == <<checks, nvState, slot>>
ramVars == <<rxCounter, previous, current>>
rxVars == <<checks, nvState, slot, rxPc, rxCounter, previous, current, crashes, executed>>

Saving == {"save", "saveRest", "saveState"}
Formatting == {"check1", "check2", "state", "verify"}
RxPcs == {"boot", "loop", "dispatch", "halted"} \cup Saving \cup Formatting

RxTypeOK ==
  /\ checks \subseteq {1, 2}
  /\ nvState \in 0 .. 2
  /\ slot \in [0 .. 1 -> Nat \cup {Garbage}]
  /\ rxPc \in RxPcs
  /\ rxCounter \in Nat
  /\ previous \in Packet \cup {NoPacket}
  /\ current \in Packet \cup {NoPacket}
  /\ crashes \in Nat
  /\ executed \in Seq([stamp : Nat, cmd : Body])

(* mail_init's test that the NVRAM has been formatted. *)
Formatted == checks = {1, 2} /\ nvState # 2

(* Either a clock that was formatted before (its counter starts at 1, in   *)
(* slot 1), or one whose NVRAM holds anything that is not the format.      *)
RxInit ==
  /\ IF FreshNvram
       THEN /\ checks \in SUBSET {1, 2}
            /\ nvState \in 0 .. 2
            /\ ~Formatted
            /\ slot = [i \in 0 .. 1 |-> Garbage]
       ELSE /\ checks = {1, 2}
            /\ nvState = 1
            /\ slot = [i \in 0 .. 1 |-> IF i = 1 THEN 1 ELSE Garbage]
  /\ rxPc = "boot"
  /\ rxCounter = 0
  /\ previous = NoPacket
  /\ current = NoPacket
  /\ crashes = 0
  /\ executed = <<>>

-----------------------------------------------------------------------------
(* mail_init *)

RxLoad ==
  /\ rxPc = "boot"
  /\ Formatted
  /\ rxCounter' \in IF slot[nvState] = Garbage THEN GarbageCounters ELSE {slot[nvState]}
  /\ rxPc' = "loop"
  /\ UNCHANGED <<nvVars, previous, current, crashes, executed>>

RxReformat ==
  /\ rxPc = "boot"
  /\ ~Formatted
  /\ rxPc' = "check1"
  /\ UNCHANGED <<nvVars, ramVars, crashes, executed>>

(* A check byte is written; on a broken NVRAM the write has no effect. *)
RxFormatCheck(i) ==
  /\ rxPc = IF i = 1 THEN "check1" ELSE "check2"
  /\ \/ checks' = checks \cup {i}
     \/ UNCHANGED checks
  /\ rxPc' = IF i = 1 THEN "check2" ELSE "state"
  /\ UNCHANGED <<nvState, slot, ramVars, crashes, executed>>

RxFormatState ==
  /\ rxPc = "state"
  /\ nvState' = 0
  /\ rxPc' = "verify"
  /\ UNCHANGED <<checks, slot, ramVars, crashes, executed>>

(* "check this worked": go on to save the first counter, or give up. *)
RxVerify ==
  /\ rxPc = "verify"
  /\ IF checks = {1, 2}
       THEN rxCounter' = 1 /\ rxPc' = "save"
       ELSE UNCHANGED rxCounter /\ rxPc' = "halted"
  /\ UNCHANGED <<nvVars, previous, current, crashes, executed>>

-----------------------------------------------------------------------------
(* save_counter: write the counter in the slot not in use, then use it. *)

MutSameSlot == nvState

OtherSlot == 1 - nvState

RxSave ==
  /\ rxPc = "save"
  /\ slot' = [slot EXCEPT ![OtherSlot] = Garbage]
  /\ rxPc' = "saveRest"
  /\ UNCHANGED <<checks, nvState, ramVars, crashes, executed>>

RxSaveRest ==
  /\ rxPc = "saveRest"
  /\ slot' = [slot EXCEPT ![OtherSlot] = rxCounter]
  /\ rxPc' = "saveState"
  /\ UNCHANGED <<checks, nvState, ramVars, crashes, executed>>

MutRxSaveStateNoFlip ==
  /\ rxPc = "saveState"
  /\ rxPc' = IF current = NoPacket THEN "loop" ELSE "dispatch"
  /\ UNCHANGED <<nvVars, ramVars, crashes, executed>>

RxSaveState ==
  /\ rxPc = "saveState"
  /\ nvState' = OtherSlot
  /\ rxPc' = IF current = NoPacket THEN "loop" ELSE "dispatch"
  /\ UNCHANGED <<checks, slot, ramVars, crashes, executed>>

-----------------------------------------------------------------------------
(* mail_receive_messages, from a decoded packet on *)

(* "Same as last code? Quickly reject a rebroadcast": nothing happens. *)
RxRebroadcast(p) ==
  /\ rxPc = "loop"
  /\ p = previous
  /\ UNCHANGED rxVars

(* HMAC ERROR.  The packet is remembered all the same. *)
RxReject(p) ==
  /\ rxPc = "loop"
  /\ p # previous
  /\ ~Authenticates(p, rxCounter)
  /\ previous' = p
  /\ UNCHANGED <<nvVars, rxPc, rxCounter, current, crashes, executed>>

MutRxAcceptNoIncrement(p) ==
  /\ rxPc = "loop"
  /\ p # previous
  /\ Authenticates(p, rxCounter)
  /\ previous' = p
  /\ current' = p
  /\ rxCounter' = NewCounter(p, rxCounter)
  /\ rxPc' = "save"
  /\ UNCHANGED <<nvVars, crashes, executed>>

MutRxAcceptDispatchFirst(p) ==
  /\ rxPc = "loop"
  /\ p # previous
  /\ Authenticates(p, rxCounter)
  /\ previous' = p
  /\ current' = p
  /\ rxCounter' = NewCounter(p, rxCounter) + 1
  /\ rxPc' = "dispatch"
  /\ UNCHANGED <<nvVars, crashes, executed>>

RxAccept(p) ==
  /\ rxPc = "loop"
  /\ p # previous
  /\ Authenticates(p, rxCounter)
  /\ previous' = p
  /\ current' = p
  /\ rxCounter' = NewCounter(p, rxCounter) + 1
  /\ rxPc' = "save"
  /\ UNCHANGED <<nvVars, crashes, executed>>

(* A resync packet has done its work; any other goes to new_packet. *)
RxDispatch ==
  /\ rxPc = "dispatch"
  /\ executed' = IF current.resync THEN executed
                 ELSE Append(executed, [stamp |-> rxCounter - 1, cmd |-> current.body])
  /\ current' = NoPacket
  /\ rxPc' = "loop"
  /\ UNCHANGED <<nvVars, rxCounter, previous, crashes>>

PowerFail ==
  /\ crashes < MaxCrashes
  /\ crashes' = crashes + 1
  /\ rxPc' = "boot"
  /\ rxCounter' = 0
  /\ previous' = NoPacket
  /\ current' = NoPacket
  /\ UNCHANGED <<nvVars, executed>>

(* What the clock does by itself once it has power. *)
RxInternal ==
  \/ RxLoad
  \/ RxReformat
  \/ \E i \in {1, 2} : RxFormatCheck(i)
  \/ RxFormatState
  \/ RxVerify
  \/ RxSave
  \/ RxSaveRest
  \/ RxSaveState
  \/ RxDispatch

RxReceive(p) == RxRebroadcast(p) \/ RxReject(p) \/ RxAccept(p)
=============================================================================
