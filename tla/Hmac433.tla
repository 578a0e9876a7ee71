------------------------------- MODULE Hmac433 -------------------------------
(***************************************************************************)
(* The authenticated packets of the 433MHz link (hmac433.c): how a sender  *)
(* stamps a packet with its message counter and how the clock rebuilds the *)
(* full counter from the byte that is transmitted.                         *)
(*                                                                         *)
(* A packet carries one byte of the counter; the other seven are inputs of *)
(* the HMAC only.  The HMAC is ideal here: it is the pair of its inputs,   *)
(* so that two packets have the same HMAC iff they sign the same thing.    *)
(* As in the code, it does not cover counter_low or counter_resync_flag.   *)
(*                                                                         *)
(* A counter is a natural number: the program's uint64_t starts at 1 and   *)
(* one command adds at most 2^16 + 2^8 to it.                              *)
(***************************************************************************)
EXTENDS Integers

CONSTANTS
  Low,        \* 0x100: how many values the transmitted counter byte has
  Commands,   \* the payloads of ordinary packets
  NoMac,      \* the hmac field of a packet damaged on its way
  NoPacket    \* packet memory that is still clear

ASSUME LowAssumption == Low \in Nat \ {0, 1}
ASSUME CommandsAssumption == Commands \cap Nat = {}

Body == Commands \cup Nat

Mac == [ctr : Nat, body : Body]

ASSUME NoMacAssumption == NoMac \notin Mac

Packet == [resync : BOOLEAN, low : 0 .. Low - 1, body : Body, mac : Mac \cup {NoMac}]

ASSUME NoPacketAssumption == NoPacket \notin Packet

(* counter & ~0xff *)
Align(c) == c - (c % Low)

-----------------------------------------------------------------------------
(* hmac433_encode: advance the counter, then sign under the new value. *)

(* The definitions named Mut... are plausible mistakes; TLC runs with each in *)
(* place of the definition it is a mistake in, so that a property notices. *)
MutEncodedCounterNoStep(resync, c) == IF resync THEN Align(c) ELSE c + 1

EncodedCounter(resync, c) == IF resync THEN Align(c + Low) ELSE c + 1

MutEncodedPacketOldCounter(resync, cmd, c) ==
  LET new  == EncodedCounter(resync, c)
      body == IF resync THEN new \div (Low * Low) ELSE cmd
      low  == IF resync THEN (new \div Low) % Low ELSE new % Low
  IN [resync |-> resync, low |-> low, body |-> body,
      mac |-> [ctr |-> c, body |-> body]]

(* A resync packet has no payload of its own: its payload is bits 63..16   *)
(* of the counter, its counter byte is bits 15..8, and bits 7..0 are zero. *)
EncodedPacket(resync, cmd, c) ==
  LET new  == EncodedCounter(resync, c)
      body == IF resync THEN new \div (Low * Low) ELSE cmd
      low  == IF resync THEN (new \div Low) % Low ELSE new % Low
  IN [resync |-> resync, low |-> low, body |-> body,
      mac |-> [ctr |-> new, body |-> body]]

-----------------------------------------------------------------------------
(* hmac433_authenticate: the counter the packet claims, as the receiver    *)
(* rebuilds it from its own counter c.                                     *)

MutOrdinaryCarryAtEqual(low, c) ==
  LET spliced == Align(c) + low
  IN IF spliced <= c THEN spliced + Low ELSE spliced

OrdinaryCounter(low, c) ==
  LET spliced == Align(c) + low
  IN IF spliced < c THEN spliced + Low ELSE spliced

ResyncCounter(p) == (p.body * Low + p.low) * Low

NewCounter(p, c) ==
  IF p.resync THEN ResyncCounter(p) ELSE OrdinaryCounter(p.low, c)

MutAuthenticatesAnyResync(p, c) ==
  p.mac = [ctr |-> NewCounter(p, c), body |-> p.body]

Authenticates(p, c) ==
  /\ p.resync => NewCounter(p, c) >= c
  /\ p.mac = [ctr |-> NewCounter(p, c), body |-> p.body]

(* A packet as hmac433_encode made it: its fields agree with its HMAC. *)
Stamped(p) ==
  /\ p.mac \in Mac
  /\ p.mac.body = p.body
  /\ ~p.resync => p.body \in Commands /\ p.low = p.mac.ctr % Low
  /\ p.resync => p.body \in Nat /\ ResyncCounter(p) = p.mac.ctr

(* A copy whose hmac no longer matches, as noise that gets past the        *)
(* Reed-Solomon decoder produces.                                          *)
Damaged(p) == [p EXCEPT !.mac = NoMac]
=============================================================================
