------------------------------- MODULE Txnc433 -------------------------------
(***************************************************************************)
(* The transmitting side (txnc433/): every command is one run of the       *)
(* program, a process that reads the counter from the secret file,         *)
(* advances it, writes the file and broadcasts one packet.  Nothing locks  *)
(* the file, so processes may overlap, and a process may end at any point  *)
(* (a socket error, a full disk, a signal).                                *)
(***************************************************************************)
EXTENDS Hmac433

CONSTANTS
  Senders,        \* process slots: how many txnc433 processes may overlap
  Resync,         \* the "resync" request
  AdvResync,      \* the "advresync" request
  StartCounters,  \* counters the secret file may begin with
  MaxCounter      \* bound on the counters that are sent

ASSUME RequestsAssumption ==
  /\ Resync \notin Commands
  /\ AdvResync \notin Commands
  /\ Resync # AdvResync
ASSUME TxBoundsAssumption == StartCounters \subseteq Nat /\ MaxCounter \in Nat

Requests == Commands \cup {Resync, AdvResync}

VARIABLES
  fileCounter,  \* secret_file.counter on the disk
  txPc,         \* where each process is in main()
  txCounter,    \* its copy of secret_file.counter
  txRequest,    \* what it was asked to send
  txPacket,     \* its message, once encoded
  air           \* every packet ever handed to sendto()

txVars == <<fileCounter, txPc, txCounter, txRequest, txPacket, air>>

TxTypeOK ==
  /\ fileCounter \in Nat
  /\ txPc \in [Senders -> {"idle", "advance", "encode", "send"}]
  /\ txCounter \in [Senders -> Nat]
  /\ txRequest \in [Senders -> Requests]
  /\ txPacket \in [Senders -> Packet \cup {NoPacket}]
  /\ air \subseteq Packet

TxInit ==
  /\ fileCounter \in StartCounters
  /\ txPc = [s \in Senders |-> "idle"]
  /\ txCounter = [s \in Senders |-> 0]
  /\ txRequest = [s \in Senders |-> Resync]
  /\ txPacket = [s \in Senders |-> NoPacket]
  /\ air = {}

(* The process is over and its memory with it. *)
TxGone(s) ==
  /\ txPc' = [txPc EXCEPT ![s] = "idle"]
  /\ txCounter' = [txCounter EXCEPT ![s] = 0]
  /\ txRequest' = [txRequest EXCEPT ![s] = Resync]
  /\ txPacket' = [txPacket EXCEPT ![s] = NoPacket]

(* main() up to the choice of payload: libnc_init loads the secret file. *)
TxLoad(s, request) ==
  /\ txPc[s] = "idle"
  /\ txCounter' = [txCounter EXCEPT ![s] = fileCounter]
  /\ txRequest' = [txRequest EXCEPT ![s] = request]
  /\ txPc' = [txPc EXCEPT ![s] = IF request = AdvResync THEN "advance" ELSE "encode"]
  /\ UNCHANGED <<fileCounter, txPacket, air>>

(* libnc_advance: leave a gap of 2^16 and save it. *)
TxAdvance(s) ==
  /\ txPc[s] = "advance"
  /\ LET advanced == txCounter[s] + Low * Low
     IN /\ advanced <= MaxCounter
        /\ txCounter' = [txCounter EXCEPT ![s] = advanced]
        /\ fileCounter' = advanced
  /\ txPc' = [txPc EXCEPT ![s] = "encode"]
  /\ UNCHANGED <<txRequest, txPacket, air>>

(* The test in libnc_encode: a receiver one behind would accept it. *)
SelfTest(p, c) == Authenticates(p, c - 1)

MutTxEncodeUnsaved(s) ==
  LET resync == txRequest[s] \notin Commands
      new    == EncodedCounter(resync, txCounter[s])
      packet == EncodedPacket(resync, txRequest[s], txCounter[s])
  IN /\ txPc[s] = "encode"
     /\ new <= MaxCounter
     /\ txCounter' = [txCounter EXCEPT ![s] = new]
     /\ txPacket' = [txPacket EXCEPT ![s] = packet]
     /\ txPc' = [txPc EXCEPT ![s] = "send"]
     /\ UNCHANGED <<fileCounter, txRequest, air>>

(* libnc_encode: stamp, test, then save the counter before anything is sent. *)
TxEncode(s) ==
  LET resync == txRequest[s] \notin Commands
      new    == EncodedCounter(resync, txCounter[s])
      packet == EncodedPacket(resync, txRequest[s], txCounter[s])
      ok     == SelfTest(packet, new)
  IN /\ txPc[s] = "encode"
     /\ new <= MaxCounter
     /\ txCounter' = [txCounter EXCEPT ![s] = new]
     /\ txPacket' = [txPacket EXCEPT ![s] = packet]
     /\ fileCounter' = IF ok THEN new ELSE fileCounter
     /\ txPc' = [txPc EXCEPT ![s] = IF ok THEN "send" ELSE "idle"]
     /\ UNCHANGED <<txRequest, air>>

(* udp_message: sendto(), and the process exits. *)
TxSend(s) ==
  /\ txPc[s] = "send"
  /\ air' = air \cup {txPacket[s]}
  /\ TxGone(s)
  /\ UNCHANGED fileCounter

(* The process ends early: an error return, or it is killed. *)
TxExit(s) ==
  /\ txPc[s] # "idle"
  /\ TxGone(s)
  /\ UNCHANGED <<fileCounter, air>>

TxNext ==
  \E s \in Senders :
    \/ \E request \in Requests : TxLoad(s, request)
    \/ TxAdvance(s)
    \/ TxEncode(s)
    \/ TxSend(s)
    \/ TxExit(s)
=============================================================================
