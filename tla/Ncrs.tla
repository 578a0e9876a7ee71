-------------------------------- MODULE Ncrs --------------------------------
(***************************************************************************)
(* Messages as Reed-Solomon symbols (ncrs.c): ncrs_encode, the radio, and  *)
(* ncrs_decode with its search for the shift of a message whose first or   *)
(* last symbols were lost.                                                 *)
(***************************************************************************)
EXTENDS ReedSolomon

CONSTANTS
  MaxShiftDistance, \* MAX_SHIFT_DISTANCE
  Messages,         \* payloads, bytes numbered from 0, each the set of its bits
  Faults            \* what the radio may do: [shift, errors (position -> mask)]

MessageBytes == (DataLen * SymSize + 7) \div 8
Positions == 0 .. nn - 1
Shifts == -nn .. nn

(* Bit k of an array of words of so many bits, the highest bits first. *)
BitAt(array, width, k) == width - 1 - (k % width) \in array[k \div width]

(* rc has one decimal digit for the shift, and the last bits of a message, *)
(* which are not sent, are 0 (libnc.c:120-130).                            *)
ASSUME NcrsAssumption ==
  /\ nn = 3 * NRoots + 1
  /\ MaxShiftDistance \in 0 .. 4
  /\ Messages \subseteq [0 .. MessageBytes - 1 -> SUBSET (0 .. 7)]
  /\ \A m \in Messages : \A k \in DataLen * SymSize .. 8 * MessageBytes - 1 : ~BitAt(m, 8, k)
  /\ \A f \in Faults :
       f.shift \in Shifts /\ DOMAIN f.errors \subseteq Positions
       /\ \A p \in DOMAIN f.errors : f.errors[p] \in Symbols

VARIABLES
  message,          \* original_message on the sender's side
  encoded_message,  \* what the radio delivers
  shift_attempt,
  rc,               \* what ncrs_decode returns; Running while it runs
  decoded           \* original_message on the receiver's side

vars == <<decodeVars, message, encoded_message, shift_attempt, rc, decoded>>

Running == -1

Pack(m) ==
  [i \in 0 .. DataLen - 1 |-> {j \in Bits : BitAt(m, 8, i * SymSize + SymSize - 1 - j)}]

(* The last byte is only partly used. *)
Unpack(d) ==
  [i \in 0 .. MessageBytes - 1 |->
     {j \in 0 .. 7 : 8 * i + 7 - j < DataLen * SymSize /\ BitAt(d, SymSize, 8 * i + 7 - j)}]

(* Two data symbols, a parity symbol, and so on; one data symbol at last.  *)
Interleaved(d, par) ==
  [p \in Positions |-> IF p % 3 = 2 THEN par[p \div 3] ELSE d[2 * (p \div 3) + (p % 3)]]

ncrs_encode(m) == Interleaved(Pack(m), encode_rs8(Pack(m)))

(* The radio: the whole moves by shift symbols, and some are wrong. *)
At(word, p) == IF p \in Positions THEN word[p] ELSE {}
Radio(word, f) ==
  [p \in Positions |->
     IF p \in DOMAIN f.errors THEN Plus(At(word, p - f.shift), f.errors[p])
                              ELSE At(word, p - f.shift)]

(* A plausible mistake in the definition after it. *)
MutOffset(attempt) == attempt \div 2

(* i - MAX_SHIFT_DISTANCE: how far to the right the attempt starts. *)
Offset(attempt) ==
  IF attempt % 2 = 1 THEN attempt \div 2 ELSE -(attempt \div 2)

(* Zeroes stand in for what is outside of the message. *)
Moved(word, attempt) == [p \in Positions |-> At(word, p + Offset(attempt))]

Deinterleaved(word) ==
  decode_rs8([k \in 0 .. DataLen - 1 |-> word[3 * (k \div 2) + (k % 2)]],
             [j \in 0 .. NRoots - 1 |-> word[3 * j + 2]])

Init ==
  /\ message \in Messages
  /\ \E f \in Faults : encoded_message = Radio(ncrs_encode(message), f)
  /\ shift_attempt = 0
  /\ rc = Running
  /\ decoded = <<>>
  /\ data = <<>>
  /\ parity = <<>>
  /\ s = <<>>
  /\ lambda = <<>>
  /\ b = <<>>
  /\ el = 0
  /\ r = 0
  /\ corrections = -EBADMSG

TryShift(attempt) ==
  /\ shift_attempt' = attempt
  /\ Deinterleaved(Moved(encoded_message, attempt))
  /\ UNCHANGED <<message, encoded_message, rc, decoded>>

(* ncrs_decode is called. *)
Begin == rc = Running /\ data = <<>> /\ TryShift(0)

Decode ==
  /\ rc = Running
  /\ BerlekampMassey \/ Correct
  /\ UNCHANGED <<message, encoded_message, shift_attempt, rc, decoded>>

NextShift ==
  /\ rc = Running /\ data # <<>> /\ corrections < 0 /\ corrections # Undecided
  /\ shift_attempt < 2 * MaxShiftDistance
  /\ TryShift(shift_attempt + 1)

GiveUp ==
  /\ rc = Running /\ data # <<>> /\ corrections < 0 /\ corrections # Undecided
  /\ shift_attempt = 2 * MaxShiftDistance
  /\ rc' = 0
  /\ UNCHANGED <<decodeVars, message, encoded_message, shift_attempt, decoded>>

Success ==
  /\ rc = Running
  /\ corrections >= 0
  /\ decoded' = Unpack(data)
  /\ rc' = 1 + shift_attempt + corrections * 10
  /\ UNCHANGED <<decodeVars, message, encoded_message, shift_attempt>>

Next == Begin \/ Decode \/ NextShift \/ GiveUp \/ Success

Spec == Init /\ [][Next]_vars

-----------------------------------------------------------------------------
(* Properties *)

(* 1 + p[1] x + ... + p[length] x^length gives each of the syndromes seen  *)
(* so far but the first ones from the ones before it.                      *)
Recurrence(p, length) ==
  /\ p[0] = {0}
  /\ \A i \in 0 .. NRoots : i > length => p[i] = {}
  /\ \A n \in length .. r - 1 : PlusAll([i \in 0 .. n |-> Mul(p[i], s[n - i])]) = {}

(* decode_rs.h:124-169: after every step lambda is a recurrence, of length *)
(* el, for all the syndromes seen so far: the invariant that makes the     *)
(* search for the error locations right, whatever the received word is.    *)
LocatorGeneratesSyndromes == data # <<>> => el <= r /\ Recurrence(lambda, el)

Differences(word, other) == Cardinality({p \in Positions : word[p] # other[p]})

(* decode_rs.h:199-208: if the locator has the degree that belongs to its  *)
(* length, a word is only accepted if correcting it gives a word of the    *)
(* code, and the number returned is its distance from the received word.   *)
(* Without that condition TLC finds words, far from every message, that    *)
(* decode_rs8 accepts and corrects to something that is not in the code.   *)
AcceptedIsCodeword ==
  corrections > 0 /\ deg_lambda = el =>
    Differences(Interleaved(data, encode_rs8(data)),
                Moved(encoded_message, shift_attempt)) = corrections

(* Symbols of the message that are wrong after moving what was received.   *)
Wrong(d) == Differences(ncrs_encode(message), [p \in Positions |-> At(encoded_message, p + d)])
Repairable(d) == 2 * Wrong(d) <= NRoots

(* ncrs.c:44-69: a message of which no more symbols than half the parity   *)
(* are lost or wrong, wherever they are and parity included, is recovered  *)
(* to the last bit with the right count, also when the whole has moved --  *)
(* unless a shift tried earlier made something near to another message.    *)
(* The shifts tried do not include the last one to the left.               *)
RecoversWithinCapacity ==
  rc # Running /\ (\E d \in -MaxShiftDistance .. MaxShiftDistance - 1 : Repairable(d)) =>
    /\ rc > 0
    /\ Repairable(Offset(shift_attempt)) =>
         decoded = message /\ (rc - 1) \div 10 = Wrong(Offset(shift_attempt))
=============================================================================
