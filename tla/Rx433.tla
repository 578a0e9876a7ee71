-------------------------------- MODULE Rx433 --------------------------------
(***************************************************************************)
(* The 433MHz decoder: the interrupt handler of rx433.c, called at every   *)
(* rising edge, fed with the pulses of tx433_driver.py.                    *)
(*                                                                         *)
(* The transmitter sends one message at a time, a Home Easy code or a new  *)
(* code.  Every edge comes up to Jitter early or late; edges may be lost   *)
(* and, between them, noise may add others.  Nothing tells the decoder     *)
(* where a transmission begins or ends.                                    *)
(*                                                                         *)
(* Times count from the beginning of the transmission, in parts of Pulse.  *)
(* Only differences of times matter to the handler; they wrap at Word, as  *)
(* those of micros() do, so that the gap before a transmission stands for  *)
(* all gaps equal to it modulo Word.  A code is a sequence of symbols, a   *)
(* symbol the set of its bits that are 1, the first bit being bit 1.       *)
(***************************************************************************)
EXTENDS Integers, Sequences, FiniteSetsExt

CONSTANTS
  Pulse,        \* NC_PULSE, a multiple of 8
  SymbolSize,   \* SYMBOL_SIZE
  DataSize,     \* NC_DATA_SIZE
  MaxSkip,      \* MAX_INCOMPLETE_SKIP
  HeSize,       \* 32, the bits of a Home Easy code
  Word,         \* 2^32
  Codes,        \* the new codes that may be sent
  HeCodes,      \* the Home Easy codes that may be sent
  Attempts,     \* how often write_he repeats its code
  Gaps,         \* times between the last edge and a transmission
  Jitter,
  NoiseTimes,   \* the times at which noise may add an edge
  MaxSent,      \* bound on transmissions
  MaxFaults     \* bound on edges lost and added

Symbol == SUBSET (1 .. SymbolSize)
Code == [1 .. DataSize -> Symbol]
HeCode == SUBSET (1 .. HeSize)

ASSUME DecoderAssumption ==
  /\ Pulse \in Nat \ {0} /\ Pulse % 8 = 0
  /\ SymbolSize \in Nat \ {0} /\ DataSize \in Nat \ {0} /\ HeSize \in Nat \ {0}
  /\ MaxSkip \in Nat /\ MaxSkip < DataSize
  /\ Word \in Nat /\ Word > Pulse * 4 * (SymbolSize + 3)
  /\ Jitter \in Nat
ASSUME TransmitterAssumption ==
  /\ Codes \subseteq Code /\ HeCodes \subseteq HeCode \ {{}}
  /\ Gaps \subseteq Nat /\ NoiseTimes \subseteq Nat
  /\ Attempts \in Nat \ {0} /\ MaxSent \in Nat /\ MaxFaults \in Nat

EPSILON == (Pulse * 3) \div 8
SymbolTime == (Pulse * 5) + (Pulse * 2 * SymbolSize)

(* nc_count when no message is being received: 2^32 - 1, which is only     *)
(* ever compared with NC_DATA_SIZE.                                        *)
Idle == DataSize + 1

Blank == [i \in 1 .. DataSize |-> {}]

VARIABLES
  he_state,
  he_bits,      \* he_bit_count bits so far: he_bit_data, as a sequence of 0 and 1
  home_easy,    \* rx433_home_easy
  nc_count,     \* complete symbols, or Idle
  nc_buffer,
  nc_timebase,
  new_code,     \* rx433_new_code
  old_time,
  sending,      \* what is on the air: [he, code]
  edges,        \* its edges still to come
  whole,        \* no edge of it was lost or added so far
  noisy,        \* history: noise has added an edge
  before,       \* history: what was on the air before
  codes,        \* history: how many new codes were received
  heCodes,      \* history: how many Home Easy codes were received
  sent,
  faults

heVars == <<he_state, he_bits, home_easy, heCodes>>
ncVars == <<nc_count, nc_buffer, nc_timebase, new_code, codes>>
airVars == <<sending, before, sent>>
vars == <<heVars, ncVars, airVars, old_time, edges, whole, noisy, faults>>

HeStates == {"HE_RESET", "HE_RECEIVED_LONG", "HE_RECEIVED_SHORT", "HE_READY_FOR_BIT"}
Message == [he : {FALSE}, code : Code] \cup [he : {TRUE}, code : HeCode]

TypeOK ==
  /\ he_state \in HeStates
  /\ he_bits \in Seq({0, 1}) /\ Len(he_bits) <= HeSize
  /\ home_easy \in HeCode
  /\ nc_count \in (0 .. DataSize - 1) \cup {Idle}
  /\ nc_buffer \in Code
  /\ nc_timebase \in Int
  /\ new_code \in Code
  /\ old_time \in Int
  /\ sending \in Message
  /\ before \in Message
  /\ edges \subseteq Nat
  /\ whole \in BOOLEAN /\ noisy \in BOOLEAN
  /\ codes \in Nat /\ heCodes \in Nat
  /\ sent \in 0 .. MaxSent
  /\ faults \in 0 .. MaxFaults

Nothing == [he |-> TRUE, code |-> {}]

Init ==
  /\ he_state = "HE_RESET"
  /\ he_bits = <<>>
  /\ home_easy = {}
  /\ nc_count = Idle
  /\ nc_buffer = Blank
  /\ nc_timebase = 0
  /\ new_code = Blank
  /\ old_time = 0
  /\ sending = Nothing
  /\ before = Nothing
  /\ edges = {}
  /\ whole = TRUE
  /\ noisy = FALSE
  /\ codes = 0
  /\ heCodes = 0
  /\ sent = 0
  /\ faults = 0

-----------------------------------------------------------------------------
(* tx433_driver.py: the rising edges of a message *)

(* write_nc: 11010, then 10 for a one and 00 for a zero; at the end, 10.   *)
NcEdges(code) ==
  {DataSize * SymbolTime} \cup
    UNION {{(i - 1) * SymbolTime, (i - 1) * SymbolTime + Pulse * 3}
             \cup {(i - 1) * SymbolTime + Pulse * (3 + 2 * bit) : bit \in code[i]} : i \in 1 .. DataSize}

(* The lengths of __send_one, __send_zero, the start and the gap, in the   *)
(* 32nd part of NC_PULSE: 540, 1550, 2920 and 10490 microseconds.          *)
HeLength(parts) == (parts * Pulse) \div 32
HeShort == HeLength(68)
HeLong == HeLength(194)
HeStart == HeLength(365)
HeGap == HeLength(1311)
HeTime == HeStart + HeSize * (HeShort + HeLong) + HeGap

(* write_he: a one is sent as long and short, a zero as short and long. *)
HeEdges(code) ==
  LET bitAt(i) == HeStart + (i - 1) * (HeShort + HeLong)
      attempt == {0} \cup {bitAt(i) : i \in 1 .. HeSize + 1}
                   \cup {bitAt(i) + (IF i \in code THEN HeLong ELSE HeShort) : i \in 1 .. HeSize}
  IN {n * HeTime + t : n \in 0 .. Attempts - 1, t \in attempt}

Send(message, gap) ==
  /\ edges = {}
  /\ sent < MaxSent
  /\ sent' = sent + 1
  /\ before' = sending
  /\ sending' = message
  /\ edges' = IF message.he THEN HeEdges(message.code) ELSE NcEdges(message.code)
  /\ old_time' = -gap
  /\ nc_timebase' = nc_timebase - (old_time + gap)
  /\ whole' = TRUE
  /\ UNCHANGED <<heVars, nc_count, nc_buffer, new_code, codes, noisy, faults>>

-----------------------------------------------------------------------------
(* rx433_interrupt, the Home Easy decoder, for a difference of delta *)

HeTimes(delta, classes) == delta \div (Pulse \div 2) \in classes
IsShort(delta) == HeTimes(delta, {3, 4, 5})
IsLong(delta) == HeTimes(delta, {11, 12})
IsStart(delta) == HeTimes(delta, {22, 23})

HeBegin(delta) ==
  /\ IsStart(delta)
  /\ he_state' = "HE_READY_FOR_BIT"
  /\ he_bits' = <<>>
  /\ UNCHANGED <<home_easy, heCodes>>

HeHalfBit(delta) ==
  /\ he_state = "HE_READY_FOR_BIT"
  /\ IsShort(delta) \/ IsLong(delta)
  /\ he_state' = IF IsShort(delta) THEN "HE_RECEIVED_SHORT" ELSE "HE_RECEIVED_LONG"
  /\ UNCHANGED <<he_bits, home_easy, heCodes>>

(* The second half of a bit: the code is complete with the last one. *)
HeBit(delta) ==
  /\ \/ he_state = "HE_RECEIVED_LONG" /\ IsShort(delta) /\ he_bits' = Append(he_bits, 1)
     \/ he_state = "HE_RECEIVED_SHORT" /\ IsLong(delta) /\ he_bits' = Append(he_bits, 0)
  /\ IF Len(he_bits') = HeSize
       THEN /\ he_state' = "HE_RESET"
            /\ home_easy' = {i \in 1 .. HeSize : he_bits'[i] = 1}
            /\ heCodes' = heCodes + 1
       ELSE /\ he_state' = "HE_READY_FOR_BIT"
            /\ UNCHANGED <<home_easy, heCodes>>

HeError(delta) ==
  ~ \/ IsStart(delta)
    \/ he_state = "HE_READY_FOR_BIT" /\ (IsShort(delta) \/ IsLong(delta))
    \/ he_state = "HE_RECEIVED_LONG" /\ IsShort(delta)
    \/ he_state = "HE_RECEIVED_SHORT" /\ IsLong(delta)

(* Each definition named Mut... is a plausible mistake in the one after it. *)
MutHeResetIgnored(delta) ==
  /\ HeError(delta)
  /\ UNCHANGED heVars

HeReset(delta) ==
  /\ HeError(delta)
  /\ he_state' = "HE_RESET"
  /\ UNCHANGED <<he_bits, home_easy, heCodes>>

HeDecode(delta) == HeBegin(delta) \/ HeHalfBit(delta) \/ HeBit(delta) \/ HeReset(delta)

-----------------------------------------------------------------------------
(* rx433_interrupt, the new code decoder, at time now *)

(* IS_CLOSE, in unsigned arithmetic *)
IsClose(delta, centre) == (delta + EPSILON - centre) % Word < EPSILON * 2

Delivered(code) == new_code' = code /\ codes' = codes + 1
NotDelivered == UNCHANGED <<new_code, codes>>

SinceBase(now) == (now - nc_timebase) % Word

(* The rounds of the loop over skipped symbols. *)
Skip(now) ==
  IF nc_count = Idle THEN 0
  ELSE CHOOSE n \in 0 .. DataSize - nc_count :
         /\ n = DataSize - nc_count \/ 2 * (SinceBase(now) - n * SymbolTime) <= SymbolTime * 3
         /\ \A m \in 0 .. n - 1 : 2 * (SinceBase(now) - m * SymbolTime) > SymbolTime * 3

MutNcNewMessageKeepsBits(now) ==
  /\ nc_count + Skip(now) >= DataSize
  /\ IF nc_count + Skip(now) = DataSize /\ Skip(now) <= MaxSkip
       THEN Delivered(nc_buffer) ELSE NotDelivered
  /\ nc_count' = 0
  /\ nc_timebase' = now
  /\ UNCHANGED nc_buffer

(* A start code while nothing is being received, or after a message whose  *)
(* last symbols did not arrive.                                            *)
NcNewMessage(now) ==
  /\ nc_count + Skip(now) >= DataSize
  /\ IF nc_count + Skip(now) = DataSize /\ Skip(now) <= MaxSkip
       THEN Delivered(nc_buffer) ELSE NotDelivered
  /\ nc_count' = 0
  /\ nc_timebase' = now
  /\ nc_buffer' = Blank

(* The start code of a further symbol, or one at the wrong time. *)
NcContinues(now) ==
  LET base == nc_timebase + Skip(now) * SymbolTime
  IN /\ nc_count + Skip(now) < DataSize
     /\ nc_count' = nc_count + Skip(now)
     /\ nc_timebase' = IF IsClose((now - base) % Word, SymbolTime) THEN now ELSE base
     /\ UNCHANGED nc_buffer
     /\ NotDelivered

Bit(now) == (SinceBase(now) + Pulse) \div (Pulse * 2)
BitAccepted(now) == Bit(now) # 0 /\ IsClose(Pulse * 2 * Bit(now), SinceBase(now))

NcNoise(now) ==
  /\ ~BitAccepted(now)
  /\ UNCHANGED ncVars

NcDataBit(now) ==
  /\ BitAccepted(now)
  /\ Bit(now) <= SymbolSize
  /\ nc_buffer' = [nc_buffer EXCEPT ![nc_count + 1] = @ \cup {Bit(now)}]
  /\ UNCHANGED <<nc_count, nc_timebase>>
  /\ NotDelivered

MutNcStopBitStays(now) ==
  /\ BitAccepted(now)
  /\ Bit(now) > SymbolSize
  /\ nc_count' = nc_count + 1
  /\ IF nc_count + 1 = DataSize THEN Delivered(nc_buffer) ELSE NotDelivered
  /\ UNCHANGED <<nc_buffer, nc_timebase>>

(* The end of a symbol, and with the last one that of the message. *)
NcStopBit(now) ==
  /\ BitAccepted(now)
  /\ Bit(now) > SymbolSize
  /\ IF nc_count + 1 = DataSize
       THEN nc_count' = Idle /\ Delivered(nc_buffer)
       ELSE nc_count' = nc_count + 1 /\ NotDelivered
  /\ UNCHANGED <<nc_buffer, nc_timebase>>

MutNcTooLateWaits(now) ==
  /\ SinceBase(now) >= SymbolTime + EPSILON
  /\ IF nc_count + MaxSkip >= DataSize THEN Delivered(nc_buffer) ELSE NotDelivered
  /\ UNCHANGED <<nc_count, nc_buffer, nc_timebase>>

(* No symbol goes on for so long: the message is over. *)
NcTooLate(now) ==
  /\ SinceBase(now) >= SymbolTime + EPSILON
  /\ IF nc_count + MaxSkip >= DataSize THEN Delivered(nc_buffer) ELSE NotDelivered
  /\ nc_count' = Idle
  /\ UNCHANGED <<nc_buffer, nc_timebase>>

NcDecode(now, delta) ==
  IF IsClose(delta, Pulse * 3)
    THEN NcNewMessage(now) \/ NcContinues(now)
    ELSE \/ nc_count = Idle /\ UNCHANGED ncVars
         \/ /\ nc_count # Idle
            /\ SinceBase(now) < SymbolTime + EPSILON
            /\ NcNoise(now) \/ NcDataBit(now) \/ NcStopBit(now)
         \/ nc_count # Idle /\ NcTooLate(now)

rx433_interrupt(now) ==
  LET delta == (now - old_time) % Word
  IN /\ old_time' = now
     /\ HeDecode(delta)
     /\ NcDecode(now, delta)

-----------------------------------------------------------------------------
Edge ==
  /\ edges # {}
  /\ \E j \in -Jitter .. Jitter : rx433_interrupt(Min(edges) + j)
  /\ edges' = edges \ {Min(edges)}
  /\ UNCHANGED <<airVars, whole, noisy, faults>>

LoseEdge ==
  /\ edges # {}
  /\ faults < MaxFaults
  /\ faults' = faults + 1
  /\ edges' = edges \ {Min(edges)}
  /\ whole' = FALSE
  /\ UNCHANGED <<heVars, ncVars, airVars, old_time, noisy>>

AddEdge ==
  /\ edges # {}
  /\ faults < MaxFaults
  /\ faults' = faults + 1
  /\ \E t \in NoiseTimes : old_time < t /\ t < Min(edges) - Jitter /\ rx433_interrupt(t)
  /\ whole' = FALSE
  /\ noisy' = TRUE
  /\ UNCHANGED <<airVars, edges>>

Next ==
  \/ \E code \in Codes, gap \in Gaps : Send([he |-> FALSE, code |-> code], gap)
  \/ \E code \in HeCodes, gap \in Gaps : Send([he |-> TRUE, code |-> code], gap)
  \/ Edge
  \/ LoseEdge
  \/ AddEdge

Spec == Init /\ [][Next]_vars

-----------------------------------------------------------------------------
(* Properties *)

(* A transmission that arrives whole is decoded exactly, whatever state    *)
(* the decoder was left in by what came before it.                         *)
WholeIsDecoded ==
  whole /\ edges = {} /\ sent > 0 =>
    IF sending.he THEN home_easy = sending.code ELSE new_code = sending.code

(* The symbols of code, moved by some distance and with bits missing. *)
ErasedAndShifted(code, original) ==
  \E shift \in -DataSize .. DataSize :
    \A i \in 1 .. DataSize :
      code[i] # {} => i + shift \in 1 .. DataSize /\ code[i] \subseteq original[i + shift]

(* ncrs.c:41-59 tries the symbols at different distances: lost edges only  *)
(* erase bits and move the message as a whole, never a part of it, and     *)
(* never mix two messages.  Noise may add bits, and only noise leads into  *)
(* the loop over skipped symbols of rx433.c:116.                           *)
LossesShiftTheWhole ==
  [][codes' # codes /\ ~noisy' =>
       \E message \in {sending, before} :
         ~message.he /\ ErasedAndShifted(new_code', message.code)]_vars

(* Home Easy codes have no check of any kind: lost edges never make one    *)
(* that was not sent, and new codes never look like one.                   *)
HomeEasyExact ==
  [][heCodes' # heCodes /\ ~noisy' => sending.he /\ home_easy' = sending.code]_vars
=============================================================================
