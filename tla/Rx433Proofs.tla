---------------------------- MODULE Rx433Proofs ----------------------------
(* Theorems about the 433MHz decoder, for every size of a symbol and of a  *)
(* message, every jitter, and any number of lost and added edges.          *)
EXTENDS Rx433, FunctionTheorems, WellFoundedInduction, TLAPS

-----------------------------------------------------------------------------
(* Numbers *)

(* A set of natural numbers has a least member. *)
LEMMA LeastNumber ==
  ASSUME NEW T, T \subseteq Nat, T # {}
  PROVE  \E m \in T : \A n \in T : m <= n
  <1> DEFINE less == OpToRel(<, Nat)
  <1>1. PICK m \in T : \A n \in T : <<n, m>> \notin less
    BY NatLessThanWellFounded, WFMin
  <1>2. \A n \in T : ~(n < m)
    BY <1>1 DEF OpToRel
  <1>3. \A n \in T : m <= n
    BY <1>2
  <1> QED
    BY <1>3

LEMMA MinOfNumbers ==
  ASSUME NEW T, T \subseteq Nat, T # {}
  PROVE  Min(T) \in T /\ \A n \in T : Min(T) <= n
  BY LeastNumber DEF Min

(* A product with a number that is not negative keeps the order. *)
LEMMA ProductGrows ==
  ASSUME NEW a \in Int, NEW b \in Int, NEW d \in Nat, a <= b
  PROVE  a * d <= b * d
  <1>1. (b - a) * d >= 0
    OBVIOUS
  <1>2. (b - a) * d = b * d - a * d
    OBVIOUS
  <1> QED
    BY <1>1, <1>2

(* The bounds of a quotient. *)
LEMMA Quotient ==
  ASSUME NEW x \in Int, NEW d \in Nat \ {0}, NEW a \in Int, NEW b \in Int,
         a * d <= x, x < b * d
  PROVE  a <= x \div d /\ x \div d < b /\ x \div d \in Int
  <1> DEFINE q == x \div d
  <1>1. q \in Int /\ x = q * d + (x % d) /\ x % d \in 0 .. d - 1
    OBVIOUS
  <1>2. q * d <= x /\ x < q * d + d
    BY <1>1
  <1>3. (q + 1) * d = q * d + d
    BY <1>1
  <1> HIDE DEF q
  <1>4. a <= q
    <2>1. ~(q + 1 <= a)
      BY <1>1, <1>2, <1>3, ProductGrows
    <2> QED
      BY <1>1, <2>1
  <1>5. q < b
    <2>1. ~(b <= q)
      BY <1>1, <1>2, ProductGrows
    <2> QED
      BY <1>1, <2>1
  <1> QED
    BY <1>1, <1>4, <1>5 DEF q

(* The remainder of a number below the divisor, of any, and of a sum. *)
LEMMA SmallRemainder ==
  ASSUME NEW w \in Nat \ {0}, NEW x \in 0 .. w - 1
  PROVE  x % w = x
  OBVIOUS

LEMMA Remainder ==
  ASSUME NEW w \in Nat \ {0}, NEW x \in Int, NEW k \in Int, NEW r \in 0 .. w - 1,
         x = k * w + r
  PROVE  x % w = r
  <1> DEFINE q == x \div w
  <1>1. x % w = x - q * w /\ q \in Int /\ x % w \in Int
    OBVIOUS
  <1>2. k * w \in Int /\ (k + 1) * w = k * w + w /\ k + 1 \in Int
    OBVIOUS
  <1>3. k * w <= x /\ x < (k + 1) * w
    BY <1>2
  <1>4. k <= x \div w /\ x \div w < k + 1
    BY <1>2, <1>3, Quotient
  <1>5. q = k
    BY <1>1, <1>4
  <1> QED
    BY <1>1, <1>2, <1>5

LEMMA RemainderOfSum ==
  ASSUME NEW w \in Nat \ {0}, NEW x \in Int, NEW y \in Int
  PROVE  (x + y) % w = ((x % w) + y) % w
  <1> DEFINE q == x \div w
             z == (x % w) + y
             k == z \div w
  <1>1. x = q * w + (x % w) /\ q \in Int /\ x % w \in Int
    OBVIOUS
  <1>2. z \in Int
    BY <1>1
  <1> HIDE DEF z
  <1>3. z = k * w + (z % w) /\ k \in Int /\ z % w \in 0 .. w - 1
    BY <1>2
  <1> HIDE DEF k, q
  <1>4. x + y = q * w + z
    BY <1>1 DEF z
  <1>5. (q + k) * w = q * w + k * w /\ q * w \in Int /\ k * w \in Int
    BY <1>1, <1>3
  <1>6. x + y = (q + k) * w + (z % w)
    BY <1>3, <1>4, <1>5
  <1>7. q + k \in Int /\ x + y \in Int
    BY <1>1, <1>3
  <1>8. (x + y) % w = z % w
    BY <1>3, <1>6, <1>7, Remainder
  <1> QED
    BY <1>8 DEF z

(* Products of numbers below a period are ordered by the multiple first. *)
LEMMA OrderOfPlaces ==
  ASSUME NEW d \in Nat, NEW a \in Int, NEW b \in Int, NEW x \in Int, NEW y \in Int,
         0 <= x, x < d, 0 <= y, y < d, a * d + x > b * d + y
  PROVE  b < a \/ (a = b /\ x > y)
  <1>1. a * d \in Int /\ b * d \in Int /\ (a + 1) * d = a * d + d
    OBVIOUS
  <1>2. ~(a + 1 <= b)
    BY <1>1, ProductGrows
  <1>3. a = b => x > y
    BY <1>1
  <1> QED
    BY <1>2, <1>3

LEMMA LaterPlace ==
  ASSUME NEW d \in Nat, NEW a \in Int, NEW b \in Int, NEW x \in Int, NEW y \in Int,
         0 <= x, x < d, 0 <= y, y < d, b < a \/ (a = b /\ x > y)
  PROVE  a * d + x > b * d + y
  <1>1. a * d \in Int /\ b * d \in Int /\ (b + 1) * d = b * d + d
    OBVIOUS
  <1>2. CASE b < a
    <2>1. (b + 1) * d <= a * d
      BY <1>2, ProductGrows
    <2> QED
      BY <1>1, <2>1
  <1> QED
    BY <1>1, <1>2

(* The lengths of the transmitter are whole numbers. *)
LEMMA Lengths ==
  /\ Pulse \in Nat \ {0} /\ SymbolSize \in Nat \ {0} /\ DataSize \in Nat \ {0}
  /\ HeSize \in Nat \ {0} /\ Word \in Nat \ {0} /\ MaxSkip \in Nat /\ MaxSkip < DataSize
  /\ Jitter \in Nat /\ Attempts \in Nat \ {0}
  /\ SymbolTime \in Nat /\ EPSILON \in Nat /\ Idle \in Nat
  <1> USE DecoderAssumption, TransmitterAssumption
  <1>1. Pulse * 2 * SymbolSize \in Nat /\ Pulse * 5 \in Nat
    OBVIOUS
  <1>2. Pulse * 4 * (SymbolSize + 3) \in Nat
    OBVIOUS
  <1>3. Word > 0
    BY <1>2
  <1>4. (Pulse * 3) \div 8 \in Nat
    OBVIOUS
  <1> QED
    BY <1>1, <1>3, <1>4 DEF SymbolTime, EPSILON, Idle

(* A sequence keeps its type when something of the type is appended. *)
LEMMA Appended ==
  ASSUME NEW q \in Seq({0, 1}), NEW x \in {0, 1}
  PROVE  /\ Append(q, x) \in Seq({0, 1})
         /\ Len(Append(q, x)) = Len(q) + 1 /\ Len(q) \in Nat
  OBVIOUS

-----------------------------------------------------------------------------
(* The transmitter *)

(* Every edge of write_nc is at a whole number of parts of a pulse. *)
LEMMA NcEdgesAreTimes ==
  ASSUME NEW code \in Code
  PROVE  NcEdges(code) \subseteq Nat
  <1> USE Lengths
  <1>1. ASSUME NEW i \in 1 .. DataSize
        PROVE  (i - 1) * SymbolTime \in Nat
    OBVIOUS
  <1>2. ASSUME NEW i \in 1 .. DataSize, NEW bit \in code[i]
        PROVE  (i - 1) * SymbolTime + Pulse * (3 + 2 * bit) \in Nat
    <2>1. bit \in 1 .. SymbolSize
      BY DEF Code, Symbol
    <2>2. Pulse * (3 + 2 * bit) \in Nat
      BY <2>1
    <2> QED
      BY <1>1, <2>2
  <1>3. ASSUME NEW i \in 1 .. DataSize
        PROVE  (i - 1) * SymbolTime + Pulse * 3 \in Nat
    BY <1>1
  <1>4. DataSize * SymbolTime \in Nat
    OBVIOUS
  <1>5. ASSUME NEW i \in 1 .. DataSize
        PROVE  {(i - 1) * SymbolTime, (i - 1) * SymbolTime + Pulse * 3}
                 \cup {(i - 1) * SymbolTime + Pulse * (3 + 2 * bit) : bit \in code[i]} \subseteq Nat
    BY <1>1, <1>2, <1>3
  <1> HIDE Lengths
  <1> QED
    BY <1>4, <1>5 DEF NcEdges

(* And of write_he. *)
LEMMA HeEdgesAreTimes ==
  ASSUME NEW code \in HeCode
  PROVE  HeEdges(code) \subseteq Nat
  <1>1. ASSUME NEW parts \in Nat
        PROVE  HeLength(parts) \in Nat
    <2>1. parts * Pulse \in Nat
      BY Lengths
    <2> QED
      BY <2>1 DEF HeLength
  <1>2. HeShort \in Nat /\ HeLong \in Nat /\ HeStart \in Nat /\ HeGap \in Nat
    BY <1>1 DEF HeShort, HeLong, HeStart, HeGap
  <1> DEFINE step == HeShort + HeLong
             bitAt(i) == HeStart + (i - 1) * step
             attempt == {0} \cup {bitAt(i) : i \in 1 .. HeSize + 1}
                          \cup {bitAt(i) + (IF i \in code THEN HeLong ELSE HeShort) : i \in 1 .. HeSize}
  <1>3. step \in Nat
    BY <1>2
  <1>4. HeTime \in Nat
    <2>1. HeSize * step \in Nat
      BY <1>3, Lengths
    <2> HIDE DEF step
    <2> QED
      BY <1>2, <2>1 DEF HeTime, step
  <1> HIDE DEF step
  <1>5. ASSUME NEW i \in 1 .. HeSize + 1
        PROVE  bitAt(i) \in Nat
    <2>1. (i - 1) * step \in Nat
      BY <1>3, Lengths
    <2> QED
      BY <1>2, <2>1
  <1> HIDE DEF bitAt
  <1>6. ASSUME NEW i \in 1 .. HeSize
        PROVE  bitAt(i) + (IF i \in code THEN HeLong ELSE HeShort) \in Nat
    <2>1. i \in 1 .. HeSize + 1
      BY Lengths
    <2>2. bitAt(i) \in Nat
      BY <1>5, <2>1
    <2> QED
      BY <1>2, <2>2
  <1>7. attempt \subseteq Nat
    BY <1>5, <1>6
  <1> HIDE DEF attempt
  <1>8. ASSUME NEW n \in 0 .. Attempts - 1, NEW t \in attempt
        PROVE  n * HeTime + t \in Nat
    <2>1. n * HeTime \in Nat
      BY <1>4, Lengths
    <2> QED
      BY <1>7, <2>1
  <1>9. HeEdges(code) = {n * HeTime + t : n \in 0 .. Attempts - 1, t \in attempt}
    BY DEF HeEdges, attempt, bitAt, step
  <1> QED
    BY <1>8, <1>9

-----------------------------------------------------------------------------
(* The decoder stays in its states *)

(* A Home Easy code that is being received is not complete. *)
DecoderInv ==
  /\ TypeOK
  /\ he_state # "HE_RESET" => Len(he_bits) < HeSize

(* The parts of it that the two decoders change. *)
HeOK ==
  /\ he_state \in HeStates
  /\ he_bits \in Seq({0, 1}) /\ Len(he_bits) <= HeSize
  /\ home_easy \in HeCode /\ heCodes \in Nat
  /\ he_state # "HE_RESET" => Len(he_bits) < HeSize
NcOK ==
  /\ nc_count \in (0 .. DataSize - 1) \cup {Idle} /\ nc_buffer \in Code
  /\ nc_timebase \in Int /\ new_code \in Code /\ codes \in Nat

LEMMA BlankIsCode == Blank \in Code
  BY DEF Blank, Code, Symbol

LEMMA InitDecoderInv == Init => DecoderInv
  <1> SUFFICES ASSUME Init PROVE DecoderInv
    OBVIOUS
  <1>1. Nothing \in Message
    BY DEF Nothing, Message, HeCode
  <1>2. 0 \in 0 .. MaxSent /\ 0 \in 0 .. MaxFaults
    BY TransmitterAssumption
  <1>3. <<>> \in Seq({0, 1}) /\ Len(<<>>) = 0 /\ HeSize \in Nat
    BY Lengths
  <1>4. /\ he_bits \in Seq({0, 1}) /\ Len(he_bits) <= HeSize
        /\ he_state \in HeStates /\ he_state = "HE_RESET"
    BY <1>3 DEF Init, HeStates
  <1>5. home_easy \in HeCode /\ nc_buffer \in Code /\ new_code \in Code
        /\ nc_count \in (0 .. DataSize - 1) \cup {Idle}
    BY BlankIsCode DEF Init, HeCode
  <1>6. /\ sending \in Message /\ before \in Message /\ edges \subseteq Nat
        /\ whole \in BOOLEAN /\ noisy \in BOOLEAN
    BY <1>1 DEF Init
  <1>7. /\ nc_timebase \in Int /\ old_time \in Int /\ codes \in Nat /\ heCodes \in Nat
        /\ sent \in 0 .. MaxSent /\ faults \in 0 .. MaxFaults
    BY <1>2 DEF Init
  <1> QED
    BY <1>4, <1>5, <1>6, <1>7 DEF DecoderInv, TypeOK

(* rx433.c never takes a symbol or a bit too many: every bit that ends a   *)
(* code leaves the decoder in a state where no bit is expected.            *)
LEMMA HeDecodeKeeps ==
  ASSUME HeOK, NEW delta, HeDecode(delta)
  PROVE  HeOK'
  <1> USE Lengths
  <1>1. CASE HeBegin(delta)
    <2>1. <<>> \in Seq({0, 1}) /\ Len(<<>>) = 0
      OBVIOUS
    <2> QED
      BY <1>1, <2>1 DEF HeBegin, HeOK, HeStates
  <1>2. CASE HeHalfBit(delta)
    BY <1>2 DEF HeHalfBit, HeOK, HeStates
  <1>3. CASE HeBit(delta)
    <2>1. PICK x \in {0, 1} : he_bits' = Append(he_bits, x) /\ he_state # "HE_RESET"
      BY <1>3 DEF HeBit
    <2>2. /\ he_bits' \in Seq({0, 1}) /\ Len(he_bits') = Len(he_bits) + 1
          /\ Len(he_bits) \in Nat /\ Len(he_bits) < HeSize
      BY <2>1, Appended DEF HeOK
    <2>3. CASE Len(he_bits') = HeSize
      <3>1. he_state' = "HE_RESET" /\ heCodes' = heCodes + 1
            /\ home_easy' = {i \in 1 .. HeSize : he_bits'[i] = 1}
        BY <1>3, <2>3 DEF HeBit
      <3>2. home_easy' \in HeCode
        BY <3>1 DEF HeCode
      <3> QED
        BY <2>2, <2>3, <3>1, <3>2 DEF HeOK, HeStates
    <2>4. CASE Len(he_bits') # HeSize
      <3>1. he_state' = "HE_READY_FOR_BIT" /\ UNCHANGED <<home_easy, heCodes>>
        BY <1>3, <2>4 DEF HeBit
      <3>2. Len(he_bits') < HeSize
        BY <2>2, <2>4
      <3> QED
        BY <2>2, <3>1, <3>2 DEF HeOK, HeStates
    <2> QED
      BY <2>3, <2>4
  <1>4. CASE HeReset(delta)
    BY <1>4 DEF HeReset, HeOK, HeStates
  <1> QED
    BY <1>1, <1>2, <1>3, <1>4 DEF HeDecode

(* The loop over skipped symbols ends at the end of the buffer. *)
LEMMA SkipInBuffer ==
  ASSUME NcOK, nc_count # Idle, NEW now \in Int
  PROVE  /\ Skip(now) \in 0 .. DataSize - nc_count
         /\ Skip(now) = DataSize - nc_count \/ 2 * (SinceBase(now) - Skip(now) * SymbolTime) <= SymbolTime * 3
         /\ \A m \in 0 .. Skip(now) - 1 : 2 * (SinceBase(now) - m * SymbolTime) > SymbolTime * 3
  <1> DEFINE last == DataSize - nc_count
             enough(n) == n = last \/ 2 * (SinceBase(now) - n * SymbolTime) <= SymbolTime * 3
             T == {n \in 0 .. last : enough(n)}
             wanted(n) == enough(n) /\ \A m \in 0 .. n - 1 : 2 * (SinceBase(now) - m * SymbolTime) > SymbolTime * 3
  <1>1. last \in Nat /\ nc_count \in Nat /\ SinceBase(now) \in Int /\ SymbolTime \in Nat
    BY Lengths DEF NcOK, SinceBase
  <1>2. last \in T /\ T \subseteq Nat
    BY <1>1
  <1>3. PICK k \in T : \A n \in T : k <= n
    <2> HIDE DEF T
    <2> QED
      BY <1>2, LeastNumber
  <1>4. ASSUME NEW m \in 0 .. k - 1
        PROVE  2 * (SinceBase(now) - m * SymbolTime) > SymbolTime * 3
    <2>1. m \in 0 .. last /\ m \in Nat /\ ~(k <= m)
      BY <1>1, <1>3
    <2>2. ~enough(m)
      BY <1>3, <2>1
    <2>3. m * SymbolTime \in Nat
      BY <1>1, <2>1
    <2> QED
      BY <1>1, <2>2, <2>3
  <1>5. k \in 0 .. last /\ wanted(k)
    BY <1>3, <1>4
  <1>6. Skip(now) = CHOOSE n \in 0 .. last : wanted(n)
    BY DEF Skip
  <1> HIDE DEF wanted, last
  <1>7. Skip(now) \in 0 .. last /\ wanted(Skip(now))
    BY <1>5, <1>6
  <1> QED
    BY <1>7 DEF wanted, last

(* nor a data bit at a place that the buffer does not have. *)
LEMMA NcDecodeKeeps ==
  ASSUME NcOK, NEW now \in Int, NEW delta, NcDecode(now, delta)
  PROVE  NcOK'
  <1>1. /\ DataSize \in Nat \ {0} /\ Idle = DataSize + 1 /\ SymbolTime \in Nat
        /\ Pulse \in Nat \ {0} /\ Word \in Nat \ {0} /\ SymbolSize \in Nat
    BY Lengths DEF Idle
  <1>2. /\ nc_count \in (0 .. DataSize - 1) \cup {Idle} /\ nc_buffer \in Code
        /\ nc_timebase \in Int /\ new_code \in Code /\ codes \in Nat
    BY DEF NcOK
  <1>3. Skip(now) \in Nat /\ (nc_count = Idle => Skip(now) = 0)
    <2>1. CASE nc_count = Idle
      BY <2>1 DEF Skip
    <2>2. CASE nc_count # Idle
      <3>1. Skip(now) \in 0 .. DataSize - nc_count
        BY <2>2, SkipInBuffer
      <3> QED
        BY <2>2, <3>1
    <2> QED
      BY <2>1, <2>2
  <1>4. ASSUME Delivered(nc_buffer) \/ NotDelivered
        PROVE  new_code' \in Code /\ codes' \in Nat
    BY <1>2, <1>4 DEF Delivered, NotDelivered
  <1>5. CASE NcNewMessage(now)
    <2>1. /\ nc_count' = 0 /\ nc_timebase' = now /\ nc_buffer' = Blank
          /\ Delivered(nc_buffer) \/ NotDelivered
      BY <1>5 DEF NcNewMessage
    <2> QED
      BY <1>1, <1>4, <2>1, BlankIsCode DEF NcOK
  <1>6. CASE NcContinues(now)
    <2>1. /\ nc_count + Skip(now) < DataSize /\ nc_count' = nc_count + Skip(now)
          /\ nc_timebase' = now \/ nc_timebase' = nc_timebase + Skip(now) * SymbolTime
          /\ nc_buffer' = nc_buffer /\ NotDelivered
      BY <1>6 DEF NcContinues
    <2>2. Skip(now) * SymbolTime \in Nat
      BY <1>1, <1>3
    <2>3. nc_timebase' \in Int
      BY <1>2, <2>1, <2>2
    <2>4. nc_count' \in 0 .. DataSize - 1
      BY <1>1, <1>2, <1>3, <2>1
    <2> QED
      BY <1>2, <1>4, <2>1, <2>3, <2>4 DEF NcOK
  <1>7. CASE UNCHANGED ncVars
    BY <1>2, <1>7 DEF ncVars, NcOK
  <1>8. CASE nc_count # Idle /\ NcDataBit(now)
    <2>1. Bit(now) \in 1 .. SymbolSize
      <3>1. SinceBase(now) \in Nat
        BY <1>1, <1>2 DEF SinceBase
      <3>2. (SinceBase(now) + Pulse) \div (Pulse * 2) \in Nat
        <4>1. Pulse * 2 \in Nat \ {0}
          BY <1>1
        <4>2. SinceBase(now) + Pulse \in Nat
          BY <1>1, <3>1
        <4> QED
          BY <4>1, <4>2
      <3>3. Bit(now) \in Nat /\ Bit(now) # 0 /\ Bit(now) <= SymbolSize
        BY <1>8, <3>2 DEF Bit, NcDataBit, BitAccepted
      <3> QED
        BY <1>1, <3>3
    <2>2. nc_count + 1 \in 1 .. DataSize
      BY <1>1, <1>2, <1>8
    <2>3. nc_buffer[nc_count + 1] \cup {Bit(now)} \in Symbol
      BY <1>2, <2>1, <2>2 DEF Code, Symbol
    <2>4. nc_buffer' = [nc_buffer EXCEPT ![nc_count + 1] = @ \cup {Bit(now)}]
      BY <1>8 DEF NcDataBit
    <2>5. nc_buffer' \in Code
      BY <1>2, <2>3, <2>4 DEF Code
    <2>6. UNCHANGED <<nc_count, nc_timebase>> /\ NotDelivered
      BY <1>8 DEF NcDataBit
    <2> QED
      BY <1>2, <1>4, <2>5, <2>6 DEF NcOK
  <1>9. CASE nc_count # Idle /\ NcStopBit(now)
    <2>1. /\ UNCHANGED <<nc_buffer, nc_timebase>>
          /\ Delivered(nc_buffer) \/ NotDelivered
          /\ \/ nc_count' = Idle
             \/ nc_count + 1 # DataSize /\ nc_count' = nc_count + 1
      BY <1>9 DEF NcStopBit
    <2>2. nc_count' \in (0 .. DataSize - 1) \cup {Idle}
      BY <1>1, <1>2, <1>9, <2>1
    <2> QED
      BY <1>2, <1>4, <2>1, <2>2 DEF NcOK
  <1>10. CASE nc_count # Idle /\ NcTooLate(now)
    <2>1. /\ UNCHANGED <<nc_buffer, nc_timebase>> /\ nc_count' = Idle
          /\ Delivered(nc_buffer) \/ NotDelivered
      BY <1>10 DEF NcTooLate
    <2> QED
      BY <1>2, <1>4, <2>1 DEF NcOK
  <1>11. \/ NcNewMessage(now) \/ NcContinues(now) \/ UNCHANGED ncVars
         \/ nc_count # Idle /\ (NcDataBit(now) \/ NcStopBit(now) \/ NcTooLate(now))
    BY DEF NcDecode, NcNoise
  <1> QED
    BY <1>5, <1>6, <1>7, <1>8, <1>9, <1>10, <1>11

LEMMA InterruptKeeps ==
  ASSUME DecoderInv, NEW now \in Int, rx433_interrupt(now)
  PROVE  HeOK' /\ NcOK' /\ old_time' \in Int
  <1>1. HeOK /\ NcOK
    BY DEF DecoderInv, TypeOK, HeOK, NcOK
  <1>2. old_time' = now /\ HeDecode((now - old_time) % Word) /\ NcDecode(now, (now - old_time) % Word)
    BY DEF rx433_interrupt
  <1> QED
    BY <1>1, <1>2, HeDecodeKeeps, NcDecodeKeeps

LEMMA SendKeeps ==
  ASSUME DecoderInv, NEW message \in Message, NEW gap \in Gaps, Send(message, gap)
  PROVE  DecoderInv'
  <1>1. gap \in Nat
    BY TransmitterAssumption
  <1>2. edges' \subseteq Nat
    <2>1. CASE message.he
      <3>1. message.code \in HeCode
        BY <2>1 DEF Message
      <3> QED
        BY <2>1, <3>1, HeEdgesAreTimes DEF Send
    <2>2. CASE ~message.he
      <3>1. message.code \in Code
        BY <2>2 DEF Message
      <3> QED
        BY <2>2, <3>1, NcEdgesAreTimes DEF Send
    <2> QED
      BY <2>1, <2>2
  <1>3. old_time' \in Int /\ nc_timebase' \in Int
    BY <1>1 DEF Send, DecoderInv, TypeOK
  <1>4. sent' \in 0 .. MaxSent
    BY TransmitterAssumption DEF Send, DecoderInv, TypeOK
  <1> QED
    BY <1>2, <1>3, <1>4 DEF Send, heVars, DecoderInv, TypeOK

LEMMA StepDecoderInv == DecoderInv /\ [Next]_vars => DecoderInv'
  <1> SUFFICES ASSUME DecoderInv, [Next]_vars PROVE DecoderInv'
    OBVIOUS
  <1>1. ASSUME NEW code \in Codes, NEW gap \in Gaps, Send([he |-> FALSE, code |-> code], gap)
        PROVE  DecoderInv'
    <2>1. [he |-> FALSE, code |-> code] \in Message
      BY TransmitterAssumption DEF Message
    <2> QED
      BY <1>1, <2>1, SendKeeps
  <1>2. ASSUME NEW code \in HeCodes, NEW gap \in Gaps, Send([he |-> TRUE, code |-> code], gap)
        PROVE  DecoderInv'
    <2>1. [he |-> TRUE, code |-> code] \in Message
      BY TransmitterAssumption DEF Message
    <2> QED
      BY <1>2, <2>1, SendKeeps
  <1>3. edges # {} => Min(edges) \in Nat
    BY MinOfNumbers DEF DecoderInv, TypeOK
  <1>4. ASSUME edges' \subseteq edges, UNCHANGED airVars, HeOK', NcOK', old_time' \in Int,
               whole' \in BOOLEAN, noisy' \in BOOLEAN, faults' \in 0 .. MaxFaults
        PROVE  DecoderInv'
    BY <1>4 DEF airVars, DecoderInv, TypeOK, HeOK, NcOK
  <1>5. CASE Edge
    <2>1. PICK j \in -Jitter .. Jitter : rx433_interrupt(Min(edges) + j)
      BY <1>5 DEF Edge
    <2>2. Min(edges) + j \in Int
      BY <1>3, <1>5, Lengths DEF Edge
    <2>3. HeOK' /\ NcOK' /\ old_time' \in Int
      BY <2>1, <2>2, InterruptKeeps
    <2> QED
      BY <1>4, <1>5, <2>3 DEF Edge, DecoderInv, TypeOK
  <1>6. CASE LoseEdge
    <2>1. HeOK' /\ NcOK' /\ old_time' \in Int
      BY <1>6 DEF LoseEdge, heVars, ncVars, DecoderInv, TypeOK, HeOK, NcOK
    <2>2. faults' \in 0 .. MaxFaults
      BY <1>6, TransmitterAssumption DEF LoseEdge, DecoderInv, TypeOK
    <2> QED
      BY <1>4, <1>6, <2>1, <2>2 DEF LoseEdge, DecoderInv, TypeOK
  <1>7. CASE AddEdge
    <2>1. PICK t \in NoiseTimes : rx433_interrupt(t)
      BY <1>7 DEF AddEdge
    <2>2. t \in Int
      BY TransmitterAssumption
    <2>3. HeOK' /\ NcOK' /\ old_time' \in Int
      BY <2>1, <2>2, InterruptKeeps
    <2>4. faults' \in 0 .. MaxFaults
      BY <1>7, TransmitterAssumption DEF AddEdge, DecoderInv, TypeOK
    <2> QED
      BY <1>4, <1>7, <2>3, <2>4 DEF AddEdge, DecoderInv, TypeOK
  <1>8. CASE UNCHANGED vars
    BY <1>8 DEF vars, heVars, ncVars, airVars, DecoderInv, TypeOK
  <1> QED
    BY <1>1, <1>2, <1>5, <1>6, <1>7, <1>8 DEF Next

(* The inductive invariant. *)
THEOREM DecoderInvariance == Spec => []DecoderInv
  BY InitDecoderInv, StepDecoderInv, PTL DEF Spec

(* rx433.c:61-66, 116-135 and 153-162: whatever edges come, the decoder    *)
(* writes no symbol outside its buffer, no bit outside of a symbol, and no *)
(* more bits of a Home Easy code than there are.                           *)
THEOREM DecoderTypeCorrect == Spec => []TypeOK
  BY DecoderInvariance, PTL DEF DecoderInv

-----------------------------------------------------------------------------
(* The times of a message that comes whole *)

(* Two edges, each early or late, still have the distance that the         *)
(* decoder expects.                                                        *)
SmallJitter == 2 * Jitter < EPSILON

(* The pause before a transmission is longer than a symbol, and not so     *)
(* near to a multiple of 2^32 microseconds that it looks shorter.          *)
PausesBetween ==
  \A gap \in Gaps :
    /\ gap % Word >= SymbolTime + EPSILON + Jitter
    /\ 2 * ((gap % Word) + Jitter) + SymbolTime * 3 < 2 * Word

(* In the eighth part of a pulse, the lengths are these. *)
LEMMA Scale ==
  ASSUME SmallJitter
  PROVE  \E k \in Nat \ {0} :
           /\ Pulse = 8 * k /\ EPSILON = 3 * k /\ Pulse \div 2 = 4 * k
           /\ 2 * Jitter < 3 * k
           /\ HeShort = 17 * k
           /\ HeLong \in Nat /\ 2 * HeLong <= 97 * k /\ 97 * k < 2 * HeLong + 2
           /\ HeStart \in Nat /\ 4 * HeStart <= 365 * k /\ 365 * k < 4 * HeStart + 4
           /\ HeGap \in Nat /\ 4 * HeGap <= 1311 * k /\ 1311 * k < 4 * HeGap + 4
  <1> DEFINE k == Pulse \div 8
  <1>1. Pulse \in Nat \ {0} /\ Pulse % 8 = 0
    BY DecoderAssumption
  <1>2. k \in Nat \ {0} /\ Pulse = 8 * k
    BY <1>1
  <1> HIDE DEF k
  <1>3. EPSILON = 3 * k /\ Pulse \div 2 = 4 * k
    BY <1>2 DEF EPSILON
  <1>4. HeShort = 17 * k
    BY <1>2 DEF HeShort, HeLength
  <1>5. HeLong \in Nat /\ 2 * HeLong <= 97 * k /\ 97 * k < 2 * HeLong + 2
    BY <1>2 DEF HeLong, HeLength
  <1>6. HeStart \in Nat /\ 4 * HeStart <= 365 * k /\ 365 * k < 4 * HeStart + 4
    BY <1>2 DEF HeStart, HeLength
  <1>7. HeGap \in Nat /\ 4 * HeGap <= 1311 * k /\ 1311 * k < 4 * HeGap + 4
    BY <1>2 DEF HeGap, HeLength
  <1>8. 2 * Jitter < 3 * k
    BY <1>3 DEF SmallJitter
  <1> QED
    BY <1>2, <1>3, <1>4, <1>5, <1>6, <1>7, <1>8

(* A symbol is shorter than half of the range of the clock. *)
LEMMA SymbolFits ==
  /\ Pulse * SymbolSize \in Nat /\ Pulse * SymbolSize >= Pulse
  /\ SymbolTime = 5 * Pulse + 2 * (Pulse * SymbolSize)
  /\ Word > 2 * SymbolTime + 2 * Pulse
  <1>1. /\ Pulse \in Nat \ {0} /\ SymbolSize \in Nat \ {0} /\ Word \in Nat
        /\ Word > Pulse * 4 * (SymbolSize + 3)
    BY DecoderAssumption
  <1>2. Pulse * SymbolSize \in Nat /\ Pulse * SymbolSize >= Pulse
    <2>1. 1 * Pulse <= SymbolSize * Pulse
      BY <1>1, ProductGrows
    <2> QED
      BY <1>1, <2>1
  <1>3. Pulse * 4 * (SymbolSize + 3) = 4 * (Pulse * SymbolSize) + 12 * Pulse
    BY <1>1
  <1>4. SymbolTime = 5 * Pulse + 2 * (Pulse * SymbolSize)
    BY <1>1 DEF SymbolTime
  <1> QED
    BY <1>1, <1>2, <1>3, <1>4

LEMMA Close ==
  ASSUME NEW d \in Int, NEW c \in Int, -EPSILON <= d - c, d - c < EPSILON
  PROVE  IsClose(d, c)
  <1>1. EPSILON \in Nat /\ Word \in Nat \ {0} /\ Word > 2 * EPSILON
    <2>1. PICK k \in Nat : Pulse = 8 * k /\ EPSILON = 3 * k
      BY DecoderAssumption DEF EPSILON
    <2> QED
      BY <2>1, SymbolFits, Lengths
  <1>2. d + EPSILON - c \in 0 .. Word - 1 /\ d + EPSILON - c < EPSILON * 2
    BY <1>1
  <1> QED
    BY <1>1, <1>2, SmallRemainder DEF IsClose

LEMMA NotClose ==
  ASSUME NEW d \in Int, NEW c \in Int,
         \/ d - c >= EPSILON /\ d - c + EPSILON < Word
         \/ d - c < -EPSILON /\ d - c + Word >= EPSILON
  PROVE  ~IsClose(d, c)
  <1>1. EPSILON \in Nat /\ Word \in Nat \ {0}
    BY Lengths
  <1> DEFINE x == d + EPSILON - c
  <1>2. x \in Int
    BY <1>1
  <1>3. CASE d - c >= EPSILON /\ d - c + EPSILON < Word
    <2>1. x \in 0 .. Word - 1 /\ x >= EPSILON * 2
      BY <1>1, <1>3
    <2>2. x % Word = x
      BY <1>1, <2>1, SmallRemainder
    <2> QED
      BY <1>1, <2>1, <2>2 DEF IsClose
  <1>4. CASE d - c < -EPSILON /\ d - c + Word >= EPSILON
    <2>1. x + Word \in 0 .. Word - 1 /\ x + Word >= EPSILON * 2 /\ x = (-1) * Word + (x + Word)
      BY <1>1, <1>4
    <2> HIDE DEF x
    <2>2. x % Word = x + Word
      BY <1>1, <1>2, <2>1, Remainder
    <2> QED
      BY <1>1, <1>2, <2>1, <2>2 DEF IsClose, x
  <1> QED
    BY <1>3, <1>4

-----------------------------------------------------------------------------
(* The order of the edges *)

(* q is the first time of all that is after p. *)
Follows(all, q, p) ==
  /\ q \in all /\ q > p
  /\ \A e \in all : e > p => e >= q

(* An edge comes at most Jitter early or late. *)
Near(time, place) == time - place \in -Jitter .. Jitter

(* The edges of all up to p have come. *)
Passed(all, p) ==
  /\ edges = {e \in all : e > p}
  /\ Near(old_time, p)

LEMMA NextEdge ==
  ASSUME NEW all, all \subseteq Nat, NEW p \in Int, NEW q, Follows(all, q, p),
         edges = {e \in all : e > p}
  PROVE  Min(edges) = q /\ edges \ {Min(edges)} = {e \in all : e > q}
  <1>1. q \in edges /\ edges \subseteq Nat /\ \A e \in edges : e >= q
    BY DEF Follows
  <1>2. Min(edges) \in edges /\ \A e \in edges : Min(edges) <= e
    BY <1>1, MinOfNumbers
  <1>3. Min(edges) = q
    <2>1. Min(edges) <= q /\ Min(edges) >= q /\ Min(edges) \in Nat /\ q \in Nat
      BY <1>1, <1>2
    <2> QED
      BY <2>1
  <1>4. \A e \in all : e > q <=> e > p /\ e # q
    BY DEF Follows
  <1> QED
    BY <1>3, <1>4

(* The next edge comes at q. *)
LEMMA EdgeAt ==
  ASSUME NEW all, all \subseteq Nat, NEW p \in Int, NEW q, Follows(all, q, p),
         edges = {e \in all : e > p}, Edge
  PROVE  \E j \in -Jitter .. Jitter : rx433_interrupt(q + j) /\ Passed(all, q)'
  <1>1. Min(edges) = q /\ edges \ {Min(edges)} = {e \in all : e > q}
    BY NextEdge
  <1>2. PICK j \in -Jitter .. Jitter : rx433_interrupt(q + j)
    BY <1>1 DEF Edge
  <1>3. edges' = {e \in all : e > q} /\ old_time' = q + j
    BY <1>1, <1>2 DEF Edge, rx433_interrupt
  <1>4. q \in Nat /\ j \in Int
    BY Lengths DEF Follows
  <1>5. old_time' - q = j
    BY <1>3, <1>4
  <1> QED
    BY <1>2, <1>3, <1>5 DEF Passed, Near

(* The start of symbol i, and an edge in it at x half pulses. *)
SymbolAt(i) == (i - 1) * SymbolTime
BitAt(i, b) == SymbolAt(i) + Pulse * (3 + 2 * b)

LEMMA PlacesInSymbol ==
  ASSUME NEW b \in 0 .. SymbolSize
  PROVE  /\ Pulse * b \in Nat /\ Pulse * (3 + 2 * b) = 3 * Pulse + 2 * (Pulse * b)
         /\ 0 <= Pulse * (3 + 2 * b) /\ Pulse * (3 + 2 * b) < SymbolTime
         /\ Pulse * (3 + 2 * b) \in Nat
  <1>1. Pulse \in Nat \ {0} /\ SymbolSize \in Nat /\ b \in Nat /\ b <= SymbolSize
    BY Lengths
  <1>2. Pulse * b \in Nat /\ Pulse * b <= Pulse * SymbolSize
    <2>1. b * Pulse <= SymbolSize * Pulse
      BY <1>1, ProductGrows
    <2> QED
      BY <1>1, <2>1
  <1>3. Pulse * (3 + 2 * b) = 3 * Pulse + 2 * (Pulse * b)
    BY <1>1
  <1> QED
    BY <1>1, <1>2, <1>3, SymbolFits

(* e is at the time y in symbol m of the code, the last edge being one of *)
(* a further symbol.                                                      *)
NcPlace(code, e, m, y) ==
  /\ e = (m - 1) * SymbolTime + y
  /\ y < SymbolTime
  /\ m = DataSize + 1 => y = 0
  /\ m \in 1 .. DataSize => y = 0 \/ y = Pulse * 3 \/ \E b \in code[m] : y = Pulse * (3 + 2 * b)

(* Where an edge of a new code can be. *)
LEMMA NcEdgeIsSomewhere ==
  ASSUME NEW code \in Code, NEW e \in NcEdges(code)
  PROVE  \E m \in 1 .. DataSize + 1, y \in Nat :
           NcPlace(code, e, m, y)
  <1>1. DataSize \in Nat \ {0} /\ SymbolTime \in Nat /\ Pulse \in Nat \ {0}
        /\ Pulse * 3 \in Nat /\ Pulse * 3 < SymbolTime
    BY Lengths, SymbolFits
  <1>2. CASE e = DataSize * SymbolTime
    <2>1. DataSize + 1 \in 1 .. DataSize + 1 /\ DataSize + 1 - 1 = DataSize
          /\ DataSize * SymbolTime \in Nat
      BY <1>1
    <2>2. e = (DataSize + 1 - 1) * SymbolTime + 0 /\ 0 < SymbolTime
      BY <1>1, <1>2, <2>1
    <2>3. ~(DataSize + 1 \in 1 .. DataSize)
      BY <1>1
    <2>4. NcPlace(code, e, DataSize + 1, 0)
      BY <1>1, <2>2, <2>3 DEF NcPlace
    <2> QED
      BY <2>1, <2>4
  <1>3. CASE e # DataSize * SymbolTime
    <2>1. PICK m \in 1 .. DataSize :
            \/ e = (m - 1) * SymbolTime \/ e = (m - 1) * SymbolTime + Pulse * 3
            \/ \E b \in code[m] : e = (m - 1) * SymbolTime + Pulse * (3 + 2 * b)
      BY <1>3 DEF NcEdges
    <2>2. PICK y \in Nat : /\ e = (m - 1) * SymbolTime + y /\ y < SymbolTime
                           /\ y = 0 \/ y = Pulse * 3 \/ \E b \in code[m] : y = Pulse * (3 + 2 * b)
      <3>1. CASE e = (m - 1) * SymbolTime
        <4>1. e = (m - 1) * SymbolTime + 0 /\ 0 < SymbolTime
          BY <1>1, <3>1
        <4> QED
          BY <4>1
      <3>2. CASE e = (m - 1) * SymbolTime + Pulse * 3
        BY <1>1, <3>2
      <3>3. ASSUME NEW b \in code[m], e = (m - 1) * SymbolTime + Pulse * (3 + 2 * b)
            PROVE  \E y \in Nat : /\ e = (m - 1) * SymbolTime + y /\ y < SymbolTime
                                  /\ y = 0 \/ y = Pulse * 3 \/ \E x \in code[m] : y = Pulse * (3 + 2 * x)
        <4>1. b \in 0 .. SymbolSize
          BY Lengths DEF Code, Symbol
        <4> QED
          BY <3>3, <4>1, PlacesInSymbol
      <3> QED
        BY <2>1, <3>1, <3>2, <3>3
    <2>3. m \in 1 .. DataSize + 1 /\ m # DataSize + 1
      BY <1>1
    <2> QED
      BY <2>2, <2>3 DEF NcPlace
  <1> QED
    BY <1>2, <1>3

(* Each symbol begins with two edges three pulses apart. *)
LEMMA StartFollows ==
  ASSUME NEW code \in Code, NEW i \in 1 .. DataSize
  PROVE  Follows(NcEdges(code), BitAt(i, 0), SymbolAt(i))
  <1>1. /\ DataSize \in Nat \ {0} /\ SymbolTime \in Nat /\ Pulse \in Nat \ {0}
        /\ Pulse * 3 \in Nat /\ Pulse * 3 < SymbolTime /\ 0 < Pulse * 3 /\ i \in Nat /\ 0 <= 0 /\ 0 < SymbolTime
    BY Lengths, SymbolFits
  <1>2. SymbolAt(i) \in Nat /\ BitAt(i, 0) = (i - 1) * SymbolTime + Pulse * 3
    BY <1>1 DEF SymbolAt, BitAt
  <1>3. BitAt(i, 0) \in NcEdges(code)
    BY <1>2 DEF NcEdges
  <1>4. BitAt(i, 0) > SymbolAt(i)
    BY <1>1, <1>2 DEF SymbolAt
  <1>5. ASSUME NEW e \in NcEdges(code), e > SymbolAt(i)
        PROVE  e >= BitAt(i, 0)
    <2>1. PICK m \in 1 .. DataSize + 1, y \in Nat : NcPlace(code, e, m, y)
      BY NcEdgeIsSomewhere
    <2>2. (m - 1) * SymbolTime + y > (i - 1) * SymbolTime + 0
      BY <1>1, <1>5, <2>1 DEF SymbolAt, NcPlace
    <2>3. i - 1 < m - 1 \/ (m - 1 = i - 1 /\ y > 0)
      BY <1>1, <2>1, <2>2, OrderOfPlaces DEF NcPlace
    <2>4. CASE i - 1 < m - 1
      <3>1. (m - 1) * SymbolTime + y > (i - 1) * SymbolTime + Pulse * 3
        BY <1>1, <2>1, <2>4, LaterPlace DEF NcPlace
      <3>2. e \in Nat /\ BitAt(i, 0) \in Nat
        BY <1>2, <1>3, NcEdgesAreTimes
      <3> QED
        BY <1>2, <2>1, <3>1, <3>2 DEF NcPlace
    <2>5. CASE m = i /\ y > 0
      <3>1. y >= Pulse * 3
        <4>1. ASSUME NEW b \in code[i], y = Pulse * (3 + 2 * b)
              PROVE  y >= Pulse * 3
          <5>1. b \in 0 .. SymbolSize
            BY Lengths DEF Code, Symbol
          <5>2. Pulse * b \in Nat /\ Pulse * (3 + 2 * b) = 3 * Pulse + 2 * (Pulse * b)
            BY <5>1, PlacesInSymbol
          <5> QED
            BY <1>1, <4>1, <5>2
        <4> QED
          BY <1>1, <2>1, <2>5, <4>1 DEF NcPlace
      <3> QED
        BY <1>1, <1>2, <2>1, <2>5, <3>1 DEF SymbolAt, NcPlace
    <2> QED
      BY <1>1, <2>3, <2>4, <2>5
  <1> QED
    BY <1>3, <1>4, <1>5 DEF Follows

(* An edge after the time x in symbol i is later in it or in a later one. *)
LEMMA NcEdgeIsLater ==
  ASSUME NEW code \in Code, NEW i \in 1 .. DataSize, NEW x \in Nat, x < SymbolTime,
         NEW e \in NcEdges(code), e > SymbolAt(i) + x
  PROVE  \E m \in 1 .. DataSize + 1, y \in Nat :
           NcPlace(code, e, m, y) /\ (i < m \/ (m = i /\ y > x))
  <1>1. DataSize \in Nat \ {0} /\ SymbolTime \in Nat /\ i \in Nat
    BY Lengths
  <1>2. PICK m \in 1 .. DataSize + 1, y \in Nat : NcPlace(code, e, m, y)
    BY NcEdgeIsSomewhere
  <1>3. (m - 1) * SymbolTime + y > (i - 1) * SymbolTime + x /\ y < SymbolTime
    BY <1>2 DEF SymbolAt, NcPlace
  <1>4. i - 1 < m - 1 \/ (m - 1 = i - 1 /\ y > x)
    BY <1>1, <1>2, <1>3, OrderOfPlaces
  <1>5. i < m \/ (m = i /\ y > x)
    BY <1>1, <1>4
  <1> QED
    BY <1>2, <1>5

(* After an edge at bit b of a symbol comes that of its next one ... *)
LEMMA BitFollows ==
  ASSUME NEW code \in Code, NEW i \in 1 .. DataSize, NEW b \in 0 .. SymbolSize,
         NEW x \in code[i], x > b, \A c \in code[i] : c > b => c >= x
  PROVE  Follows(NcEdges(code), BitAt(i, x), BitAt(i, b))
  <1>1. /\ DataSize \in Nat \ {0} /\ SymbolTime \in Nat /\ Pulse \in Nat \ {0} /\ i \in Nat
        /\ \A c \in code[i] : c \in 0 .. SymbolSize
    BY Lengths DEF Code, Symbol
  <1>2. x \in 0 .. SymbolSize /\ b \in Nat /\ x \in Nat
    BY <1>1, Lengths
  <1> DEFINE half(c) == Pulse * (3 + 2 * c)
  <1>3. ASSUME NEW c \in 0 .. SymbolSize
        PROVE  half(c) \in Nat /\ half(c) < SymbolTime
    BY PlacesInSymbol
  <1>4. ASSUME NEW c \in 0 .. SymbolSize, NEW d \in 0 .. SymbolSize, c <= d
        PROVE  half(c) <= half(d)
    <2>1. /\ half(c) = 3 * Pulse + 2 * (Pulse * c) /\ half(d) = 3 * Pulse + 2 * (Pulse * d)
          /\ Pulse * c \in Nat /\ Pulse * d \in Nat
      BY PlacesInSymbol
    <2>2. c * Pulse <= d * Pulse /\ c * Pulse = Pulse * c /\ d * Pulse = Pulse * d
      BY <1>1, <1>4, Lengths, ProductGrows
    <2> QED
      BY <1>1, <2>1, <2>2
  <1>5. half(b) < half(x)
    <2>1. /\ half(b) = 3 * Pulse + 2 * (Pulse * b) /\ half(x) = 3 * Pulse + 2 * (Pulse * x)
          /\ Pulse * b \in Nat /\ Pulse * x \in Nat
      BY <1>2, PlacesInSymbol
    <2>2. (b + 1) * Pulse <= x * Pulse /\ (b + 1) * Pulse = Pulse * b + Pulse /\ x * Pulse = Pulse * x
      BY <1>1, <1>2, ProductGrows
    <2> QED
      BY <1>1, <2>1, <2>2
  <1>6. SymbolAt(i) \in Nat /\ \A c : BitAt(i, c) = SymbolAt(i) + half(c)
    BY <1>1 DEF SymbolAt, BitAt
  <1>7. BitAt(i, x) \in NcEdges(code)
    BY DEF NcEdges, BitAt, SymbolAt
  <1> HIDE DEF half
  <1>8. BitAt(i, x) > BitAt(i, b)
    BY <1>2, <1>3, <1>5, <1>6
  <1>9. ASSUME NEW e \in NcEdges(code), e > BitAt(i, b)
        PROVE  e >= BitAt(i, x)
    <2>1. e > SymbolAt(i) + half(b)
      BY <1>6, <1>9
    <2>2. PICK m \in 1 .. DataSize + 1, y \in Nat :
            NcPlace(code, e, m, y) /\ (i < m \/ (m = i /\ y > half(b)))
      BY <1>3, <2>1, NcEdgeIsLater
    <2>3. e = (m - 1) * SymbolTime + y /\ y < SymbolTime
      BY <2>2 DEF NcPlace
    <2>4. CASE i < m
      <3>1. (m - 1) * SymbolTime + y > (i - 1) * SymbolTime + half(x)
        BY <1>1, <1>2, <1>3, <2>3, <2>4, LaterPlace
      <3>2. e \in Nat /\ half(x) \in Nat
        BY <1>2, <1>3, NcEdgesAreTimes
      <3> QED
        BY <1>6, <2>3, <3>1, <3>2 DEF SymbolAt
    <2>5. CASE m = i /\ y > half(b)
      <3>1. half(0) <= half(b) /\ half(0) = Pulse * 3 /\ half(0) \in Nat /\ half(b) \in Nat
        <4>1. 0 \in 0 .. SymbolSize /\ 0 <= b
          BY <1>2, Lengths
        <4>2. half(0) = Pulse * 3
          BY <1>1 DEF half
        <4> QED
          BY <1>3, <1>4, <4>1, <4>2
      <3>2. PICK c \in code[i] : y = half(c)
        <4>1. y # 0 /\ y # Pulse * 3
          BY <2>5, <3>1
        <4> QED
          BY <2>2, <2>5, <4>1 DEF NcPlace, half
      <3>3. c > b
        <4>1. c \in 0 .. SymbolSize /\ ~(half(c) <= half(b))
          BY <1>1, <2>5, <3>1, <3>2
        <4>2. ~(c <= b)
          BY <1>4, <4>1
        <4> QED
          BY <1>2, <4>1, <4>2
      <3>4. x <= c /\ c \in 0 .. SymbolSize
        BY <1>1, <1>2, <3>3
      <3>5. half(x) <= half(c)
        BY <1>2, <1>4, <3>4
      <3>6. e = SymbolAt(i) + half(c)
        BY <2>3, <2>5, <3>2 DEF SymbolAt
      <3>7. half(x) \in Nat /\ half(c) \in Nat
        BY <1>2, <1>3, <3>4
      <3> QED
        BY <1>6, <3>5, <3>6, <3>7
    <2> QED
      BY <2>2, <2>4, <2>5
  <1> QED
    BY <1>7, <1>8, <1>9 DEF Follows

(* ... and after that of its last one, the first of the next symbol. *)
LEMMA SymbolFollows ==
  ASSUME NEW code \in Code, NEW i \in 1 .. DataSize, NEW b \in 0 .. SymbolSize,
         \A c \in code[i] : ~(c > b)
  PROVE  Follows(NcEdges(code), SymbolAt(i + 1), BitAt(i, b))
  <1>1. /\ DataSize \in Nat \ {0} /\ SymbolTime \in Nat /\ Pulse \in Nat \ {0} /\ i \in Nat
        /\ \A c \in code[i] : c \in 0 .. SymbolSize /\ c <= b
    BY Lengths DEF Code, Symbol
  <1>2. b \in Nat /\ i + 1 - 1 = i
    BY <1>1, Lengths
  <1> DEFINE half(c) == Pulse * (3 + 2 * c)
  <1>3. half(b) \in Nat /\ half(b) < SymbolTime
    BY PlacesInSymbol
  <1>4. /\ SymbolAt(i) \in Nat /\ BitAt(i, b) = SymbolAt(i) + half(b)
        /\ SymbolAt(i + 1) = i * SymbolTime /\ SymbolAt(i + 1) = SymbolAt(i) + SymbolTime
    BY <1>1, <1>2 DEF SymbolAt, BitAt
  <1>5. SymbolAt(i + 1) \in NcEdges(code)
    <2>1. CASE i = DataSize
      BY <1>4, <2>1 DEF NcEdges
    <2>2. CASE i # DataSize
      <3>1. i + 1 \in 1 .. DataSize
        BY <1>1, <2>2
      <3> QED
        BY <3>1 DEF NcEdges, SymbolAt
    <2> QED
      BY <2>1, <2>2
  <1> HIDE DEF half
  <1>6. SymbolAt(i + 1) > BitAt(i, b)
    BY <1>1, <1>3, <1>4
  <1>7. ASSUME NEW e \in NcEdges(code), e > BitAt(i, b)
        PROVE  e >= SymbolAt(i + 1)
    <2>1. e > SymbolAt(i) + half(b)
      BY <1>4, <1>7
    <2>2. PICK m \in 1 .. DataSize + 1, y \in Nat :
            NcPlace(code, e, m, y) /\ (i < m \/ (m = i /\ y > half(b)))
      BY <1>3, <2>1, NcEdgeIsLater
    <2>3. e = (m - 1) * SymbolTime + y /\ y < SymbolTime
      BY <2>2 DEF NcPlace
    <2>4. CASE i < m
      <3>1. i * SymbolTime <= (m - 1) * SymbolTime
        BY <1>1, <2>4, ProductGrows
      <3>2. (m - 1) * SymbolTime \in Nat /\ i * SymbolTime \in Nat
        BY <1>1
      <3> QED
        BY <1>4, <2>3, <3>1, <3>2
    <2>5. ~(m = i /\ y > half(b))
      <3> SUFFICES ASSUME m = i, y > half(b) PROVE FALSE
        OBVIOUS
      <3>1. half(b) >= Pulse * 3
        <4>1. half(b) = 3 * Pulse + 2 * (Pulse * b) /\ Pulse * b \in Nat
          BY PlacesInSymbol DEF half
        <4> QED
          BY <1>1, <4>1
      <3>2. y # 0 /\ y # Pulse * 3
        BY <1>1, <1>3, <3>1
      <3>3. PICK c \in code[i] : y = half(c)
        BY <2>2, <3>2 DEF NcPlace, half
      <3>4. c \in 0 .. SymbolSize /\ c <= b
        BY <1>1
      <3>5. half(c) <= half(b)
        <4>1. /\ half(b) = 3 * Pulse + 2 * (Pulse * b) /\ half(c) = 3 * Pulse + 2 * (Pulse * c)
              /\ Pulse * b \in Nat /\ Pulse * c \in Nat
          BY <3>4, PlacesInSymbol DEF half
        <4>2. c * Pulse <= b * Pulse /\ c * Pulse = Pulse * c /\ b * Pulse = Pulse * b
          BY <1>1, <1>2, <3>4, Lengths, ProductGrows
        <4> QED
          BY <1>1, <4>1, <4>2
      <3>6. half(c) \in Nat
        BY <3>4, PlacesInSymbol DEF half
      <3> QED
        BY <1>3, <3>3, <3>5, <3>6
    <2> QED
      BY <2>2, <2>4, <2>5
  <1> QED
    BY <1>5, <1>6, <1>7 DEF Follows

(* The first edge of a transmission, of either kind, is at its beginning. *)
LEMMA BeginningIsFirst ==
  ASSUME NEW all, all \subseteq Nat, 0 \in all
  PROVE  Follows(all, 0, -1) /\ all = {e \in all : e > -1}
  <1>1. \A e \in Nat : e > -1 /\ e >= 0
    OBVIOUS
  <1>2. 0 > -1
    OBVIOUS
  <1> QED
    BY <1>1, <1>2 DEF Follows

(* The edge at the end of the last symbol is the last. *)
LEMMA LastNcEdge ==
  ASSUME NEW code \in Code, NEW i \in 1 .. DataSize + 1
  PROVE  ({e \in NcEdges(code) : e > SymbolAt(i)} = {}) <=> i = DataSize + 1
  <1>1. DataSize \in Nat \ {0} /\ SymbolTime \in Nat /\ SymbolTime > 0
    BY Lengths, SymbolFits
  <1>2. CASE i = DataSize + 1
    <2>1. SymbolAt(i) = DataSize * SymbolTime
      BY <1>1, <1>2 DEF SymbolAt
    <2>2. ASSUME NEW e \in NcEdges(code)
          PROVE  ~(e > SymbolAt(i))
      <3>1. PICK m \in 1 .. DataSize + 1, y \in Nat : NcPlace(code, e, m, y)
        BY NcEdgeIsSomewhere
      <3> SUFFICES ASSUME e > SymbolAt(i) PROVE FALSE
        OBVIOUS
      <3>2. (m - 1) * SymbolTime + y > DataSize * SymbolTime + 0 /\ y < SymbolTime
        BY <1>1, <2>1, <3>1 DEF NcPlace
      <3>3. DataSize < m - 1 \/ (m - 1 = DataSize /\ y > 0)
        BY <1>1, <3>2, OrderOfPlaces
      <3>4. m = DataSize + 1 /\ y > 0
        BY <1>1, <3>3
      <3> QED
        BY <3>1, <3>4 DEF NcPlace
    <2> QED
      BY <1>2, <2>2
  <1>3. CASE i # DataSize + 1
    <2>1. i \in 1 .. DataSize
      BY <1>1, <1>3
    <2>2. BitAt(i, 0) \in NcEdges(code) /\ BitAt(i, 0) > SymbolAt(i)
      BY <2>1, StartFollows DEF Follows
    <2> QED
      BY <1>3, <2>2
  <1> QED
    BY <1>2, <1>3

-----------------------------------------------------------------------------
(* The new code decoder never waits long *)

(* While symbols are being received, the last edge came no more than one   *)
(* and a half symbols after the time that the decoder counts from.         *)
LagInv == nc_count # Idle => 2 * ((old_time - nc_timebase) % Word) <= 3 * SymbolTime

LEMMA NumbersOfDecoder ==
  /\ Pulse \in Nat \ {0} /\ SymbolSize \in Nat \ {0} /\ DataSize \in Nat \ {0} /\ Word \in Nat \ {0}
  /\ SymbolTime \in Nat /\ EPSILON \in Nat /\ Idle \in Nat /\ Idle = DataSize + 1 /\ Jitter \in Nat
  /\ Pulse * SymbolSize \in Nat /\ Pulse * SymbolSize >= Pulse
  /\ SymbolTime = 5 * Pulse + 2 * (Pulse * SymbolSize)
  /\ Word > 2 * SymbolTime + 2 * Pulse
  /\ 2 * EPSILON < Pulse /\ EPSILON > 0
  <1>1. 2 * EPSILON < Pulse /\ EPSILON > 0
    <2>1. PICK k \in Nat \ {0} : Pulse = 8 * k
      BY DecoderAssumption
    <2>2. EPSILON = 3 * k
      BY <2>1 DEF EPSILON
    <2> QED
      BY <2>1, <2>2
  <1> QED
    BY <1>1, Lengths, SymbolFits DEF Idle

LEMMA LagOfContinued ==
  ASSUME NcOK, NEW now \in Int, nc_count # Idle, NcContinues(now)
  PROVE  2 * ((now - nc_timebase') % Word) <= 3 * SymbolTime
  <1> DEFINE n == Skip(now)
             s == SinceBase(now)
  <1>1. /\ nc_timebase \in Int /\ nc_count \in Nat /\ s \in Nat /\ s < Word
    BY NumbersOfDecoder DEF NcOK, SinceBase
  <1>2. /\ n \in 0 .. DataSize - nc_count
        /\ n = DataSize - nc_count \/ 2 * (s - n * SymbolTime) <= SymbolTime * 3
        /\ \A m \in 0 .. n - 1 : 2 * (s - m * SymbolTime) > SymbolTime * 3
    BY SkipInBuffer
  <1>3. nc_count + n < DataSize /\ n \in Nat /\ n * SymbolTime \in Nat
    BY <1>1, <1>2, NumbersOfDecoder DEF NcContinues
  <1> DEFINE r == s - n * SymbolTime
  <1>4. 2 * r <= 3 * SymbolTime
    BY <1>1, <1>2, <1>3, NumbersOfDecoder
  <1>5. r >= 0
    <2>1. CASE n = 0
      BY <1>1, <2>1, NumbersOfDecoder
    <2>2. CASE n # 0
      <3>1. n - 1 \in 0 .. n - 1
        BY <1>3, <2>2
      <3>2. 2 * (s - (n - 1) * SymbolTime) > SymbolTime * 3
        BY <1>2, <3>1
      <3>3. (n - 1) * SymbolTime = n * SymbolTime - SymbolTime
        BY <1>3, NumbersOfDecoder
      <3> QED
        BY <1>1, <1>3, <3>2, <3>3, NumbersOfDecoder
    <2> QED
      BY <2>1, <2>2
  <1>6. r \in 0 .. Word - 1
    BY <1>1, <1>3, <1>5, NumbersOfDecoder
  <1>7. nc_timebase' = now \/ nc_timebase' = nc_timebase + n * SymbolTime
    BY DEF NcContinues
  <1> DEFINE q == (now - nc_timebase) \div Word
  <1>8. now - nc_timebase = q * Word + s /\ q \in Int
    BY <1>1, NumbersOfDecoder DEF SinceBase
  <1> HIDE DEF q, s, n
  <1>9. CASE nc_timebase' = nc_timebase + n * SymbolTime
    <2>1. now - (nc_timebase + n * SymbolTime) = q * Word + r
          /\ now - (nc_timebase + n * SymbolTime) \in Int /\ q * Word \in Int
      BY <1>1, <1>3, <1>8, NumbersOfDecoder
    <2>2. (now - (nc_timebase + n * SymbolTime)) % Word = r
      BY <1>6, <1>8, <2>1, NumbersOfDecoder, Remainder
    <2> QED
      BY <1>4, <1>9, <2>2
  <1>10. CASE nc_timebase' = now
    <2>1. now - now = 0 /\ 0 % Word = 0 /\ 2 * 0 <= 3 * SymbolTime
      BY NumbersOfDecoder, SmallRemainder
    <2>2. (now - nc_timebase') % Word = 0
      BY <1>10, <2>1
    <2> QED
      BY <2>1, <2>2
  <1> QED
    BY <1>7, <1>9, <1>10

LEMMA LagKept ==
  ASSUME NcOK, LagInv, NEW now \in Int, rx433_interrupt(now)
  PROVE  LagInv'
  <1>1. old_time' = now /\ NcDecode(now, (now - old_time) % Word)
    BY DEF rx433_interrupt
  <1>2. SUFFICES ASSUME nc_count' # Idle
                 PROVE  2 * ((now - nc_timebase') % Word) <= 3 * SymbolTime
    <2>1. Idle' = Idle /\ SymbolTime' = SymbolTime
      BY DEF Idle, SymbolTime
    <2> QED
      BY <1>1, <2>1 DEF LagInv
  <1>3. CASE NcNewMessage(now)
    <2>1. now - now = 0 /\ 0 % Word = 0 /\ 2 * 0 <= 3 * SymbolTime /\ nc_timebase' = now
      BY <1>3, NumbersOfDecoder, SmallRemainder DEF NcNewMessage
    <2> QED
      BY <2>1
  <1>4. CASE NcContinues(now)
    <2>1. CASE nc_count = Idle
      <3>1. Skip(now) = 0 /\ nc_count + Skip(now) < DataSize
        BY <1>4, <2>1 DEF Skip, NcContinues
      <3> QED
        BY <2>1, <3>1, NumbersOfDecoder
    <2> QED
      BY <1>4, <2>1, LagOfContinued
  <1>5. ASSUME nc_count # Idle, SinceBase(now) < SymbolTime + EPSILON, nc_timebase' = nc_timebase
        PROVE  2 * ((now - nc_timebase') % Word) <= 3 * SymbolTime
    <2>1. SinceBase(now) \in Nat
      BY NumbersOfDecoder DEF SinceBase, NcOK
    <2>2. 2 * SinceBase(now) <= 3 * SymbolTime
      BY <1>5, <2>1, NumbersOfDecoder
    <2> QED
      BY <1>5, <2>2 DEF SinceBase
  <1>6. CASE nc_count = Idle /\ UNCHANGED ncVars
    BY <1>2, <1>6 DEF ncVars
  <1>7. CASE /\ nc_count # Idle
             /\ SinceBase(now) < SymbolTime + EPSILON
             /\ NcNoise(now) \/ NcDataBit(now) \/ NcStopBit(now)
    <2>1. nc_timebase' = nc_timebase
      BY <1>7 DEF NcNoise, NcDataBit, NcStopBit, ncVars
    <2> QED
      BY <1>5, <1>7, <2>1
  <1>8. CASE NcTooLate(now)
    BY <1>2, <1>8 DEF NcTooLate
  <1> QED
    BY <1>1, <1>3, <1>4, <1>6, <1>7, <1>8 DEF NcDecode

-----------------------------------------------------------------------------
(* The new code decoder at the edges of a message *)

Elapsed(now, then) == (now - then) % Word

(* Two times near to their places are nearly as far from each other. *)
LEMMA Distance ==
  ASSUME SmallJitter, NEW a \in Int, NEW b \in Int, NEW x \in Int, NEW y \in Int,
         Near(x, a), Near(y, b), NEW c \in Int, a - b = c, c >= EPSILON, c + EPSILON < Word
  PROVE  Elapsed(x, y) \in Nat /\ c - EPSILON < Elapsed(x, y) /\ Elapsed(x, y) < c + EPSILON
  <1>1. 2 * Jitter < EPSILON /\ Jitter \in Nat /\ EPSILON \in Nat /\ Word \in Nat \ {0}
    BY NumbersOfDecoder DEF SmallJitter
  <1>2. c - EPSILON < x - y /\ x - y < c + EPSILON
    BY <1>1 DEF Near
  <1>3. x - y \in 0 .. Word - 1
    BY <1>1, <1>2
  <1>4. Elapsed(x, y) = x - y
    BY <1>1, <1>3, SmallRemainder DEF Elapsed
  <1> QED
    BY <1>2, <1>3, <1>4

LEMMA SinceBaseElapsed == \A now : SinceBase(now) = Elapsed(now, nc_timebase)
  BY DEF SinceBase, Elapsed

LEMMA ElapsedAtMost ==
  ASSUME NEW x \in Int, NEW y \in Int, NEW g \in Int, 0 <= g, g < Word, NEW z \in Int,
         z % Word = g % Word, x - y = z
  PROVE  Elapsed(x, y) = g
  BY NumbersOfDecoder, SmallRemainder DEF Elapsed

LEMMA CloseTo ==
  ASSUME NEW d \in Nat, NEW c \in Int, c - EPSILON < d, d < c + EPSILON
  PROVE  IsClose(d, c) /\ IsClose(c, d)
  <1>1. /\ -EPSILON <= d - c /\ d - c < EPSILON /\ -EPSILON <= c - d /\ c - d < EPSILON
        /\ d \in Int /\ EPSILON \in Nat
    BY NumbersOfDecoder
  <1> QED
    BY <1>1, Close

(* With the first edge after a pause, what was being received is over. *)
LEMMA PauseEndsReception ==
  ASSUME PausesBetween, NcOK, LagInv, NEW gap \in Gaps, old_time = -gap,
         NEW j \in -Jitter .. Jitter, NcDecode(j, Elapsed(j, old_time))
  PROVE  nc_count' = Idle
  <1>1. PICK g \in Nat :
          /\ g = gap % Word /\ g >= SymbolTime + EPSILON + Jitter
          /\ 2 * (g + Jitter) + SymbolTime * 3 < 2 * Word
    BY TransmitterAssumption, NumbersOfDecoder DEF PausesBetween
  <1>2. gap \in Int /\ j \in Int /\ -Jitter <= j /\ j <= Jitter /\ old_time \in Int
    BY TransmitterAssumption, NumbersOfDecoder
  <1>3. \A x \in Int : (gap + x) % Word = (g + x) % Word
    BY <1>1, <1>2, NumbersOfDecoder, RemainderOfSum
  <1>4. Elapsed(j, old_time) = g + j
    <2>1. gap + j = j - old_time /\ gap + j \in Int /\ g + j \in Int
      BY <1>2
    <2>2. 0 <= g + j /\ g + j < Word
      BY <1>1, <1>2, NumbersOfDecoder
    <2>3. (gap + j) % Word = (g + j) % Word
      BY <1>2, <1>3
    <2> QED
      BY <1>2, <2>1, <2>2, <2>3, ElapsedAtMost
  <1>5. ~IsClose(g + j, Pulse * 3)
    <2>1. g + j \in Int /\ Pulse * 3 \in Int
      BY <1>2, NumbersOfDecoder
    <2>2. g + j - Pulse * 3 >= EPSILON /\ g + j - Pulse * 3 + EPSILON < Word
      BY <1>1, <1>2, NumbersOfDecoder
    <2> QED
      BY <2>1, <2>2, NotClose
  <1>6. ASSUME nc_count # Idle
        PROVE  ~(SinceBase(j) < SymbolTime + EPSILON)
    <2>1. PICK lag \in Nat : lag = (old_time - nc_timebase) % Word /\ 2 * lag <= 3 * SymbolTime
      BY <1>2, <1>6, NumbersOfDecoder DEF LagInv, NcOK
    <2>2. nc_timebase \in Int
      BY DEF NcOK
    <2>3. \A x \in Int : ((old_time - nc_timebase) + x) % Word = (lag + x) % Word
      <3>1. old_time - nc_timebase \in Int
        BY <1>2, <2>2
      <3>2. PICK d \in Int : d = old_time - nc_timebase
        BY <3>1, Zenon
      <3>3. \A x \in Int : (d + x) % Word = ((d % Word) + x) % Word
        BY NumbersOfDecoder, RemainderOfSum
      <3>4. \A x \in Int : (d + x) % Word = (lag + x) % Word
        BY <2>1, <3>2, <3>3
      <3> QED
        BY <3>2, <3>4, Zenon
    <2>4. /\ gap + j \in Int /\ lag + j \in Int /\ lag + (gap + j) = gap + (lag + j)
          /\ j - nc_timebase = (old_time - nc_timebase) + (gap + j) /\ j - nc_timebase \in Int
      BY <1>2, <2>2
    <2>5. (j - nc_timebase) % Word = (lag + (gap + j)) % Word
      BY <2>3, <2>4
    <2>6. (gap + (lag + j)) % Word = (g + (lag + j)) % Word
      BY <1>3, <2>4
    <2>7. g + (lag + j) \in Int /\ 0 <= g + (lag + j) /\ g + (lag + j) < Word
          /\ g + (lag + j) >= SymbolTime + EPSILON
      BY <1>1, <1>2, <2>1, NumbersOfDecoder
    <2>8. (j - nc_timebase) % Word = (g + (lag + j)) % Word
      BY <2>4, <2>5, <2>6
    <2>9. SinceBase(j) = g + (lag + j)
      BY <1>2, <2>2, <2>4, <2>7, <2>8, ElapsedAtMost, SinceBaseElapsed
    <2> QED
      BY <2>7, <2>9, NumbersOfDecoder
  <1>7. CASE nc_count = Idle
    <2>1. UNCHANGED ncVars
      BY <1>4, <1>5, <1>7 DEF NcDecode
    <2> QED
      BY <1>7, <2>1 DEF ncVars
  <1>8. CASE nc_count # Idle
    <2>1. NcTooLate(j)
      BY <1>4, <1>5, <1>6, <1>8 DEF NcDecode
    <2> QED
      BY <2>1 DEF NcTooLate
  <1> QED
    BY <1>7, <1>8

(* No symbol is skipped before its time. *)
LEMMA NothingSkipped ==
  ASSUME NcOK, nc_count # Idle, NEW now \in Int, 2 * SinceBase(now) <= 3 * SymbolTime
  PROVE  Skip(now) = 0
  <1>1. SinceBase(now) \in Nat /\ nc_count \in Nat
    BY NumbersOfDecoder DEF SinceBase, NcOK
  <1>2. /\ Skip(now) \in 0 .. DataSize - nc_count
        /\ \A m \in 0 .. Skip(now) - 1 : 2 * (SinceBase(now) - m * SymbolTime) > SymbolTime * 3
    BY SkipInBuffer
  <1>3. ~(0 \in 0 .. Skip(now) - 1)
    <2> SUFFICES ASSUME 0 \in 0 .. Skip(now) - 1 PROVE FALSE
      OBVIOUS
    <2>1. 2 * (SinceBase(now) - 0 * SymbolTime) > SymbolTime * 3
      BY <1>2
    <2> QED
      BY <1>1, <2>1, NumbersOfDecoder
  <1> QED
    BY <1>1, <1>2, <1>3

(* The start code of a symbol: the buffer begins or goes on with it. *)
LEMMA StartIsTaken ==
  ASSUME SmallJitter, NcOK, NEW i \in 1 .. DataSize, old_time \in Int,
         Near(old_time, SymbolAt(i)),
         i = 1 => nc_count = Idle,
         i # 1 => nc_count = i - 1 /\ Near(nc_timebase, BitAt(i - 1, 0)),
         NEW j \in -Jitter .. Jitter, NEW now, now = BitAt(i, 0) + j,
         NcDecode(now, Elapsed(now, old_time))
  PROVE  /\ nc_count' = i - 1 /\ nc_timebase' = now
         /\ nc_buffer' = IF i = 1 THEN Blank ELSE nc_buffer
  <1>1. /\ i \in Nat /\ SymbolAt(i) \in Int /\ BitAt(i, 0) = SymbolAt(i) + 3 * Pulse /\ j \in Int
        /\ BitAt(i - 1, 0) = SymbolAt(i - 1) + 3 * Pulse /\ SymbolAt(i - 1) \in Int
        /\ SymbolAt(i) = SymbolAt(i - 1) + SymbolTime
    BY NumbersOfDecoder DEF SymbolAt, BitAt
  <1>2. now \in Int /\ Near(now, BitAt(i, 0)) /\ BitAt(i, 0) \in Int
    BY <1>1, NumbersOfDecoder DEF Near
  <1>3. IsClose(Elapsed(now, old_time), Pulse * 3)
    <2>1. BitAt(i, 0) - SymbolAt(i) = Pulse * 3 /\ Pulse * 3 \in Int
      BY <1>1, NumbersOfDecoder
    <2>2. Pulse * 3 >= EPSILON /\ Pulse * 3 + EPSILON < Word
      BY NumbersOfDecoder
    <2>3. /\ Elapsed(now, old_time) \in Nat
          /\ Pulse * 3 - EPSILON < Elapsed(now, old_time)
          /\ Elapsed(now, old_time) < Pulse * 3 + EPSILON
      BY <1>1, <1>2, <2>1, <2>2, Distance
    <2> QED
      BY <2>1, <2>3, CloseTo
  <1>4. NcNewMessage(now) \/ NcContinues(now)
    BY <1>3 DEF NcDecode
  <1>5. CASE i = 1
    <2>1. Skip(now) = 0 /\ nc_count = DataSize + 1
      BY <1>5, NumbersOfDecoder DEF Skip
    <2>2. NcNewMessage(now)
      BY <1>4, <2>1, NumbersOfDecoder DEF NcContinues
    <2> QED
      BY <1>5, <2>2 DEF NcNewMessage
  <1>6. CASE i # 1
    <2>1. nc_count = i - 1 /\ nc_count < DataSize /\ nc_count # Idle /\ nc_timebase \in Int /\ nc_count \in Nat
      BY <1>1, <1>6, NumbersOfDecoder DEF NcOK
    <2>2. BitAt(i, 0) - BitAt(i - 1, 0) = SymbolTime /\ BitAt(i - 1, 0) \in Int
      BY <1>1, NumbersOfDecoder
    <2>3. SymbolTime >= EPSILON /\ SymbolTime + EPSILON < Word /\ 2 * (SymbolTime + EPSILON) <= 3 * SymbolTime
      BY NumbersOfDecoder
    <2>4. /\ SinceBase(now) \in Nat
          /\ SymbolTime - EPSILON < SinceBase(now) /\ SinceBase(now) < SymbolTime + EPSILON
      BY <1>2, <1>6, <2>1, <2>2, <2>3, Distance, SinceBaseElapsed, NumbersOfDecoder
    <2>5. 2 * SinceBase(now) <= 3 * SymbolTime
      BY <2>3, <2>4, NumbersOfDecoder
    <2>6. Skip(now) = 0
      BY <1>2, <2>1, <2>5, NothingSkipped
    <2>7. NcContinues(now)
      BY <1>4, <2>1, <2>6, NumbersOfDecoder DEF NcNewMessage
    <2>8. nc_timebase + Skip(now) * SymbolTime = nc_timebase
      BY <2>1, <2>6, NumbersOfDecoder
    <2>9. IsClose((now - nc_timebase) % Word, SymbolTime)
      <3>1. IsClose(SinceBase(now), SymbolTime)
        BY <2>4, CloseTo, NumbersOfDecoder
      <3> QED
        BY <3>1 DEF SinceBase
    <2>10. nc_timebase' = now /\ nc_count' = nc_count + 0 /\ nc_buffer' = nc_buffer
      BY <2>6, <2>7, <2>8, <2>9 DEF NcContinues
    <2> QED
      BY <1>6, <2>1, <2>10
  <1> QED
    BY <1>5, <1>6

(* An edge at place x in the symbol that is being received, x being a bit  *)
(* of it or the stop bit, is taken as that.                                *)
LEMMA BitIsTaken ==
  ASSUME SmallJitter, NcOK, nc_count # Idle, NEW base \in Int, NEW b \in 0 .. SymbolSize,
         NEW x \in 1 .. SymbolSize + 1, b < x, old_time \in Int,
         Near(old_time, base + 2 * (Pulse * b)),
         Near(nc_timebase, base),
         NEW j \in -Jitter .. Jitter, NEW now, now = base + 2 * (Pulse * x) + j,
         NcDecode(now, Elapsed(now, old_time))
  PROVE  Bit(now) = x /\ BitAccepted(now) /\ (NcDataBit(now) \/ NcStopBit(now))
  <1>1. /\ b \in Nat /\ x \in Nat /\ j \in Int /\ nc_timebase \in Int
        /\ Pulse * b \in Nat /\ Pulse * x \in Nat
    BY NumbersOfDecoder DEF NcOK
  <1>2. /\ Pulse * x >= Pulse * b + Pulse /\ Pulse * x >= Pulse
        /\ Pulse * x <= Pulse * SymbolSize + Pulse
        /\ x # b + 1 => Pulse * x >= Pulse * b + 2 * Pulse
        /\ x = b + 1 => Pulse * x = Pulse * b + Pulse
    <2>1. (b + 1) * Pulse <= x * Pulse /\ 1 * Pulse <= x * Pulse /\ x * Pulse <= (SymbolSize + 1) * Pulse
      BY <1>1, NumbersOfDecoder, ProductGrows
    <2>2. x # b + 1 => (b + 2) * Pulse <= x * Pulse
      BY <1>1, NumbersOfDecoder, ProductGrows
    <2>3. /\ (b + 1) * Pulse = Pulse * b + Pulse /\ x * Pulse = Pulse * x /\ 1 * Pulse = Pulse
          /\ (SymbolSize + 1) * Pulse = Pulse * SymbolSize + Pulse
          /\ (b + 2) * Pulse = Pulse * b + 2 * Pulse
      BY <1>1, NumbersOfDecoder
    <2>4. x = b + 1 => Pulse * x = Pulse * b + Pulse
      BY <1>1, <2>3
    <2> QED
      BY <2>1, <2>2, <2>3, <2>4
  <1> DEFINE B == Pulse * b
             X == Pulse * x
             S == Pulse * SymbolSize
  <1>3. /\ B \in Nat /\ X \in Nat /\ X >= B + Pulse /\ X >= Pulse /\ X <= S + Pulse
        /\ X = B + Pulse \/ X >= B + 2 * Pulse
        /\ S \in Nat /\ SymbolTime = 5 * Pulse + 2 * S
        /\ now = base + 2 * X + j /\ Near(old_time, base + 2 * B)
    BY <1>1, <1>2, NumbersOfDecoder
  <1>4. Pulse * 2 * x = 2 * X /\ (x + 1) * (Pulse * 2) = 2 * X + 2 * Pulse /\ x * (Pulse * 2) = 2 * X
    BY <1>1, NumbersOfDecoder
  <1> HIDE DEF B, X, S
  <1>5. now \in Int /\ Near(now, base + 2 * X) /\ base + 2 * X \in Int /\ base + 2 * B \in Int
    BY <1>1, <1>3, NumbersOfDecoder DEF Near
  <1>6. ~IsClose(Elapsed(now, old_time), Pulse * 3)
    <2>1. (base + 2 * X) - (base + 2 * B) = 2 * (X - B) /\ 2 * (X - B) \in Int
      BY <1>3
    <2>2. 2 * (X - B) >= EPSILON /\ 2 * (X - B) + EPSILON < Word
      BY <1>3, NumbersOfDecoder
    <2>3. PICK d \in Nat : d = Elapsed(now, old_time) /\ 2 * (X - B) - EPSILON < d /\ d < 2 * (X - B) + EPSILON
      BY <1>3, <1>5, <2>1, <2>2, Distance
    <2>4. d \in Int /\ Pulse * 3 \in Int
      BY NumbersOfDecoder
    <2>5. CASE X = B + Pulse
      <3>1. d - Pulse * 3 < -EPSILON /\ d - Pulse * 3 + Word >= EPSILON
        BY <1>3, <2>3, <2>5, NumbersOfDecoder
      <3> QED
        BY <2>3, <2>4, <3>1, NotClose
    <2>6. CASE X >= B + 2 * Pulse
      <3>1. d - Pulse * 3 >= EPSILON /\ d - Pulse * 3 + EPSILON < Word
        BY <1>3, <2>3, <2>6, NumbersOfDecoder
      <3> QED
        BY <2>3, <2>4, <3>1, NotClose
    <2> QED
      BY <1>3, <2>5, <2>6
  <1>7. PICK s \in Nat : SinceBase(now) = s /\ 2 * X - EPSILON < s /\ s < 2 * X + EPSILON
    <2>1. (base + 2 * X) - base = 2 * X /\ 2 * X \in Int
      BY <1>3
    <2>2. 2 * X >= EPSILON /\ 2 * X + EPSILON < Word
      BY <1>3, NumbersOfDecoder
    <2>3. /\ Elapsed(now, nc_timebase) \in Nat
          /\ 2 * X - EPSILON < Elapsed(now, nc_timebase) /\ Elapsed(now, nc_timebase) < 2 * X + EPSILON
      BY <1>1, <1>5, <2>1, <2>2, Distance
    <2> QED
      BY <2>3, SinceBaseElapsed
  <1>8. Bit(now) = x
    <2>1. /\ Pulse * 2 \in Nat \ {0} /\ s + Pulse \in Int /\ x + 1 \in Int /\ x \in Int
          /\ x * (Pulse * 2) <= s + Pulse /\ s + Pulse < (x + 1) * (Pulse * 2)
      BY <1>1, <1>3, <1>4, <1>7, NumbersOfDecoder
    <2>2. \A y \in Int, w \in Nat \ {0}, u \in Int : x * w <= y /\ y < u * w => x <= y \div w /\ y \div w < u /\ y \div w \in Int
      BY <2>1, Quotient
    <2>3. x <= (s + Pulse) \div (Pulse * 2) /\ (s + Pulse) \div (Pulse * 2) < x + 1
          /\ (s + Pulse) \div (Pulse * 2) \in Int
      BY <2>1, <2>2, Zenon
    <2>4. \A q \in Int : x <= q /\ q < x + 1 => q = x
      BY <1>1
    <2>5. (s + Pulse) \div (Pulse * 2) = x
      BY <2>3, <2>4, Zenon
    <2> QED
      BY <1>7, <2>5 DEF Bit
  <1>9. BitAccepted(now)
    <2>1. IsClose(2 * X, s)
      <3>1. 2 * X \in Int
        BY <1>3
      <3> QED
        BY <1>7, <3>1, CloseTo
    <2>2. Bit(now) # 0 /\ Pulse * 2 * Bit(now) = 2 * X
      BY <1>4, <1>8
    <2> QED
      BY <1>7, <2>1, <2>2 DEF BitAccepted
  <1>10. SinceBase(now) < SymbolTime + EPSILON /\ ~(SinceBase(now) >= SymbolTime + EPSILON)
    BY <1>3, <1>7, NumbersOfDecoder
  <1>11. ~NcNoise(now) /\ ~NcTooLate(now)
    BY <1>9, <1>10 DEF NcNoise, NcTooLate
  <1> QED
    BY <1>6, <1>8, <1>9, <1>11 DEF NcDecode

(* The buffer holds the code up to bit b of symbol i. *)
BufferUpTo(code, i, b) ==
  \A m \in 1 .. DataSize :
    nc_buffer[m] = IF m < i THEN code[m] ELSE IF m = i THEN {c \in code[m] : c <= b} ELSE {}

(* The start of symbol i has come, or the end of the message ... *)
AtSymbol(code, i) ==
  /\ Passed(NcEdges(code), SymbolAt(i))
  /\ i = 1 => nc_count = Idle
  /\ i \in 2 .. DataSize =>
       /\ nc_count = i - 1
       /\ BufferUpTo(code, i, 0)
       /\ Near(nc_timebase, BitAt(i - 1, 0))
  /\ i = DataSize + 1 => new_code = code

(* ... or bit b of it, 0 being the second edge of the start. *)
AtBit(code, i, b) ==
  /\ Passed(NcEdges(code), BitAt(i, b))
  /\ nc_count = i - 1
  /\ BufferUpTo(code, i, b)
  /\ Near(nc_timebase, BitAt(i, 0))

NcHeld(code) ==
  \/ edges = NcEdges(code) /\ \E gap \in Gaps : old_time = -gap
  \/ \E i \in 1 .. DataSize + 1 : AtSymbol(code, i)
  \/ \E i \in 1 .. DataSize : \E b \in 0 .. SymbolSize : AtBit(code, i, b)

LEMMA BufferBlank ==
  ASSUME NEW code \in Code, nc_buffer' = Blank
  PROVE  BufferUpTo(code, 1, 0)'
  <1>1. \A m \in 1 .. DataSize : ~(m < 1) /\ {c \in code[m] : c <= 0} = {} /\ Blank[m] = {}
    BY Lengths DEF Blank, Code, Symbol
  <1>2. \A m \in 1 .. DataSize :
          nc_buffer'[m] = IF m < 1 THEN code[m] ELSE IF m = 1 THEN {c \in code[m] : c <= 0} ELSE {}
    BY <1>1
  <1> QED
    BY <1>2 DEF BufferUpTo

LEMMA BufferTakesBit ==
  ASSUME NEW code \in Code, NEW i \in 1 .. DataSize, NEW b \in 0 .. SymbolSize,
         NEW x \in code[i], x > b, \A c \in code[i] : c > b => c >= x,
         nc_buffer \in Code, BufferUpTo(code, i, b),
         nc_buffer' = [nc_buffer EXCEPT ![i] = @ \cup {x}]
  PROVE  BufferUpTo(code, i, x)'
  <1>1. code[i] \subseteq Nat /\ b \in Nat
    BY Lengths DEF Code, Symbol
  <1>2. {c \in code[i] : c <= b} \cup {x} = {c \in code[i] : c <= x}
    <2>1. \A c \in code[i] : c <= x <=> c <= b \/ c = x
      BY <1>1
    <2> QED
      BY <2>1
  <1>3. nc_buffer[i] = {c \in code[i] : c <= b}
    <2>1. ~(i < i)
      OBVIOUS
    <2> QED
      BY <2>1, Zenon DEF BufferUpTo
  <1>4. nc_buffer'[i] = {c \in code[i] : c <= x}
    BY <1>2, <1>3 DEF Code
  <1>5. ASSUME NEW m \in 1 .. DataSize
        PROVE  nc_buffer'[m] = IF m < i THEN code[m] ELSE IF m = i THEN {c \in code[m] : c <= x} ELSE {}
    <2>1. CASE m = i
      BY <1>3, <1>4, <2>1
    <2>2. CASE m # i
      <3>1. nc_buffer'[m] = nc_buffer[m]
        BY <2>2 DEF Code
      <3> QED
        BY <2>2, <3>1 DEF BufferUpTo
    <2> QED
      BY <2>1, <2>2
  <1> QED
    BY <1>5 DEF BufferUpTo

(* With the last bit of it the symbol is complete. *)
LEMMA BufferHasSymbol ==
  ASSUME NEW code \in Code, NEW i \in 1 .. DataSize, NEW b \in 0 .. SymbolSize,
         \A c \in code[i] : ~(c > b), nc_buffer \in Code, BufferUpTo(code, i, b)
  PROVE  /\ i = DataSize => nc_buffer = code
         /\ nc_buffer' = nc_buffer => BufferUpTo(code, i + 1, 0)'
  <1>1. i \in Nat /\ b \in Nat /\ DataSize \in Nat /\ \A m \in 1 .. DataSize : code[m] \subseteq 1 .. SymbolSize
    BY Lengths DEF Code, Symbol
  <1>2. {c \in code[i] : c <= b} = code[i]
    <2>1. \A c \in code[i] : c <= b
      BY <1>1
    <2> QED
      BY <2>1
  <1>3. ASSUME NEW m \in 1 .. DataSize
        PROVE  /\ m < i \/ m = i => nc_buffer[m] = code[m]
               /\ ~(m < i) /\ m # i => nc_buffer[m] = {}
    BY <1>1, <1>2 DEF BufferUpTo
  <1>4. ASSUME i = DataSize
        PROVE  nc_buffer = code
    <2>1. \A m \in 1 .. DataSize : nc_buffer[m] = code[m]
      BY <1>1, <1>3, <1>4
    <2>2. /\ nc_buffer = [m \in 1 .. DataSize |-> nc_buffer[m]]
          /\ code = [m \in 1 .. DataSize |-> code[m]]
      BY DEF Code
    <2> QED
      BY <2>1, <2>2, Zenon
  <1>5. ASSUME nc_buffer' = nc_buffer
        PROVE  BufferUpTo(code, i + 1, 0)'
    <2>1. ASSUME NEW m \in 1 .. DataSize
          PROVE  nc_buffer[m] = IF m < i + 1 THEN code[m] ELSE IF m = i + 1 THEN {c \in code[m] : c <= 0} ELSE {}
      <3>1. m < i + 1 <=> m < i \/ m = i
        BY <1>1
      <3>2. {c \in code[m] : c <= 0} = {}
        BY <1>1
      <3> QED
        BY <1>3, <3>1, <3>2
    <2> QED
      BY <1>5, <2>1 DEF BufferUpTo
  <1> QED
    BY <1>4, <1>5

LEMMA NcBegins ==
  ASSUME PausesBetween, NcOK, LagInv, NEW code \in Code, Edge, edges = NcEdges(code),
         NEW gap \in Gaps, old_time = -gap
  PROVE  AtSymbol(code, 1)'
  <1>1. NcEdges(code) \subseteq Nat /\ 0 \in NcEdges(code) /\ SymbolAt(1) = 0
    <2>1. SymbolAt(1) = 0 /\ 1 \in 1 .. DataSize /\ (1 - 1) * SymbolTime = 0
      BY NumbersOfDecoder DEF SymbolAt
    <2>2. 0 \in NcEdges(code)
      BY <2>1 DEF NcEdges
    <2> QED
      BY <2>1, <2>2, NcEdgesAreTimes
  <1>2. Follows(NcEdges(code), 0, -1) /\ edges = {e \in NcEdges(code) : e > -1} /\ -1 \in Int
    BY <1>1, BeginningIsFirst
  <1>3. PICK j \in -Jitter .. Jitter : rx433_interrupt(0 + j) /\ Passed(NcEdges(code), 0)'
    BY <1>1, <1>2, EdgeAt
  <1>4. 0 + j = j
    BY Lengths
  <1>5. NcDecode(j, Elapsed(j, old_time))
    BY <1>3, <1>4 DEF rx433_interrupt, Elapsed
  <1>6. nc_count' = Idle
    BY <1>5, PauseEndsReception
  <1>7. ~(1 \in 2 .. DataSize) /\ 1 # DataSize + 1
    BY NumbersOfDecoder
  <1> QED
    BY <1>1, <1>3, <1>6, <1>7 DEF AtSymbol, Idle

LEMMA NcStarts ==
  ASSUME SmallJitter, NcOK, old_time \in Int, NEW code \in Code, Edge,
         NEW i \in 1 .. DataSize, AtSymbol(code, i)
  PROVE  AtBit(code, i, 0)'
  <1>1. PICK j \in -Jitter .. Jitter :
          rx433_interrupt(BitAt(i, 0) + j) /\ Passed(NcEdges(code), BitAt(i, 0))'
    <2>1. edges = {e \in NcEdges(code) : e > SymbolAt(i)} /\ SymbolAt(i) \in Int
      BY NumbersOfDecoder DEF AtSymbol, Passed, SymbolAt
    <2> QED
      BY <2>1, EdgeAt, StartFollows, NcEdgesAreTimes
  <1> DEFINE now == BitAt(i, 0) + j
  <1>2. NcDecode(now, Elapsed(now, old_time))
    BY <1>1 DEF rx433_interrupt, Elapsed
  <1>3. i # 1 => i \in 2 .. DataSize
    BY NumbersOfDecoder
  <1>4. /\ Near(old_time, SymbolAt(i))
        /\ i = 1 => nc_count = Idle
        /\ i # 1 => nc_count = i - 1 /\ Near(nc_timebase, BitAt(i - 1, 0)) /\ BufferUpTo(code, i, 0)
    BY <1>3 DEF AtSymbol, Passed
  <1> HIDE DEF now
  <1>5. /\ nc_count' = i - 1 /\ nc_timebase' = now
        /\ nc_buffer' = IF i = 1 THEN Blank ELSE nc_buffer
    BY <1>2, <1>4, StartIsTaken DEF now
  <1>6. BufferUpTo(code, i, 0)'
    <2>1. CASE i = 1
      BY <1>5, <2>1, BufferBlank
    <2>2. CASE i # 1
      BY <1>4, <1>5, <2>2 DEF BufferUpTo
    <2> QED
      BY <2>1, <2>2
  <1>7. Near(nc_timebase, BitAt(i, 0))'
    <2>1. BitAt(i, 0) \in Int /\ now - BitAt(i, 0) = j
      BY NumbersOfDecoder DEF BitAt, SymbolAt, now
    <2>2. (BitAt(i, 0))' = BitAt(i, 0)
      BY DEF BitAt, SymbolAt, SymbolTime
    <2> QED
      BY <1>5, <2>1, <2>2 DEF Near
  <1> QED
    BY <1>1, <1>5, <1>6, <1>7 DEF AtBit

(* The next edge in a symbol, or at its end. *)
LEMMA NcGoesOn ==
  ASSUME SmallJitter, NcOK, old_time \in Int, NEW code \in Code, Edge,
         NEW i \in 1 .. DataSize, NEW b \in 0 .. SymbolSize, AtBit(code, i, b)
  PROVE  \/ \E x \in 0 .. SymbolSize : AtBit(code, i, x)'
         \/ AtSymbol(code, i + 1)'
  <1>1. /\ edges = {e \in NcEdges(code) : e > BitAt(i, b)} /\ Near(old_time, BitAt(i, b))
        /\ nc_count = i - 1 /\ BufferUpTo(code, i, b) /\ Near(nc_timebase, BitAt(i, 0))
    BY DEF AtBit, Passed
  <1>2. PICK base \in Int : base = BitAt(i, 0) /\ base = SymbolAt(i) + 3 * Pulse
    BY NumbersOfDecoder DEF BitAt, SymbolAt
  <1>3. ASSUME NEW c \in 0 .. SymbolSize
        PROVE  BitAt(i, c) = base + 2 * (Pulse * c) /\ BitAt(i, c) \in Int
    <2>1. Pulse * (3 + 2 * c) = 3 * Pulse + 2 * (Pulse * c) /\ Pulse * c \in Nat
      BY PlacesInSymbol
    <2>2. SymbolAt(i) \in Int
      BY NumbersOfDecoder DEF SymbolAt
    <2> QED
      BY <1>2, <2>1, <2>2, NumbersOfDecoder DEF BitAt
  <1>4. nc_count # Idle /\ nc_buffer \in Code /\ nc_count + 1 = i
    BY <1>1, NumbersOfDecoder DEF NcOK
  <1>5. code[i] \subseteq 1 .. SymbolSize
    BY DEF Code, Symbol
  <1>6. CASE \E c \in code[i] : c > b
    <2>1. PICK x \in code[i] : x > b /\ \A c \in code[i] : c > b => c >= x
      <3> DEFINE L == {c \in code[i] : c > b}
      <3>1. L \subseteq Nat /\ L # {}
        BY <1>5, <1>6
      <3> HIDE DEF L
      <3>2. PICK x \in L : \A c \in L : x <= c
        BY <3>1, LeastNumber
      <3>3. \A c \in L : c >= x
        BY <3>1, <3>2
      <3> QED
        BY <3>2, <3>3 DEF L
    <2>2. x \in 0 .. SymbolSize /\ x \in 1 .. SymbolSize + 1 /\ b < x /\ x \in 1 .. SymbolSize
      BY <1>5, <2>1, NumbersOfDecoder
    <2>3. PICK j \in -Jitter .. Jitter :
            rx433_interrupt(BitAt(i, x) + j) /\ Passed(NcEdges(code), BitAt(i, x))'
      BY <1>1, <1>3, <2>1, BitFollows, EdgeAt, NcEdgesAreTimes
    <2> DEFINE now == BitAt(i, x) + j
    <2>4. NcDecode(now, Elapsed(now, old_time))
      BY <2>3 DEF rx433_interrupt, Elapsed
    <2>5. now = base + 2 * (Pulse * x) + j
      BY <1>3, <2>2
    <2> HIDE DEF now
    <2>6. Near(old_time, base + 2 * (Pulse * b)) /\ Near(nc_timebase, base)
      BY <1>1, <1>2, <1>3
    <2>7. Bit(now) = x /\ (NcDataBit(now) \/ NcStopBit(now))
      BY <1>4, <2>2, <2>4, <2>5, <2>6, BitIsTaken
    <2>8. NcDataBit(now)
      BY <2>2, <2>7, NumbersOfDecoder DEF NcStopBit
    <2>9. /\ nc_buffer' = [nc_buffer EXCEPT ![i] = @ \cup {x}]
          /\ nc_count' = nc_count /\ nc_timebase' = nc_timebase
      BY <1>4, <2>7, <2>8 DEF NcDataBit
    <2>10. BufferUpTo(code, i, x)'
      BY <1>1, <1>4, <2>1, <2>9, BufferTakesBit
    <2>11. AtBit(code, i, x)'
      BY <1>1, <2>3, <2>9, <2>10 DEF AtBit, Near, BitAt, SymbolAt, SymbolTime
    <2> QED
      BY <2>2, <2>11
  <1>7. CASE ~\E c \in code[i] : c > b
    <2>1. \A c \in code[i] : ~(c > b)
      BY <1>7
    <2>2. PICK j \in -Jitter .. Jitter :
            rx433_interrupt(SymbolAt(i + 1) + j) /\ Passed(NcEdges(code), SymbolAt(i + 1))'
      BY <1>1, <1>3, <2>1, SymbolFollows, EdgeAt, NcEdgesAreTimes
    <2> DEFINE now == SymbolAt(i + 1) + j
               x == SymbolSize + 1
    <2>3. NcDecode(now, Elapsed(now, old_time))
      BY <2>2 DEF rx433_interrupt, Elapsed
    <2>4. now = base + 2 * (Pulse * x) + j
      <3>1. SymbolAt(i + 1) = SymbolAt(i) + SymbolTime /\ SymbolAt(i) \in Int
        BY NumbersOfDecoder DEF SymbolAt
      <3>2. Pulse * x = Pulse * SymbolSize + Pulse
        BY NumbersOfDecoder
      <3>3. SymbolAt(i + 1) = base + 2 * (Pulse * x)
        BY <1>2, <3>1, <3>2, NumbersOfDecoder
      <3> QED
        BY <3>3
    <2>5. x \in 1 .. SymbolSize + 1 /\ b < x /\ x > SymbolSize
      BY NumbersOfDecoder
    <2> HIDE DEF now, x
    <2>6. Near(old_time, base + 2 * (Pulse * b)) /\ Near(nc_timebase, base)
      BY <1>1, <1>2, <1>3
    <2>7. Bit(now) = x /\ (NcDataBit(now) \/ NcStopBit(now))
      BY <1>4, <2>3, <2>4, <2>5, <2>6, BitIsTaken
    <2>8. NcStopBit(now)
      BY <2>5, <2>7, NumbersOfDecoder DEF NcDataBit, x
    <2>9. nc_buffer' = nc_buffer /\ nc_timebase' = nc_timebase
      BY <2>8 DEF NcStopBit
    <2>10. i = DataSize => new_code' = code
      BY <1>1, <1>4, <2>1, <2>8, BufferHasSymbol DEF NcStopBit, Delivered
    <2>11. i # DataSize => nc_count' = i
      BY <1>4, <2>8 DEF NcStopBit
    <2>12. BufferUpTo(code, i + 1, 0)'
      BY <1>1, <1>4, <2>1, <2>9, BufferHasSymbol
    <2>13. i + 1 # 1 /\ i + 1 - 1 = i /\ (i + 1 = DataSize + 1 => i = DataSize)
           /\ (i + 1 \in 2 .. DataSize => i # DataSize)
      BY NumbersOfDecoder
    <2>14. Near(nc_timebase, BitAt(i + 1 - 1, 0))'
      BY <1>1, <2>9, <2>13 DEF Near, BitAt, SymbolAt, SymbolTime
    <2> QED
      BY <2>2, <2>10, <2>11, <2>12, <2>13, <2>14 DEF AtSymbol
  <1> QED
    BY <1>6, <1>7

LEMMA NcHeldKept ==
  ASSUME SmallJitter, PausesBetween, NcOK, LagInv, old_time \in Int, NEW code \in Code,
         Edge, NcHeld(code)
  PROVE  NcHeld(code)'
  <1>1. CASE edges = NcEdges(code) /\ \E gap \in Gaps : old_time = -gap
    <2>1. AtSymbol(code, 1)'
      BY <1>1, NcBegins
    <2>2. 1 \in 1 .. DataSize + 1
      BY NumbersOfDecoder
    <2> QED
      BY <2>1, <2>2 DEF NcHeld
  <1>2. ASSUME NEW i \in 1 .. DataSize + 1, AtSymbol(code, i)
        PROVE  NcHeld(code)'
    <2>1. i \in 1 .. DataSize
      <3>1. edges # {} /\ edges = {e \in NcEdges(code) : e > SymbolAt(i)}
        BY <1>2 DEF Edge, AtSymbol, Passed
      <3>2. i # DataSize + 1
        BY <3>1, LastNcEdge
      <3> QED
        BY <3>2, NumbersOfDecoder
    <2>2. AtBit(code, i, 0)' /\ 0 \in 0 .. SymbolSize
      BY <1>2, <2>1, NcStarts, NumbersOfDecoder
    <2> QED
      BY <2>1, <2>2 DEF NcHeld
  <1>3. ASSUME NEW i \in 1 .. DataSize, NEW b \in 0 .. SymbolSize, AtBit(code, i, b)
        PROVE  NcHeld(code)'
    <2>1. \/ \E x \in 0 .. SymbolSize : AtBit(code, i, x)'
          \/ AtSymbol(code, i + 1)'
      BY <1>3, NcGoesOn
    <2>2. i + 1 \in 1 .. DataSize + 1
      BY NumbersOfDecoder
    <2> QED
      BY <2>1, <2>2 DEF NcHeld
  <1> QED
    BY <1>1, <1>2, <1>3 DEF NcHeld

(* When no edge is left, the message is complete. *)
LEMMA NcHeldAtEnd ==
  ASSUME NEW code \in Code, NcHeld(code), edges = {}
  PROVE  new_code = code
  <1>1. edges # NcEdges(code)
    BY DEF NcEdges
  <1>2. ASSUME NEW i \in 1 .. DataSize + 1, AtSymbol(code, i)
        PROVE  new_code = code
    <2>1. i = DataSize + 1
      BY <1>2, LastNcEdge DEF AtSymbol, Passed
    <2> QED
      BY <1>2, <2>1 DEF AtSymbol
  <1>3. ASSUME NEW i \in 1 .. DataSize, NEW b \in 0 .. SymbolSize, AtBit(code, i, b)
        PROVE  FALSE
    <2>1. edges = {e \in NcEdges(code) : e > BitAt(i, b)}
      BY <1>3 DEF AtBit, Passed
    <2>2. CASE \E c \in code[i] : c > b
      <3>1. PICK x \in code[i] : x > b
        BY <2>2
      <3>2. BitAt(i, x) \in NcEdges(code)
        BY DEF NcEdges, BitAt, SymbolAt
      <3>3. BitAt(i, x) > BitAt(i, b)
        <4>1. x \in Nat /\ b \in Nat /\ x \in 0 .. SymbolSize
          BY NumbersOfDecoder DEF Code, Symbol
        <4>2. /\ Pulse * (3 + 2 * b) = 3 * Pulse + 2 * (Pulse * b) /\ Pulse * b \in Nat
              /\ Pulse * (3 + 2 * x) = 3 * Pulse + 2 * (Pulse * x) /\ Pulse * x \in Nat
          BY <4>1, PlacesInSymbol
        <4>3. (b + 1) * Pulse <= x * Pulse /\ (b + 1) * Pulse = Pulse * b + Pulse /\ x * Pulse = Pulse * x
          BY <3>1, <4>1, NumbersOfDecoder, ProductGrows
        <4>4. SymbolAt(i) \in Int
          BY NumbersOfDecoder DEF SymbolAt
        <4> QED
          BY <4>2, <4>3, <4>4, NumbersOfDecoder DEF BitAt
      <3> QED
        BY <2>1, <3>2, <3>3
    <2>3. CASE ~\E c \in code[i] : c > b
      <3>1. Follows(NcEdges(code), SymbolAt(i + 1), BitAt(i, b))
        BY <2>3, SymbolFollows
      <3> QED
        BY <2>1, <3>1 DEF Follows
    <2> QED
      BY <2>2, <2>3
  <1> QED
    BY <1>1, <1>2, <1>3 DEF NcHeld

-----------------------------------------------------------------------------
(* The order of the edges of a Home Easy code *)

HeBitTime == HeShort + HeLong
HeBitAt(i) == HeStart + (i - 1) * HeBitTime
HeHalf(code, i) == IF i \in code THEN HeLong ELSE HeShort
HeAttempt(code) ==
  {0} \cup {HeBitAt(i) : i \in 1 .. HeSize + 1}
      \cup {HeBitAt(i) + HeHalf(code, i) : i \in 1 .. HeSize}

LEMMA HeEdgesOfAttempts ==
  ASSUME NEW code
  PROVE  HeEdges(code) = {n * HeTime + t : n \in 0 .. Attempts - 1, t \in HeAttempt(code)}
  BY DEF HeEdges, HeAttempt, HeBitAt, HeBitTime, HeHalf

LEMMA HeLengths ==
  ASSUME SmallJitter
  PROVE  /\ HeShort \in Nat \ {0} /\ HeLong \in Nat \ {0} /\ HeStart \in Nat \ {0} /\ HeGap \in Nat \ {0}
         /\ HeBitTime \in Nat \ {0} /\ HeBitTime = HeShort + HeLong
         /\ HeSize * HeBitTime \in Nat /\ HeTime = HeStart + HeSize * HeBitTime + HeGap
         /\ HeTime \in Nat \ {0} /\ HeSize \in Nat \ {0} /\ Attempts \in Nat \ {0}
  <1>1. /\ HeShort \in Nat \ {0} /\ HeLong \in Nat \ {0} /\ HeStart \in Nat \ {0} /\ HeGap \in Nat \ {0}
    BY Scale
  <1>2. HeBitTime \in Nat \ {0} /\ HeBitTime = HeShort + HeLong
    BY <1>1 DEF HeBitTime
  <1>3. HeSize * HeBitTime \in Nat
    BY <1>2, Lengths
  <1>4. HeTime = HeStart + HeSize * HeBitTime + HeGap
    BY DEF HeTime, HeBitTime
  <1> QED
    BY <1>1, <1>2, <1>3, <1>4, Lengths

LEMMA HeHalves ==
  ASSUME SmallJitter, NEW code, NEW i
  PROVE  HeHalf(code, i) \in Nat \ {0} /\ HeHalf(code, i) < HeBitTime
  <1>1. HeShort < HeShort + HeLong /\ HeLong < HeShort + HeLong
    BY HeLengths
  <1> QED
    BY <1>1, HeLengths DEF HeHalf

(* t is at the time y in bit m of an attempt. *)
HeBitPlace(code, t, m, y) ==
  /\ t = HeStart + ((m - 1) * HeBitTime + y)
  /\ y < HeBitTime
  /\ y = 0 \/ (m \in 1 .. HeSize /\ y = HeHalf(code, m))

LEMMA HeTimeIsSomewhere ==
  ASSUME SmallJitter, NEW code, NEW t \in HeAttempt(code)
  PROVE  t = 0 \/ \E m \in 1 .. HeSize + 1, y \in Nat : HeBitPlace(code, t, m, y)
  <1>1. CASE t = 0
    BY <1>1
  <1>2. ASSUME NEW i \in 1 .. HeSize + 1, t = HeBitAt(i)
        PROVE  \E m \in 1 .. HeSize + 1, y \in Nat : HeBitPlace(code, t, m, y)
    <2>1. (i - 1) * HeBitTime \in Int /\ HeStart \in Int
      BY HeLengths
    <2>2. t = HeStart + ((i - 1) * HeBitTime + 0) /\ 0 < HeBitTime
      BY <1>2, <2>1, HeLengths DEF HeBitAt
    <2>3. HeBitPlace(code, t, i, 0)
      BY <2>2 DEF HeBitPlace
    <2> QED
      BY <2>3
  <1>3. ASSUME NEW i \in 1 .. HeSize, t = HeBitAt(i) + HeHalf(code, i)
        PROVE  \E m \in 1 .. HeSize + 1, y \in Nat : HeBitPlace(code, t, m, y)
    <2>1. HeHalf(code, i) \in Nat /\ HeHalf(code, i) < HeBitTime /\ i \in 1 .. HeSize + 1
      BY HeHalves, HeLengths
    <2>2. (i - 1) * HeBitTime \in Int /\ HeStart \in Int
      BY HeLengths
    <2>3. t = HeStart + ((i - 1) * HeBitTime + HeHalf(code, i))
      BY <1>3, <2>1, <2>2 DEF HeBitAt
    <2>4. HeBitPlace(code, t, i, HeHalf(code, i))
      BY <2>1, <2>3 DEF HeBitPlace
    <2> QED
      BY <2>1, <2>4
  <1> QED
    BY <1>1, <1>2, <1>3 DEF HeAttempt

LEMMA HeAttemptTimes ==
  ASSUME SmallJitter, NEW code
  PROVE  /\ HeAttempt(code) \subseteq Nat /\ 0 \in HeAttempt(code)
         /\ \A i \in 1 .. HeSize + 1 : HeBitAt(i) \in HeAttempt(code)
         /\ \A i \in 1 .. HeSize : HeBitAt(i) + HeHalf(code, i) \in HeAttempt(code)
  <1>1. ASSUME NEW t \in HeAttempt(code), t # 0
        PROVE  t \in Nat
    <2>1. PICK m \in 1 .. HeSize + 1, y \in Nat : HeBitPlace(code, t, m, y)
      BY <1>1, HeTimeIsSomewhere
    <2>2. (m - 1) * HeBitTime \in Nat /\ HeStart \in Nat
      BY HeLengths
    <2> QED
      BY <2>1, <2>2 DEF HeBitPlace
  <1>2. \A t \in HeAttempt(code) : t \in Nat
    BY <1>1
  <1> QED
    BY <1>2 DEF HeAttempt

(* A time of an attempt after the time x in bit i. *)
LEMMA HeTimeIsLater ==
  ASSUME SmallJitter, NEW code, NEW i \in 1 .. HeSize + 1, NEW x \in Nat, x < HeBitTime,
         NEW t \in HeAttempt(code), t > HeBitAt(i) + x
  PROVE  \E m \in 1 .. HeSize + 1, y \in Nat :
           HeBitPlace(code, t, m, y) /\ (i < m \/ (m = i /\ y > x))
  <1>1. (i - 1) * HeBitTime \in Nat /\ HeStart \in Nat /\ HeBitTime \in Nat /\ HeSize \in Nat
    BY HeLengths
  <1>2. t # 0
    BY <1>1 DEF HeBitAt
  <1>3. PICK m \in 1 .. HeSize + 1, y \in Nat : HeBitPlace(code, t, m, y)
    BY <1>2, HeTimeIsSomewhere
  <1>4. (m - 1) * HeBitTime \in Nat
    BY <1>1
  <1>5. (m - 1) * HeBitTime + y > (i - 1) * HeBitTime + x /\ y < HeBitTime
    BY <1>1, <1>3, <1>4 DEF HeBitPlace, HeBitAt
  <1>6. i - 1 < m - 1 \/ (m - 1 = i - 1 /\ y > x)
    BY <1>1, <1>3, <1>5, OrderOfPlaces
  <1>7. i < m \/ (m = i /\ y > x)
    BY <1>1, <1>6
  <1> QED
    BY <1>3, <1>7

LEMMA HeStartFollows ==
  ASSUME SmallJitter, NEW code
  PROVE  Follows(HeAttempt(code), HeBitAt(1), 0)
  <1>1. HeBitAt(1) = HeStart /\ 1 \in 1 .. HeSize + 1 /\ HeStart \in Nat \ {0}
    BY HeLengths DEF HeBitAt
  <1>2. HeBitAt(1) \in HeAttempt(code) /\ HeBitAt(1) > 0
    BY <1>1, HeAttemptTimes
  <1>3. ASSUME NEW t \in HeAttempt(code), t > 0
        PROVE  t >= HeBitAt(1)
    <2>1. PICK m \in 1 .. HeSize + 1, y \in Nat : HeBitPlace(code, t, m, y)
      BY <1>3, HeTimeIsSomewhere
    <2>2. (m - 1) * HeBitTime \in Nat
      BY HeLengths
    <2> QED
      BY <1>1, <2>1, <2>2 DEF HeBitPlace
  <1> QED
    BY <1>2, <1>3 DEF Follows

LEMMA HeHalfFollows ==
  ASSUME SmallJitter, NEW code, NEW i \in 1 .. HeSize
  PROVE  Follows(HeAttempt(code), HeBitAt(i) + HeHalf(code, i), HeBitAt(i))
  <1> DEFINE h == HeHalf(code, i)
  <1>1. /\ (i - 1) * HeBitTime \in Nat /\ HeStart \in Nat /\ HeBitTime \in Nat \ {0} /\ HeSize \in Nat
        /\ i \in 1 .. HeSize + 1 /\ i \in Nat
    BY HeLengths
  <1>2. h \in Nat \ {0} /\ h < HeBitTime
    BY HeHalves
  <1> HIDE DEF h
  <1>3. HeBitAt(i) \in Nat /\ HeBitAt(i) + h \in HeAttempt(code) /\ HeBitAt(i) + h > HeBitAt(i)
    BY <1>1, <1>2, HeAttemptTimes DEF HeBitAt, h
  <1>4. ASSUME NEW t \in HeAttempt(code), t > HeBitAt(i)
        PROVE  t >= HeBitAt(i) + h
    <2>1. t > HeBitAt(i) + 0 /\ 0 < HeBitTime
      BY <1>1, <1>3, <1>4
    <2>2. PICK m \in 1 .. HeSize + 1, y \in Nat :
            HeBitPlace(code, t, m, y) /\ (i < m \/ (m = i /\ y > 0))
      BY <1>1, <2>1, HeTimeIsLater
    <2>3. t = HeStart + ((m - 1) * HeBitTime + y) /\ y < HeBitTime /\ (m - 1) * HeBitTime \in Nat
      BY <1>1, <2>2 DEF HeBitPlace
    <2>4. CASE i < m
      <3>1. (m - 1) * HeBitTime + y > (i - 1) * HeBitTime + h
        BY <1>1, <1>2, <2>3, <2>4, LaterPlace
      <3> QED
        BY <1>1, <1>2, <2>3, <3>1 DEF HeBitAt
    <2>5. CASE m = i /\ y > 0
      <3>1. y = h
        BY <2>2, <2>5 DEF HeBitPlace, h
      <3> QED
        BY <1>1, <1>2, <2>3, <2>5, <3>1 DEF HeBitAt
    <2> QED
      BY <2>2, <2>4, <2>5
  <1> QED
    BY <1>3, <1>4 DEF Follows, h

LEMMA HeBitFollows ==
  ASSUME SmallJitter, NEW code, NEW i \in 1 .. HeSize
  PROVE  Follows(HeAttempt(code), HeBitAt(i + 1), HeBitAt(i) + HeHalf(code, i))
  <1> DEFINE h == HeHalf(code, i)
  <1>1. /\ (i - 1) * HeBitTime \in Nat /\ HeStart \in Nat /\ HeBitTime \in Nat \ {0} /\ HeSize \in Nat
        /\ i \in 1 .. HeSize + 1 /\ i + 1 \in 1 .. HeSize + 1 /\ i \in Nat
        /\ (i + 1 - 1) * HeBitTime = (i - 1) * HeBitTime + HeBitTime
    BY HeLengths
  <1>2. h \in Nat \ {0} /\ h < HeBitTime
    BY HeHalves
  <1> HIDE DEF h
  <1>3. HeBitAt(i) \in Nat /\ HeBitAt(i + 1) = HeBitAt(i) + HeBitTime
    BY <1>1 DEF HeBitAt
  <1>4. HeBitAt(i + 1) \in HeAttempt(code) /\ HeBitAt(i + 1) > HeBitAt(i) + h
    BY <1>1, <1>2, <1>3, HeAttemptTimes
  <1>5. ASSUME NEW t \in HeAttempt(code), t > HeBitAt(i) + h
        PROVE  t >= HeBitAt(i + 1)
    <2>1. PICK m \in 1 .. HeSize + 1, y \in Nat :
            HeBitPlace(code, t, m, y) /\ (i < m \/ (m = i /\ y > h))
      BY <1>1, <1>2, <1>5, HeTimeIsLater
    <2>2. t = HeStart + ((m - 1) * HeBitTime + y) /\ y < HeBitTime /\ (m - 1) * HeBitTime \in Nat
      BY <1>1, <2>1 DEF HeBitPlace
    <2>3. i < m
      <3>1. ~(m = i /\ y > h)
        BY <1>2, <2>1 DEF HeBitPlace, h
      <3> QED
        BY <2>1, <3>1
    <2>4. (i + 1 - 1) * HeBitTime <= (m - 1) * HeBitTime
      <3>1. i + 1 - 1 <= m - 1 /\ i + 1 - 1 \in Int /\ m - 1 \in Int /\ HeBitTime \in Nat
        BY <1>1, <2>3
      <3> QED
        BY <3>1, ProductGrows
    <2> QED
      BY <1>1, <1>3, <2>2, <2>4 DEF HeBitAt
  <1> QED
    BY <1>4, <1>5 DEF Follows, h

LEMMA HeLastOfAttempt ==
  ASSUME SmallJitter, NEW code, NEW t \in HeAttempt(code)
  PROVE  t <= HeBitAt(HeSize + 1) /\ t < HeTime
  <1>1. /\ HeSize + 1 \in 1 .. HeSize + 1 /\ HeSize \in Nat /\ HeSize + 1 - 1 = HeSize
        /\ HeBitTime \in Nat \ {0} /\ 0 < HeBitTime /\ HeSize * HeBitTime \in Nat
        /\ HeStart \in Nat /\ HeGap \in Nat \ {0}
        /\ HeTime = HeStart + HeSize * HeBitTime + HeGap
    BY HeLengths
  <1>2. HeBitAt(HeSize + 1) = HeStart + HeSize * HeBitTime /\ HeBitAt(HeSize + 1) \in Nat
    BY <1>1 DEF HeBitAt
  <1>3. ~(t > HeBitAt(HeSize + 1) + 0)
    <2> SUFFICES ASSUME t > HeBitAt(HeSize + 1) + 0 PROVE FALSE
      OBVIOUS
    <2>1. PICK m \in 1 .. HeSize + 1, y \in Nat :
            HeBitPlace(code, t, m, y) /\ (HeSize + 1 < m \/ (m = HeSize + 1 /\ y > 0))
      BY <1>1, HeTimeIsLater
    <2>2. m = HeSize + 1 /\ y > 0 /\ ~(m \in 1 .. HeSize)
      BY <1>1, <2>1
    <2> QED
      BY <2>1, <2>2 DEF HeBitPlace
  <1>4. t \in Nat
    BY HeAttemptTimes
  <1> QED
    BY <1>1, <1>2, <1>3, <1>4

(* What follows in an attempt follows in each of them ... *)
LEMMA FollowsInAttempt ==
  ASSUME SmallJitter, NEW code, NEW n \in 0 .. Attempts - 1, NEW p \in Nat, NEW q,
         Follows(HeAttempt(code), q, p)
  PROVE  Follows(HeEdges(code), n * HeTime + q, n * HeTime + p)
  <1>1. /\ HeEdges(code) = {k * HeTime + t : k \in 0 .. Attempts - 1, t \in HeAttempt(code)}
        /\ HeTime \in Nat /\ n * HeTime \in Nat /\ n \in Int
    BY HeEdgesOfAttempts, HeLengths
  <1>2. q \in HeAttempt(code) /\ q > p /\ q \in Nat /\ q < HeTime /\ p < HeTime
    <2>1. q \in HeAttempt(code) /\ q > p
      BY DEF Follows
    <2>2. q \in Nat /\ q < HeTime
      BY <2>1, HeAttemptTimes, HeLastOfAttempt
    <2> QED
      BY <1>1, <2>1, <2>2
  <1>3. n * HeTime + q \in HeEdges(code) /\ n * HeTime + q > n * HeTime + p
    BY <1>1, <1>2
  <1>4. ASSUME NEW e \in HeEdges(code), e > n * HeTime + p
        PROVE  e >= n * HeTime + q
    <2>1. PICK k \in 0 .. Attempts - 1, t \in HeAttempt(code) : e = k * HeTime + t
      BY <1>1
    <2>2. t \in Nat /\ t < HeTime /\ k \in Int /\ k * HeTime \in Int
      BY <1>1, HeAttemptTimes, HeLastOfAttempt
    <2>3. n < k \/ (k = n /\ t > p)
      BY <1>1, <1>2, <1>4, <2>1, <2>2, OrderOfPlaces
    <2>4. CASE n < k
      <3>1. k * HeTime + t > n * HeTime + q
        BY <1>1, <1>2, <2>2, <2>4, LaterPlace
      <3> QED
        BY <1>1, <1>2, <2>1, <2>2, <3>1
    <2>5. CASE k = n /\ t > p
      <3>1. t >= q
        BY <2>5 DEF Follows
      <3> QED
        BY <1>1, <1>2, <2>1, <2>2, <2>5, <3>1
    <2> QED
      BY <2>3, <2>4, <2>5
  <1> QED
    BY <1>3, <1>4 DEF Follows

(* ... and after an attempt comes the next one. *)
LEMMA AttemptFollows ==
  ASSUME SmallJitter, NEW code, NEW n \in 0 .. Attempts - 1
  PROVE  /\ n + 1 \in 0 .. Attempts - 1 =>
              Follows(HeEdges(code), (n + 1) * HeTime + 0, n * HeTime + HeBitAt(HeSize + 1))
         /\ n = Attempts - 1 => {e \in HeEdges(code) : e > n * HeTime + HeBitAt(HeSize + 1)} = {}
  <1> DEFINE last == HeBitAt(HeSize + 1)
  <1>1. /\ HeEdges(code) = {k * HeTime + t : k \in 0 .. Attempts - 1, t \in HeAttempt(code)}
        /\ HeTime \in Nat \ {0} /\ n * HeTime \in Nat /\ n \in Int /\ n + 1 \in Int
        /\ (n + 1) * HeTime = n * HeTime + HeTime /\ Attempts \in Nat
    BY HeEdgesOfAttempts, HeLengths
  <1>2. last \in Nat /\ last < HeTime /\ 0 \in HeAttempt(code) /\ \A t \in HeAttempt(code) : t <= last
    <2>1. HeSize + 1 \in 1 .. HeSize + 1
      BY HeLengths
    <2>2. last \in HeAttempt(code)
      BY <2>1, HeAttemptTimes
    <2> QED
      BY <2>2, HeAttemptTimes, HeLastOfAttempt
  <1> HIDE DEF last
  <1>3. ASSUME NEW e \in HeEdges(code), e > n * HeTime + last
        PROVE  n + 1 \in 0 .. Attempts - 1 /\ e >= (n + 1) * HeTime + 0
    <2>1. PICK k \in 0 .. Attempts - 1, t \in HeAttempt(code) : e = k * HeTime + t
      BY <1>1
    <2>2. t \in Nat /\ t < HeTime /\ k \in Int /\ k * HeTime \in Int /\ t <= last
      BY <1>1, <1>2, HeAttemptTimes, HeLastOfAttempt
    <2>3. n < k \/ (k = n /\ t > last)
      BY <1>1, <1>2, <1>3, <2>1, <2>2, OrderOfPlaces
    <2>4. n + 1 <= k
      BY <1>1, <1>2, <2>2, <2>3
    <2>5. (n + 1) * HeTime <= k * HeTime
      BY <1>1, <2>2, <2>4, ProductGrows
    <2>6. n + 1 \in 0 .. Attempts - 1
      BY <1>1, <2>4
    <2>7. e >= (n + 1) * HeTime + 0
      BY <1>1, <2>1, <2>2, <2>5
    <2> QED
      BY <2>6, <2>7
  <1>4. n + 1 \in 0 .. Attempts - 1 =>
          (n + 1) * HeTime + 0 \in HeEdges(code) /\ (n + 1) * HeTime + 0 > n * HeTime + last
    <2>1. n + 1 \in 0 .. Attempts - 1 => (n + 1) * HeTime + 0 \in HeEdges(code)
      BY <1>1, <1>2
    <2>2. (n + 1) * HeTime + 0 > n * HeTime + last
      BY <1>1, <1>2
    <2> QED
      BY <2>1, <2>2
  <1>5. n = Attempts - 1 => ~(n + 1 \in 0 .. Attempts - 1)
    BY <1>1
  <1> QED
    BY <1>3, <1>4, <1>5 DEF Follows, last

-----------------------------------------------------------------------------
(* The Home Easy decoder at the edges of a code *)

(* rx433.c:43-50: the classes of times are apart, and each length is in    *)
(* its class even when both edges are early or late.                       *)
LEMMA HeClasses ==
  ASSUME SmallJitter, NEW d \in Nat
  PROVE  /\ HeShort - EPSILON < d /\ d < HeShort + EPSILON => IsShort(d)
         /\ HeLong - EPSILON < d /\ d < HeLong + EPSILON => IsLong(d)
         /\ HeStart - EPSILON < d /\ d < HeStart + EPSILON => IsStart(d)
         /\ ~(IsShort(d) /\ IsLong(d)) /\ ~(IsShort(d) /\ IsStart(d)) /\ ~(IsLong(d) /\ IsStart(d))
  <1>1. PICK k \in Nat \ {0} :
           /\ EPSILON = 3 * k /\ Pulse \div 2 = 4 * k
           /\ HeShort = 17 * k
           /\ HeLong \in Nat /\ 2 * HeLong <= 97 * k /\ 97 * k < 2 * HeLong + 2
           /\ HeStart \in Nat /\ 4 * HeStart <= 365 * k /\ 365 * k < 4 * HeStart + 4
    BY Scale
  <1>2. ASSUME NEW a \in Int, NEW b \in Int, a * (4 * k) <= d, d < b * (4 * k)
        PROVE  a <= d \div (Pulse \div 2) /\ d \div (Pulse \div 2) < b /\ d \div (Pulse \div 2) \in Int
    <2>1. 4 * k \in Nat \ {0} /\ d \in Int
      BY <1>1
    <2> QED
      BY <1>1, <1>2, <2>1, Quotient
  <1>3. ASSUME HeShort - EPSILON < d, d < HeShort + EPSILON
        PROVE  IsShort(d)
    <2>1. 3 * (4 * k) <= d /\ d < 6 * (4 * k)
      BY <1>1, <1>3
    <2>2. 3 <= d \div (Pulse \div 2) /\ d \div (Pulse \div 2) < 6 /\ d \div (Pulse \div 2) \in Int
      BY <1>2, <2>1
    <2>3. \A q \in Int : 3 <= q /\ q < 6 => q \in {3, 4, 5}
      OBVIOUS
    <2> QED
      BY <2>2, <2>3, Zenon DEF IsShort, HeTimes
  <1>4. ASSUME HeLong - EPSILON < d, d < HeLong + EPSILON
        PROVE  IsLong(d)
    <2>1. 11 * (4 * k) <= d /\ d < 13 * (4 * k)
      BY <1>1, <1>4
    <2>2. 11 <= d \div (Pulse \div 2) /\ d \div (Pulse \div 2) < 13 /\ d \div (Pulse \div 2) \in Int
      BY <1>2, <2>1
    <2>3. \A q \in Int : 11 <= q /\ q < 13 => q \in {11, 12}
      OBVIOUS
    <2> QED
      BY <2>2, <2>3, Zenon DEF IsLong, HeTimes
  <1>5. ASSUME HeStart - EPSILON < d, d < HeStart + EPSILON
        PROVE  IsStart(d)
    <2>1. 22 * (4 * k) <= d /\ d < 24 * (4 * k)
      BY <1>1, <1>5
    <2>2. 22 <= d \div (Pulse \div 2) /\ d \div (Pulse \div 2) < 24 /\ d \div (Pulse \div 2) \in Int
      BY <1>2, <2>1
    <2>3. \A q \in Int : 22 <= q /\ q < 24 => q \in {22, 23}
      OBVIOUS
    <2> QED
      BY <2>2, <2>3, Zenon DEF IsStart, HeTimes
  <1>6. ~(IsShort(d) /\ IsLong(d)) /\ ~(IsShort(d) /\ IsStart(d)) /\ ~(IsLong(d) /\ IsStart(d))
    <2>1. \A q : ~(q \in {3, 4, 5} /\ q \in {11, 12}) /\ ~(q \in {3, 4, 5} /\ q \in {22, 23})
                 /\ ~(q \in {11, 12} /\ q \in {22, 23})
      OBVIOUS
    <2> QED
      BY <2>1, Zenon DEF IsShort, IsLong, IsStart, HeTimes
  <1> QED
    BY <1>3, <1>4, <1>5, <1>6

(* he_bits are the first i bits of the code. *)
BitsUpTo(code, i) ==
  /\ Len(he_bits) = i
  /\ \A m \in 1 .. i : he_bits[m] = IF m \in code THEN 1 ELSE 0

(* In attempt n, the start, the beginning of bit i or the end, and the     *)
(* middle of bit i have come.  The code is there from the end of the first *)
(* attempt on.                                                             *)
HeAtStart(code, n) ==
  /\ Passed(HeEdges(code), n * HeTime + 0)
  /\ n > 0 => home_easy = code

HeAtBit(code, n, i) ==
  /\ Passed(HeEdges(code), n * HeTime + HeBitAt(i))
  /\ n > 0 => home_easy = code
  /\ i \in 1 .. HeSize => he_state = "HE_READY_FOR_BIT" /\ BitsUpTo(code, i - 1)
  /\ i = HeSize + 1 => he_state = "HE_RESET" /\ home_easy = code

HeAtHalf(code, n, i) ==
  /\ Passed(HeEdges(code), n * HeTime + (HeBitAt(i) + HeHalf(code, i)))
  /\ n > 0 => home_easy = code
  /\ he_state = IF i \in code THEN "HE_RECEIVED_LONG" ELSE "HE_RECEIVED_SHORT"
  /\ BitsUpTo(code, i - 1)

HeHeld(code) ==
  \/ edges = HeEdges(code)
  \/ \E n \in 0 .. Attempts - 1 :
       \/ HeAtStart(code, n)
       \/ \E i \in 1 .. HeSize + 1 : HeAtBit(code, n, i)
       \/ \E i \in 1 .. HeSize : HeAtHalf(code, n, i)

(* From one edge to the next, the length c between them is seen. *)
LEMMA HeEdge ==
  ASSUME SmallJitter, old_time \in Int, NEW code \in HeCode, Edge, NEW n \in 0 .. Attempts - 1,
         NEW p \in Nat, NEW q, Follows(HeAttempt(code), q, p), Passed(HeEdges(code), n * HeTime + p),
         NEW c \in {HeShort, HeLong, HeStart}, q - p = c
  PROVE  \E d \in Nat : /\ c - EPSILON < d /\ d < c + EPSILON
                        /\ HeDecode(d)
                        /\ Passed(HeEdges(code), n * HeTime + q)'
  <1>1. q \in Nat
    BY HeAttemptTimes DEF Follows
  <1>2. Follows(HeEdges(code), n * HeTime + q, n * HeTime + p)
    BY FollowsInAttempt
  <1>3. PICK a \in Int, b \in Int : a = n * HeTime + q /\ b = n * HeTime + p /\ a - b = c /\ c \in Nat
    <2>1. n * HeTime \in Int /\ c \in Nat
      BY HeLengths
    <2>2. n * HeTime + q \in Int /\ n * HeTime + p \in Int /\ (n * HeTime + q) - (n * HeTime + p) = c
      BY <1>1, <2>1
    <2> QED
      BY <2>1, <2>2
  <1>4. Near(old_time, b) /\ edges = {e \in HeEdges(code) : e > b}
    BY <1>3 DEF Passed
  <1>5. PICK j \in -Jitter .. Jitter : rx433_interrupt(a + j) /\ Passed(HeEdges(code), a)'
    <2>1. Follows(HeEdges(code), a, b) /\ HeEdges(code) \subseteq Nat
      BY <1>2, <1>3, HeEdgesAreTimes
    <2> QED
      BY <1>3, <1>4, <2>1, EdgeAt
  <1>6. PICK now \in Int : now = a + j /\ Near(now, a)
    <2>1. a + j \in Int /\ (a + j) - a = j
      BY <1>3, NumbersOfDecoder
    <2> QED
      BY <2>1 DEF Near
  <1>7. c >= EPSILON /\ c + EPSILON < Word
    <2>1. PICK k \in Nat \ {0} :
           /\ Pulse = 8 * k /\ EPSILON = 3 * k /\ HeShort = 17 * k
           /\ HeLong \in Nat /\ 2 * HeLong <= 97 * k /\ 97 * k < 2 * HeLong + 2
           /\ HeStart \in Nat /\ 4 * HeStart <= 365 * k /\ 365 * k < 4 * HeStart + 4
      BY Scale
    <2>2. Word > 16 * Pulse /\ Word \in Nat
      BY NumbersOfDecoder
    <2> QED
      BY <2>1, <2>2
  <1>8. /\ Elapsed(now, old_time) \in Nat
        /\ c - EPSILON < Elapsed(now, old_time) /\ Elapsed(now, old_time) < c + EPSILON
    BY <1>3, <1>4, <1>6, <1>7, Distance
  <1>9. HeDecode(Elapsed(now, old_time))
    BY <1>5, <1>6 DEF rx433_interrupt, Elapsed
  <1>10. Passed(HeEdges(code), n * HeTime + q)'
    BY <1>3, <1>5
  <1> QED
    BY <1>8, <1>9, <1>10

LEMMA HeEdgesBegin ==
  ASSUME SmallJitter, NEW code \in HeCode
  PROVE  HeEdges(code) \subseteq Nat /\ 0 \in HeEdges(code) /\ 0 * HeTime + 0 = 0
  <1>1. 0 \in 0 .. Attempts - 1 /\ 0 \in HeAttempt(code) /\ 0 * HeTime + 0 = 0
    BY HeLengths, HeAttemptTimes
  <1>2. HeEdges(code) = {n * HeTime + t : n \in 0 .. Attempts - 1, t \in HeAttempt(code)}
    BY HeEdgesOfAttempts
  <1> QED
    BY <1>1, <1>2, HeEdgesAreTimes

LEMMA HeBeginning ==
  ASSUME SmallJitter, NEW code \in HeCode, Edge, edges = HeEdges(code)
  PROVE  HeAtStart(code, 0)'
  <1>1. HeEdges(code) \subseteq Nat /\ 0 \in HeEdges(code) /\ 0 * HeTime + 0 = 0
    BY HeEdgesBegin
  <1>2. Follows(HeEdges(code), 0, -1) /\ edges = {e \in HeEdges(code) : e > -1} /\ -1 \in Int
    BY <1>1, BeginningIsFirst
  <1>3. Passed(HeEdges(code), 0)'
    BY <1>1, <1>2, EdgeAt
  <1> QED
    BY <1>1, <1>3 DEF HeAtStart

LEMMA HeStarts ==
  ASSUME SmallJitter, HeOK, old_time \in Int, NEW code \in HeCode, Edge, NEW n \in 0 .. Attempts - 1,
         HeAtStart(code, n)
  PROVE  HeAtBit(code, n, 1)'
  <1>1. HeBitAt(1) - 0 = HeStart
    BY HeLengths DEF HeBitAt
  <1>2. PICK d \in Nat : /\ HeStart - EPSILON < d /\ d < HeStart + EPSILON
                         /\ HeDecode(d) /\ Passed(HeEdges(code), n * HeTime + HeBitAt(1))'
    BY <1>1, HeEdge, HeStartFollows DEF HeAtStart
  <1>3. IsStart(d) /\ ~IsShort(d) /\ ~IsLong(d)
    BY <1>2, HeClasses
  <1>4. HeBegin(d)
    BY <1>2, <1>3 DEF HeDecode, HeHalfBit, HeBit, HeReset, HeError
  <1>5. BitsUpTo(code, 1 - 1)'
    <2>1. he_bits' = <<>> /\ Len(<<>>) = 0 /\ 1 - 1 = 0 /\ \A m \in 1 .. 0 : FALSE
      BY <1>4 DEF HeBegin
    <2> QED
      BY <2>1 DEF BitsUpTo
  <1>6. 1 # HeSize + 1
    BY HeLengths
  <1> QED
    BY <1>2, <1>4, <1>5, <1>6 DEF HeAtBit, HeAtStart, HeBegin

LEMMA HeHalfTaken ==
  ASSUME SmallJitter, HeOK, old_time \in Int, NEW code \in HeCode, Edge, NEW n \in 0 .. Attempts - 1,
         NEW i \in 1 .. HeSize, HeAtBit(code, n, i)
  PROVE  HeAtHalf(code, n, i)'
  <1>1. HeBitAt(i) \in Nat /\ HeHalf(code, i) \in {HeShort, HeLong} /\ HeHalf(code, i) \in Nat
    <2>1. i \in 1 .. HeSize + 1
      BY HeLengths
    <2> QED
      BY <2>1, HeAttemptTimes, HeHalves DEF HeHalf
  <1>2. (HeBitAt(i) + HeHalf(code, i)) - HeBitAt(i) = HeHalf(code, i)
    BY <1>1
  <1>3. Passed(HeEdges(code), n * HeTime + HeBitAt(i))
    BY DEF HeAtBit
  <1>4. PICK d \in Nat : /\ HeHalf(code, i) - EPSILON < d /\ d < HeHalf(code, i) + EPSILON
                         /\ HeDecode(d) /\ Passed(HeEdges(code), n * HeTime + (HeBitAt(i) + HeHalf(code, i)))'
    BY <1>1, <1>2, <1>3, HeEdge, HeHalfFollows
  <1>5. ~IsStart(d) /\ IF i \in code THEN IsLong(d) /\ ~IsShort(d) ELSE IsShort(d) /\ ~IsLong(d)
    BY <1>4, HeClasses DEF HeHalf
  <1>6. he_state = "HE_READY_FOR_BIT" /\ BitsUpTo(code, i - 1) /\ (n > 0 => home_easy = code)
    BY DEF HeAtBit
  <1>7. HeHalfBit(d)
    BY <1>4, <1>5, <1>6 DEF HeDecode, HeBegin, HeBit, HeReset, HeError
  <1>8. he_state' = IF i \in code THEN "HE_RECEIVED_LONG" ELSE "HE_RECEIVED_SHORT"
    BY <1>5, <1>7 DEF HeHalfBit
  <1>9. BitsUpTo(code, i - 1)' /\ home_easy' = home_easy
    BY <1>6, <1>7 DEF HeHalfBit, BitsUpTo
  <1> QED
    BY <1>4, <1>6, <1>8, <1>9 DEF HeAtHalf

LEMMA AppendedBit ==
  ASSUME NEW s \in Seq({0, 1}), NEW x \in {0, 1}
  PROVE  /\ Len(Append(s, x)) = Len(s) + 1
         /\ \A m \in 1 .. Len(s) : Append(s, x)[m] = s[m]
         /\ Append(s, x)[Len(s) + 1] = x
  OBVIOUS

LEMMA HeBitTaken ==
  ASSUME SmallJitter, HeOK, old_time \in Int, NEW code \in HeCode, Edge, NEW n \in 0 .. Attempts - 1,
         NEW i \in 1 .. HeSize, HeAtHalf(code, n, i)
  PROVE  HeAtBit(code, n, i + 1)'
  <1> DEFINE rest == IF i \in code THEN HeShort ELSE HeLong
             bit == IF i \in code THEN 1 ELSE 0
  <1>1. HeBitAt(i) + HeHalf(code, i) \in Nat
    BY HeAttemptTimes
  <1>2. HeBitAt(i + 1) - (HeBitAt(i) + HeHalf(code, i)) = rest
    <2>1. /\ (i - 1) * HeBitTime \in Int /\ (i + 1 - 1) * HeBitTime = (i - 1) * HeBitTime + HeBitTime
          /\ HeStart \in Nat /\ HeShort \in Nat /\ HeLong \in Nat /\ HeBitTime = HeShort + HeLong
      BY HeLengths
    <2>2. HeBitAt(i) \in Int /\ HeBitAt(i + 1) = HeBitAt(i) + (HeShort + HeLong)
      BY <2>1 DEF HeBitAt
    <2> QED
      BY <2>1, <2>2 DEF HeHalf
  <1>3. /\ Passed(HeEdges(code), n * HeTime + (HeBitAt(i) + HeHalf(code, i)))
        /\ rest \in {HeShort, HeLong, HeStart}
    BY DEF HeAtHalf
  <1>4. PICK d \in Nat : /\ rest - EPSILON < d /\ d < rest + EPSILON
                         /\ HeDecode(d) /\ Passed(HeEdges(code), n * HeTime + HeBitAt(i + 1))'
    <2> HIDE DEF rest
    <2> QED
      BY <1>1, <1>2, <1>3, HeEdge, HeBitFollows
  <1>5. ~IsStart(d) /\ IF i \in code THEN IsShort(d) /\ ~IsLong(d) ELSE IsLong(d) /\ ~IsShort(d)
    BY <1>4, HeClasses
  <1>6. /\ he_state = IF i \in code THEN "HE_RECEIVED_LONG" ELSE "HE_RECEIVED_SHORT"
        /\ BitsUpTo(code, i - 1) /\ (n > 0 => home_easy = code)
    BY DEF HeAtHalf
  <1>7. HeBit(d)
    BY <1>4, <1>5, <1>6 DEF HeDecode, HeBegin, HeHalfBit, HeReset, HeError
  <1>8. he_bits' = Append(he_bits, bit)
    BY <1>5, <1>6, <1>7 DEF HeBit
  <1>9. BitsUpTo(code, i)'
    <2>1. bit \in {0, 1} /\ he_bits \in Seq({0, 1}) /\ Len(he_bits) = i - 1 /\ i - 1 + 1 = i
      BY <1>6 DEF HeOK, BitsUpTo
    <2> HIDE DEF bit
    <2>2. Len(he_bits') = i /\ he_bits'[i] = bit /\ \A m \in 1 .. i - 1 : he_bits'[m] = he_bits[m]
      BY <1>8, <2>1, AppendedBit
    <2>3. ASSUME NEW m \in 1 .. i
          PROVE  he_bits'[m] = IF m \in code THEN 1 ELSE 0
      <3>1. CASE m = i
        BY <2>2, <3>1 DEF bit
      <3>2. CASE m # i
        <4>1. m \in 1 .. i - 1
          BY <3>2
        <4> QED
          BY <1>6, <2>2, <4>1 DEF BitsUpTo
      <3> QED
        BY <3>1, <3>2
    <2> QED
      BY <2>2, <2>3 DEF BitsUpTo
  <1>10. CASE i = HeSize
    <2>1. he_state' = "HE_RESET" /\ home_easy' = {m \in 1 .. HeSize : he_bits'[m] = 1}
      BY <1>7, <1>9, <1>10 DEF HeBit, BitsUpTo
    <2>2. \A m \in 1 .. HeSize : he_bits'[m] = 1 <=> m \in code
      BY <1>9, <1>10 DEF BitsUpTo
    <2>3. home_easy' = code
      BY <2>1, <2>2 DEF HeCode
    <2>4. ~(i + 1 \in 1 .. HeSize)
      BY <1>10, HeLengths
    <2> QED
      BY <1>4, <2>1, <2>3, <2>4 DEF HeAtBit
  <1>11. CASE i # HeSize
    <2>1. Len(he_bits') # HeSize
      BY <1>9, <1>11 DEF BitsUpTo
    <2>2. he_state' = "HE_READY_FOR_BIT" /\ home_easy' = home_easy
      BY <1>7, <2>1 DEF HeBit
    <2>3. i + 1 - 1 = i /\ i + 1 # HeSize + 1
      <3>1. i \in Nat /\ HeSize \in Nat
        BY HeLengths
      <3> QED
        BY <1>11, <3>1
    <2> QED
      BY <1>4, <1>6, <1>9, <2>2, <2>3 DEF HeAtBit
  <1> QED
    BY <1>10, <1>11

(* Nothing that comes after a complete code changes it but a further code. *)
LEMMA HeNextAttempt ==
  ASSUME SmallJitter, NEW code \in HeCode, Edge, NEW n \in 0 .. Attempts - 1,
         HeAtBit(code, n, HeSize + 1)
  PROVE  n + 1 \in 0 .. Attempts - 1 /\ HeAtStart(code, n + 1)'
  <1>1. /\ edges = {e \in HeEdges(code) : e > n * HeTime + HeBitAt(HeSize + 1)} /\ edges # {}
        /\ he_state = "HE_RESET" /\ home_easy = code
    BY DEF HeAtBit, Passed, Edge
  <1>2. n + 1 \in 0 .. Attempts - 1
    <2>1. n # Attempts - 1
      BY <1>1, AttemptFollows
    <2> QED
      BY <2>1, HeLengths
  <1>3. Follows(HeEdges(code), (n + 1) * HeTime + 0, n * HeTime + HeBitAt(HeSize + 1))
    BY <1>2, AttemptFollows
  <1>4. n * HeTime + HeBitAt(HeSize + 1) \in Int
    <2>1. n * HeTime \in Int /\ HeSize + 1 \in 1 .. HeSize + 1
      BY HeLengths
    <2>2. HeBitAt(HeSize + 1) \in Nat
      BY <2>1, HeAttemptTimes
    <2> QED
      BY <2>1, <2>2
  <1>5. PICK j \in -Jitter .. Jitter :
          rx433_interrupt((n + 1) * HeTime + 0 + j) /\ Passed(HeEdges(code), (n + 1) * HeTime + 0)'
    BY <1>1, <1>3, <1>4, EdgeAt, HeEdgesAreTimes
  <1>6. home_easy' = home_easy
    <2>1. PICK d : HeDecode(d)
      BY <1>5 DEF rx433_interrupt
    <2> QED
      BY <1>1, <2>1 DEF HeDecode, HeBegin, HeHalfBit, HeBit, HeReset
  <1> QED
    BY <1>1, <1>2, <1>5, <1>6 DEF HeAtStart

LEMMA HeHeldKept ==
  ASSUME SmallJitter, HeOK, old_time \in Int, NEW code \in HeCode, Edge, HeHeld(code)
  PROVE  HeHeld(code)'
  <1>1. CASE edges = HeEdges(code)
    <2>1. HeAtStart(code, 0)' /\ 0 \in 0 .. Attempts - 1
      BY <1>1, HeBeginning, HeLengths
    <2> QED
      BY <2>1 DEF HeHeld
  <1>2. ASSUME NEW n \in 0 .. Attempts - 1, HeAtStart(code, n)
        PROVE  HeHeld(code)'
    <2>1. HeAtBit(code, n, 1)' /\ 1 \in 1 .. HeSize + 1
      BY <1>2, HeStarts, HeLengths
    <2> QED
      BY <2>1 DEF HeHeld
  <1>3. ASSUME NEW n \in 0 .. Attempts - 1, NEW i \in 1 .. HeSize + 1, HeAtBit(code, n, i)
        PROVE  HeHeld(code)'
    <2>1. CASE i = HeSize + 1
      <3>1. n + 1 \in 0 .. Attempts - 1 /\ HeAtStart(code, n + 1)'
        BY <1>3, <2>1, HeNextAttempt
      <3> QED
        BY <3>1 DEF HeHeld
    <2>2. CASE i # HeSize + 1
      <3>1. i \in 1 .. HeSize
        BY <2>2, HeLengths
      <3>2. HeAtHalf(code, n, i)'
        BY <1>3, <3>1, HeHalfTaken
      <3> QED
        BY <3>1, <3>2 DEF HeHeld
    <2> QED
      BY <2>1, <2>2
  <1>4. ASSUME NEW n \in 0 .. Attempts - 1, NEW i \in 1 .. HeSize, HeAtHalf(code, n, i)
        PROVE  HeHeld(code)'
    <2>1. HeAtBit(code, n, i + 1)' /\ i + 1 \in 1 .. HeSize + 1
      BY <1>4, HeBitTaken, HeLengths
    <2> QED
      BY <2>1 DEF HeHeld
  <1> QED
    BY <1>1, <1>2, <1>3, <1>4 DEF HeHeld

LEMMA HeHeldAtEnd ==
  ASSUME SmallJitter, NEW code \in HeCode, HeHeld(code), edges = {}
  PROVE  home_easy = code
  <1>1. edges # HeEdges(code)
    BY HeEdgesBegin
  <1>2. ASSUME NEW n \in 0 .. Attempts - 1, NEW p \in Nat, NEW q,
               Follows(HeAttempt(code), q, p), Passed(HeEdges(code), n * HeTime + p)
        PROVE  FALSE
    <2>1. Follows(HeEdges(code), n * HeTime + q, n * HeTime + p)
      BY <1>2, FollowsInAttempt
    <2> QED
      BY <1>2, <2>1 DEF Follows, Passed
  <1>3. ASSUME NEW n \in 0 .. Attempts - 1
        PROVE  ~HeAtStart(code, n)
    BY <1>2, HeStartFollows DEF HeAtStart
  <1>4. ASSUME NEW n \in 0 .. Attempts - 1, NEW i \in 1 .. HeSize
        PROVE  ~HeAtHalf(code, n, i) /\ ~HeAtBit(code, n, i)
    <2>1. HeBitAt(i) \in Nat /\ HeBitAt(i) + HeHalf(code, i) \in Nat
      <3>1. i \in 1 .. HeSize + 1
        BY HeLengths
      <3> QED
        BY <3>1, HeAttemptTimes
    <2>2. ~HeAtHalf(code, n, i)
      BY <1>2, <2>1, HeBitFollows DEF HeAtHalf
    <2>3. ~HeAtBit(code, n, i)
      BY <1>2, <2>1, HeHalfFollows DEF HeAtBit
    <2> QED
      BY <2>2, <2>3
  <1>5. ASSUME NEW n \in 0 .. Attempts - 1, NEW i \in 1 .. HeSize + 1, HeAtBit(code, n, i)
        PROVE  home_easy = code
    <2>1. i = HeSize + 1
      <3>1. ~(i \in 1 .. HeSize)
        BY <1>4, <1>5
      <3> QED
        BY <3>1, HeLengths
    <2> QED
      BY <1>5, <2>1 DEF HeAtBit
  <1> QED
    BY <1>1, <1>3, <1>4, <1>5 DEF HeHeld

-----------------------------------------------------------------------------
(* A transmission that comes whole *)

(* After each edge of a transmission of which none was lost or added, the  *)
(* decoder for it holds what was sent so far.                              *)
WholeInv ==
  whole /\ sent > 0 => IF sending.he THEN HeHeld(sending.code) ELSE NcHeld(sending.code)

LEMMA InitWholeInv == Init => LagInv /\ WholeInv
  BY DEF Init, LagInv, WholeInv

LEMMA SendWhole ==
  ASSUME DecoderInv, LagInv, NEW message \in Message, NEW gap \in Gaps, Send(message, gap)
  PROVE  LagInv' /\ WholeInv'
  <1>1. /\ edges' = IF message.he THEN HeEdges(message.code) ELSE NcEdges(message.code)
        /\ old_time' = -gap /\ nc_timebase' = nc_timebase - (old_time + gap)
        /\ sending' = message /\ nc_count' = nc_count
    BY DEF Send
  <1>2. old_time' - nc_timebase' = old_time - nc_timebase
    <2>1. old_time \in Int /\ nc_timebase \in Int /\ gap \in Int
      BY TransmitterAssumption DEF DecoderInv, TypeOK
    <2>2. -gap - (nc_timebase - (old_time + gap)) = old_time - nc_timebase
      BY <2>1
    <2> QED
      BY <1>1, <2>2
  <1>3. LagInv'
    BY <1>1, <1>2 DEF LagInv, Idle, SymbolTime
  <1>4. message.he => HeHeld(message.code)'
    BY <1>1 DEF HeHeld
  <1>5. ~message.he => NcHeld(message.code)'
    BY <1>1 DEF NcHeld
  <1>6. WholeInv'
    BY <1>1, <1>4, <1>5 DEF WholeInv
  <1> QED
    BY <1>3, <1>6

LEMMA StepWholeInv ==
  ASSUME SmallJitter, PausesBetween, DecoderInv, LagInv, WholeInv, [Next]_vars
  PROVE  LagInv' /\ WholeInv'
  <1>1. HeOK /\ NcOK /\ old_time \in Int /\ sending \in Message /\ edges \subseteq Nat
    BY DEF DecoderInv, TypeOK, HeOK, NcOK
  <1>2. ASSUME NEW code \in Codes, NEW gap \in Gaps, Send([he |-> FALSE, code |-> code], gap)
        PROVE  LagInv' /\ WholeInv'
    <2>1. [he |-> FALSE, code |-> code] \in Message
      BY TransmitterAssumption DEF Message
    <2> QED
      BY <1>2, <2>1, SendWhole
  <1>3. ASSUME NEW code \in HeCodes, NEW gap \in Gaps, Send([he |-> TRUE, code |-> code], gap)
        PROVE  LagInv' /\ WholeInv'
    <2>1. [he |-> TRUE, code |-> code] \in Message
      BY TransmitterAssumption DEF Message
    <2> QED
      BY <1>3, <2>1, SendWhole
  <1>4. CASE Edge
    <2>1. PICK j \in -Jitter .. Jitter : rx433_interrupt(Min(edges) + j)
      BY <1>4 DEF Edge
    <2>2. Min(edges) + j \in Int
      <3>1. Min(edges) \in Nat
        BY <1>1, <1>4, MinOfNumbers DEF Edge
      <3> QED
        BY <3>1, Lengths
    <2>3. LagInv'
      BY <1>1, <2>1, <2>2, LagKept
    <2>4. ASSUME whole, sent > 0, sending.he
          PROVE  HeHeld(sending.code)'
      <3>1. PICK code \in HeCode : code = sending.code
        BY <1>1, <2>4 DEF Message
      <3>2. HeHeld(code)'
        BY <1>1, <1>4, <2>4, <3>1, HeHeldKept DEF WholeInv
      <3>3. (sending.code)' = code
        BY <1>4, <3>1 DEF Edge, airVars
      <3> QED
        BY <3>2, <3>3 DEF HeHeld, HeAtStart, HeAtBit, HeAtHalf, BitsUpTo
    <2>5. ASSUME whole, sent > 0, ~sending.he
          PROVE  NcHeld(sending.code)'
      <3>1. PICK code \in Code : code = sending.code
        BY <1>1, <2>5 DEF Message
      <3>2. NcHeld(code)'
        BY <1>1, <1>4, <2>5, <3>1, NcHeldKept DEF WholeInv
      <3>3. (sending.code)' = code
        BY <1>4, <3>1 DEF Edge, airVars
      <3> QED
        BY <3>2, <3>3 DEF NcHeld, AtSymbol, AtBit, BufferUpTo
    <2>6. whole' = whole /\ sent' = sent /\ sending' = sending
      BY <1>4 DEF Edge, airVars
    <2> QED
      BY <2>3, <2>4, <2>5, <2>6 DEF WholeInv
  <1>5. CASE LoseEdge
    BY <1>5 DEF LoseEdge, WholeInv, LagInv, ncVars, Idle, SymbolTime
  <1>6. CASE AddEdge
    <2>1. PICK t \in NoiseTimes : rx433_interrupt(t)
      BY <1>6 DEF AddEdge
    <2>2. t \in Int
      BY TransmitterAssumption
    <2>3. LagInv'
      BY <1>1, <2>1, <2>2, LagKept
    <2> QED
      BY <1>6, <2>3 DEF AddEdge, WholeInv
  <1>7. CASE UNCHANGED vars
    <2>1. LagInv'
      BY <1>7 DEF vars, ncVars, LagInv, Idle, SymbolTime
    <2>2. UNCHANGED <<he_state, he_bits, home_easy, nc_count, nc_buffer, nc_timebase, new_code,
                      old_time, sending, edges, whole, sent>>
      BY <1>7 DEF vars, heVars, ncVars, airVars
    <2>3. \A all, p : Passed(all, p)' <=> Passed(all, p)
      BY <2>2 DEF Passed, Near
    <2>4. \A code, i : BufferUpTo(code, i, 0)' <=> BufferUpTo(code, i, 0)
      BY <2>2 DEF BufferUpTo
    <2>5. ASSUME NEW code, NcHeld(code)
          PROVE  NcHeld(code)'
      <3>1. CASE edges = NcEdges(code) /\ \E gap \in Gaps : old_time = -gap
        BY <2>2, <3>1 DEF NcHeld
      <3>2. ASSUME NEW i \in 1 .. DataSize + 1, AtSymbol(code, i)
            PROVE  AtSymbol(code, i)'
        BY <2>2, <2>3, <2>4, <3>2 DEF AtSymbol, Near, Idle
      <3>3. ASSUME NEW i \in 1 .. DataSize, NEW b \in 0 .. SymbolSize, AtBit(code, i, b)
            PROVE  AtBit(code, i, b)'
        BY <2>2, <2>3, <3>3 DEF AtBit, BufferUpTo, Near
      <3> QED
        BY <2>5, <3>1, <3>2, <3>3 DEF NcHeld
    <2>6. ASSUME NEW code, HeHeld(code)
          PROVE  HeHeld(code)'
      <3>1. CASE edges = HeEdges(code)
        BY <2>2, <3>1 DEF HeHeld
      <3>2. ASSUME NEW n \in 0 .. Attempts - 1, HeAtStart(code, n)
            PROVE  HeAtStart(code, n)'
        BY <2>2, <2>3, <3>2 DEF HeAtStart
      <3>3. ASSUME NEW n \in 0 .. Attempts - 1, NEW i \in 1 .. HeSize + 1, HeAtBit(code, n, i)
            PROVE  HeAtBit(code, n, i)'
        BY <2>2, <2>3, <3>3 DEF HeAtBit, BitsUpTo
      <3>4. ASSUME NEW n \in 0 .. Attempts - 1, NEW i \in 1 .. HeSize, HeAtHalf(code, n, i)
            PROVE  HeAtHalf(code, n, i)'
        BY <2>2, <2>3, <3>4 DEF HeAtHalf, BitsUpTo
      <3> QED
        BY <2>6, <3>1, <3>2, <3>3, <3>4 DEF HeHeld
    <2>7. WholeInv'
      BY <2>2, <2>5, <2>6 DEF WholeInv
    <2> QED
      BY <2>1, <2>7
  <1> QED
    BY <1>2, <1>3, <1>4, <1>5, <1>6, <1>7 DEF Next

(* The inductive invariant of the places in a transmission. *)
THEOREM WholeInvariance ==
  ASSUME SmallJitter, PausesBetween
  PROVE  Spec => [](DecoderInv /\ LagInv /\ WholeInv)
  <1>1. Init => LagInv /\ WholeInv
    BY InitWholeInv
  <1>2. DecoderInv /\ LagInv /\ WholeInv /\ [Next]_vars => LagInv' /\ WholeInv'
    BY StepWholeInv
  <1> QED
    BY <1>1, <1>2, DecoderInvariance, PTL DEF Spec

(* tx433_driver.py:22-92 and rx433.c:33-166 agree: with the lengths of the *)
(* one and the tolerances of the other, a transmission of which every edge *)
(* comes, each less than half of EPSILON early or late, is decoded exactly *)
(* whatever came before it, broken or not.                                 *)
THEOREM WholeDecoded ==
  ASSUME SmallJitter, PausesBetween
  PROVE  Spec => []WholeIsDecoded
  <1>1. DecoderInv /\ LagInv /\ WholeInv => WholeIsDecoded
    <2> SUFFICES ASSUME DecoderInv, WholeInv, whole, edges = {}, sent > 0
                 PROVE  IF sending.he THEN home_easy = sending.code ELSE new_code = sending.code
      BY DEF WholeIsDecoded
    <2>1. sending \in Message
      BY DEF DecoderInv, TypeOK
    <2>2. CASE sending.he
      <3>1. sending.code \in HeCode
        BY <2>1, <2>2 DEF Message
      <3> QED
        BY <2>2, <3>1, HeHeldAtEnd DEF WholeInv
    <2>3. CASE ~sending.he
      <3>1. sending.code \in Code
        BY <2>1, <2>3 DEF Message
      <3> QED
        BY <2>3, <3>1, NcHeldAtEnd DEF WholeInv
    <2> QED
      BY <2>2, <2>3
  <1> QED
    BY <1>1, WholeInvariance, PTL
=============================================================================
