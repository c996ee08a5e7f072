------------------------- MODULE StatusReport_proofs -------------------------
(***************************************************************************)
(* Proofs about StatusReport: what the firmware decodes is what the panes   *)
(* and the configuration say, for every configuration, binding and state.   *)
(***************************************************************************)
EXTENDS StatusReport, FiniteSetTheorems, SequenceTheorems, TLAPS

-----------------------------------------------------------------------------
(* Bits. *)

LEMMA Powers == /\ 2 ^ 0 = 1 /\ 2 ^ 1 = 2 /\ 2 ^ 2 = 4 /\ 2 ^ 3 = 8
                /\ 2 ^ 4 = 16 /\ 2 ^ 5 = 32 /\ 2 ^ 6 = 64 /\ 2 ^ 7 = 128
  BY SMT

\* A byte is the sum of its bits.
LEMMA BitsOfByte ==
  ASSUME NEW v \in Bytes
  PROVE  /\ 0 \in Bits(v) <=> v % 2 = 1
         /\ 1 \in Bits(v) <=> (v \div 2) % 2 = 1
         /\ 2 \in Bits(v) <=> (v \div 4) % 2 = 1
         /\ 3 \in Bits(v) <=> (v \div 8) % 2 = 1
         /\ 4 \in Bits(v) <=> (v \div 16) % 2 = 1
         /\ 5 \in Bits(v) <=> (v \div 32) % 2 = 1
         /\ 6 \in Bits(v) <=> (v \div 64) % 2 = 1
         /\ 7 \in Bits(v) <=> (v \div 128) % 2 = 1
<1>1. v \div 1 = v
  BY DEF Bytes
<1>2. QED
  BY <1>1, Powers DEF Bits, Bytes

\* A value of three bits has no others.
LEMMA BitsOfField ==
  ASSUME NEW v \in 0 .. 7
  PROVE  Bits(v) \subseteq 0 .. 2
<1>1. v \in Bytes
  BY DEF Bytes
<1>2. (v \div 8) % 2 = 0 /\ (v \div 16) % 2 = 0 /\ (v \div 32) % 2 = 0 /\ (v \div 64) % 2 = 0
        /\ (v \div 128) % 2 = 0
  OBVIOUS
<1>3. \A j \in 3 .. 7 : j \notin Bits(v)
  BY <1>1, <1>2, BitsOfByte
<1>4. Bits(v) \subseteq 0 .. 7
  BY Zenon DEF Bits
<1>5. QED
  BY <1>3, <1>4

\* pack_three_bits writes the whole field, also when it crosses a byte.
LEMMA PackedField ==
  ASSUME NEW bit \in Nat, NEW v \in 0 .. 7
  PROVE  Packed(bit, v) = {bit + j : j \in Bits(v)}
<1> DEFINE byte == bit \div 8
           offset == bit % 8
<1>1. /\ byte \in Nat /\ offset \in 0 .. 7
      /\ bit = 8 * byte + offset
  OBVIOUS
<1>2. Bits(v) \subseteq 0 .. 2
  BY BitsOfField
<1> HIDE DEF byte, offset
<1>3. ASSUME NEW n
      PROVE  n \in Packed(bit, v) <=> n \in {bit + j : j \in Bits(v)}
  <2>1. n \in Packed(bit, v) <=>
          \/ \E j \in Bits(v) : j + offset \in 0 .. 7 /\ n = 8 * byte + (j + offset)
          \/ /\ offset > 5
             /\ \E j \in Bits(v) : j - (8 - offset) \in 0 .. 7
                                   /\ n = 8 * (byte + 1) + (j - (8 - offset))
    BY DEF Packed, byte, offset
  <2>2. ASSUME NEW j \in Bits(v)
        PROVE  /\ j \in 0 .. 2
               /\ 8 * byte + (j + offset) = bit + j
               /\ 8 * (byte + 1) + (j - (8 - offset)) = bit + j
               /\ j + offset \in 0 .. 7 \/ (offset > 5 /\ j - (8 - offset) \in 0 .. 7)
    <3>1. j \in 0 .. 2
      BY <1>2
    <3>2. QED
      BY <1>1, <3>1
  <2>3. ASSUME n \in Packed(bit, v)
        PROVE  \E j \in Bits(v) : n = bit + j
    BY <2>1, <2>2, <2>3
  <2>4. ASSUME NEW j \in Bits(v), n = bit + j
        PROVE  n \in Packed(bit, v)
    <3>1. CASE j + offset \in 0 .. 7
      BY <2>1, <2>2, <2>4, <3>1
    <3>2. CASE offset > 5 /\ j - (8 - offset) \in 0 .. 7
      <4>1. n = 8 * (byte + 1) + (j - (8 - offset))
        BY <2>2, <2>4
      <4>2. QED
        BY <2>1, <3>2, <4>1
    <3>3. QED
      BY <2>2, <3>1, <3>2
  <2>5. QED
    BY <2>3, <2>4
<1>4. QED
  BY <1>3

\* The firmware reads back a value of three bits, and a byte.
LEMMA FieldReads ==
  ASSUME NEW report, NEW n \in Nat, NEW v \in 0 .. 7,
         \A j \in 0 .. 2 : n + j \in report <=> j \in Bits(v)
  PROVE  ThreeBits(report, n) = v
<1>1. v \in Bytes
  BY DEF Bytes
<1>2. /\ n \in report <=> v % 2 = 1
      /\ n + 1 \in report <=> (v \div 2) % 2 = 1
      /\ n + 2 \in report <=> (v \div 4) % 2 = 1
  BY <1>1, BitsOfByte
<1>3. v = (v % 2) + 2 * ((v \div 2) % 2) + 4 * ((v \div 4) % 2)
  OBVIOUS
<1>4. /\ v % 2 \in {0, 1} /\ (v \div 2) % 2 \in {0, 1} /\ (v \div 4) % 2 \in {0, 1}
  OBVIOUS
<1>5. /\ Bit(report, n) = v % 2
      /\ Bit(report, n + 1) = (v \div 2) % 2
      /\ Bit(report, n + 2) = (v \div 4) % 2
  BY <1>2, <1>4 DEF Bit
<1>6. QED
  BY <1>3, <1>5 DEF ThreeBits

LEMMA ByteReads ==
  ASSUME NEW report, NEW b \in Nat, NEW v \in Bytes,
         \A j \in 0 .. 7 : 8 * b + j \in report <=> j \in Bits(v)
  PROVE  Byte(report, b) = v
<1> DEFINE d(k) == (v \div k) % 2
<1>1. /\ 8 * b \in report <=> v % 2 = 1
      /\ 8 * b + 1 \in report <=> d(2) = 1
      /\ 8 * b + 2 \in report <=> d(4) = 1
      /\ (8 * b + 3) \in report <=> d(8) = 1
      /\ (8 * b + 3) + 1 \in report <=> d(16) = 1
      /\ (8 * b + 3) + 2 \in report <=> d(32) = 1
      /\ 8 * b + 6 \in report <=> d(64) = 1
      /\ 8 * b + 7 \in report <=> d(128) = 1
  BY BitsOfByte
<1>2. v = (v % 2) + 2 * d(2) + 4 * d(4) + 8 * d(8) + 16 * d(16) + 32 * d(32) + 64 * d(64)
            + 128 * d(128)
  BY DEF Bytes
<1>3. /\ v % 2 \in {0, 1} /\ d(2) \in {0, 1} /\ d(4) \in {0, 1} /\ d(8) \in {0, 1}
      /\ d(16) \in {0, 1} /\ d(32) \in {0, 1} /\ d(64) \in {0, 1} /\ d(128) \in {0, 1}
  BY DEF Bytes
<1> HIDE DEF d
<1>4. /\ Bit(report, 8 * b) = v % 2
      /\ Bit(report, 8 * b + 1) = d(2)
      /\ Bit(report, 8 * b + 2) = d(4)
      /\ Bit(report, 8 * b + 3) = d(8)
      /\ Bit(report, (8 * b + 3) + 1) = d(16)
      /\ Bit(report, (8 * b + 3) + 2) = d(32)
      /\ Bit(report, 8 * b + 6) = d(64)
      /\ Bit(report, 8 * b + 7) = d(128)
  BY <1>1, <1>3 DEF Bit
<1>5. QED
  BY <1>2, <1>3, <1>4 DEF Byte, ThreeBits

-----------------------------------------------------------------------------
(* encode: which bits of the report are on. *)

WireTreatments == [1 .. 5 -> [color : Bytes \X Bytes \X Bytes, brightness : Bytes,
                             motion : Motions]]

HeaderBit(n) == n \in UNION {ByteBits(0, 2), ByteBits(1, 1), ByteBits(2, Sequence)}
StatusBit(slots, n) == \E i \in 0 .. 9 : \E j \in Bits(slots[i + 1]) : n = 32 + 3 * i + j
\* Treatment i has four bytes: the channels of its color and its brightness.
Channel(t, c) == IF c = 3 THEN t.brightness ELSE t.color[c + 1]
Position(i, c) == IF c = 3 THEN 23 + i ELSE 8 + 3 * i + c
ByteBit(treatments, n) ==
  \E i \in 0 .. 4, c \in 0 .. 3 :
    \E j \in Bits(Channel(treatments[i + 1], c)) : n = 8 * Position(i, c) + j
MotionBit(treatments, n) ==
  \E i \in 0 .. 4 : \E j \in Bits(MotionCode(treatments[i + 1].motion)) : n = 224 + 3 * i + j

LEMMA BitsAreBits == \A v : Bits(v) \subseteq 0 .. 7
  BY Zenon DEF Bits

LEMMA AssignedBytes == Assigned = 8 .. 27
<1>1. 0 .. 4 = {0, 1, 2, 3, 4}
  OBVIOUS
<1>2. ASSUME NEW b \in 8 .. 27
      PROVE  \E i \in 0 .. 4 : b \in {8 + i * 3, 9 + i * 3, 10 + i * 3, 23 + i}
  BY <1>1
<1>3. ASSUME NEW i \in 0 .. 4
      PROVE  {8 + i * 3, 9 + i * 3, 10 + i * 3, 23 + i} \subseteq 8 .. 27
  OBVIOUS
<1>4. QED
  BY <1>2, <1>3 DEF Assigned

LEMMA MotionCodes ==
  ASSUME NEW treatments \in WireTreatments, NEW i \in 0 .. 4
  PROVE  MotionCode(treatments[i + 1].motion) \in 0 .. 3
<1>1. treatments[i + 1].motion \in Motions
  <2>1. i + 1 \in 1 .. 5
    OBVIOUS
  <2>2. QED
    BY <2>1 DEF WireTreatments
<1>2. QED
  BY <1>1 DEF MotionCode, Motions

LEMMA EncodedBits ==
  ASSUME NEW slots \in [Slots -> 0 .. 7], NEW treatments \in WireTreatments, NEW n
  PROVE  n \in Encode(slots, treatments) <=>
           \/ HeaderBit(n)
           \/ StatusBit(slots, n)
           \/ ByteBit(treatments, n)
           \/ MotionBit(treatments, n)
<1> DEFINE statuses == UNION {Packed(StatusField(i), slots[i + 1]) : i \in 0 .. 9}
           motions == UNION {Packed(MotionField(i), MotionCode(treatments[i + 1].motion)) : i \in 0 .. 4}
           values == UNION {TreatmentBytes(i, treatments[i + 1]) : i \in 0 .. 4}
<1>1. n \in statuses <=> StatusBit(slots, n)
  <2>1. ASSUME NEW i \in 0 .. 9
        PROVE  Packed(StatusField(i), slots[i + 1]) = {32 + 3 * i + j : j \in Bits(slots[i + 1])}
    <3>1. slots[i + 1] \in 0 .. 7 /\ StatusField(i) \in Nat /\ StatusField(i) = 32 + 3 * i
      BY DEF StatusField, Slots
    <3>2. QED
      BY <3>1, PackedField
  <2>2. QED
    BY <2>1 DEF StatusBit
<1>2. n \in motions <=> MotionBit(treatments, n)
  <2>1. ASSUME NEW i \in 0 .. 4
        PROVE  Packed(MotionField(i), MotionCode(treatments[i + 1].motion))
                 = {224 + 3 * i + j : j \in Bits(MotionCode(treatments[i + 1].motion))}
    <3>1. /\ MotionCode(treatments[i + 1].motion) \in 0 .. 7
          /\ MotionField(i) \in Nat /\ MotionField(i) = 224 + 3 * i
      BY MotionCodes DEF MotionField
    <3>2. QED
      BY <3>1, PackedField
  <2>2. QED
    BY <2>1 DEF MotionBit
<1>3. n \in values <=> ByteBit(treatments, n)
  <2>1. ASSUME NEW i \in 0 .. 4, NEW t
        PROVE  n \in TreatmentBytes(i, t) <=>
                 \E c \in 0 .. 3 : \E j \in Bits(Channel(t, c)) : n = 8 * Position(i, c) + j
    <3>1. /\ Position(i, 0) = 8 + i * 3 /\ Position(i, 1) = 9 + i * 3
          /\ Position(i, 2) = 10 + i * 3 /\ Position(i, 3) = 23 + i
          /\ Channel(t, 0) = t.color[1] /\ Channel(t, 1) = t.color[2]
          /\ Channel(t, 2) = t.color[3] /\ Channel(t, 3) = t.brightness
      BY DEF Position, Channel
    <3>2. 0 .. 3 = {0, 1, 2, 3}
      OBVIOUS
    <3>3. QED
      BY <3>1, <3>2 DEF TreatmentBytes, ByteBits
  <2>2. QED
    BY <2>1 DEF ByteBit
\* Neither the header nor a status reaches a byte that is assigned.
<1>4. ASSUME HeaderBit(n) \/ StatusBit(slots, n)
      PROVE  n \div 8 \notin Assigned
  <2>1. CASE HeaderBit(n)
    BY <2>1, AssignedBytes, BitsAreBits DEF HeaderBit, ByteBits
  <2>2. CASE StatusBit(slots, n)
    <3>1. PICK i \in 0 .. 9 : \E j \in Bits(slots[i + 1]) : n = 32 + 3 * i + j
      BY <2>2 DEF StatusBit
    <3>2. slots[i + 1] \in 0 .. 7
      BY DEF Slots
    <3>3. n \in 32 .. 61
      BY <3>1, <3>2, BitsOfField
    <3>4. QED
      BY <3>3, AssignedBytes
  <2>3. QED
    BY <1>4, <2>1, <2>2
<1>5. n \in Encode(slots, treatments) <=>
        \/ (HeaderBit(n) \/ n \in statuses) /\ n \div 8 \notin Assigned
        \/ n \in values
        \/ n \in motions
  BY DEF Encode, HeaderBit
<1>6. QED
  BY <1>1, <1>2, <1>3, <1>4, <1>5

-----------------------------------------------------------------------------
(* The firmware reads back what encode was given. *)

LEMMA Positions ==
  ASSUME NEW i \in 0 .. 4, NEW c \in 0 .. 3
  PROVE  /\ Position(i, c) \in 8 .. 27
         /\ \A h \in 0 .. 4, d \in 0 .. 3 : Position(h, d) = Position(i, c) => h = i /\ d = c
  BY DEF Position

LEMMA StatusesRead ==
  ASSUME NEW slots \in [Slots -> 0 .. 7], NEW treatments \in WireTreatments, NEW k \in Slots
  PROVE  ThreeBits(Encode(slots, treatments), 32 + 3 * (k - 1)) = slots[k]
<1> DEFINE report == Encode(slots, treatments)
<1>1. k - 1 \in 0 .. 9 /\ (k - 1) + 1 = k /\ slots[k] \in 0 .. 7
  BY DEF Slots
<1>2. ASSUME NEW j \in 0 .. 2, NEW n, n = 32 + 3 * (k - 1) + j
      PROVE  n \in report <=> j \in Bits(slots[k])
  <2>0. n \in 32 .. 61
    BY <1>1, <1>2
  <2>1. ~HeaderBit(n) /\ ~ByteBit(treatments, n)
    <3>1. ~HeaderBit(n)
      BY <2>0, BitsAreBits DEF HeaderBit, ByteBits
    <3>2. ASSUME NEW i \in 0 .. 4, NEW c \in 0 .. 3,
                 NEW other \in Bits(Channel(treatments[i + 1], c))
          PROVE  n # 8 * Position(i, c) + other
      <4>1. Position(i, c) \in 8 .. 27 /\ other \in 0 .. 7
        BY BitsAreBits, Positions
      <4>2. QED
        BY <2>0, <4>1
    <3>3. QED
      BY <3>1, <3>2 DEF ByteBit
  <2>2. ~MotionBit(treatments, n)
    BY <1>1, <1>2, BitsAreBits DEF MotionBit
  <2>3. ASSUME NEW i \in 0 .. 9, NEW other \in Bits(slots[i + 1]), n = 32 + 3 * i + other
        PROVE  i = k - 1 /\ other = j
    <3>1. other \in 0 .. 2
      BY BitsOfField DEF Slots
    <3>2. QED
      BY <1>1, <1>2, <2>3, <3>1
  <2>4. StatusBit(slots, n) <=> j \in Bits(slots[k])
    BY <1>1, <1>2, <2>3 DEF StatusBit
  <2>5. QED
    BY <2>1, <2>2, <2>4, EncodedBits
<1> HIDE DEF report
<1>3. ThreeBits(report, 32 + 3 * (k - 1)) = slots[k]
  BY <1>1, <1>2, FieldReads
<1>4. QED
  BY <1>3 DEF report

LEMMA MotionsRead ==
  ASSUME NEW slots \in [Slots -> 0 .. 7], NEW treatments \in WireTreatments, NEW i \in 0 .. 4
  PROVE  ThreeBits(Encode(slots, treatments), 224 + 3 * i) = MotionCode(treatments[i + 1].motion)
<1> DEFINE report == Encode(slots, treatments)
           code == MotionCode(treatments[i + 1].motion)
<1>1. code \in 0 .. 7
  BY MotionCodes
<1>2. ASSUME NEW j \in 0 .. 2, NEW n, n = 224 + 3 * i + j
      PROVE  n \in report <=> j \in Bits(code)
  <2>1. ~HeaderBit(n) /\ ~ByteBit(treatments, n)
    BY <1>2, BitsAreBits, Positions DEF HeaderBit, ByteBit, ByteBits
  <2>2. ~StatusBit(slots, n)
    BY <1>2, BitsAreBits DEF StatusBit
  <2>3. ASSUME NEW h \in 0 .. 4, NEW other \in Bits(MotionCode(treatments[h + 1].motion)),
               n = 224 + 3 * h + other
        PROVE  h = i /\ other = j
    <3>1. MotionCode(treatments[h + 1].motion) \in 0 .. 7
      BY MotionCodes
    <3>2. other \in 0 .. 2
      BY <3>1, BitsOfField
    <3>3. QED
      BY <1>2, <2>3, <3>2
  <2>4. MotionBit(treatments, n) <=> j \in Bits(code)
    BY <1>2, <2>3 DEF MotionBit
  <2>5. QED
    BY <2>1, <2>2, <2>4, EncodedBits
<1> HIDE DEF report, code
<1>3. ThreeBits(report, 224 + 3 * i) = code
  BY <1>1, <1>2, FieldReads
<1>4. QED
  BY <1>3 DEF report, code

\* A byte that encode assigns keeps what it was assigned.
LEMMA ChannelRead ==
  ASSUME NEW slots \in [Slots -> 0 .. 7], NEW treatments \in WireTreatments,
         NEW i \in 0 .. 4, NEW c \in 0 .. 3
  PROVE  Byte(Encode(slots, treatments), Position(i, c)) = Channel(treatments[i + 1], c)
<1> DEFINE report == Encode(slots, treatments)
           v == Channel(treatments[i + 1], c)
           b == Position(i, c)
<1>1. b \in 8 .. 27
  BY Positions
<1>2. v \in Bytes
  <2>1. /\ treatments[i + 1].color \in Bytes \X Bytes \X Bytes
        /\ treatments[i + 1].brightness \in Bytes
    <3>1. i + 1 \in 1 .. 5
      OBVIOUS
    <3>2. QED
      BY <3>1 DEF WireTreatments
  <2>2. QED
    BY <2>1 DEF Channel
<1>3. ASSUME NEW j \in 0 .. 7, NEW n, n = 8 * b + j
      PROVE  n \in report <=> j \in Bits(v)
  <2>1. ~HeaderBit(n)
    BY <1>1, <1>3, BitsAreBits DEF HeaderBit, ByteBits
  <2>2. ~MotionBit(treatments, n)
    BY <1>1, <1>3, BitsAreBits DEF MotionBit
  <2>3. ~StatusBit(slots, n)
    <3>1. SUFFICES ASSUME NEW k \in 0 .. 9, NEW other \in Bits(slots[k + 1]),
                          n = 32 + 3 * k + other
                   PROVE  FALSE
      BY DEF StatusBit
    <3>2. other \in 0 .. 2
      BY BitsOfField DEF Slots
    <3>3. QED
      BY <1>1, <1>3, <3>1, <3>2
  <2>4. ASSUME NEW h \in 0 .. 4, NEW d \in 0 .. 3, NEW other \in Bits(Channel(treatments[h + 1], d)),
               n = 8 * Position(h, d) + other
        PROVE  h = i /\ d = c /\ other = j
    <3>1. other \in 0 .. 7 /\ Position(h, d) \in 8 .. 27
      BY BitsAreBits, Positions
    <3>2. Position(h, d) = b /\ other = j
      BY <1>1, <1>3, <2>4, <3>1
    <3>3. QED
      BY <3>2, Positions
  <2>5. ByteBit(treatments, n) <=> j \in Bits(v)
    BY <1>3, <2>4 DEF ByteBit
  <2>6. QED
    BY <2>1, <2>2, <2>3, <2>5, EncodedBits
<1> HIDE DEF report, v, b
<1>4. Byte(report, b) = v
  BY <1>1, <1>2, <1>3, ByteReads
<1>5. QED
  BY <1>4 DEF report, v, b

LEMMA TreatmentsRead ==
  ASSUME NEW slots \in [Slots -> 0 .. 7], NEW treatments \in WireTreatments, NEW i \in 0 .. 4
  PROVE  LET report == Encode(slots, treatments)
             t == treatments[i + 1]
         IN  /\ <<Byte(report, 8 + 3 * i), Byte(report, 9 + 3 * i), Byte(report, 10 + 3 * i)>> = t.color
             /\ Byte(report, 23 + i) = t.brightness
<1> DEFINE report == Encode(slots, treatments)
           t == treatments[i + 1]
<1>1. t.color = <<t.color[1], t.color[2], t.color[3]>>
  <2>1. i + 1 \in 1 .. 5
    OBVIOUS
  <2>2. QED
    BY <2>1 DEF WireTreatments
<1>2. \A c \in 0 .. 3 : Byte(report, Position(i, c)) = Channel(t, c)
  BY ChannelRead
<1>3. /\ Position(i, 0) = 8 + 3 * i /\ Position(i, 1) = 9 + 3 * i
      /\ Position(i, 2) = 10 + 3 * i /\ Position(i, 3) = 23 + i
      /\ Channel(t, 0) = t.color[1] /\ Channel(t, 1) = t.color[2]
      /\ Channel(t, 2) = t.color[3] /\ Channel(t, 3) = t.brightness
  BY DEF Position, Channel
<1> HIDE DEF report, t
<1>4. /\ Byte(report, 8 + 3 * i) = t.color[1] /\ Byte(report, 9 + 3 * i) = t.color[2]
      /\ Byte(report, 10 + 3 * i) = t.color[3] /\ Byte(report, 23 + i) = t.brightness
  BY <1>2, <1>3
<1>5. QED
  BY <1>1, <1>4 DEF report, t

\* Where the bits of each kind are.
LEMMA BitRanges ==
  ASSUME NEW slots \in [Slots -> 0 .. 7], NEW treatments \in WireTreatments, NEW n
  PROVE  /\ HeaderBit(n) => n \in 0 .. 23
         /\ StatusBit(slots, n) => n \in 32 .. 61
         /\ ByteBit(treatments, n) => n \in 64 .. 223
         /\ MotionBit(treatments, n) => n \in 224 .. 238
<1>1. HeaderBit(n) => n \in 0 .. 23
  BY BitsAreBits DEF HeaderBit, ByteBits
<1>2. StatusBit(slots, n) => n \in 32 .. 61
  <2>1. ASSUME NEW i \in 0 .. 9
        PROVE  Bits(slots[i + 1]) \subseteq 0 .. 2
    BY BitsOfField DEF Slots
  <2>2. QED
    BY <2>1 DEF StatusBit
<1>3. ByteBit(treatments, n) => n \in 64 .. 223
  <2>1. ASSUME NEW i \in 0 .. 4, NEW c \in 0 .. 3, NEW j \in Bits(Channel(treatments[i + 1], c))
        PROVE  8 * Position(i, c) + j \in 64 .. 223
    BY BitsAreBits, Positions
  <2>2. QED
    BY <2>1 DEF ByteBit
<1>4. MotionBit(treatments, n) => n \in 224 .. 238
  <2>1. ASSUME NEW i \in 0 .. 4
        PROVE  Bits(MotionCode(treatments[i + 1].motion)) \subseteq 0 .. 2
    <3>1. MotionCode(treatments[i + 1].motion) \in 0 .. 7
      BY MotionCodes
    <3>2. QED
      BY <3>1, BitsOfField
  <2>2. QED
    BY <2>1 DEF MotionBit
<1>5. QED
  BY <1>1, <1>2, <1>3, <1>4

\* The sequence number is where the protocol has it and what is reserved is zero.
LEMMA ReservedRead ==
  ASSUME NEW slots \in [Slots -> 0 .. 7], NEW treatments \in WireTreatments
  PROVE  LET report == Encode(slots, treatments) IN
         /\ report \subseteq 0 .. 255
         /\ Byte(report, 2) = Sequence
         /\ \A b \in {3, 30, 31} : Byte(report, b) = 0
         /\ \A n \in {62, 63, 239} : Bit(report, n) = 0
<1> DEFINE report == Encode(slots, treatments)
<1>1. \A n \in report : n \in (0 .. 23) \cup (32 .. 61) \cup (64 .. 223) \cup (224 .. 238)
  BY EncodedBits, BitRanges
<1>2. ASSUME NEW j \in 0 .. 7, NEW n, n = 8 * 2 + j
      PROVE  n \in report <=> j \in Bits(Sequence)
  <2>1. n \in 16 .. 23
    BY <1>2
  <2>2. n \in report <=> HeaderBit(n)
    BY <2>1, EncodedBits, BitRanges
  <2>3. HeaderBit(n) <=> n \in ByteBits(0, 2) \/ n \in ByteBits(1, 1) \/ n \in ByteBits(2, Sequence)
    BY DEF HeaderBit
  <2>4. n \notin ByteBits(0, 2) /\ n \notin ByteBits(1, 1)
    BY <2>1, BitsAreBits DEF ByteBits
  <2>5. n \in ByteBits(2, Sequence) <=> j \in Bits(Sequence)
    BY <1>2, BitsAreBits DEF ByteBits
  <2>6. QED
    BY <2>2, <2>3, <2>4, <2>5
<1> HIDE DEF report
<1>3. Byte(report, 2) = Sequence
  BY <1>2, ByteReads, ReportAssumption
<1>4. \A n \in {62, 63, 239} : Bit(report, n) = 0
  BY <1>1 DEF Bit
<1>5. \A b \in {3, 30, 31} : Byte(report, b) = 0
  BY <1>1 DEF Byte, ThreeBits, Bit
<1>6. QED
  BY <1>1, <1>3, <1>4, <1>5 DEF report

-----------------------------------------------------------------------------
(* The configuration: what load accepts is typed, and its theme is the one   *)
(* the file means.                                                            *)

LEMMA FieldTyped ==
  ASSUME NEW field, NEW values, Field(field, values), NEW default \in values
  PROVE  OrElse(field, default) \in values
  BY DEF Field, OrElse

LEMMA HerdrThemeTyped == HerdrTheme \in [States -> Treatments]
<1>1. ASSUME NEW s \in States
      PROVE  HerdrTheme[s] \in Treatments
  BY DEF HerdrTheme, States, Treatment, Treatments, Bytes, Motions
<1>2. QED
  BY <1>1 DEF HerdrTheme

\* The theme of an accepted file, agent state by agent state.
Themed(f, s) ==
  IF f.version = 1 THEN Override(HerdrTheme[s], f.states[s])
  ELSE IF f.config.theme \in DOMAIN f.config.themes
         THEN f.config.themes[f.config.theme][s] ELSE HerdrTheme[s]

LEMMA SelectedThemes ==
  ASSUME NEW f, FileTyped(f), Accepted(f), NEW s \in States
  PROVE  /\ SelectedTheme(Parse(f))[s] = Themed(f, s)
         /\ Themed(f, s) \in Treatments
         /\ Themed(f, s).percent \in 0 .. 100
<1>1. CASE f.version = 1
  <2>1. Parse(f) = Upgrade(f)
    BY <1>1 DEF Parse
  <2>2. /\ Upgrade(f).theme = "legacy-v1"
        /\ Upgrade(f).themes = [name \in {"legacy-v1"} |->
                                  [t \in States |-> Override(HerdrTheme[t], f.states[t])]]
    BY DEF Upgrade, Default
  <2>3. SelectedTheme(Upgrade(f)) = [t \in States |-> Override(HerdrTheme[t], f.states[t])]
    BY <2>2 DEF SelectedTheme, Themes
  <2>4. SelectedTheme(Parse(f))[s] = Themed(f, s)
    BY <1>1, <2>1, <2>3 DEF Themed
  <2>5. Override(HerdrTheme[s], f.states[s]) \in Treatments
    <3>1. /\ HerdrTheme[s].color \in Bytes \X Bytes \X Bytes
          /\ HerdrTheme[s].percent \in Int
          /\ HerdrTheme[s].motion \in Motions
      BY HerdrThemeTyped DEF Treatments, Motions
    <3>2. /\ Field(f.states[s].color, Bytes \X Bytes \X Bytes)
          /\ Field(f.states[s].percent, Int)
          /\ Field(f.states[s].motion, Motions)
      BY <1>1 DEF FileTyped, LegacyTyped, Motions
    <3>3. /\ OrElse(f.states[s].color, HerdrTheme[s].color) \in Bytes \X Bytes \X Bytes
          /\ OrElse(f.states[s].percent, HerdrTheme[s].percent) \in Int
          /\ OrElse(f.states[s].motion, HerdrTheme[s].motion) \in Motions
      BY <3>1, <3>2, FieldTyped
    <3>4. QED
      BY <3>3 DEF Override, Treatment, Treatments, Motions
  <2>6. SelectedTheme(Parse(f))[s].percent \in 0 .. 100
    BY DEF Accepted, DisplayAccepted
  <2>7. QED
    BY <1>1, <2>4, <2>5, <2>6 DEF Themed
<1>2. CASE f.version # 1
  <2>1. Parse(f) = f.config
    BY <1>2 DEF Parse
  <2>2. /\ f.config.theme \in DOMAIN Themes(f.config)
        /\ SelectedTheme(f.config)[s].percent \in 0 .. 100
    BY <2>1 DEF Accepted, DisplayAccepted
  <2>3. f.config.theme \in DOMAIN f.config.themes \/ f.config.theme \in DOMAIN BuiltInThemes
    BY <2>2 DEF Themes
  <2>4. SelectedTheme(f.config) = IF f.config.theme \in DOMAIN f.config.themes
                                    THEN f.config.themes[f.config.theme] ELSE HerdrTheme
    BY <2>3 DEF SelectedTheme, Themes, BuiltInThemes
  <2>5. SelectedTheme(Parse(f))[s] = Themed(f, s)
    BY <1>2, <2>1, <2>4 DEF Themed
  <2>6. SelectedTheme(f.config) \in [States -> Treatments]
    BY <1>2, <2>4, HerdrThemeTyped DEF FileTyped, ConfigTyped
  <2>7. QED
    BY <2>1, <2>2, <2>5, <2>6
<1>3. QED
  BY <1>1, <1>2

LEMMA BrightnessFits ==
  ASSUME NEW percent \in 0 .. 100
  PROVE  BrightnessByte(percent) \in Bytes
  BY DEF BrightnessByte, Bytes

-----------------------------------------------------------------------------
(* What a state of the daemon encodes. *)

StateOrder == <<"idle", "working", "blocked", "done", "unknown">>

ReportTypeOK == /\ file \in ConfigFiles
                /\ manual \in BOOLEAN
                /\ manual => file = DefaultFile
                /\ state \in [Slots -> States \cup {Unbound}]

LEMMA StateOrdered == ASSUME NEW i \in 0 .. 4 PROVE StateOrder[i + 1] \in States
<1>1. i \in {0, 1, 2, 3, 4}
  OBVIOUS
<1>2. QED
  BY <1>1 DEF StateOrder, States

LEMMA Codes == ASSUME ReportTypeOK
               PROVE  [k \in Slots |-> Code(state[k])] \in [Slots -> 0 .. 7]
<1>1. ASSUME NEW k \in Slots
      PROVE  Code(state[k]) \in 0 .. 7
  <2>1. state[k] \in States \cup {Unbound}
    BY DEF ReportTypeOK
  <2>2. QED
    BY <2>1 DEF Code, States, Unbound
<1>2. QED
  BY <1>1

\* With each key once in the configuration, its slot is its own pane's state.
LEMMA PlanHasEachKey ==
  ASSUME FileTyped(file), Accepted(file)
  PROVE  /\ \A k \in Slots : \E i \in Slots : Loaded.keys[i] = k
         /\ Loaded.keys \in [Slots -> Slots]
<1>1. KeysAccepted(Loaded)
  BY DEF Accepted, DisplayAccepted, Loaded
<1>2. ASSUME NEW k \in Slots
      PROVE  \E i \in Slots : Loaded.keys[i] = k
  <2>1. Cardinality({i \in Slots : Loaded.keys[i] = k}) = 1
    BY <1>1 DEF KeysAccepted
  <2>2. {i \in Slots : Loaded.keys[i] = k} # {}
    BY <2>1, FS_EmptySet
  <2>3. QED
    BY <2>2
<1>3. Loaded.keys \in Seq(Slots)
  <2>1. CASE file.version = 1
    BY <2>1 DEF Loaded, Parse, Upgrade, Default, DefaultKeys, Slots
  <2>2. CASE file.version # 1
    BY <2>2 DEF FileTyped, ConfigTyped, Loaded, Parse
  <2>3. QED
    BY <2>1, <2>2
<1>4. Len(Loaded.keys) = 10
  BY <1>1 DEF KeysAccepted
<1>5. Loaded.keys \in [1 .. 10 -> Slots]
  <2>1. /\ Loaded.keys = [i \in 1 .. Len(Loaded.keys) |-> Loaded.keys[i]]
        /\ \A i \in 1 .. Len(Loaded.keys) : Loaded.keys[i] \in Slots
    BY <1>3
  <2>2. QED
    BY <1>4, <2>1
<1>6. QED
  BY <1>2, <1>5 DEF Slots

LEMMA SlotsOfPlan ==
  ASSUME FileTyped(file), Accepted(file)
  PROVE  SlotsForPlan(Plan) = [k \in Slots |-> Code(state[k])]
<1>1. ASSUME NEW k \in Slots
      PROVE  (CHOOSE render \in {Plan[i] : i \in Slots} : render.key = k).state = state[k]
  <2>1. \E render \in {Plan[i] : i \in Slots} : render.key = k
    <3>1. PICK i \in Slots : Loaded.keys[i] = k
      BY PlanHasEachKey
    <3>2. Plan[i].key = k
      BY <3>1 DEF Plan
    <3>3. QED
      BY <3>2
  <2>2. \A render \in {Plan[i] : i \in Slots} : render.key = k => render.state = state[k]
    BY DEF Plan
  <2>3. QED
    BY <2>1, <2>2
<1>2. QED
  BY <1>1 DEF SlotsForPlan

LEMMA TreatmentsOfPlan ==
  ASSUME FileTyped(file), Accepted(file)
  PROVE  /\ TreatmentsForPlan \in WireTreatments
         /\ \A i \in 0 .. 4 :
              LET t == Themed(file, StateOrder[i + 1]) IN
              TreatmentsForPlan[i + 1] = [color |-> t.color, brightness |-> BrightnessByte(t.percent),
                                          motion |-> t.motion]
<1>1. ASSUME NEW i \in 0 .. 4
      PROVE  Ordered(SelectedTheme(Loaded))[i + 1] = Themed(file, StateOrder[i + 1])
  <2>1. i \in {0, 1, 2, 3, 4}
    OBVIOUS
  <2>2. Ordered(SelectedTheme(Loaded))[i + 1] = SelectedTheme(Loaded)[StateOrder[i + 1]]
    BY <2>1 DEF Ordered, StateOrder
  <2>3. QED
    BY <2>2, StateOrdered, SelectedThemes DEF Loaded
<1>2. ASSUME NEW i \in 0 .. 4
      PROVE  LET t == Themed(file, StateOrder[i + 1]) IN
             TreatmentsForPlan[i + 1] = [color |-> t.color, brightness |-> BrightnessByte(t.percent),
                                         motion |-> t.motion]
  <2>1. i + 1 \in 1 .. 5
    OBVIOUS
  <2>2. QED
    BY <1>1, <2>1 DEF TreatmentsForPlan
<1>3. ASSUME NEW n \in 1 .. 5
      PROVE  TreatmentsForPlan[n] \in [color : Bytes \X Bytes \X Bytes, brightness : Bytes,
                                       motion : Motions]
  <2> DEFINE t == Themed(file, StateOrder[(n - 1) + 1])
  <2>1. n - 1 \in 0 .. 4 /\ (n - 1) + 1 = n
    OBVIOUS
  <2>2. t \in Treatments /\ t.percent \in 0 .. 100
    BY <2>1, StateOrdered, SelectedThemes
  <2>3. BrightnessByte(t.percent) \in Bytes
    BY <2>2, BrightnessFits
  <2>4. TreatmentsForPlan[n] = [color |-> t.color, brightness |-> BrightnessByte(t.percent),
                                motion |-> t.motion]
    BY <1>2, <2>1
  <2> HIDE DEF t
  <2>5. QED
    BY <2>2, <2>3, <2>4 DEF Treatments
<1>4. TreatmentsForPlan \in WireTreatments
  BY <1>3 DEF WireTreatments, TreatmentsForPlan
<1>5. QED
  BY <1>2, <1>4

LEMMA ManualTreatmentsOrdered ==
  /\ ManualTreatments \in WireTreatments
  /\ \A i \in 0 .. 4 :
       LET t == HerdrTheme[StateOrder[i + 1]] IN
       ManualTreatments[i + 1] = [color |-> t.color, brightness |-> BrightnessByte(t.percent),
                                  motion |-> t.motion]
<1>1. /\ BrightnessByte(20) = 51 /\ BrightnessByte(60) = 153
      /\ BrightnessByte(80) = 204 /\ BrightnessByte(30) = 77
  BY DEF BrightnessByte
<1>2. ASSUME NEW i \in {0, 1, 2, 3, 4}
      PROVE  LET t == HerdrTheme[StateOrder[i + 1]] IN
             ManualTreatments[i + 1] = [color |-> t.color, brightness |-> BrightnessByte(t.percent),
                                        motion |-> t.motion]
  <2>1. /\ HerdrTheme["idle"] = Treatment(<<59, 160, 255>>, 20, "steady")
        /\ HerdrTheme["working"] = Treatment(<<249, 226, 175>>, 60, "breathe")
        /\ HerdrTheme["blocked"] = Treatment(<<243, 139, 168>>, 80, "pulse")
        /\ HerdrTheme["done"] = Treatment(<<166, 227, 161>>, 80, "steady")
        /\ HerdrTheme["unknown"] = Treatment(<<108, 112, 134>>, 30, "flicker")
    BY DEF HerdrTheme, States
  <2>2. i = 0 \/ i = 1 \/ i = 2 \/ i = 3 \/ i = 4
    OBVIOUS
  <2>3. QED
    BY <1>1, <2>1, <2>2 DEF ManualTreatments, StateOrder, Treatment
<1>3. ManualTreatments \in WireTreatments
  BY DEF ManualTreatments, WireTreatments, Bytes, Motions
<1>4. 0 .. 4 = {0, 1, 2, 3, 4}
  OBVIOUS
<1>5. QED
  BY <1>2, <1>3, <1>4

-----------------------------------------------------------------------------
(* Theorems. *)

\* The file never changes, only a running daemon's panes do; a report by hand
\* goes out with the default configuration.
THEOREM ReportTypeCorrect == Spec => []ReportTypeOK
<1>1. Init => ReportTypeOK
  <2>1. SUFFICES ASSUME Init PROVE ReportTypeOK
    OBVIOUS
  <2>2. file \in ConfigFiles
    BY <2>1 DEF Init
  <2>3. manual \in BOOLEAN /\ (manual => file = DefaultFile)
    <3>1. manual = FALSE \/ manual = (file = DefaultFile)
      BY <2>1 DEF Init
    <3>2. QED
      BY <3>1, Zenon
  <2>4. state \in [Slots -> States \cup {Unbound}]
    BY <2>1 DEF Init
  <2>5. QED
    BY <2>2, <2>3, <2>4 DEF ReportTypeOK
<1>2. ReportTypeOK /\ [Next]_vars => ReportTypeOK'
  <2>1. SUFFICES ASSUME ReportTypeOK, [Next]_vars PROVE ReportTypeOK'
    OBVIOUS
  <2>2. CASE \E k \in Slots, s \in States \cup {Unbound} : KeyChanges(k, s)
    BY <2>1, <2>2 DEF KeyChanges, ReportTypeOK, DefaultFile
  <2>3. CASE UNCHANGED vars
    BY <2>1, <2>3 DEF vars, ReportTypeOK, DefaultFile
  <2>4. QED
    BY <2>1, <2>2, <2>3 DEF Next, Refused, vars
<1>3. QED
  BY <1>1, <1>2, PTL DEF Spec

\* What both kinds of report are encoded from.
LEMMA ReportEncodes ==
  ASSUME ReportTypeOK, Accepted(file)
  PROVE  \E treatments \in WireTreatments :
           /\ Report = Encode([k \in Slots |-> Code(state[k])], treatments)
           /\ \A i \in 0 .. 4 :
                LET t == Meant(StateOrder[i + 1]) IN
                treatments[i + 1] = [color |-> t.color, brightness |-> BrightnessByte(t.percent),
                                     motion |-> t.motion]
<1>1. FileTyped(file)
  BY ReportAssumption DEF ReportTypeOK
<1>2. CASE manual
  <2>1. \A s : Meant(s) = HerdrTheme[s]
    BY <1>2 DEF Meant
  <2>2. Report = Encode([k \in Slots |-> Code(state[k])], ManualTreatments)
    BY <1>2 DEF Report
  <2>3. QED
    BY <2>1, <2>2, ManualTreatmentsOrdered
<1>3. CASE ~manual
  <2>1. \A s \in States : Meant(s) = Themed(file, s)
    BY <1>3 DEF Meant, Themed, Override, OrElse, Treatment
  <2>2. Report = Encode([k \in Slots |-> Code(state[k])], TreatmentsForPlan)
    BY <1>1, <1>3, SlotsOfPlan DEF Report
  <2>3. QED
    BY <1>1, <2>1, <2>2, StateOrdered, TreatmentsOfPlan
<1>4. QED
  BY <1>2, <1>3

\* Whatever the ten panes do, whatever order the configuration has the keys in
\* and whatever the treatments are, each key's three bits are its own state.
THEOREM KeysDecodeCorrect == Spec => []KeysDecode
<1>1. ReportTypeOK => KeysDecode
  <2>1. SUFFICES ASSUME ReportTypeOK, Accepted(file), NEW k \in Slots
                 PROVE  ThreeBits(Report, 32 + 3 * (k - 1)) = Code(state[k])
    BY DEF KeysDecode
  <2>2. PICK treatments \in WireTreatments :
          Report = Encode([key \in Slots |-> Code(state[key])], treatments)
    BY <2>1, ReportEncodes
  <2>3. QED
    BY <2>1, <2>2, Codes, StatusesRead
<1>2. QED
  BY <1>1, ReportTypeCorrect, PTL

\* Each agent state looks as the file means, for every file load accepts and
\* every report by hand, and no treatment touches another or what is reserved.
THEOREM TreatmentsDecodeCorrect == Spec => []TreatmentsDecode
<1>1. ReportTypeOK => TreatmentsDecode
  <2>1. SUFFICES ASSUME ReportTypeOK, Accepted(file) PROVE TreatmentsDecode
    BY DEF TreatmentsDecode
  <2>2. PICK treatments \in WireTreatments :
          /\ Report = Encode([k \in Slots |-> Code(state[k])], treatments)
          /\ \A i \in 0 .. 4 :
               LET t == Meant(StateOrder[i + 1]) IN
               treatments[i + 1] = [color |-> t.color, brightness |-> BrightnessByte(t.percent),
                                    motion |-> t.motion]
    BY <2>1, ReportEncodes
  <2>3. /\ Report \subseteq 0 .. 255
        /\ Byte(Report, 2) = Sequence
        /\ \A b \in {3, 30, 31} : Byte(Report, b) = 0
        /\ \A n \in {62, 63, 239} : Bit(Report, n) = 0
    BY <2>1, <2>2, Codes, ReservedRead
  <2>4. ASSUME NEW i \in 0 .. 4
        PROVE  LET t == Meant(StateOrder[i + 1]) IN
               /\ ThreeBits(Report, 224 + 3 * i) = MotionCode(t.motion)
               /\ <<Byte(Report, 8 + 3 * i), Byte(Report, 9 + 3 * i), Byte(Report, 10 + 3 * i)>> = t.color
               /\ Byte(Report, 23 + i) = BrightnessByte(t.percent)
    <3>1. /\ treatments[i + 1].color = Meant(StateOrder[i + 1]).color
          /\ treatments[i + 1].brightness = BrightnessByte(Meant(StateOrder[i + 1]).percent)
          /\ treatments[i + 1].motion = Meant(StateOrder[i + 1]).motion
      BY <2>2
    <3>2. ThreeBits(Report, 224 + 3 * i) = MotionCode(treatments[i + 1].motion)
      BY <2>1, <2>2, Codes, MotionsRead
    <3>3. /\ <<Byte(Report, 8 + 3 * i), Byte(Report, 9 + 3 * i), Byte(Report, 10 + 3 * i)>>
               = treatments[i + 1].color
          /\ Byte(Report, 23 + i) = treatments[i + 1].brightness
      BY <2>1, <2>2, Codes, TreatmentsRead
    <3>4. QED
      BY <3>1, <3>2, <3>3
  <2>5. QED
    BY <2>3, <2>4 DEF TreatmentsDecode, StateOrder
<1>2. QED
  BY <1>1, ReportTypeCorrect, PTL

-----------------------------------------------------------------------------
(* What an accepted configuration is taken for. *)

\* Profiles told apart have no shortcut in common, and a profile has none twice.
LEMMA ProfilesApart ==
  ASSUME NEW profiles \in Seq(Profiles), IsInjective(profiles)
  PROVE  /\ ~Collide(profiles)
         /\ \A i \in DOMAIN profiles, k \in Slots :
              Pressed(profiles, ProfileBindings[profiles[i]][k]) = {k}
<1>1. ASSUME NEW p \in Profiles, NEW q \in Profiles, NEW j \in Slots, NEW k \in Slots,
             ProfileBindings[p][j] = ProfileBindings[q][k]
      PROVE  p = q /\ j = k
  <2>1. ASSUME NEW n \in Slots
        PROVE  /\ ProfileBindings["glove80"][n] = IF n <= 5 THEN Shortcut(FALSE, 15 + n)
                                                          ELSE Shortcut(TRUE, 10 + n)
               /\ ProfileBindings["macbook-function-keys"][n] = Shortcut(FALSE, n)
    BY DEF ProfileBindings, Profiles, Glove80Bindings, MacbookBindings
  <2>2. ASSUME NEW n \in Slots
        PROVE  /\ n <= 5 => /\ ProfileBindings["glove80"][n].code = 15 + n
                             /\ ProfileBindings["glove80"][n].shift = FALSE
               /\ ~(n <= 5) => /\ ProfileBindings["glove80"][n].code = 10 + n
                                /\ ProfileBindings["glove80"][n].shift = TRUE
               /\ ProfileBindings["macbook-function-keys"][n].code = n
    <3>1. ASSUME NEW shortcut, NEW code, shortcut = Shortcut(FALSE, code)
          PROVE  shortcut.code = code /\ shortcut.shift = FALSE
      BY <3>1, Zenon DEF Shortcut
    <3>2. ASSUME NEW shortcut, NEW code, shortcut = Shortcut(TRUE, code)
          PROVE  shortcut.code = code /\ shortcut.shift = TRUE
      BY <3>2, Zenon DEF Shortcut
    <3>3. n <= 5 => ProfileBindings["glove80"][n] = Shortcut(FALSE, 15 + n)
      BY <2>1
    <3>4. ~(n <= 5) => ProfileBindings["glove80"][n] = Shortcut(TRUE, 10 + n)
      BY <2>1
    <3>5. ProfileBindings["macbook-function-keys"][n] = Shortcut(FALSE, n)
      BY <2>1
    <3>6. CASE n <= 5
      <4>1. ProfileBindings["glove80"][n].code = 15 + n /\ ProfileBindings["glove80"][n].shift = FALSE
        <5>1. ProfileBindings["glove80"][n] = Shortcut(FALSE, 15 + n)
          BY <3>3, <3>6
        <5>2. ProfileBindings["glove80"][n].code = 15 + n
          BY <5>1, SMT DEF Shortcut
        <5>3. ProfileBindings["glove80"][n].shift = FALSE
          BY <5>1, SMT DEF Shortcut
        <5>4. QED
          BY <5>2, <5>3
      <4>2. ProfileBindings["macbook-function-keys"][n].code = n
        BY <3>1, <3>5, Zenon
      <4>3. QED
        BY <3>6, <4>1, <4>2, Zenon
    <3>7. CASE ~(n <= 5)
      <4>1. ProfileBindings["glove80"][n].code = 10 + n /\ ProfileBindings["glove80"][n].shift = TRUE
        BY <3>2, <3>4, <3>7, Zenon
      <4>2. ProfileBindings["macbook-function-keys"][n].code = n
        BY <3>1, <3>5, Zenon
      <4>3. QED
        BY <3>7, <4>1, <4>2, Zenon
    <3>8. QED
      BY <3>6, <3>7, Zenon
  <2>3. CASE p = "glove80" /\ q = "glove80"
    <3>1. ASSUME NEW x \in Slots, NEW y \in Slots, x <= 5, ~(y <= 5)
          PROVE  ProfileBindings["glove80"][x] # ProfileBindings["glove80"][y]
      BY <2>2, <3>1, Zenon
    <3>2. j <= 5 <=> k <= 5
      BY <1>1, <2>3, <3>1, Zenon
    <3>3. ProfileBindings["glove80"][j].code = ProfileBindings["glove80"][k].code
      BY <1>1, <2>3
    <3>4. 15 + j = 15 + k \/ 10 + j = 10 + k
      BY <2>2, <3>2, <3>3
    <3>5. QED
      BY <2>3, <3>4 DEF Slots
  <2>4. CASE p = "macbook-function-keys" /\ q = "macbook-function-keys"
    BY <1>1, <2>2, <2>4
  \* F16 and above are not among F1 to F10.
  <2>5. ASSUME NEW x \in Slots, NEW y \in Slots
        PROVE  ProfileBindings["glove80"][x] # ProfileBindings["macbook-function-keys"][y]
    <3>1. 15 + x # y /\ (~(x <= 5) => 10 + x # y)
      BY DEF Slots
    <3>2. QED
      BY <2>2, <3>1
  <2>6. p \in {"glove80", "macbook-function-keys"} /\ q \in {"glove80", "macbook-function-keys"}
    BY DEF Profiles
  <2>7. QED
    BY <1>1, <2>3, <2>4, <2>5, <2>6
<1>2. ASSUME NEW c \in Claims(profiles), NEW d \in Claims(profiles),
             ClaimedShortcut(profiles, c) = ClaimedShortcut(profiles, d)
      PROVE  c = d
  <2>1. PICK h \in DOMAIN profiles, j \in Slots : c = <<h, j>>
    BY DEF Claims
  <2>2. PICK i \in DOMAIN profiles, k \in Slots : d = <<i, k>>
    BY DEF Claims
  <2>3. profiles[h] \in Profiles /\ profiles[i] \in Profiles
    OBVIOUS
  <2>4. profiles[h] = profiles[i] /\ j = k
    BY <1>1, <1>2, <2>1, <2>2, <2>3 DEF ClaimedShortcut
  <2>5. h = i
    BY <2>4 DEF IsInjective
  <2>6. QED
    BY <2>1, <2>2, <2>4, <2>5
<1>3. ASSUME NEW i \in DOMAIN profiles, NEW k \in Slots
      PROVE  Pressed(profiles, ProfileBindings[profiles[i]][k]) = {k}
  <2>1. <<i, k>> \in Claims(profiles)
          /\ ClaimedShortcut(profiles, <<i, k>>) = ProfileBindings[profiles[i]][k]
    BY DEF Claims, ClaimedShortcut
  <2>2. {d \in Claims(profiles) : ClaimedShortcut(profiles, d) = ProfileBindings[profiles[i]][k]}
          = {<<i, k>>}
    BY <1>2, <2>1
  <2>3. Pressed(profiles, ProfileBindings[profiles[i]][k]) = {c[2] : c \in {<<i, k>>}}
    BY <2>2 DEF Pressed
  <2>4. QED
    BY <2>3
<1>4. QED
  BY <1>2, <1>3 DEF Collide

\* A sequence without repetition has as many elements as places.
LEMMA DistinctIds ==
  ASSUME NEW S, NEW ids \in Seq(S), IsInjective(ids)
  PROVE  Cardinality(ToSet(ids)) = Len(ids)
<1>1. Len(ids) \in Nat /\ DOMAIN ids = 1 .. Len(ids)
  OBVIOUS
<1>2. ids \in [1 .. Len(ids) -> ToSet(ids)]
  BY <1>1 DEF ToSet
<1>3. ids \in Bijection(1 .. Len(ids), ToSet(ids))
  BY <1>1, <1>2 DEF Bijection, Injection, Surjection, IsInjective, ToSet
<1>4. QED
  BY <1>1, <1>3, FS_CountingElements DEF ExistsBijection

\* Ids of outputs (no backend knows that a literal is in STRING).
Ids == STRING \cup {"glove80-usb"}

LEMMA LoadedSections ==
  ASSUME FileTyped(file), Accepted(file)
  PROVE  /\ EnabledProfiles(Loaded.input) \in Seq(Profiles)
         /\ Field(Loaded.focus, Seq(STRING))
         /\ OutputIds(Loaded.outputs) \in Seq(Ids)
<1>1. /\ Field(Loaded.input.profile, Profiles)
      /\ Field(Loaded.input.profiles, Seq(Profiles))
      /\ Field(Loaded.focus, Seq(STRING))
      /\ Loaded.outputs.adapters \in Seq(Ids)
      /\ Loaded.outputs.plugins \in Seq([id : STRING, command : Seq(STRING)])
  <2>1. CASE file.version = 1
    <3>1. /\ Loaded.focus = file.focus
          /\ Loaded.input = DefaultInput
          /\ Loaded.outputs = DefaultOutputs
      BY <2>1 DEF Loaded, Parse, Upgrade, Default
    <3>2. Field(Loaded.focus, Seq(STRING))
      BY <2>1, <3>1 DEF FileTyped, LegacyTyped
    <3>3. /\ Loaded.input.profile = {} /\ Loaded.input.profiles = {}
          /\ Loaded.outputs.adapters = <<"glove80-usb">> /\ Loaded.outputs.plugins = <<>>
      BY <3>1 DEF DefaultInput, DefaultOutputs
    <3>4. \A values : Field({}, values)
      BY DEF Field
    <3>5. \A S : <<>> \in Seq(S)
      BY EmptySeq
    <3>6. \A S : \A x \in S : <<x>> \in Seq(S)
      BY SeqDef
    <3>7. Loaded.outputs.adapters \in Seq(Ids)
      BY <3>3, <3>6 DEF Ids
    <3>8. QED
      BY <3>2, <3>3, <3>4, <3>5, <3>7
  <2>2. CASE file.version # 1
    <3>1. Loaded.outputs.adapters \in Seq(STRING)
      BY <2>2 DEF FileTyped, ConfigTyped, Loaded, Parse
    <3>2. Loaded.outputs.adapters \in Seq(Ids)
      BY <3>1, SeqMonotonic DEF Ids
    <3>3. QED
      BY <2>2, <3>2 DEF FileTyped, ConfigTyped, Loaded, Parse
  <2>3. QED
    BY <2>1, <2>2
<1>2. EnabledProfiles(Loaded.input) \in Seq(Profiles)
  <2>1. "glove80" \in Profiles /\ <<"glove80">> \in Seq(Profiles)
    BY DEF Profiles
  <2>2. /\ OrElse(Loaded.input.profile, "glove80") \in Profiles
        /\ OrElse(Loaded.input.profiles, <<"glove80">>) \in Seq(Profiles)
    BY <1>1, <2>1, FieldTyped
  <2>3. QED
    BY <2>2 DEF EnabledProfiles
<1>3. OutputIds(Loaded.outputs) \in Seq(Ids)
  <2>1. [i \in DOMAIN Loaded.outputs.plugins |-> Loaded.outputs.plugins[i].id] \in Seq(Ids)
    <3>1. /\ Len(Loaded.outputs.plugins) \in Nat
          /\ DOMAIN Loaded.outputs.plugins = 1 .. Len(Loaded.outputs.plugins)
      BY <1>1
    <3>2. \A i \in DOMAIN Loaded.outputs.plugins : Loaded.outputs.plugins[i].id \in Ids
      <4>1. \A i \in DOMAIN Loaded.outputs.plugins :
              Loaded.outputs.plugins[i] \in [id : STRING, command : Seq(STRING)]
        BY <1>1, ElementOfSeq, <3>1
      <4>2. QED
        BY <4>1 DEF Ids
    <3>3. QED
      BY <3>1, <3>2
  <2>2. QED
    BY <1>1, <2>1 DEF OutputIds
<1>4. QED
  BY <1>1, <1>2, <1>3

\* What load accepts, the daemon can run with: every key of every enabled profile
\* means one slot, everything it starts has a program, outputs have ids of their
\* own, brightness fits a byte and the plan has the ten keys.
THEOREM AcceptedConfigRunsCorrect == Spec => []AcceptedConfigRuns
<1>1. ReportTypeOK => AcceptedConfigRuns
  <2>1. SUFFICES ASSUME ReportTypeOK, Accepted(file) PROVE AcceptedConfigRuns
    BY DEF AcceptedConfigRuns
  <2>2. FileTyped(file)
    BY <2>1, ReportAssumption DEF ReportTypeOK
  <2>3. /\ ~Collide(EnabledProfiles(Loaded.input))
        /\ \A i \in DOMAIN EnabledProfiles(Loaded.input), k \in Slots :
             Pressed(EnabledProfiles(Loaded.input),
                     ProfileBindings[EnabledProfiles(Loaded.input)[i]][k]) = {k}
    <3>1. IsInjective(EnabledProfiles(Loaded.input))
      BY <2>1 DEF Accepted, InputAccepted, Loaded
    <3>2. QED
      BY <2>1, <2>2, <3>1, LoadedSections, ProfilesApart
  <2>4. \A command \in Loaded.focus \cup {p.command : p \in ToSet(Loaded.outputs.plugins)} :
          command # <<>>
    <3>1. <<>> \notin Loaded.focus
      BY <2>1, <2>2, LoadedSections DEF Accepted, Loaded, Field
    <3>2. \A i \in DOMAIN Loaded.outputs.plugins : Loaded.outputs.plugins[i].command # <<>>
      BY <2>1 DEF Accepted, OutputsAccepted, Loaded
    <3>3. QED
      BY <3>1, <3>2 DEF ToSet
  <2>5. Cardinality(ToSet(OutputIds(Loaded.outputs))) = Len(OutputIds(Loaded.outputs))
    <3>1. IsInjective(OutputIds(Loaded.outputs))
      BY <2>1 DEF Accepted, OutputsAccepted, Loaded
    <3>2. QED
      BY <2>1, <2>2, <3>1, LoadedSections, DistinctIds
  <2>6. ASSUME NEW i \in 1 .. 5
        PROVE  TreatmentsForPlan[i].brightness \in Bytes
    BY <2>1, <2>2, TreatmentsOfPlan DEF WireTreatments
  <2>7. {Plan[i].key : i \in Slots} = Slots
    BY <2>1, <2>2, PlanHasEachKey DEF Plan
  <2>8. QED
    BY <2>3, <2>4, <2>5, <2>6, <2>7 DEF AcceptedConfigRuns
<1>2. QED
  BY <1>1, ReportTypeCorrect, PTL
=============================================================================
