--------------------------- MODULE AgreementProofs ---------------------------
(***************************************************************************)
(* What the runs evaluate over bounded inputs, concluded from the theorems *)
(* of AlgorithmProofs: the checksums, the wire, the streams and the        *)
(* command line keep what the runs' invariants say of them.                *)
(***************************************************************************)
EXTENDS AlgorithmProofs

-----------------------------------------------------------------------------
(* Checksums: the published check values, from the table and the shifts.    *)

LEMMA TableBit ==
  ASSUME NEW i \in CrcByte, NEW b \in 0 .. 31
  PROVE  b \in CRC32_TABLE[i] <=> Odd(Having(i, b, 8))
<1>1. CRC32_TABLE[i] = {x \in Ones(32) : Odd({k \in i : x \in TableWords[k + 1]})}
  BY DEF CRC32_TABLE, Odd
<1>2. b \in Ones(32)
  BY DEF Ones
<1>3. {k \in i : b \in TableWords[k + 1]} = Having(i, b, 8)
  <2>1. \A k \in i : k < 8
    BY DEF CrcByte
  <2> QED
    BY <2>1 DEF Having
<1> QED
  BY <1>1, <1>2, <1>3

\* A word of the table is the exclusive or of the words of its index's bits.
LEMMA TableIs ==
  ASSUME NEW i \in CrcByte, NEW b \in 0 .. 31
  PROVE  b \in CRC32_TABLE[i] <=>
           ~ (7 \in i /\ b \in Words[8] <=> ~ (6 \in i /\ b \in Words[7] <=>
           ~ (5 \in i /\ b \in Words[6] <=> ~ (4 \in i /\ b \in Words[5] <=>
           ~ (3 \in i /\ b \in Words[4] <=> ~ (2 \in i /\ b \in Words[3] <=>
           ~ (1 \in i /\ b \in Words[2] <=> 0 \in i /\ b \in Words[1])))))))
<1> DEFINE H(n) == Odd(Having(i, b, n))
<1>1. ~ H(0)
  <2>1. Having(i, b, 0) = {}
    <3>1. \A k \in i : ~ (k < 0)
      BY DEF CrcByte
    <3> QED
      BY <3>1 DEF Having
  <2>2. Cardinality({}) = 0
    BY FS_EmptySet
  <2> QED
    BY <2>1, <2>2 DEF Odd
<1>2. \A n \in 0 .. 7 : H(n + 1) <=> ~ (H(n) <=> n \in i /\ b \in Words[n + 1])
  <2>1. \A n \in 0 .. 7 : H(n + 1) <=> ~ (H(n) <=> n \in i /\ b \in TableWords[n + 1])
    BY HavingOneMore
  <2>2. \A n \in 0 .. 7 : n + 1 \in 1 .. 8
    OBVIOUS
  <2> QED
    BY <2>1, <2>2, WordsAre
<1> HIDE DEF H
<1>3. H(1) <=> ~ (H(0) <=> 0 \in i /\ b \in Words[1])
  BY <1>2, 0 \in 0 .. 7, 0 + 1 = 1
<1>4. H(2) <=> ~ (H(1) <=> 1 \in i /\ b \in Words[2])
  BY <1>2, 1 \in 0 .. 7, 1 + 1 = 2
<1>5. H(3) <=> ~ (H(2) <=> 2 \in i /\ b \in Words[3])
  BY <1>2, 2 \in 0 .. 7, 2 + 1 = 3
<1>6. H(4) <=> ~ (H(3) <=> 3 \in i /\ b \in Words[4])
  BY <1>2, 3 \in 0 .. 7, 3 + 1 = 4
<1>7. H(5) <=> ~ (H(4) <=> 4 \in i /\ b \in Words[5])
  BY <1>2, 4 \in 0 .. 7, 4 + 1 = 5
<1>8. H(6) <=> ~ (H(5) <=> 5 \in i /\ b \in Words[6])
  BY <1>2, 5 \in 0 .. 7, 5 + 1 = 6
<1>9. H(7) <=> ~ (H(6) <=> 6 \in i /\ b \in Words[7])
  BY <1>2, 6 \in 0 .. 7, 6 + 1 = 7
<1>10. H(8) <=> ~ (H(7) <=> 7 \in i /\ b \in Words[8])
  BY <1>2, 7 \in 0 .. 7, 7 + 1 = 8
<1>11. H(8) <=> b \in CRC32_TABLE[i]
  BY TableBit DEF H
<1> QED
  BY <1>1, <1>3, <1>4, <1>5, <1>6, <1>7, <1>8, <1>9, <1>10, <1>11

\* "123456789", as words.
Digits ==
  << {0, 4, 5}, {1, 4, 5}, {0, 1, 4, 5}, {2, 4, 5}, {0, 2, 4, 5}, {1, 2, 4, 5}, {0, 1, 2, 4, 5},
     {3, 4, 5}, {0, 3, 4, 5} >>

LEMMA CheckMessageIs ==
  /\ CheckMessage \in Seq(CrcByte) /\ Len(CheckMessage) = 9
  /\ \A i \in 1 .. 9 : CheckMessage[i] = Digits[i]
<1>1. Half(0) = {}
  BY HalfIs, SMT
<1>2. HexWord(0, \h30 + 1) = Digits[1]
  <2>1. Half(49) = {0, 4, 5}
    BY HalfIs, SMT
  <2>2. \h30 + 1 = 49
    OBVIOUS
  <2> QED
    BY <1>1, <2>1, <2>2, HexIs DEF Digits
<1>3. HexWord(0, \h30 + 2) = Digits[2]
  <2>1. Half(50) = {1, 4, 5}
    BY HalfIs, SMT
  <2>2. \h30 + 2 = 50
    OBVIOUS
  <2> QED
    BY <1>1, <2>1, <2>2, HexIs DEF Digits
<1>4. HexWord(0, \h30 + 3) = Digits[3]
  <2>1. Half(51) = {0, 1, 4, 5}
    BY HalfIs, SMT
  <2>2. \h30 + 3 = 51
    OBVIOUS
  <2> QED
    BY <1>1, <2>1, <2>2, HexIs DEF Digits
<1>5. HexWord(0, \h30 + 4) = Digits[4]
  <2>1. Half(52) = {2, 4, 5}
    BY HalfIs, SMT
  <2>2. \h30 + 4 = 52
    OBVIOUS
  <2> QED
    BY <1>1, <2>1, <2>2, HexIs DEF Digits
<1>6. HexWord(0, \h30 + 5) = Digits[5]
  <2>1. Half(53) = {0, 2, 4, 5}
    BY HalfIs, SMT
  <2>2. \h30 + 5 = 53
    OBVIOUS
  <2> QED
    BY <1>1, <2>1, <2>2, HexIs DEF Digits
<1>7. HexWord(0, \h30 + 6) = Digits[6]
  <2>1. Half(54) = {1, 2, 4, 5}
    BY HalfIs, SMT
  <2>2. \h30 + 6 = 54
    OBVIOUS
  <2> QED
    BY <1>1, <2>1, <2>2, HexIs DEF Digits
<1>8. HexWord(0, \h30 + 7) = Digits[7]
  <2>1. Half(55) = {0, 1, 2, 4, 5}
    BY HalfIs, SMT
  <2>2. \h30 + 7 = 55
    OBVIOUS
  <2> QED
    BY <1>1, <2>1, <2>2, HexIs DEF Digits
<1>9. HexWord(0, \h30 + 8) = Digits[8]
  <2>1. Half(56) = {3, 4, 5}
    BY HalfIs, SMT
  <2>2. \h30 + 8 = 56
    OBVIOUS
  <2> QED
    BY <1>1, <2>1, <2>2, HexIs DEF Digits
<1>10. HexWord(0, \h30 + 9) = Digits[9]
  <2>1. Half(57) = {0, 3, 4, 5}
    BY HalfIs, SMT
  <2>2. \h30 + 9 = 57
    OBVIOUS
  <2> QED
    BY <1>1, <2>1, <2>2, HexIs DEF Digits
<1>11. \A i \in 1 .. 9 : i \in {1, 2, 3, 4, 5, 6, 7, 8, 9}
  OBVIOUS
<1>12. \A i \in 1 .. 9 : CheckMessage[i] = Digits[i]
  BY <1>2, <1>3, <1>4, <1>5, <1>6, <1>7, <1>8, <1>9, <1>10, <1>11 DEF CheckMessage
<1>13. \A i \in 1 .. 9 : Digits[i] \in CrcByte
  BY <1>11 DEF Digits, CrcByte
<1>14. CheckMessage = [i \in 1 .. 9 |-> Digits[i]]
  BY <1>12 DEF CheckMessage
<1>15. 9 \in Nat
  OBVIOUS
<1>16. [i \in 1 .. 9 |-> Digits[i]] \in Seq(CrcByte) /\ Len([i \in 1 .. 9 |-> Digits[i]]) = 9
  BY <1>13, <1>15
<1> QED
  BY <1>12, <1>14, <1>16

\* The registers of Crc32::Calculate and of crc16_ccitt while it goes by.
Registers32 ==
  << {0, 1, 2, 3, 4, 5, 6, 7, 8, 9, 10, 11, 12, 13, 14, 15, 16, 17, 18, 19, 20, 21, 22, 23, 24, 25, 26, 27, 28, 29, 30, 31},
     {3, 6, 12, 16, 17, 21, 26, 27, 28, 29, 30},
     {1, 4, 5, 8, 9, 11, 12, 13, 15, 18, 19, 21, 23, 28, 29, 31},
     {0, 2, 3, 5, 10, 11, 12, 15, 16, 17, 18, 20, 21, 23, 24, 25, 26, 28, 29, 30},
     {2, 3, 4, 6, 8, 9, 10, 11, 12, 18, 19, 20, 26, 29, 30},
     {0, 1, 5, 6, 7, 8, 10, 14, 15, 17, 19, 26, 28, 29},
     {1, 2, 3, 4, 7, 10, 11, 13, 16, 18, 19, 23, 25, 26, 28, 29, 30, 31},
     {5, 6, 9, 10, 12, 15, 18, 19, 20, 21, 22, 23, 24, 25, 26, 27, 29, 31},
     {4, 6, 8, 10, 13, 16, 17, 18, 19, 20, 24, 26, 29, 30},
     {0, 3, 4, 6, 7, 9, 10, 14, 15, 16, 17, 19, 26, 28, 29} >>


Registers16 ==
  << {0, 1, 2, 3, 4, 5, 6, 7, 8, 9, 10, 11, 12, 13, 14, 15}, {1, 7, 8, 9, 10, 14, 15},
     {1, 3, 4, 5, 7, 8, 10, 11, 12, 13}, {1, 2, 3, 6, 7, 8, 9, 11, 12, 14},
     {0, 3, 6, 8, 9, 12, 14}, {5, 6, 8, 10, 14}, {2, 4, 5, 6, 7, 9, 10, 11, 13},
     {3, 4, 8, 9, 10, 12, 13, 14}, {0, 1, 3, 5, 8, 13, 15}, {0, 4, 5, 7, 8, 11, 13} >>

LEMMA Digit32 ==
  ASSUME NEW c \in Word(32), NEW byte \in CrcByte, NEW i \in CrcByte, NEW d \in Word(32),
         SymDiff(c, byte) \cap (0 .. 7) = i,
         \A b \in 0 .. 31 : b \in d <=>
           ~ (b + 8 \in c <=> ~ (7 \in i /\ b \in Words[8] <=> ~ (6 \in i /\ b \in Words[7] <=>
           ~ (5 \in i /\ b \in Words[6] <=> ~ (4 \in i /\ b \in Words[5] <=>
           ~ (3 \in i /\ b \in Words[4] <=> ~ (2 \in i /\ b \in Words[3] <=>
           ~ (1 \in i /\ b \in Words[2] <=> 0 \in i /\ b \in Words[1]))))))))
  PROVE  Crc32Byte(c, byte) = d
<1>1. SymDiff(c, byte) \cap Ones(8) = i
  BY WidthOfByte
<1>2. \A b \in 0 .. 31 : b \in Crc32Byte(c, byte) <=> ~ (b \in CRC32_TABLE[i] <=> b + 8 \in c)
  BY <1>1, Crc32ByteBits
<1>3. \A b \in 0 .. 31 : b \in d <=> ~ (b + 8 \in c <=> b \in CRC32_TABLE[i])
  BY TableIs
<1>4. \A b \in 0 .. 31 : b \in Crc32Byte(c, byte) <=> b \in d
  BY <1>2, <1>3
<1>5. Crc32Byte(c, byte) \subseteq 0 .. 31 /\ d \subseteq 0 .. 31
  <2>1. Crc32Byte(c, byte) \in Word(32)
    BY Crc32ByteIsWord
  <2> QED
    BY <2>1 DEF Word, Ones
<1> QED
  BY <1>4, <1>5

LEMMA Registers32Are ==
  \A k \in 1 .. 9 : Crc32Byte(Registers32[k], Digits[k]) = Registers32[k + 1]
<1>1. Crc32Byte(Registers32[1], Digits[1]) = Registers32[2]
  <2> DEFINE c == {0, 1, 2, 3, 4, 5, 6, 7, 8, 9, 10, 11, 12, 13, 14, 15, 16, 17, 18, 19, 20, 21, 22, 23, 24, 25, 26, 27, 28, 29, 30, 31}
             d == {3, 6, 12, 16, 17, 21, 26, 27, 28, 29, 30}
             byte == {0, 4, 5}
             i == {1, 2, 3, 6, 7}
  <2>1. c \in Word(32) /\ d \in Word(32) /\ byte \in CrcByte /\ i \in CrcByte
    BY SMT DEF Word, Ones, CrcByte
  <2>2. SymDiff(c, byte) \cap (0 .. 7) = i
    BY SMT DEF SymDiff
  <2>3. \A b \in 0 .. 31 : b \in d <=>
          ~ (b + 8 \in c <=> ~ (7 \in i /\ b \in Words[8] <=> ~ (6 \in i /\ b \in Words[7] <=>
          ~ (5 \in i /\ b \in Words[6] <=> ~ (4 \in i /\ b \in Words[5] <=>
          ~ (3 \in i /\ b \in Words[4] <=> ~ (2 \in i /\ b \in Words[3] <=>
          ~ (1 \in i /\ b \in Words[2] <=> 0 \in i /\ b \in Words[1]))))))))
    BY SMTT(30) DEF Words
  <2>4. Registers32[1] = c /\ Registers32[2] = d /\ Digits[1] = byte
    BY DEF Registers32, Digits
  <2> HIDE DEF c, d, byte, i
  <2> QED
    BY <2>1, <2>2, <2>3, <2>4, Digit32
<1>2. Crc32Byte(Registers32[2], Digits[2]) = Registers32[3]
  <2> DEFINE c == {3, 6, 12, 16, 17, 21, 26, 27, 28, 29, 30}
             d == {1, 4, 5, 8, 9, 11, 12, 13, 15, 18, 19, 21, 23, 28, 29, 31}
             byte == {1, 4, 5}
             i == {1, 3, 4, 5, 6}
  <2>1. c \in Word(32) /\ d \in Word(32) /\ byte \in CrcByte /\ i \in CrcByte
    BY SMT DEF Word, Ones, CrcByte
  <2>2. SymDiff(c, byte) \cap (0 .. 7) = i
    BY SMT DEF SymDiff
  <2>3. \A b \in 0 .. 31 : b \in d <=>
          ~ (b + 8 \in c <=> ~ (7 \in i /\ b \in Words[8] <=> ~ (6 \in i /\ b \in Words[7] <=>
          ~ (5 \in i /\ b \in Words[6] <=> ~ (4 \in i /\ b \in Words[5] <=>
          ~ (3 \in i /\ b \in Words[4] <=> ~ (2 \in i /\ b \in Words[3] <=>
          ~ (1 \in i /\ b \in Words[2] <=> 0 \in i /\ b \in Words[1]))))))))
    BY SMTT(30) DEF Words
  <2>4. Registers32[2] = c /\ Registers32[3] = d /\ Digits[2] = byte
    BY DEF Registers32, Digits
  <2> HIDE DEF c, d, byte, i
  <2> QED
    BY <2>1, <2>2, <2>3, <2>4, Digit32
<1>3. Crc32Byte(Registers32[3], Digits[3]) = Registers32[4]
  <2> DEFINE c == {1, 4, 5, 8, 9, 11, 12, 13, 15, 18, 19, 21, 23, 28, 29, 31}
             d == {0, 2, 3, 5, 10, 11, 12, 15, 16, 17, 18, 20, 21, 23, 24, 25, 26, 28, 29, 30}
             byte == {0, 1, 4, 5}
             i == {0}
  <2>1. c \in Word(32) /\ d \in Word(32) /\ byte \in CrcByte /\ i \in CrcByte
    BY SMT DEF Word, Ones, CrcByte
  <2>2. SymDiff(c, byte) \cap (0 .. 7) = i
    BY SMT DEF SymDiff
  <2>3. \A b \in 0 .. 31 : b \in d <=>
          ~ (b + 8 \in c <=> ~ (7 \in i /\ b \in Words[8] <=> ~ (6 \in i /\ b \in Words[7] <=>
          ~ (5 \in i /\ b \in Words[6] <=> ~ (4 \in i /\ b \in Words[5] <=>
          ~ (3 \in i /\ b \in Words[4] <=> ~ (2 \in i /\ b \in Words[3] <=>
          ~ (1 \in i /\ b \in Words[2] <=> 0 \in i /\ b \in Words[1]))))))))
    BY SMTT(30) DEF Words
  <2>4. Registers32[3] = c /\ Registers32[4] = d /\ Digits[3] = byte
    BY DEF Registers32, Digits
  <2> HIDE DEF c, d, byte, i
  <2> QED
    BY <2>1, <2>2, <2>3, <2>4, Digit32
<1>4. Crc32Byte(Registers32[4], Digits[4]) = Registers32[5]
  <2> DEFINE c == {0, 2, 3, 5, 10, 11, 12, 15, 16, 17, 18, 20, 21, 23, 24, 25, 26, 28, 29, 30}
             d == {2, 3, 4, 6, 8, 9, 10, 11, 12, 18, 19, 20, 26, 29, 30}
             byte == {2, 4, 5}
             i == {0, 3, 4}
  <2>1. c \in Word(32) /\ d \in Word(32) /\ byte \in CrcByte /\ i \in CrcByte
    BY SMT DEF Word, Ones, CrcByte
  <2>2. SymDiff(c, byte) \cap (0 .. 7) = i
    BY SMT DEF SymDiff
  <2>3. \A b \in 0 .. 31 : b \in d <=>
          ~ (b + 8 \in c <=> ~ (7 \in i /\ b \in Words[8] <=> ~ (6 \in i /\ b \in Words[7] <=>
          ~ (5 \in i /\ b \in Words[6] <=> ~ (4 \in i /\ b \in Words[5] <=>
          ~ (3 \in i /\ b \in Words[4] <=> ~ (2 \in i /\ b \in Words[3] <=>
          ~ (1 \in i /\ b \in Words[2] <=> 0 \in i /\ b \in Words[1]))))))))
    BY SMTT(30) DEF Words
  <2>4. Registers32[4] = c /\ Registers32[5] = d /\ Digits[4] = byte
    BY DEF Registers32, Digits
  <2> HIDE DEF c, d, byte, i
  <2> QED
    BY <2>1, <2>2, <2>3, <2>4, Digit32
<1>5. Crc32Byte(Registers32[5], Digits[5]) = Registers32[6]
  <2> DEFINE c == {2, 3, 4, 6, 8, 9, 10, 11, 12, 18, 19, 20, 26, 29, 30}
             d == {0, 1, 5, 6, 7, 8, 10, 14, 15, 17, 19, 26, 28, 29}
             byte == {0, 2, 4, 5}
             i == {0, 3, 5, 6}
  <2>1. c \in Word(32) /\ d \in Word(32) /\ byte \in CrcByte /\ i \in CrcByte
    BY SMT DEF Word, Ones, CrcByte
  <2>2. SymDiff(c, byte) \cap (0 .. 7) = i
    BY SMT DEF SymDiff
  <2>3. \A b \in 0 .. 31 : b \in d <=>
          ~ (b + 8 \in c <=> ~ (7 \in i /\ b \in Words[8] <=> ~ (6 \in i /\ b \in Words[7] <=>
          ~ (5 \in i /\ b \in Words[6] <=> ~ (4 \in i /\ b \in Words[5] <=>
          ~ (3 \in i /\ b \in Words[4] <=> ~ (2 \in i /\ b \in Words[3] <=>
          ~ (1 \in i /\ b \in Words[2] <=> 0 \in i /\ b \in Words[1]))))))))
    BY SMTT(30) DEF Words
  <2>4. Registers32[5] = c /\ Registers32[6] = d /\ Digits[5] = byte
    BY DEF Registers32, Digits
  <2> HIDE DEF c, d, byte, i
  <2> QED
    BY <2>1, <2>2, <2>3, <2>4, Digit32
<1>6. Crc32Byte(Registers32[6], Digits[6]) = Registers32[7]
  <2> DEFINE c == {0, 1, 5, 6, 7, 8, 10, 14, 15, 17, 19, 26, 28, 29}
             d == {1, 2, 3, 4, 7, 10, 11, 13, 16, 18, 19, 23, 25, 26, 28, 29, 30, 31}
             byte == {1, 2, 4, 5}
             i == {0, 2, 4, 6, 7}
  <2>1. c \in Word(32) /\ d \in Word(32) /\ byte \in CrcByte /\ i \in CrcByte
    BY SMT DEF Word, Ones, CrcByte
  <2>2. SymDiff(c, byte) \cap (0 .. 7) = i
    BY SMT DEF SymDiff
  <2>3. \A b \in 0 .. 31 : b \in d <=>
          ~ (b + 8 \in c <=> ~ (7 \in i /\ b \in Words[8] <=> ~ (6 \in i /\ b \in Words[7] <=>
          ~ (5 \in i /\ b \in Words[6] <=> ~ (4 \in i /\ b \in Words[5] <=>
          ~ (3 \in i /\ b \in Words[4] <=> ~ (2 \in i /\ b \in Words[3] <=>
          ~ (1 \in i /\ b \in Words[2] <=> 0 \in i /\ b \in Words[1]))))))))
    BY SMTT(30) DEF Words
  <2>4. Registers32[6] = c /\ Registers32[7] = d /\ Digits[6] = byte
    BY DEF Registers32, Digits
  <2> HIDE DEF c, d, byte, i
  <2> QED
    BY <2>1, <2>2, <2>3, <2>4, Digit32
<1>7. Crc32Byte(Registers32[7], Digits[7]) = Registers32[8]
  <2> DEFINE c == {1, 2, 3, 4, 7, 10, 11, 13, 16, 18, 19, 23, 25, 26, 28, 29, 30, 31}
             d == {5, 6, 9, 10, 12, 15, 18, 19, 20, 21, 22, 23, 24, 25, 26, 27, 29, 31}
             byte == {0, 1, 2, 4, 5}
             i == {0, 3, 5, 7}
  <2>1. c \in Word(32) /\ d \in Word(32) /\ byte \in CrcByte /\ i \in CrcByte
    BY SMT DEF Word, Ones, CrcByte
  <2>2. SymDiff(c, byte) \cap (0 .. 7) = i
    BY SMT DEF SymDiff
  <2>3. \A b \in 0 .. 31 : b \in d <=>
          ~ (b + 8 \in c <=> ~ (7 \in i /\ b \in Words[8] <=> ~ (6 \in i /\ b \in Words[7] <=>
          ~ (5 \in i /\ b \in Words[6] <=> ~ (4 \in i /\ b \in Words[5] <=>
          ~ (3 \in i /\ b \in Words[4] <=> ~ (2 \in i /\ b \in Words[3] <=>
          ~ (1 \in i /\ b \in Words[2] <=> 0 \in i /\ b \in Words[1]))))))))
    BY SMTT(30) DEF Words
  <2>4. Registers32[7] = c /\ Registers32[8] = d /\ Digits[7] = byte
    BY DEF Registers32, Digits
  <2> HIDE DEF c, d, byte, i
  <2> QED
    BY <2>1, <2>2, <2>3, <2>4, Digit32
<1>8. Crc32Byte(Registers32[8], Digits[8]) = Registers32[9]
  <2> DEFINE c == {5, 6, 9, 10, 12, 15, 18, 19, 20, 21, 22, 23, 24, 25, 26, 27, 29, 31}
             d == {4, 6, 8, 10, 13, 16, 17, 18, 19, 20, 24, 26, 29, 30}
             byte == {3, 4, 5}
             i == {3, 4, 6}
  <2>1. c \in Word(32) /\ d \in Word(32) /\ byte \in CrcByte /\ i \in CrcByte
    BY SMT DEF Word, Ones, CrcByte
  <2>2. SymDiff(c, byte) \cap (0 .. 7) = i
    BY SMT DEF SymDiff
  <2>3. \A b \in 0 .. 31 : b \in d <=>
          ~ (b + 8 \in c <=> ~ (7 \in i /\ b \in Words[8] <=> ~ (6 \in i /\ b \in Words[7] <=>
          ~ (5 \in i /\ b \in Words[6] <=> ~ (4 \in i /\ b \in Words[5] <=>
          ~ (3 \in i /\ b \in Words[4] <=> ~ (2 \in i /\ b \in Words[3] <=>
          ~ (1 \in i /\ b \in Words[2] <=> 0 \in i /\ b \in Words[1]))))))))
    BY SMTT(30) DEF Words
  <2>4. Registers32[8] = c /\ Registers32[9] = d /\ Digits[8] = byte
    BY DEF Registers32, Digits
  <2> HIDE DEF c, d, byte, i
  <2> QED
    BY <2>1, <2>2, <2>3, <2>4, Digit32
<1>9. Crc32Byte(Registers32[9], Digits[9]) = Registers32[10]
  <2> DEFINE c == {4, 6, 8, 10, 13, 16, 17, 18, 19, 20, 24, 26, 29, 30}
             d == {0, 3, 4, 6, 7, 9, 10, 14, 15, 16, 17, 19, 26, 28, 29}
             byte == {0, 3, 4, 5}
             i == {0, 3, 5, 6}
  <2>1. c \in Word(32) /\ d \in Word(32) /\ byte \in CrcByte /\ i \in CrcByte
    BY SMT DEF Word, Ones, CrcByte
  <2>2. SymDiff(c, byte) \cap (0 .. 7) = i
    BY SMT DEF SymDiff
  <2>3. \A b \in 0 .. 31 : b \in d <=>
          ~ (b + 8 \in c <=> ~ (7 \in i /\ b \in Words[8] <=> ~ (6 \in i /\ b \in Words[7] <=>
          ~ (5 \in i /\ b \in Words[6] <=> ~ (4 \in i /\ b \in Words[5] <=>
          ~ (3 \in i /\ b \in Words[4] <=> ~ (2 \in i /\ b \in Words[3] <=>
          ~ (1 \in i /\ b \in Words[2] <=> 0 \in i /\ b \in Words[1]))))))))
    BY SMTT(30) DEF Words
  <2>4. Registers32[9] = c /\ Registers32[10] = d /\ Digits[9] = byte
    BY DEF Registers32, Digits
  <2> HIDE DEF c, d, byte, i
  <2> QED
    BY <2>1, <2>2, <2>3, <2>4, Digit32
<1>10. \A k \in 1 .. 9 : k \in {1, 2, 3, 4, 5, 6, 7, 8, 9}
  OBVIOUS
<1>11. 1 + 1 = 2 /\ 2 + 1 = 3 /\ 3 + 1 = 4 /\ 4 + 1 = 5 /\ 5 + 1 = 6 /\ 6 + 1 = 7 /\ 7 + 1 = 8 /\ 8 + 1 = 9 /\ 9 + 1 = 10
  OBVIOUS
<1> QED
  BY <1>1, <1>2, <1>3, <1>4, <1>5, <1>6, <1>7, <1>8, <1>9, <1>10, <1>11

LEMMA Digit16 ==
  ASSUME NEW c \in Word(16), NEW byte \in CrcByte,
         NEW a1, NEW a2, NEW a3, NEW a4, NEW a5, NEW a6, NEW a7, NEW a8,
         a1 = Shifted(c, 7 \in byte, CCITT, 16), a2 = Shifted(a1, 6 \in byte, CCITT, 16),
         a3 = Shifted(a2, 5 \in byte, CCITT, 16), a4 = Shifted(a3, 4 \in byte, CCITT, 16),
         a5 = Shifted(a4, 3 \in byte, CCITT, 16), a6 = Shifted(a5, 2 \in byte, CCITT, 16),
         a7 = Shifted(a6, 1 \in byte, CCITT, 16), a8 = Shifted(a7, 0 \in byte, CCITT, 16)
  PROVE  Crc16Byte(c, byte) = a8
<1> DEFINE a == [r \in 0 .. 8 |-> << c, a1, a2, a3, a4, a5, a6, a7, a8 >>[r + 1]]
<1>1. /\ a[0] = c /\ a[1] = a1 /\ a[2] = a2 /\ a[3] = a3 /\ a[4] = a4
      /\ a[5] = a5 /\ a[6] = a6 /\ a[7] = a7 /\ a[8] = a8
  OBVIOUS
<1> HIDE DEF a
<1>2. \A r \in 0 .. 7 : r \in {0, 1, 2, 3, 4, 5, 6, 7}
  OBVIOUS
<1>3. /\ 0 + 1 = 1 /\ 1 + 1 = 2 /\ 2 + 1 = 3 /\ 3 + 1 = 4 /\ 4 + 1 = 5 /\ 5 + 1 = 6 /\ 6 + 1 = 7 /\ 7 + 1 = 8
      /\ 7 - 0 = 7 /\ 7 - 1 = 6 /\ 7 - 2 = 5 /\ 7 - 3 = 4 /\ 7 - 4 = 3 /\ 7 - 5 = 2 /\ 7 - 6 = 1 /\ 7 - 7 = 0
  OBVIOUS
<1>4. \A r \in 0 .. 7 : a[r + 1] = Shifted(a[r], 7 - r \in byte, CCITT, 16)
  BY <1>1, <1>2, <1>3, ZenonT(40)
<1> QED
  BY <1>1, <1>4, Crc16ByteIsEight

LEMMA Registers16Are ==
  \A k \in 1 .. 9 : Crc16Byte(Registers16[k], Digits[k]) = Registers16[k + 1]
<1>1. Crc16Byte(Registers16[1], Digits[1]) = Registers16[2]
  <2> DEFINE byte == {0, 4, 5}
             a0 == {0, 1, 2, 3, 4, 5, 6, 7, 8, 9, 10, 11, 12, 13, 14, 15}
             a1 == {0, 1, 2, 3, 4, 6, 7, 8, 9, 10, 11, 13, 14, 15}
             a2 == {0, 1, 2, 3, 4, 7, 8, 9, 10, 11, 14, 15}
             a3 == {1, 2, 3, 4, 5, 8, 9, 10, 11, 12, 15}
             a4 == {2, 3, 4, 5, 6, 9, 10, 11, 12, 13}
             a5 == {3, 4, 5, 6, 7, 10, 11, 12, 13, 14}
             a6 == {4, 5, 6, 7, 8, 11, 12, 13, 14, 15}
             a7 == {0, 6, 7, 8, 9, 13, 14, 15}
             a8 == {1, 7, 8, 9, 10, 14, 15}
  <2>1. a1 = Shifted(a0, 7 \in byte, CCITT, 16)
    BY CcittIs, SMT DEF Shifted
  <2>2. a2 = Shifted(a1, 6 \in byte, CCITT, 16)
    BY CcittIs, SMT DEF Shifted
  <2>3. a3 = Shifted(a2, 5 \in byte, CCITT, 16)
    BY CcittIs, SMT DEF Shifted
  <2>4. a4 = Shifted(a3, 4 \in byte, CCITT, 16)
    BY CcittIs, SMT DEF Shifted
  <2>5. a5 = Shifted(a4, 3 \in byte, CCITT, 16)
    BY CcittIs, SMT DEF Shifted
  <2>6. a6 = Shifted(a5, 2 \in byte, CCITT, 16)
    BY CcittIs, SMT DEF Shifted
  <2>7. a7 = Shifted(a6, 1 \in byte, CCITT, 16)
    BY CcittIs, SMT DEF Shifted
  <2>8. a8 = Shifted(a7, 0 \in byte, CCITT, 16)
    BY CcittIs, SMT DEF Shifted
  <2>9. a0 \in Word(16) /\ byte \in CrcByte
    BY SMT DEF Word, Ones, CrcByte
  <2>10. Registers16[1] = a0 /\ Registers16[2] = a8 /\ Digits[1] = byte
    BY DEF Registers16, Digits
  <2> HIDE DEF byte, a0, a1, a2, a3, a4, a5, a6, a7, a8
  <2> QED
    BY <2>1, <2>2, <2>3, <2>4, <2>5, <2>6, <2>7, <2>8, <2>9, <2>10, Digit16
<1>2. Crc16Byte(Registers16[2], Digits[2]) = Registers16[3]
  <2> DEFINE byte == {1, 4, 5}
             a0 == {1, 7, 8, 9, 10, 14, 15}
             a1 == {0, 2, 5, 8, 9, 10, 11, 12, 15}
             a2 == {0, 1, 3, 5, 6, 9, 10, 11, 13}
             a3 == {0, 1, 2, 4, 5, 6, 7, 10, 11, 14}
             a4 == {0, 1, 2, 3, 6, 7, 8, 11, 15}
             a5 == {0, 1, 2, 3, 4, 5, 7, 8, 9}
             a6 == {1, 2, 3, 4, 5, 6, 8, 9, 10}
             a7 == {0, 2, 3, 4, 6, 7, 9, 10, 11, 12}
             a8 == {1, 3, 4, 5, 7, 8, 10, 11, 12, 13}
  <2>1. a1 = Shifted(a0, 7 \in byte, CCITT, 16)
    BY CcittIs, SMT DEF Shifted
  <2>2. a2 = Shifted(a1, 6 \in byte, CCITT, 16)
    BY CcittIs, SMT DEF Shifted
  <2>3. a3 = Shifted(a2, 5 \in byte, CCITT, 16)
    BY CcittIs, SMT DEF Shifted
  <2>4. a4 = Shifted(a3, 4 \in byte, CCITT, 16)
    BY CcittIs, SMT DEF Shifted
  <2>5. a5 = Shifted(a4, 3 \in byte, CCITT, 16)
    BY CcittIs, SMT DEF Shifted
  <2>6. a6 = Shifted(a5, 2 \in byte, CCITT, 16)
    BY CcittIs, SMT DEF Shifted
  <2>7. a7 = Shifted(a6, 1 \in byte, CCITT, 16)
    BY CcittIs, SMT DEF Shifted
  <2>8. a8 = Shifted(a7, 0 \in byte, CCITT, 16)
    BY CcittIs, SMT DEF Shifted
  <2>9. a0 \in Word(16) /\ byte \in CrcByte
    BY SMT DEF Word, Ones, CrcByte
  <2>10. Registers16[2] = a0 /\ Registers16[3] = a8 /\ Digits[2] = byte
    BY DEF Registers16, Digits
  <2> HIDE DEF byte, a0, a1, a2, a3, a4, a5, a6, a7, a8
  <2> QED
    BY <2>1, <2>2, <2>3, <2>4, <2>5, <2>6, <2>7, <2>8, <2>9, <2>10, Digit16
<1>3. Crc16Byte(Registers16[3], Digits[3]) = Registers16[4]
  <2> DEFINE byte == {0, 1, 4, 5}
             a0 == {1, 3, 4, 5, 7, 8, 10, 11, 12, 13}
             a1 == {2, 4, 5, 6, 8, 9, 11, 12, 13, 14}
             a2 == {3, 5, 6, 7, 9, 10, 12, 13, 14, 15}
             a3 == {4, 6, 7, 8, 10, 11, 13, 14, 15}
             a4 == {5, 7, 8, 9, 11, 12, 14, 15}
             a5 == {0, 5, 6, 8, 9, 10, 13, 15}
             a6 == {0, 1, 5, 6, 7, 9, 10, 11, 12, 14}
             a7 == {0, 1, 2, 5, 6, 7, 8, 10, 11, 13, 15}
             a8 == {1, 2, 3, 6, 7, 8, 9, 11, 12, 14}
  <2>1. a1 = Shifted(a0, 7 \in byte, CCITT, 16)
    BY CcittIs, SMT DEF Shifted
  <2>2. a2 = Shifted(a1, 6 \in byte, CCITT, 16)
    BY CcittIs, SMT DEF Shifted
  <2>3. a3 = Shifted(a2, 5 \in byte, CCITT, 16)
    BY CcittIs, SMT DEF Shifted
  <2>4. a4 = Shifted(a3, 4 \in byte, CCITT, 16)
    BY CcittIs, SMT DEF Shifted
  <2>5. a5 = Shifted(a4, 3 \in byte, CCITT, 16)
    BY CcittIs, SMT DEF Shifted
  <2>6. a6 = Shifted(a5, 2 \in byte, CCITT, 16)
    BY CcittIs, SMT DEF Shifted
  <2>7. a7 = Shifted(a6, 1 \in byte, CCITT, 16)
    BY CcittIs, SMT DEF Shifted
  <2>8. a8 = Shifted(a7, 0 \in byte, CCITT, 16)
    BY CcittIs, SMT DEF Shifted
  <2>9. a0 \in Word(16) /\ byte \in CrcByte
    BY SMT DEF Word, Ones, CrcByte
  <2>10. Registers16[3] = a0 /\ Registers16[4] = a8 /\ Digits[3] = byte
    BY DEF Registers16, Digits
  <2> HIDE DEF byte, a0, a1, a2, a3, a4, a5, a6, a7, a8
  <2> QED
    BY <2>1, <2>2, <2>3, <2>4, <2>5, <2>6, <2>7, <2>8, <2>9, <2>10, Digit16
<1>4. Crc16Byte(Registers16[4], Digits[4]) = Registers16[5]
  <2> DEFINE byte == {2, 4, 5}
             a0 == {1, 2, 3, 6, 7, 8, 9, 11, 12, 14}
             a1 == {2, 3, 4, 7, 8, 9, 10, 12, 13, 15}
             a2 == {0, 3, 4, 8, 9, 10, 11, 12, 13, 14}
             a3 == {0, 1, 4, 9, 10, 11, 13, 14, 15}
             a4 == {1, 2, 5, 10, 11, 12, 14, 15}
             a5 == {0, 2, 3, 5, 6, 11, 13, 15}
             a6 == {1, 3, 4, 6, 7, 12, 14}
             a7 == {2, 4, 5, 7, 8, 13, 15}
             a8 == {0, 3, 6, 8, 9, 12, 14}
  <2>1. a1 = Shifted(a0, 7 \in byte, CCITT, 16)
    BY CcittIs, SMT DEF Shifted
  <2>2. a2 = Shifted(a1, 6 \in byte, CCITT, 16)
    BY CcittIs, SMT DEF Shifted
  <2>3. a3 = Shifted(a2, 5 \in byte, CCITT, 16)
    BY CcittIs, SMT DEF Shifted
  <2>4. a4 = Shifted(a3, 4 \in byte, CCITT, 16)
    BY CcittIs, SMT DEF Shifted
  <2>5. a5 = Shifted(a4, 3 \in byte, CCITT, 16)
    BY CcittIs, SMT DEF Shifted
  <2>6. a6 = Shifted(a5, 2 \in byte, CCITT, 16)
    BY CcittIs, SMT DEF Shifted
  <2>7. a7 = Shifted(a6, 1 \in byte, CCITT, 16)
    BY CcittIs, SMT DEF Shifted
  <2>8. a8 = Shifted(a7, 0 \in byte, CCITT, 16)
    BY CcittIs, SMT DEF Shifted
  <2>9. a0 \in Word(16) /\ byte \in CrcByte
    BY SMT DEF Word, Ones, CrcByte
  <2>10. Registers16[4] = a0 /\ Registers16[5] = a8 /\ Digits[4] = byte
    BY DEF Registers16, Digits
  <2> HIDE DEF byte, a0, a1, a2, a3, a4, a5, a6, a7, a8
  <2> QED
    BY <2>1, <2>2, <2>3, <2>4, <2>5, <2>6, <2>7, <2>8, <2>9, <2>10, Digit16
<1>5. Crc16Byte(Registers16[5], Digits[5]) = Registers16[6]
  <2> DEFINE byte == {0, 2, 4, 5}
             a0 == {0, 3, 6, 8, 9, 12, 14}
             a1 == {1, 4, 7, 9, 10, 13, 15}
             a2 == {0, 2, 8, 10, 11, 12, 14}
             a3 == {0, 1, 3, 5, 9, 11, 13, 15}
             a4 == {1, 2, 4, 6, 10, 12, 14}
             a5 == {2, 3, 5, 7, 11, 13, 15}
             a6 == {3, 4, 6, 8, 12, 14}
             a7 == {4, 5, 7, 9, 13, 15}
             a8 == {5, 6, 8, 10, 14}
  <2>1. a1 = Shifted(a0, 7 \in byte, CCITT, 16)
    BY CcittIs, SMT DEF Shifted
  <2>2. a2 = Shifted(a1, 6 \in byte, CCITT, 16)
    BY CcittIs, SMT DEF Shifted
  <2>3. a3 = Shifted(a2, 5 \in byte, CCITT, 16)
    BY CcittIs, SMT DEF Shifted
  <2>4. a4 = Shifted(a3, 4 \in byte, CCITT, 16)
    BY CcittIs, SMT DEF Shifted
  <2>5. a5 = Shifted(a4, 3 \in byte, CCITT, 16)
    BY CcittIs, SMT DEF Shifted
  <2>6. a6 = Shifted(a5, 2 \in byte, CCITT, 16)
    BY CcittIs, SMT DEF Shifted
  <2>7. a7 = Shifted(a6, 1 \in byte, CCITT, 16)
    BY CcittIs, SMT DEF Shifted
  <2>8. a8 = Shifted(a7, 0 \in byte, CCITT, 16)
    BY CcittIs, SMT DEF Shifted
  <2>9. a0 \in Word(16) /\ byte \in CrcByte
    BY SMT DEF Word, Ones, CrcByte
  <2>10. Registers16[5] = a0 /\ Registers16[6] = a8 /\ Digits[5] = byte
    BY DEF Registers16, Digits
  <2> HIDE DEF byte, a0, a1, a2, a3, a4, a5, a6, a7, a8
  <2> QED
    BY <2>1, <2>2, <2>3, <2>4, <2>5, <2>6, <2>7, <2>8, <2>9, <2>10, Digit16
<1>6. Crc16Byte(Registers16[6], Digits[6]) = Registers16[7]
  <2> DEFINE byte == {1, 2, 4, 5}
             a0 == {5, 6, 8, 10, 14}
             a1 == {6, 7, 9, 11, 15}
             a2 == {0, 5, 7, 8, 10}
             a3 == {0, 1, 5, 6, 8, 9, 11, 12}
             a4 == {0, 1, 2, 5, 6, 7, 9, 10, 13}
             a5 == {1, 2, 3, 6, 7, 8, 10, 11, 14}
             a6 == {0, 2, 3, 4, 5, 7, 8, 9, 11, 15}
             a7 == {1, 3, 4, 5, 6, 8, 9, 10, 12}
             a8 == {2, 4, 5, 6, 7, 9, 10, 11, 13}
  <2>1. a1 = Shifted(a0, 7 \in byte, CCITT, 16)
    BY CcittIs, SMT DEF Shifted
  <2>2. a2 = Shifted(a1, 6 \in byte, CCITT, 16)
    BY CcittIs, SMT DEF Shifted
  <2>3. a3 = Shifted(a2, 5 \in byte, CCITT, 16)
    BY CcittIs, SMT DEF Shifted
  <2>4. a4 = Shifted(a3, 4 \in byte, CCITT, 16)
    BY CcittIs, SMT DEF Shifted
  <2>5. a5 = Shifted(a4, 3 \in byte, CCITT, 16)
    BY CcittIs, SMT DEF Shifted
  <2>6. a6 = Shifted(a5, 2 \in byte, CCITT, 16)
    BY CcittIs, SMT DEF Shifted
  <2>7. a7 = Shifted(a6, 1 \in byte, CCITT, 16)
    BY CcittIs, SMT DEF Shifted
  <2>8. a8 = Shifted(a7, 0 \in byte, CCITT, 16)
    BY CcittIs, SMT DEF Shifted
  <2>9. a0 \in Word(16) /\ byte \in CrcByte
    BY SMT DEF Word, Ones, CrcByte
  <2>10. Registers16[6] = a0 /\ Registers16[7] = a8 /\ Digits[6] = byte
    BY DEF Registers16, Digits
  <2> HIDE DEF byte, a0, a1, a2, a3, a4, a5, a6, a7, a8
  <2> QED
    BY <2>1, <2>2, <2>3, <2>4, <2>5, <2>6, <2>7, <2>8, <2>9, <2>10, Digit16
<1>7. Crc16Byte(Registers16[7], Digits[7]) = Registers16[8]
  <2> DEFINE byte == {0, 1, 2, 4, 5}
             a0 == {2, 4, 5, 6, 7, 9, 10, 11, 13}
             a1 == {3, 5, 6, 7, 8, 10, 11, 12, 14}
             a2 == {4, 6, 7, 8, 9, 11, 12, 13, 15}
             a3 == {5, 7, 8, 9, 10, 12, 13, 14}
             a4 == {0, 5, 6, 8, 9, 10, 11, 12, 13, 14, 15}
             a5 == {0, 1, 5, 6, 7, 9, 10, 11, 13, 14, 15}
             a6 == {1, 2, 6, 7, 8, 10, 11, 12, 14, 15}
             a7 == {2, 3, 7, 8, 9, 11, 12, 13, 15}
             a8 == {3, 4, 8, 9, 10, 12, 13, 14}
  <2>1. a1 = Shifted(a0, 7 \in byte, CCITT, 16)
    BY CcittIs, SMT DEF Shifted
  <2>2. a2 = Shifted(a1, 6 \in byte, CCITT, 16)
    BY CcittIs, SMT DEF Shifted
  <2>3. a3 = Shifted(a2, 5 \in byte, CCITT, 16)
    BY CcittIs, SMT DEF Shifted
  <2>4. a4 = Shifted(a3, 4 \in byte, CCITT, 16)
    BY CcittIs, SMT DEF Shifted
  <2>5. a5 = Shifted(a4, 3 \in byte, CCITT, 16)
    BY CcittIs, SMT DEF Shifted
  <2>6. a6 = Shifted(a5, 2 \in byte, CCITT, 16)
    BY CcittIs, SMT DEF Shifted
  <2>7. a7 = Shifted(a6, 1 \in byte, CCITT, 16)
    BY CcittIs, SMT DEF Shifted
  <2>8. a8 = Shifted(a7, 0 \in byte, CCITT, 16)
    BY CcittIs, SMT DEF Shifted
  <2>9. a0 \in Word(16) /\ byte \in CrcByte
    BY SMT DEF Word, Ones, CrcByte
  <2>10. Registers16[7] = a0 /\ Registers16[8] = a8 /\ Digits[7] = byte
    BY DEF Registers16, Digits
  <2> HIDE DEF byte, a0, a1, a2, a3, a4, a5, a6, a7, a8
  <2> QED
    BY <2>1, <2>2, <2>3, <2>4, <2>5, <2>6, <2>7, <2>8, <2>9, <2>10, Digit16
<1>8. Crc16Byte(Registers16[8], Digits[8]) = Registers16[9]
  <2> DEFINE byte == {3, 4, 5}
             a0 == {3, 4, 8, 9, 10, 12, 13, 14}
             a1 == {4, 5, 9, 10, 11, 13, 14, 15}
             a2 == {0, 6, 10, 11, 14, 15}
             a3 == {1, 7, 11, 12, 15}
             a4 == {2, 8, 12, 13}
             a5 == {0, 3, 5, 9, 12, 13, 14}
             a6 == {1, 4, 6, 10, 13, 14, 15}
             a7 == {0, 2, 7, 11, 12, 14, 15}
             a8 == {0, 1, 3, 5, 8, 13, 15}
  <2>1. a1 = Shifted(a0, 7 \in byte, CCITT, 16)
    BY CcittIs, SMT DEF Shifted
  <2>2. a2 = Shifted(a1, 6 \in byte, CCITT, 16)
    BY CcittIs, SMT DEF Shifted
  <2>3. a3 = Shifted(a2, 5 \in byte, CCITT, 16)
    BY CcittIs, SMT DEF Shifted
  <2>4. a4 = Shifted(a3, 4 \in byte, CCITT, 16)
    BY CcittIs, SMT DEF Shifted
  <2>5. a5 = Shifted(a4, 3 \in byte, CCITT, 16)
    BY CcittIs, SMT DEF Shifted
  <2>6. a6 = Shifted(a5, 2 \in byte, CCITT, 16)
    BY CcittIs, SMT DEF Shifted
  <2>7. a7 = Shifted(a6, 1 \in byte, CCITT, 16)
    BY CcittIs, SMT DEF Shifted
  <2>8. a8 = Shifted(a7, 0 \in byte, CCITT, 16)
    BY CcittIs, SMT DEF Shifted
  <2>9. a0 \in Word(16) /\ byte \in CrcByte
    BY SMT DEF Word, Ones, CrcByte
  <2>10. Registers16[8] = a0 /\ Registers16[9] = a8 /\ Digits[8] = byte
    BY DEF Registers16, Digits
  <2> HIDE DEF byte, a0, a1, a2, a3, a4, a5, a6, a7, a8
  <2> QED
    BY <2>1, <2>2, <2>3, <2>4, <2>5, <2>6, <2>7, <2>8, <2>9, <2>10, Digit16
<1>9. Crc16Byte(Registers16[9], Digits[9]) = Registers16[10]
  <2> DEFINE byte == {0, 3, 4, 5}
             a0 == {0, 1, 3, 5, 8, 13, 15}
             a1 == {0, 1, 2, 4, 5, 6, 9, 12, 14}
             a2 == {1, 2, 3, 5, 6, 7, 10, 13, 15}
             a3 == {2, 3, 4, 6, 7, 8, 11, 14}
             a4 == {0, 3, 4, 7, 8, 9, 15}
             a5 == {1, 4, 5, 8, 9, 10}
             a6 == {2, 5, 6, 9, 10, 11}
             a7 == {3, 6, 7, 10, 11, 12}
             a8 == {0, 4, 5, 7, 8, 11, 13}
  <2>1. a1 = Shifted(a0, 7 \in byte, CCITT, 16)
    BY CcittIs, SMT DEF Shifted
  <2>2. a2 = Shifted(a1, 6 \in byte, CCITT, 16)
    BY CcittIs, SMT DEF Shifted
  <2>3. a3 = Shifted(a2, 5 \in byte, CCITT, 16)
    BY CcittIs, SMT DEF Shifted
  <2>4. a4 = Shifted(a3, 4 \in byte, CCITT, 16)
    BY CcittIs, SMT DEF Shifted
  <2>5. a5 = Shifted(a4, 3 \in byte, CCITT, 16)
    BY CcittIs, SMT DEF Shifted
  <2>6. a6 = Shifted(a5, 2 \in byte, CCITT, 16)
    BY CcittIs, SMT DEF Shifted
  <2>7. a7 = Shifted(a6, 1 \in byte, CCITT, 16)
    BY CcittIs, SMT DEF Shifted
  <2>8. a8 = Shifted(a7, 0 \in byte, CCITT, 16)
    BY CcittIs, SMT DEF Shifted
  <2>9. a0 \in Word(16) /\ byte \in CrcByte
    BY SMT DEF Word, Ones, CrcByte
  <2>10. Registers16[9] = a0 /\ Registers16[10] = a8 /\ Digits[9] = byte
    BY DEF Registers16, Digits
  <2> HIDE DEF byte, a0, a1, a2, a3, a4, a5, a6, a7, a8
  <2> QED
    BY <2>1, <2>2, <2>3, <2>4, <2>5, <2>6, <2>7, <2>8, <2>9, <2>10, Digit16
<1>10. \A k \in 1 .. 9 : k \in {1, 2, 3, 4, 5, 6, 7, 8, 9}
  OBVIOUS
<1>11. 1 + 1 = 2 /\ 2 + 1 = 3 /\ 3 + 1 = 4 /\ 4 + 1 = 5 /\ 5 + 1 = 6 /\ 6 + 1 = 7 /\ 7 + 1 = 8 /\ 8 + 1 = 9 /\ 9 + 1 = 10
  OBVIOUS
<1> QED
  BY <1>1, <1>2, <1>3, <1>4, <1>5, <1>6, <1>7, <1>8, <1>9, <1>10, <1>11

LEMMA CheckValues ==
  /\ Crc32Calculate(CheckMessage) = HexWord(\hCBF4, \h3926)
  /\ crc16_ccitt(CheckMessage) = HexWord(0, \h29B1)
<1> DEFINE m == CheckMessage
<1>1. m \in Seq(CrcByte) /\ Len(m) = 9 /\ \A k \in 1 .. 9 : m[k] = Digits[k]
  BY CheckMessageIs
<1> HIDE DEF m
<1>2. Crc32Calculate(m) = {1, 2, 5, 8, 11, 12, 13, 18, 20, 21, 22, 23, 24, 25, 27, 30, 31}
  <2>1. Registers32[1] = Ones(32)
    BY SMT DEF Registers32, Ones
  <2>2. Ones(32) \in Word(32)
    BY DEF Word
  <2>3. PICK f : Crc32Run(f, Ones(32), m) /\ Crc32Update(Ones(32), m) = f[9]
    BY <1>1, <2>2, Crc32Unfolds, ZenonT(30)
  <2>4. \A k \in 1 .. 9 : f[k - 1] = Registers32[(k - 1) + 1] => f[k] = Registers32[k + 1]
    <3>1. ASSUME NEW k \in 1 .. 9, f[k - 1] = Registers32[(k - 1) + 1] PROVE f[k] = Registers32[k + 1]
      <4>1. f[k] = Crc32Byte(f[k - 1], m[k]) /\ (k - 1) + 1 = k
        BY <1>1, <2>3 DEF Crc32Run
      <4> QED
        BY <1>1, <3>1, <4>1, Registers32Are
    <3> QED
      BY <3>1
  <2>5. f[0] = Registers32[0 + 1]
    BY <2>1, <2>3 DEF Crc32Run
  <2>6. f[9] = Registers32[10]
    <3> DEFINE T == {k \in 0 .. 9 : f[k] = Registers32[k + 1]}
    <3>1. 0 \in T
      BY <2>5
    <3>2. \A k \in 0 .. 9 - 1 : k \in T => k + 1 \in T
      <4>1. TAKE k \in 0 .. 9 - 1
      <4>2. k + 1 \in 1 .. 9 /\ (k + 1) - 1 = k /\ k + 1 \in 0 .. 9
        OBVIOUS
      <4> QED
        BY <2>4, <4>2
    <3> HIDE DEF T
    <3>3. \A k \in 0 .. 9 : k \in T
      BY <3>1, <3>2, SetInduction
    <3>4. 9 \in T /\ 9 + 1 = 10
      BY <3>3
    <3> QED
      BY <3>4 DEF T
  <2>7. Crc32Calculate(m) = SymDiff(Registers32[10], Ones(32))
    BY <2>3, <2>6 DEF Crc32Calculate, Crc32Finalize, INITIAL_REMAINDER, FINAL_XOR_VALUE
  <2>8. Registers32[10] = {0, 3, 4, 6, 7, 9, 10, 14, 15, 16, 17, 19, 26, 28, 29}
    BY DEF Registers32
  <2>9. Ones(32) = 0 .. 31
    BY DEF Ones
  <2>10. SymDiff({0, 3, 4, 6, 7, 9, 10, 14, 15, 16, 17, 19, 26, 28, 29}, 0 .. 31) = {1, 2, 5, 8, 11, 12, 13, 18, 20, 21, 22, 23, 24, 25, 27, 30, 31}
    BY SMT DEF SymDiff
  <2> QED
    BY <2>7, <2>8, <2>9, <2>10
<1>3. crc16_ccitt(m) = {0, 4, 5, 7, 8, 11, 13}
  <2>1. Registers16[1] = Ones(16)
    BY SMT DEF Registers16, Ones
  <2>3. PICK f : Crc16Run(f, m) /\ crc16_ccitt(m) = f[9]
    BY <1>1, Crc16Unfolds
  <2>4. \A k \in 1 .. 9 : f[k - 1] = Registers16[(k - 1) + 1] => f[k] = Registers16[k + 1]
    <3>1. ASSUME NEW k \in 1 .. 9, f[k - 1] = Registers16[(k - 1) + 1] PROVE f[k] = Registers16[k + 1]
      <4>1. f[k] = Crc16Byte(f[k - 1], m[k]) /\ (k - 1) + 1 = k
        BY <1>1, <2>3 DEF Crc16Run
      <4> QED
        BY <1>1, <3>1, <4>1, Registers16Are
    <3> QED
      BY <3>1
  <2>5. f[0] = Registers16[0 + 1]
    BY <2>1, <2>3 DEF Crc16Run
  <2>6. f[9] = Registers16[10]
    <3> DEFINE T == {k \in 0 .. 9 : f[k] = Registers16[k + 1]}
    <3>1. 0 \in T
      BY <2>5
    <3>2. \A k \in 0 .. 9 - 1 : k \in T => k + 1 \in T
      <4>1. TAKE k \in 0 .. 9 - 1
      <4>2. k + 1 \in 1 .. 9 /\ (k + 1) - 1 = k /\ k + 1 \in 0 .. 9
        OBVIOUS
      <4> QED
        BY <2>4, <4>2
    <3> HIDE DEF T
    <3>3. \A k \in 0 .. 9 : k \in T
      BY <3>1, <3>2, SetInduction
    <3>4. 9 \in T /\ 9 + 1 = 10
      BY <3>3
    <3> QED
      BY <3>4 DEF T
  <2>7. Registers16[10] = {0, 4, 5, 7, 8, 11, 13}
    BY DEF Registers16
  <2> QED
    BY <2>3, <2>6, <2>7
<1>4. HexWord(\hCBF4, \h3926) = {1, 2, 5, 8, 11, 12, 13, 18, 20, 21, 22, 23, 24, 25, 27, 30, 31}
  <2>1. Half(\hCBF4) = {2, 4, 5, 6, 7, 8, 9, 11, 14, 15} /\ Half(\h3926) = {1, 2, 5, 8, 11, 12, 13}
    <3>1. Half(\hCBF4) = {2, 4, 5, 6, 7, 8, 9, 11, 14, 15}
      BY HalfIs, SMT
    <3>2. Half(\h3926) = {1, 2, 5, 8, 11, 12, 13}
      BY HalfIs, SMT
    <3> QED
      BY <3>1, <3>2
  <2>2. {b + 16 : b \in {2, 4, 5, 6, 7, 8, 9, 11, 14, 15}} = {18, 20, 21, 22, 23, 24, 25, 27, 30, 31}
    OBVIOUS
  <2> QED
    BY <2>1, <2>2, HexIs, SMTT(40)
<1>5. HexWord(0, \h29B1) = {0, 4, 5, 7, 8, 11, 13}
  <2>1. Half(0) = {}
    BY HalfIs, SMT
  <2>2. Half(\h29B1) = {0, 4, 5, 7, 8, 11, 13}
    BY HalfIs, SMT
  <2>3. {b + 16 : b \in {}} = {}
    OBVIOUS
  <2> QED
    BY <2>1, <2>2, <2>3, HexIs
<1> QED
  BY <1>2, <1>3, <1>4, <1>5 DEF m

LEMMA CornersAreBytes == \A b \in Corner : b \in CrcByte
BY DEF Corner, CrcByte

LEMMA MessagesAreBytes == \A m \in Messages : m \in Seq(CrcByte)
<1>1. \A a, b \in CrcByte : /\ <<>> \in Seq(CrcByte)
                            /\ <<b>> \in Seq(CrcByte)
                            /\ <<a, b>> \in Seq(CrcByte)
                            /\ <<a, {3}, b>> \in Seq(CrcByte)
  <2>1. {3} \in CrcByte
    BY DEF CrcByte
  <2> QED
    BY <2>1
<1>2. CheckMessage \in Seq(CrcByte)
  BY CheckMessageIs
<1>3. CrcByte # {}
  BY DEF CrcByte
<1> SUFFICES ASSUME NEW m \in Messages PROVE m \in Seq(CrcByte)
  OBVIOUS
<1>4. \/ m \in {<<>>, CheckMessage}
      \/ m \in {<<b>> : b \in CrcByte}
      \/ m \in {<<a, b>> : a \in Corner, b \in Corner}
      \/ m \in {<<a, {3}, b>> : a \in Corner, b \in Corner}
  BY DEF Messages
<1>5. CASE m \in {<<>>, CheckMessage}
  BY <1>1, <1>2, <1>3, <1>5
<1>6. CASE m \in {<<b>> : b \in CrcByte}
  BY <1>1, <1>6
<1>7. CASE m \in {<<a, b>> : a \in Corner, b \in Corner}
  <2>1. PICK a \in Corner, b \in Corner : m = <<a, b>>
    BY <1>7
  <2> QED
    BY <1>1, <2>1, CornersAreBytes
<1>8. CASE m \in {<<a, {3}, b>> : a \in Corner, b \in Corner}
  <2>1. PICK a \in Corner, b \in Corner : m = <<a, {3}, b>>
    BY <1>8
  <2> QED
    BY <1>1, <2>1, CornersAreBytes
<1> QED
  BY <1>4, <1>5, <1>6, <1>7, <1>8

LEMMA TheChangesShow == ChangesShow
<1>1. SUFFICES ASSUME NEW m \in {CheckMessage, <<{}, {}, {}>>}, NEW k \in 1 .. Len(m)
               PROVE  /\ Crc32Update(Crc32Update(INITIAL_REMAINDER, SubSeq(m, 1, k)), SubSeq(m, k + 1, Len(m)))
                           = Crc32Update(INITIAL_REMAINDER, m)
                      /\ \A b \in CrcByte \ {m[k]} :
                           LET changed == [m EXCEPT ![k] = b]
                           IN  /\ Crc32Calculate(changed) # Crc32Calculate(m)
                               /\ crc16_ccitt(changed) # crc16_ccitt(m)
  BY DEF ChangesShow
<1>2. m \in Seq(CrcByte)
  <2>1. {} \in CrcByte
    BY DEF CrcByte
  <2>2. <<{}, {}, {}>> \in Seq(CrcByte)
    BY <2>1
  <2> QED
    BY <2>2, CheckMessageIs
<1>3. INITIAL_REMAINDER \in Word(32)
  BY DEF INITIAL_REMAINDER, Word
<1>4. /\ SubSeq(m, 1, k) \in Seq(CrcByte) /\ SubSeq(m, k + 1, Len(m)) \in Seq(CrcByte)
      /\ SubSeq(m, 1, k) \o SubSeq(m, k + 1, Len(m)) = m
  <2>1. /\ 0 \in 0 .. Len(m) /\ k \in 0 .. Len(m) /\ Len(m) \in k .. Len(m) /\ k \in 0 .. k
        /\ 0 + 1 = 1 /\ Len(m) \in 0 .. Len(m) /\ k - 0 = k
    BY <1>2
  <2>2. Part(m, 0, k) \in Seq(CrcByte) /\ Part(m, k, Len(m)) \in Seq(CrcByte)
    BY <1>2, <2>1, PartIs
  <2>3. Part(m, 0, k) \o Part(m, k, Len(m)) = Part(m, 0, Len(m))
    BY <1>2, <2>1, PartsJoin
  <2>4. Part(m, 0, Len(m)) = m
    BY <1>2 DEF Part
  <2> QED
    BY <2>1, <2>2, <2>3, <2>4 DEF Part
<1>5. Crc32Update(Crc32Update(INITIAL_REMAINDER, SubSeq(m, 1, k)), SubSeq(m, k + 1, Len(m)))
        = Crc32Update(INITIAL_REMAINDER, m)
  BY <1>3, <1>4, CutCrcIsWhole, ZenonT(40)
<1>6. ASSUME NEW b \in CrcByte \ {m[k]}
      PROVE  /\ Crc32Calculate([m EXCEPT ![k] = b]) # Crc32Calculate(m)
             /\ crc16_ccitt([m EXCEPT ![k] = b]) # crc16_ccitt(m)
  BY <1>2, ChangeShowsInCrc32, ChangeShowsInCrc16
<1> QED
  BY <1>5, <1>6

LEMMA TheCrcsAgree == CrcsAgree
BY MessagesAreBytes, CheckValues, Crc32IsRemainder, Crc16IsRemainder, HostCrcIsNodes DEF CrcsAgree

\* The checksums an image is announced with are the remainders that define
\* them, the node's and the host's agree, with their published check values,
\* and one changed byte shows (Crc32.cpp, crc16_ccitt, ota_updater.py).
THEOREM ChecksumsAreSound == ChecksumsHold
BY TheCrcsAgree, TheChangesShow DEF ChecksumsHold, ChecksumsAgree

-----------------------------------------------------------------------------
(* The wire: where the bytes of a layout are.                               *)

\* The fields of the structures and formats.
FieldNames ==
  {"magic", "version", "flags", "node_id", "msg_type", "seq_num", "payload_len", "crc16",
   "uptime_ms", "fw_version", "node_state", "active_streams", "vdd_mv", "core_temp_c_x10",
   "feature_flags_low", "challenge_id", "target_node_id", "reserved", "ip_addr", "mac_addr",
   "board_id", "hw_uid", "bootloader_version", "feature_flags", "t1_host_tx_us", "t2_node_rx_us",
   "t3_node_tx_us", "t4_host_rx_us", "master_utc_us", "beacon_seq", "epoch_id", "stratum",
   "cmd_len", "status_code", "resp_len", "cmd_id", "param1", "param2", "result_data", "image_size",
   "image_crc32", "target_version", "chunk_size", "chunk_size_ack", "max_image_size_kb", "offset",
   "chunk_len", "chunk_crc16", "auto_reboot", "bytes_written", "total_bytes", "state",
   "error_code", "staging_address", "active_address", "struct_crc32", "timestamp_us", "stream_tag",
   "sample_rate_hz", "sample_count", "channel_count", "sample_type", "name", "batch_count",
   "is_enabled", "stream_count", "header_version", "app_version", "min_bootloader_version",
   "build_timestamp", "git_commit", "header_crc32", "boot_reason", "active_slot", "boot_count"}

Layouts == Seq(FieldNames \X Nat)

\* A field begins where the one before it ends.
OffsetRun(f, layout) ==
  /\ f \in [0 .. Len(layout) -> Nat]
  /\ f[0] = 0
  /\ \A i \in 1 .. Len(layout) : f[i] = f[i - 1] + layout[i][2]

LEMMA OffsetUnfolds ==
  ASSUME NEW layout \in Layouts
  PROVE  \E f : OffsetRun(f, layout) /\ \A i \in 0 .. Len(layout) : Offset(layout, i + 1) = f[i]
<1> DEFINE n == Len(layout)
           G == [p \in Nat \X (1 .. n) |-> p[1] + layout[p[2]][2]]
           Body(f) == [i \in 0 .. n |-> IF i = 0 THEN 0 ELSE f[i - 1] + layout[i][2]]
           upTo == CHOOSE f : f = Body(f)
<1>1. n \in Nat /\ \A i \in 1 .. n : layout[i][2] \in Nat
  BY DEF Layouts
<1>2. G \in Turns(Nat, n)
  BY <1>1 DEF Turns
<1>3. \A c \in Nat, i \in 1 .. n : G[<<c, i>>] = c + layout[i][2]
  OBVIOUS
<1>4. \A i : Offset(layout, i) = upTo[i - 1]
  BY DEF Offset
<1> HIDE DEF G, n
<1>5. PICK f : f \in [0 .. n -> Nat] /\ f[0] = 0 /\ \A i \in 1 .. n : f[i] = G[<<f[i - 1], i>>]
  <2>1. \E f : History(f, Nat, 0, n, G)
    BY <1>1, <1>2, 0 \in Nat, LoopExists
  <2> QED
    BY <2>1 DEF History
<1>6. \A i \in 1 .. n : f[i] = f[i - 1] + layout[i][2]
  <2>1. TAKE i \in 1 .. n
  <2>2. i - 1 \in 0 .. n
    BY <1>1
  <2> QED
    BY <2>2, <1>3, <1>5
<1>7. f = Body(f)
  <2>1. \A i \in 0 .. n : f[i] = IF i = 0 THEN 0 ELSE f[i - 1] + layout[i][2]
    <3>1. \A i \in 0 .. n : i = 0 \/ i \in 1 .. n
      BY <1>1
    <3> QED
      BY <1>5, <1>6, <3>1
  <2> QED
    BY <1>5, <2>1
<1>8. upTo = Body(upTo)
  BY <1>7
<1> HIDE DEF upTo
<1>9. upTo[0] = 0 /\ \A i \in 1 .. n : upTo[i] = upTo[i - 1] + layout[i][2]
  <2>1. 0 \in 0 .. n /\ \A i \in 1 .. n : i \in 0 .. n /\ i # 0
    BY <1>1
  <2>2. \A i \in 0 .. n : Body(upTo)[i] = IF i = 0 THEN 0 ELSE upTo[i - 1] + layout[i][2]
    OBVIOUS
  <2> HIDE DEF Body
  <2> QED
    BY <1>8, <2>1, <2>2
<1>10. \A i \in 0 .. n : f[i] = upTo[i]
  <2>1. StartsLike(f, upTo, n)
    BY <1>5, <1>6, <1>9 DEF StartsLike
  <2> QED
    BY <1>1, <2>1, LoopUnique DEF Like
<1>11. \A i \in 0 .. n : Offset(layout, i + 1) = f[i]
  <2>1. TAKE i \in 0 .. n
  <2>2. (i + 1) - 1 = i
    BY <1>1
  <2> QED
    BY <1>4, <1>10, <2>2
<1> QED
  BY <1>5, <1>6, <1>11 DEF OffsetRun, n

LEMMA OffsetsAre ==
  ASSUME NEW layout \in Layouts
  PROVE  /\ Len(layout) \in Nat
         /\ Offset(layout, 1) = 0
         /\ \A i \in 1 .. Len(layout) + 1 : Offset(layout, i) \in Nat
         /\ \A i \in 1 .. Len(layout) : Offset(layout, i + 1) = Offset(layout, i) + layout[i][2]
         /\ SizeOf(layout) = Offset(layout, Len(layout) + 1)
         /\ SizeOf(layout) \in Nat
<1>1. PICK f : OffsetRun(f, layout) /\ \A i \in 0 .. Len(layout) : Offset(layout, i + 1) = f[i]
  BY OffsetUnfolds
<1>2. Len(layout) \in Nat
  BY DEF Layouts
<1>3. \A i \in 1 .. Len(layout) + 1 : i - 1 \in 0 .. Len(layout) /\ (i - 1) + 1 = i
  BY <1>2
<1>4. \A i \in 1 .. Len(layout) + 1 : Offset(layout, i) = f[i - 1]
  BY <1>1, <1>3
<1>5. \A i \in 1 .. Len(layout) + 1 : Offset(layout, i) \in Nat
  BY <1>1, <1>3, <1>4 DEF OffsetRun
<1>6. Offset(layout, 1) = 0
  <2>1. 1 \in 1 .. Len(layout) + 1 /\ 1 - 1 = 0
    BY <1>2
  <2> QED
    BY <1>1, <1>4, <2>1 DEF OffsetRun
<1>7. \A i \in 1 .. Len(layout) : Offset(layout, i + 1) = Offset(layout, i) + layout[i][2]
  <2>1. TAKE i \in 1 .. Len(layout)
  <2>2. i \in 1 .. Len(layout) + 1 /\ i \in 0 .. Len(layout)
    BY <1>2
  <2> QED
    BY <1>1, <1>4, <2>2 DEF OffsetRun
<1>8. Len(layout) + 1 \in 1 .. Len(layout) + 1
  BY <1>2
<1> QED
  BY <1>2, <1>5, <1>6, <1>7, <1>8 DEF SizeOf

LEMMA OffsetsGrow ==
  ASSUME NEW layout \in Layouts, NEW i \in 1 .. Len(layout) + 1, NEW j \in i .. Len(layout) + 1
  PROVE  Offset(layout, i) <= Offset(layout, j)
<1> DEFINE S == {k \in 0 .. (Len(layout) + 1) - i : Offset(layout, i) <= Offset(layout, i + k)}
           m == (Len(layout) + 1) - i
<1>1. Len(layout) \in Nat /\ m \in Nat
  BY OffsetsAre
<1>2. 0 \in S
  BY <1>1, OffsetsAre
<1>3. \A k \in 0 .. m - 1 : k \in S => k + 1 \in S
  <2>1. SUFFICES ASSUME NEW k \in 0 .. m - 1, Offset(layout, i) <= Offset(layout, i + k)
                 PROVE  Offset(layout, i) <= Offset(layout, i + (k + 1))
    BY <1>1
  <2>2. /\ i + k \in 1 .. Len(layout) /\ i + (k + 1) = (i + k) + 1
        /\ i + k \in 1 .. Len(layout) + 1
    BY <1>1
  <2>3. Offset(layout, (i + k) + 1) = Offset(layout, i + k) + layout[i + k][2]
    BY <2>2, OffsetsAre
  <2>4. layout[i + k][2] \in Nat
    BY <2>2 DEF Layouts
  <2>5. Offset(layout, i) \in Nat /\ Offset(layout, i + k) \in Nat
    BY <2>2, OffsetsAre
  <2> QED
    BY <2>1, <2>2, <2>3, <2>4, <2>5
<1> HIDE DEF S
<1>4. \A k \in 0 .. m : k \in S
  BY <1>1, <1>2, <1>3, SetInduction
<1>5. j - i \in 0 .. m /\ i + (j - i) = j
  BY <1>1
<1> QED
  BY <1>4, <1>5 DEF S

\* Every byte of a layout is in one field.
Within(layout, i, n) == Offset(layout, i) < n /\ n <= Offset(layout, i + 1)

LEMMA OneField ==
  ASSUME NEW layout \in Layouts, NEW n \in Nat,
         NEW i \in DOMAIN layout, NEW j \in DOMAIN layout, Within(layout, i, n), Within(layout, j, n)
  PROVE  i = j
<1>1. DOMAIN layout = 1 .. Len(layout) /\ Len(layout) \in Nat
  BY DEF Layouts
<1>2. ASSUME NEW a \in 1 .. Len(layout), NEW b \in 1 .. Len(layout), a < b,
             Within(layout, a, n), Within(layout, b, n)
      PROVE  FALSE
  <2>1. /\ a + 1 \in 1 .. Len(layout) + 1 /\ b \in a + 1 .. Len(layout) + 1
        /\ b \in 1 .. Len(layout) + 1
    BY <1>1, <1>2
  <2>2. Offset(layout, a + 1) <= Offset(layout, b)
    BY <2>1, OffsetsGrow
  <2>3. Offset(layout, a + 1) \in Nat /\ Offset(layout, b) \in Nat
    BY <2>1, OffsetsAre
  <2> QED
    BY <1>2, <2>2, <2>3 DEF Within
<1> QED
  BY <1>1, <1>2

LEMMA SomeField ==
  ASSUME NEW layout \in Layouts, NEW n \in 1 .. SizeOf(layout)
  PROVE  \E i \in DOMAIN layout : Within(layout, i, n)
<1> DEFINE T == {i \in 1 .. Len(layout) + 1 : n <= Offset(layout, i)}
<1>1. Len(layout) \in Nat /\ SizeOf(layout) \in Nat /\ DOMAIN layout = 1 .. Len(layout)
  BY OffsetsAre DEF Layouts
<1>2. T \in SUBSET Nat
  BY <1>1
<1>3. Len(layout) + 1 \in T
  BY <1>1, OffsetsAre
<1> HIDE DEF T
<1>4. PICK x \in T : \A y \in T : ~ (y < x)
  BY <1>2, <1>3, LeastElement
<1>5. x \in 1 .. Len(layout) + 1 /\ n <= Offset(layout, x)
  BY <1>4 DEF T
<1>6. x # 1
  BY <1>5, OffsetsAre
<1>7. x - 1 \in 1 .. Len(layout) /\ (x - 1) + 1 = x /\ x - 1 < x /\ x - 1 \in 1 .. Len(layout) + 1
  BY <1>1, <1>5, <1>6
<1>8. ~ (n <= Offset(layout, x - 1))
  BY <1>4, <1>7 DEF T
<1>9. Offset(layout, x - 1) \in Nat
  BY <1>7, OffsetsAre
<1>10. Within(layout, x - 1, n)
  BY <1>5, <1>7, <1>8, <1>9 DEF Within
<1> QED
  BY <1>1, <1>7, <1>10

LEMMA BytesAre ==
  ASSUME NEW layout \in Layouts
  PROVE  /\ BytesOf(layout) \in Seq(FieldNames \X Int)
         /\ Len(BytesOf(layout)) = SizeOf(layout)
         /\ \A n \in 1 .. SizeOf(layout) : \A i \in DOMAIN layout :
              Within(layout, i, n) => BytesOf(layout)[n] = <<layout[i][1], n - Offset(layout, i)>>
<1> DEFINE Field(n) == CHOOSE j \in DOMAIN layout : Offset(layout, j) < n /\ n <= Offset(layout, j + 1)
<1>1. SizeOf(layout) \in Nat /\ Len(layout) \in Nat /\ DOMAIN layout = 1 .. Len(layout)
  BY OffsetsAre DEF Layouts
<1>2. BytesOf(layout) = [n \in 1 .. SizeOf(layout) |-> <<layout[Field(n)][1], n - Offset(layout, Field(n))>>]
  BY DEF BytesOf
<1>3. \A n \in 1 .. SizeOf(layout) : Field(n) \in DOMAIN layout /\ Within(layout, Field(n), n)
  <2>1. TAKE n \in 1 .. SizeOf(layout)
  <2>2. \E j \in DOMAIN layout : Offset(layout, j) < n /\ n <= Offset(layout, j + 1)
    BY SomeField DEF Within
  <2> QED
    BY <2>2 DEF Within
<1> HIDE DEF Field
<1>4. \A n \in 1 .. SizeOf(layout) : <<layout[Field(n)][1], n - Offset(layout, Field(n))>> \in FieldNames \X Int
  <2>1. TAKE n \in 1 .. SizeOf(layout)
  <2>2. Field(n) \in 1 .. Len(layout) + 1
    BY <1>1, <1>3
  <2>3. Offset(layout, Field(n)) \in Nat
    BY <2>2, OffsetsAre
  <2>4. layout[Field(n)][1] \in FieldNames
    BY <1>3 DEF Layouts
  <2> QED
    BY <2>3, <2>4
<1>5. \A n \in 1 .. SizeOf(layout) : \A i \in DOMAIN layout : Within(layout, i, n) => i = Field(n)
  BY <1>1, <1>3, OneField
<1>6. \A n \in 1 .. SizeOf(layout) : \A i \in DOMAIN layout :
        Within(layout, i, n) => BytesOf(layout)[n] = <<layout[i][1], n - Offset(layout, i)>>
  BY <1>2, <1>5
<1>7. BytesOf(layout) \in Seq(FieldNames \X Int) /\ Len(BytesOf(layout)) = SizeOf(layout)
  BY <1>1, <1>2, <1>4
<1> QED
  BY <1>6, <1>7

LEMMA OffsetsJoin ==
  ASSUME NEW a \in Layouts, NEW b \in Layouts
  PROVE  /\ a \o b \in Layouts
         /\ Len(a \o b) = Len(a) + Len(b)
         /\ \A i \in 1 .. Len(a) : (a \o b)[i] = a[i]
         /\ \A i \in 1 .. Len(b) : (a \o b)[Len(a) + i] = b[i]
         /\ \A i \in 1 .. Len(a) + 1 : Offset(a \o b, i) = Offset(a, i)
         /\ \A i \in 1 .. Len(b) + 1 : Offset(a \o b, Len(a) + i) = SizeOf(a) + Offset(b, i)
         /\ SizeOf(a \o b) = SizeOf(a) + SizeOf(b)
<1> DEFINE c == a \o b
           S == {i \in 0 .. Len(a) : Offset(c, i + 1) = Offset(a, i + 1)}
           T == {i \in 0 .. Len(b) : Offset(c, Len(a) + (i + 1)) = SizeOf(a) + Offset(b, i + 1)}
<1>1. Len(a) \in Nat /\ Len(b) \in Nat
  BY DEF Layouts
<1>2. /\ c \in Layouts /\ Len(c) = Len(a) + Len(b)
      /\ \A i \in 1 .. Len(a) : c[i] = a[i]
      /\ \A i \in 1 .. Len(b) : c[Len(a) + i] = b[i]
  <2>1. IsJoined(c, a, b, FieldNames \X Nat)
    BY Joined DEF Layouts
  <2> QED
    BY <2>1 DEF IsJoined, Layouts
<1> HIDE DEF c
<1>3. 0 \in S
  BY <1>1, <1>2, OffsetsAre
<1>4. \A i \in 0 .. Len(a) - 1 : i \in S => i + 1 \in S
  <2>1. SUFFICES ASSUME NEW i \in 0 .. Len(a) - 1, Offset(c, i + 1) = Offset(a, i + 1)
                 PROVE  Offset(c, (i + 1) + 1) = Offset(a, (i + 1) + 1)
    BY <1>1
  <2>2. i + 1 \in 1 .. Len(a) /\ i + 1 \in 1 .. Len(c)
    BY <1>1, <1>2
  <2>3. /\ Offset(c, (i + 1) + 1) = Offset(c, i + 1) + c[i + 1][2]
        /\ Offset(a, (i + 1) + 1) = Offset(a, i + 1) + a[i + 1][2]
    BY <1>2, <2>2, OffsetsAre
  <2> QED
    BY <1>2, <2>1, <2>2, <2>3
<1> HIDE DEF S
<1>5. \A i \in 0 .. Len(a) : i \in S
  BY <1>1, <1>3, <1>4, SetInduction
<1>6. \A i \in 1 .. Len(a) + 1 : Offset(c, i) = Offset(a, i)
  <2>1. TAKE i \in 1 .. Len(a) + 1
  <2>2. i - 1 \in 0 .. Len(a) /\ (i - 1) + 1 = i
    BY <1>1
  <2> QED
    BY <1>5, <2>2 DEF S
<1>7. 0 \in T
  <2>1. Offset(c, Len(a) + 1) = Offset(a, Len(a) + 1)
    BY <1>1, <1>6
  <2>2. SizeOf(a) = Offset(a, Len(a) + 1) /\ SizeOf(a) \in Nat /\ Offset(b, 1) = 0
    BY OffsetsAre
  <2> QED
    BY <1>1, <2>1, <2>2
<1>8. \A i \in 0 .. Len(b) - 1 : i \in T => i + 1 \in T
  <2>1. SUFFICES ASSUME NEW i \in 0 .. Len(b) - 1, Offset(c, Len(a) + (i + 1)) = SizeOf(a) + Offset(b, i + 1)
                 PROVE  Offset(c, Len(a) + ((i + 1) + 1)) = SizeOf(a) + Offset(b, (i + 1) + 1)
    BY <1>1
  <2>2. /\ i + 1 \in 1 .. Len(b) /\ i + 1 \in 1 .. Len(b) + 1 /\ Len(a) + (i + 1) \in 1 .. Len(c)
        /\ Len(a) + ((i + 1) + 1) = (Len(a) + (i + 1)) + 1
    BY <1>1, <1>2
  <2>3. /\ Offset(c, (Len(a) + (i + 1)) + 1) = Offset(c, Len(a) + (i + 1)) + c[Len(a) + (i + 1)][2]
        /\ Offset(b, (i + 1) + 1) = Offset(b, i + 1) + b[i + 1][2]
    BY <1>2, <2>2, OffsetsAre
  <2>4. b[i + 1][2] \in Nat /\ Offset(b, i + 1) \in Nat /\ SizeOf(a) \in Nat
    <3>1. b[i + 1] \in FieldNames \X Nat
      BY <2>2 DEF Layouts
    <3> QED
      BY <2>2, <3>1, OffsetsAre
  <2>5. c[Len(a) + (i + 1)] = b[i + 1]
    BY <1>2, <2>2
  <2> QED
    BY <2>1, <2>2, <2>3, <2>4, <2>5
<1> HIDE DEF T
<1>9. \A i \in 0 .. Len(b) : i \in T
  BY <1>1, <1>7, <1>8, SetInduction
<1>10. \A i \in 1 .. Len(b) + 1 : Offset(c, Len(a) + i) = SizeOf(a) + Offset(b, i)
  <2>1. TAKE i \in 1 .. Len(b) + 1
  <2>2. i - 1 \in 0 .. Len(b) /\ (i - 1) + 1 = i
    BY <1>1
  <2> QED
    BY <1>9, <2>2 DEF T
<1>11. SizeOf(c) = SizeOf(a) + SizeOf(b)
  <2>1. Len(b) + 1 \in 1 .. Len(b) + 1 /\ Len(c) + 1 = Len(a) + (Len(b) + 1)
    BY <1>1, <1>2
  <2>2. SizeOf(c) = Offset(c, Len(c) + 1) /\ SizeOf(b) = Offset(b, Len(b) + 1)
    BY <1>2, OffsetsAre
  <2> QED
    BY <1>10, <2>1, <2>2
<1> QED
  BY <1>2, <1>6, <1>10, <1>11 DEF c

\* Layouts put behind each other have their bytes behind each other.
LEMMA BytesJoin ==
  ASSUME NEW a \in Layouts, NEW b \in Layouts
  PROVE  BytesOf(a \o b) = BytesOf(a) \o BytesOf(b)
<1> DEFINE c == a \o b
           t == BytesOf(a) \o BytesOf(b)
<1>1. /\ c \in Layouts /\ Len(c) = Len(a) + Len(b) /\ Len(a) \in Nat /\ Len(b) \in Nat
      /\ \A i \in 1 .. Len(a) : c[i] = a[i]
      /\ \A i \in 1 .. Len(b) : c[Len(a) + i] = b[i]
      /\ \A i \in 1 .. Len(a) + 1 : Offset(c, i) = Offset(a, i)
      /\ \A i \in 1 .. Len(b) + 1 : Offset(c, Len(a) + i) = SizeOf(a) + Offset(b, i)
      /\ SizeOf(c) = SizeOf(a) + SizeOf(b)
      /\ SizeOf(a) \in Nat /\ SizeOf(b) \in Nat
  BY OffsetsJoin, OffsetsAre
<1> HIDE DEF c
<1>2. /\ BytesOf(c) \in Seq(FieldNames \X Int) /\ Len(BytesOf(c)) = SizeOf(c)
      /\ \A n \in 1 .. SizeOf(c) : \A i \in DOMAIN c :
           Within(c, i, n) => BytesOf(c)[n] = <<c[i][1], n - Offset(c, i)>>
  BY <1>1, BytesAre
<1>3. /\ BytesOf(a) \in Seq(FieldNames \X Int) /\ Len(BytesOf(a)) = SizeOf(a)
      /\ \A n \in 1 .. SizeOf(a) : \A i \in DOMAIN a :
           Within(a, i, n) => BytesOf(a)[n] = <<a[i][1], n - Offset(a, i)>>
  BY BytesAre
<1>4. /\ BytesOf(b) \in Seq(FieldNames \X Int) /\ Len(BytesOf(b)) = SizeOf(b)
      /\ \A n \in 1 .. SizeOf(b) : \A i \in DOMAIN b :
           Within(b, i, n) => BytesOf(b)[n] = <<b[i][1], n - Offset(b, i)>>
  BY BytesAre
<1>5. /\ t \in Seq(FieldNames \X Int) /\ Len(t) = SizeOf(a) + SizeOf(b)
      /\ \A i \in 1 .. SizeOf(a) : t[i] = BytesOf(a)[i]
      /\ \A i \in 1 .. SizeOf(b) : t[SizeOf(a) + i] = BytesOf(b)[i]
  <2>1. IsJoined(t, BytesOf(a), BytesOf(b), FieldNames \X Int)
    BY <1>3, <1>4, Joined
  <2> QED
    BY <1>3, <1>4, <2>1 DEF IsJoined
<1> HIDE DEF t
<1>6. DOMAIN a = 1 .. Len(a) /\ DOMAIN b = 1 .. Len(b) /\ DOMAIN c = 1 .. Len(c)
  BY <1>1 DEF Layouts
<1>7. \A n \in 1 .. SizeOf(a) : BytesOf(c)[n] = t[n]
  <2>1. TAKE n \in 1 .. SizeOf(a)
  <2>2. PICK i \in DOMAIN a : Within(a, i, n)
    BY SomeField
  <2>3. i \in 1 .. Len(a) + 1 /\ i + 1 \in 1 .. Len(a) + 1 /\ i \in DOMAIN c /\ n \in 1 .. SizeOf(c)
    BY <1>1, <1>6
  <2>4. Within(c, i, n)
    BY <1>1, <2>2, <2>3 DEF Within
  <2>5. BytesOf(c)[n] = <<c[i][1], n - Offset(c, i)>> /\ BytesOf(a)[n] = <<a[i][1], n - Offset(a, i)>>
    BY <1>2, <1>3, <2>2, <2>3, <2>4
  <2> QED
    BY <1>1, <1>5, <1>6, <2>3, <2>5
<1>8. \A n \in 1 .. SizeOf(b) : BytesOf(c)[SizeOf(a) + n] = t[SizeOf(a) + n]
  <2>1. TAKE n \in 1 .. SizeOf(b)
  <2>2. PICK i \in DOMAIN b : Within(b, i, n)
    BY SomeField
  <2>3. /\ i \in 1 .. Len(b) + 1 /\ i + 1 \in 1 .. Len(b) + 1 /\ Len(a) + i \in DOMAIN c
        /\ SizeOf(a) + n \in 1 .. SizeOf(c) /\ Len(a) + (i + 1) = (Len(a) + i) + 1
    BY <1>1, <1>6, SMTT(20)
  <2>4. Offset(b, i) \in Nat /\ Offset(b, i + 1) \in Nat
    BY <2>3, OffsetsAre
  <2>5. /\ Offset(c, Len(a) + i) = SizeOf(a) + Offset(b, i)
        /\ Offset(c, (Len(a) + i) + 1) = SizeOf(a) + Offset(b, i + 1)
    BY <1>1, <2>3
  <2>6. Within(c, Len(a) + i, SizeOf(a) + n)
    BY <1>1, <2>2, <2>4, <2>5 DEF Within
  <2>7. /\ BytesOf(c)[SizeOf(a) + n] = <<c[Len(a) + i][1], (SizeOf(a) + n) - Offset(c, Len(a) + i)>>
        /\ BytesOf(b)[n] = <<b[i][1], n - Offset(b, i)>>
    BY <1>2, <1>4, <2>2, <2>3, <2>6
  <2>8. (SizeOf(a) + n) - Offset(c, Len(a) + i) = n - Offset(b, i) /\ c[Len(a) + i] = b[i]
    BY <1>1, <1>6, <2>4, <2>5
  <2> QED
    BY <1>5, <2>7, <2>8
<1>9. \A n \in 1 .. Len(BytesOf(c)) : BytesOf(c)[n] = t[n]
  <2>1. TAKE n \in 1 .. Len(BytesOf(c))
  <2>2. CASE n \in 1 .. SizeOf(a)
    BY <1>7, <2>2
  <2>3. CASE n \notin 1 .. SizeOf(a)
    <3>1. n - SizeOf(a) \in 1 .. SizeOf(b) /\ SizeOf(a) + (n - SizeOf(a)) = n
      BY <1>1, <1>2, <2>3
    <3> QED
      BY <1>8, <3>1
  <2> QED
    BY <2>2, <2>3
<1>10. BytesOf(c) = t
  BY <1>1, <1>2, <1>5, <1>9, SameSeq
<1> QED
  BY <1>10 DEF c, t

LEMMA PrefixOfBytes ==
  ASSUME NEW a \in Layouts, NEW b \in Layouts
  PROVE  IsPrefix(BytesOf(a), BytesOf(a \o b)) /\ IsPrefix(BytesOf(a), BytesOf(a))
<1> DEFINE s == BytesOf(a)  t == BytesOf(b)
<1>1. s \in Seq(FieldNames \X Int) /\ t \in Seq(FieldNames \X Int)
  BY BytesAre
<1>2. BytesOf(a \o b) = s \o t
  BY BytesJoin
<1> HIDE DEF s, t
<1>3. SubSeq(s, 1, Len(s)) = s /\ SubSeq(s \o t, 1, Len(s)) = s
  BY <1>1
<1>4. Len(s) <= Len(s \o t) /\ Len(s) <= Len(s)
  BY <1>1
<1> QED
  BY <1>2, <1>3, <1>4 DEF IsPrefix, s

LEMMA HostHeartbeatIsStart ==
  \E rest \in Layouts : HostHeartbeat \in Layouts /\ PayloadHeartbeat = HostHeartbeat \o rest
<1> DEFINE rest == << <<"node_state", 1>>, <<"active_streams", 1>>,
                      <<"vdd_mv", 2>>, <<"core_temp_c_x10", 2>>, <<"feature_flags_low", 2>> >>
<1>1. HostHeartbeat \in Layouts /\ rest \in Layouts
  BY DEF HostHeartbeat, Layouts, FieldNames
<1>2. PayloadHeartbeat = HostHeartbeat \o rest
  BY DEF HostHeartbeat, PayloadHeartbeat
<1> QED
  BY <1>1, <1>2

LEMMA HostImageHeaderIsStart ==
  \E rest \in Layouts : HostImageHeader \in Layouts /\ AppImageHeader = HostImageHeader \o rest
<1> DEFINE rest == << <<"reserved", 24>>, <<"header_crc32", 4>> >>
<1>1. HostImageHeader \in Layouts /\ rest \in Layouts
  BY DEF HostImageHeader, Layouts, FieldNames
<1>2. AppImageHeader = HostImageHeader \o rest
  BY DEF HostImageHeader, AppImageHeader
<1> QED
  BY <1>1, <1>2

LEMMA TheLayoutsAgree == LayoutsAgree
<1>1. BytesOf(HostHeader) = BytesOf(PE_Header)
  BY DEF HostHeader, PE_Header
<1>2. \A m \in DOMAIN HostSends : HostSends[m] = HandlerReads[m]
  BY DEF HostSends, HandlerReads, HostBegin, HostData, HostEnd, HostCli, HostPing, ViewCommand,
         PayloadOtaBegin, PayloadOtaData, PayloadOtaEnd, PayloadCliExec, PayloadDiscoveryPing, PayloadCommand
<1>3. \A m \in DOMAIN HostReads : m # "HEARTBEAT" => HostReads[m] = NodeWrites[m] /\ HostReads[m] \in Layouts
  <2>1. /\ HostBeginAnswer = PayloadOtaBeginResp /\ HostCliAnswer = PayloadCliExecResp
        /\ ViewFrame = StreamPayloadHeader
    BY DEF HostBeginAnswer, PayloadOtaBeginResp, HostCliAnswer, PayloadCliExecResp, ViewFrame,
           StreamPayloadHeader
  <2>2. HostBeginAnswer \in Layouts /\ HostCliAnswer \in Layouts
    BY DEF HostBeginAnswer, HostCliAnswer, Layouts, FieldNames
  <2>3. ViewFrame \in Layouts
    BY DEF ViewFrame, Layouts, FieldNames
  <2> QED
    BY <2>1, <2>2, <2>3 DEF HostReads, NodeWrites
<1>4. ASSUME NEW m \in DOMAIN HostReads PROVE IsPrefix(BytesOf(HostReads[m]), BytesOf(NodeWrites[m]))
  <2>1. CASE m = "HEARTBEAT"
    <3>1. HostReads[m] = HostHeartbeat /\ NodeWrites[m] = PayloadHeartbeat
      BY <2>1 DEF HostReads, NodeWrites
    <3> QED
      BY <3>1, HostHeartbeatIsStart, PrefixOfBytes
  <2>2. CASE m # "HEARTBEAT"
    BY <1>3, <2>2, PrefixOfBytes
  <2> QED
    BY <2>1, <2>2
<1> QED
  BY <1>1, <1>2, <1>4 DEF LayoutsAgree

LEMMA SizesAre ==
  /\ PE_Header \in Layouts /\ SizeOf(PE_Header) = 16
  /\ PayloadHeartbeat \in Layouts /\ SizeOf(PayloadHeartbeat) = 16
  /\ PayloadTimeBeacon \in Layouts /\ SizeOf(PayloadTimeBeacon) = 16
  /\ PayloadOtaBegin \in Layouts /\ SizeOf(PayloadOtaBegin) = 16
  /\ PayloadTimeSync \in Layouts /\ SizeOf(PayloadTimeSync) = 32
  /\ StreamDescriptor \in Layouts /\ SizeOf(StreamDescriptor) = 32
  /\ PayloadDiscoveryPong \in Layouts /\ SizeOf(PayloadDiscoveryPong) = 48
  /\ PayloadOtaStatusResp \in Layouts /\ SizeOf(PayloadOtaStatusResp) = 12
  /\ OtaControlBlock \in Layouts /\ SizeOf(OtaControlBlock) = 32
  /\ BootInfo \in Layouts /\ SizeOf(BootInfo) = 32
  /\ AppImageHeader \in Layouts /\ SizeOf(AppImageHeader) = 64
  /\ HostData \in Layouts /\ SizeOf(HostData) = 8
  /\ HostCli \in Layouts /\ SizeOf(HostCli) = 4
  /\ PayloadCliExec \in Layouts /\ SizeOf(PayloadCliExec) = 4
  /\ StreamPayloadHeader \in Layouts /\ SizeOf(StreamPayloadHeader) = 20
  /\ HostPongFormat \in Layouts /\ SizeOf(HostPongFormat) = 48
  /\ PayloadGetStreamsResp \in Layouts /\ SizeOf(PayloadGetStreamsResp) = 4
  /\ ViewDescriptor \in Layouts /\ SizeOf(ViewDescriptor) = 29
<1>1. PE_Header \in Layouts /\ SizeOf(PE_Header) = 16
  <2>1. PE_Header \in Layouts /\ Len(PE_Header) = 8
    BY DEF PE_Header, Layouts, FieldNames
  <2>2. PE_Header[1][2] = 2 /\ PE_Header[2][2] = 1 /\ PE_Header[3][2] = 1 /\ PE_Header[4][2] = 2 /\ PE_Header[5][2] = 2 /\ PE_Header[6][2] = 4 /\ PE_Header[7][2] = 2 /\ PE_Header[8][2] = 2
    BY DEF PE_Header
  <2> DEFINE at(i) == Offset(PE_Header, i)
  <2>3. at(1) = 0 /\ \A i \in 1 .. 8 : at(i + 1) = at(i) + PE_Header[i][2]
    BY <2>1, OffsetsAre
  <2>4. SizeOf(PE_Header) = at(9)
    BY <2>1, OffsetsAre, 8 + 1 = 9
  <2> HIDE DEF at
  <2>5. at(2) = 2
    BY <2>2, <2>3, 1 \in 1 .. 8, 1 + 1 = 2
  <2>6. at(3) = 3
    BY <2>5, <2>2, <2>3, 2 \in 1 .. 8, 2 + 1 = 3
  <2>7. at(4) = 4
    BY <2>6, <2>2, <2>3, 3 \in 1 .. 8, 3 + 1 = 4
  <2>8. at(5) = 6
    BY <2>7, <2>2, <2>3, 4 \in 1 .. 8, 4 + 1 = 5
  <2>9. at(6) = 8
    BY <2>8, <2>2, <2>3, 5 \in 1 .. 8, 5 + 1 = 6
  <2>10. at(7) = 12
    BY <2>9, <2>2, <2>3, 6 \in 1 .. 8, 6 + 1 = 7
  <2>11. at(8) = 14
    BY <2>10, <2>2, <2>3, 7 \in 1 .. 8, 7 + 1 = 8
  <2>12. at(9) = 16
    BY <2>11, <2>2, <2>3, 8 \in 1 .. 8, 8 + 1 = 9
  <2> QED
    BY <2>1, <2>4, <2>12
<1>2. PayloadHeartbeat \in Layouts /\ SizeOf(PayloadHeartbeat) = 16
  <2>1. PayloadHeartbeat \in Layouts /\ Len(PayloadHeartbeat) = 7
    BY DEF PayloadHeartbeat, Layouts, FieldNames
  <2>2. PayloadHeartbeat[1][2] = 4 /\ PayloadHeartbeat[2][2] = 4 /\ PayloadHeartbeat[3][2] = 1 /\ PayloadHeartbeat[4][2] = 1 /\ PayloadHeartbeat[5][2] = 2 /\ PayloadHeartbeat[6][2] = 2 /\ PayloadHeartbeat[7][2] = 2
    BY DEF PayloadHeartbeat
  <2> DEFINE at(i) == Offset(PayloadHeartbeat, i)
  <2>3. at(1) = 0 /\ \A i \in 1 .. 7 : at(i + 1) = at(i) + PayloadHeartbeat[i][2]
    BY <2>1, OffsetsAre
  <2>4. SizeOf(PayloadHeartbeat) = at(8)
    BY <2>1, OffsetsAre, 7 + 1 = 8
  <2> HIDE DEF at
  <2>5. at(2) = 4
    BY <2>2, <2>3, 1 \in 1 .. 7, 1 + 1 = 2
  <2>6. at(3) = 8
    BY <2>5, <2>2, <2>3, 2 \in 1 .. 7, 2 + 1 = 3
  <2>7. at(4) = 9
    BY <2>6, <2>2, <2>3, 3 \in 1 .. 7, 3 + 1 = 4
  <2>8. at(5) = 10
    BY <2>7, <2>2, <2>3, 4 \in 1 .. 7, 4 + 1 = 5
  <2>9. at(6) = 12
    BY <2>8, <2>2, <2>3, 5 \in 1 .. 7, 5 + 1 = 6
  <2>10. at(7) = 14
    BY <2>9, <2>2, <2>3, 6 \in 1 .. 7, 6 + 1 = 7
  <2>11. at(8) = 16
    BY <2>10, <2>2, <2>3, 7 \in 1 .. 7, 7 + 1 = 8
  <2> QED
    BY <2>1, <2>4, <2>11
<1>3. PayloadTimeBeacon \in Layouts /\ SizeOf(PayloadTimeBeacon) = 16
  <2>1. PayloadTimeBeacon \in Layouts /\ Len(PayloadTimeBeacon) = 5
    BY DEF PayloadTimeBeacon, Layouts, FieldNames
  <2>2. PayloadTimeBeacon[1][2] = 8 /\ PayloadTimeBeacon[2][2] = 4 /\ PayloadTimeBeacon[3][2] = 1 /\ PayloadTimeBeacon[4][2] = 1 /\ PayloadTimeBeacon[5][2] = 2
    BY DEF PayloadTimeBeacon
  <2> DEFINE at(i) == Offset(PayloadTimeBeacon, i)
  <2>3. at(1) = 0 /\ \A i \in 1 .. 5 : at(i + 1) = at(i) + PayloadTimeBeacon[i][2]
    BY <2>1, OffsetsAre
  <2>4. SizeOf(PayloadTimeBeacon) = at(6)
    BY <2>1, OffsetsAre, 5 + 1 = 6
  <2> HIDE DEF at
  <2>5. at(2) = 8
    BY <2>2, <2>3, 1 \in 1 .. 5, 1 + 1 = 2
  <2>6. at(3) = 12
    BY <2>5, <2>2, <2>3, 2 \in 1 .. 5, 2 + 1 = 3
  <2>7. at(4) = 13
    BY <2>6, <2>2, <2>3, 3 \in 1 .. 5, 3 + 1 = 4
  <2>8. at(5) = 14
    BY <2>7, <2>2, <2>3, 4 \in 1 .. 5, 4 + 1 = 5
  <2>9. at(6) = 16
    BY <2>8, <2>2, <2>3, 5 \in 1 .. 5, 5 + 1 = 6
  <2> QED
    BY <2>1, <2>4, <2>9
<1>4. PayloadOtaBegin \in Layouts /\ SizeOf(PayloadOtaBegin) = 16
  <2>1. PayloadOtaBegin \in Layouts /\ Len(PayloadOtaBegin) = 5
    BY DEF PayloadOtaBegin, Layouts, FieldNames
  <2>2. PayloadOtaBegin[1][2] = 4 /\ PayloadOtaBegin[2][2] = 4 /\ PayloadOtaBegin[3][2] = 4 /\ PayloadOtaBegin[4][2] = 2 /\ PayloadOtaBegin[5][2] = 2
    BY DEF PayloadOtaBegin
  <2> DEFINE at(i) == Offset(PayloadOtaBegin, i)
  <2>3. at(1) = 0 /\ \A i \in 1 .. 5 : at(i + 1) = at(i) + PayloadOtaBegin[i][2]
    BY <2>1, OffsetsAre
  <2>4. SizeOf(PayloadOtaBegin) = at(6)
    BY <2>1, OffsetsAre, 5 + 1 = 6
  <2> HIDE DEF at
  <2>5. at(2) = 4
    BY <2>2, <2>3, 1 \in 1 .. 5, 1 + 1 = 2
  <2>6. at(3) = 8
    BY <2>5, <2>2, <2>3, 2 \in 1 .. 5, 2 + 1 = 3
  <2>7. at(4) = 12
    BY <2>6, <2>2, <2>3, 3 \in 1 .. 5, 3 + 1 = 4
  <2>8. at(5) = 14
    BY <2>7, <2>2, <2>3, 4 \in 1 .. 5, 4 + 1 = 5
  <2>9. at(6) = 16
    BY <2>8, <2>2, <2>3, 5 \in 1 .. 5, 5 + 1 = 6
  <2> QED
    BY <2>1, <2>4, <2>9
<1>5. PayloadTimeSync \in Layouts /\ SizeOf(PayloadTimeSync) = 32
  <2>1. PayloadTimeSync \in Layouts /\ Len(PayloadTimeSync) = 4
    BY DEF PayloadTimeSync, Layouts, FieldNames
  <2>2. PayloadTimeSync[1][2] = 8 /\ PayloadTimeSync[2][2] = 8 /\ PayloadTimeSync[3][2] = 8 /\ PayloadTimeSync[4][2] = 8
    BY DEF PayloadTimeSync
  <2> DEFINE at(i) == Offset(PayloadTimeSync, i)
  <2>3. at(1) = 0 /\ \A i \in 1 .. 4 : at(i + 1) = at(i) + PayloadTimeSync[i][2]
    BY <2>1, OffsetsAre
  <2>4. SizeOf(PayloadTimeSync) = at(5)
    BY <2>1, OffsetsAre, 4 + 1 = 5
  <2> HIDE DEF at
  <2>5. at(2) = 8
    BY <2>2, <2>3, 1 \in 1 .. 4, 1 + 1 = 2
  <2>6. at(3) = 16
    BY <2>5, <2>2, <2>3, 2 \in 1 .. 4, 2 + 1 = 3
  <2>7. at(4) = 24
    BY <2>6, <2>2, <2>3, 3 \in 1 .. 4, 3 + 1 = 4
  <2>8. at(5) = 32
    BY <2>7, <2>2, <2>3, 4 \in 1 .. 4, 4 + 1 = 5
  <2> QED
    BY <2>1, <2>4, <2>8
<1>6. StreamDescriptor \in Layouts /\ SizeOf(StreamDescriptor) = 32
  <2>1. StreamDescriptor \in Layouts /\ Len(StreamDescriptor) = 8
    BY DEF StreamDescriptor, Layouts, FieldNames
  <2>2. StreamDescriptor[1][2] = 4 /\ StreamDescriptor[2][2] = 16 /\ StreamDescriptor[3][2] = 2 /\ StreamDescriptor[4][2] = 2 /\ StreamDescriptor[5][2] = 2 /\ StreamDescriptor[6][2] = 2 /\ StreamDescriptor[7][2] = 1 /\ StreamDescriptor[8][2] = 3
    BY DEF StreamDescriptor
  <2> DEFINE at(i) == Offset(StreamDescriptor, i)
  <2>3. at(1) = 0 /\ \A i \in 1 .. 8 : at(i + 1) = at(i) + StreamDescriptor[i][2]
    BY <2>1, OffsetsAre
  <2>4. SizeOf(StreamDescriptor) = at(9)
    BY <2>1, OffsetsAre, 8 + 1 = 9
  <2> HIDE DEF at
  <2>5. at(2) = 4
    BY <2>2, <2>3, 1 \in 1 .. 8, 1 + 1 = 2
  <2>6. at(3) = 20
    BY <2>5, <2>2, <2>3, 2 \in 1 .. 8, 2 + 1 = 3
  <2>7. at(4) = 22
    BY <2>6, <2>2, <2>3, 3 \in 1 .. 8, 3 + 1 = 4
  <2>8. at(5) = 24
    BY <2>7, <2>2, <2>3, 4 \in 1 .. 8, 4 + 1 = 5
  <2>9. at(6) = 26
    BY <2>8, <2>2, <2>3, 5 \in 1 .. 8, 5 + 1 = 6
  <2>10. at(7) = 28
    BY <2>9, <2>2, <2>3, 6 \in 1 .. 8, 6 + 1 = 7
  <2>11. at(8) = 29
    BY <2>10, <2>2, <2>3, 7 \in 1 .. 8, 7 + 1 = 8
  <2>12. at(9) = 32
    BY <2>11, <2>2, <2>3, 8 \in 1 .. 8, 8 + 1 = 9
  <2> QED
    BY <2>1, <2>4, <2>12
<1>7. PayloadDiscoveryPong \in Layouts /\ SizeOf(PayloadDiscoveryPong) = 48
  <2>1. PayloadDiscoveryPong \in Layouts /\ Len(PayloadDiscoveryPong) = 11
    BY DEF PayloadDiscoveryPong, Layouts, FieldNames
  <2>2. PayloadDiscoveryPong[1][2] = 4 /\ PayloadDiscoveryPong[2][2] = 2 /\ PayloadDiscoveryPong[3][2] = 2 /\ PayloadDiscoveryPong[4][2] = 4 /\ PayloadDiscoveryPong[5][2] = 6 /\ PayloadDiscoveryPong[6][2] = 2 /\ PayloadDiscoveryPong[7][2] = 4 /\ PayloadDiscoveryPong[8][2] = 4 /\ PayloadDiscoveryPong[9][2] = 12 /\ PayloadDiscoveryPong[10][2] = 4 /\ PayloadDiscoveryPong[11][2] = 4
    BY DEF PayloadDiscoveryPong
  <2> DEFINE at(i) == Offset(PayloadDiscoveryPong, i)
  <2>3. at(1) = 0 /\ \A i \in 1 .. 11 : at(i + 1) = at(i) + PayloadDiscoveryPong[i][2]
    BY <2>1, OffsetsAre
  <2>4. SizeOf(PayloadDiscoveryPong) = at(12)
    BY <2>1, OffsetsAre, 11 + 1 = 12
  <2> HIDE DEF at
  <2>5. at(2) = 4
    BY <2>2, <2>3, 1 \in 1 .. 11, 1 + 1 = 2
  <2>6. at(3) = 6
    BY <2>5, <2>2, <2>3, 2 \in 1 .. 11, 2 + 1 = 3
  <2>7. at(4) = 8
    BY <2>6, <2>2, <2>3, 3 \in 1 .. 11, 3 + 1 = 4
  <2>8. at(5) = 12
    BY <2>7, <2>2, <2>3, 4 \in 1 .. 11, 4 + 1 = 5
  <2>9. at(6) = 18
    BY <2>8, <2>2, <2>3, 5 \in 1 .. 11, 5 + 1 = 6
  <2>10. at(7) = 20
    BY <2>9, <2>2, <2>3, 6 \in 1 .. 11, 6 + 1 = 7
  <2>11. at(8) = 24
    BY <2>10, <2>2, <2>3, 7 \in 1 .. 11, 7 + 1 = 8
  <2>12. at(9) = 28
    BY <2>11, <2>2, <2>3, 8 \in 1 .. 11, 8 + 1 = 9
  <2>13. at(10) = 40
    BY <2>12, <2>2, <2>3, 9 \in 1 .. 11, 9 + 1 = 10
  <2>14. at(11) = 44
    BY <2>13, <2>2, <2>3, 10 \in 1 .. 11, 10 + 1 = 11
  <2>15. at(12) = 48
    BY <2>14, <2>2, <2>3, 11 \in 1 .. 11, 11 + 1 = 12
  <2> QED
    BY <2>1, <2>4, <2>15
<1>8. PayloadOtaStatusResp \in Layouts /\ SizeOf(PayloadOtaStatusResp) = 12
  <2>1. PayloadOtaStatusResp \in Layouts /\ Len(PayloadOtaStatusResp) = 4
    BY DEF PayloadOtaStatusResp, Layouts, FieldNames
  <2>2. PayloadOtaStatusResp[1][2] = 4 /\ PayloadOtaStatusResp[2][2] = 4 /\ PayloadOtaStatusResp[3][2] = 2 /\ PayloadOtaStatusResp[4][2] = 2
    BY DEF PayloadOtaStatusResp
  <2> DEFINE at(i) == Offset(PayloadOtaStatusResp, i)
  <2>3. at(1) = 0 /\ \A i \in 1 .. 4 : at(i + 1) = at(i) + PayloadOtaStatusResp[i][2]
    BY <2>1, OffsetsAre
  <2>4. SizeOf(PayloadOtaStatusResp) = at(5)
    BY <2>1, OffsetsAre, 4 + 1 = 5
  <2> HIDE DEF at
  <2>5. at(2) = 4
    BY <2>2, <2>3, 1 \in 1 .. 4, 1 + 1 = 2
  <2>6. at(3) = 8
    BY <2>5, <2>2, <2>3, 2 \in 1 .. 4, 2 + 1 = 3
  <2>7. at(4) = 10
    BY <2>6, <2>2, <2>3, 3 \in 1 .. 4, 3 + 1 = 4
  <2>8. at(5) = 12
    BY <2>7, <2>2, <2>3, 4 \in 1 .. 4, 4 + 1 = 5
  <2> QED
    BY <2>1, <2>4, <2>8
<1>9. OtaControlBlock \in Layouts /\ SizeOf(OtaControlBlock) = 32
  <2>1. OtaControlBlock \in Layouts /\ Len(OtaControlBlock) = 8
    BY DEF OtaControlBlock, Layouts, FieldNames
  <2>2. OtaControlBlock[1][2] = 4 /\ OtaControlBlock[2][2] = 4 /\ OtaControlBlock[3][2] = 4 /\ OtaControlBlock[4][2] = 4 /\ OtaControlBlock[5][2] = 4 /\ OtaControlBlock[6][2] = 4 /\ OtaControlBlock[7][2] = 4 /\ OtaControlBlock[8][2] = 4
    BY DEF OtaControlBlock
  <2> DEFINE at(i) == Offset(OtaControlBlock, i)
  <2>3. at(1) = 0 /\ \A i \in 1 .. 8 : at(i + 1) = at(i) + OtaControlBlock[i][2]
    BY <2>1, OffsetsAre
  <2>4. SizeOf(OtaControlBlock) = at(9)
    BY <2>1, OffsetsAre, 8 + 1 = 9
  <2> HIDE DEF at
  <2>5. at(2) = 4
    BY <2>2, <2>3, 1 \in 1 .. 8, 1 + 1 = 2
  <2>6. at(3) = 8
    BY <2>5, <2>2, <2>3, 2 \in 1 .. 8, 2 + 1 = 3
  <2>7. at(4) = 12
    BY <2>6, <2>2, <2>3, 3 \in 1 .. 8, 3 + 1 = 4
  <2>8. at(5) = 16
    BY <2>7, <2>2, <2>3, 4 \in 1 .. 8, 4 + 1 = 5
  <2>9. at(6) = 20
    BY <2>8, <2>2, <2>3, 5 \in 1 .. 8, 5 + 1 = 6
  <2>10. at(7) = 24
    BY <2>9, <2>2, <2>3, 6 \in 1 .. 8, 6 + 1 = 7
  <2>11. at(8) = 28
    BY <2>10, <2>2, <2>3, 7 \in 1 .. 8, 7 + 1 = 8
  <2>12. at(9) = 32
    BY <2>11, <2>2, <2>3, 8 \in 1 .. 8, 8 + 1 = 9
  <2> QED
    BY <2>1, <2>4, <2>12
<1>10. BootInfo \in Layouts /\ SizeOf(BootInfo) = 32
  <2>1. BootInfo \in Layouts /\ Len(BootInfo) = 7
    BY DEF BootInfo, Layouts, FieldNames
  <2>2. BootInfo[1][2] = 4 /\ BootInfo[2][2] = 4 /\ BootInfo[3][2] = 4 /\ BootInfo[4][2] = 4 /\ BootInfo[5][2] = 4 /\ BootInfo[6][2] = 8 /\ BootInfo[7][2] = 4
    BY DEF BootInfo
  <2> DEFINE at(i) == Offset(BootInfo, i)
  <2>3. at(1) = 0 /\ \A i \in 1 .. 7 : at(i + 1) = at(i) + BootInfo[i][2]
    BY <2>1, OffsetsAre
  <2>4. SizeOf(BootInfo) = at(8)
    BY <2>1, OffsetsAre, 7 + 1 = 8
  <2> HIDE DEF at
  <2>5. at(2) = 4
    BY <2>2, <2>3, 1 \in 1 .. 7, 1 + 1 = 2
  <2>6. at(3) = 8
    BY <2>5, <2>2, <2>3, 2 \in 1 .. 7, 2 + 1 = 3
  <2>7. at(4) = 12
    BY <2>6, <2>2, <2>3, 3 \in 1 .. 7, 3 + 1 = 4
  <2>8. at(5) = 16
    BY <2>7, <2>2, <2>3, 4 \in 1 .. 7, 4 + 1 = 5
  <2>9. at(6) = 20
    BY <2>8, <2>2, <2>3, 5 \in 1 .. 7, 5 + 1 = 6
  <2>10. at(7) = 28
    BY <2>9, <2>2, <2>3, 6 \in 1 .. 7, 6 + 1 = 7
  <2>11. at(8) = 32
    BY <2>10, <2>2, <2>3, 7 \in 1 .. 7, 7 + 1 = 8
  <2> QED
    BY <2>1, <2>4, <2>11
<1>11. AppImageHeader \in Layouts /\ SizeOf(AppImageHeader) = 64
  <2>1. AppImageHeader \in Layouts /\ Len(AppImageHeader) = 12
    BY DEF AppImageHeader, Layouts, FieldNames
  <2>2. AppImageHeader[1][2] = 4 /\ AppImageHeader[2][2] = 2 /\ AppImageHeader[3][2] = 2 /\ AppImageHeader[4][2] = 4 /\ AppImageHeader[5][2] = 4 /\ AppImageHeader[6][2] = 4 /\ AppImageHeader[7][2] = 4 /\ AppImageHeader[8][2] = 4 /\ AppImageHeader[9][2] = 4 /\ AppImageHeader[10][2] = 4 /\ AppImageHeader[11][2] = 24 /\ AppImageHeader[12][2] = 4
    BY DEF AppImageHeader
  <2> DEFINE at(i) == Offset(AppImageHeader, i)
  <2>3. at(1) = 0 /\ \A i \in 1 .. 12 : at(i + 1) = at(i) + AppImageHeader[i][2]
    BY <2>1, OffsetsAre
  <2>4. SizeOf(AppImageHeader) = at(13)
    BY <2>1, OffsetsAre, 12 + 1 = 13
  <2> HIDE DEF at
  <2>5. at(2) = 4
    BY <2>2, <2>3, 1 \in 1 .. 12, 1 + 1 = 2
  <2>6. at(3) = 6
    BY <2>5, <2>2, <2>3, 2 \in 1 .. 12, 2 + 1 = 3
  <2>7. at(4) = 8
    BY <2>6, <2>2, <2>3, 3 \in 1 .. 12, 3 + 1 = 4
  <2>8. at(5) = 12
    BY <2>7, <2>2, <2>3, 4 \in 1 .. 12, 4 + 1 = 5
  <2>9. at(6) = 16
    BY <2>8, <2>2, <2>3, 5 \in 1 .. 12, 5 + 1 = 6
  <2>10. at(7) = 20
    BY <2>9, <2>2, <2>3, 6 \in 1 .. 12, 6 + 1 = 7
  <2>11. at(8) = 24
    BY <2>10, <2>2, <2>3, 7 \in 1 .. 12, 7 + 1 = 8
  <2>12. at(9) = 28
    BY <2>11, <2>2, <2>3, 8 \in 1 .. 12, 8 + 1 = 9
  <2>13. at(10) = 32
    BY <2>12, <2>2, <2>3, 9 \in 1 .. 12, 9 + 1 = 10
  <2>14. at(11) = 36
    BY <2>13, <2>2, <2>3, 10 \in 1 .. 12, 10 + 1 = 11
  <2>15. at(12) = 60
    BY <2>14, <2>2, <2>3, 11 \in 1 .. 12, 11 + 1 = 12
  <2>16. at(13) = 64
    BY <2>15, <2>2, <2>3, 12 \in 1 .. 12, 12 + 1 = 13
  <2> QED
    BY <2>1, <2>4, <2>16
<1>12. HostData \in Layouts /\ SizeOf(HostData) = 8
  <2>1. HostData \in Layouts /\ Len(HostData) = 3
    BY DEF HostData, Layouts, FieldNames
  <2>2. HostData[1][2] = 4 /\ HostData[2][2] = 2 /\ HostData[3][2] = 2
    BY DEF HostData
  <2> DEFINE at(i) == Offset(HostData, i)
  <2>3. at(1) = 0 /\ \A i \in 1 .. 3 : at(i + 1) = at(i) + HostData[i][2]
    BY <2>1, OffsetsAre
  <2>4. SizeOf(HostData) = at(4)
    BY <2>1, OffsetsAre, 3 + 1 = 4
  <2> HIDE DEF at
  <2>5. at(2) = 4
    BY <2>2, <2>3, 1 \in 1 .. 3, 1 + 1 = 2
  <2>6. at(3) = 6
    BY <2>5, <2>2, <2>3, 2 \in 1 .. 3, 2 + 1 = 3
  <2>7. at(4) = 8
    BY <2>6, <2>2, <2>3, 3 \in 1 .. 3, 3 + 1 = 4
  <2> QED
    BY <2>1, <2>4, <2>7
<1>13. HostCli \in Layouts /\ SizeOf(HostCli) = 4
  <2>1. HostCli \in Layouts /\ Len(HostCli) = 2
    BY DEF HostCli, Layouts, FieldNames
  <2>2. HostCli[1][2] = 2 /\ HostCli[2][2] = 2
    BY DEF HostCli
  <2> DEFINE at(i) == Offset(HostCli, i)
  <2>3. at(1) = 0 /\ \A i \in 1 .. 2 : at(i + 1) = at(i) + HostCli[i][2]
    BY <2>1, OffsetsAre
  <2>4. SizeOf(HostCli) = at(3)
    BY <2>1, OffsetsAre, 2 + 1 = 3
  <2> HIDE DEF at
  <2>5. at(2) = 2
    BY <2>2, <2>3, 1 \in 1 .. 2, 1 + 1 = 2
  <2>6. at(3) = 4
    BY <2>5, <2>2, <2>3, 2 \in 1 .. 2, 2 + 1 = 3
  <2> QED
    BY <2>1, <2>4, <2>6
<1>14. PayloadCliExec \in Layouts /\ SizeOf(PayloadCliExec) = 4
  <2>1. PayloadCliExec \in Layouts /\ Len(PayloadCliExec) = 2
    BY DEF PayloadCliExec, Layouts, FieldNames
  <2>2. PayloadCliExec[1][2] = 2 /\ PayloadCliExec[2][2] = 2
    BY DEF PayloadCliExec
  <2> DEFINE at(i) == Offset(PayloadCliExec, i)
  <2>3. at(1) = 0 /\ \A i \in 1 .. 2 : at(i + 1) = at(i) + PayloadCliExec[i][2]
    BY <2>1, OffsetsAre
  <2>4. SizeOf(PayloadCliExec) = at(3)
    BY <2>1, OffsetsAre, 2 + 1 = 3
  <2> HIDE DEF at
  <2>5. at(2) = 2
    BY <2>2, <2>3, 1 \in 1 .. 2, 1 + 1 = 2
  <2>6. at(3) = 4
    BY <2>5, <2>2, <2>3, 2 \in 1 .. 2, 2 + 1 = 3
  <2> QED
    BY <2>1, <2>4, <2>6
<1>15. StreamPayloadHeader \in Layouts /\ SizeOf(StreamPayloadHeader) = 20
  <2>1. StreamPayloadHeader \in Layouts /\ Len(StreamPayloadHeader) = 6
    BY DEF StreamPayloadHeader, Layouts, FieldNames
  <2>2. StreamPayloadHeader[1][2] = 8 /\ StreamPayloadHeader[2][2] = 4 /\ StreamPayloadHeader[3][2] = 2 /\ StreamPayloadHeader[4][2] = 2 /\ StreamPayloadHeader[5][2] = 2 /\ StreamPayloadHeader[6][2] = 2
    BY DEF StreamPayloadHeader
  <2> DEFINE at(i) == Offset(StreamPayloadHeader, i)
  <2>3. at(1) = 0 /\ \A i \in 1 .. 6 : at(i + 1) = at(i) + StreamPayloadHeader[i][2]
    BY <2>1, OffsetsAre
  <2>4. SizeOf(StreamPayloadHeader) = at(7)
    BY <2>1, OffsetsAre, 6 + 1 = 7
  <2> HIDE DEF at
  <2>5. at(2) = 8
    BY <2>2, <2>3, 1 \in 1 .. 6, 1 + 1 = 2
  <2>6. at(3) = 12
    BY <2>5, <2>2, <2>3, 2 \in 1 .. 6, 2 + 1 = 3
  <2>7. at(4) = 14
    BY <2>6, <2>2, <2>3, 3 \in 1 .. 6, 3 + 1 = 4
  <2>8. at(5) = 16
    BY <2>7, <2>2, <2>3, 4 \in 1 .. 6, 4 + 1 = 5
  <2>9. at(6) = 18
    BY <2>8, <2>2, <2>3, 5 \in 1 .. 6, 5 + 1 = 6
  <2>10. at(7) = 20
    BY <2>9, <2>2, <2>3, 6 \in 1 .. 6, 6 + 1 = 7
  <2> QED
    BY <2>1, <2>4, <2>10
<1>16. HostPongFormat \in Layouts /\ SizeOf(HostPongFormat) = 48
  <2>1. HostPongFormat \in Layouts /\ Len(HostPongFormat) = 18
    BY DEF HostPongFormat, Layouts, FieldNames
  <2>2. HostPongFormat[1][2] = 4 /\ HostPongFormat[2][2] = 2 /\ HostPongFormat[3][2] = 2 /\ HostPongFormat[4][2] = 4 /\ HostPongFormat[5][2] = 1 /\ HostPongFormat[6][2] = 1 /\ HostPongFormat[7][2] = 1 /\ HostPongFormat[8][2] = 1 /\ HostPongFormat[9][2] = 1 /\ HostPongFormat[10][2] = 1 /\ HostPongFormat[11][2] = 2 /\ HostPongFormat[12][2] = 4 /\ HostPongFormat[13][2] = 4 /\ HostPongFormat[14][2] = 4 /\ HostPongFormat[15][2] = 4 /\ HostPongFormat[16][2] = 4 /\ HostPongFormat[17][2] = 4 /\ HostPongFormat[18][2] = 4
    BY DEF HostPongFormat
  <2> DEFINE at(i) == Offset(HostPongFormat, i)
  <2>3. at(1) = 0 /\ \A i \in 1 .. 18 : at(i + 1) = at(i) + HostPongFormat[i][2]
    BY <2>1, OffsetsAre
  <2>4. SizeOf(HostPongFormat) = at(19)
    BY <2>1, OffsetsAre, 18 + 1 = 19
  <2> HIDE DEF at
  <2>5. at(2) = 4
    BY <2>2, <2>3, 1 \in 1 .. 18, 1 + 1 = 2
  <2>6. at(3) = 6
    BY <2>5, <2>2, <2>3, 2 \in 1 .. 18, 2 + 1 = 3
  <2>7. at(4) = 8
    BY <2>6, <2>2, <2>3, 3 \in 1 .. 18, 3 + 1 = 4
  <2>8. at(5) = 12
    BY <2>7, <2>2, <2>3, 4 \in 1 .. 18, 4 + 1 = 5
  <2>9. at(6) = 13
    BY <2>8, <2>2, <2>3, 5 \in 1 .. 18, 5 + 1 = 6
  <2>10. at(7) = 14
    BY <2>9, <2>2, <2>3, 6 \in 1 .. 18, 6 + 1 = 7
  <2>11. at(8) = 15
    BY <2>10, <2>2, <2>3, 7 \in 1 .. 18, 7 + 1 = 8
  <2>12. at(9) = 16
    BY <2>11, <2>2, <2>3, 8 \in 1 .. 18, 8 + 1 = 9
  <2>13. at(10) = 17
    BY <2>12, <2>2, <2>3, 9 \in 1 .. 18, 9 + 1 = 10
  <2>14. at(11) = 18
    BY <2>13, <2>2, <2>3, 10 \in 1 .. 18, 10 + 1 = 11
  <2>15. at(12) = 20
    BY <2>14, <2>2, <2>3, 11 \in 1 .. 18, 11 + 1 = 12
  <2>16. at(13) = 24
    BY <2>15, <2>2, <2>3, 12 \in 1 .. 18, 12 + 1 = 13
  <2>17. at(14) = 28
    BY <2>16, <2>2, <2>3, 13 \in 1 .. 18, 13 + 1 = 14
  <2>18. at(15) = 32
    BY <2>17, <2>2, <2>3, 14 \in 1 .. 18, 14 + 1 = 15
  <2>19. at(16) = 36
    BY <2>18, <2>2, <2>3, 15 \in 1 .. 18, 15 + 1 = 16
  <2>20. at(17) = 40
    BY <2>19, <2>2, <2>3, 16 \in 1 .. 18, 16 + 1 = 17
  <2>21. at(18) = 44
    BY <2>20, <2>2, <2>3, 17 \in 1 .. 18, 17 + 1 = 18
  <2>22. at(19) = 48
    BY <2>21, <2>2, <2>3, 18 \in 1 .. 18, 18 + 1 = 19
  <2> QED
    BY <2>1, <2>4, <2>22
<1>17. PayloadGetStreamsResp \in Layouts /\ SizeOf(PayloadGetStreamsResp) = 4
  <2>1. PayloadGetStreamsResp \in Layouts /\ Len(PayloadGetStreamsResp) = 2
    BY DEF PayloadGetStreamsResp, Layouts, FieldNames
  <2>2. PayloadGetStreamsResp[1][2] = 2 /\ PayloadGetStreamsResp[2][2] = 2
    BY DEF PayloadGetStreamsResp
  <2> DEFINE at(i) == Offset(PayloadGetStreamsResp, i)
  <2>3. at(1) = 0 /\ \A i \in 1 .. 2 : at(i + 1) = at(i) + PayloadGetStreamsResp[i][2]
    BY <2>1, OffsetsAre
  <2>4. SizeOf(PayloadGetStreamsResp) = at(3)
    BY <2>1, OffsetsAre, 2 + 1 = 3
  <2> HIDE DEF at
  <2>5. at(2) = 2
    BY <2>2, <2>3, 1 \in 1 .. 2, 1 + 1 = 2
  <2>6. at(3) = 4
    BY <2>5, <2>2, <2>3, 2 \in 1 .. 2, 2 + 1 = 3
  <2> QED
    BY <2>1, <2>4, <2>6
<1>18. ViewDescriptor \in Layouts /\ SizeOf(ViewDescriptor) = 29
  <2>1. ViewDescriptor \in Layouts /\ Len(ViewDescriptor) = 7
    BY DEF ViewDescriptor, Layouts, FieldNames
  <2>2. ViewDescriptor[1][2] = 4 /\ ViewDescriptor[2][2] = 16 /\ ViewDescriptor[3][2] = 2 /\ ViewDescriptor[4][2] = 2 /\ ViewDescriptor[5][2] = 2 /\ ViewDescriptor[6][2] = 2 /\ ViewDescriptor[7][2] = 1
    BY DEF ViewDescriptor
  <2> DEFINE at(i) == Offset(ViewDescriptor, i)
  <2>3. at(1) = 0 /\ \A i \in 1 .. 7 : at(i + 1) = at(i) + ViewDescriptor[i][2]
    BY <2>1, OffsetsAre
  <2>4. SizeOf(ViewDescriptor) = at(8)
    BY <2>1, OffsetsAre, 7 + 1 = 8
  <2> HIDE DEF at
  <2>5. at(2) = 4
    BY <2>2, <2>3, 1 \in 1 .. 7, 1 + 1 = 2
  <2>6. at(3) = 20
    BY <2>5, <2>2, <2>3, 2 \in 1 .. 7, 2 + 1 = 3
  <2>7. at(4) = 22
    BY <2>6, <2>2, <2>3, 3 \in 1 .. 7, 3 + 1 = 4
  <2>8. at(5) = 24
    BY <2>7, <2>2, <2>3, 4 \in 1 .. 7, 4 + 1 = 5
  <2>9. at(6) = 26
    BY <2>8, <2>2, <2>3, 5 \in 1 .. 7, 5 + 1 = 6
  <2>10. at(7) = 28
    BY <2>9, <2>2, <2>3, 6 \in 1 .. 7, 6 + 1 = 7
  <2>11. at(8) = 29
    BY <2>10, <2>2, <2>3, 7 \in 1 .. 7, 7 + 1 = 8
  <2> QED
    BY <2>1, <2>4, <2>11
<1> QED
  BY <1>1, <1>2, <1>3, <1>4, <1>5, <1>6, <1>7, <1>8, <1>9, <1>10, <1>11, <1>12, <1>13, <1>14, <1>15, <1>16, <1>17, <1>18

LEMMA NoneIsMistaken == NothingIsMistaken
<1>1. ASSUME NEW m \in {"DISCOVERY_PONG", "CMD_GET_NODE_INFO_RESP"}
      PROVE  SizeOf(HostPongFormat) = SizeOf(NodeWrites[m])
  <2>1. NodeWrites[m] = PayloadDiscoveryPong
    BY DEF NodeWrites
  <2> QED
    BY <2>1, SizesAre
<1>2. Len(HostPongFormat) > Len(HostPongNames)
  BY DEF HostPongFormat, HostPongNames
<1>3. IsPrefix(BytesOf(HostImageHeader), BytesOf(AppImageHeader))
  BY HostImageHeaderIsStart, PrefixOfBytes
<1>4. APP_HEADER_OFFSET + HostHeaderBytes <= APP_HEADER_FLASH_OFFSET
  BY DEF APP_HEADER_OFFSET, HostHeaderBytes, APP_HEADER_FLASH_OFFSET
<1> QED
  BY <1>1, <1>2, <1>3, <1>4 DEF NothingIsMistaken

LEMMA TheSizesAreAsserted == SizesAreAsserted
<1>1. /\ OtaControlBlock[Len(OtaControlBlock)] = <<"struct_crc32", 4>>
      /\ BootInfo[Len(BootInfo)] = <<"struct_crc32", 4>>
      /\ AppImageHeader[Len(AppImageHeader)] = <<"header_crc32", 4>>
  BY DEF OtaControlBlock, BootInfo, AppImageHeader
<1> QED
  BY <1>1, SizesAre DEF SizesAreAsserted

LEMMA TheCodesAgree == CodesAgree
<1>1. SameCodes(HostCodes, MessageType)
  BY DEF SameCodes, HostCodes, MessageType
<1>2. SameCodes(ViewCodes, MessageType)
  BY DEF SameCodes, ViewCodes, MessageType
<1>3. SameCodes(HostStatus, StatusCode)
  BY DEF SameCodes, HostStatus, StatusCode
<1>4. SameCodes(HostFlags, PacketFlags)
  BY DEF SameCodes, HostFlags, PacketFlags
<1>5. SameCodes(HostPorts, Ports) /\ SameCodes(ViewPorts, Ports)
  BY DEF SameCodes, HostPorts, ViewPorts, Ports
<1>6. \A m, n \in DOMAIN MessageType : MessageType[m] = MessageType[n] => m = n
  BY SMTT(60) DEF MessageType
<1>7. \A m \in DOMAIN HostExpects : HostExpects[m] = AnswerTo[m]
  BY DEF HostExpects, AnswerTo
<1> QED
  BY <1>1, <1>2, <1>3, <1>4, <1>5, <1>6, <1>7 DEF CodesAgree

LEMMA TheFramesAreWhole == FramesAreWhole
<1>1. SUFFICES ASSUME NEW m \in DOMAIN HandlerReads
               PROVE  LET size == SizeOf(HandlerReads[m])
                          hdr == PopulateHeader(m, size)
                          whole == SizeOf(PE_Header) + size
                      IN  /\ \A received \in 0 .. whole + 1 :
                               ValidateHeader(hdr, received) = "OK" <=> received >= whole
                          /\ \A other \in {[hdr EXCEPT !.magic = 0], [hdr EXCEPT !.version = 2]} :
                               ValidateHeader(other, whole) # "OK"
                          /\ ValidatePayloadCrc(hdr, 1)
  BY DEF FramesAreWhole
<1> DEFINE size == SizeOf(HandlerReads[m])
           hdr == PopulateHeader(m, size)
<1>2. HandlerReads[m] \in Layouts
  <2>1. PayloadOtaData \in Layouts /\ PayloadOtaEnd \in Layouts /\ <<>> \in Layouts
    BY DEF PayloadOtaData, PayloadOtaEnd, Layouts, FieldNames
  <2>2. PayloadCommand \in Layouts /\ PayloadDiscoveryPing \in Layouts
    BY DEF PayloadCommand, PayloadDiscoveryPing, Layouts, FieldNames
  <2> QED
    BY <2>1, <2>2, SizesAre DEF HandlerReads
<1>3. size \in Nat
  BY <1>2, OffsetsAre
<1>4. SizeOf(PE_Header) = 16
  BY SizesAre
<1> HIDE DEF size
<1>5. /\ hdr.magic = PE_MAGIC /\ hdr.version = PE_PROTOCOL_VERSION /\ hdr.payload_len = size /\ hdr.crc16 = 0
      /\ [hdr EXCEPT !.magic = 0].magic = 0
      /\ [hdr EXCEPT !.version = 2].version = 2
  BY DEF PopulateHeader
<1> HIDE DEF hdr
<1>6. \A received \in 0 .. (16 + size) + 1 : ValidateHeader(hdr, received) = "OK" <=> received >= 16 + size
  BY <1>3, <1>4, <1>5 DEF ValidateHeader
<1>7. PE_MAGIC # 0 /\ PE_PROTOCOL_VERSION # 2
  BY DEF PE_MAGIC, PE_PROTOCOL_VERSION
<1>8. /\ ValidateHeader([hdr EXCEPT !.magic = 0], 16 + size) # "OK"
      /\ ValidateHeader([hdr EXCEPT !.version = 2], 16 + size) # "OK"
  BY <1>5, <1>7 DEF ValidateHeader
<1>9. ValidatePayloadCrc(hdr, 1)
  BY <1>5 DEF ValidatePayloadCrc
<1>10. /\ \A received \in 0 .. (SizeOf(PE_Header) + size) + 1 :
            ValidateHeader(hdr, received) = "OK" <=> received >= SizeOf(PE_Header) + size
       /\ \A other \in {[hdr EXCEPT !.magic = 0], [hdr EXCEPT !.version = 2]} :
            ValidateHeader(other, SizeOf(PE_Header) + size) # "OK"
       /\ ValidatePayloadCrc(hdr, 1)
  BY <1>4, <1>6, <1>8, <1>9
<1> QED
  BY <1>10 DEF hdr, size

LEMMA TheVersionsAreOrdered == VersionsAreOrdered
<1>1. \A v \in SampleVersions : v \in VersionNumbers
  BY DEF SampleVersions, VersionNumbers
<1> QED
  BY <1>1, WordsAreOrdered, WordsAreShown DEF VersionsAreOrdered

LEMMA TheFeaturesAreNamed == FeaturesAreNamed
<1>1. \A f, g \in Flags : FeatureBit[f] < 16 /\ (FeatureBit[f] = FeatureBit[g] => f = g)
  BY SMTT(30) DEF Flags, FeatureBit
<1>2. \A f \in DOMAIN HostFeatureBit : HostFeatureBit[f] = FeatureBit[f]
  BY DEF HostFeatureBit, FeatureBit
<1>3. \A name \in DOMAIN FeatureNames \ {"time"} : get_feature_name[parse_feature_name(name)] = name
  BY SMTT(30) DEF FeatureNames, get_feature_name, parse_feature_name
<1>4. {f \in Flags : parse_feature_name(get_feature_name[f]) = "NONE"}
        = {"FEAT_OTA_DUAL_BANK", "FEAT_COMPRESSION_LZ4", "FEAT_SECURE_BOOT"}
  BY SMTT(30) DEF FeatureNames, get_feature_name, parse_feature_name, Flags, FeatureBit
<1> QED
  BY <1>1, <1>2, <1>3, <1>4 DEF FeaturesAreNamed

\* The descriptors of a list, one behind the other.
ListRun(f, count) ==
  /\ f \in [0 .. count -> Layouts]
  /\ f[0] = <<>>
  /\ \A i \in 1 .. count : f[i] = f[i - 1] \o StreamDescriptor

LEMMA ListUnfolds ==
  ASSUME NEW count \in Nat \ {0}
  PROVE  \E f : ListRun(f, count) /\ StreamList(count) = PayloadGetStreamsResp \o f[count]
<1> DEFINE D == StreamDescriptor
           seqs == [i \in 1 .. count |-> D]
           G == [p \in Layouts \X (1 .. count) |-> p[1] \o D]
           Body(f) == [i \in 1 .. count |-> IF i = 1 THEN seqs[i] ELSE f[i - 1] \o seqs[i]]
           flatten == CHOOSE f : f = Body(f)
<1>1. D \in Layouts /\ \A a \in Layouts : a \o D \in Layouts
  BY SizesAre, OffsetsJoin
<1>2. Len(seqs) = count /\ DOMAIN seqs = 1 .. count /\ \A i \in 1 .. count : seqs[i] = D
  BY DEF Layouts
<1> HIDE DEF D
<1>3. StreamList(count) = PayloadGetStreamsResp \o flatten[count]
  <2>1. FlattenSeq(seqs) = flatten[count]
    BY <1>2 DEF FlattenSeq
  <2> QED
    BY <2>1 DEF StreamList, D
<1> HIDE DEF seqs
<1>4. G \in Turns(Layouts, count)
  BY <1>1 DEF Turns
<1>5. \A c \in Layouts, i \in 1 .. count : G[<<c, i>>] = c \o D
  OBVIOUS
<1>6. <<>> \in Layouts
  BY DEF Layouts
<1> HIDE DEF G
<1>7. PICK f : f \in [0 .. count -> Layouts] /\ f[0] = <<>> /\ \A i \in 1 .. count : f[i] = G[<<f[i - 1], i>>]
  <2>1. \E f : History(f, Layouts, <<>>, count, G)
    BY <1>4, <1>6, LoopExists
  <2> QED
    BY <2>1 DEF History
<1>8. \A i \in 1 .. count : f[i] = f[i - 1] \o D
  <2>1. TAKE i \in 1 .. count
  <2>2. i - 1 \in 0 .. count
    OBVIOUS
  <2> QED
    BY <2>2, <1>5, <1>7
<1>9. f[1] = D
  <2>1. <<>> \o D = D
    BY <1>1 DEF Layouts
  <2>2. 1 \in 1 .. count /\ 1 - 1 = 0
    OBVIOUS
  <2> QED
    BY <1>7, <1>8, <2>1, <2>2
<1> DEFINE g == [i \in 1 .. count |-> f[i]]
<1>10. g = Body(g)
  <2>1. \A i \in 1 .. count : g[i] = IF i = 1 THEN seqs[i] ELSE g[i - 1] \o seqs[i]
    <3>1. TAKE i \in 1 .. count
    <3>2. CASE i = 1
      BY <1>2, <1>9, <3>2
    <3>3. CASE i # 1
      <4>1. i - 1 \in 1 .. count
        BY <3>3
      <4> QED
        BY <1>2, <1>8, <3>3, <4>1
    <3> QED
      BY <3>2, <3>3
  <2> QED
    BY <2>1
<1>11. flatten = Body(flatten)
  BY <1>10
<1> HIDE DEF flatten
<1>12. flatten[1] = D /\ \A i \in 1 .. count : i # 1 => flatten[i] = flatten[i - 1] \o D
  <2>1. 1 \in 1 .. count
    OBVIOUS
  <2>2. \A i \in 1 .. count : Body(flatten)[i] = IF i = 1 THEN seqs[i] ELSE flatten[i - 1] \o seqs[i]
    OBVIOUS
  <2> HIDE DEF Body
  <2> QED
    BY <1>2, <1>11, <2>1, <2>2
<1> DEFINE h == [i \in 0 .. count |-> IF i = 0 THEN <<>> ELSE flatten[i]]
<1>13. h[0] = <<>> /\ \A i \in 1 .. count : h[i] = flatten[i]
  OBVIOUS
<1> HIDE DEF h
<1>14. StartsLike(f, h, count)
  <2>1. ASSUME NEW i \in 1 .. count, f[i - 1] = h[i - 1] PROVE f[i] = h[i]
    <3>1. CASE i = 1
      BY <1>9, <1>12, <1>13, <3>1
    <3>2. CASE i # 1
      <4>1. i - 1 \in 1 .. count
        BY <3>2
      <4> QED
        BY <1>8, <1>12, <1>13, <2>1, <3>2, <4>1
    <3> QED
      BY <3>1, <3>2
  <2> QED
    BY <1>7, <1>13, <2>1 DEF StartsLike
<1>15. f[count] = flatten[count]
  <2>1. Like(f, h, count)
    BY <1>14, LoopUnique
  <2>2. count \in 0 .. count /\ count \in 1 .. count
    OBVIOUS
  <2> QED
    BY <1>13, <2>1, <2>2 DEF Like
<1> QED
  BY <1>3, <1>7, <1>8, <1>15 DEF ListRun, D

LEMMA ListBytes ==
  ASSUME NEW count \in Nat \ {0}, NEW f, ListRun(f, count)
  PROVE  /\ f[count] \in Layouts /\ SizeOf(f[count]) = 32 * count
         /\ \A k \in 1 .. count : \A j \in 1 .. 32 :
              BytesOf(f[count])[32 * (k - 1) + j] = BytesOf(StreamDescriptor)[j]
<1> DEFINE D == StreamDescriptor
           Good(i) == /\ SizeOf(f[i]) = 32 * i
                      /\ \A k \in 1 .. i : \A j \in 1 .. 32 : BytesOf(f[i])[32 * (k - 1) + j] = BytesOf(D)[j]
           S == {i \in 0 .. count : Good(i)}
<1>1. D \in Layouts /\ SizeOf(D) = 32 /\ BytesOf(D) \in Seq(FieldNames \X Int) /\ Len(BytesOf(D)) = 32
  BY SizesAre, BytesAre
<1> HIDE DEF D
<1>2. f \in [0 .. count -> Layouts] /\ f[0] = <<>> /\ \A i \in 1 .. count : f[i] = f[i - 1] \o D
  BY DEF ListRun, D
<1>3. Good(0)
  <2>1. SizeOf(<<>>) = 0
    <3>1. <<>> \in Layouts /\ Len(<<>>) = 0
      BY DEF Layouts
    <3> QED
      BY <3>1, OffsetsAre
  <2> QED
    BY <1>2, <2>1
<1>4. ASSUME NEW i \in 0 .. count - 1, Good(i) PROVE Good(i + 1)
  <2> DEFINE a == f[i]
  <2>1. a \in Layouts /\ f[i + 1] = a \o D
    <3>1. i \in 0 .. count /\ i + 1 \in 1 .. count /\ (i + 1) - 1 = i
      OBVIOUS
    <3> QED
      BY <1>2, <3>1
  <2>2. SizeOf(a) = 32 * i /\ \A k \in 1 .. i : \A j \in 1 .. 32 : BytesOf(a)[32 * (k - 1) + j] = BytesOf(D)[j]
    BY <1>4
  <2> HIDE DEF a
  <2>3. SizeOf(a \o D) = SizeOf(a) + SizeOf(D) /\ BytesOf(a \o D) = BytesOf(a) \o BytesOf(D)
    BY <1>1, <2>1, OffsetsJoin, BytesJoin
  <2>4. BytesOf(a) \in Seq(FieldNames \X Int) /\ Len(BytesOf(a)) = 32 * i
    BY <2>1, <2>2, BytesAre
  <2>5. /\ \A n \in 1 .. 32 * i : BytesOf(a \o D)[n] = BytesOf(a)[n]
        /\ \A n \in 1 .. 32 : BytesOf(a \o D)[32 * i + n] = BytesOf(D)[n]
    <3>1. IsJoined(BytesOf(a) \o BytesOf(D), BytesOf(a), BytesOf(D), FieldNames \X Int)
      BY <1>1, <2>4, Joined
    <3> QED
      BY <1>1, <2>3, <2>4, <3>1 DEF IsJoined
  <2>6. SizeOf(a \o D) = 32 * (i + 1)
    BY <1>1, <2>2, <2>3
  <2>7. ASSUME NEW k \in 1 .. i + 1, NEW j \in 1 .. 32 PROVE BytesOf(a \o D)[32 * (k - 1) + j] = BytesOf(D)[j]
    <3>1. CASE k = i + 1
      <4>1. 32 * (k - 1) + j = 32 * i + j
        BY <3>1
      <4> QED
        BY <2>5, <4>1
    <3>2. CASE k # i + 1
      <4>1. k \in 1 .. i /\ 32 * (k - 1) + j \in 1 .. 32 * i
        BY <3>2
      <4> QED
        BY <2>2, <2>5, <4>1
    <3> QED
      BY <3>1, <3>2
  <2> QED
    BY <2>1, <2>6, <2>7
<1> HIDE DEF Good
<1>5. \A i \in 0 .. count : i \in S
  <2>1. 0 \in S
    BY <1>3
  <2>2. \A i \in 0 .. count - 1 : i \in S => i + 1 \in S
    BY <1>4
  <2> HIDE DEF S
  <2> QED
    BY <2>1, <2>2, SetInduction
<1>6. count \in 0 .. count
  OBVIOUS
<1>7. Good(count)
  BY <1>5, <1>6
<1> QED
  BY <1>2, <1>6, <1>7 DEF Good, D

LEMMA ViewFindsDescriptors ==
  ASSUME NEW count \in Nat \ {0}, NEW i \in 1 .. count
  PROVE  LET list == BytesOf(PE_Header \o StreamList(count))
         IN  SubSeq(list, ViewDescriptorAt(i) + 1, ViewDescriptorAt(i) + SizeOf(ViewDescriptor))
               = BytesOf(ViewDescriptor)
<1> DEFINE D == StreamDescriptor  V == ViewDescriptor  H == PE_Header  R == PayloadGetStreamsResp
           B == FieldNames \X Int
           rest == << <<"reserved", 3>> >>
           list == BytesOf(H \o StreamList(count))
<1>1. PICK f : ListRun(f, count) /\ StreamList(count) = R \o f[count]
  BY ListUnfolds
<1> DEFINE F == f[count]
<1>2. /\ F \in Layouts /\ SizeOf(F) = 32 * count
      /\ \A k \in 1 .. count : \A j \in 1 .. 32 : BytesOf(F)[32 * (k - 1) + j] = BytesOf(D)[j]
  BY <1>1, ListBytes, ZenonT(30)
<1>3. /\ H \in Layouts /\ SizeOf(H) = 16 /\ R \in Layouts /\ SizeOf(R) = 4
      /\ V \in Layouts /\ SizeOf(V) = 29 /\ rest \in Layouts /\ D = V \o rest
  <2>1. rest \in Layouts
    BY DEF Layouts, FieldNames
  <2>2. D = V \o rest
    BY DEF ViewDescriptor, StreamDescriptor
  <2> QED
    BY <2>1, <2>2, SizesAre
<1> HIDE DEF D, V, H, R, F, rest
<1>4. list = BytesOf(H) \o (BytesOf(R) \o BytesOf(F))
  <2>1. R \o F \in Layouts /\ BytesOf(R \o F) = BytesOf(R) \o BytesOf(F)
    BY <1>2, <1>3, OffsetsJoin, BytesJoin
  <2> QED
    BY <1>1, <1>3, <2>1, BytesJoin DEF F
<1>5. /\ BytesOf(H) \in Seq(B) /\ Len(BytesOf(H)) = 16
      /\ BytesOf(R) \in Seq(B) /\ Len(BytesOf(R)) = 4
      /\ BytesOf(F) \in Seq(B) /\ Len(BytesOf(F)) = 32 * count
      /\ BytesOf(V) \in Seq(B) /\ Len(BytesOf(V)) = 29
      /\ BytesOf(rest) \in Seq(B)
  BY <1>2, <1>3, BytesAre
<1> HIDE DEF list, B
<1>6. /\ list \in Seq(B) /\ Len(list) = 20 + 32 * count
      /\ \A x \in 1 .. 32 * count : list[20 + x] = BytesOf(F)[x]
  <2> DEFINE t == BytesOf(R) \o BytesOf(F)
  <2>1. /\ t \in Seq(B) /\ Len(t) = 4 + 32 * count
        /\ \A x \in 1 .. 32 * count : t[4 + x] = BytesOf(F)[x]
    <3>1. IsJoined(t, BytesOf(R), BytesOf(F), B)
      BY <1>5, Joined
    <3> QED
      BY <1>5, <3>1 DEF IsJoined
  <2> HIDE DEF t
  <2>2. /\ list \in Seq(B) /\ Len(list) = 16 + Len(t)
        /\ \A x \in 1 .. Len(t) : list[16 + x] = t[x]
    <3>1. IsJoined(list, BytesOf(H), t, B)
      BY <1>4, <1>5, <2>1, Joined DEF t
    <3> QED
      BY <1>5, <3>1 DEF IsJoined
  <2>3. \A x \in 1 .. 32 * count : 4 + x \in 1 .. Len(t) /\ 16 + (4 + x) = 20 + x
    BY <2>1
  <2>4. Len(list) = 20 + 32 * count
    BY <2>1, <2>2
  <2> QED
    BY <2>1, <2>2, <2>3, <2>4
<1>7. \A j \in 1 .. 29 : BytesOf(D)[j] = BytesOf(V)[j]
  <2>1. BytesOf(D) = BytesOf(V) \o BytesOf(rest)
    BY <1>3, BytesJoin
  <2>2. IsJoined(BytesOf(D), BytesOf(V), BytesOf(rest), B)
    BY <1>5, <2>1, Joined
  <2> QED
    BY <1>5, <2>2 DEF IsJoined
<1> DEFINE at == 20 + 32 * (i - 1)
<1>8. at \in 0 .. Len(list) /\ at + 29 \in at .. Len(list) /\ (at + 29) - at = 29
  BY <1>6
<1>9. \A j \in 1 .. 29 : list[at + j] = BytesOf(V)[j]
  <2>1. TAKE j \in 1 .. 29
  <2>2. 32 * (i - 1) + j \in 1 .. 32 * count /\ at + j = 20 + (32 * (i - 1) + j) /\ j \in 1 .. 32
    OBVIOUS
  <2> QED
    BY <1>2, <1>6, <1>7, <2>2
<1> HIDE DEF at
<1> DEFINE p == Part(list, at, at + 29)
<1>10. p \in Seq(B) /\ Len(p) = 29 /\ \A j \in 1 .. 29 : p[j] = list[at + j]
  <2>1. /\ p \in Seq(B) /\ Len(p) = (at + 29) - at
        /\ \A j \in 1 .. (at + 29) - at : p[j] = list[at + j]
    <3> DEFINE e == at + 29
    <3>1. list \in Seq(B) /\ at \in 0 .. Len(list) /\ e \in at .. Len(list)
      BY <1>6, <1>8
    <3> HIDE DEF e
    <3>2. /\ Part(list, at, e) \in Seq(B) /\ Len(Part(list, at, e)) = e - at
          /\ \A j \in 1 .. e - at : Part(list, at, e)[j] = list[at + j]
      BY <3>1, PartIs
    <3> QED
      BY <3>2 DEF e
  <2> HIDE DEF p
  <2> QED
    BY <1>8, <2>1
<1> HIDE DEF p
<1>11. p = BytesOf(V)
  <2>1. Len(p) = Len(BytesOf(V)) /\ \A j \in 1 .. Len(p) : p[j] = BytesOf(V)[j]
    BY <1>5, <1>9, <1>10
  <2> QED
    BY <1>5, <1>10, <2>1, SameSeq
<1>12. SubSeq(list, at + 1, at + SizeOf(V)) = BytesOf(V)
  BY <1>3, <1>11 DEF Part, p
<1>13. ViewDescriptorAt(i) = at
  BY DEF ViewDescriptorAt, at
<1> QED
  BY <1>12, <1>13 DEF list, V, H

LEMMA TheRequestsFit == RequestsFit
<1>1. SizeOf(HostData) + 1024 <= PayloadBuffer
  BY SizesAre DEF PayloadBuffer
<1>2. \A n \in 0 .. 200 : CliText(SizeOf(HostCli) + n, n) = (IF n <= 127 THEN n ELSE 127)
  <2>1. SizeOf(HostCli) = 4 /\ SizeOf(PayloadCliExec) = 4
    BY SizesAre
  <2> QED
    BY <2>1 DEF CliText
<1>3. \A i \in 1 .. 8 :
        LET list == BytesOf(PE_Header \o StreamList(8))
        IN  SubSeq(list, ViewDescriptorAt(i) + 1, ViewDescriptorAt(i) + SizeOf(ViewDescriptor))
              = BytesOf(ViewDescriptor)
  BY 8 \in Nat \ {0}, ViewFindsDescriptors
<1>4. ViewFrameAt = SizeOf(PE_Header) /\ ViewSampleAt = SizeOf(PE_Header) + SizeOf(StreamPayloadHeader)
  BY SizesAre DEF ViewFrameAt, ViewSampleAt
<1> QED
  BY <1>1, <1>2, <1>3, <1>4 DEF RequestsFit

-----------------------------------------------------------------------------
(* A stream cut anywhere: the ends of its buffers, in order.                *)

Rank(ends, e) == Cardinality({x \in ends : x <= e})

LEMMA RankIs ==
  ASSUME NEW a \in Nat, NEW ends \in SUBSET (1 .. a)
  PROVE  /\ Rank(ends, 0) = 0
         /\ Rank(ends, a) = Cardinality(ends)
         /\ \A e \in 0 .. a : Rank(ends, e) \in Nat
<1>1. IsFiniteSet(ends)
  <2>1. IsFiniteSet(1 .. a)
    BY 1 \in Int, a \in Int, FS_Interval
  <2> QED
    BY <2>1, FS_Subset
<1>2. \A e : IsFiniteSet({x \in ends : x <= e})
  BY <1>1, FS_Subset
<1>3. \A e : Rank(ends, e) \in Nat
  BY <1>2, FS_CardinalityType DEF Rank
<1>0. \A x \in ends : x \in 1 .. a
  OBVIOUS
<1>4. Rank(ends, 0) = 0
  <2>0. \A x \in ends : ~ (x <= 0)
    BY <1>0
  <2>1. {x \in ends : x <= 0} = {}
    BY <2>0
  <2> QED
    BY <2>1, FS_EmptySet DEF Rank
<1>5. Rank(ends, a) = Cardinality(ends)
  <2>0. \A x \in ends : x <= a
    BY <1>0
  <2>1. {x \in ends : x <= a} = ends
    BY <2>0
  <2> QED
    BY <2>1 DEF Rank
<1> QED
  BY <1>3, <1>4, <1>5

LEMMA RankNext ==
  ASSUME NEW a \in Nat, NEW ends \in SUBSET (1 .. a), NEW e \in 0 .. a, NEW f \in 0 .. a, f = e + 1
  PROVE  /\ Rank(ends, e) \in Nat /\ Rank(ends, f) \in Nat
         /\ f \in ends => Rank(ends, f) = Rank(ends, e) + 1
         /\ f \notin ends => Rank(ends, f) = Rank(ends, e)
<1> DEFINE upTo == {x \in ends : x <= e}
<1>1. Rank(ends, e) \in Nat /\ Rank(ends, f) \in Nat
  BY RankIs
<1>2. IsFiniteSet(upTo)
  <2>1. IsFiniteSet(1 .. a)
    BY 1 \in Int, a \in Int, FS_Interval
  <2>2. IsFiniteSet(ends)
    BY <2>1, FS_Subset
  <2> QED
    BY <2>2, FS_Subset
<1>3. \A x \in ends : x <= f <=> x <= e \/ x = f
  <2>1. \A x \in ends : x \in 1 .. a
    OBVIOUS
  <2> QED
    BY <2>1
<1>4. f \notin upTo /\ (f \in ends => {x \in ends : x <= f} = upTo \cup {f})
                   /\ (f \notin ends => {x \in ends : x <= f} = upTo)
  <2>1. ~ (f <= e) /\ f <= f
    OBVIOUS
  <2>2. f \notin upTo
    BY <2>1
  <2>3. ASSUME f \in ends PROVE {x \in ends : x <= f} = upTo \cup {f}
    BY <1>3, <2>1, <2>3
  <2>4. ASSUME f \notin ends PROVE {x \in ends : x <= f} = upTo
    <3>1. \A x \in ends : x <= f <=> x <= e
      BY <1>3, <2>4
    <3> QED
      BY <3>1
  <2> QED
    BY <2>2, <2>3, <2>4
<1> HIDE DEF upTo
<1>5. Cardinality(upTo \cup {f}) = Cardinality(upTo) + 1
  BY <1>2, <1>4, FS_AddElement
<1> QED
  BY <1>1, <1>4, <1>5 DEF Rank, upTo

LEMMA RanksGrow ==
  ASSUME NEW a \in Nat, NEW ends \in SUBSET (1 .. a), NEW e \in 0 .. a, NEW f \in 0 .. a, e < f
  PROVE  /\ Rank(ends, e) <= Rank(ends, f)
         /\ f \in ends => Rank(ends, e) < Rank(ends, f)
<1> DEFINE S == {k \in 0 .. a - e : Rank(ends, e) <= Rank(ends, e + k)}
<1>1. a - e \in Nat /\ \A k \in 0 .. (a - e) - 1 : e + k \in 0 .. a - 1 /\ (e + k) + 1 = e + (k + 1)
  OBVIOUS
<1>2. 0 \in S
  <2>1. Rank(ends, e) \in Nat
    BY RankIs
  <2>2. e + 0 = e
    OBVIOUS
  <2> QED
    BY <1>1, <2>1, <2>2
<1>3. ASSUME NEW k \in 0 .. (a - e) - 1, k \in S PROVE k + 1 \in S
  <2>1. e + k \in 0 .. a - 1 /\ e + k \in 0 .. a /\ (e + k) + 1 = e + (k + 1) /\ k + 1 \in 0 .. a - e
    BY <1>1
  <2> DEFINE g == e + k  h == e + (k + 1)
  <2>6. g \in 0 .. a /\ h \in 0 .. a /\ h = g + 1
    BY <2>1
  <2> HIDE DEF g, h
  <2>2. Rank(ends, g) \in Nat /\ (Rank(ends, h) = Rank(ends, g) \/ Rank(ends, h) = Rank(ends, g) + 1)
    BY <2>6, RankNext
  <2>3. Rank(ends, e) \in Nat
    BY RankIs
  <2>4. Rank(ends, e) <= Rank(ends, e + k)
    BY <1>3
  <2>5. Rank(ends, e) <= Rank(ends, e + (k + 1))
    <3>1. Rank(ends, e) <= Rank(ends, g)
      BY <2>4 DEF g
    <3>2. Rank(ends, e) <= Rank(ends, h)
      BY <2>2, <2>3, <3>1
    <3> QED
      BY <3>2 DEF h
  <2> QED
    BY <2>1, <2>5
<1> HIDE DEF S
<1>4. \A k \in 0 .. a - e : k \in S
  BY <1>1, <1>2, <1>3, SetInduction
<1>5. \A g \in e .. a : Rank(ends, e) <= Rank(ends, g)
  <2>1. TAKE g \in e .. a
  <2>2. g - e \in 0 .. a - e /\ e + (g - e) = g
    OBVIOUS
  <2> QED
    BY <1>4, <2>2 DEF S
<1>6. f - 1 \in e .. a /\ f - 1 \in 0 .. a - 1 /\ f - 1 \in 0 .. a /\ (f - 1) + 1 = f /\ f \in e .. a
  OBVIOUS
<1>7. Rank(ends, e) <= Rank(ends, f - 1) /\ Rank(ends, e) <= Rank(ends, f)
  BY <1>5, <1>6
<1>8. f \in ends => Rank(ends, f) = Rank(ends, f - 1) + 1
  <2> DEFINE g == f - 1
  <2>1. g \in 0 .. a /\ f = g + 1
    BY <1>6
  <2> HIDE DEF g
  <2>2. f \in ends => Rank(ends, f) = Rank(ends, g) + 1
    BY <2>1, RankNext
  <2> QED
    BY <2>2 DEF g
<1>9. Rank(ends, e) \in Nat /\ Rank(ends, f - 1) \in Nat /\ Rank(ends, f) \in Nat
  BY <1>6, RankIs
<1> QED
  BY <1>7, <1>8, <1>9

LEMMA EveryRankIsTaken ==
  ASSUME NEW a \in Nat, NEW ends \in SUBSET (1 .. a)
  PROVE  \A i \in 0 .. Cardinality(ends) : \E x \in ends \cup {0} : Rank(ends, x) = i
<1> DEFINE Taken(e) == \A i \in 0 .. Rank(ends, e) : \E x \in ends \cup {0} : Rank(ends, x) = i
           S == {e \in 0 .. a : Taken(e)}
<1>1. Taken(0)
  <2>1. Rank(ends, 0) = 0 /\ \A i \in 0 .. 0 : i = 0
    BY RankIs
  <2> QED
    BY <2>1
<1>2. ASSUME NEW e \in 0 .. a - 1, Taken(e) PROVE Taken(e + 1)
  <2> DEFINE f == e + 1
  <2>0. e \in 0 .. a /\ f \in 0 .. a /\ f = e + 1
    OBVIOUS
  <2>1. f \in ends => Rank(ends, f) = Rank(ends, e) + 1
    <3> HIDE DEF f
    <3> QED
      BY <2>0, RankNext
  <2>5. f \notin ends => Rank(ends, f) = Rank(ends, e)
    <3> HIDE DEF f
    <3> QED
      BY <2>0, RankNext
  <2>2. Rank(ends, e) \in Nat
    BY <2>0, RankIs
  <2>3. CASE e + 1 \in ends
    <3>1. TAKE i \in 0 .. Rank(ends, e + 1)
    <3>2. CASE i = Rank(ends, e + 1)
      BY <2>3, <3>2
    <3>3. CASE i # Rank(ends, e + 1)
      <4>1. i \in 0 .. Rank(ends, e)
        BY <2>1, <2>2, <2>3, <3>3
      <4> QED
        BY <1>2, <4>1
    <3> QED
      BY <3>2, <3>3
  <2>4. CASE e + 1 \notin ends
    BY <1>2, <2>4, <2>5
  <2> QED
    BY <2>3, <2>4
<1> HIDE DEF Taken
<1>3. 0 \in S /\ \A e \in 0 .. a - 1 : e \in S => e + 1 \in S
  BY <1>1, <1>2
<1> HIDE DEF S
<1>4. \A e \in 0 .. a : e \in S
  BY <1>3, SetInduction
<1>5. Taken(a)
  BY <1>4 DEF S
<1>6. Rank(ends, a) = Cardinality(ends)
  BY RankIs
<1> QED
  BY <1>5, <1>6 DEF Taken

\* The end of the i-th buffer.
EndOf(ends, i) == CHOOSE e \in ends \cup {0} : Rank(ends, e) = i

LEMMA EndsAre ==
  ASSUME NEW a \in Nat, NEW ends \in SUBSET (1 .. a), a = 0 \/ a \in ends
  PROVE  /\ Cardinality(ends) \in Nat
         /\ EndOf(ends, 0) = 0
         /\ EndOf(ends, Cardinality(ends)) = a
         /\ \A i \in 0 .. Cardinality(ends) : EndOf(ends, i) \in 0 .. a
         /\ \A i \in 1 .. Cardinality(ends) : EndOf(ends, i - 1) < EndOf(ends, i)
<1> DEFINE n == Cardinality(ends)
<1>1. /\ n \in Nat /\ Rank(ends, 0) = 0 /\ Rank(ends, a) = n
      /\ \A e \in 0 .. a : Rank(ends, e) \in Nat
  <2>1. a \in 0 .. a
    OBVIOUS
  <2> QED
    BY <2>1, RankIs
<1>2. \A i \in 0 .. n : EndOf(ends, i) \in ends \cup {0} /\ Rank(ends, EndOf(ends, i)) = i
  <2>1. TAKE i \in 0 .. n
  <2>2. \E x \in ends \cup {0} : Rank(ends, x) = i
    BY EveryRankIsTaken
  <2> QED
    BY <2>2 DEF EndOf
<1> HIDE DEF n
<1>3. \A x \in ends \cup {0} : x \in 0 .. a /\ (x = 0 \/ x \in ends)
  OBVIOUS
<1>4. \A x, y \in ends \cup {0} : Rank(ends, x) = Rank(ends, y) => x = y
  <2>1. ASSUME NEW x \in ends \cup {0}, NEW y \in ends \cup {0}, x < y PROVE Rank(ends, x) # Rank(ends, y)
    <3>1. y \in ends /\ x \in 0 .. a /\ y \in 0 .. a
      BY <1>3, <2>1
    <3>2. Rank(ends, x) < Rank(ends, y) /\ Rank(ends, x) \in Nat /\ Rank(ends, y) \in Nat
      BY <1>1, <2>1, <3>1, RanksGrow
    <3> QED
      BY <3>2
  <2>2. \A x, y \in ends \cup {0} : x = y \/ x < y \/ y < x
    BY <1>3
  <2> QED
    BY <2>1, <2>2
<1>5. \A i \in 0 .. n : EndOf(ends, i) \in 0 .. a
  BY <1>2, <1>3
<1>6. EndOf(ends, 0) = 0
  <2>1. 0 \in 0 .. n /\ 0 \in ends \cup {0}
    BY <1>1
  <2> QED
    BY <1>1, <1>2, <1>4, <2>1
<1>7. EndOf(ends, n) = a
  <2>1. n \in 0 .. n /\ a \in ends \cup {0}
    BY <1>1
  <2> QED
    BY <1>1, <1>2, <1>4, <2>1
<1>8. \A i \in 1 .. n : EndOf(ends, i - 1) < EndOf(ends, i)
  <2>1. TAKE i \in 1 .. n
  <2> DEFINE x == EndOf(ends, i - 1)  y == EndOf(ends, i)
  <2>2. i - 1 \in 0 .. n /\ i \in 0 .. n /\ i - 1 < i
    BY <1>1
  <2>3. x \in 0 .. a /\ y \in 0 .. a /\ Rank(ends, x) = i - 1 /\ Rank(ends, y) = i
    BY <1>2, <1>5, <2>2
  <2> HIDE DEF x, y
  <2>4. CASE y < x
    <3>1. Rank(ends, y) <= Rank(ends, x)
      BY <2>3, <2>4, RanksGrow
    <3> QED
      BY <2>2, <2>3, <3>1
  <2>5. CASE y = x
    BY <2>2, <2>3, <2>5
  <2>6. CASE x < y
    BY <2>6 DEF x, y
  <2> QED
    BY <2>3, <2>4, <2>5, <2>6
<1> QED
  BY <1>1, <1>5, <1>6, <1>7, <1>8 DEF n

\* Bytes that are numbered from their stream's start: some after the d-th.
Counted(d, n) == [j \in 1 .. n |-> d + j]

LEMMA CountedIs ==
  ASSUME NEW d \in Nat, NEW n \in Nat
  PROVE  /\ Counted(d, n) \in Seq(Nat) /\ Len(Counted(d, n)) = n
         /\ \A j \in 1 .. n : Counted(d, n)[j] = d + j
<1>1. \A j \in 1 .. n : d + j \in Nat
  OBVIOUS
<1> QED
  BY <1>1 DEF Counted

LEMMA CountedPart ==
  ASSUME NEW a \in Nat, NEW d \in 0 .. a, NEW e \in d .. a, NEW n \in Nat, n = e - d
  PROVE  Part(Counted(0, a), d, e) = Counted(d, n)
<1> DEFINE s == Counted(0, a)
           t == Counted(d, n)
           c == Part(s, d, e)
<1>1. /\ s \in Seq(Nat) /\ Len(s) = a /\ (\A j \in 1 .. a : s[j] = 0 + j)
      /\ t \in Seq(Nat) /\ Len(t) = n /\ (\A j \in 1 .. n : t[j] = d + j)
  <2>1. 0 \in Nat /\ d \in Nat
    OBVIOUS
  <2> QED
    BY <2>1, CountedIs
<1> HIDE DEF s, t
<1>2. d \in 0 .. Len(s) /\ e \in d .. Len(s)
  BY <1>1
<1>3. c \in Seq(Nat) /\ Len(c) = e - d /\ \A j \in 1 .. e - d : c[j] = s[d + j]
  BY <1>1, <1>2, PartIs, ZenonT(40)
<1>4. \A j \in 1 .. n : d + j \in 1 .. a /\ 0 + (d + j) = d + j
  OBVIOUS
<1> HIDE DEF c
<1>5. Len(c) = Len(t) /\ \A j \in 1 .. Len(c) : c[j] = t[j]
  BY <1>1, <1>3, <1>4
<1>6. c = t
  BY <1>1, <1>3, <1>5, SameSeq
<1> QED
  BY <1>6 DEF c, s, t

Header(buffers, header) == readExact(StreamReader(buffers), header)

Payload(buffers, header, payload) == readExact(Header(buffers, header).reader, payload)

LEMMA RequestRead ==
  ASSUME NEW s \in Seq(Nat), NEW buffers \in Seq(Seq(Nat)), Cut(buffers, s, 0),
         NEW header \in Nat, NEW payload \in Nat
  PROVE  LET first == Header(buffers, header)
             second == Payload(buffers, header, payload)
         IN  /\ first.ok <=> header <= Len(s)
             /\ first.ok => first.dest = Part(s, 0, header)
             /\ first.ok => (second.ok <=> header + payload <= Len(s))
             /\ first.ok => (second.ok => second.dest = Part(s, header, header + payload))
             /\ ~ first.ok => (second.ok <=> payload = 0)
  BY RequestIsReadWhole DEF Header, Payload

\* The buffers of a stream that is cut at the given ends.
BuffersOf(ends) ==
  [i \in 1 .. Cardinality(ends) |-> Counted(EndOf(ends, i - 1), EndOf(ends, i) - EndOf(ends, i - 1))]

LEMMA BuffersAreCut ==
  ASSUME NEW a \in Nat, NEW ends \in SUBSET (1 .. a), a = 0 \/ a \in ends
  PROVE  BuffersOf(ends) \in Seq(Seq(Nat)) /\ Cut(BuffersOf(ends), Counted(0, a), 0)
<1> DEFINE n == Cardinality(ends)
           s == Counted(0, a)
           p == [i \in 0 .. n |-> EndOf(ends, i)]
           buffers == BuffersOf(ends)
<1>1. /\ n \in Nat /\ EndOf(ends, 0) = 0 /\ EndOf(ends, n) = a
      /\ \A i \in 0 .. n : EndOf(ends, i) \in 0 .. a
      /\ \A i \in 1 .. n : EndOf(ends, i - 1) < EndOf(ends, i)
  BY EndsAre
<1>2. s \in Seq(Nat) /\ Len(s) = a
  BY CountedIs
<1>3. buffers = [i \in 1 .. n |-> Counted(EndOf(ends, i - 1), EndOf(ends, i) - EndOf(ends, i - 1))]
  BY DEF BuffersOf
<1> HIDE DEF n, s, buffers
<1>4. p \in [0 .. n -> 0 .. a] /\ \A i \in 0 .. n : p[i] = EndOf(ends, i)
  BY <1>1
<1> HIDE DEF p
<1>5. ASSUME NEW i \in 1 .. n
      PROVE  /\ p[i - 1] < p[i]
             /\ buffers[i] = Part(s, p[i - 1], p[i])
             /\ buffers[i] \in Seq(Nat)
  <2> DEFINE d == p[i - 1]  e == p[i]  m == e - d
  <2>1. i - 1 \in 0 .. n /\ i \in 0 .. n
    BY <1>1
  <2>2. d = EndOf(ends, i - 1) /\ e = EndOf(ends, i) /\ d \in 0 .. a /\ e \in 0 .. a /\ d < e
    BY <1>1, <1>4, <2>1
  <2>3. buffers[i] = Counted(d, m)
    BY <1>3, <2>2
  <2> HIDE DEF d, e
  <2>4. e \in d .. a /\ m \in Nat /\ m = e - d /\ d \in Nat
    BY <2>2
  <2> HIDE DEF m
  <2>5. Part(s, d, e) = Counted(d, m)
    BY <2>2, <2>4, CountedPart DEF s
  <2>6. Counted(d, m) \in Seq(Nat)
    BY <2>4, CountedIs
  <2> QED
    BY <2>2, <2>3, <2>5, <2>6 DEF d, e
<1>7. buffers \in Seq(Seq(Nat)) /\ Len(buffers) = n
  <2>1. \A i \in 1 .. n : buffers[i] \in Seq(Nat)
    BY <1>5
  <2>2. buffers = [i \in 1 .. n |-> buffers[i]]
    BY <1>3
  <2>3. buffers \in [1 .. n -> Seq(Nat)]
    BY <2>1, <2>2
  <2> QED
    BY <1>1, <2>3
<1>8. Cut(buffers, s, 0)
  <2>1. p \in [0 .. Len(buffers) -> 0 .. Len(s)] /\ p[0] = 0 /\ p[Len(buffers)] = Len(s)
    <3>1. 0 \in 0 .. n /\ n \in 0 .. n
      BY <1>1
    <3> QED
      BY <1>1, <1>2, <1>4, <1>7, <3>1
  <2>2. \A i \in 1 .. Len(buffers) : p[i - 1] < p[i] /\ buffers[i] = Part(s, p[i - 1], p[i])
    BY <1>5, <1>7
  <2> QED
    BY <2>1, <2>2 DEF Cut
<1> QED
  BY <1>7, <1>8 DEF s, buffers

LEMMA CutAnywhere ==
  ASSUME NEW a \in Nat, NEW ends \in SUBSET (1 .. a), a = 0 \/ a \in ends,
         NEW header \in Nat, NEW payload \in Nat \ {0}
  PROVE  LET first == Header(BuffersOf(ends), header)
             second == Payload(BuffersOf(ends), header, payload)
         IN  /\ first.ok <=> a >= header
             /\ first.ok => first.dest = Counted(0, header)
             /\ first.ok => (second.ok <=> a >= header + payload)
             /\ second.ok => second.dest = Counted(header, payload)
<1> DEFINE s == Counted(0, a)
           buffers == BuffersOf(ends)
           first == Header(buffers, header)
           second == Payload(buffers, header, payload)
<1>1. buffers \in Seq(Seq(Nat)) /\ Cut(buffers, s, 0)
  BY BuffersAreCut
<1>2. s \in Seq(Nat) /\ Len(s) = a
  BY CountedIs
<1> HIDE DEF s, buffers
<1>3. payload \in Nat
  OBVIOUS
<1>4. /\ first.ok <=> header <= Len(s)
      /\ first.ok => first.dest = Part(s, 0, header)
      /\ first.ok => (second.ok <=> header + payload <= Len(s))
      /\ first.ok => (second.ok => second.dest = Part(s, header, header + payload))
      /\ ~ first.ok => (second.ok <=> payload = 0)
  BY <1>1, <1>2, <1>3, RequestRead
<1> HIDE DEF first, second
<1>5. ASSUME header <= a PROVE Part(s, 0, header) = Counted(0, header)
  <2>1. 0 \in 0 .. a /\ header \in 0 .. a /\ header = header - 0
    BY <1>5
  <2> QED
    BY <2>1, CountedPart DEF s
<1>6. ASSUME header + payload <= a PROVE Part(s, header, header + payload) = Counted(header, payload)
  <2> DEFINE e == header + payload
  <2>1. header \in 0 .. a /\ e \in header .. a /\ payload = e - header
    BY <1>3, <1>6
  <2> HIDE DEF e
  <2>2. Part(s, header, e) = Counted(header, payload)
    BY <1>3, <2>1, CountedPart DEF s
  <2> QED
    BY <2>2 DEF e
<1>7. /\ first.ok <=> a >= header
      /\ first.ok => first.dest = Counted(0, header)
      /\ first.ok => (second.ok <=> a >= header + payload)
      /\ second.ok => second.dest = Counted(header, payload)
  BY <1>2, <1>4, <1>5, <1>6
<1> QED
  BY <1>7 DEF first, second, buffers

LEMMA TheReadsAreExact == ReadsAreExact
<1>1. ASSUME NEW arrived \in 0 .. 6, NEW cuts \in SUBSET (1 .. arrived - 1),
             NEW header \in 1 .. 4, NEW payload \in 1 .. 4
      PROVE  LET ends == IF arrived = 0 THEN {} ELSE cuts \cup {arrived}
                 end(i) == CHOOSE e \in ends \cup {0} : Cardinality({x \in ends : x <= e}) = i
                 buffers == [i \in 1 .. Cardinality(ends) |->
                              [j \in 1 .. end(i) - end(i - 1) |-> end(i - 1) + j]]
                 first == readExact(StreamReader(buffers), header)
                 second == readExact(first.reader, payload)
             IN  /\ first.ok <=> arrived >= header
                 /\ first.ok => first.dest = [j \in 1 .. header |-> j]
                 /\ first.ok => (second.ok <=> arrived >= header + payload)
                 /\ second.ok => second.dest = [j \in 1 .. payload |-> header + j]
  <2>1. arrived \in Nat /\ header \in Nat /\ payload \in Nat \ {0}
    OBVIOUS
  <2> DEFINE ends == IF arrived = 0 THEN {} ELSE cuts \cup {arrived}
  <2>2. ends \in SUBSET (1 .. arrived) /\ (arrived = 0 \/ arrived \in ends)
    OBVIOUS
  <2> DEFINE end(i) == CHOOSE e \in ends \cup {0} : Cardinality({x \in ends : x <= e}) = i
             buffers == [i \in 1 .. Cardinality(ends) |->
                          [j \in 1 .. end(i) - end(i - 1) |-> end(i - 1) + j]]
             first == readExact(StreamReader(buffers), header)
             second == readExact(first.reader, payload)
             counted == [j \in 1 .. header |-> j]
  <2> HIDE DEF ends
  <2>3. buffers = BuffersOf(ends)
    BY DEF BuffersOf, Counted, EndOf, Rank
  <2>4. counted = Counted(0, header)
    <3>1. \A j \in 1 .. header : 0 + j = j
      OBVIOUS
    <3> QED
      BY <3>1 DEF Counted
  <2>5. [j \in 1 .. payload |-> header + j] = Counted(header, payload)
    BY DEF Counted
  <2> HIDE DEF buffers, counted
  <2>6. first = Header(BuffersOf(ends), header) /\ second = Payload(BuffersOf(ends), header, payload)
    BY <2>3 DEF Header, Payload
  <2> HIDE DEF first, second
  <2>7. /\ first.ok <=> arrived >= header
        /\ first.ok => first.dest = Counted(0, header)
        /\ first.ok => (second.ok <=> arrived >= header + payload)
        /\ second.ok => second.dest = Counted(header, payload)
    BY <2>1, <2>2, <2>6, CutAnywhere
  <2>8. /\ first.ok <=> arrived >= header
        /\ first.ok => first.dest = counted
        /\ first.ok => (second.ok <=> arrived >= header + payload)
        /\ second.ok => second.dest = [j \in 1 .. payload |-> header + j]
    BY <2>4, <2>5, <2>7
  <2> QED
    BY <2>8 DEF first, second, buffers, counted, ends
<1> QED
  BY <1>1 DEF ReadsAreExact

\* While a host is connected its requests mean to the node what they mean to
\* the host, and of the node's packets it takes in no field for another: the
\* layouts, codes, lengths and versions of ProtocolTypes.h, PacketHelper.h,
\* CommandService.cpp and the host's scripts agree, and the PONG and the image
\* header, on which the two do not, the script does not get to read.
THEOREM WireIsSound == WireHolds
  BY TheLayoutsAgree, NoneIsMistaken, TheCodesAgree, TheFramesAreWhole, TheReadsAreExact, TheRequestsFit,
     TheSizesAreAsserted, TheVersionsAreOrdered, TheFeaturesAreNamed DEF WireHolds, WireAgrees

-----------------------------------------------------------------------------
(* Streams: the tags and the node's own channels.                           *)

TagNames == {"CNTR", "TEMP", "ADC0", "IMU0", "PIXL", "STR8", "STR1", "STR3", "STR6", "RAW0"}

LEMMA Fourcc ==
  ASSUME NEW a \in Nat, NEW b \in Nat, NEW c \in Nat, NEW d \in Nat
  PROVE  MAKE_FOURCC(a, b, c, d) = a + 256 * b + 65536 * c + 16777216 * d
<1>1. 2 ^ 8 = 256 /\ 2 ^ 16 = 65536 /\ 2 ^ 24 = 16777216
  BY SMT
<1> QED
  BY <1>1, SMT DEF MAKE_FOURCC

\* Four characters, and tags made of them.
Ascii == 48 .. 127

Large(n) == n \in Nat /\ n > 65536

Digits256(w, a, b, c, d) ==
  /\ Large(w)
  /\ w % 256 = a /\ (w \div 256) % 256 = b /\ (w \div 65536) % 256 = c /\ w \div 16777216 = d

LEMMA FourccDigits ==
  ASSUME NEW a \in Ascii, NEW b \in Ascii, NEW c \in Ascii, NEW d \in Ascii
  PROVE  Digits256(MAKE_FOURCC(a, b, c, d), a, b, c, d)
<1>1. a \in 0 .. 255 /\ b \in 0 .. 255 /\ c \in 0 .. 255 /\ d \in 1 .. 255
  BY SMT DEF Ascii
<1>2. a \in Nat /\ b \in Nat /\ c \in Nat /\ d \in Nat
  BY <1>1, SMT
<1> DEFINE w == MAKE_FOURCC(a, b, c, d)
<1>3. w = a + 256 * b + 65536 * c + 16777216 * d
  BY <1>2, Fourcc, SMT
<1> HIDE DEF w
<1>4. w \in Nat /\ w > 65536
  BY <1>1, <1>3, SMT
<1>5. w % 256 = a
  BY <1>1, <1>3, SMT
<1>6. w \div 256 = b + 256 * c + 65536 * d
  BY <1>1, <1>3, SMT
<1>7. (w \div 256) % 256 = b
  BY <1>1, <1>6, SMT
<1>8. w \div 65536 = c + 256 * d
  BY <1>1, <1>3, SMT
<1>9. (w \div 65536) % 256 = c
  BY <1>1, <1>8, SMT
<1>10. w \div 16777216 = d
  BY <1>1, <1>3, SMT
<1> QED
  BY <1>4, <1>5, <1>7, <1>9, <1>10, SMT DEF Digits256, Large, w

Spelt(code) == code[1] \in Ascii /\ code[2] \in Ascii /\ code[3] \in Ascii /\ code[4] \in Ascii

CodeOf(code) == MAKE_FOURCC(code[1], code[2], code[3], code[4])

LEMMA CodesApart ==
  ASSUME NEW a, NEW b, Spelt(a), Spelt(b)
  PROVE  /\ Large(CodeOf(a))
         /\ CodeOf(a) = CodeOf(b) => a[1] = b[1] /\ a[2] = b[2] /\ a[3] = b[3] /\ a[4] = b[4]
<1>1. \A code : Spelt(code) => Digits256(CodeOf(code), code[1], code[2], code[3], code[4])
  BY FourccDigits, Zenon DEF Spelt, CodeOf
<1>2. /\ Digits256(CodeOf(a), a[1], a[2], a[3], a[4])
      /\ Digits256(CodeOf(b), b[1], b[2], b[3], b[4])
  BY <1>1, Zenon
<1> QED
  BY <1>2, SMT DEF Digits256

Codes ==
  [CNTR |-> <<67, 78, 84, 82>>, TEMP |-> <<84, 69, 77, 80>>,
   ADC0 |-> <<65, 68, 67, 48>>, IMU0 |-> <<73, 77, 85, 48>>,
   PIXL |-> <<80, 73, 88, 76>>, STR8 |-> <<83, 84, 82, 56>>,
   STR1 |-> <<83, 84, 82, 49>>, STR3 |-> <<83, 84, 82, 51>>,
   STR6 |-> <<83, 84, 82, 54>>, RAW0 |-> <<82, 65, 87, 48>>]

LEMMA TagsSpell ==
  /\ DOMAIN StreamTags = TagNames
  /\ \A t \in TagNames : StreamTags[t] = CodeOf(Codes[t])
<1>1. DOMAIN StreamTags = TagNames
  BY DEF StreamTags, TagNames
<1>2. \A t \in TagNames : StreamTags[t] = CodeOf(Codes[t])
  BY DEF StreamTags, TagNames, Codes, CodeOf
<1> QED
  BY <1>1, <1>2

LEMMA CodesDiffer ==
  /\ \A t \in TagNames : Spelt(Codes[t])
  /\ \A t \in TagNames \ {"ADC0"} : Codes[t][1] > 66
  /\ \A s, t \in TagNames :
       Codes[s][1] = Codes[t][1] /\ Codes[s][2] = Codes[t][2] /\ Codes[s][3] = Codes[t][3] /\ Codes[s][4] = Codes[t][4]
         => s = t
<1>1. \A t \in TagNames : Spelt(Codes[t])
  BY DEF TagNames, Codes, Ascii, Spelt
<1>2. \A t \in TagNames \ {"ADC0"} : Codes[t][1] > 66
  BY DEF TagNames, Codes
<1>3. \A s, t \in TagNames :
        Codes[s][1] = Codes[t][1] /\ Codes[s][2] = Codes[t][2] /\ Codes[s][3] = Codes[t][3] /\ Codes[s][4] = Codes[t][4]
          => s = t
  BY DEF TagNames, Codes
<1> QED
  BY <1>1, <1>2, <1>3

\* Four characters are no 16-bit number, and no two tags are the same.
LEMMA TagsDiffer ==
  /\ \A t \in DOMAIN StreamTags : Large(StreamTags[t])
  /\ \A s, t \in DOMAIN StreamTags : StreamTags[s] = StreamTags[t] => s = t
<1>1. ASSUME NEW s \in TagNames, NEW t \in TagNames
      PROVE  Large(StreamTags[t]) /\ (StreamTags[s] = StreamTags[t] => s = t)
  <2> DEFINE a == Codes[t]
             b == Codes[s]
  <2>0. StreamTags[t] = CodeOf(a) /\ StreamTags[s] = CodeOf(b)
    BY TagsSpell, Zenon
  <2>1. Spelt(a) /\ Spelt(b)
    BY CodesDiffer
  <2>2. b[1] = a[1] /\ b[2] = a[2] /\ b[3] = a[3] /\ b[4] = a[4] => s = t
    BY CodesDiffer
  <2> HIDE DEF a, b
  <2>3. /\ Large(CodeOf(a))
        /\ CodeOf(a) = CodeOf(b) => a[1] = b[1] /\ a[2] = b[2] /\ a[3] = b[3] /\ a[4] = b[4]
    BY <2>1, CodesApart, Zenon
  <2> QED
    BY <2>0, <2>2, <2>3
<1>2. DOMAIN StreamTags = TagNames
  BY TagsSpell, Zenon
<1> QED
  BY <1>1, <1>2

\* The application's channels, one by one.
NativeIs(slots) ==
  /\ slots \in Seq(Tagged) /\ Len(slots) = 5
  /\ slots[1].class = "Counter" /\ slots[1].tag = StreamTags.CNTR /\ slots[1].rate = 10
  /\ slots[1].batch = 1 /\ slots[1].bytes = 4
  /\ slots[2].class = "Temperature" /\ slots[2].tag = StreamTags.TEMP /\ slots[2].rate = 1
  /\ slots[2].batch = 1 /\ slots[2].bytes = 4
  /\ slots[3].class = "Stress" /\ slots[3].tag = StreamTags.STR1 /\ slots[3].rate = 1000
  /\ slots[3].batch = 45 /\ slots[3].bytes = 32
  /\ slots[4].class = "Stress" /\ slots[4].tag = StreamTags.STR6 /\ slots[4].rate = 5000
  /\ slots[4].batch = 11 /\ slots[4].bytes = 128
  /\ slots[5].class = "Stress" /\ slots[5].tag = StreamTags.RAW0 /\ slots[5].rate = 50000
  /\ slots[5].batch = 11 /\ slots[5].bytes = 128

LEMMA NativeChannels == NativeIs(NodeChannels)
<1>1. \A t \in TagNames : StreamTags[t] \in Nat /\ StreamTags[t] > 65535
  <2>1. DOMAIN StreamTags = TagNames
    BY TagsSpell, Zenon
  <2>2. \A t \in DOMAIN StreamTags : Large(StreamTags[t])
    BY TagsDiffer
  <2> QED
    BY <2>1, <2>2, SMT DEF Large
<1> DEFINE a == CounterChannel(10)
           b == TemperatureChannel(1)
           c == StressTestChannel(16, "STR1", 1000, 45)
           d == StressTestChannel(64, "STR6", 5000, 11)
           e == StressTestChannel(64, "RAW0", 50000, 11)
<1>2. a \in Tagged /\ a.class = "Counter" /\ a.tag = StreamTags.CNTR /\ a.rate = 10 /\ a.batch = 1
      /\ a.bytes = 4
  <2> DEFINE tag == StreamTags.CNTR
  <2>1. a = [class |-> "Counter", tag |-> tag, rate |-> 10, batch |-> 1, bytes |-> 4, enabled |-> FALSE]
    BY DEF CounterChannel, Channel
  <2>2. tag \in Nat /\ tag > 65535
    BY <1>1 DEF TagNames, Large
  <2> HIDE DEF a, tag
  <2>3. a \in Channels /\ a.tag = tag
    BY <2>1, <2>2 DEF Channels
  <2> QED
    BY <2>1, <2>2, <2>3 DEF Tagged, tag
<1>3. b \in Tagged /\ b.class = "Temperature" /\ b.tag = StreamTags.TEMP /\ b.rate = 1 /\ b.batch = 1
      /\ b.bytes = 4
  <2> DEFINE tag == StreamTags.TEMP
  <2>1. b = [class |-> "Temperature", tag |-> tag, rate |-> 1, batch |-> 1, bytes |-> 4, enabled |-> FALSE]
    BY DEF TemperatureChannel, Channel
  <2>2. tag \in Nat /\ tag > 65535
    BY <1>1 DEF TagNames, Large
  <2> HIDE DEF b, tag
  <2>3. b \in Channels /\ b.tag = tag
    BY <2>1, <2>2 DEF Channels
  <2> QED
    BY <2>1, <2>2, <2>3 DEF Tagged, tag
<1>4. c \in Tagged /\ c.class = "Stress" /\ c.tag = StreamTags.STR1 /\ c.rate = 1000 /\ c.batch = 45
      /\ c.bytes = 32
  <2> DEFINE tag == StreamTags.STR1
  <2>1. c = [class |-> "Stress", tag |-> tag, rate |-> 1000, batch |-> 45, bytes |-> 32, enabled |-> FALSE]
    BY DEF StressTestChannel, Channel
  <2>2. tag \in Nat /\ tag > 65535
    BY <1>1 DEF TagNames, Large
  <2> HIDE DEF c, tag
  <2>3. c \in Channels /\ c.tag = tag
    BY <2>1, <2>2 DEF Channels
  <2> QED
    BY <2>1, <2>2, <2>3 DEF Tagged, tag
<1>5. d \in Tagged /\ d.class = "Stress" /\ d.tag = StreamTags.STR6 /\ d.rate = 5000 /\ d.batch = 11
      /\ d.bytes = 128
  <2> DEFINE tag == StreamTags.STR6
  <2>1. d = [class |-> "Stress", tag |-> tag, rate |-> 5000, batch |-> 11, bytes |-> 128, enabled |-> FALSE]
    BY DEF StressTestChannel, Channel
  <2>2. tag \in Nat /\ tag > 65535
    BY <1>1 DEF TagNames, Large
  <2> HIDE DEF d, tag
  <2>3. d \in Channels /\ d.tag = tag
    BY <2>1, <2>2 DEF Channels
  <2> QED
    BY <2>1, <2>2, <2>3 DEF Tagged, tag
<1>6. e \in Tagged /\ e.class = "Stress" /\ e.tag = StreamTags.RAW0 /\ e.rate = 50000 /\ e.batch = 11
      /\ e.bytes = 128
  <2> DEFINE tag == StreamTags.RAW0
  <2>1. e = [class |-> "Stress", tag |-> tag, rate |-> 50000, batch |-> 11, bytes |-> 128, enabled |-> FALSE]
    BY DEF StressTestChannel, Channel
  <2>2. tag \in Nat /\ tag > 65535
    BY <1>1 DEF TagNames, Large
  <2> HIDE DEF e, tag
  <2>3. e \in Channels /\ e.tag = tag
    BY <2>1, <2>2 DEF Channels
  <2> QED
    BY <2>1, <2>2, <2>3 DEF Tagged, tag
<1>7. NodeChannels = <<a, b, c, d, e>>
  BY DEF NodeChannels
<1> HIDE DEF a, b, c, d, e
<1> DEFINE slots == <<a, b, c, d, e>>
<1>8. /\ slots \in Seq(Tagged) /\ Len(slots) = 5
      /\ slots[1] = a /\ slots[2] = b /\ slots[3] = c /\ slots[4] = d /\ slots[5] = e
  BY <1>2, <1>3, <1>4, <1>5, <1>6
<1> HIDE DEF slots
<1>9. NativeIs(slots)
  BY <1>2, <1>3, <1>4, <1>5, <1>6, <1>8 DEF NativeIs
<1> QED
  BY <1>7, <1>9 DEF slots

-----------------------------------------------------------------------------
(* Registering: the first of each tag, as long as there is room.            *)

Registering(f, C, channels) ==
  /\ f \in [0 .. Len(channels) -> Seq(C)]
  /\ f[0] = <<>>
  /\ \A i \in 1 .. Len(channels) : f[i] = register_channel(f[i - 1], channels[i])

LEMMA RegisteringUnfolds ==
  ASSUME NEW C, NEW channels \in Seq(C)
  PROVE  \E f : Registering(f, C, channels) /\ Registered(channels) = f[Len(channels)]
<1> DEFINE n == Len(channels)
           x0 == <<>>
           X == Seq(C)
           G == [p \in X \X (1 .. n) |-> register_channel(p[1], channels[p[2]])]
           Body(f) == [i \in 0 .. n |-> IF i = 0 THEN x0 ELSE register_channel(f[i - 1], channels[i])]
           after == CHOOSE f : f = Body(f)
<1>1. n \in Nat /\ x0 \in X
  OBVIOUS
<1>2. \A c \in X, i \in 1 .. n : register_channel(c, channels[i]) \in X
  BY DEF register_channel
<1>3. \A c \in X, i \in 1 .. n : G[<<c, i>>] = register_channel(c, channels[i])
  OBVIOUS
<1>4. G \in Turns(X, n)
  BY <1>2 DEF Turns
<1>5. Registered(channels) = after[n]
  BY DEF Registered
<1> HIDE DEF G, n, x0, X
<1>6. PICK f : f \in [0 .. n -> X] /\ f[0] = x0 /\ \A i \in 1 .. n : f[i] = G[<<f[i - 1], i>>]
  <2>1. \E f : History(f, X, x0, n, G)
    BY <1>1, <1>4, LoopExists
  <2> QED
    BY <2>1 DEF History
<1>7. \A i \in 1 .. n : f[i] = register_channel(f[i - 1], channels[i])
  <2>1. TAKE i \in 1 .. n
  <2>2. i - 1 \in 0 .. n
    BY <1>1
  <2> QED
    BY <2>2, <1>3, <1>6
<1>8. f = Body(f)
  <2>1. \A i \in 0 .. n : f[i] = IF i = 0 THEN x0 ELSE register_channel(f[i - 1], channels[i])
    <3>1. \A i \in 0 .. n : i = 0 \/ i \in 1 .. n
      BY <1>1
    <3> QED
      BY <1>6, <1>7, <3>1
  <2> QED
    BY <1>6, <2>1
<1>9. after = Body(after)
  BY <1>8
<1> HIDE DEF after
<1>10. after[0] = x0 /\ \A i \in 1 .. n : after[i] = register_channel(after[i - 1], channels[i])
  <2>1. 0 \in 0 .. n /\ \A i \in 1 .. n : i \in 0 .. n /\ i # 0
    BY <1>1
  <2>2. \A i \in 0 .. n : Body(after)[i] = IF i = 0 THEN x0 ELSE register_channel(after[i - 1], channels[i])
    OBVIOUS
  <2> HIDE DEF Body
  <2> QED
    BY <1>9, <2>1, <2>2
<1>11. f[n] = after[n]
  <2>1. StartsLike(f, after, n)
    BY <1>6, <1>7, <1>10 DEF StartsLike
  <2>2. Like(f, after, n)
    BY <1>1, <2>1, LoopUnique
  <2> QED
    BY <1>1, <2>2 DEF Like
<1> QED
  BY <1>5, <1>6, <1>7, <1>11 DEF Registering, n, x0, X

\* The first m channels get a slot if their tags differ, and the others none if
\* there is no room or their tag has one.
FirstTaken(channels, m) ==
  /\ \A i, j \in 1 .. m : channels[i].tag = channels[j].tag => i = j
  /\ \A i \in m + 1 .. Len(channels) :
       m = MaxChannels \/ \E j \in 1 .. m : channels[j].tag = channels[i].tag

LEMMA StartOf ==
  ASSUME NEW B, NEW s \in Seq(B), NEW e \in 0 .. Len(s)
  PROVE  /\ Part(s, 0, e) \in Seq(B) /\ Len(Part(s, 0, e)) = e
         /\ \A i \in 1 .. e : Part(s, 0, e)[i] = s[i]
<1>1. 0 \in 0 .. Len(s) /\ e - 0 = e /\ \A i \in 1 .. e : 0 + i = i
  OBVIOUS
<1>2. /\ Part(s, 0, e) \in Seq(B) /\ Len(Part(s, 0, e)) = e - 0
      /\ \A i \in 1 .. e - 0 : Part(s, 0, e)[i] = s[0 + i]
  BY <1>1, PartIs
<1> QED
  BY <1>1, <1>2

LEMMA FirstAreRegistered ==
  ASSUME NEW C, NEW channels \in Seq(C), NEW m \in 0 .. MaxChannels, m <= Len(channels),
         FirstTaken(channels, m)
  PROVE  Registered(channels) = Part(channels, 0, m)
<1> DEFINE n == Len(channels)
           least(i) == IF i < m THEN i ELSE m
<1>1. PICK f : Registering(f, C, channels) /\ Registered(channels) = f[n]
  BY RegisteringUnfolds
<1>2. n \in Nat /\ m \in 0 .. n /\ m \in Nat /\ m <= 8 /\ MaxChannels = 8
  BY DEF MaxChannels
<1>3. /\ f[0] = <<>>
      /\ \A i \in 1 .. n : f[i] = register_channel(f[i - 1], channels[i])
  BY <1>1 DEF Registering
<1>4. ASSUME NEW e \in 0 .. n
      PROVE  /\ Part(channels, 0, e) \in Seq(C) /\ Len(Part(channels, 0, e)) = e
             /\ \A i \in 1 .. e : Part(channels, 0, e)[i] = channels[i]
  BY StartOf
<1>5. ASSUME NEW e \in 0 .. n, NEW g \in 1 .. n, g = e + 1
      PROVE  Append(Part(channels, 0, e), channels[g]) = Part(channels, 0, g)
  <2> DEFINE s == Part(channels, 0, e)
             t == Part(channels, 0, g)
             x == channels[g]
             a == Append(s, x)
  <2>1. g \in 0 .. n
    OBVIOUS
  <2>2. s \in Seq(C) /\ Len(s) = e /\ \A i \in 1 .. e : s[i] = channels[i]
    BY <1>4
  <2>3. t \in Seq(C) /\ Len(t) = g /\ \A i \in 1 .. g : t[i] = channels[i]
    BY <1>4, <2>1
  <2>4. x \in C
    OBVIOUS
  <2> HIDE DEF s, t, x
  <2>5. /\ a \in Seq(C) /\ Len(a) = e + 1 /\ a[e + 1] = x /\ \A i \in 1 .. e : a[i] = s[i]
    BY <2>2, <2>4, Appended DEF IsAppended
  <2>6. \A i \in 1 .. g : i \in 1 .. e \/ i = g
    BY <1>5
  <2> HIDE DEF a
  <2>7. Len(a) = Len(t) /\ \A i \in 1 .. Len(a) : a[i] = t[i]
    BY <1>5, <2>2, <2>3, <2>5, <2>6 DEF x
  <2>8. a = t
    BY <2>3, <2>5, <2>7, SameSeq
  <2> QED
    BY <2>8 DEF a, s, t, x
<1> DEFINE S == {i \in 0 .. n : f[i] = Part(channels, 0, least(i))}
<1> HIDE DEF n
<1>6. 0 \in S
  <2>1. least(0) = 0 /\ 0 \in 0 .. n
    BY <1>2
  <2>2. Part(channels, 0, 0) = <<>>
    <3> DEFINE p == Part(channels, 0, 0)
    <3>1. p \in Seq(C) /\ Len(p) = 0
      BY <1>4, <2>1
    <3> HIDE DEF p
    <3>2. p = <<>>
      BY <3>1
    <3> QED
      BY <3>2 DEF p
  <2> QED
    BY <1>3, <2>1, <2>2
<1>7. ASSUME NEW i \in 0 .. n - 1, i \in S PROVE i + 1 \in S
  <2> DEFINE g == i + 1
             s == f[i]
             x == channels[g]
  <2>1. i \in 0 .. n /\ g \in 0 .. n /\ g \in 1 .. n /\ g - 1 = i /\ g = i + 1
    BY <1>2
  <2>2. s = Part(channels, 0, least(i)) /\ f[g] = register_channel(s, x)
    BY <1>3, <1>7, <2>1
  <2>3. least(i) \in 0 .. n
    BY <1>2, <2>1
  <2> HIDE DEF g
  <2>4. s \in Seq(C) /\ Len(s) = least(i) /\ \A j \in 1 .. least(i) : s[j] = channels[j]
    BY <1>4, <2>2, <2>3
  <2> HIDE DEF s, x
  <2>5. CASE i < m
    <3>1. least(i) = i /\ least(g) = g /\ g \in 1 .. m /\ \A j \in 1 .. i : j \in 1 .. m /\ j # g
      BY <1>2, <2>1, <2>5
    <3>2. \A j \in 1 .. i : s[j].tag # x.tag
      BY <2>4, <3>1 DEF FirstTaken, x
    <3>3. Len(s) < MaxChannels /\ DOMAIN s = 1 .. i
      BY <1>2, <2>4, <2>5, <3>1
    <3>4. register_channel(s, x) = Append(s, x)
      BY <2>1, <3>2, <3>3, <1>2, <2>4 DEF register_channel
    <3>5. Append(s, x) = Part(channels, 0, g)
      BY <1>5, <2>1, <2>2, <3>1 DEF x
    <3> QED
      BY <2>1, <2>2, <3>1, <3>4, <3>5 DEF g
  <2>6. CASE ~ (i < m)
    <3>1. least(i) = m /\ least(g) = m /\ g \in m + 1 .. n
      BY <1>2, <2>1, <2>6
    <3>2. m = MaxChannels \/ \E j \in 1 .. m : s[j].tag = x.tag
      <4>1. m = MaxChannels \/ \E j \in 1 .. m : channels[j].tag = x.tag
        BY <3>1 DEF FirstTaken, x, n
      <4> QED
        BY <2>4, <3>1, <4>1
    <3>3. Len(s) = m /\ DOMAIN s = 1 .. m
      BY <2>4, <3>1
    <3>4. register_channel(s, x) = s
      BY <1>2, <3>2, <3>3 DEF register_channel
    <3> QED
      BY <2>1, <2>2, <3>1, <3>4 DEF g
  <2> QED
    BY <2>5, <2>6
<1> HIDE DEF S
<1>8. n \in S
  <2>1. n \in 0 .. n
    BY <1>2
  <2> QED
    BY <1>2, <1>6, <1>7, <2>1, SetInduction
<1>9. least(n) = m
  BY <1>2
<1> QED
  BY <1>1, <1>8, <1>9 DEF S

LEMMA SeqAt ==
  ASSUME NEW B, NEW s \in Seq(B), NEW n, Len(s) = n
  PROVE  DOMAIN s = 1 .. n /\ \A i \in 1 .. n : s[i] \in B
OBVIOUS

LEMMA NodeIsNative == Node = NodeChannels /\ NativeIs(Node) /\ Node \in Slots /\ Len(Node) = 5
<1> DEFINE s == NodeChannels
<1>1. NativeIs(s)
  BY NativeChannels
<1> HIDE DEF s
<1>2. s \in Seq(Tagged) /\ Len(s) = 5
  BY <1>1 DEF NativeIs
<1>3. /\ s[1].tag = StreamTags.CNTR /\ s[2].tag = StreamTags.TEMP /\ s[3].tag = StreamTags.STR1
      /\ s[4].tag = StreamTags.STR6 /\ s[5].tag = StreamTags.RAW0
  BY <1>1 DEF NativeIs
<1>4. \A t, u \in TagNames : StreamTags[t] = StreamTags[u] => t = u
  <2>1. DOMAIN StreamTags = TagNames
    BY TagsSpell, Zenon
  <2>2. \A t, u \in DOMAIN StreamTags : StreamTags[t] = StreamTags[u] => t = u
    BY TagsDiffer, Zenon
  <2> QED
    BY <2>1, <2>2
<1>5. \A i, j \in 1 .. 5 : s[i].tag = s[j].tag => i = j
  <2> DEFINE T(i) == StreamTags[<<"CNTR", "TEMP", "STR1", "STR6", "RAW0">>[i]]
  <2>1. /\ StreamTags.CNTR # StreamTags.TEMP /\ StreamTags.CNTR # StreamTags.STR1
        /\ StreamTags.CNTR # StreamTags.STR6 /\ StreamTags.CNTR # StreamTags.RAW0
        /\ StreamTags.TEMP # StreamTags.STR1 /\ StreamTags.TEMP # StreamTags.STR6
        /\ StreamTags.TEMP # StreamTags.RAW0 /\ StreamTags.STR1 # StreamTags.STR6
        /\ StreamTags.STR1 # StreamTags.RAW0 /\ StreamTags.STR6 # StreamTags.RAW0
    BY <1>4 DEF TagNames
  <2>2. \A i \in 1 .. 5 : i = 1 \/ i = 2 \/ i = 3 \/ i = 4 \/ i = 5
    OBVIOUS
  <2> QED
    BY <1>3, <2>1, <2>2
<1>6. FirstTaken(s, 5)
  <2>1. \A i \in 5 + 1 .. Len(s) : FALSE
    BY <1>2
  <2> QED
    BY <1>5, <2>1 DEF FirstTaken
<1>7. Registered(s) = s
  <2>1. 5 \in 0 .. MaxChannels /\ 5 <= Len(s) /\ 5 \in 0 .. Len(s)
    BY <1>2 DEF MaxChannels
  <2>2. Registered(s) = Part(s, 0, 5)
    BY <1>2, <1>6, <2>1, FirstAreRegistered
  <2> DEFINE p == Part(s, 0, 5)
  <2>3. p \in Seq(Tagged) /\ Len(p) = 5 /\ \A i \in 1 .. 5 : p[i] = s[i]
    BY <1>2, <2>1, StartOf
  <2> HIDE DEF p
  <2>4. p = s
    BY <1>2, <2>3, SameSeq
  <2> QED
    BY <2>2, <2>4 DEF p
<1>8. s \in Slots
  <2>1. \A i \in 1 .. 5 : s[i] \in Channels /\ s[i].tag > 65535
    <3>1. \A i \in 1 .. 5 : s[i] \in Tagged
      BY <1>2, SeqAt
    <3> QED
      BY <3>1, SMT DEF Tagged
  <2>2. s \in Seq(Channels) /\ DOMAIN s = 1 .. 5
    <3>1. s = [i \in 1 .. 5 |-> s[i]]
      BY <1>2
    <3>2. s \in [1 .. 5 -> Channels]
      BY <2>1, <3>1
    <3> QED
      BY <1>2, <3>2
  <2> QED
    BY <1>5, <2>1, <2>2, SMT DEF Slots
<1> QED
  BY <1>1, <1>2, <1>7, <1>8 DEF s, Node

LEMMA TwiceIsOnce == Registered(NodeChannels \o NodeChannels) = Node
<1> DEFINE s == Node
           t == s \o s
<1>1. s \in Seq(Tagged) /\ Len(s) = 5 /\ s \in Slots
  BY NodeIsNative DEF NativeIs
<1>2. IsJoined(t, s, s, Tagged)
  BY <1>1, Joined
<1> HIDE DEF s, t
<1>3. t \in Seq(Tagged) /\ Len(t) = 10 /\ (\A i \in 1 .. 5 : t[i] = s[i]) /\ (\A i \in 1 .. 5 : t[5 + i] = s[i])
  BY <1>1, <1>2 DEF IsJoined
<1>4. \A i, j \in 1 .. 5 : s[i].tag = s[j].tag => i = j
  <2>1. \A i, j \in DOMAIN s : s[i].tag = s[j].tag => i = j
    BY <1>1, SMT DEF Slots
  <2>2. DOMAIN s = 1 .. 5
    BY <1>1
  <2> QED
    BY <2>1, <2>2
<1>5. FirstTaken(t, 5)
  <2>1. \A i, j \in 1 .. 5 : t[i].tag = t[j].tag => i = j
    BY <1>3, <1>4
  <2>2. ASSUME NEW i \in 5 + 1 .. 10 PROVE \E j \in 1 .. 5 : t[j].tag = t[i].tag
    <3>1. i - 5 \in 1 .. 5 /\ 5 + (i - 5) = i
      OBVIOUS
    <3>2. t[i] = s[i - 5] /\ t[i - 5] = s[i - 5]
      BY <1>3, <3>1
    <3> QED
      BY <3>1, <3>2
  <2> QED
    BY <1>3, <2>1, <2>2 DEF FirstTaken
<1>6. Registered(t) = Part(t, 0, 5)
  <2>1. 5 \in 0 .. MaxChannels /\ 5 <= Len(t)
    BY <1>3 DEF MaxChannels
  <2> QED
    BY <1>3, <1>5, <2>1, FirstAreRegistered
<1> DEFINE p == Part(t, 0, 5)
<1>7. p \in Seq(Tagged) /\ Len(p) = 5 /\ \A i \in 1 .. 5 : p[i] = t[i]
  <2>1. 5 \in 0 .. Len(t)
    BY <1>3
  <2> QED
    BY <1>3, <2>1, StartOf
<1> HIDE DEF p
<1>8. \A i \in 1 .. 5 : p[i] = s[i]
  BY <1>3, <1>7
<1>9. p = s
  BY <1>1, <1>7, <1>8, SameSeq
<1>10. s = NodeChannels
  BY NodeIsNative DEF s
<1> QED
  BY <1>6, <1>9, <1>10 DEF p, s, t

LEMMA NinthGetsNone == Len(Registered([i \in 1 .. 9 |-> [NodeChannels[1] EXCEPT !.tag = i]])) = MaxChannels
<1> DEFINE ch == NodeChannels[1]
           s == [i \in 1 .. 9 |-> [ch EXCEPT !.tag = i]]
           C == {s[i] : i \in 1 .. 9}
<1>1. ch \in Channels
  <2> DEFINE t == NodeChannels
  <2>1. NativeIs(t)
    BY NativeChannels
  <2> HIDE DEF t
  <2>2. t \in Seq(Tagged) /\ Len(t) = 5
    BY <2>1 DEF NativeIs
  <2>3. t[1] \in Tagged
    BY <2>2
  <2>4. ch = t[1]
    BY DEF t
  <2> HIDE DEF ch
  <2> QED
    BY <2>3, <2>4 DEF Tagged
<1> HIDE DEF ch
<1>2. \A i \in 1 .. 9 : s[i].tag = i
  BY <1>1 DEF Channels
<1>3. s \in Seq(C) /\ Len(s) = 9
  OBVIOUS
<1> HIDE DEF s, C
<1>4. FirstTaken(s, 8) /\ 8 \in 0 .. MaxChannels /\ 8 <= Len(s) /\ 8 \in 0 .. Len(s)
  <2>1. \A i, j \in 1 .. 8 : s[i].tag = s[j].tag => i = j
    BY <1>2
  <2> QED
    BY <1>3, <2>1 DEF FirstTaken, MaxChannels
<1>5. Registered(s) = Part(s, 0, 8)
  BY <1>3, <1>4, FirstAreRegistered
<1>6. Len(Part(s, 0, 8)) = 8
  BY <1>3, <1>4, StartOf
<1> QED
  BY <1>5, <1>6 DEF s, ch, MaxChannels

LEMMA NumbersSpell ==
  ASSUME NEW n \in Nat
  PROVE  \E code : Spelt(code) /\ code[1] < 58 /\ NumberWord(n).tag = CodeOf(code)
<1> DEFINE digit(k) == 48 + ((n \div 10 ^ (4 - k)) % 10)
           code == <<digit(1), digit(2), digit(3), digit(4)>>
<1>1. NumberWord(n).tag = MAKE_FOURCC(digit(1), digit(2), digit(3), digit(4))
  BY DEF NumberWord
<1>2. /\ 4 - 1 = 3 /\ 4 - 2 = 2 /\ 4 - 3 = 1 /\ 4 - 4 = 0
      /\ 10 ^ 3 = 1000 /\ 10 ^ 2 = 100 /\ 10 ^ 1 = 10 /\ 10 ^ 0 = 1
  BY SMT
<1>3. \A m \in Nat : 48 + (m % 10) \in 48 .. 57
  OBVIOUS
<1>4. n \div 1000 \in Nat /\ n \div 100 \in Nat /\ n \div 10 \in Nat /\ n \div 1 \in Nat
  BY SMT
<1>5. digit(1) \in 48 .. 57 /\ digit(2) \in 48 .. 57 /\ digit(3) \in 48 .. 57 /\ digit(4) \in 48 .. 57
  BY <1>2, <1>3, <1>4
<1> DEFINE a == digit(1)
           b == digit(2)
           c == digit(3)
           d == digit(4)
           w == <<a, b, c, d>>
<1> HIDE DEF a, b, c, d
<1>6. a \in 48 .. 57 /\ b \in 48 .. 57 /\ c \in 48 .. 57 /\ d \in 48 .. 57
  BY <1>5 DEF a, b, c, d
<1>7. w[1] = a /\ w[2] = b /\ w[3] = c /\ w[4] = d
  OBVIOUS
<1> HIDE DEF w
<1>8. Spelt(w) /\ w[1] < 58
  BY <1>6, <1>7 DEF Spelt, Ascii
<1>9. NumberWord(n).tag = CodeOf(w)
  BY <1>1, <1>7 DEF CodeOf, a, b, c, d
<1> QED
  BY <1>8, <1>9

LEMMA NoNumberIsTag ==
  ASSUME NEW n \in Nat
  PROVE  find_channel(Node, NumberWord(n).tag) = {}
<1>1. PICK code : Spelt(code) /\ code[1] < 58 /\ NumberWord(n).tag = CodeOf(code)
  BY NumbersSpell
<1>2. ASSUME NEW t \in TagNames \ {"ADC0"} PROVE StreamTags[t] # CodeOf(code)
  <2> DEFINE a == Codes[t]
  <2>1. StreamTags[t] = CodeOf(a) /\ Spelt(a) /\ a[1] > 66
    BY TagsSpell, CodesDiffer
  <2> HIDE DEF a
  <2>2. CodeOf(a) = CodeOf(code) => a[1] = code[1]
    BY <1>1, <2>1, CodesApart
  <2>3. code[1] \in Ascii /\ a[1] \in Ascii
    BY <1>1, <2>1 DEF Spelt
  <2> QED
    BY <1>1, <2>1, <2>2, <2>3 DEF Ascii
<1>3. /\ "CNTR" \in TagNames \ {"ADC0"} /\ "TEMP" \in TagNames \ {"ADC0"} /\ "STR1" \in TagNames \ {"ADC0"}
      /\ "STR6" \in TagNames \ {"ADC0"} /\ "RAW0" \in TagNames \ {"ADC0"}
  BY DEF TagNames
<1> DEFINE s == Node
<1>4. NativeIs(s)
  BY NodeIsNative
<1> HIDE DEF s
<1>5. DOMAIN s = 1 .. 5
  BY <1>4 DEF NativeIs
<1>6. /\ s[1].tag = StreamTags.CNTR /\ s[2].tag = StreamTags.TEMP /\ s[3].tag = StreamTags.STR1
      /\ s[4].tag = StreamTags.STR6 /\ s[5].tag = StreamTags.RAW0
  BY <1>4 DEF NativeIs
<1>7. \A i \in 1 .. 5 : i = 1 \/ i = 2 \/ i = 3 \/ i = 4 \/ i = 5
  OBVIOUS
<1>8. \A i \in DOMAIN s : s[i].tag # CodeOf(code)
  BY <1>2, <1>3, <1>5, <1>6, <1>7
<1> QED
  BY <1>1, <1>8 DEF find_channel, s

LEMMA StartsAndStops == InterfacesAgree
<1>1. \A cmd : StartRequest(cmd).tag = StopTag(cmd)
  BY RequestIs DEF StopTag
<1>2. ASSUME NEW t \in DOMAIN StreamTags, NEW r \in NamedRates
      PROVE  /\ CliStart(<<TagWord(t), NumberWord(r)>>) = StartRequest(ViewStart(t, r))
             /\ CliStopTag(<<TagWord(t)>>) = StopTag(ViewStart(t, r))
  <2> DEFINE tag == StreamTags[t]
             number == NumberWord(r)
             word == TagWord(t)
             words == <<word, number>>
             cmd == ViewStart(t, r)
  <2>1. Large(tag)
    BY TagsDiffer
  <2>2. r \in Nat /\ r < 65536 /\ r # 10000
    BY SMT DEF Rates, NamedRates
  <2>3. word.len = 4 /\ word.tag = tag
    BY DEF TagWord
  <2>4. number.number = r
    <3>1. number.number = r % 2 ^ 16
      BY DEF NumberWord
    <3>2. 2 ^ 16 = 65536
      BY SMT
    <3> QED
      BY <2>2, <3>1, <3>2, SMT
  <2>5. cmd.cmd_id = 0 /\ cmd.param1 = r /\ cmd.param2 = tag
    BY DEF ViewStart
  <2> HIDE DEF tag, number, word, cmd
  <2>6. words[1] = word /\ words[2] = number /\ Len(words) = 2
    OBVIOUS
  <2>7. tag > 100 /\ tag # 0 /\ tag \notin 1 .. 100
    BY <2>1, SMT DEF Large
  <2>8. CliStart(words) = [tag |-> tag, rate |-> r, batch |-> 0]
    <3> HIDE DEF words
    <3>1. Len(words) > 0 /\ words[1].len = 4
      BY <2>3, <2>6
    <3> QED
      BY <2>3, <2>4, <2>6, <3>1 DEF CliStart
  <2>9. StartRequest(cmd) = [tag |-> tag, rate |-> r, batch |-> 0]
    <3>1. cmd.param2 > 100 /\ cmd.param1 # 10000 /\ cmd.param2 \notin 1 .. 100
      BY <2>2, <2>5, <2>7
    <3> QED
      BY <2>5, <3>1, SMT DEF StartRequest
  <2>10. StopTag(cmd) = tag
    BY <2>5, <2>7 DEF StopTag
  <2>11. CliStopTag(<<word>>) = tag
    <3> DEFINE one == <<word>>
    <3>1. Len(one) > 0 /\ one[1] = word
      OBVIOUS
    <3> HIDE DEF one
    <3>2. CliStopTag(one) = tag
      BY <2>3, <3>1 DEF CliStopTag
    <3> QED
      BY <3>2 DEF one
  <2> QED
    BY <2>8, <2>9, <2>10, <2>11 DEF words, word, number, cmd
<1> QED
  BY <1>1, <1>2 DEF InterfacesAgree

LEMMA TheRequestsName == RequestsName
<1>1. [i \in DOMAIN Node |-> Node[i].tag] = [i \in DOMAIN NodeChannels |-> NodeChannels[i].tag]
  BY NodeIsNative, Zenon
<1>2. \A n \in Rates : find_channel(Node, NumberWord(n).tag) = {}
  <2>1. \A n \in Rates : n \in Nat
    BY SMT DEF Rates
  <2> QED
    BY <2>1, NoNumberIsTag
<1>3. \A t \in DOMAIN StreamTags : StreamTags[t] > 2 ^ 16
  <2>1. \A t \in DOMAIN StreamTags : Large(StreamTags[t])
    BY TagsDiffer
  <2>2. 2 ^ 16 = 65536
    BY SMT
  <2> QED
    BY <2>1, <2>2, SMT DEF Large
<1>4. \A s, t \in DOMAIN StreamTags : StreamTags[s] = StreamTags[t] => s = t
  BY TagsDiffer
<1>5. Registered(NodeChannels \o NodeChannels) = Node
  BY TwiceIsOnce
<1> QED
  BY <1>1, <1>2, <1>3, <1>4, <1>5, StartsAndStops, NinthGetsNone
     DEF RequestsName, SlotsAreOwn, TagsTell

-----------------------------------------------------------------------------
(* What requests make of the native settings.                               *)

\* A setting a channel can be in after any requests of the run.
Kept(s) ==
  /\ s \in Slots /\ DOMAIN s = DOMAIN Node
  /\ \A i \in DOMAIN Node :
       /\ s[i].rate > 0
       /\ s[i].batch = Node[i].batch /\ s[i].bytes = Node[i].bytes /\ s[i].class = Node[i].class
       /\ s[i].tag = Node[i].tag

\* A request that changes no batch: it gives none, or names no channel.
Batchless(req) ==
  /\ req.rate \in Nat /\ req.batch \in Nat
  /\ req.batch = 0 \/ (req.tag # 0 /\ req.tag \in Nat /\ req.tag < 65536)

LEMMA StartsAreBatchless ==
  ASSUME NEW c \in Nat, c < 65536, NEW r \in Nat, NEW p \in Nat
  PROVE  Batchless(StartRequest([cmd_id |-> c, param1 |-> r, param2 |-> p]))
<1> DEFINE cmd == [cmd_id |-> c, param1 |-> r, param2 |-> p]
           req == StartRequest(cmd)
<1>1. cmd.param2 = p /\ cmd.param1 = r /\ cmd.cmd_id = c
  OBVIOUS
<1> HIDE DEF cmd
<1>2. /\ req.tag = IF p > 100 THEN p ELSE c
      /\ req.rate = IF r = 10000 THEN 0 ELSE r
      /\ req.batch = IF req.tag # 0 /\ p \in 1 .. 100 THEN p ELSE 0
  BY <1>1, RequestIs, SMT
<1> HIDE DEF req
<1>3. req.rate \in Nat /\ req.batch \in Nat
  BY <1>2, SMT
<1>4. req.batch = 0 \/ (req.tag # 0 /\ req.tag = c)
  BY <1>2, SMT
<1> QED
  BY <1>3, <1>4, SMT DEF Batchless, req, cmd

LEMMA CliStartsAreBatchless ==
  ASSUME NEW words, Len(words) = 1 => words[1].number \in Nat, Len(words) = 2 => words[2].number \in Nat
  PROVE  Batchless(CliStart(words))
<1>1. CliStart(words).batch = 0 /\ CliStart(words).rate \in Nat
  BY DEF CliStart
<1> QED
  BY <1>1, SMT DEF Batchless

LEMMA NumbersAre ==
  ASSUME NEW r \in Nat
  PROVE  NumberWord(r).number \in Nat
<1>1. NumberWord(r).number = r % 2 ^ 16 /\ 2 ^ 16 = 65536
  BY SMT DEF NumberWord
<1> QED
  BY <1>1, SMT

LEMMA RequestsAreBatchless == \A req \in Requests : Batchless(req)
<1>1. \A r \in Rates : r \in Nat
  BY SMT DEF Rates
<1>2. ASSUME NEW c \in {0, 7}, NEW r \in Rates, NEW p \in {0, 1, 50, 100, 101} \cup {StreamTags[t] : t \in DOMAIN StreamTags}
      PROVE  Batchless(StartRequest([cmd_id |-> c, param1 |-> r, param2 |-> p]))
  <2>1. p \in Nat
    <3>1. \A t \in DOMAIN StreamTags : StreamTags[t] \in Nat
      <4>1. \A t \in DOMAIN StreamTags : Large(StreamTags[t])
        BY TagsDiffer
      <4> QED
        BY <4>1, SMT DEF Large
    <3> QED
      BY <3>1, SMT
  <2>2. c \in Nat /\ c < 65536 /\ r \in Nat
    BY <1>1, SMT
  <2> QED
    BY <2>1, <2>2, StartsAreBatchless, SMT
<1>3. ASSUME NEW words,
             words \in {<<TagWord(t), NumberWord(r)>> : t \in {"CNTR", "STR6"}, r \in Rates}
                         \cup {<<NumberWord(r)>> : r \in Rates} \cup {<<>>}
      PROVE  Batchless(CliStart(words))
  <2>1. CASE \E t \in {"CNTR", "STR6"}, r \in Rates : words = <<TagWord(t), NumberWord(r)>>
    <3>1. PICK t \in {"CNTR", "STR6"}, r \in Rates : words = <<TagWord(t), NumberWord(r)>>
      BY <2>1
    <3> DEFINE u == TagWord(t)
               n == NumberWord(r)
    <3>2. n.number \in Nat
      BY <1>1, NumbersAre
    <3> HIDE DEF u, n
    <3>3. words = <<u, n>>
      BY <3>1 DEF u, n
    <3>4. Len(words) = 2 /\ words[2] = n
      BY <3>3
    <3> QED
      BY <3>2, <3>4, CliStartsAreBatchless
  <2>2. CASE \E r \in Rates : words = <<NumberWord(r)>>
    <3>1. PICK r \in Rates : words = <<NumberWord(r)>>
      BY <2>2
    <3> DEFINE n == NumberWord(r)
    <3>2. n.number \in Nat
      BY <1>1, NumbersAre
    <3> HIDE DEF n
    <3>3. words = <<n>>
      BY <3>1 DEF n
    <3>4. Len(words) = 1 /\ words[1] = n
      BY <3>3
    <3> QED
      BY <3>2, <3>4, CliStartsAreBatchless
  <2>3. CASE words = <<>>
    <3>1. Len(words) = 0
      BY <2>3
    <3> QED
      BY <3>1, CliStartsAreBatchless
  <2> QED
    BY <1>3, <2>1, <2>2, <2>3
<1> DEFINE P == {0, 1, 50, 100, 101} \cup {StreamTags[t] : t \in DOMAIN StreamTags}
           W == {<<TagWord(t), NumberWord(r)>> : t \in {"CNTR", "STR6"}, r \in Rates}
                  \cup {<<NumberWord(r)>> : r \in Rates} \cup {<<>>}
           A == {StartRequest([cmd_id |-> c, param1 |-> r, param2 |-> p]) : c \in {0, 7}, r \in Rates, p \in P}
           B == {CliStart(words) : words \in W}
<1>4. Requests = A \cup B
  BY DEF Requests
<1> HIDE DEF P, W, A, B
<1>5. \A req \in A : Batchless(req)
  <2>1. TAKE req \in A
  <2>2. PICK c \in {0, 7}, r \in Rates, p \in P :
          req = StartRequest([cmd_id |-> c, param1 |-> r, param2 |-> p])
    BY <2>1, SMTT(40) DEF A
  <2>3. Batchless(StartRequest([cmd_id |-> c, param1 |-> r, param2 |-> p]))
    BY <1>2 DEF P
  <2> QED
    BY <2>2, <2>3
<1>6. \A req \in B : Batchless(req)
  BY <1>3 DEF W, B
<1> QED
  BY <1>4, <1>5, <1>6

\* A setting with the batch of its own class.
Own(ch) == ch.class # "Stress" => ch.batch = 1

LEMMA ConfiguredKeeps ==
  ASSUME NEW ch \in Channels, ch.rate > 0, Own(ch), NEW req, req.rate \in Nat, req.batch = 0
  PROVE  LET after == Configured(ch, req)
         IN  /\ after.rate > 0 /\ after.batch = ch.batch /\ after.bytes = ch.bytes
             /\ after.class = ch.class /\ after.tag = ch.tag
<1> DEFINE on == [ch EXCEPT !.enabled = TRUE]
           rate == req.rate
<1>1. Configured(ch, req) = SetRate(on, rate)
  BY SMT DEF Configured
<1>2. /\ on.rate = ch.rate /\ on.batch = ch.batch /\ on.bytes = ch.bytes /\ on.class = ch.class
      /\ on.tag = ch.tag /\ on \in Channels
  BY DEF Channels
<1> HIDE DEF on, rate
<1>3. rate \in Nat
  BY DEF rate
<1>4. CASE rate = 0
  BY <1>1, <1>2, <1>4 DEF SetRate
<1>5. CASE rate # 0 /\ on.class = "Stress"
  <2> DEFINE after == [on EXCEPT !.rate = rate]
  <2>1. SetRate(on, rate) = after
    BY <1>5 DEF SetRate
  <2>2. /\ after.rate = rate /\ after.batch = on.batch /\ after.bytes = on.bytes /\ after.class = on.class
        /\ after.tag = on.tag
    BY <1>2 DEF Channels
  <2> HIDE DEF after
  <2> QED
    BY <1>1, <1>2, <1>3, <1>5, <2>1, <2>2
<1>6. CASE rate # 0 /\ on.class # "Stress"
  <2> DEFINE after == [on EXCEPT !.rate = rate, !.batch = 1]
  <2>1. SetRate(on, rate) = after
    BY <1>6 DEF SetRate
  <2>2. /\ after.rate = rate /\ after.batch = 1 /\ after.bytes = on.bytes /\ after.class = on.class
        /\ after.tag = on.tag
    BY <1>2 DEF Channels
  <2> HIDE DEF after
  <2> QED
    BY <1>1, <1>2, <1>3, <1>6, <2>1, <2>2 DEF Own
<1> QED
  BY <1>4, <1>5, <1>6

LEMMA KeptAre ==
  ASSUME NEW s, Kept(s), NEW i \in DOMAIN Node
  PROVE  /\ s \in Slots /\ i \in DOMAIN s /\ s[i] \in Channels /\ Own(s[i])
         /\ s[i].tag \in Nat /\ s[i].tag > 65535
<1>1. s \in Slots /\ i \in DOMAIN s /\ s[i].batch = Node[i].batch /\ s[i].class = Node[i].class
  BY DEF Kept
<1>2. s[i] \in Channels /\ s[i].tag > 65535
  BY <1>1, SMT DEF Slots
<1>3. s[i].tag \in Nat
  BY <1>2 DEF Channels
<1> DEFINE n == Node
<1>4. NativeIs(n)
  BY NodeIsNative
<1> HIDE DEF n
<1>5. DOMAIN n = 1 .. 5
  BY <1>4 DEF NativeIs
<1>6. \A j \in 1 .. 5 : j = 1 \/ j = 2 \/ j = 3 \/ j = 4 \/ j = 5
  OBVIOUS
<1>7. \A j \in DOMAIN n : n[j].class # "Stress" => n[j].batch = 1
  BY <1>4, <1>5, <1>6 DEF NativeIs
<1> QED
  BY <1>1, <1>2, <1>3, <1>7 DEF Own, n

LEMMA RequestKeeps ==
  ASSUME NEW s, Kept(s), NEW req, Batchless(req)
  PROVE  Kept(start_streaming(s, req))
<1> DEFINE after == start_streaming(s, req)
<1>1. s \in Slots /\ DOMAIN s = DOMAIN Node /\ req.rate \in Nat /\ req.batch \in Nat
  BY DEF Kept, Batchless
<1>2. after \in Slots
  BY <1>1, SlotsStay
<1>3. DOMAIN after = DOMAIN Node
  BY <1>1 DEF start_streaming
<1> HIDE DEF after
<1>4. ASSUME NEW i \in DOMAIN Node
      PROVE  /\ after[i].rate > 0
             /\ after[i].batch = s[i].batch /\ after[i].bytes = s[i].bytes /\ after[i].class = s[i].class
             /\ after[i].tag = s[i].tag
  <2>1. i \in DOMAIN s /\ s[i] \in Channels /\ Own(s[i]) /\ s[i].tag \in Nat
    BY KeptAre
  <2>2. s[i].rate > 0
    BY DEF Kept
  <2>3. after[i] = IF i \in (IF req.tag # 0 THEN find_channel(s, req.tag) ELSE DOMAIN s)
                   THEN Configured(s[i], req) ELSE s[i]
    BY <2>1, StartedAre DEF after
  <2>4. CASE i \in (IF req.tag # 0 THEN find_channel(s, req.tag) ELSE DOMAIN s)
    <3>1. req.tag # 0 => s[i].tag = req.tag
      BY <2>4 DEF find_channel
    <3>2. s[i].tag > 65535
      BY KeptAre
    <3>3. req.batch = 0
      BY <2>1, <3>1, <3>2, SMT DEF Batchless
    <3> QED
      BY <1>1, <2>1, <2>2, <2>3, <2>4, <3>3, ConfiguredKeeps
  <2>5. CASE ~ (i \in (IF req.tag # 0 THEN find_channel(s, req.tag) ELSE DOMAIN s))
    BY <2>2, <2>3, <2>5
  <2> QED
    BY <2>4, <2>5
<1>5. \A i \in DOMAIN Node :
        /\ s[i].batch = Node[i].batch /\ s[i].bytes = Node[i].bytes /\ s[i].class = Node[i].class
        /\ s[i].tag = Node[i].tag
  BY DEF Kept
<1>6. Kept(after)
  BY <1>2, <1>3, <1>4, <1>5 DEF Kept
<1> QED
  BY <1>6 DEF after

LEMMA SettingsAreKept == \A s \in Settings : \E k : Kept(k) /\ s[1] \in DOMAIN Node /\ s[2] = k[s[1]]
<1> DEFINE one == After({Node})
           two == After(one)
<1>1. Kept(Node)
  <2> DEFINE n == Node
  <2>1. NativeIs(n) /\ n \in Slots
    BY NodeIsNative
  <2> HIDE DEF n
  <2>2. DOMAIN n = 1 .. 5
    BY <2>1 DEF NativeIs
  <2>3. \A j \in 1 .. 5 : j = 1 \/ j = 2 \/ j = 3 \/ j = 4 \/ j = 5
    OBVIOUS
  <2>4. \A i \in DOMAIN n : n[i].rate > 0
    BY <2>1, <2>2, <2>3 DEF NativeIs
  <2> QED
    BY <2>1, <2>4 DEF Kept, n
<1>2. ASSUME NEW configs, \A k \in configs : Kept(k) PROVE \A k \in After(configs) : Kept(k)
  BY <1>2, RequestsAreBatchless, RequestKeeps DEF After
<1>3. \A k \in one : Kept(k)
  <2>1. \A k \in {Node} : Kept(k)
    BY <1>1
  <2> QED
    BY <1>2, <2>1
<1>4. \A k \in two : Kept(k)
  <2> HIDE DEF one
  <2> QED
    BY <1>2, <1>3
<1> HIDE DEF one, two
<1>5. \A k \in {Node} \cup one \cup two : Kept(k)
  BY <1>1, <1>3, <1>4
<1>6. Settings = UNION {{<<i, slots[i]>> : i \in DOMAIN Node} : slots \in {Node} \cup one \cup two}
  BY DEF Settings, one, two
<1>7. TAKE s \in Settings
<1>8. PICK k \in {Node} \cup one \cup two : \E i \in DOMAIN Node : s = <<i, k[i]>>
  BY <1>6, <1>7
<1> QED
  BY <1>5, <1>8

LEMMA TheRatesTake == RatesTake
<1> DEFINE n == Node
<1>1. NativeIs(n) /\ n \in Slots /\ Len(n) = 5
  BY NodeIsNative
<1> HIDE DEF n
<1>2. DOMAIN n = 1 .. 5 /\ \A j \in 1 .. 5 : j = 1 \/ j = 2 \/ j = 3 \/ j = 4 \/ j = 5
  BY <1>1 DEF NativeIs
<1>3. \A i \in DOMAIN n : \E u \in TagNames : StreamTags[u] = n[i].tag
  <2>1. /\ "CNTR" \in TagNames /\ "TEMP" \in TagNames /\ "STR1" \in TagNames /\ "STR6" \in TagNames
        /\ "RAW0" \in TagNames
    BY DEF TagNames
  <2> QED
    BY <1>1, <1>2, <2>1 DEF NativeIs
<1>4. DOMAIN StreamTags = TagNames
  BY TagsSpell, Zenon
<1>5. ASSUME NEW i \in DOMAIN n, NEW r \in Rates \ {0, 10000}
      PROVE  LET after == start_streaming(n, StartRequest(ViewStart(NameOf(n[i]), r)))
             IN  /\ after[i].rate = r /\ after[i].enabled
                 /\ \A j \in DOMAIN n \ {i} : after[j] = n[j]
  <2> DEFINE t == NameOf(n[i])
             tag == StreamTags[t]
             cmd == [cmd_id |-> 0, param1 |-> r, param2 |-> tag]
             after == start_streaming(n, StartRequest(cmd))
  <2>1. t \in TagNames /\ tag = n[i].tag
    BY <1>3, <1>4 DEF NameOf
  <2>2. ViewStart(t, r) = cmd
    BY DEF ViewStart
  <2> HIDE DEF t
  <2>3. tag \in Nat
    <3>1. Large(tag)
      BY <1>4, <2>1, TagsDiffer
    <3> QED
      BY <3>1, SMT DEF Large
  <2>4. r \in Words16 /\ 0 \in Words16 /\ r \notin {0, 10000}
    BY SMT DEF Rates, Words16
  <2> HIDE DEF tag
  <2>5. \A j \in DOMAIN n :
          tag = n[j].tag =>
            /\ after[j].enabled
            /\ after[j].rate = IF r \in {0, 10000} THEN n[j].rate ELSE r
            /\ \A l \in DOMAIN n \ {j} : after[l] = n[l]
    BY <1>1, <2>3, <2>4, RequestsTake
  <2>6. start_streaming(n, StartRequest(ViewStart(t, r))) = after
    BY <2>2
  <2> HIDE DEF after, cmd
  <2>7. after[i].rate = r /\ after[i].enabled /\ \A j \in DOMAIN n \ {i} : after[j] = n[j]
    BY <2>1, <2>4, <2>5
  <2> QED
    BY <2>6, <2>7 DEF t
<1>6. \A s \in Settings : s[2].batch = Node[s[1]].batch
  <2>1. TAKE s \in Settings
  <2>2. PICK k : Kept(k) /\ s[1] \in DOMAIN Node /\ s[2] = k[s[1]]
    BY SettingsAreKept
  <2> QED
    BY <2>2 DEF Kept
<1> QED
  BY <1>5, <1>6 DEF RatesTake, n

LEMMA TheFramesFit == FramesFit
<1>1. \A bytes \in 1 .. 1500, batch \in Batches : batch \in Nat /\ bytes \in Nat \ {0}
  BY SMT DEF Batches
<1> QED
  BY <1>1, EveryFrameFits DEF FramesFit

\* What keeping up says of a channel by its numbers.
LEMMA KeepingUp ==
  ASSUME NEW ch, NEW most \in Nat, most = (MaxTxBuffer - Headers) \div ch.bytes,
         ch.batch \in 1 .. 100, ch.rate \in Nat \ {0}
  PROVE  LET ms == (ch.batch * 1000) \div ch.rate
         IN  KeepsUp(ch) <=> (IF ch.batch > most THEN most ELSE ch.batch) * 1000 >=
                               ch.rate * (IF ms < 1 THEN 1 ELSE ms)
<1>1. Samples(ch.batch, ch.bytes) = IF ch.batch > most THEN most ELSE ch.batch
  BY DEF Samples
<1>2. Interval(ch) = IF (ch.batch * 1000) \div ch.rate < 1 THEN 1 ELSE (ch.batch * 1000) \div ch.rate
  <2>1. ch.rate # 0 /\ ch.batch # 0
    BY SMT
  <2> QED
    BY <2>1 DEF Interval
<1> QED
  BY <1>1, <1>2 DEF KeepsUp

LEMMA NativeKeepUp == {i \in DOMAIN Node : ~ KeepsUp(Node[i])} = {3, 5}
<1> DEFINE n == Node
<1>1. NativeIs(n)
  BY NodeIsNative
<1> HIDE DEF n
<1>2. DOMAIN n = 1 .. 5 /\ \A j \in 1 .. 5 : j = 1 \/ j = 2 \/ j = 3 \/ j = 4 \/ j = 5
  BY <1>1 DEF NativeIs
<1>3. MaxTxBuffer - Headers = 1436
  BY SMT DEF MaxTxBuffer, Headers
<1>4. 1436 \div 4 = 359 /\ 1436 \div 32 = 44 /\ 1436 \div 128 = 11
  BY SMT
<1>5. KeepsUp(n[1])
  <2> DEFINE ch == n[1]
  <2>1. ch.rate = 10 /\ ch.batch = 1 /\ ch.bytes = 4
    BY <1>1 DEF NativeIs
  <2> HIDE DEF ch
  <2>2. 359 = (MaxTxBuffer - Headers) \div ch.bytes
    BY <1>3, <1>4, <2>1
  <2>3. (1 * 1000) \div 10 = 100
    BY SMT
  <2>4. KeepsUp(ch)
    BY <2>1, <2>2, <2>3, KeepingUp, SMT
  <2> QED
    BY <2>4 DEF ch
<1>6. KeepsUp(n[2])
  <2> DEFINE ch == n[2]
  <2>1. ch.rate = 1 /\ ch.batch = 1 /\ ch.bytes = 4
    BY <1>1 DEF NativeIs
  <2> HIDE DEF ch
  <2>2. 359 = (MaxTxBuffer - Headers) \div ch.bytes
    BY <1>3, <1>4, <2>1
  <2>3. (1 * 1000) \div 1 = 1000
    BY SMT
  <2>4. KeepsUp(ch)
    BY <2>1, <2>2, <2>3, KeepingUp, SMT
  <2> QED
    BY <2>4 DEF ch
<1>7. ~ KeepsUp(n[3])
  <2> DEFINE ch == n[3]
  <2>1. ch.rate = 1000 /\ ch.batch = 45 /\ ch.bytes = 32
    BY <1>1 DEF NativeIs
  <2> HIDE DEF ch
  <2>2. 44 = (MaxTxBuffer - Headers) \div ch.bytes
    BY <1>3, <1>4, <2>1
  <2>3. (45 * 1000) \div 1000 = 45
    BY SMT
  <2>4. ~ KeepsUp(ch)
    BY <2>1, <2>2, <2>3, KeepingUp, SMT
  <2> QED
    BY <2>4 DEF ch
<1>8. KeepsUp(n[4])
  <2> DEFINE ch == n[4]
  <2>1. ch.rate = 5000 /\ ch.batch = 11 /\ ch.bytes = 128
    BY <1>1 DEF NativeIs
  <2> HIDE DEF ch
  <2>2. 11 = (MaxTxBuffer - Headers) \div ch.bytes
    BY <1>3, <1>4, <2>1
  <2>3. (11 * 1000) \div 5000 = 2
    BY SMT
  <2>4. KeepsUp(ch)
    BY <2>1, <2>2, <2>3, KeepingUp, SMT
  <2> QED
    BY <2>4 DEF ch
<1>9. ~ KeepsUp(n[5])
  <2> DEFINE ch == n[5]
  <2>1. ch.rate = 50000 /\ ch.batch = 11 /\ ch.bytes = 128
    BY <1>1 DEF NativeIs
  <2> HIDE DEF ch
  <2>2. 11 = (MaxTxBuffer - Headers) \div ch.bytes
    BY <1>3, <1>4, <2>1
  <2>3. (11 * 1000) \div 50000 = 0
    BY SMT
  <2>4. ~ KeepsUp(ch)
    BY <2>1, <2>2, <2>3, KeepingUp, SMT
  <2> QED
    BY <2>4 DEF ch
<1>10. \A i \in DOMAIN n : ~ KeepsUp(n[i]) <=> i \in {3, 5}
  BY <1>2, <1>5, <1>6, <1>7, <1>8, <1>9
<1>11. 3 \in DOMAIN n /\ 5 \in DOMAIN n
  BY <1>2
<1> QED
  BY <1>10, <1>11 DEF n

LEMMA TheStreamsKeepUp == StreamsKeepUp
<1>1. ASSUME NEW s \in Settings
      PROVE  LET ch == s[2]
             IN  /\ Samples(ch.batch, ch.bytes) = ch.batch /\ ch.batch * 1000 >= ch.rate =>
                      KeepsUp(ch) /\ ch.batch * 1000 < ch.rate * (Interval(ch) + 1)
                 /\ ch.class # "Stress" => Interval(ch) <= 1000
  <2>1. PICK k : Kept(k) /\ s[1] \in DOMAIN Node /\ s[2] = k[s[1]]
    BY SettingsAreKept
  <2> DEFINE i == s[1]
             ch == s[2]
  <2>2. ch = k[i] /\ i \in DOMAIN Node
    BY <2>1
  <2> HIDE DEF i, ch
  <2>3. ch \in Channels /\ Own(ch) /\ ch.rate > 0
    BY <2>1, <2>2, KeptAre DEF Kept
  <2>4. Samples(ch.batch, ch.bytes) = ch.batch /\ ch.batch * 1000 >= ch.rate =>
          KeepsUp(ch) /\ ch.batch * 1000 < ch.rate * (Interval(ch) + 1)
    BY <2>3, StreamKeepsUp
  <2>5. ASSUME ch.class # "Stress" PROVE Interval(ch) <= 1000
    <3> DEFINE rate == ch.rate
               ms == 1000 \div rate
    <3>1. ch.batch = 1 /\ rate \in Nat \ {0}
      BY <2>3, <2>5 DEF Own, Channels
    <3>2. Interval(ch) = IF ms < 1 THEN 1 ELSE ms
      <4>1. ch.batch * 1000 = 1000 /\ ch.batch # 0 /\ ch.rate # 0
        BY <3>1
      <4> QED
        BY <4>1 DEF Interval
    <3> HIDE DEF rate
    <3>3. ms \in Nat /\ rate * ms <= 1000
      BY <3>1, Quotient
    <3> HIDE DEF ms
    <3>4. ms <= rate * ms
      <4>1. rate >= 1
        BY <3>1
      <4>2. rate = (rate - 1) + 1 /\ rate - 1 \in Nat
        BY <3>1
      <4>3. ms * ((rate - 1) + 1) = ms * (rate - 1) + ms
        BY <3>3, <4>2, Distributes
      <4>4. ms * (rate - 1) \in Nat
        BY <3>3, <4>2
      <4>5. ms * rate = ms * (rate - 1) + ms
        BY <4>2, <4>3
      <4>6. ms * rate = rate * ms
        BY <3>1, <3>3
      <4> QED
        BY <3>1, <3>3, <4>4, <4>5, <4>6
    <3>5. rate * ms \in Nat
      BY <3>1, <3>3
    <3> QED
      BY <3>2, <3>3, <3>4, <3>5
  <2> QED
    BY <2>4, <2>5 DEF ch
<1> QED
  BY <1>1, NativeKeepUp DEF StreamsKeepUp

\* Sent of a schedule, as the loop that it is.
SendTurn(s, k, schedule) == sendChannelFrame(s, Node, schedule[k][1], schedule[k][2])
Start(counter) == [seq_num |-> 0, counter |-> [i \in DOMAIN Node |-> counter], sent |-> <<>>]
Sends(f, counter, schedule) ==
  /\ DOMAIN f = 0 .. 4
  /\ f[0] = Start(counter)
  /\ \A k \in 1 .. 4 : f[k] = SendTurn(f[k - 1], k, schedule)

LEMMA SentUnfolds ==
  ASSUME NEW schedule, NEW counter
  PROVE  \E f : Sends(f, counter, schedule) /\ Sent(schedule, counter) = f[4].sent
<1> DEFINE s0 == Start(counter)
           s1 == SendTurn(s0, 1, schedule)
           s2 == SendTurn(s1, 2, schedule)
           s3 == SendTurn(s2, 3, schedule)
           s4 == SendTurn(s3, 4, schedule)
           f == [k \in 0 .. 4 |-> IF k = 0 THEN s0 ELSE IF k = 1 THEN s1 ELSE IF k = 2 THEN s2
                                  ELSE IF k = 3 THEN s3 ELSE s4]
           Body(g) == [k \in 0 .. 4 |-> IF k = 0 THEN s0 ELSE SendTurn(g[k - 1], k, schedule)]
           after == CHOOSE g : g = Body(g)
<1>1. Sent(schedule, counter) = after[4].sent
  BY DEF Sent, SendTurn, Start
<1>2. s1 = SendTurn(s0, 1, schedule) /\ s2 = SendTurn(s1, 2, schedule) /\ s3 = SendTurn(s2, 3, schedule)
      /\ s4 = SendTurn(s3, 4, schedule)
  OBVIOUS
<1> HIDE DEF s0, s1, s2, s3, s4
<1>3. DOMAIN f = 0 .. 4 /\ f[0] = s0 /\ f[1] = s1 /\ f[2] = s2 /\ f[3] = s3 /\ f[4] = s4
  OBVIOUS
<1> HIDE DEF f
<1>4. \A k \in 1 .. 4 : k = 1 \/ k = 2 \/ k = 3 \/ k = 4
  OBVIOUS
<1>5. \A k \in 1 .. 4 : f[k] = SendTurn(f[k - 1], k, schedule)
  <2>1. 1 - 1 = 0 /\ 2 - 1 = 1 /\ 3 - 1 = 2 /\ 4 - 1 = 3
    OBVIOUS
  <2> QED
    BY <1>2, <1>3, <1>4, <2>1
<1>6. f = Body(f)
  <2>1. \A k \in 0 .. 4 : f[k] = IF k = 0 THEN s0 ELSE SendTurn(f[k - 1], k, schedule)
    <3>1. \A k \in 0 .. 4 : k = 0 \/ k \in 1 .. 4
      OBVIOUS
    <3> QED
      BY <1>3, <1>5, <3>1
  <2>2. f = [k \in 0 .. 4 |-> f[k]]
    BY <1>3 DEF f
  <2> QED
    BY <2>1, <2>2
<1>7. after = Body(after)
  BY <1>6
<1> HIDE DEF after
<1>8. /\ DOMAIN after = 0 .. 4
      /\ \A k \in 0 .. 4 : after[k] = IF k = 0 THEN s0 ELSE SendTurn(after[k - 1], k, schedule)
  <2>1. /\ DOMAIN Body(after) = 0 .. 4
        /\ \A k \in 0 .. 4 : Body(after)[k] = IF k = 0 THEN s0 ELSE SendTurn(after[k - 1], k, schedule)
    OBVIOUS
  <2> HIDE DEF Body
  <2> QED
    BY <1>7, <2>1
<1>9. 0 \in 0 .. 4 /\ \A k \in 1 .. 4 : k \in 0 .. 4 /\ k # 0
  OBVIOUS
<1>10. Sends(after, counter, schedule)
  BY <1>8, <1>9 DEF Sends, s0
<1> QED
  BY <1>1, <1>10

LEMMA TheGapsShow == NoGapNoLoss
<1>1. ASSUME NEW schedule \in Schedules, NEW counter \in Nat
      PROVE  LET sent == Sent(schedule, counter)
             IN  \A j, k \in DOMAIN sent :
                   Follows(sent, j, k) =>
                     sent[k].first = Produce(Node[sent[j].slot], sent[j].last, 1).first
  <2> DEFINE n == Node
             counters == [i \in DOMAIN n |-> counter]
  <2>1. n \in Seq(Channels) /\ DOMAIN n = 1 .. 5
    BY NodeIsNative, SMT DEF Slots
  <2>2. schedule \in [1 .. 4 -> (DOMAIN n) \X BOOLEAN]
    <3>1. {1, 3} \subseteq DOMAIN n
      BY <2>1
    <3> QED
      BY <3>1 DEF Schedules
  <2>3. counters \in [DOMAIN n -> Nat]
    OBVIOUS
  <2>4. PICK f : Sends(f, counter, schedule) /\ Sent(schedule, counter) = f[4].sent
    BY SentUnfolds
  <2>5. SendsAll(f, n, 4, schedule, counters)
    BY <2>4 DEF Sends, Start, SendTurn, SendsAll
  <2> HIDE DEF n, counters
  <2>6. 4 \in Nat
    OBVIOUS
  <2>7. NoneMissing(f[4].sent, n)
    BY <2>1, <2>2, <2>3, <2>5, <2>6, NoGapIsNoLoss
  <2> QED
    BY <2>4, <2>7 DEF n, NoneMissing
<1>2. \A counter \in {0, 65500} : counter \in Nat
  BY SMT
<1> SUFFICES ASSUME NEW schedule \in Schedules, NEW counter \in {0, 65500}
             PROVE  LET sent == Sent(schedule, counter)
                    IN  \A j, k \in DOMAIN sent :
                          Follows(sent, j, k) =>
                            sent[k].first = Produce(Node[sent[j].slot], sent[j].last, 1).first
  BY DEF NoGapNoLoss, Follows
<1> QED
  BY <1>1, <1>2

\* A node that streams sends what was asked for (TelemetryService.cpp,
\* ITelemetryChannel.h, ethernetdev/main.cpp): its channels have slots of their
\* own, requests reach the one they name, the rate asked for is the rate it has
\* and keeps up, frames fit a datagram and none is lost without a gap.
THEOREM StreamsAreSound == StreamsHold
BY TheRequestsName, TheRatesTake, TheFramesFit, TheStreamsKeepUp, TheGapsShow
   DEF StreamsHold, StreamsDeliver

-----------------------------------------------------------------------------
(* The words of a line.                                                     *)

\* Positions p[1] < p[2] < ... and the set of the first n of them.
Rising(p, k) ==
  /\ p \in [1 .. k -> Nat]
  /\ \A m, n \in 1 .. k : m < n => p[m] < p[n]
Reached(p, n) == {p[m] : m \in 1 .. n}

LEMMA ReachedCount ==
  ASSUME NEW k \in Nat, NEW p, Rising(p, k)
  PROVE  \A n \in 0 .. k : IsFiniteSet(Reached(p, n)) /\ Cardinality(Reached(p, n)) = n
<1> DEFINE S == {n \in 0 .. k : IsFiniteSet(Reached(p, n)) /\ Cardinality(Reached(p, n)) = n}
<1>1. 0 \in S
  <2>1. Reached(p, 0) = {}
    BY DEF Reached
  <2> QED
    BY <2>1, FS_EmptySet
<1>2. ASSUME NEW n \in 0 .. k - 1, n \in S PROVE n + 1 \in S
  <2> DEFINE m == n + 1
  <2>1. m \in 1 .. k /\ m \in 0 .. k /\ n \in 0 .. k
    OBVIOUS
  <2>2. \A i \in 1 .. m : i \in 1 .. n \/ i = m
    OBVIOUS
  <2>3. \A i \in 1 .. n : i \in 1 .. m /\ i \in 1 .. k /\ i < m
    OBVIOUS
  <2>4. m \in 1 .. m
    OBVIOUS
  <2> HIDE DEF m
  <2>5. Reached(p, m) = Reached(p, n) \cup {p[m]}
    BY <2>2, <2>3, <2>4 DEF Reached
  <2>6. p[m] \notin Reached(p, n)
    <3>1. \A i \in 1 .. n : p[i] \in Nat /\ p[m] \in Nat /\ p[i] < p[m]
      BY <2>1, <2>3 DEF Rising
    <3>2. \A i \in 1 .. n : p[i] # p[m]
      BY <3>1
    <3> QED
      BY <3>2 DEF Reached
  <2>7. IsFiniteSet(Reached(p, n)) /\ Cardinality(Reached(p, n)) = n
    BY <1>2
  <2>8. IsFiniteSet(Reached(p, m)) /\ Cardinality(Reached(p, m)) = n + 1
    BY <2>5, <2>6, <2>7, FS_AddElement
  <2> QED
    BY <2>1, <2>8 DEF m
<1> HIDE DEF S
<1>3. \A n \in 0 .. k : n \in S
  BY <1>1, <1>2, SetInduction
<1> QED
  BY <1>3 DEF S

LEMMA NthOfRising ==
  ASSUME NEW k \in Nat, NEW p, Rising(p, k)
  PROVE  /\ Cardinality(Reached(p, k)) = k
         /\ \A n \in 1 .. k : Nth(Reached(p, k), n) = p[n]
<1> DEFINE S == Reached(p, k)
<1>1. \A n \in 1 .. k : p[n] \in Nat
  BY DEF Rising
<1>2. ASSUME NEW m \in 1 .. k PROVE Cardinality({j \in S : j <= p[m]}) = m
  <2>1. \A i \in 1 .. k : p[i] <= p[m] <=> i <= m
    <3>1. \A i \in 1 .. k : (i < m => p[i] < p[m]) /\ (m < i => p[m] < p[i])
      BY DEF Rising
    <3>2. \A i \in 1 .. k : p[i] \in Nat /\ p[m] \in Nat /\ (i < m \/ i = m \/ m < i)
      BY <1>1
    <3> QED
      BY <3>1, <3>2
  <2>2. \A i : i \in 1 .. m <=> i \in 1 .. k /\ i <= m
    OBVIOUS
  <2>3. {j \in S : j <= p[m]} = Reached(p, m)
    BY <2>1, <2>2 DEF Reached
  <2>4. m \in 0 .. k
    OBVIOUS
  <2> QED
    BY <2>3, <2>4, ReachedCount
<1>3. ASSUME NEW n \in 1 .. k PROVE Nth(S, n) = p[n]
  <2>1. p[n] \in S
    BY DEF Reached
  <2>2. \A i \in S : \E m \in 1 .. k : i = p[m]
    BY DEF Reached
  <2> HIDE DEF S
  <2>3. \A i \in S : Cardinality({j \in S : j <= i}) = n => i = p[n]
    BY <1>2, <2>2
  <2>4. Cardinality({j \in S : j <= p[n]}) = n
    BY <1>2
  <2> QED
    BY <2>1, <2>3, <2>4 DEF Nth
<1>4. k \in 0 .. k
  OBVIOUS
<1> QED
  BY <1>3, <1>4, ReachedCount

\* A line of spaces but for the words at the positions p, no two of which touch.
Blanks == {Space, TAB, CR, LF}
WordsAt(line, len, words, p, k) ==
  /\ len \in Nat /\ line \in Seq({words[n] : n \in 1 .. k} \cup {Space}) /\ Len(line) = len
  /\ Rising(p, k)
  /\ \A n \in 1 .. k : p[n] \in 1 .. len /\ line[p[n]] = words[n] /\ words[n] \notin Blanks
  /\ \A i \in 1 .. len : i \notin Reached(p, k) => line[i] = Space
  /\ \A n \in 1 .. k : p[n] + 1 \notin Reached(p, k) /\ p[n] - 1 \notin Reached(p, k)

LEMMA TokensAreWords ==
  ASSUME NEW k \in Nat, NEW p, NEW words, NEW line, NEW len, WordsAt(line, len, words, p, k)
  PROVE  Tokens(line) = [n \in 1 .. k |-> <<words[n]>>]
<1> DEFINE B == {words[n] : n \in 1 .. k} \cup {Space}
<1>1. /\ len \in Nat /\ line \in Seq(B) /\ Len(line) = len /\ Rising(p, k) /\ DOMAIN line = 1 .. len
      /\ \A n \in 1 .. k : p[n] \in 1 .. len /\ line[p[n]] = words[n] /\ words[n] # Space
  BY DEF WordsAt, Blanks
<1>2. \A i \in 1 .. len : i \notin Reached(p, k) => line[i] = Space
  BY DEF WordsAt
<1>3. \A n \in 1 .. k : p[n] + 1 \notin Reached(p, k) /\ p[n] - 1 \notin Reached(p, k)
  BY DEF WordsAt
<1> HIDE DEF B
<1>4. \A i : i \in Reached(p, k) <=> \E n \in 1 .. k : i = p[n]
  BY DEF Reached
<1>5. FirstOf(line) = Reached(p, k)
  <2>1. ASSUME NEW i \in FirstOf(line) PROVE i \in Reached(p, k)
    BY <1>1, <1>2 DEF FirstOf
  <2>2. ASSUME NEW i \in Reached(p, k) PROVE i \in FirstOf(line)
    <3>1. PICK n \in 1 .. k : i = p[n]
      BY <1>4
    <3>2. i \in 1 .. len /\ line[i] # Space /\ i - 1 \notin Reached(p, k)
      BY <1>1, <1>3, <3>1
    <3>3. i = 1 \/ i - 1 \in 1 .. len
      BY <1>1, <3>2
    <3>4. i = 1 \/ line[i - 1] = Space
      BY <1>2, <3>2, <3>3
    <3> QED
      BY <1>1, <3>2, <3>4 DEF FirstOf
  <2> QED
    BY <2>1, <2>2
<1>6. ASSUME NEW n \in 1 .. k PROVE LastOf(line, p[n]) = p[n]
  <2> DEFINE i == p[n]
             Ok(j) == (\A l \in i .. j : line[l] # Space) /\ (j = Len(line) \/ line[j + 1] = Space)
  <2>1. i \in 1 .. len /\ line[i] # Space /\ i + 1 \notin Reached(p, k)
    BY <1>1, <1>3
  <2>2. LastOf(line, i) = CHOOSE j \in i .. Len(line) : Ok(j)
    BY DEF LastOf
  <2> HIDE DEF i
  <2>3. i = len \/ i + 1 \in 1 .. len
    BY <1>1, <2>1
  <2>4. i = len \/ line[i + 1] = Space
    BY <1>2, <2>1, <2>3
  <2>5. \A l \in i .. i : l = i
    BY <2>1
  <2>6. Ok(i) /\ i \in i .. Len(line)
    BY <1>1, <2>1, <2>4, <2>5
  <2>7. ASSUME NEW j \in i .. Len(line), Ok(j) PROVE j = i
    <3>1. CASE j > i
      <4>1. i + 1 \in i .. j /\ i # len
        BY <1>1, <2>1, <3>1
      <4> QED
        BY <2>4, <2>7, <4>1
    <3> QED
      BY <1>1, <2>1, <3>1
  <2> HIDE DEF Ok
  <2>8. (CHOOSE j \in i .. Len(line) : Ok(j)) = i
    BY <2>6, <2>7
  <2> QED
    BY <2>2, <2>8 DEF i
<1>7. ASSUME NEW n \in 1 .. k PROVE SubSeq(line, p[n], p[n]) = <<words[n]>>
  <2> DEFINE i == p[n]
             s == SubSeq(line, i, i)
  <2>1. i \in 1 .. Len(line) /\ line[i] = words[n]
    BY <1>1
  <2> HIDE DEF i
  <2>2. /\ s \in Seq(B)
        /\ Len(s) = IF i <= i THEN i - i + 1 ELSE 0
        /\ \A l \in 1 .. i - i + 1 : s[l] = line[i + l - 1]
    BY <1>1, <2>1, SubSeqIs
  <2>3. i <= i /\ i - i + 1 = 1 /\ i + 1 - 1 = i /\ 1 \in 1 .. 1
    BY <1>1, <2>1
  <2> HIDE DEF s
  <2>4. Len(s) = 1 /\ s[1] = words[n]
    BY <2>1, <2>2, <2>3
  <2>5. s = <<words[n]>>
    <3> DEFINE t == <<words[n]>>
               C == B \cup {words[n]}
    <3>1. t \in Seq(C) /\ Len(t) = 1 /\ t[1] = words[n] /\ s \in Seq(C)
      BY <2>2
    <3> HIDE DEF t, C
    <3>2. \A l \in 1 .. 1 : l = 1
      OBVIOUS
    <3>3. s = t
      BY <2>4, <3>1, <3>2, SameSeq
    <3> QED
      BY <3>3 DEF t
  <2> QED
    BY <2>5 DEF s, i
<1>8. /\ Cardinality(Reached(p, k)) = k
      /\ \A n \in 1 .. k : Nth(Reached(p, k), n) = p[n]
  BY <1>1, NthOfRising
<1>9. Tokens(line) = [n \in 1 .. k |-> SubSeq(line, Nth(Reached(p, k), n), LastOf(line, Nth(Reached(p, k), n)))]
  BY <1>5, <1>8 DEF Tokens
<1>10. \A n \in 1 .. k : SubSeq(line, Nth(Reached(p, k), n), LastOf(line, Nth(Reached(p, k), n))) = <<words[n]>>
  BY <1>6, <1>7, <1>8
<1> QED
  BY <1>9, <1>10, Zenon

\* Where a word begins when every word has width characters.
Place(width, n) == width * (n - 1) + 1

LEMMA Places ==
  ASSUME NEW width \in {2, 3}
  PROVE  /\ \A n \in Nat \ {0} : /\ Place(width, n) \in Nat \ {0} /\ Place(width, n) % width = 1
                                 /\ (Place(width, n) + width - 1) \div width = n
         /\ \A m, n \in Nat \ {0} : m < n => Place(width, m) + 1 < Place(width, n)
         /\ \A i \in Nat \ {0} : i % width = 1 => \E n \in Nat \ {0} : i = Place(width, n)
<1>1. CASE width = 2
  <2>1. \A n \in Nat \ {0} : Place(2, n) = 2 * n - 1
    BY DEF Place
  <2>2. \A i \in Nat \ {0} : i % 2 = 1 => (i + 1) \div 2 \in Nat \ {0} /\ i = 2 * ((i + 1) \div 2) - 1
    BY SMT
  <2>3. \A n \in Nat \ {0} : (2 * n - 1) % 2 = 1 /\ (2 * n - 1 + 2 - 1) \div 2 = n
    BY SMT
  <2>4. \A n \in Nat \ {0} : /\ Place(2, n) \in Nat \ {0} /\ Place(2, n) % 2 = 1
                             /\ (Place(2, n) + 2 - 1) \div 2 = n
    BY <2>1, <2>3
  <2>5. \A m, n \in Nat \ {0} : m < n => Place(2, m) + 1 < Place(2, n)
    BY <2>1
  <2>6. \A i \in Nat \ {0} : i % 2 = 1 => \E n \in Nat \ {0} : i = Place(2, n)
    <3>1. ASSUME NEW i \in Nat \ {0}, i % 2 = 1 PROVE \E n \in Nat \ {0} : i = Place(2, n)
      <4> DEFINE n == (i + 1) \div 2
      <4>1. n \in Nat \ {0} /\ i = 2 * n - 1
        BY <2>2, <3>1
      <4> HIDE DEF n
      <4>2. i = Place(2, n)
        BY <2>1, <4>1
      <4> QED
        BY <4>1, <4>2
    <3> QED
      BY <3>1
  <2> QED
    BY <1>1, <2>4, <2>5, <2>6
<1>2. CASE width = 3
  <2>1. \A n \in Nat \ {0} : Place(3, n) = 3 * n - 2
    BY DEF Place
  <2>2. \A i \in Nat \ {0} : i % 3 = 1 => (i + 2) \div 3 \in Nat \ {0} /\ i = 3 * ((i + 2) \div 3) - 2
    BY SMT
  <2>3. \A n \in Nat \ {0} : (3 * n - 2) % 3 = 1 /\ (3 * n - 2 + 3 - 1) \div 3 = n
    BY SMT
  <2>4. \A n \in Nat \ {0} : /\ Place(3, n) \in Nat \ {0} /\ Place(3, n) % 3 = 1
                             /\ (Place(3, n) + 3 - 1) \div 3 = n
    BY <2>1, <2>3
  <2>5. \A m, n \in Nat \ {0} : m < n => Place(3, m) + 1 < Place(3, n)
    BY <2>1
  <2>6. \A i \in Nat \ {0} : i % 3 = 1 => \E n \in Nat \ {0} : i = Place(3, n)
    <3>1. ASSUME NEW i \in Nat \ {0}, i % 3 = 1 PROVE \E n \in Nat \ {0} : i = Place(3, n)
      <4> DEFINE n == (i + 2) \div 3
      <4>1. n \in Nat \ {0} /\ i = 3 * n - 2
        BY <2>2, <3>1
      <4> HIDE DEF n
      <4>2. i = Place(3, n)
        BY <2>1, <4>1
      <4> QED
        BY <4>1, <4>2
    <3> QED
      BY <3>1
  <2> QED
    BY <1>2, <2>4, <2>5, <2>6
<1> QED
  BY <1>1, <1>2

LEMMA SpreadWords ==
  ASSUME NEW W, NEW words \in Seq(W), \A w \in W : w \notin Blanks, NEW k \in Nat \ {0}, Len(words) = k,
         NEW width \in {2, 3}, NEW len \in Nat, len >= Place(width, k), len <= width * k
  PROVE  WordsAt(Spread(words, width, len), len, words, [n \in 1 .. k |-> Place(width, n)], k)
<1> DEFINE p == [n \in 1 .. k |-> Place(width, n)]
           line == Spread(words, width, len)
           B == {words[n] : n \in 1 .. k} \cup {Space}
<1>1. /\ \A n \in 1 .. k : p[n] = Place(width, n)
      /\ DOMAIN p = 1 .. k
  OBVIOUS
<1>2. \A n \in 1 .. k : n \in Nat \ {0} /\ words[n] \in W
  OBVIOUS
<1>3. \A i \in 1 .. len : line[i] = IF i % width = 1 THEN words[(i + width - 1) \div width] ELSE Space
  BY DEF Spread
<1>4. ASSUME NEW n \in Nat \ {0}, Place(width, n) <= len PROVE n \in 1 .. k
  <2>1. CASE width = 2
    <3>1. Place(width, n) = 2 * n - 1
      BY <2>1 DEF Place
    <3> QED
      BY <1>4, <2>1, <3>1
  <2>2. CASE width = 3
    <3>1. Place(width, n) = 3 * n - 2
      BY <2>2 DEF Place
    <3> QED
      BY <1>4, <2>2, <3>1
  <2> QED
    BY <2>1, <2>2
<1>5. \A n \in 1 .. k : Place(width, n) \in 1 .. len
  <2>1. ASSUME NEW n \in 1 .. k PROVE Place(width, n) \in 1 .. len
    <3>1. n = k \/ Place(width, n) + 1 < Place(width, k)
      <4>1. n \in Nat \ {0} /\ (n = k \/ n < k)
        OBVIOUS
      <4> QED
        BY <4>1, Places
    <3>2. Place(width, n) \in Nat \ {0} /\ Place(width, k) \in Nat \ {0}
      BY <1>2, Places
    <3> QED
      BY <3>1, <3>2
  <2> QED
    BY <2>1
<1>6. Rising(p, k)
  <2>1. ASSUME NEW m \in 1 .. k, NEW n \in 1 .. k, m < n PROVE p[m] < p[n]
    <3>1. Place(width, m) + 1 < Place(width, n)
      BY <1>2, <2>1, Places
    <3>2. Place(width, m) \in 1 .. len /\ Place(width, n) \in 1 .. len
      BY <1>5
    <3> QED
      BY <1>1, <3>1, <3>2
  <2>2. p \in [1 .. k -> Nat]
    BY <1>5
  <2> HIDE DEF p
  <2> QED
    BY <2>1, <2>2 DEF Rising
<1>7. \A i : i \in Reached(p, k) <=> \E n \in 1 .. k : i = Place(width, n)
  BY <1>1, Zenon DEF Reached
<1> HIDE DEF p
<1>8. ASSUME NEW i \in 1 .. len, i % width = 1
      PROVE  \E n \in 1 .. k : i = Place(width, n)
  <2>1. i \in Nat \ {0}
    OBVIOUS
  <2>2. PICK n \in Nat \ {0} : i = Place(width, n)
    BY <1>8, <2>1, Places
  <2> QED
    BY <1>4, <2>2
<1>9. ASSUME NEW n \in 1 .. k PROVE line[Place(width, n)] = words[n]
  <2>1. Place(width, n) % width = 1 /\ (Place(width, n) + width - 1) \div width = n
    BY <1>2, Places
  <2> QED
    BY <1>3, <1>5, <2>1
<1>10. \A i \in 1 .. len : i \notin Reached(p, k) => line[i] = Space
  BY <1>3, <1>7, <1>8
<1>11. \A i \in 1 .. len : line[i] \in B
  <2>1. ASSUME NEW i \in 1 .. len PROVE line[i] \in B
    <3>1. CASE i \in Reached(p, k)
      BY <1>7, <1>9, <3>1
    <3>2. CASE i \notin Reached(p, k)
      BY <1>10, <3>2
    <3> QED
      BY <3>1, <3>2
  <2> QED
    BY <2>1
<1>12. line \in Seq(B) /\ Len(line) = len
  <2>1. line = [i \in 1 .. len |-> line[i]]
    BY DEF Spread
  <2> HIDE DEF line, B
  <2>2. line \in [1 .. len -> B]
    BY <1>11, <2>1
  <2> QED
    BY <2>2
<1>13. ASSUME NEW n \in 1 .. k
       PROVE  Place(width, n) + 1 \notin Reached(p, k) /\ Place(width, n) - 1 \notin Reached(p, k)
  <2>1. ASSUME NEW m \in 1 .. k PROVE Place(width, n) + 1 # Place(width, m) /\ Place(width, n) - 1 # Place(width, m)
    <3>1. m = n \/ m < n \/ n < m
      OBVIOUS
    <3>2. /\ m < n => Place(width, m) + 1 < Place(width, n)
          /\ n < m => Place(width, n) + 1 < Place(width, m)
      BY <1>2, Places
    <3>3. Place(width, m) \in 1 .. len /\ Place(width, n) \in 1 .. len
      BY <1>5
    <3> QED
      BY <3>1, <3>2, <3>3
  <2> QED
    BY <1>7, <2>1
<1> HIDE DEF line
<1>14. \A n \in 1 .. k : p[n] \in 1 .. len /\ line[p[n]] = words[n] /\ words[n] \notin Blanks
  BY <1>1, <1>2, <1>5, <1>9
<1>15. \A n \in 1 .. k : p[n] + 1 \notin Reached(p, k) /\ p[n] - 1 \notin Reached(p, k)
  BY <1>1, <1>13
<1>16. WordsAt(line, len, words, p, k)
  BY <1>6, <1>10, <1>12, <1>14, <1>15 DEF WordsAt
<1> QED
  BY <1>16 DEF line, p

\* What is behind the last word is stripped.
LEMMA SpreadStripped ==
  ASSUME NEW W, NEW words \in Seq(W), \A w \in W : w \notin Blanks, NEW k \in Nat \ {0}, Len(words) = k,
         NEW width \in {2, 3}, NEW len \in Nat, len >= Place(width, k), len <= width * k
  PROVE  Stripped(Spread(words, width, len)) = Spread(words, width, Place(width, k))
<1> DEFINE p == [n \in 1 .. k |-> Place(width, n)]
           line == Spread(words, width, len)
           B == {words[n] : n \in 1 .. k} \cup {Space}
           e == Place(width, k)
           short == Spread(words, width, e)
<1>1. WordsAt(line, len, words, p, k)
  BY SpreadWords
<1>2. e \in Nat \ {0} /\ Place(width, 1) = 1 /\ (k = 1 \/ 1 < k)
  BY Places DEF Place
<1>3. WordsAt(short, e, words, p, k)
  <2>1. e <= len /\ len <= width * k /\ e >= e /\ e \in Nat
    BY <1>2
  <2>2. e <= width * k
    <3>1. width * k \in Nat
      OBVIOUS
    <3> QED
      BY <2>1, <3>1
  <2> HIDE DEF e
  <2> QED
    BY <2>1, <2>2, SpreadWords DEF e
<1>4. \A n \in 1 .. k : p[n] = Place(width, n)
  OBVIOUS
<1>5. 1 \in 1 .. k /\ k \in 1 .. k
  BY <1>2
<1>6. p[1] = 1 /\ p[k] = e
  BY <1>2, <1>4, <1>5
<1>7. \A i \in 1 .. e : line[i] = short[i]
  <2>1. \A i \in 1 .. e : i \in 1 .. len
    BY <1>2
  <2> QED
    BY <2>1 DEF Spread
<1> HIDE DEF p, e, line, short, B
<1>8. /\ line \in Seq(B) /\ Len(line) = len /\ short \in Seq(B) /\ Len(short) = e
      /\ DOMAIN line = 1 .. len /\ DOMAIN short = 1 .. e
      /\ \A n \in 1 .. k : p[n] \in 1 .. len /\ line[p[n]] = words[n] /\ words[n] \notin Blanks
      /\ \A i \in 1 .. len : i \notin Reached(p, k) => line[i] = Space
      /\ \A n \in 1 .. k : p[n] \in 1 .. e
  BY <1>1, <1>3 DEF WordsAt, B
<1>9. Reaches(line, 1, e)
  <2>1. 1 \in Begins(line) /\ e \in Ends(line)
    BY <1>5, <1>6, <1>8 DEF Begins, Ends, Blanks
  <2>2. \A j \in Begins(line) : 1 <= j
    BY <1>8 DEF Begins
  <2>3. \A j \in Ends(line) : e >= j
    <3>1. TAKE j \in Ends(line)
    <3>2. j \in Reached(p, k)
      BY <1>8, <3>1 DEF Ends
    <3>3. PICK n \in 1 .. k : j = p[n]
      BY <3>2 DEF Reached
    <3> QED
      BY <1>2, <1>8, <3>3
  <2> QED
    BY <2>1, <2>2, <2>3 DEF Reaches
<1>10. Stripped(line) = SubSeq(line, 1, e)
  BY <1>8, <1>9, StrippedIs
<1>11. SubSeq(line, 1, e) = short
  <2> DEFINE s == SubSeq(line, 1, e)
  <2>1. 1 \in 1 .. Len(line) /\ e \in 1 .. Len(line) /\ 1 <= e /\ e - 1 + 1 = e
    BY <1>2, <1>5, <1>6, <1>8
  <2>2. /\ s \in Seq(B) /\ Len(s) = e
        /\ \A i \in 1 .. e : s[i] = line[1 + i - 1]
    <3>1. /\ s \in Seq(B)
          /\ Len(s) = IF 1 <= e THEN e - 1 + 1 ELSE 0
          /\ \A i \in 1 .. e - 1 + 1 : s[i] = line[1 + i - 1]
      BY <1>8, <2>1, SubSeqIs
    <3> HIDE DEF s
    <3> QED
      BY <2>1, <3>1
  <2> HIDE DEF s
  <2>3. \A i \in 1 .. e : 1 + i - 1 = i
    BY <1>2
  <2>4. \A i \in 1 .. Len(s) : s[i] = short[i]
    BY <1>7, <2>2, <2>3
  <2>5. s = short
    BY <1>8, <2>2, <2>4, SameSeq
  <2> QED
    BY <2>5 DEF s
<1> QED
  BY <1>10, <1>11 DEF line, short, e

LEMMA SpreadTokens ==
  ASSUME NEW W, NEW words \in Seq(W), \A w \in W : w \notin Blanks, NEW k \in Nat \ {0}, Len(words) = k,
         NEW width \in {2, 3}, NEW len \in Nat, len >= Place(width, k), len <= width * k
  PROVE  /\ Tokens(Stripped(Spread(words, width, len))) = [n \in 1 .. k |-> <<words[n]>>]
         /\ Spread(words, width, len) \in Seq(W \cup {Space})
<1> DEFINE p == [n \in 1 .. k |-> Place(width, n)]
           e == Place(width, k)
<1>1. Stripped(Spread(words, width, len)) = Spread(words, width, e)
  BY SpreadStripped
<1>2. e \in Nat /\ e >= e /\ e <= width * k
  <2>1. e \in Nat \ {0}
    BY Places
  <2>2. width \in Nat
    OBVIOUS
  <2>3. width * k \in Nat
    BY <2>2
  <2> HIDE DEF e
  <2>4. e <= len
    BY DEF e
  <2> QED
    BY <2>1, <2>3, <2>4
<1>3. WordsAt(Spread(words, width, len), len, words, p, k)
  BY SpreadWords
<1> HIDE DEF e
<1>4. WordsAt(Spread(words, width, e), e, words, p, k)
  BY <1>2, SpreadWords DEF e
<1> HIDE DEF p
<1>5. Tokens(Spread(words, width, e)) = [n \in 1 .. k |-> <<words[n]>>]
  BY <1>4, TokensAreWords
<1>6. Spread(words, width, len) \in Seq(W \cup {Space})
  <2> DEFINE B == {words[n] : n \in 1 .. k} \cup {Space}
             line == Spread(words, width, len)
  <2>1. line \in Seq(B)
    BY <1>3 DEF WordsAt
  <2>2. B \subseteq W \cup {Space}
    OBVIOUS
  <2> HIDE DEF B, line
  <2>3. line \in Seq(W \cup {Space})
    BY <2>1, <2>2
  <2> QED
    BY <2>3 DEF line
<1> QED
  BY <1>1, <1>5, <1>6

Vocabulary == (FirstWords \cup SecondWords) \cup ThirdWords

LEMMA VocabularyIsPlain == \A w \in Vocabulary : w \notin Blanks
<1>1. \A w \in FirstWords : w \notin Blanks
  BY DEF FirstWords, Shows, Blanks, Space, TAB, CR, LF
<1>2. \A w \in SecondWords : w \notin Blanks
  BY DEF SecondWords, Blanks, Space, TAB, CR, LF
<1>3. \A w \in ThirdWords : w \notin Blanks
  BY DEF ThirdWords, Blanks, Space, TAB, CR, LF
<1> QED
  BY <1>1, <1>2, <1>3 DEF Vocabulary

LEMMA LinesAreWords ==
  ASSUME NEW line \in Lines
  PROVE  line \in Seq(Vocabulary) /\ Len(line) \in Nat \ {0}
<1>1. /\ \A a \in FirstWords : a \in Vocabulary
      /\ \A a \in SecondWords : a \in Vocabulary
      /\ \A a \in ThirdWords : a \in Vocabulary
  BY DEF Vocabulary
<1>2. "stream" \in FirstWords /\ "start" \in SecondWords /\ "stop" \in SecondWords
      /\ "10" \in SecondWords /\ "CNTR" \in ThirdWords
  BY DEF FirstWords, SecondWords, ThirdWords
<1> DEFINE V == Vocabulary
<1>3. CASE line \in {<<a>> : a \in FirstWords}
  <2>1. PICK a \in FirstWords : line = <<a>>
    BY <1>3
  <2>2. a \in V
    BY <1>1
  <2> HIDE DEF V
  <2>3. line \in Seq(V) /\ Len(line) = 1
    BY <2>1, <2>2
  <2> QED
    BY <2>3 DEF V
<1>4. CASE line \in FirstWords \X SecondWords
  <2>1. PICK a \in FirstWords, b \in SecondWords : line = <<a, b>>
    BY <1>4
  <2>2. a \in V /\ b \in V
    BY <1>1
  <2> HIDE DEF V
  <2>3. line \in Seq(V) /\ Len(line) = 2
    BY <2>1, <2>2
  <2> QED
    BY <2>3 DEF V
<1>5. CASE line \in FirstWords \X SecondWords \X ThirdWords
  <2>1. PICK a \in FirstWords, b \in SecondWords, c \in ThirdWords : line = <<a, b, c>>
    BY <1>5
  <2>2. a \in V /\ b \in V /\ c \in V
    BY <1>1
  <2> HIDE DEF V
  <2>3. line \in Seq(V) /\ Len(line) = 3
    BY <2>1, <2>2
  <2> QED
    BY <2>3 DEF V
<1>6. CASE line \in {"stream"} \X {"start", "stop"} \X ThirdWords \X {"10", "CNTR"}
  <2>1. PICK a \in {"stream"}, b \in {"start", "stop"}, c \in ThirdWords, d \in {"10", "CNTR"} :
          line = <<a, b, c, d>>
    BY <1>6
  <2>2. a \in V /\ b \in V /\ c \in V /\ d \in V
    BY <1>1, <1>2
  <2> HIDE DEF V
  <2>3. line \in Seq(V) /\ Len(line) = 4
    BY <2>1, <2>2
  <2> QED
    BY <2>3 DEF V
<1> QED
  BY <1>3, <1>4, <1>5, <1>6 DEF Lines

LEMMA LineTokens ==
  ASSUME NEW line \in Seq(Vocabulary), Len(line) \in Nat \ {0}
  PROVE  /\ Tokens(Stripped(Spaced(line))) = [n \in 1 .. Len(line) |-> <<line[n]>>]
         /\ Tokens(Stripped(Spread(line, 3, 3 * Len(line)))) = [n \in 1 .. Len(line) |-> <<line[n]>>]
         /\ Spaced(line) \in Seq(Vocabulary \cup {Space})
         /\ Spread(line, 3, 3 * Len(line)) \in Seq(Vocabulary \cup {Space})
<1> DEFINE k == Len(line)
<1>1. k \in Nat \ {0} /\ 2 \in {2, 3} /\ 3 \in {2, 3}
  OBVIOUS
<1> HIDE DEF k
<1>2. /\ 2 * k - 1 \in Nat /\ 2 * k - 1 >= Place(2, k) /\ 2 * k - 1 <= 2 * k
      /\ 3 * k \in Nat /\ 3 * k >= Place(3, k) /\ 3 * k <= 3 * k
  BY <1>1 DEF Place
<1>3. /\ Tokens(Stripped(Spread(line, 2, 2 * k - 1))) = [n \in 1 .. k |-> <<line[n]>>]
      /\ Spread(line, 2, 2 * k - 1) \in Seq(Vocabulary \cup {Space})
  <2> DEFINE len == 2 * k - 1
  <2>1. len \in Nat /\ len >= Place(2, k) /\ len <= 2 * k
    BY <1>2
  <2> HIDE DEF len
  <2>2. /\ Tokens(Stripped(Spread(line, 2, len))) = [n \in 1 .. k |-> <<line[n]>>]
        /\ Spread(line, 2, len) \in Seq(Vocabulary \cup {Space})
    BY <1>1, <2>1, VocabularyIsPlain, SpreadTokens DEF k
  <2> QED
    BY <2>2 DEF len
<1>4. /\ Tokens(Stripped(Spread(line, 3, 3 * k))) = [n \in 1 .. k |-> <<line[n]>>]
      /\ Spread(line, 3, 3 * k) \in Seq(Vocabulary \cup {Space})
  <2> DEFINE len == 3 * k
  <2>1. len \in Nat /\ len >= Place(3, k) /\ len <= 3 * k
    BY <1>2
  <2> HIDE DEF len
  <2>2. /\ Tokens(Stripped(Spread(line, 3, len))) = [n \in 1 .. k |-> <<line[n]>>]
        /\ Spread(line, 3, len) \in Seq(Vocabulary \cup {Space})
    BY <1>1, <2>1, VocabularyIsPlain, SpreadTokens DEF k
  <2> QED
    BY <2>2 DEF len
<1> QED
  BY <1>3, <1>4 DEF k, Spaced

\* A command is what its tokens are.
LEMMA SameTokens ==
  ASSUME NEW line, NEW other, Tokens(Stripped(line)) = Tokens(Stripped(other)), NEW node
  PROVE  execute(node, line) = execute(node, other)
BY SMT DEF execute

LEMMA TheSpacingIsFree == SpacingIsFree
<1> DEFINE B == Vocabulary \cup Blanks
           Befores == {<<>>, <<Space>>, <<TAB, Space>>}
           Behinds == {<<>>, <<Space>>, <<CR, LF>>, <<LF, Space, CR>>}
<1>1. Space \in B /\ TAB \in B /\ CR \in B /\ LF \in B /\ Vocabulary \cup {Space} \subseteq B
  BY DEF Blanks
<1> HIDE DEF B
<1>2. ASSUME NEW s \in Befores PROVE s \in Seq(B) /\ \A i \in DOMAIN s : s[i] \in {Space, TAB}
  <2>1. CASE s = <<>>
    BY <2>1
  <2>2. CASE s = <<Space>>
    <3>1. s \in Seq(B) /\ Len(s) = 1 /\ s[1] = Space
      BY <1>1, <2>2
    <3> QED
      BY <3>1
  <2>3. CASE s = <<TAB, Space>>
    <3>1. s \in Seq(B) /\ Len(s) = 2 /\ s[1] = TAB /\ s[2] = Space
      BY <1>1, <2>3
    <3>2. \A i \in DOMAIN s : i = 1 \/ i = 2
      BY <3>1
    <3> QED
      BY <3>1, <3>2
  <2> QED
    BY <2>1, <2>2, <2>3 DEF Befores
<1>3. ASSUME NEW s \in Behinds PROVE s \in Seq(B) /\ \A i \in DOMAIN s : s[i] \in {CR, LF, Space}
  <2>1. CASE s = <<>>
    BY <2>1
  <2>2. CASE s = <<Space>>
    <3>1. s \in Seq(B) /\ Len(s) = 1 /\ s[1] = Space
      BY <1>1, <2>2
    <3> QED
      BY <3>1
  <2>3. CASE s = <<CR, LF>>
    <3>1. s \in Seq(B) /\ Len(s) = 2 /\ s[1] = CR /\ s[2] = LF
      BY <1>1, <2>3
    <3>2. \A i \in DOMAIN s : i = 1 \/ i = 2
      BY <3>1
    <3> QED
      BY <3>1, <3>2
  <2>4. CASE s = <<LF, Space, CR>>
    <3>1. s \in Seq(B) /\ Len(s) = 3 /\ s[1] = LF /\ s[2] = Space /\ s[3] = CR
      BY <1>1, <2>4
    <3>2. \A i \in DOMAIN s : i = 1 \/ i = 2 \/ i = 3
      BY <3>1
    <3> QED
      BY <3>1, <3>2
  <2> QED
    BY <2>1, <2>2, <2>3, <2>4 DEF Behinds
<1> HIDE DEF Befores, Behinds
<1>4. ASSUME NEW line \in Lines, NEW before \in Befores, NEW behind \in Behinds
      PROVE  LET doubled == Spread(line, 3, 3 * Len(line))
                 node == PoweredUp(Flags)
                 plain == execute(node, Spaced(line))
             IN  /\ execute(node, before \o Spaced(line) \o behind) = plain
                 /\ execute(node, before \o doubled \o behind) = plain
  <2> DEFINE doubled == Spread(line, 3, 3 * Len(line))
             spaced == Spaced(line)
             node == PoweredUp(Flags)
  <2>1. line \in Seq(Vocabulary) /\ Len(line) \in Nat \ {0}
    BY LinesAreWords
  <2>2. /\ Tokens(Stripped(spaced)) = Tokens(Stripped(doubled))
        /\ spaced \in Seq(Vocabulary \cup {Space}) /\ doubled \in Seq(Vocabulary \cup {Space})
    BY <2>1, LineTokens
  <2> HIDE DEF spaced, doubled, node
  <2>3. spaced \in Seq(B) /\ doubled \in Seq(B)
    BY <1>1, <2>2
  <2>4. execute(node, before \o spaced \o behind) = execute(node, spaced)
    BY <1>2, <1>3, <2>3, BlanksMeanNothing
  <2>5. execute(node, before \o doubled \o behind) = execute(node, doubled)
    BY <1>2, <1>3, <2>3, BlanksMeanNothing
  <2>6. execute(node, doubled) = execute(node, spaced)
    BY <2>2, SameTokens
  <2> QED
    BY <2>4, <2>5, <2>6 DEF spaced, doubled, node
<1> QED
  BY <1>4 DEF SpacingIsFree, Befores, Behinds

\* The words after the first.
LEMMA TailOfWords ==
  ASSUME NEW V, NEW line \in Seq(V), Len(line) \in Nat \ {0}
  PROVE  LET tokens == [n \in 1 .. Len(line) |-> <<line[n]>>]
         IN  /\ tokens # <<>>
             /\ Tail(tokens) \in Seq({<<w>> : w \in V})
             /\ Len(Tail(tokens)) = Len(line) - 1
             /\ \A i \in 1 .. Len(line) - 1 : Tail(tokens)[i] = <<line[i + 1]>>
<1> DEFINE tokens == [n \in 1 .. Len(line) |-> <<line[n]>>]
           W == {<<w>> : w \in V}
           k == Len(line)
<1>1. \A n \in 1 .. k : <<line[n]>> \in W
  BY DEF W
<1> HIDE DEF W
<1>2. tokens \in [1 .. k -> W]
  BY <1>1
<1>3. tokens \in Seq(W) /\ Len(tokens) = k /\ k \in Nat \ {0}
  BY <1>2
<1>4. \A n \in 1 .. k : tokens[n] = <<line[n]>>
  OBVIOUS
<1> HIDE DEF tokens, k
<1>5. /\ tokens # <<>> /\ Tail(tokens) \in Seq(W) /\ Len(Tail(tokens)) = k - 1
      /\ \A i \in 1 .. k - 1 : Tail(tokens)[i] = tokens[i + 1]
  BY <1>3
<1>6. \A i \in 1 .. k - 1 : i + 1 \in 1 .. k
  BY <1>3
<1>7. \A i \in 1 .. k - 1 : Tail(tokens)[i] = <<line[i + 1]>>
  BY <1>4, <1>5, <1>6
<1> QED
  BY <1>5, <1>7 DEF tokens, W, k

LEMMA CommandsAsked ==
  ASSUME NEW node, NEW line, Tokens(Stripped(line)) # <<>>
  PROVE  LET tokens == Tokens(Stripped(line))
         IN  /\ tokens[1] = <<"stream">> => execute(node, line) = cmd_stream(node, Tail(tokens))
             /\ tokens[1] = <<"feature">> => execute(node, line) = cmd_feature(node, Tail(tokens))
<1> DEFINE tokens == Tokens(Stripped(line))
           r == execute(node, line)
<1>1. tokens # <<>>
  OBVIOUS
<1>2. r = IF tokens = <<>> THEN Result(node, "none")
          ELSE CASE tokens[1] \in {<<w>> : w \in Shows} -> Result(node, "shown")
                 [] tokens[1] = <<"feature">> -> cmd_feature(node, Tail(tokens))
                 [] tokens[1] = <<"stream">> -> cmd_stream(node, Tail(tokens))
                 [] tokens[1] = <<"ota">> -> cmd_ota(node, Tail(tokens))
                 [] tokens[1] = <<"led">> -> cmd_led(node, Tail(tokens))
                 [] tokens[1] \in {<<"reboot">>, <<"reset">>} -> cmd_reboot(node)
                 [] OTHER -> Result(node, "ERR")
  BY Zenon DEF execute
<1> HIDE DEF tokens, r
<1>3. ASSUME tokens[1] = <<"stream">> PROVE r = cmd_stream(node, Tail(tokens))
  <2>1. \A w \in Shows : <<w>> # <<"stream">>
    BY DEF Shows
  <2>2. <<"feature">> # <<"stream">> /\ <<"ota">> # <<"stream">> /\ <<"led">> # <<"stream">>
        /\ <<"reboot">> # <<"stream">> /\ <<"reset">> # <<"stream">>
    OBVIOUS
  <2> QED
    BY <1>1, <1>2, <1>3, <2>1, <2>2
<1>4. ASSUME tokens[1] = <<"feature">> PROVE r = cmd_feature(node, Tail(tokens))
  <2>1. \A w \in Shows : <<w>> # <<"feature">>
    BY DEF Shows
  <2>2. <<"stream">> # <<"feature">> /\ <<"ota">> # <<"feature">> /\ <<"led">> # <<"feature">>
        /\ <<"reboot">> # <<"feature">> /\ <<"reset">> # <<"feature">>
    OBVIOUS
  <2> QED
    BY <1>1, <1>2, <1>4, <2>1, <2>2
<1> QED
  BY <1>3, <1>4 DEF tokens, r

LEMMA LineSpaced ==
  ASSUME NEW line \in Lines
  PROVE  /\ Len(line) \in Nat \ {0}
         /\ Spaced(line) \in Seq(Vocabulary \cup {Space})
         /\ Tokens(Stripped(Spaced(line))) = [n \in 1 .. Len(line) |-> <<line[n]>>]
         /\ Tokens(Stripped(Spaced(line)))[1] = <<line[1]>>
<1> DEFINE tokens == Tokens(Stripped(Spaced(line)))
<1>1. line \in Seq(Vocabulary) /\ Len(line) \in Nat \ {0}
  BY LinesAreWords
<1>2. /\ tokens = [n \in 1 .. Len(line) |-> <<line[n]>>]
      /\ Spaced(line) \in Seq(Vocabulary \cup {Space})
  BY <1>1, LineTokens
<1> HIDE DEF tokens
<1>3. 1 \in 1 .. Len(line)
  BY <1>1
<1>4. tokens[1] = <<line[1]>>
  BY <1>2, <1>3
<1> QED
  BY <1>1, <1>2, <1>4 DEF tokens

\* What a line makes of a node is what its first word may change of it.
LEMMA LineIsTrue ==
  ASSUME NEW node, Consistent(node), NEW line \in Lines
  PROVE  LET r == execute(node, Spaced(line))
         IN  /\ Consistent(r.node)
             /\ r.answer # "OK" => SameBut(r.node, node, {"resetting"})
             /\ r.answer = "ERR" => r.node = node
             /\ SameBut(r.node, node, OwnPart(line[1]))
<1> DEFINE spaced == Spaced(line)
           r == execute(node, spaced)
<1>1. spaced \in Seq(Vocabulary \cup {Space}) /\ Tokens(Stripped(spaced))[1] = <<line[1]>>
  BY LineSpaced
<1> HIDE DEF spaced
<1>2. /\ Consistent(r.node)
      /\ r.answer # "OK" => SameBut(r.node, node, {"resetting"})
      /\ r.answer = "ERR" => r.node = node
      /\ \A w : Tokens(Stripped(spaced))[1] = <<w>> => SameBut(r.node, node, OwnPart(w))
  BY <1>1, EveryAnswerIsTrue
<1> HIDE DEF r
<1> QED
  BY <1>1, <1>2 DEF r, spaced

\* No line takes a channel's slot or its tag.
LEMMA StreamKeepsTags ==
  ASSUME NEW node, Consistent(node), NEW T, NEW args \in Seq(T)
  PROVE  TagsKept(cmd_stream(node, args).node.slots, node.slots)
<1> DEFINE k == IF Len(args) > 3 THEN 2 ELSE Len(args) - 1
           words == [i \in 1 .. k |-> Meaning(args[i + 1])]
           after == cmd_stream(node, args).node
<1>1. node \in CliNodes /\ node.slots \in Slots
  BY DEF Consistent, CliNodes
<1>2. CASE after = node
  BY <1>2 DEF TagsKept
<1>3. CASE args # <<>> /\ after = start_telemetry(node, CliStart(words))
  <2>1. k \in Nat
    BY <1>3
  <2> HIDE DEF k
  <2>2. DOMAIN words = 1 .. k /\ Len(words) = k /\ \A i \in 1 .. k : words[i].number \in Nat
    BY <2>1, NumbersMeant
  <2> HIDE DEF words
  <2> DEFINE req == CliStart(words)
  <2>3. req.rate \in Nat /\ req.batch \in Nat
    BY <2>1, <2>2, CliRequestIs
  <2> HIDE DEF req
  <2>4. TagsKept(start_streaming(node.slots, req), node.slots)
    BY <1>1, <2>3, SlotsStay
  <2>5. start_telemetry(node, req).slots = start_streaming(node.slots, req)
    BY <1>1 DEF start_telemetry, CliNodes
  <2> QED
    BY <1>3, <2>4, <2>5 DEF req
<1>4. CASE after = stop_telemetry(node, CliStopTag(words))
  <2> DEFINE tag == CliStopTag(words)
  <2> HIDE DEF tag
  <2>1. TagsKept(stop_streaming(node.slots, tag), node.slots)
    BY <1>1, StoppedSlots
  <2>2. stop_telemetry(node, tag).slots = stop_streaming(node.slots, tag)
    BY StreamsStop
  <2> QED
    BY <1>4, <2>1, <2>2 DEF tag
<1>5. \/ after = node
      \/ args # <<>> /\ after = start_telemetry(node, CliStart(words))
      \/ after = stop_telemetry(node, CliStopTag(words))
  <2>1. cmd_stream(node, args) =
          IF args = <<>> \/ args[1] = <<"status">> THEN Result(node, "shown")
          ELSE IF args[1] = <<"start">>
               THEN IF "FEAT_TELEMETRY_STREAM" \in node.features
                    THEN Result(start_telemetry(node, CliStart(words)), "OK")
                    ELSE Result(node, "ERR")
          ELSE IF args[1] = <<"stop">> THEN Result(stop_telemetry(node, CliStopTag(words)), "OK")
          ELSE Result(node, "ERR")
    BY DEF cmd_stream
  <2>2. \A n, answer : Result(n, answer).node = n
    BY DEF Result
  <2> HIDE DEF words
  <2> QED
    BY <2>1, <2>2
<1> HIDE DEF after, words
<1> QED
  BY <1>2, <1>3, <1>4, <1>5 DEF after

LEMMA LineKeepsTags ==
  ASSUME NEW node, Consistent(node), NEW line \in Lines
  PROVE  TagsKept(execute(node, Spaced(line)).node.slots, node.slots)
<1> DEFINE r == execute(node, Spaced(line))
           tokens == Tokens(Stripped(Spaced(line)))
<1>1. /\ Len(line) \in Nat \ {0} /\ tokens = [n \in 1 .. Len(line) |-> <<line[n]>>]
      /\ tokens[1] = <<line[1]>>
  BY LineSpaced
<1>2. CASE line[1] # "stream"
  <2>1. SameBut(r.node, node, OwnPart(line[1]))
    BY LineIsTrue
  <2>2. "slots" \notin OwnPart(line[1])
    BY <1>2 DEF OwnPart
  <2>3. "slots" \in DOMAIN node
    BY DEF Consistent, CliNodes
  <2> HIDE DEF r
  <2>4. r.node.slots = node.slots
    BY <2>1, <2>2, <2>3 DEF SameBut
  <2> QED
    BY <2>4 DEF TagsKept, r
<1>3. CASE line[1] = "stream"
  <2> DEFINE args == Tail(tokens)
  <2>1. line \in Seq(Vocabulary)
    BY LinesAreWords
  <2>2. tokens # <<>> /\ args \in Seq({<<w>> : w \in Vocabulary})
    BY <1>1, <2>1, TailOfWords
  <2>3. tokens[1] = <<"stream">>
    BY <1>1, <1>3
  <2>4. r = cmd_stream(node, args)
    BY <2>2, <2>3, CommandsAsked
  <2> HIDE DEF args, r
  <2>5. TagsKept(cmd_stream(node, args).node.slots, node.slots)
    BY <2>2, StreamKeepsTags
  <2> QED
    BY <2>4, <2>5 DEF r
<1> QED
  BY <1>2, <1>3

\* The nodes that lines make are consistent, and keep the counter's channel.
Counting(node) ==
  Consistent(node) /\ \E i \in DOMAIN node.slots : node.slots[i].tag = StreamTags.CNTR

LEMMA LineKeepsCounting ==
  ASSUME NEW node, Counting(node), NEW line \in Lines
  PROVE  Counting(execute(node, Spaced(line)).node)
<1> DEFINE after == execute(node, Spaced(line)).node
<1>1. Consistent(node)
  BY DEF Counting
<1>2. Consistent(after)
  BY <1>1, LineIsTrue
<1>3. TagsKept(after.slots, node.slots)
  BY <1>1, LineKeepsTags
<1> HIDE DEF after
<1>4. PICK i \in DOMAIN node.slots : node.slots[i].tag = StreamTags.CNTR
  BY DEF Counting
<1>5. i \in DOMAIN after.slots /\ after.slots[i].tag = StreamTags.CNTR
  BY <1>3, <1>4 DEF TagsKept
<1> QED
  BY <1>2, <1>5 DEF Counting, after

LEMMA AfterLineCounting ==
  ASSUME NEW nodes, \A node \in nodes : Counting(node)
  PROVE  \A node \in AfterLine(nodes) : Counting(node)
<1>1. SUFFICES ASSUME NEW node \in AfterLine(nodes) PROVE Counting(node)
  OBVIOUS
<1>2. PICK before \in nodes, line \in Lines : node = execute(before, Spaced(line)).node
  BY DEF AfterLine
<1> QED
  BY <1>2, LineKeepsCounting

LEMMA NodesAreCounting == \A node \in Nodes : Counting(node)
<1> DEFINE up == {PoweredUp(Flags)}
<1>1. Counting(PoweredUp(Flags))
  <2> DEFINE node == PoweredUp(Flags)
  <2>1. Consistent(node)
    BY PoweredUpConsistent
  <2>2. node.slots = Node
    BY DEF PoweredUp
  <2> HIDE DEF node
  <2>3. Len(Node) = 5 /\ Node \in Seq(Channels) /\ Node[1].tag = StreamTags.CNTR
    BY NodeIsNative DEF NativeIs, Slots
  <2>4. 1 \in DOMAIN Node
    BY <2>3
  <2> QED
    BY <2>1, <2>2, <2>3, <2>4 DEF Counting, node
<1>2. \A node \in up : Counting(node)
  BY <1>1
<1> HIDE DEF up
<1>3. \A node \in AfterLine(up) : Counting(node)
  BY <1>2, AfterLineCounting
<1>4. \A node \in AfterLine(AfterLine(up)) : Counting(node)
  BY <1>3, AfterLineCounting
<1> QED
  BY <1>3, <1>4 DEF Nodes, up

LEMMA TheAnswersAreTrue == AnswersAreTrue
<1>1. ASSUME NEW node \in Nodes, NEW line \in Lines
      PROVE  LET r == execute(node, Spaced(line))
                 changed == {f \in DOMAIN node : r.node[f] # node[f]}
             IN  /\ changed \subseteq OwnPart(line[1])
                 /\ r.answer # "OK" => changed \subseteq {"resetting"}
                 /\ r.answer = "ERR" => changed = {}
  <2> DEFINE r == execute(node, Spaced(line))
             changed == {f \in DOMAIN node : r.node[f] # node[f]}
  <2>1. Consistent(node)
    BY NodesAreCounting DEF Counting
  <2>2. /\ r.answer # "OK" => SameBut(r.node, node, {"resetting"})
        /\ r.answer = "ERR" => r.node = node
        /\ SameBut(r.node, node, OwnPart(line[1]))
    BY <2>1, LineIsTrue
  <2> HIDE DEF r
  <2>3. \A fields : SameBut(r.node, node, fields) => changed \subseteq fields
    BY DEF SameBut
  <2>4. r.answer = "ERR" => changed = {}
    BY <2>2
  <2> HIDE DEF changed
  <2> QED
    BY <2>2, <2>3, <2>4 DEF r, changed
<1> QED
  BY <1>1 DEF AnswersAreTrue

\* What follows the first word of a line.
ArgsAre(args, line) ==
  /\ Len(args) = Len(line) - 1
  /\ \A i \in 1 .. Len(line) - 1 : args[i] = <<line[i + 1]>>
  /\ Len(line) > 1 => args # <<>>

LEMMA LineAsks ==
  ASSUME NEW node, NEW line \in Lines
  PROVE  LET args == Tail(Tokens(Stripped(Spaced(line))))
         IN  /\ ArgsAre(args, line)
             /\ line[1] = "stream" => execute(node, Spaced(line)) = cmd_stream(node, args)
             /\ line[1] = "feature" => execute(node, Spaced(line)) = cmd_feature(node, args)
<1> DEFINE tokens == Tokens(Stripped(Spaced(line)))
           args == Tail(tokens)
           k == Len(line)
<1>1. /\ k \in Nat \ {0} /\ tokens = [n \in 1 .. k |-> <<line[n]>>]
      /\ tokens[1] = <<line[1]>>
  BY LineSpaced
<1>2. line \in Seq(Vocabulary)
  BY LinesAreWords
<1>3. /\ tokens # <<>> /\ args \in Seq({<<w>> : w \in Vocabulary})
      /\ Len(args) = k - 1 /\ \A i \in 1 .. k - 1 : args[i] = <<line[i + 1]>>
  BY <1>1, <1>2, TailOfWords
<1>4. /\ tokens[1] = <<"stream">> => execute(node, Spaced(line)) = cmd_stream(node, args)
      /\ tokens[1] = <<"feature">> => execute(node, Spaced(line)) = cmd_feature(node, args)
  BY <1>3, CommandsAsked
<1> HIDE DEF tokens, args
<1>5. k > 1 => args # <<>>
  BY <1>1, <1>3
<1> QED
  BY <1>1, <1>3, <1>4, <1>5 DEF ArgsAre, tokens, args

LEMMA CounterMeant == Meaning(<<"CNTR">>) = TagWord("CNTR")
<1> DEFINE W == {<<t>> : t \in DOMAIN StreamTags}
<1>1. "CNTR" \in DOMAIN StreamTags
  BY TagsSpell DEF TagNames
<1>2. <<"CNTR">> \in W
  BY <1>1
<1>3. <<"CNTR">>[1] = "CNTR"
  OBVIOUS
<1> HIDE DEF W
<1>4. \A token \in W : Meaning(token) = TagWord(token[1])
  <2>1. \A w \in DOMAIN StreamTags : w \notin {"9", "10", "1000", "10000", "10001"} /\ w \notin FourLetters
    BY TagsSpell DEF TagNames, FourLetters
  <2> QED
    BY <2>1 DEF Meaning, W
<1> QED
  BY <1>2, <1>3, <1>4

LEMMA StopsAll ==
  ASSUME NEW node, NEW line \in Lines, line = <<"stream", "stop">>
  PROVE  execute(node, Spaced(line)).node = stop_telemetry(node, 0)
<1> DEFINE args == Tail(Tokens(Stripped(Spaced(line))))
           k == IF Len(args) > 3 THEN 2 ELSE Len(args) - 1
           words == [i \in 1 .. k |-> Meaning(args[i + 1])]
<1>1. Len(line) = 2 /\ line[1] = "stream" /\ line[2] = "stop"
  OBVIOUS
<1>2. ArgsAre(args, line) /\ execute(node, Spaced(line)) = cmd_stream(node, args)
  BY <1>1, LineAsks
<1> HIDE DEF args
<1>3. Len(args) = 1 /\ args # <<>> /\ args[1] = <<"stop">>
  BY <1>1, <1>2 DEF ArgsAre
<1>4. k = 0
  BY <1>3
<1>5. Len(words) = 0
  BY <1>4
<1>6. CliStopTag(words) = 0
  <2> HIDE DEF words
  <2> QED
    BY <1>5 DEF CliStopTag
<1>7. <<"stop">> # <<"status">> /\ <<"stop">> # <<"start">>
  OBVIOUS
<1>8. cmd_stream(node, args) = Result(stop_telemetry(node, CliStopTag(words)), "OK")
  <2>1. cmd_stream(node, args) =
          IF args = <<>> \/ args[1] = <<"status">> THEN Result(node, "shown")
          ELSE IF args[1] = <<"start">>
               THEN IF "FEAT_TELEMETRY_STREAM" \in node.features
                    THEN Result(start_telemetry(node, CliStart(words)), "OK")
                    ELSE Result(node, "ERR")
          ELSE IF args[1] = <<"stop">> THEN Result(stop_telemetry(node, CliStopTag(words)), "OK")
          ELSE Result(node, "ERR")
    BY DEF cmd_stream
  <2> HIDE DEF words
  <2> QED
    BY <1>3, <1>7, <2>1
<1> HIDE DEF words
<1> QED
  BY <1>2, <1>6, <1>8 DEF Result

LEMMA CounterStarts ==
  ASSUME NEW node, NEW line \in Lines, line = <<"stream", "start", "CNTR">>,
         "FEAT_TELEMETRY_STREAM" \in node.features
  PROVE  execute(node, Spaced(line)).node =
           start_telemetry(node, [tag |-> StreamTags.CNTR, rate |-> 0, batch |-> 0])
<1> DEFINE args == Tail(Tokens(Stripped(Spaced(line))))
           k == IF Len(args) > 3 THEN 2 ELSE Len(args) - 1
           words == [i \in 1 .. k |-> Meaning(args[i + 1])]
<1>1. Len(line) = 3 /\ line[1] = "stream" /\ line[2] = "start" /\ line[3] = "CNTR"
  OBVIOUS
<1>2. ArgsAre(args, line) /\ execute(node, Spaced(line)) = cmd_stream(node, args)
  BY <1>1, LineAsks
<1> HIDE DEF args
<1>3. Len(args) = 2 /\ args # <<>> /\ args[1] = <<"start">> /\ args[2] = <<"CNTR">>
  BY <1>1, <1>2 DEF ArgsAre
<1>4. k = 1
  BY <1>3
<1>5. Len(words) = 1 /\ words[1] = TagWord("CNTR")
  BY <1>3, <1>4, CounterMeant
<1>6. TagWord("CNTR").len = 4 /\ TagWord("CNTR").tag = StreamTags.CNTR
  BY DEF TagWord
<1>7. CliStart(words) = [tag |-> StreamTags.CNTR, rate |-> 0, batch |-> 0]
  <2> HIDE DEF words
  <2>1. Len(words) > 0 /\ words[1].len = 4 /\ words[1].tag = StreamTags.CNTR /\ Len(words) # 2
    BY <1>5, <1>6
  <2> QED
    BY <2>1 DEF CliStart
<1>8. <<"start">> # <<"status">>
  OBVIOUS
<1>9. cmd_stream(node, args) = Result(start_telemetry(node, CliStart(words)), "OK")
  <2>1. cmd_stream(node, args) =
          IF args = <<>> \/ args[1] = <<"status">> THEN Result(node, "shown")
          ELSE IF args[1] = <<"start">>
               THEN IF "FEAT_TELEMETRY_STREAM" \in node.features
                    THEN Result(start_telemetry(node, CliStart(words)), "OK")
                    ELSE Result(node, "ERR")
          ELSE IF args[1] = <<"stop">> THEN Result(stop_telemetry(node, CliStopTag(words)), "OK")
          ELSE Result(node, "ERR")
    BY DEF cmd_stream
  <2> HIDE DEF words
  <2> QED
    BY <1>3, <1>8, <2>1
<1> HIDE DEF words
<1> QED
  BY <1>2, <1>7, <1>9 DEF Result

LEMMA CounterStops ==
  ASSUME NEW node, NEW line \in Lines, line = <<"stream", "stop", "CNTR">>
  PROVE  execute(node, Spaced(line)).node = stop_telemetry(node, StreamTags.CNTR)
<1> DEFINE args == Tail(Tokens(Stripped(Spaced(line))))
           k == IF Len(args) > 3 THEN 2 ELSE Len(args) - 1
           words == [i \in 1 .. k |-> Meaning(args[i + 1])]
<1>1. Len(line) = 3 /\ line[1] = "stream" /\ line[2] = "stop" /\ line[3] = "CNTR"
  OBVIOUS
<1>2. ArgsAre(args, line) /\ execute(node, Spaced(line)) = cmd_stream(node, args)
  BY <1>1, LineAsks
<1> HIDE DEF args
<1>3. Len(args) = 2 /\ args # <<>> /\ args[1] = <<"stop">> /\ args[2] = <<"CNTR">>
  BY <1>1, <1>2 DEF ArgsAre
<1>4. k = 1
  BY <1>3
<1>5. Len(words) = 1 /\ words[1] = TagWord("CNTR")
  BY <1>3, <1>4, CounterMeant
<1>6. TagWord("CNTR").len = 4 /\ TagWord("CNTR").tag = StreamTags.CNTR
  BY DEF TagWord
<1>7. CliStopTag(words) = StreamTags.CNTR
  <2> HIDE DEF words
  <2>1. Len(words) > 0 /\ words[1].len = 4 /\ words[1].tag = StreamTags.CNTR
    BY <1>5, <1>6
  <2> QED
    BY <2>1 DEF CliStopTag
<1>8. <<"stop">> # <<"status">> /\ <<"stop">> # <<"start">>
  OBVIOUS
<1>9. cmd_stream(node, args) = Result(stop_telemetry(node, CliStopTag(words)), "OK")
  <2>1. cmd_stream(node, args) =
          IF args = <<>> \/ args[1] = <<"status">> THEN Result(node, "shown")
          ELSE IF args[1] = <<"start">>
               THEN IF "FEAT_TELEMETRY_STREAM" \in node.features
                    THEN Result(start_telemetry(node, CliStart(words)), "OK")
                    ELSE Result(node, "ERR")
          ELSE IF args[1] = <<"stop">> THEN Result(stop_telemetry(node, CliStopTag(words)), "OK")
          ELSE Result(node, "ERR")
    BY DEF cmd_stream
  <2> HIDE DEF words
  <2> QED
    BY <1>3, <1>8, <2>1
<1> HIDE DEF words
<1> QED
  BY <1>2, <1>7, <1>9 DEF Result

\* A feature is locked and released by its name.
LEMMA FeatureIsNamed ==
  ASSUME NEW node, NEW f \in {"ota", "telemetry"}, NEW verb \in {"enable", "disable"},
         NEW line \in Lines, line = <<"feature", verb, f>>
  PROVE  execute(node, Spaced(line)).node = set_feature(node, FeatureNames[f], verb = "enable")
<1> DEFINE args == Tail(Tokens(Stripped(Spaced(line))))
           named == Len(args) > 1 /\ Len(args[2]) = 1
           flag == IF named THEN parse_feature_name(args[2][1]) ELSE "NONE"
<1>1. Len(line) = 3 /\ line[1] = "feature" /\ line[2] = verb /\ line[3] = f
  OBVIOUS
<1>2. ArgsAre(args, line) /\ execute(node, Spaced(line)) = cmd_feature(node, args)
  BY <1>1, LineAsks
<1> HIDE DEF args
<1>3. Len(args) = 2 /\ args # <<>> /\ args[1] = <<verb>> /\ args[2] = <<f>>
  BY <1>1, <1>2 DEF ArgsAre
<1>4. flag = parse_feature_name(f)
  BY <1>3
<1>5. parse_feature_name(f) = FeatureNames[f] /\ FeatureNames[f] # "NONE"
  <2>1. f \in DOMAIN FeatureNames
    BY DEF FeatureNames
  <2>2. FeatureNames[f] # "NONE"
    BY DEF FeatureNames
  <2> QED
    BY <2>1, <2>2 DEF parse_feature_name
<1>6. /\ <<verb>> # <<"list">> /\ <<verb>> \in {<<"enable">>, <<"disable">>}
      /\ (<<verb>> = <<"enable">> <=> verb = "enable")
  OBVIOUS
<1>7. cmd_feature(node, args) = Result(set_feature(node, flag, args[1] = <<"enable">>), "OK")
  <2>1. cmd_feature(node, args) =
          IF args = <<>> \/ args[1] = <<"list">> THEN Result(node, "shown")
          ELSE IF flag = "NONE" \/ args[1] \notin {<<"enable">>, <<"disable">>} THEN Result(node, "ERR")
          ELSE Result(set_feature(node, flag, args[1] = <<"enable">>), "OK")
    BY DEF cmd_feature
  <2>2. flag # "NONE"
    BY <1>4, <1>5
  <2> HIDE DEF flag
  <2> QED
    BY <1>3, <1>6, <2>1, <2>2
<1>8. (args[1] = <<"enable">>) = (verb = "enable")
  BY <1>3, <1>6
<1> HIDE DEF flag
<1> QED
  BY <1>2, <1>4, <1>5, <1>7, <1>8 DEF Result

LEMMA TheCommandsCompose == CommandsCompose
<1>0. /\ "stream" \in FirstWords /\ "feature" \in FirstWords
      /\ \A w \in {"start", "stop", "enable", "disable"} : w \in SecondWords
      /\ \A w \in {"CNTR", "ota", "telemetry"} : w \in ThirdWords
  BY DEF FirstWords, SecondWords, ThirdWords
<1>1. /\ <<"stream", "stop">> \in Lines /\ <<"stream", "start", "CNTR">> \in Lines
      /\ <<"stream", "stop", "CNTR">> \in Lines
  BY <1>0, Zenon DEF Lines
<1>2. \A f \in {"ota", "telemetry"} : <<"feature", "disable", f>> \in Lines /\ <<"feature", "enable", f>> \in Lines
  BY <1>0, Zenon DEF Lines
<1>3. SUFFICES ASSUME NEW node \in Nodes
               PROVE  /\ Reported(node) /\ StopStopsAll(node) /\ StopUndoes(node)
                      /\ \A f \in {"ota", "telemetry"} : LockedIsFreed(node, f)
  BY DEF CommandsCompose
<1>4. Counting(node) /\ Consistent(node) /\ node \in CliNodes
  BY NodesAreCounting DEF Counting, Consistent
<1>5. Reported(node)
  <2>1. cmd_status(node).streaming = (node.state = "STREAMING")
    <3>1. cmd_status(node).streaming = node.engine
      BY DEF cmd_status
    <3>2. node.engine \in BOOLEAN /\ (node.engine <=> node.state = "STREAMING")
      BY <1>4 DEF Consistent, CliNodes
    <3> QED
      BY <3>1, <3>2
  <2>2. cmd_status(node).unlocked = FeatureList(node)["FEAT_OTA_RAM_STAGING"]
    BY DEF cmd_status, FeatureList
  <2>3. cmd_status(node).blinking \in LedPeriods
    BY <1>4 DEF cmd_status, CliNodes
  <2>4. (\E i \in DOMAIN node.slots : node.slots[i].enabled) => node.engine
    BY <1>4 DEF Consistent
  <2> QED
    BY <2>1, <2>2, <2>3, <2>4 DEF Reported
<1>6. StopStopsAll(node)
  <2>1. execute(node, Spaced(<<"stream", "stop">>)).node = stop_telemetry(node, 0)
    BY <1>1, StopsAll
  <2>2. LET all == stop_telemetry(node, 0)
        IN  ~all.engine /\ \A i \in DOMAIN all.slots : ~all.slots[i].enabled
    BY <1>4, StopUndoesStart
  <2> QED
    BY <2>1, <2>2 DEF StopStopsAll
<1>7. StopUndoes(node)
  <2>0. SUFFICES ASSUME ~node.engine, "FEAT_TELEMETRY_STREAM" \in node.features
                 PROVE  LET on == execute(node, Spaced(<<"stream", "start", "CNTR">>)).node
                            off == execute(on, Spaced(<<"stream", "stop", "CNTR">>)).node
                        IN  on.engine /\ off = node
    BY DEF StopUndoes
  <2> DEFINE cntr == StreamTags.CNTR
             on == start_telemetry(node, [tag |-> cntr, rate |-> 0, batch |-> 0])
  <2>1. execute(node, Spaced(<<"stream", "start", "CNTR">>)).node = on
    BY <1>1, <2>0, CounterStarts
  <2>2. PICK i \in DOMAIN node.slots : node.slots[i].tag = cntr
    BY <1>4 DEF Counting
  <2>3. on.engine /\ stop_telemetry(on, cntr) = node
    <3> HIDE DEF cntr
    <3>1. LET tag == node.slots[i].tag
              begun == start_telemetry(node, [tag |-> tag, rate |-> 0, batch |-> 0])
          IN  begun.engine /\ stop_telemetry(begun, tag) = node
      BY <1>4, <2>0, StopUndoesStart
    <3> QED
      BY <2>2, <3>1
  <2> HIDE DEF on
  <2>4. execute(on, Spaced(<<"stream", "stop", "CNTR">>)).node = stop_telemetry(on, cntr)
    BY <1>1, CounterStops
  <2> QED
    BY <2>1, <2>3, <2>4
<1>8. ASSUME NEW f \in {"ota", "telemetry"} PROVE LockedIsFreed(node, f)
  <2> DEFINE flag == FeatureNames[f]
             locked == set_feature(node, flag, FALSE)
             freed == set_feature(locked, flag, TRUE)
  <2>1. execute(node, Spaced(<<"feature", "disable", f>>)).node = locked
    <3>1. ("disable" = "enable") = FALSE
      OBVIOUS
    <3> QED
      BY <1>2, <3>1, FeatureIsNamed
  <2>2. execute(locked, Spaced(<<"feature", "enable", f>>)).node = freed
    <3> HIDE DEF locked
    <3>1. ("enable" = "enable") = TRUE
      OBVIOUS
    <3> QED
      BY <1>2, <3>1, FeatureIsNamed
  <2> HIDE DEF flag
  <2>3. locked.features = node.features \ {flag} /\ locked = [node EXCEPT !.features = node.features \ {flag}]
    BY <1>4 DEF set_feature, CliNodes
  <2>4. freed.features = locked.features \cup {flag}
    <3>1. "features" \in DOMAIN locked
      BY <1>4, <2>3 DEF CliNodes
    <3> HIDE DEF locked
    <3> QED
      BY <3>1 DEF set_feature
  <2> HIDE DEF locked, freed
  <2> QED
    BY <2>1, <2>2, <2>3, <2>4 DEF LockedIsFreed, flag
<1> QED
  BY <1>5, <1>6, <1>7, <1>8

-----------------------------------------------------------------------------
(* The line editor.                                                         *)

\* The same keys make the same console.
LEMMA TypingSame ==
  ASSUME NEW n \in Nat, NEW keys, NEW f, Typing(f, keys, n),
         NEW others, NEW g, Typing(g, others, n), \A i \in 1 .. n : keys[i] = others[i]
  PROVE  f[n] = g[n]
<1>1. StartsLike(f, g, n)
  BY DEF StartsLike, Typing
<1>2. Like(f, g, n)
  BY <1>1, LoopUnique
<1>3. n \in 0 .. n
  OBVIOUS
<1> QED
  BY <1>2, <1>3 DEF Like

LEMMA EditIs ==
  ASSUME NEW keys, Len(keys) \in Nat
  PROVE  Typing(Edit(keys), keys, Len(keys))
<1> DEFINE n == Len(keys)
           X == Consoles
           x0 == EmptyConsole
           G == [p \in X \X (1 .. n) |-> KeyPressed(p[1], keys[p[2]])]
           Body(f) == [i \in 0 .. n |-> IF i = 0 THEN x0 ELSE KeyPressed(f[i - 1], keys[i])]
           after == CHOOSE f : f = Body(f)
<1>1. n \in Nat /\ x0 \in X
  BY EmptyIsConsole
<1>2. \A c \in X, i \in 1 .. n : KeyPressed(c, keys[i]) \in X
  BY KeyIsTaken
<1>3. \A c \in X, i \in 1 .. n : G[<<c, i>>] = KeyPressed(c, keys[i])
  OBVIOUS
<1>4. G \in Turns(X, n)
  BY <1>2 DEF Turns
<1>5. Edit(keys) = after
  BY DEF Edit, EmptyConsole
<1> HIDE DEF G, n, x0, X
<1>6. PICK f : f \in [0 .. n -> X] /\ f[0] = x0 /\ \A i \in 1 .. n : f[i] = G[<<f[i - 1], i>>]
  <2>1. \E f : History(f, X, x0, n, G)
    BY <1>1, <1>4, LoopExists
  <2> QED
    BY <2>1 DEF History
<1>7. \A i \in 1 .. n : f[i] = KeyPressed(f[i - 1], keys[i])
  <2>1. TAKE i \in 1 .. n
  <2>2. i - 1 \in 0 .. n
    BY <1>1
  <2> QED
    BY <2>2, <1>3, <1>6
<1>8. f = Body(f)
  <2>1. \A i \in 0 .. n : f[i] = IF i = 0 THEN x0 ELSE KeyPressed(f[i - 1], keys[i])
    <3>1. \A i \in 0 .. n : i = 0 \/ i \in 1 .. n
      BY <1>1
    <3> QED
      BY <1>6, <1>7, <3>1
  <2> QED
    BY <1>6, <2>1
<1>9. after = Body(after)
  BY <1>8
<1> HIDE DEF after
<1>10. after[0] = x0 /\ \A i \in 1 .. n : after[i] = KeyPressed(after[i - 1], keys[i])
  <2>1. 0 \in 0 .. n /\ \A i \in 1 .. n : i \in 0 .. n /\ i # 0
    BY <1>1
  <2>2. \A i \in 0 .. n : Body(after)[i] = IF i = 0 THEN x0 ELSE KeyPressed(after[i - 1], keys[i])
    OBVIOUS
  <2> HIDE DEF Body
  <2> QED
    BY <1>9, <2>1, <2>2
<1> QED
  BY <1>5, <1>10 DEF Typing, n, x0

LEMMA PressedIs ==
  ASSUME NEW keys, NEW i \in Nat, NEW m \in Nat, NEW set
  PROVE  /\ Pressed(keys, i, m, set) \in Nat
         /\ (Pressed(keys, i, m, set) = 0 <=> \A k \in i .. m : keys[k] \notin set)
         /\ i <= m + 1 => Pressed(keys, i, m + 1, set) =
                            IF keys[m + 1] \in set THEN Pressed(keys, i, m, set) + 1 ELSE Pressed(keys, i, m, set)
<1> DEFINE P == {k \in i .. m : keys[k] \in set}
           Q == {k \in i .. m + 1 : keys[k] \in set}
<1>1. IsFiniteSet(P)
  <2>1. IsFiniteSet(i .. m)
    BY FS_Interval
  <2> QED
    BY <2>1, FS_Subset
<1>2. Cardinality(P) \in Nat /\ (Cardinality(P) = 0 <=> P = {})
  BY <1>1, FS_CardinalityType, FS_EmptySet
<1>3. ASSUME i <= m + 1
      PROVE  Cardinality(Q) = IF keys[m + 1] \in set THEN Cardinality(P) + 1 ELSE Cardinality(P)
  <2>1. \A k : k \in i .. m + 1 <=> k \in i .. m \/ k = m + 1
    BY <1>3
  <2>2. CASE keys[m + 1] \notin set
    <3>1. Q = P
      BY <2>1, <2>2
    <3> QED
      BY <2>2, <3>1
  <2>3. CASE keys[m + 1] \in set
    <3>1. Q = P \cup {m + 1} /\ m + 1 \notin P
      BY <2>1, <2>3
    <3> HIDE DEF P, Q
    <3>2. Cardinality(P \cup {m + 1}) = Cardinality(P) + 1
      BY <1>1, <3>1, FS_AddElement
    <3> QED
      BY <2>3, <3>1, <3>2
  <2> QED
    BY <2>2, <2>3
<1>4. P = {} <=> \A k \in i .. m : keys[k] \notin set
  OBVIOUS
<1> QED
  BY <1>2, <1>3, <1>4 DEF Pressed

LEMMA KeysDiffer ==
  /\ CR \notin Letters /\ TAB \notin Letters /\ "DEL" \notin Letters
  /\ CR # "DEL" /\ TAB # "DEL" /\ TAB # CR /\ TAB # LF /\ "DEL" # LF
  /\ \A key \in Keys : key \in Letters \/ key = "DEL" \/ key = CR \/ key = TAB
  /\ \A key \in Letters : key \notin {CR, LF}
BY DEF Letters, Keys, CR, LF, TAB

\* What a key does: the four kinds.
LEMMA KeyMeans ==
  ASSUME NEW console \in Consoles
  PROVE  /\ KeyPressed(console, TAB) = console
         /\ console.line = <<>> => KeyPressed(console, "DEL") = console
         /\ KeyPressed(console, CR).line = <<>>
         /\ \A key \in Letters :
              /\ Len(console.line) < LineSize => KeyPressed(console, key).line # <<>>
              /\ ~ (Len(console.line) < LineSize) => KeyPressed(console, key) = console
<1>1. KeyPressed(console, TAB) = console
  BY KeysDiffer DEF KeyPressed, Letters
<1>2. console.line = <<>> => KeyPressed(console, "DEL") = console
  BY KeysDiffer DEF KeyPressed
<1>3. KeyPressed(console, CR).line = <<>>
  <2>1. KeyPressed(console, CR) = IF console.line = <<>> THEN console
                                  ELSE [line |-> <<>>, executed |-> Append(console.executed, console.line)]
    BY LineEnds
  <2> QED
    BY <2>1
<1>4. ASSUME NEW key \in Letters
      PROVE  /\ Len(console.line) < LineSize => KeyPressed(console, key).line # <<>>
             /\ ~ (Len(console.line) < LineSize) => KeyPressed(console, key) = console
  <2>1. key \notin {CR, LF} /\ key # "DEL"
    BY KeysDiffer
  <2>2. KeyPressed(console, key) = IF Len(console.line) < LineSize THEN [console EXCEPT !.line = Append(@, key)]
                                   ELSE console
    BY <2>1 DEF KeyPressed, Letters
  <2>3. console.line \in Seq(Letters) /\ console = [line |-> console.line, executed |-> console.executed]
    BY DEF Consoles, Entries
  <2>4. Append(console.line, key) # <<>>
    BY <2>3, AppendedIsMore
  <2>5. [console EXCEPT !.line = Append(@, key)].line = Append(console.line, key)
    BY <2>3
  <2> QED
    BY <2>2, <2>4, <2>5
<1> QED
  BY <1>1, <1>2, <1>3, <1>4

\* A letter that was taken found room when the line has room behind it, and a
\* DEL takes it back.
LEMMA LetterTaken ==
  ASSUME NEW q \in Nat \ {0}, NEW keys, NEW g, Typing(g, keys, q), keys[q] \in Letters,
         Len(g[q].line) < LineSize
  PROVE  g[q].line # <<>> /\ KeyPressed(g[q], "DEL") = g[q - 1]
<1> DEFINE console == g[q - 1]
           key == keys[q]
<1>1. q - 1 \in Nat /\ q \in 1 .. q /\ q - 1 \in 0 .. q /\ \A i \in 1 .. q - 1 : i \in 1 .. q
  OBVIOUS
<1>2. g[q] = KeyPressed(console, key) /\ Typing(g, keys, q - 1)
  BY <1>1 DEF Typing
<1>3. console \in Consoles
  BY <1>1, TypingStays
<1> HIDE DEF console, key
<1>4. Len(console.line) < LineSize
  <2>1. SUFFICES ASSUME ~ (Len(console.line) < LineSize) PROVE FALSE
    OBVIOUS
  <2>2. g[q] = console
    BY <1>2, <1>3, <2>1, KeyMeans DEF key
  <2> QED
    BY <2>1, <2>2
<1>5. g[q].line # <<>>
  BY <1>2, <1>3, <1>4, KeyMeans DEF key
<1>6. KeyPressed(KeyPressed(console, key), "DEL") = console
  BY <1>3, <1>4, DelTakesBack DEF key
<1> QED
  BY <1>2, <1>5, <1>6 DEF console, key

\* The positions p[1] < ... < p[q] of the keys kept of the first m: every end of
\* a line, and the letters not taken back.  What is typed since a letter whose
\* line is still open are the letters kept since and as many DELs as others.
Open(keys, i, m) == keys[i] \in Letters /\ Pressed(keys, i, m, {CR}) = 0
Positions(p, q, m) ==
  /\ \A k \in 1 .. q : p[k] \in 1 .. m
  /\ \A k, l \in 1 .. q : k < l => p[k] < p[l]
KeysLeft(keys, p, q, m) ==
  /\ \A k \in 1 .. q : keys[p[k]] = CR \/ (keys[p[k]] \in Letters /\ ~ Erased(keys, p[k], m))
  /\ \A i \in 1 .. m : keys[i] = CR => \E k \in 1 .. q : p[k] = i
  /\ \A i \in 1 .. m : keys[i] \in Letters => Erased(keys, i, m) \/ \E k \in 1 .. q : p[k] = i
Balanced(keys, p, q, m) ==
  \A k \in 1 .. q : Open(keys, p[k], m) =>
    Pressed(keys, p[k], m, Letters) = Pressed(keys, p[k], m, {"DEL"}) + (q - k + 1)
Taken(g, keys, p, q) ==
  /\ g[0] = EmptyConsole
  /\ \A k \in 1 .. q : g[k] = KeyPressed(g[k - 1], keys[p[k]])

LEMMA TakenIsTyping ==
  ASSUME NEW q \in Nat, NEW g, NEW keys, NEW p, Taken(g, keys, p, q)
  PROVE  Typing(g, [k \in 1 .. q |-> keys[p[k]]], q)
BY DEF Taken, Typing

\* One key more: a letter not taken back so far is now only if it is balanced.
LEMMA ErasedMore ==
  ASSUME NEW keys, NEW m \in Nat, NEW i \in 1 .. m + 1
  PROVE  Erased(keys, i, m + 1) <=>
           \/ Erased(keys, i, m)
           \/ /\ Pressed(keys, i, m + 1, {CR}) = 0
              /\ Pressed(keys, i, m + 1, Letters) = Pressed(keys, i, m + 1, {"DEL"})
<1>1. \A j : j \in i .. m + 1 <=> j \in i .. m \/ j = m + 1
  OBVIOUS
<1> QED
  BY <1>1 DEF Erased, Letters

LEMMA OpenMore ==
  ASSUME NEW keys, NEW m \in Nat, NEW i \in 1 .. m
  PROVE  Open(keys, i, m + 1) <=> Open(keys, i, m) /\ keys[m + 1] # CR
<1>1. i \in Nat /\ i <= m + 1
  OBVIOUS
<1>2. Pressed(keys, i, m, {CR}) \in Nat
      /\ Pressed(keys, i, m + 1, {CR}) = IF keys[m + 1] \in {CR} THEN Pressed(keys, i, m, {CR}) + 1
                                         ELSE Pressed(keys, i, m, {CR})
  BY <1>1, PressedIs
<1> DEFINE c == Pressed(keys, i, m, {CR})
<1> HIDE DEF c
<1>3. c \in Nat /\ Pressed(keys, i, m + 1, {CR}) = IF keys[m + 1] = CR THEN c + 1 ELSE c
  BY <1>2 DEF c
<1>4. Pressed(keys, i, m + 1, {CR}) = 0 <=> c = 0 /\ keys[m + 1] # CR
  BY <1>3
<1> QED
  BY <1>4 DEF Open, c

KeysKept(keys, m, p, q, g) ==
  /\ Positions(p, q, m)
  /\ KeysLeft(keys, p, q, m)
  /\ Balanced(keys, p, q, m)
  /\ Taken(g, keys, p, q)

\* The keys kept since an open letter are letters, and the last letter kept is open.
LEMMA OpenOnTop ==
  ASSUME NEW m \in Nat, NEW q \in Nat, NEW keys, NEW p, Positions(p, q, m), KeysLeft(keys, p, q, m),
         NEW k \in 1 .. q, Open(keys, p[k], m)
  PROVE  keys[p[q]] \in Letters
<1>1. q \in 1 .. q /\ (k = q \/ k < q)
  OBVIOUS
<1>2. p[k] \in 1 .. m /\ p[q] \in 1 .. m /\ (p[k] = p[q] \/ p[k] < p[q])
  BY <1>1 DEF Positions
<1>3. p[k] \in Nat /\ p[q] \in p[k] .. m
  BY <1>2
<1>4. \A i \in p[k] .. m : keys[i] \notin {CR}
  BY <1>3, PressedIs DEF Open
<1> QED
  BY <1>1, <1>3, <1>4 DEF KeysLeft

LEMMA TopIsOpen ==
  ASSUME NEW m \in Nat, NEW q \in Nat \ {0}, NEW keys, NEW p, Positions(p, q, m), KeysLeft(keys, p, q, m),
         keys[p[q]] \in Letters
  PROVE  Open(keys, p[q], m)
<1>1. q \in 1 .. q /\ p[q] \in 1 .. m /\ p[q] \in Nat
  BY DEF Positions
<1>2. ASSUME NEW i \in p[q] .. m PROVE keys[i] \notin {CR}
  <2>1. SUFFICES ASSUME keys[i] = CR PROVE FALSE
    OBVIOUS
  <2>2. i \in 1 .. m
    BY <1>1
  <2>3. PICK l \in 1 .. q : p[l] = i
    BY <2>1, <2>2 DEF KeysLeft
  <2>4. l = q \/ l < q
    OBVIOUS
  <2>5. l < q => p[l] < p[q]
    BY <1>1 DEF Positions
  <2>6. p[l] >= p[q] /\ p[l] \in Nat
    BY <1>1, <2>3
  <2>7. l = q
    BY <1>1, <2>4, <2>5, <2>6
  <2>8. keys[p[q]] = CR
    BY <2>1, <2>3, <2>7
  <2> QED
    BY <2>8, KeysDiffer
<1>3. Pressed(keys, p[q], m, {CR}) = 0
  BY <1>1, <1>2, PressedIs
<1> QED
  BY <1>3 DEF Open

\* The counts since a position, one key later.
LEMMA CountsMore ==
  ASSUME NEW keys, NEW m \in Nat, NEW i \in 1 .. m + 1
  PROVE  /\ Pressed(keys, i, m, Letters) \in Nat /\ Pressed(keys, i, m, {"DEL"}) \in Nat
         /\ keys[m + 1] \in Letters =>
              /\ Pressed(keys, i, m + 1, Letters) = Pressed(keys, i, m, Letters) + 1
              /\ Pressed(keys, i, m + 1, {"DEL"}) = Pressed(keys, i, m, {"DEL"})
         /\ keys[m + 1] = "DEL" =>
              /\ Pressed(keys, i, m + 1, Letters) = Pressed(keys, i, m, Letters)
              /\ Pressed(keys, i, m + 1, {"DEL"}) = Pressed(keys, i, m, {"DEL"}) + 1
         /\ keys[m + 1] = TAB =>
              /\ Pressed(keys, i, m + 1, Letters) = Pressed(keys, i, m, Letters)
              /\ Pressed(keys, i, m + 1, {"DEL"}) = Pressed(keys, i, m, {"DEL"})
<1>1. i \in Nat /\ i <= m + 1
  OBVIOUS
<1>2. /\ Pressed(keys, i, m, Letters) \in Nat
      /\ Pressed(keys, i, m + 1, Letters) =
           IF keys[m + 1] \in Letters THEN Pressed(keys, i, m, Letters) + 1 ELSE Pressed(keys, i, m, Letters)
  BY <1>1, PressedIs
<1>3. /\ Pressed(keys, i, m, {"DEL"}) \in Nat
      /\ Pressed(keys, i, m + 1, {"DEL"}) =
           IF keys[m + 1] \in {"DEL"} THEN Pressed(keys, i, m, {"DEL"}) + 1 ELSE Pressed(keys, i, m, {"DEL"})
  BY <1>1, PressedIs
<1> QED
  BY <1>2, <1>3, KeysDiffer

\* A letter kept is kept while more letters than DELs follow it on its line.
LEMMA LetterStays ==
  ASSUME NEW keys, NEW m \in Nat, NEW i \in 1 .. m + 1, keys[i] \in Letters, ~ Erased(keys, i, m),
         Open(keys, i, m + 1) => Pressed(keys, i, m + 1, Letters) # Pressed(keys, i, m + 1, {"DEL"})
  PROVE  ~ Erased(keys, i, m + 1)
BY ErasedMore DEF Open

LEMMA StaysErased ==
  ASSUME NEW keys, NEW m \in Nat, NEW i \in 1 .. m, Erased(keys, i, m)
  PROVE  Erased(keys, i, m + 1)
<1>1. i \in 1 .. m + 1
  OBVIOUS
<1> QED
  BY <1>1, ErasedMore

LEMMA BalanceTips ==
  ASSUME NEW keys, NEW m \in Nat, NEW q \in Nat, NEW p, Balanced(keys, p, q, m),
         NEW k \in 1 .. q, p[k] \in 1 .. m, Open(keys, p[k], m)
  PROVE  Pressed(keys, p[k], m, Letters) # Pressed(keys, p[k], m, {"DEL"})
<1> DEFINE a == Pressed(keys, p[k], m, Letters)
           b == Pressed(keys, p[k], m, {"DEL"})
<1>1. a = b + (q - k + 1)
  BY DEF Balanced
<1>2. p[k] \in Nat
  OBVIOUS
<1>3. b \in Nat
  BY <1>2, PressedIs
<1> HIDE DEF a, b
<1>4. a # b
  BY <1>1, <1>3
<1> QED
  BY <1>4 DEF a, b

\* Nothing is kept of a TAB, nor of a DEL on an empty line.
LEMMA KeyIgnored ==
  ASSUME NEW m \in Nat, NEW q \in Nat, NEW keys, NEW p, NEW g, KeysKept(keys, m, p, q, g),
         \/ keys[m + 1] = TAB
         \/ keys[m + 1] = "DEL" /\ ~ \E k \in 1 .. q : Open(keys, p[k], m)
  PROVE  KeysKept(keys, m + 1, p, q, g)
<1>1. \A i \in 1 .. m : i \in 1 .. m + 1
  OBVIOUS
<1>2. \A i \in 1 .. m + 1 : i \in 1 .. m \/ i = m + 1
  OBVIOUS
<1>3. Positions(p, q, m) /\ KeysLeft(keys, p, q, m) /\ Balanced(keys, p, q, m)
  BY DEF KeysKept
<1>4. \A k \in 1 .. q : p[k] \in 1 .. m /\ p[k] \in 1 .. m + 1
  BY <1>1, <1>3 DEF Positions
<1>5. Positions(p, q, m + 1)
  BY <1>3, <1>4 DEF Positions
<1>6. Balanced(keys, p, q, m + 1)
  <2>1. SUFFICES ASSUME NEW k \in 1 .. q, Open(keys, p[k], m + 1)
                 PROVE  Pressed(keys, p[k], m + 1, Letters) = Pressed(keys, p[k], m + 1, {"DEL"}) + (q - k + 1)
    BY DEF Balanced
  <2>2. Open(keys, p[k], m)
    BY <1>4, <2>1, OpenMore
  <2>3. keys[m + 1] = TAB
    BY <2>2
  <2>4. /\ Pressed(keys, p[k], m + 1, Letters) = Pressed(keys, p[k], m, Letters)
        /\ Pressed(keys, p[k], m + 1, {"DEL"}) = Pressed(keys, p[k], m, {"DEL"})
    BY <1>4, <2>3, CountsMore
  <2> QED
    BY <1>3, <2>2, <2>4 DEF Balanced
<1>7. KeysLeft(keys, p, q, m + 1)
  <2>1. ASSUME NEW k \in 1 .. q
        PROVE  keys[p[k]] = CR \/ (keys[p[k]] \in Letters /\ ~ Erased(keys, p[k], m + 1))
    <3>1. keys[p[k]] = CR \/ (keys[p[k]] \in Letters /\ ~ Erased(keys, p[k], m))
      BY <1>3 DEF KeysLeft
    <3>2. Open(keys, p[k], m + 1) => Pressed(keys, p[k], m + 1, Letters) # Pressed(keys, p[k], m + 1, {"DEL"})
      <4>1. SUFFICES ASSUME Open(keys, p[k], m + 1)
                     PROVE  Pressed(keys, p[k], m + 1, Letters) # Pressed(keys, p[k], m + 1, {"DEL"})
        OBVIOUS
      <4> DEFINE mm == m + 1
      <4>2. mm \in Nat /\ p[k] \in 1 .. mm /\ Balanced(keys, p, q, mm) /\ Open(keys, p[k], mm)
        BY <1>4, <1>6, <4>1
      <4> HIDE DEF mm
      <4>3. Pressed(keys, p[k], mm, Letters) # Pressed(keys, p[k], mm, {"DEL"})
        BY <4>2, BalanceTips
      <4> QED
        BY <4>3 DEF mm
    <3> QED
      BY <1>4, <3>1, <3>2, LetterStays
  <2>2. keys[m + 1] # CR /\ keys[m + 1] \notin Letters
    BY KeysDiffer
  <2>3. ASSUME NEW i \in 1 .. m + 1, keys[i] = CR PROVE \E k \in 1 .. q : p[k] = i
    BY <1>2, <1>3, <2>2, <2>3 DEF KeysLeft
  <2>4. ASSUME NEW i \in 1 .. m + 1, keys[i] \in Letters
        PROVE  Erased(keys, i, m + 1) \/ \E k \in 1 .. q : p[k] = i
    <3>1. i \in 1 .. m
      BY <1>2, <2>2, <2>4
    <3>2. Erased(keys, i, m) \/ \E k \in 1 .. q : p[k] = i
      BY <1>3, <2>4, <3>1 DEF KeysLeft
    <3> QED
      BY <3>1, <3>2, StaysErased
  <2> QED
    BY <2>1, <2>3, <2>4 DEF KeysLeft
<1> QED
  BY <1>5, <1>6, <1>7 DEF KeysKept

\* A DEL takes back the last key kept, a letter of the line that is open.
LEMMA KeyTakenBack ==
  ASSUME NEW m \in Nat, NEW q \in Nat \ {0}, NEW keys, NEW p, NEW g, KeysKept(keys, m, p, q, g),
         keys[m + 1] = "DEL", keys[p[q]] \in Letters
  PROVE  KeysKept(keys, m + 1, p, q - 1, g)
<1> DEFINE r == q - 1
           mm == m + 1
<1>1. /\ r \in Nat /\ \A k \in 1 .. r : k \in 1 .. q
      /\ \A k \in 1 .. q : k \in 1 .. r \/ k = q
      /\ q \in 1 .. q /\ \A k \in 1 .. r : r - k + 1 = (q - k + 1) - 1
  OBVIOUS
<1>2. /\ mm \in Nat /\ \A i \in 1 .. m : i \in 1 .. mm
      /\ \A i \in 1 .. mm : i \in 1 .. m \/ i = mm
  OBVIOUS
<1>3. Positions(p, q, m) /\ KeysLeft(keys, p, q, m) /\ Balanced(keys, p, q, m)
  BY DEF KeysKept
<1>4. \A k \in 1 .. q : p[k] \in 1 .. m /\ p[k] \in 1 .. mm
  BY <1>2, <1>3 DEF Positions
<1> HIDE DEF r
<1>5. Positions(p, r, mm)
  BY <1>1, <1>3, <1>4 DEF Positions
<1>6. Balanced(keys, p, r, mm)
  <2>1. SUFFICES ASSUME NEW k \in 1 .. r, Open(keys, p[k], mm)
                 PROVE  Pressed(keys, p[k], mm, Letters) = Pressed(keys, p[k], mm, {"DEL"}) + (r - k + 1)
    BY DEF Balanced
  <2> DEFINE a == Pressed(keys, p[k], m, Letters)
             b == Pressed(keys, p[k], m, {"DEL"})
  <2>2. k \in 1 .. q /\ p[k] \in 1 .. m /\ p[k] \in 1 .. m + 1
    BY <1>1, <1>4
  <2>3. Open(keys, p[k], m)
    BY <2>1, <2>2, OpenMore
  <2>4. a = b + (q - k + 1)
    BY <1>3, <2>2, <2>3 DEF Balanced
  <2>5. a \in Nat /\ b \in Nat /\ Pressed(keys, p[k], mm, Letters) = a /\ Pressed(keys, p[k], mm, {"DEL"}) = b + 1
    BY <2>2, CountsMore
  <2> HIDE DEF a, b, mm
  <2>6. r - k + 1 = (q - k + 1) - 1
    BY <1>1
  <2>7. a = (b + 1) + (r - k + 1)
    BY <1>1, <2>2, <2>4, <2>5, <2>6
  <2> QED
    BY <2>5, <2>7
<1>7. KeysLeft(keys, p, r, mm)
  <2>1. ASSUME NEW k \in 1 .. r
        PROVE  keys[p[k]] = CR \/ (keys[p[k]] \in Letters /\ ~ Erased(keys, p[k], mm))
    <3>1. keys[p[k]] = CR \/ (keys[p[k]] \in Letters /\ ~ Erased(keys, p[k], m))
      BY <1>1, <1>3 DEF KeysLeft
    <3>2. p[k] \in 1 .. mm
      BY <1>1, <1>4
    <3>3. Open(keys, p[k], mm) => Pressed(keys, p[k], mm, Letters) # Pressed(keys, p[k], mm, {"DEL"})
      <4> HIDE DEF mm
      <4> QED
        BY <1>1, <1>2, <1>6, <3>2, BalanceTips
    <3> QED
      BY <3>1, <3>2, <3>3, LetterStays
  <2>2. keys[mm] # CR /\ keys[mm] \notin Letters
    BY KeysDiffer
  <2>3. ASSUME NEW i \in 1 .. mm, keys[i] = CR PROVE \E k \in 1 .. r : p[k] = i
    <3>1. PICK k \in 1 .. q : p[k] = i
      BY <1>2, <1>3, <2>2, <2>3 DEF KeysLeft
    <3>2. k # q
      BY <2>3, <3>1, KeysDiffer
    <3> QED
      BY <1>1, <3>1, <3>2
  <2>4. ASSUME NEW i \in 1 .. mm, keys[i] \in Letters
        PROVE  Erased(keys, i, mm) \/ \E k \in 1 .. r : p[k] = i
    <3>1. i \in 1 .. m
      BY <1>2, <2>2, <2>4
    <3>2. CASE Erased(keys, i, m)
      BY <3>1, <3>2, StaysErased
    <3>3. CASE \E k \in 1 .. r : p[k] = i
      BY <3>3
    <3>4. CASE i = p[q]
      <4> DEFINE a == Pressed(keys, i, m, Letters)
                 b == Pressed(keys, i, m, {"DEL"})
      <4>1. Open(keys, p[q], m)
        BY <1>3, TopIsOpen
      <4>2. a = b + (q - q + 1)
        BY <1>1, <1>3, <3>4, <4>1 DEF Balanced
      <4>3. i \in 1 .. m + 1
        BY <1>2, <3>1
      <4>4. a \in Nat /\ b \in Nat /\ Pressed(keys, i, mm, Letters) = a /\ Pressed(keys, i, mm, {"DEL"}) = b + 1
        BY <4>3, CountsMore
      <4>5. Open(keys, i, mm)
        BY <2>2, <3>1, <3>4, <4>1, OpenMore
      <4> HIDE DEF a, b
      <4>6. Pressed(keys, i, mm, Letters) = Pressed(keys, i, mm, {"DEL"})
        <5>1. q - q + 1 = 1
          OBVIOUS
        <5> QED
          BY <4>2, <4>4, <5>1
      <4>7. Pressed(keys, i, mm, {CR}) = 0
        BY <4>5 DEF Open
      <4> QED
        BY <4>3, <4>6, <4>7, ErasedMore
    <3>5. Erased(keys, i, m) \/ \E k \in 1 .. q : p[k] = i
      BY <1>3, <2>4, <3>1 DEF KeysLeft
    <3> QED
      BY <1>1, <3>2, <3>3, <3>4, <3>5
  <2> QED
    BY <2>1, <2>3, <2>4 DEF KeysLeft
<1>8. Taken(g, keys, p, r)
  BY <1>1 DEF KeysKept, Taken
<1> QED
  BY <1>5, <1>6, <1>7, <1>8 DEF KeysKept, r

\* An end of a line and a letter are kept.
LEMMA KeyKept ==
  ASSUME NEW m \in Nat, NEW q \in Nat, NEW keys, NEW p, NEW g, KeysKept(keys, m, p, q, g),
         keys[m + 1] = CR \/ keys[m + 1] \in Letters
  PROVE  \E pp, gg : KeysKept(keys, m + 1, pp, q + 1, gg) /\ gg[q + 1] = KeyPressed(g[q], keys[m + 1])
<1> DEFINE r == q + 1
           mm == m + 1
           pp == [k \in 1 .. r |-> IF k = r THEN mm ELSE p[k]]
           gg == [k \in 0 .. r |-> IF k = r THEN KeyPressed(g[q], keys[mm]) ELSE g[k]]
<1>1. /\ r \in Nat /\ \A k \in 1 .. r : (k \in 1 .. q /\ k < r) \/ k = r
      /\ \A k \in 1 .. q : k \in 1 .. r /\ k # r /\ k - 1 # r /\ k - 1 \in 0 .. r
      /\ r - 1 = q /\ q # r /\ q \in 0 .. r /\ r \in 1 .. r /\ 0 # r
      /\ \A k \in 1 .. q : r - k + 1 = (q - k + 1) + 1
  OBVIOUS
<1>2. /\ mm \in Nat /\ mm \in 1 .. mm /\ \A i \in 1 .. m : i \in 1 .. mm /\ i < mm
      /\ \A i \in 1 .. mm : i \in 1 .. m \/ i = mm
  OBVIOUS
<1>3. Positions(p, q, m) /\ KeysLeft(keys, p, q, m) /\ Balanced(keys, p, q, m) /\ Taken(g, keys, p, q)
  BY DEF KeysKept
<1>4. pp[r] = mm /\ \A k \in 1 .. q : pp[k] = p[k]
  BY <1>1
<1>5. gg[r] = KeyPressed(g[q], keys[mm]) /\ gg[q] = g[q] /\ gg[0] = g[0]
      /\ \A k \in 1 .. q : gg[k] = g[k] /\ gg[k - 1] = g[k - 1]
  BY <1>1
<1> HIDE DEF r, pp, gg
<1>6. \A k \in 1 .. q : p[k] \in 1 .. m /\ p[k] \in 1 .. mm /\ p[k] < mm
  BY <1>2, <1>3 DEF Positions
<1>7. Positions(pp, r, mm)
  <2>1. \A k \in 1 .. r : pp[k] \in 1 .. mm
    BY <1>1, <1>2, <1>4, <1>6
  <2>2. ASSUME NEW k \in 1 .. r, NEW l \in 1 .. r, k < l PROVE pp[k] < pp[l]
    <3>1. k \in 1 .. q
      BY <1>1, <2>2
    <3>2. CASE l \in 1 .. q
      BY <1>3, <1>4, <2>2, <3>1, <3>2 DEF Positions
    <3>3. CASE l = r
      BY <1>4, <1>6, <3>1, <3>3
    <3> QED
      BY <1>1, <3>2, <3>3
  <2> QED
    BY <2>1, <2>2 DEF Positions
<1>8. Balanced(keys, pp, r, mm)
  <2>1. SUFFICES ASSUME NEW k \in 1 .. r, Open(keys, pp[k], mm)
                 PROVE  Pressed(keys, pp[k], mm, Letters) = Pressed(keys, pp[k], mm, {"DEL"}) + (r - k + 1)
    BY DEF Balanced
  <2> DEFINE i == pp[k]
             a == Pressed(keys, i, m, Letters)
             b == Pressed(keys, i, m, {"DEL"})
  <2>2. i \in 1 .. mm
    BY <1>7 DEF Positions
  <2> HIDE DEF i
  <2>3. keys[mm] \in Letters
    <3>1. SUFFICES ASSUME keys[mm] = CR PROVE FALSE
      OBVIOUS
    <3>2. \A j \in i .. mm : keys[j] \notin {CR}
      BY <1>2, <2>1, <2>2, PressedIs DEF Open, i
    <3>3. mm \in i .. mm
      BY <2>2
    <3> QED
      BY <3>1, <3>2, <3>3
  <2>4. a \in Nat /\ b \in Nat /\ Pressed(keys, i, mm, Letters) = a + 1 /\ Pressed(keys, i, mm, {"DEL"}) = b
    BY <2>2, <2>3, CountsMore
  <2>5. CASE k \in 1 .. q
    <3>1. i = p[k] /\ i \in 1 .. m
      BY <1>4, <1>6, <2>5 DEF i
    <3>2. Open(keys, i, m)
      BY <2>1, <3>1, OpenMore DEF i
    <3>3. a = b + (q - k + 1)
      BY <1>3, <2>5, <3>1, <3>2 DEF Balanced
    <3>4. r - k + 1 = (q - k + 1) + 1
      BY <1>1, <2>5
    <3> HIDE DEF a, b, mm
    <3>5. a + 1 = b + (r - k + 1)
      BY <2>4, <2>5, <3>3, <3>4
    <3> QED
      BY <2>4, <3>5 DEF i
  <2>6. CASE k = r
    <3>1. i = mm
      BY <1>4, <2>6 DEF i
    <3>2. ASSUME NEW set PROVE Pressed(keys, i, m, set) = 0
      <4>1. i \in Nat /\ \A j \in i .. m : keys[j] \notin set
        BY <3>1
      <4> QED
        BY <4>1, PressedIs
    <3>3. a = 0 /\ b = 0 /\ r - k + 1 = 1
      BY <1>1, <2>6, <3>2
    <3> HIDE DEF a, b, mm
    <3>4. a + 1 = b + (r - k + 1)
      BY <3>3
    <3> QED
      BY <2>4, <3>4 DEF i
  <2> QED
    BY <1>1, <2>5, <2>6
<1>9. KeysLeft(keys, pp, r, mm)
  <2>1. ASSUME NEW k \in 1 .. r
        PROVE  keys[pp[k]] = CR \/ (keys[pp[k]] \in Letters /\ ~ Erased(keys, pp[k], mm))
    <3>1. pp[k] \in 1 .. mm
      BY <1>7 DEF Positions
    <3>2. keys[pp[k]] = CR \/ (keys[pp[k]] \in Letters /\ ~ Erased(keys, pp[k], m))
      <4>1. CASE k \in 1 .. q
        BY <1>3, <1>4, <4>1 DEF KeysLeft
      <4>2. CASE k = r
        <5>1. ~ Erased(keys, mm, m)
          <6>1. \A j \in mm .. m : FALSE
            OBVIOUS
          <6> QED
            BY <6>1 DEF Erased
        <5> QED
          BY <1>4, <4>2, <5>1
      <4> QED
        BY <1>1, <4>1, <4>2
    <3>3. Open(keys, pp[k], mm) => Pressed(keys, pp[k], mm, Letters) # Pressed(keys, pp[k], mm, {"DEL"})
      <4> HIDE DEF mm
      <4> QED
        BY <1>1, <1>2, <1>8, <3>1, BalanceTips
    <3> QED
      BY <3>1, <3>2, <3>3, LetterStays
  <2>2. ASSUME NEW i \in 1 .. mm, keys[i] = CR PROVE \E k \in 1 .. r : pp[k] = i
    <3>1. CASE i \in 1 .. m
      <4>1. PICK k \in 1 .. q : p[k] = i
        BY <1>3, <2>2, <3>1 DEF KeysLeft
      <4> QED
        BY <1>1, <1>4, <4>1
    <3> QED
      BY <1>1, <1>2, <1>4, <3>1
  <2>3. ASSUME NEW i \in 1 .. mm, keys[i] \in Letters
        PROVE  Erased(keys, i, mm) \/ \E k \in 1 .. r : pp[k] = i
    <3>1. CASE i \in 1 .. m
      <4>1. CASE Erased(keys, i, m)
        BY <3>1, <4>1, StaysErased
      <4>2. CASE \E k \in 1 .. q : p[k] = i
        BY <1>1, <1>4, <4>2
      <4> QED
        BY <1>3, <2>3, <3>1, <4>1, <4>2 DEF KeysLeft
    <3> QED
      BY <1>1, <1>2, <1>4, <3>1
  <2> QED
    BY <2>1, <2>2, <2>3 DEF KeysLeft
<1>10. Taken(gg, keys, pp, r)
  <2>1. gg[0] = EmptyConsole
    BY <1>3, <1>5 DEF Taken
  <2>2. ASSUME NEW k \in 1 .. r PROVE gg[k] = KeyPressed(gg[k - 1], keys[pp[k]])
    <3>1. CASE k \in 1 .. q
      BY <1>3, <1>4, <1>5, <3>1 DEF Taken
    <3>2. CASE k = r
      BY <1>1, <1>4, <1>5, <3>2
    <3> QED
      BY <1>1, <3>1, <3>2
  <2> QED
    BY <2>1, <2>2 DEF Taken
<1>11. KeysKept(keys, mm, pp, r, gg) /\ gg[r] = KeyPressed(g[q], keys[mm])
  BY <1>5, <1>7, <1>8, <1>9, <1>10 DEF KeysKept
<1> QED
  BY <1>11 DEF r

\* The console after the keys up to m is that after some of them, kept.
EditsTo(keys, f, m) == \E q \in Nat : \E p, g : KeysKept(keys, m, p, q, g) /\ g[q] = f[m]

\* Whatever the keys: the console after them is that after the keys kept of them,
\* if no line was full on the way.
LEMMA EditIsKept ==
  ASSUME NEW n \in Nat, NEW keys, \A i \in 1 .. n : keys[i] \in Keys,
         NEW f, Typing(f, keys, n), \A i \in 1 .. n : Len(f[i].line) < LineSize
  PROVE  \A m \in 0 .. n : EditsTo(keys, f, m)
<1> DEFINE Is(m) == \E q \in Nat : \E p, g : KeysKept(keys, m, p, q, g) /\ g[q] = f[m]
           S == {m \in 0 .. n : Is(m)}
<1>1. 0 \in S
  <2> DEFINE g == [k \in 0 .. 0 |-> EmptyConsole]
             p == <<>>
  <2>1. g[0] = EmptyConsole /\ g[0] = f[0]
    BY DEF Typing
  <2> HIDE DEF g, p
  <2>2. KeysKept(keys, 0, p, 0, g)
    BY <2>1 DEF KeysKept, Positions, KeysLeft, Balanced, Taken
  <2>3. Is(0)
    BY <2>1, <2>2
  <2> QED
    BY <2>3
<1>2. ASSUME NEW m \in 0 .. n - 1, m \in S PROVE m + 1 \in S
  <2> DEFINE mm == m + 1
             key == keys[m + 1]
  <2>1. m \in Nat /\ mm \in 1 .. n /\ mm \in 0 .. n /\ m \in 0 .. n /\ mm - 1 = m /\ (m = 0 \/ m \in 1 .. n)
    OBVIOUS
  <2>2. PICK q \in Nat : \E p, g : KeysKept(keys, m, p, q, g) /\ g[q] = f[m]
    BY <1>2
  <2>3. PICK p, g : KeysKept(keys, m, p, q, g) /\ g[q] = f[m]
    BY <2>2
  <2>4. key \in Keys /\ f[mm] = KeyPressed(f[m], key)
    BY <2>1 DEF Typing
  <2>5. f[m] \in Consoles
    BY <2>1, TypingStays
  <2>6. Len(f[m].line) < LineSize
    <3>1. Len(EmptyConsole.line) < LineSize
      BY DEF EmptyConsole, LineSize
    <3> QED
      BY <2>1, <3>1 DEF Typing
  <2>7. Positions(p, q, m) /\ KeysLeft(keys, p, q, m) /\ Taken(g, keys, p, q)
    BY <2>3 DEF KeysKept
  <2> DEFINE kept == [k \in 1 .. q |-> keys[p[k]]]
  <2>8. Typing(g, kept, q) /\ (q # 0 => kept[q] = keys[p[q]] /\ q \in 1 .. q)
    BY <2>7, TakenIsTyping
  <2>0. SUFFICES Is(mm)
    BY <2>1
  <2> HIDE DEF mm, key, kept, S, Is
  <2>9. CASE key = CR \/ key \in Letters
    <3>1. keys[m + 1] = CR \/ keys[m + 1] \in Letters
      BY <2>9 DEF key
    <3>2. PICK pp, gg : KeysKept(keys, m + 1, pp, q + 1, gg) /\ gg[q + 1] = KeyPressed(g[q], keys[m + 1])
      BY <2>1, <2>3, <3>1, KeyKept
    <3>3. q + 1 \in Nat /\ gg[q + 1] = f[mm]
      BY <2>3, <2>4, <3>2 DEF key
    <3> QED
      BY <3>2, <3>3 DEF Is, mm
  <2>10. CASE key = TAB
    <3>1. KeysKept(keys, m + 1, p, q, g)
      BY <2>1, <2>3, <2>10, KeyIgnored DEF key
    <3>2. f[mm] = g[q]
      BY <2>3, <2>4, <2>5, <2>10, KeyMeans
    <3> QED
      BY <3>1, <3>2 DEF Is, mm
  <2>11. CASE key = "DEL"
    <3>1. CASE \E k \in 1 .. q : Open(keys, p[k], m)
      <4>1. keys[p[q]] \in Letters /\ q \in Nat \ {0}
        BY <2>1, <2>7, <3>1, OpenOnTop
      <4>2. KeyPressed(g[q], "DEL") = g[q - 1]
        BY <2>3, <2>6, <2>8, <4>1, LetterTaken
      <4>3. KeysKept(keys, m + 1, p, q - 1, g)
        BY <2>1, <2>3, <2>11, <4>1, KeyTakenBack DEF key
      <4>4. q - 1 \in Nat /\ g[q - 1] = f[mm]
        BY <2>3, <2>4, <2>11, <4>1, <4>2
      <4> QED
        BY <4>3, <4>4 DEF Is, mm
    <3>2. CASE ~ \E k \in 1 .. q : Open(keys, p[k], m)
      <4>1. KeysKept(keys, m + 1, p, q, g)
        BY <2>1, <2>3, <2>11, <3>2, KeyIgnored DEF key
      <4>2. f[m].line = <<>>
        <5>1. CASE q = 0
          BY <2>3, <2>7, <5>1 DEF Taken, EmptyConsole
        <5>2. CASE q # 0
          <6>1. q \in Nat \ {0} /\ q \in 1 .. q /\ q - 1 \in 0 .. q
            BY <5>2
          <6>2. keys[p[q]] \notin Letters
            BY <2>1, <2>7, <3>2, <6>1, TopIsOpen
          <6>3. keys[p[q]] = CR
            BY <2>7, <6>1, <6>2 DEF KeysLeft
          <6>4. g[q] = KeyPressed(g[q - 1], CR)
            BY <2>7, <6>1, <6>3 DEF Taken
          <6>5. g[q - 1] \in Consoles
            BY <2>8, <6>1, TypingStays
          <6> QED
            BY <2>3, <6>4, <6>5, KeyMeans
        <5> QED
          BY <5>1, <5>2
      <4>3. f[mm] = g[q]
        BY <2>3, <2>4, <2>5, <2>11, <4>2, KeyMeans
      <4> QED
        BY <4>1, <4>3 DEF Is, mm
    <3> QED
      BY <3>1, <3>2
  <2> QED
    BY <2>4, <2>9, <2>10, <2>11, KeysDiffer
<1> HIDE DEF S
<1>3. \A m \in 0 .. n : m \in S
  BY <1>1, <1>2, SetInduction
<1>4. ASSUME NEW m \in 0 .. n PROVE EditsTo(keys, f, m)
  <2>1. Is(m)
    BY <1>3 DEF S
  <2> QED
    BY <2>1 DEF EditsTo
<1> HIDE DEF Is, S
<1> QED
  BY <1>4

\* What is left of the keys are the keys kept.
LEMMA CorrectedAre ==
  ASSUME NEW keys, Len(keys) \in Nat, NEW q \in Nat, NEW p, NEW g, KeysKept(keys, Len(keys), p, q, g)
  PROVE  Len(Corrected(keys)) = q /\ \A k \in 1 .. q : Corrected(keys)[k] = keys[p[k]]
<1> DEFINE n == Len(keys)
           at == [k \in 1 .. q |-> p[k]]
           left == Left(keys, n)
<1>1. Positions(p, q, n) /\ KeysLeft(keys, p, q, n) /\ n \in Nat
  BY DEF KeysKept
<1>2. \A k \in 1 .. q : at[k] = p[k]
  OBVIOUS
<1>3. Rising(at, q)
  <2>1. \A k \in 1 .. q : p[k] \in Nat
    BY <1>1 DEF Positions
  <2>2. at \in [1 .. q -> Nat]
    BY <2>1
  <2> HIDE DEF at
  <2> QED
    BY <1>1, <1>2, <2>2 DEF Rising, Positions
<1> HIDE DEF at, n
<1>4. left = Reached(at, q)
  <2>1. ASSUME NEW i \in left PROVE \E k \in 1 .. q : at[k] = i
    <3>1. i \in 1 .. n /\ (keys[i] = CR \/ (keys[i] \in Letters /\ ~ Erased(keys, i, n)))
      BY DEF Left, Letters
    <3>2. \E k \in 1 .. q : p[k] = i
      BY <1>1, <3>1 DEF KeysLeft
    <3> QED
      BY <1>2, <3>2
  <2>2. ASSUME NEW k \in 1 .. q PROVE at[k] \in left
    <3>1. p[k] \in 1 .. n
      BY <1>1 DEF Positions
    <3>2. keys[p[k]] = CR \/ (keys[p[k]] \in Letters /\ ~ Erased(keys, p[k], n))
      BY <1>1 DEF KeysLeft
    <3> QED
      BY <1>2, <3>1, <3>2 DEF Left, Letters
  <2> HIDE DEF left
  <2> QED
    BY <2>1, <2>2 DEF Reached
<1> HIDE DEF left
<1>5. Cardinality(left) = q /\ \A k \in 1 .. q : Nth(left, k) = p[k]
  BY <1>2, <1>3, <1>4, NthOfRising
<1>6. Corrected(keys) = [k \in 1 .. Cardinality(left) |-> keys[Nth(left, k)]]
  BY DEF Corrected, left, n
<1>7. Corrected(keys) = [k \in 1 .. q |-> keys[Nth(left, k)]]
  BY <1>5, <1>6
<1> QED
  BY <1>5, <1>7

\* However many keys are typed, while no line is full: the console is as if only
\* the keys had been typed that no DEL of their line has taken back, and the ends
\* of lines (ConsoleTask.cpp).  The run takes every five keys.
THEOREM CorrectionsAreFree ==
  ASSUME NEW keys, Len(keys) \in Nat, \A i \in 1 .. Len(keys) : keys[i] \in Keys,
         \A i \in 1 .. Len(keys) : Len(Edit(keys)[i].line) < LineSize
  PROVE  Edit(keys)[Len(keys)] = Edit(Corrected(keys))[Len(Corrected(keys))]
<1> DEFINE n == Len(keys)
           f == Edit(keys)
           left == Corrected(keys)
<1>1. Typing(f, keys, n)
  BY EditIs
<1>2. n \in Nat /\ (\A i \in 1 .. n : keys[i] \in Keys) /\ \A i \in 1 .. n : Len(f[i].line) < LineSize
  OBVIOUS
<1> HIDE DEF n, f, left
<1>3. n \in 0 .. n
  BY <1>2
<1>4. PICK q \in Nat : \E p, g : KeysKept(keys, n, p, q, g) /\ g[q] = f[n]
  <2>1. EditsTo(keys, f, n)
    BY <1>1, <1>2, <1>3, EditIsKept
  <2> QED
    BY <2>1 DEF EditsTo
<1>5. PICK p, g : KeysKept(keys, n, p, q, g) /\ g[q] = f[n]
  BY <1>4
<1>6. Len(left) = q /\ \A k \in 1 .. q : left[k] = keys[p[k]]
  BY <1>2, <1>5, CorrectedAre DEF n, left
<1>7. Typing(Edit(left), left, q)
  BY <1>6, EditIs
<1> DEFINE kept == [k \in 1 .. q |-> keys[p[k]]]
<1>8. Typing(g, kept, q) /\ \A k \in 1 .. q : left[k] = kept[k]
  BY <1>5, <1>6, TakenIsTyping DEF KeysKept
<1> HIDE DEF kept
<1>9. Edit(left)[q] = g[q]
  BY <1>7, <1>8, TypingSame
<1> QED
  BY <1>5, <1>6, <1>9 DEF n, f, left

LEMMA TheEditingMeans == EditingMeans
<1>1. SUFFICES ASSUME NEW keys \in Typed
               PROVE  LET typed == Edit(keys)[Len(keys)]
                          plain == Edit(Corrected(keys))[Len(Corrected(keys))]
                      IN  /\ (\A i \in DOMAIN keys : Len(Edit(keys)[i].line) < LineSize) => typed = plain
                          /\ <<>> \notin {typed.executed[i] : i \in DOMAIN typed.executed}
                          /\ KeyPressed(KeyPressed(typed, CR), LF) = KeyPressed(typed, CR)
  BY DEF EditingMeans
<1> DEFINE typed == Edit(keys)[Len(keys)]
           plain == Edit(Corrected(keys))[Len(Corrected(keys))]
<1>2. Len(keys) \in Nat /\ DOMAIN keys = 1 .. Len(keys) /\ \A i \in 1 .. Len(keys) : keys[i] \in Keys
  <2>1. PICK k \in 0 .. 5 : keys \in [1 .. k -> Keys]
    BY DEF Typed
  <2>2. keys \in Seq(Keys)
    BY <2>1
  <2> QED
    BY <2>2
<1>3. (\A i \in DOMAIN keys : Len(Edit(keys)[i].line) < LineSize) => typed = plain
  BY <1>2, CorrectionsAreFree
<1> HIDE DEF plain
<1>4. typed \in Consoles
  <2>1. Typing(Edit(keys), keys, Len(keys)) /\ Len(keys) \in 0 .. Len(keys)
    BY <1>2, EditIs
  <2> QED
    BY <1>2, <2>1, TypingStays
<1> HIDE DEF typed
<1>5. <<>> \notin {typed.executed[i] : i \in DOMAIN typed.executed}
  <2>1. typed.executed \in Seq(Entries \ {<<>>})
    BY <1>4 DEF Consoles
  <2> QED
    BY <2>1
<1>6. KeyPressed(KeyPressed(typed, CR), LF) = KeyPressed(typed, CR)
  <2>1. KeyPressed(typed, CR).line = <<>>
    BY <1>4, KeyMeans
  <2>2. \A c : c.line = <<>> => KeyPressed(c, LF) = c
    BY LineEnds
  <2> QED
    BY <2>1, <2>2
<1> QED
  BY <1>3, <1>5, <1>6 DEF typed, plain

\* What the run's commands say of lines of four words and of five keys holds of
\* the console, CliEngine and SystemController (ConsoleTask.cpp, CliEngine.cpp,
\* SystemController.cpp): answers are true, commands compose, blanks mean nothing,
\* and corrections leave the line of the keys they did not take back.
THEOREM CommandsAreSound == CommandsHold
BY TheAnswersAreTrue, TheCommandsCompose, TheSpacingIsFree, TheEditingMeans DEF CommandsHold, CommandsMean
=============================================================================
