----------------------------- MODULE Checksums -----------------------------
(***************************************************************************)
(* The two checksums of the project: the table-driven CRC-32 of images and *)
(* RAM structures (Crc32.cpp) and the bit-wise CRC-16 of data chunks       *)
(* (ProtocolTypes.h, and ota_updater.py for the host).  A word is the set  *)
(* of the positions of its one bits, so ^ is the symmetric difference and  *)
(* 32-bit words stay within TLC's integers; a byte is a word of 8 bits.    *)
(***************************************************************************)
EXTENDS OtaMemory, Naturals, Sequences, FiniteSets, FiniteSetsExt

CrcByte == SUBSET (0 .. 7)

Ones(w) == 0 .. w - 1

\* The word of two 16-bit halves, written in the source's hexadecimal.
HexWord(high, low) ==
  LET Set(half) == {b \in 0 .. 15 : (half \div 2 ^ b) % 2 = 1}
  IN  Set(low) \cup {b + 16 : b \in Set(high)}

ShiftRight(w, n) == {b - n : b \in {c \in w : c >= n}}

\* w << n in a variable of the given width.
ShiftLeft(w, n, width) == {b + n : b \in w} \cap Ones(width)
-----------------------------------------------------------------------------
(* CRC-32. *)

\* CRC32_TABLE[1], [2], [4], ... [128] as the source spells them.
TableWords ==
  << HexWord(\h7707, \h3096), HexWord(\hEE0E, \h612C), HexWord(\h076D, \hC419),
     HexWord(\h0EDB, \h8832), HexWord(\h1DB7, \h1064), HexWord(\h3B6E, \h20C8),
     HexWord(\h76DC, \h4190), HexWord(\hEDB8, \h8320) >>

\* Each of the 256 words is the exclusive or of those of its index's bits.
CRC32_TABLE ==
  [i \in CrcByte |-> {b \in Ones(32) : Cardinality({k \in i : b \in TableWords[k + 1]}) % 2 = 1}]

INITIAL_REMAINDER == Ones(32)
FINAL_XOR_VALUE == Ones(32)

Crc32Update(crc, bytes) ==
  LET after[i \in 0 .. Len(bytes)] ==
        IF i = 0 THEN crc
        ELSE LET c == after[i - 1]
             IN  SymDiff(CRC32_TABLE[SymDiff(c, bytes[i]) \cap Ones(8)], ShiftRight(c, 8))
  IN  after[Len(bytes)]

Crc32Finalize(crc) == SymDiff(crc, FINAL_XOR_VALUE)

Crc32Calculate(bytes) == Crc32Finalize(Crc32Update(INITIAL_REMAINDER, bytes))
-----------------------------------------------------------------------------
(* CRC-16. *)

CCITT == HexWord(0, \h1021)

Crc16Bit(crc) ==
  IF 15 \in crc THEN SymDiff(ShiftLeft(crc, 1, 16), CCITT) ELSE ShiftLeft(crc, 1, 16)

Crc16Byte(crc, byte) ==
  LET after[i \in 0 .. 8] ==
        IF i = 0 THEN SymDiff(crc, ShiftLeft(byte, 8, 16)) ELSE Crc16Bit(after[i - 1])
  IN  after[8]

crc16_ccitt(bytes) ==
  LET after[i \in 0 .. Len(bytes)] ==
        IF i = 0 THEN Ones(16) ELSE Crc16Byte(after[i - 1], bytes[i])
  IN  after[Len(bytes)]

\* Mutant: the mask forgotten.
HostCrc16Unmasked(crc) ==
  LET shifted == ShiftLeft(crc, 1, 32)
  IN  IF 15 \in crc THEN SymDiff(shifted, CCITT) ELSE shifted

\* The host's loop, on integers that do not wrap: it masks after each step.
HostCrc16Bit(crc) ==
  LET shifted == ShiftLeft(crc, 1, 17)
  IN  (IF 15 \in crc THEN SymDiff(shifted, CCITT) ELSE shifted) \cap Ones(16)

\* One step per bit: the byte is brought in before the first of its eight.
HostCrc16(bytes) ==
  LET after[i \in 0 .. 8 * Len(bytes)] ==
        IF i = 0 THEN Ones(16)
        ELSE LET byte == ShiftLeft(bytes[((i - 1) \div 8) + 1], 8, 16)
             IN  HostCrc16Bit(IF i % 8 = 1 THEN SymDiff(after[i - 1], byte) ELSE after[i - 1])
  IN  after[8 * Len(bytes)]
-----------------------------------------------------------------------------
(* The definition of a CRC: the remainder of the message, a polynomial over *)
(* GF(2) given by the set of its exponents, on division by a generator.     *)

Remainder(message, generator, degree, n) ==
  LET left[e \in 0 .. 8 * n] ==
        IF e = 8 * n THEN message
        ELSE LET p == left[e + 1]
             IN  IF e + degree \in p THEN SymDiff(p, {e + g : g \in generator}) ELSE p
  IN  left[0]

\* n bytes, most significant bit first, followed by degree zero bits, the
\* first degree bits complemented (the all-ones initial remainder).
Straight(bytes, degree) ==
  LET n == Len(bytes)
  IN  SymDiff(UNION {{8 * (n - i) + b + degree : b \in bytes[i]} : i \in 1 .. n},
              (8 * n) .. (8 * n + degree - 1))

\* The same with the bits of every byte in the opposite order.
Mirrored(bytes, degree) == Straight([i \in DOMAIN bytes |-> {7 - b : b \in bytes[i]}], degree)

G16 == CCITT \cup {16}
G32 == HexWord(\h04C1, \h1DB7) \cup {32}

Crc16Defined(bytes) == Remainder(Straight(bytes, 16), G16, 16, Len(bytes))

Crc32Defined(bytes) ==
  {31 - b : b \in SymDiff(Remainder(Mirrored(bytes, 32), G32, 32, Len(bytes)), Ones(32))}

\* Every message of one byte, pairs and triples over the bytes of one bit,
\* none and all, and the usual check message "123456789".
Corner == {{}, 0 .. 7} \cup {{b} : b \in 0 .. 7}
CheckMessage == [i \in 1 .. 9 |-> HexWord(0, \h30 + i)]
Messages ==
  {<<>>, CheckMessage} \cup {<<b>> : b \in CrcByte} \cup {<<a, b>> : a \in Corner, b \in Corner}
    \cup {<<a, {3}, b>> : a \in Corner, b \in Corner}

\* The table-driven CRC-32 and the two bit-wise CRC-16 compute the remainders
\* that define IEEE 802.3 and CCITT-FALSE, the node's and the host's agree, and
\* the check values are the published ones: a wrong table word, shift or
\* initial value in either program would refuse every image of the other.
CrcsAgree ==
  /\ \A m \in Messages : /\ Crc32Calculate(m) = Crc32Defined(m)
                         /\ crc16_ccitt(m) = Crc16Defined(m)
                         /\ HostCrc16(m) = crc16_ccitt(m)
  /\ Crc32Calculate(CheckMessage) = HexWord(\hCBF4, \h3926)
  /\ crc16_ccitt(CheckMessage) = HexWord(0, \h29B1)

\* handleData checksums an image chunk by chunk and handleEnd in one pass:
\* wherever the image is cut the two agree, and a change of any one byte of
\* a message changes both checksums, wherever the byte is.
ChangesShow ==
  \A m \in {CheckMessage, <<{}, {}, {}>>} : \A k \in 1 .. Len(m) :
    /\ Crc32Update(Crc32Update(INITIAL_REMAINDER, SubSeq(m, 1, k)), SubSeq(m, k + 1, Len(m)))
         = Crc32Update(INITIAL_REMAINDER, m)
    /\ \A b \in CrcByte \ {m[k]} :
         LET changed == [m EXCEPT ![k] = b]
         IN  /\ Crc32Calculate(changed) # Crc32Calculate(m)
             /\ crc16_ccitt(changed) # crc16_ccitt(m)

\* What the protocol takes from its checksums, both ends together.
ChecksumsAgree == CrcsAgree /\ ChangesShow

\* The checksums an announced image is held against (Crc32.cpp, crc16_ccitt,
\* ota_updater.py): the node and the host compute the same ones, they are the
\* remainders that define them, and one changed byte shows wherever it is.
ChecksumsHold == block # NoBlock => ChecksumsAgree
=============================================================================
