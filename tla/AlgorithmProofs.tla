--------------------------- MODULE AlgorithmProofs ---------------------------
(***************************************************************************)
(* The algorithms of the project for every input: checksums, versions, the *)
(* stream reader, the flash driver, the channels and the command line.     *)
(* The runs evaluate them over bounded inputs; here lengths, contents and  *)
(* sequences of steps are arbitrary.                                       *)
(*                                                                         *)
(* Loops are recursive functions in the model.  The two lemmas that open   *)
(* the module replace induction over an operator: induction is over a set  *)
(* of natural numbers, and the recursion of a loop is that of a function.  *)
(***************************************************************************)
EXTENDS Cli, Wire, Checksums, FlashDriver,
        WellFoundedInduction, SequenceTheorems, FiniteSetTheorems, TLAPS

-----------------------------------------------------------------------------
(* Induction, over sets.                                                    *)

LEMMA LessIsWellFounded == IsWellFoundedOn({p \in Nat \X Nat : p[1] < p[2]}, Nat)
BY NatLessThanWellFounded DEF OpToRel

LEMMA LeastElement ==
  ASSUME NEW T \in SUBSET Nat, T # {}
  PROVE  \E x \in T : \A y \in T : ~ (y < x)
<1> DEFINE R == {p \in Nat \X Nat : p[1] < p[2]}
<1>1. IsWellFoundedOn(R, Nat)
  BY LessIsWellFounded
<1> HIDE DEF R
<1>2. \E x \in T : \A y \in T : ~ (<<y, x>> \in R)
  BY <1>1, WFMin
<1> QED
  BY <1>2 DEF R

LEMMA SetInduction ==
  ASSUME NEW S, NEW n \in Nat, 0 \in S, \A i \in 0 .. n - 1 : i \in S => i + 1 \in S
  PROVE  \A i \in 0 .. n : i \in S
<1> DEFINE T == {i \in 0 .. n : i \notin S}
<1>1. SUFFICES ASSUME T # {} PROVE FALSE
  OBVIOUS
<1>2. T \in SUBSET Nat
  OBVIOUS
<1> HIDE DEF T
<1>3. PICK x \in T : \A y \in T : ~ (y < x)
  BY <1>1, <1>2, LeastElement
<1>4. x \in 0 .. n /\ x \notin S /\ x # 0
  BY <1>3 DEF T
<1>5. x - 1 \in 0 .. n - 1 /\ x - 1 < x /\ (x - 1) + 1 = x
  BY <1>4
<1>6. x - 1 \in S
  BY <1>3, <1>4, <1>5 DEF T
<1> QED
  BY <1>4, <1>5, <1>6

\* A loop of n steps, the i-th of which takes x to G[<<x, i>>], and its history.
Turns(X, n) == [X \X (1 .. n) -> X]
History(f, X, x0, n, G) ==
  /\ f \in [0 .. n -> X]
  /\ f[0] = x0
  /\ \A i \in 1 .. n : f[i] = G[<<f[i - 1], i>>]

LEMMA LoopExists ==
  ASSUME NEW X, NEW x0 \in X, NEW n \in Nat, NEW G \in Turns(X, n)
  PROVE  \E f : History(f, X, x0, n, G)
<1> DEFINE Upto(m) == \E f \in [0 .. m -> X] : f[0] = x0 /\ \A i \in 1 .. m : f[i] = G[<<f[i - 1], i>>]
           S == {m \in 0 .. n : Upto(m)}
<1> USE DEF Turns
<1>1. Upto(0)
  <2> DEFINE f == [i \in 0 .. 0 |-> x0]
  <2>1. f \in [0 .. 0 -> X] /\ f[0] = x0 /\ \A i \in 1 .. 0 : f[i] = G[<<f[i - 1], i>>]
    OBVIOUS
  <2> QED
    BY <2>1
<1>2. ASSUME NEW m \in 0 .. n - 1, Upto(m) PROVE Upto(m + 1)
  <2>1. PICK f \in [0 .. m -> X] : f[0] = x0 /\ \A i \in 1 .. m : f[i] = G[<<f[i - 1], i>>]
    BY <1>2
  <2> DEFINE g == [i \in 0 .. m + 1 |-> IF i = m + 1 THEN G[<<f[m], m + 1>>] ELSE f[i]]
  <2>2. m \in 0 .. m /\ m + 1 \in 1 .. n /\ G[<<f[m], m + 1>>] \in X
    BY <2>1
  <2>3. g \in [0 .. m + 1 -> X]
    BY <2>1, <2>2
  <2>4. g[0] = x0
    BY <2>1
  <2>5. ASSUME NEW i \in 1 .. m + 1 PROVE g[i] = G[<<g[i - 1], i>>]
    <3>1. i - 1 \in 0 .. m /\ g[i - 1] = f[i - 1]
      OBVIOUS
    <3>2. CASE i = m + 1
      <4>1. g[m + 1] = G[<<f[m], m + 1>>] /\ i - 1 = m
        BY <3>2
      <4> QED
        BY <3>1, <3>2, <4>1
    <3>3. CASE i \in 1 .. m
      <4>1. i # m + 1 /\ i \in 0 .. m + 1 /\ g[i] = f[i]
        BY <3>3
      <4> QED
        BY <2>1, <3>1, <3>3, <4>1
    <3> QED
      BY <3>2, <3>3
  <2> HIDE DEF g
  <2> QED
    BY <2>3, <2>4, <2>5
<1>3. \A m \in 0 .. n : m \in S
  <2>1. 0 \in S
    BY <1>1
  <2>2. \A m \in 0 .. n - 1 : m \in S => m + 1 \in S
    BY <1>2
  <2> HIDE DEF S
  <2> QED
    BY <2>1, <2>2, SetInduction
<1>4. Upto(n)
  BY <1>3
<1> QED
  BY <1>4 DEF History

\* Two histories that start alike and go on alike are alike.
StartsLike(f, g, n) == f[0] = g[0] /\ \A i \in 1 .. n : f[i - 1] = g[i - 1] => f[i] = g[i]
Like(f, g, n) == \A i \in 0 .. n : f[i] = g[i]

LEMMA LoopUnique ==
  ASSUME NEW n \in Nat, NEW f, NEW g, StartsLike(f, g, n)
  PROVE  Like(f, g, n)
<1> USE DEF StartsLike
<1> DEFINE S == {i \in 0 .. n : f[i] = g[i]}
<1>1. 0 \in S
  OBVIOUS
<1>2. \A i \in 0 .. n - 1 : i \in S => i + 1 \in S
  <2>1. TAKE i \in 0 .. n - 1
  <2>2. i + 1 \in 1 .. n /\ (i + 1) - 1 = i
    OBVIOUS
  <2> QED
    BY <2>2
<1> HIDE DEF S
<1>3. \A i \in 0 .. n : i \in S
  BY <1>1, <1>2, SetInduction
<1> QED
  BY <1>3 DEF S, Like

-----------------------------------------------------------------------------
(* CRC-32.                                                                  *)

Word(w) == SUBSET Ones(w)

\* A byte's turn in Crc32::Update.
Crc32Byte(c, byte) ==
  SymDiff(CRC32_TABLE[SymDiff(c, byte) \cap Ones(8)], ShiftRight(c, 8))

LEMMA WidthOfByte == Ones(8) = 0 .. 7 /\ CrcByte = Word(8)
BY DEF Ones, CrcByte, Word

LEMMA Crc32ByteIsWord ==
  ASSUME NEW c \in Word(32), NEW byte \in CrcByte PROVE Crc32Byte(c, byte) \in Word(32)
<1>1. SymDiff(c, byte) \cap Ones(8) \in CrcByte
  BY WidthOfByte DEF Word
<1>2. CRC32_TABLE[SymDiff(c, byte) \cap Ones(8)] \in Word(32)
  BY <1>1 DEF CRC32_TABLE, Word
<1>3. ShiftRight(c, 8) \in Word(32)
  BY DEF ShiftRight, Word, Ones
<1> QED
  BY <1>2, <1>3 DEF Crc32Byte, SymDiff, Word

\* What happens to the register while the bytes go by.
Crc32Run(f, crc, bytes) ==
  /\ f \in [0 .. Len(bytes) -> Word(32)]
  /\ f[0] = crc
  /\ \A i \in 1 .. Len(bytes) : f[i] = Crc32Byte(f[i - 1], bytes[i])

LEMMA Crc32Unfolds ==
  ASSUME NEW crc \in Word(32), NEW bytes \in Seq(CrcByte)
  PROVE  \E f : Crc32Run(f, crc, bytes) /\ Crc32Update(crc, bytes) = f[Len(bytes)]
<1> DEFINE n == Len(bytes)
           G == [p \in Word(32) \X (1 .. n) |-> Crc32Byte(p[1], bytes[p[2]])]
           Body(f) == [i \in 0 .. n |-> IF i = 0 THEN crc ELSE Crc32Byte(f[i - 1], bytes[i])]
           after == CHOOSE f : f = Body(f)
<1>1. n \in Nat /\ \A i \in 1 .. n : bytes[i] \in CrcByte
  OBVIOUS
<1>2. G \in Turns(Word(32), n)
  BY <1>1, Crc32ByteIsWord DEF Turns
<1>3. \A c \in Word(32), i \in 1 .. n : G[<<c, i>>] = Crc32Byte(c, bytes[i])
  OBVIOUS
<1>4. Crc32Update(crc, bytes) = after[n]
  BY DEF Crc32Update, Crc32Byte
<1> HIDE DEF G, n
<1>5. PICK f : f \in [0 .. n -> Word(32)] /\ f[0] = crc /\ \A i \in 1 .. n : f[i] = G[<<f[i - 1], i>>]
  <2>1. \E f : History(f, Word(32), crc, n, G)
    BY <1>1, <1>2, LoopExists
  <2> QED
    BY <2>1 DEF History
<1>6. \A i \in 1 .. n : f[i] = Crc32Byte(f[i - 1], bytes[i])
  <2>1. TAKE i \in 1 .. n
  <2>2. i - 1 \in 0 .. n
    BY <1>1
  <2> QED
    BY <2>2, <1>3, <1>5
<1>7. f = Body(f)
  <2>1. \A i \in 0 .. n : f[i] = IF i = 0 THEN crc ELSE Crc32Byte(f[i - 1], bytes[i])
    <3>1. \A i \in 0 .. n : i = 0 \/ i \in 1 .. n
      BY <1>1
    <3> QED
      BY <1>5, <1>6, <3>1
  <2> QED
    BY <1>5, <2>1
<1>8. after = Body(after)
  BY <1>7
<1> HIDE DEF after
<1>9. after[0] = crc /\ \A i \in 1 .. n : after[i] = Crc32Byte(after[i - 1], bytes[i])
  <2>1. 0 \in 0 .. n /\ \A i \in 1 .. n : i \in 0 .. n /\ i # 0
    BY <1>1
  <2>2. \A i \in 0 .. n : Body(after)[i] = IF i = 0 THEN crc ELSE Crc32Byte(after[i - 1], bytes[i])
    OBVIOUS
  <2> HIDE DEF Body
  <2> QED
    BY <1>8, <2>1, <2>2
<1>10. \A i \in 0 .. n : f[i] = after[i]
  <2>1. StartsLike(f, after, n)
    BY <1>5, <1>6, <1>9 DEF StartsLike
  <2> QED
    BY <1>1, <2>1, LoopUnique DEF Like
<1>11. Crc32Update(crc, bytes) = f[n]
  BY <1>1, <1>4, <1>10
<1> QED
  BY <1>5, <1>6, <1>11 DEF Crc32Run, n

LEMMA Crc32UpdateIsWord ==
  ASSUME NEW crc \in Word(32), NEW bytes \in Seq(CrcByte)
  PROVE  Crc32Update(crc, bytes) \in Word(32)
<1>1. PICK f : Crc32Run(f, crc, bytes) /\ Crc32Update(crc, bytes) = f[Len(bytes)]
  BY Crc32Unfolds
<1>2. Len(bytes) \in 0 .. Len(bytes)
  OBVIOUS
<1> QED
  BY <1>1, <1>2 DEF Crc32Run

\* handleData checksums an image chunk by chunk, handleEnd in one pass: however
\* long the image and its chunks are, and whatever is in them, the two agree.
THEOREM CutCrcIsWhole ==
  \A crc \in Word(32), a, b \in Seq(CrcByte) :
    Crc32Update(Crc32Update(crc, a), b) = Crc32Update(crc, a \o b)
<1> SUFFICES ASSUME NEW crc \in Word(32), NEW a \in Seq(CrcByte), NEW b \in Seq(CrcByte)
             PROVE  Crc32Update(Crc32Update(crc, a), b) = Crc32Update(crc, a \o b)
  OBVIOUS
<1> DEFINE m == Len(a)  n == Len(b)
<1>1. m \in Nat /\ n \in Nat /\ a \o b \in Seq(CrcByte) /\ Len(a \o b) = m + n
  OBVIOUS
<1>2. PICK f : Crc32Run(f, crc, a) /\ Crc32Update(crc, a) = f[m]
  BY Crc32Unfolds
<1>3. f[m] \in Word(32)
  BY <1>2, Crc32UpdateIsWord
<1>4. PICK g : Crc32Run(g, f[m], b) /\ Crc32Update(f[m], b) = g[n]
  BY <1>3, Crc32Unfolds
<1>5. PICK h : Crc32Run(h, crc, a \o b) /\ Crc32Update(crc, a \o b) = h[m + n]
  BY <1>1, Crc32Unfolds
<1>6. h[m] = f[m]
  <2>1. \A i \in 1 .. m : i \in 1 .. m + n /\ (a \o b)[i] = a[i]
    BY <1>1
  <2>2. StartsLike(h, f, m)
    BY <1>1, <1>2, <1>5, <2>1 DEF StartsLike, Crc32Run
  <2>3. Like(h, f, m)
    BY <1>1, <2>2, LoopUnique
  <2> QED
    BY <1>1, <2>3 DEF Like
<1> DEFINE k == [i \in 0 .. n |-> h[m + i]]
<1>7. \A i \in 0 .. n : k[i] = h[m + i]
  OBVIOUS
<1> HIDE DEF k
<1>8. StartsLike(k, g, n)
  <2>1. k[0] = g[0]
    BY <1>1, <1>4, <1>6, <1>7 DEF Crc32Run
  <2>2. ASSUME NEW i \in 1 .. n PROVE k[i] = Crc32Byte(k[i - 1], b[i])
    <3>1. m + i \in 1 .. m + n /\ (m + i) - 1 = m + (i - 1) /\ i - 1 \in 0 .. n /\ i \in 0 .. n
      BY <1>1
    <3>2. (a \o b)[m + i] = b[i]
      BY <1>1
    <3>3. h[m + i] = Crc32Byte(h[m + (i - 1)], b[i])
      BY <1>1, <1>5, <3>1, <3>2 DEF Crc32Run
    <3> QED
      BY <1>7, <3>1, <3>3
  <2> QED
    BY <1>4, <2>1, <2>2 DEF StartsLike, Crc32Run
<1>9. Like(k, g, n)
  BY <1>1, <1>8, LoopUnique
<1>10. h[m + n] = g[n]
  BY <1>1, <1>7, <1>9 DEF Like
<1> QED
  BY <1>2, <1>4, <1>5, <1>10

-----------------------------------------------------------------------------
(* A change of one byte: no byte's turn lets two registers become alike.    *)

Odd(S) == Cardinality(S) % 2 = 1

LEMMA OddOneMore ==
  ASSUME NEW S, IsFiniteSet(S), NEW x, x \notin S
  PROVE  Odd(S \cup {x}) <=> ~ Odd(S)
<1>1. Cardinality(S) \in Nat /\ Cardinality(S \cup {x}) = Cardinality(S) + 1
  BY FS_CardinalityType, FS_AddElement
<1> QED
  BY <1>1 DEF Odd

\* The bits of i below n whose word has the bit b.
Having(i, b, n) == {k \in i : k < n /\ b \in TableWords[k + 1]}

LEMMA HavingOneMore ==
  ASSUME NEW i \in CrcByte, NEW b, NEW n \in 0 .. 7
  PROVE  Odd(Having(i, b, n + 1)) <=> ~ (Odd(Having(i, b, n)) <=> n \in i /\ b \in TableWords[n + 1])
<1> \A k \in i : k \in 0 .. 7
  BY DEF CrcByte
<1>1. IsFiniteSet(Having(i, b, n))
  <2>1. IsFiniteSet(0 .. 7)
    <3>1. \A x, y \in Int : IsFiniteSet(x .. y)
      BY FS_Interval
    <3>2. 0 \in Int /\ 7 \in Int
      OBVIOUS
    <3> QED
      BY <3>1, <3>2, Zenon
  <2>2. Having(i, b, n) \subseteq 0 .. 7
    BY DEF Having, CrcByte
  <2> QED
    BY <2>1, <2>2, FS_Subset
<1>2. n \notin Having(i, b, n)
  BY DEF Having
<1>3. CASE n \in i /\ b \in TableWords[n + 1]
  <2>1. Having(i, b, n + 1) = Having(i, b, n) \cup {n}
    <3>1. \A k \in i : k < n + 1 /\ b \in TableWords[k + 1] <=> (k < n /\ b \in TableWords[k + 1]) \/ k = n
      <4>1. TAKE k \in i
      <4>2. CASE k = n
        BY <1>3, <4>2
      <4>3. CASE k # n
        BY <4>3
      <4> QED
        BY <4>2, <4>3
    <3> QED
      BY <1>3, <3>1 DEF Having
  <2> QED
    BY <1>1, <1>2, <1>3, <2>1, OddOneMore
<1>4. CASE ~ (n \in i /\ b \in TableWords[n + 1])
  <2>1. Having(i, b, n + 1) = Having(i, b, n)
    <3>1. \A k \in i : k < n + 1 /\ b \in TableWords[k + 1] <=> k < n /\ b \in TableWords[k + 1]
      BY <1>4
    <3> QED
      BY <3>1 DEF Having
  <2> QED
    BY <1>4, <2>1
<1> QED
  BY <1>3, <1>4

\* The bits 24 to 31 of a word.
LEMMA HighBits ==
  ASSUME NEW high \in Nat, NEW low \in Nat, NEW b \in 24 .. 31
  PROVE  b \in HexWord(high, low) <=> (high \div 2 ^ (b - 16)) % 2 = 1
<1>1. b \notin 0 .. 15 /\ b - 16 \in 0 .. 15 /\ (b - 16) + 16 = b
  OBVIOUS
<1> QED
  BY <1>1 DEF HexWord

TopBits ==
  << {24, 25, 26, 28, 29, 30}, {25, 26, 27, 29, 30, 31}, {24, 25, 26}, {25, 26, 27},
     {24, 26, 27, 28}, {24, 25, 27, 28, 29}, {25, 26, 28, 29, 30}, {24, 26, 27, 29, 30, 31} >>

LEMMA TableTops ==
  ASSUME NEW b \in 24 .. 31, NEW k \in 1 .. 8
  PROVE  b \in TableWords[k] <=> b \in TopBits[k]
<1>1. \A high, low \in Nat :
        /\ 24 \in HexWord(high, low) <=> (high \div 256) % 2 = 1
        /\ 25 \in HexWord(high, low) <=> (high \div 512) % 2 = 1
        /\ 26 \in HexWord(high, low) <=> (high \div 1024) % 2 = 1
        /\ 27 \in HexWord(high, low) <=> (high \div 2048) % 2 = 1
        /\ 28 \in HexWord(high, low) <=> (high \div 4096) % 2 = 1
        /\ 29 \in HexWord(high, low) <=> (high \div 8192) % 2 = 1
        /\ 30 \in HexWord(high, low) <=> (high \div 16384) % 2 = 1
        /\ 31 \in HexWord(high, low) <=> (high \div 32768) % 2 = 1
  <2>1. TAKE high, low \in Nat
  <2>2. /\ 24 \in HexWord(high, low) <=> (high \div 2 ^ 8) % 2 = 1
        /\ 25 \in HexWord(high, low) <=> (high \div 2 ^ 9) % 2 = 1
        /\ 26 \in HexWord(high, low) <=> (high \div 2 ^ 10) % 2 = 1
        /\ 27 \in HexWord(high, low) <=> (high \div 2 ^ 11) % 2 = 1
    BY HighBits
  <2>3. /\ 28 \in HexWord(high, low) <=> (high \div 2 ^ 12) % 2 = 1
        /\ 29 \in HexWord(high, low) <=> (high \div 2 ^ 13) % 2 = 1
        /\ 30 \in HexWord(high, low) <=> (high \div 2 ^ 14) % 2 = 1
        /\ 31 \in HexWord(high, low) <=> (high \div 2 ^ 15) % 2 = 1
    BY HighBits
  <2>4. /\ 2 ^ 8 = 256 /\ 2 ^ 9 = 512 /\ 2 ^ 10 = 1024 /\ 2 ^ 11 = 2048
        /\ 2 ^ 12 = 4096 /\ 2 ^ 13 = 8192 /\ 2 ^ 14 = 16384 /\ 2 ^ 15 = 32768
    OBVIOUS
  <2> QED
    BY <2>2, <2>3, <2>4
<1>2. b \in {24, 25, 26, 27, 28, 29, 30, 31} /\ k \in {1, 2, 3, 4, 5, 6, 7, 8}
  OBVIOUS
<1> QED
  BY <1>1, <1>2 DEF TableWords, TopBits

\* Two words of the table that have the same top byte are the same word.
LEMMA TableInjective ==
  ASSUME NEW i \in CrcByte, NEW j \in CrcByte,
         \A b \in 24 .. 31 : b \in CRC32_TABLE[i] <=> b \in CRC32_TABLE[j]
  PROVE  i = j
<1> DEFINE x(s, b, n) == n - 1 \in s /\ b \in TopBits[n]
           Parity(s, b) ==
             ~ (x(s, b, 1) <=> ~ (x(s, b, 2) <=> ~ (x(s, b, 3) <=> ~ (x(s, b, 4) <=>
             ~ (x(s, b, 5) <=> ~ (x(s, b, 6) <=> ~ (x(s, b, 7) <=> x(s, b, 8))))))))
<1>1. ASSUME NEW s \in CrcByte, NEW b \in 24 .. 31
      PROVE  b \in CRC32_TABLE[s] <=> Parity(s, b)
  <2> DEFINE h(n) == Odd(Having(s, b, n))
  <2>1. b \in CRC32_TABLE[s] <=> h(8)
    <3>1. b \in Ones(32)
      BY DEF Ones
    <3>2. \A k \in s : k < 8
      BY DEF CrcByte
    <3>3. Having(s, b, 8) = {k \in s : b \in TableWords[k + 1]}
      BY <3>2 DEF Having
    <3> QED
      BY <3>1, <3>3 DEF CRC32_TABLE, Odd
  <2>2. ~ h(0)
    <3>1. \A k \in s : ~ (k < 0)
      BY DEF CrcByte
    <3>2. Having(s, b, 0) = {}
      BY <3>1 DEF Having
    <3> QED
      BY <3>2, FS_EmptySet DEF Odd
  <2>3. \A n \in 0 .. 7 : h(n + 1) <=> ~ (h(n) <=> n \in s /\ b \in TableWords[n + 1])
    BY HavingOneMore
  <2>4. \A n \in 0 .. 7 : b \in TableWords[n + 1] <=> b \in TopBits[n + 1]
    <3>1. \A n \in 0 .. 7 : n + 1 \in 1 .. 8
      OBVIOUS
    <3> QED
      BY <3>1, TableTops
  <2> HIDE DEF h
  <2>5. /\ h(1) <=> ~ (h(0) <=> x(s, b, 1))
        /\ h(2) <=> ~ (h(1) <=> x(s, b, 2))
        /\ h(3) <=> ~ (h(2) <=> x(s, b, 3))
        /\ h(4) <=> ~ (h(3) <=> x(s, b, 4))
        /\ h(5) <=> ~ (h(4) <=> x(s, b, 5))
        /\ h(6) <=> ~ (h(5) <=> x(s, b, 6))
        /\ h(7) <=> ~ (h(6) <=> x(s, b, 7))
        /\ h(8) <=> ~ (h(7) <=> x(s, b, 8))
    BY <2>3, <2>4
  <2> HIDE DEF x
  <2> QED
    BY <2>1, <2>2, <2>5
<1>2. \A b \in 24 .. 31 : Parity(i, b) <=> Parity(j, b)
  BY <1>1
<1>3. /\ Parity(i, 24) <=> Parity(j, 24)
      /\ Parity(i, 25) <=> Parity(j, 25)
      /\ Parity(i, 26) <=> Parity(j, 26)
      /\ Parity(i, 27) <=> Parity(j, 27)
      /\ Parity(i, 28) <=> Parity(j, 28)
      /\ Parity(i, 29) <=> Parity(j, 29)
      /\ Parity(i, 30) <=> Parity(j, 30)
      /\ Parity(i, 31) <=> Parity(j, 31)
  <2> HIDE DEF Parity
  <2> QED
    BY <1>2
<1>4. \A n \in 0 .. 7 : n \in i <=> n \in j
  <2>1. /\ 0 \in i <=> 0 \in j
        /\ 1 \in i <=> 1 \in j
        /\ 2 \in i <=> 2 \in j
        /\ 3 \in i <=> 3 \in j
        /\ 4 \in i <=> 4 \in j
        /\ 5 \in i <=> 5 \in j
        /\ 6 \in i <=> 6 \in j
        /\ 7 \in i <=> 7 \in j
    BY <1>3, SMTT(40) DEF TopBits
  <2> QED
    BY <2>1
<1> QED
  BY <1>4 DEF CrcByte

\* A byte's turn takes different registers to different ones, and so do
\* different bytes' turns one register.
LEMMA Crc32ByteInjective ==
  ASSUME NEW c \in Word(32), NEW d \in Word(32), NEW x \in CrcByte, NEW y \in CrcByte,
         c = d \/ x = y, Crc32Byte(c, x) = Crc32Byte(d, y)
  PROVE  c = d /\ x = y
<1> DEFINE i == SymDiff(c, x) \cap Ones(8)
           j == SymDiff(d, y) \cap Ones(8)
<1>1. i \in CrcByte /\ j \in CrcByte
  BY WidthOfByte DEF Word
<1>2. \A w \in Word(32), b \in 0 .. 31 : b \in ShiftRight(w, 8) <=> b + 8 \in w
  <2>1. TAKE w \in Word(32), b \in 0 .. 31
  <2>2. \A a \in w : a \in 0 .. 31
    BY DEF Word, Ones
  <2>3. b \in ShiftRight(w, 8) => b + 8 \in w
    <3>1. SUFFICES ASSUME b \in ShiftRight(w, 8) PROVE b + 8 \in w
      OBVIOUS
    <3>2. PICK a \in w : a >= 8 /\ b = a - 8
      BY <3>1 DEF ShiftRight
    <3>3. b + 8 = a
      BY <2>2, <3>2
    <3> QED
      BY <3>3
  <2>4. b + 8 \in w => b \in ShiftRight(w, 8)
    <3>1. b + 8 >= 8 /\ (b + 8) - 8 = b
      OBVIOUS
    <3> QED
      BY <3>1 DEF ShiftRight
  <2> QED
    BY <2>3, <2>4
<1>3. \A b \in 0 .. 31 : /\ b \in Crc32Byte(c, x) <=> ~ (b \in CRC32_TABLE[i] <=> b + 8 \in c)
                         /\ b \in Crc32Byte(d, y) <=> ~ (b \in CRC32_TABLE[j] <=> b + 8 \in d)
  <2> HIDE DEF i, j
  <2>1. Crc32Byte(c, x) = SymDiff(CRC32_TABLE[i], ShiftRight(c, 8))
    BY DEF Crc32Byte, i
  <2>2. Crc32Byte(d, y) = SymDiff(CRC32_TABLE[j], ShiftRight(d, 8))
    BY DEF Crc32Byte, j
  <2> QED
    BY <1>2, <2>1, <2>2 DEF SymDiff
<1> HIDE DEF i, j
<1>4. \A b \in 24 .. 31 : b + 8 \notin c /\ b + 8 \notin d
  BY DEF Word, Ones
<1>5. i = j
  <2>1. \A b \in 24 .. 31 : b \in 0 .. 31
    OBVIOUS
  <2>2. \A b \in 24 .. 31 : b \in CRC32_TABLE[i] <=> b \in CRC32_TABLE[j]
    BY <1>3, <1>4, <2>1
  <2> QED
    BY <1>1, <2>2, TableInjective
<1>6. \A a \in 8 .. 31 : a \in c <=> a \in d
  <2>1. TAKE a \in 8 .. 31
  <2>2. a - 8 \in 0 .. 31 /\ (a - 8) + 8 = a
    OBVIOUS
  <2> QED
    BY <1>3, <1>5, <2>2
<1>7. \A a \in 0 .. 7 : (a \in c <=> a \in x) <=> (a \in d <=> a \in y)
  <2>1. \A a \in 0 .. 7 : a \in i <=> ~ (a \in c <=> a \in x)
    BY WidthOfByte DEF i, SymDiff
  <2>2. \A a \in 0 .. 7 : a \in j <=> ~ (a \in d <=> a \in y)
    BY WidthOfByte DEF j, SymDiff
  <2> QED
    BY <1>5, <2>1, <2>2
<1>8. CASE c = d
  <2>1. \A a \in 0 .. 7 : a \in x <=> a \in y
    BY <1>7, <1>8
  <2> QED
    BY <1>8, <2>1 DEF CrcByte
<1>9. CASE x = y
  <2>1. \A a \in 0 .. 7 : a \in c <=> a \in d
    BY <1>7, <1>9
  <2>2. \A a \in 0 .. 31 : a \in 0 .. 7 \/ a \in 8 .. 31
    OBVIOUS
  <2>3. \A a \in 0 .. 31 : a \in c <=> a \in d
    BY <1>6, <2>1, <2>2
  <2>4. c \subseteq 0 .. 31 /\ d \subseteq 0 .. 31
    BY DEF Word, Ones
  <2>5. c = d
    BY <2>3, <2>4
  <2> QED
    BY <1>9, <2>5
<1> QED
  BY <1>8, <1>9

\* A change of one byte of a message, whatever its length, changes its CRC-32:
\* an image or a structure in RAM with such a change does not pass for its own.
THEOREM ChangeShowsInCrc32 ==
  \A m \in Seq(CrcByte) : \A k \in 1 .. Len(m) : \A b \in CrcByte \ {m[k]} :
    Crc32Calculate([m EXCEPT ![k] = b]) # Crc32Calculate(m)
<1> SUFFICES ASSUME NEW m \in Seq(CrcByte), NEW k \in 1 .. Len(m), NEW b \in CrcByte \ {m[k]}
             PROVE  Crc32Calculate([m EXCEPT ![k] = b]) # Crc32Calculate(m)
  OBVIOUS
<1> DEFINE c == [m EXCEPT ![k] = b]  n == Len(m)
<1>1. /\ n \in Nat /\ c \in Seq(CrcByte) /\ Len(c) = n /\ c[k] = b
      /\ \A i \in 1 .. n : i # k => c[i] = m[i]
      /\ \A i \in 1 .. n : c[i] \in CrcByte /\ m[i] \in CrcByte
  OBVIOUS
<1> HIDE DEF c, n
<1>2. INITIAL_REMAINDER \in Word(32)
  BY DEF INITIAL_REMAINDER, Word
<1>3. PICK f : Crc32Run(f, INITIAL_REMAINDER, m) /\ Crc32Update(INITIAL_REMAINDER, m) = f[n]
  BY <1>2, Crc32Unfolds DEF n
<1>4. PICK g : Crc32Run(g, INITIAL_REMAINDER, c) /\ Crc32Update(INITIAL_REMAINDER, c) = g[n]
  BY <1>1, <1>2, Crc32Unfolds
<1>5. /\ \A i \in 0 .. n : f[i] \in Word(32) /\ g[i] \in Word(32)
      /\ f[0] = g[0]
      /\ \A i \in 1 .. n : f[i] = Crc32Byte(f[i - 1], m[i]) /\ g[i] = Crc32Byte(g[i - 1], c[i])
  BY <1>1, <1>3, <1>4 DEF Crc32Run, n
<1> DEFINE S == {i \in 0 .. n : f[i] = g[i] <=> i < k}
<1>6. 0 \in S
  BY <1>1, <1>5
<1>7. \A i \in 0 .. n - 1 : i \in S => i + 1 \in S
  <2>1. SUFFICES ASSUME NEW i \in 0 .. n - 1, f[i] = g[i] <=> i < k
                 PROVE  f[i + 1] = g[i + 1] <=> i + 1 < k
    BY <1>1
  <2>2. i + 1 \in 1 .. n /\ (i + 1) - 1 = i /\ i \in 0 .. n
    BY <1>1
  <2>3. f[i + 1] = Crc32Byte(f[i], m[i + 1]) /\ g[i + 1] = Crc32Byte(g[i], c[i + 1])
    BY <1>5, <2>2
  <2>4. CASE i + 1 < k
    BY <1>1, <2>1, <2>2, <2>3, <2>4
  <2>5. CASE i + 1 = k
    <3>1. f[i] = g[i] /\ m[i + 1] # c[i + 1]
      BY <1>1, <2>1, <2>5
    <3> QED
      BY <1>1, <1>5, <2>2, <2>3, <2>5, <3>1, Crc32ByteInjective
  <2>6. CASE i + 1 > k
    <3>1. f[i] # g[i] /\ m[i + 1] = c[i + 1]
      BY <1>1, <2>1, <2>2, <2>6
    <3> QED
      BY <1>1, <1>5, <2>2, <2>3, <2>6, <3>1, Crc32ByteInjective
  <2> QED
    BY <1>1, <2>4, <2>5, <2>6 DEF n
<1> HIDE DEF S
<1>8. \A i \in 0 .. n : i \in S
  BY <1>1, <1>6, <1>7, SetInduction
<1>9. f[n] # g[n] /\ f[n] \in Word(32) /\ g[n] \in Word(32)
  BY <1>1, <1>5, <1>8 DEF S, n
<1>10. \A v, w \in Word(32) : SymDiff(v, FINAL_XOR_VALUE) = SymDiff(w, FINAL_XOR_VALUE) => v = w
  BY DEF SymDiff, Word
<1> QED
  BY <1>3, <1>4, <1>9, <1>10 DEF Crc32Calculate, Crc32Finalize, c

-----------------------------------------------------------------------------
(* CRC-16.                                                                  *)

LEMMA CcittIs == CCITT = {0, 5, 12}
<1> DEFINE bit(half, b) == (half \div 2 ^ b) % 2 = 1
<1>1. \A b \in 0 .. 15 : (b \in CCITT <=> bit(\h1021, b)) /\ (b + 16 \in CCITT <=> bit(0, b))
  <2>1. \A b, a \in 0 .. 15 : b # a + 16 /\ b + 16 \notin 0 .. 15 /\ (b + 16 = a + 16 => b = a)
    OBVIOUS
  <2> QED
    BY <2>1 DEF CCITT, HexWord
<1>2. CCITT \subseteq 0 .. 31
  BY DEF CCITT, HexWord
<1>3. ASSUME NEW b \in 0 .. 15 PROVE (bit(\h1021, b) <=> b \in {0, 5, 12}) /\ ~ bit(0, b)
  <2>1. /\ bit(\h1021, 0) /\ bit(\h1021, 5) /\ bit(\h1021, 12)
        /\ \A a \in {1, 2, 3, 4} : ~ bit(\h1021, a)
        /\ \A a \in {6, 7, 8, 9, 10, 11} : ~ bit(\h1021, a)
        /\ \A a \in {13, 14, 15} : ~ bit(\h1021, a)
    OBVIOUS
  <2>2. /\ ~ bit(0, 0) /\ ~ bit(0, 1) /\ ~ bit(0, 2) /\ ~ bit(0, 3)
        /\ ~ bit(0, 4) /\ ~ bit(0, 5) /\ ~ bit(0, 6) /\ ~ bit(0, 7)
    OBVIOUS
  <2>3. /\ ~ bit(0, 8) /\ ~ bit(0, 9) /\ ~ bit(0, 10) /\ ~ bit(0, 11)
        /\ ~ bit(0, 12) /\ ~ bit(0, 13) /\ ~ bit(0, 14) /\ ~ bit(0, 15)
    OBVIOUS
  <2> HIDE DEF bit
  <2> QED
    BY <2>1, <2>2, <2>3
<1> HIDE DEF bit
<1>4. \A b \in 0 .. 15 : b \in CCITT <=> b \in {0, 5, 12}
  BY <1>1, <1>3
<1>5. \A b \in 16 .. 31 : b \notin CCITT
  <2>1. TAKE b \in 16 .. 31
  <2>2. b - 16 \in 0 .. 15 /\ (b - 16) + 16 = b
    OBVIOUS
  <2> QED
    BY <1>1, <1>3, <2>2
<1>6. \A b \in CCITT : b \in 0 .. 15
  <2>1. \A b \in 0 .. 31 : b \in 0 .. 15 \/ b \in 16 .. 31
    OBVIOUS
  <2> QED
    BY <1>2, <1>5, <2>1
<1> QED
  BY <1>4, <1>6

LEMMA ShiftedLeft ==
  ASSUME NEW w \in Word(16), NEW n \in Nat, NEW width \in Nat
  PROVE  /\ ShiftLeft(w, n, width) \in Word(width)
         /\ \A b \in 0 .. width - 1 : b \in ShiftLeft(w, n, width) <=> b - n \in w
<1>1. ShiftLeft(w, n, width) \in Word(width)
  BY DEF ShiftLeft, Word
<1>2. ASSUME NEW b \in 0 .. width - 1 PROVE b \in ShiftLeft(w, n, width) <=> b - n \in w
  <2>1. \A a \in w : a \in Nat
    BY DEF Word, Ones
  <2>2. ASSUME b \in ShiftLeft(w, n, width) PROVE b - n \in w
    <3>1. PICK a \in w : b = a + n
      BY <2>2 DEF ShiftLeft
    <3>2. b - n = a
      BY <2>1, <3>1
    <3> QED
      BY <3>2
  <2>3. ASSUME b - n \in w PROVE b \in ShiftLeft(w, n, width)
    <3>1. (b - n) + n = b
      OBVIOUS
    <3> QED
      BY <2>3, <3>1 DEF ShiftLeft, Ones
  <2> QED
    BY <2>2, <2>3
<1> QED
  BY <1>1, <1>2

LEMMA Crc16BitIsWord == ASSUME NEW c \in Word(16) PROVE Crc16Bit(c) \in Word(16)
<1>1. ShiftLeft(c, 1, 16) \in Word(16)
  BY ShiftedLeft
<1>2. CCITT \in Word(16)
  BY CcittIs DEF Word, Ones
<1> QED
  BY <1>1, <1>2 DEF Crc16Bit, SymDiff, Word

LEMMA Crc16BitInjective ==
  ASSUME NEW c \in Word(16), NEW d \in Word(16), Crc16Bit(c) = Crc16Bit(d)
  PROVE  c = d
<1>1. \A b \in 0 .. 15 : /\ b \in ShiftLeft(c, 1, 16) <=> b - 1 \in c
                         /\ b \in ShiftLeft(d, 1, 16) <=> b - 1 \in d
  BY ShiftedLeft
<1>2. -1 \notin c /\ -1 \notin d
  BY DEF Word, Ones
<1>3. 15 \in c <=> 15 \in d
  <2>1. 0 \notin ShiftLeft(c, 1, 16) /\ 0 \notin ShiftLeft(d, 1, 16)
    BY <1>1, <1>2
  <2>2. 0 \in CCITT
    BY CcittIs
  <2> QED
    BY <2>1, <2>2 DEF Crc16Bit, SymDiff
<1>4. ShiftLeft(c, 1, 16) = ShiftLeft(d, 1, 16)
  <2>1. \A v, w, x : SymDiff(v, x) = SymDiff(w, x) => v = w
    BY DEF SymDiff
  <2> QED
    BY <1>3, <2>1 DEF Crc16Bit
<1>5. \A a \in 0 .. 15 : a \in c <=> a \in d
  <2>1. TAKE a \in 0 .. 15
  <2>2. CASE a = 15
    BY <1>3, <2>2
  <2>3. CASE a < 15
    <3>1. a + 1 \in 0 .. 15 /\ (a + 1) - 1 = a
      BY <2>3
    <3> QED
      BY <1>1, <1>4, <3>1
  <2> QED
    BY <2>2, <2>3
<1>6. c \subseteq 0 .. 15 /\ d \subseteq 0 .. 15
  BY DEF Word, Ones
<1> QED
  BY <1>5, <1>6


\* The register with a byte brought in, and the eight steps of its bits.
Entered(crc, byte) == SymDiff(crc, ShiftLeft(byte, 8, 16))

BitRun(f, x) == /\ f \in [0 .. 8 -> Word(16)]
                /\ f[0] = x
                /\ \A i \in 1 .. 8 : f[i] = Crc16Bit(f[i - 1])

LEMMA EnteredIsWord ==
  ASSUME NEW crc \in Word(16), NEW byte \in CrcByte
  PROVE  Entered(crc, byte) \in Word(16)
<1>1. byte \in Word(16)
  BY DEF CrcByte, Word, Ones
<1>2. ShiftLeft(byte, 8, 16) \in Word(16)
  BY <1>1, ShiftedLeft
<1> QED
  BY <1>2 DEF Entered, SymDiff, Word

LEMMA Crc16ByteUnfolds ==
  ASSUME NEW crc \in Word(16), NEW byte \in CrcByte
  PROVE  \E f : BitRun(f, Entered(crc, byte)) /\ Crc16Byte(crc, byte) = f[8]
<1> DEFINE n == 8
           x0 == Entered(crc, byte)
           G == [p \in Word(16) \X (1 .. n) |-> Crc16Bit(p[1])]
           Body(f) == [i \in 0 .. n |-> IF i = 0 THEN x0 ELSE Crc16Bit(f[i - 1])]
           after == CHOOSE f : f = Body(f)
<1>1. n \in Nat /\ x0 \in Word(16)
  BY EnteredIsWord
<1>2. \A c \in Word(16), i \in 1 .. n : Crc16Bit(c) \in Word(16)
  BY Crc16BitIsWord
<1>3. \A c \in Word(16), i \in 1 .. n : G[<<c, i>>] = Crc16Bit(c)
  OBVIOUS
<1>4. G \in Turns(Word(16), n)
  BY <1>2 DEF Turns
<1>5. Crc16Byte(crc, byte) = after[n]
  BY DEF Crc16Byte, Entered
<1> HIDE DEF G, n, x0
<1>6. PICK f : f \in [0 .. n -> Word(16)] /\ f[0] = x0 /\ \A i \in 1 .. n : f[i] = G[<<f[i - 1], i>>]
  <2>1. \E f : History(f, Word(16), x0, n, G)
    BY <1>1, <1>4, LoopExists
  <2> QED
    BY <2>1 DEF History
<1>7. \A i \in 1 .. n : f[i] = Crc16Bit(f[i - 1])
  <2>1. TAKE i \in 1 .. n
  <2>2. i - 1 \in 0 .. n
    BY <1>1
  <2> QED
    BY <2>2, <1>3, <1>6
<1>8. f = Body(f)
  <2>1. \A i \in 0 .. n : f[i] = IF i = 0 THEN x0 ELSE Crc16Bit(f[i - 1])
    <3>1. \A i \in 0 .. n : i = 0 \/ i \in 1 .. n
      BY <1>1
    <3> QED
      BY <1>6, <1>7, <3>1
  <2> QED
    BY <1>6, <2>1
<1>9. after = Body(after)
  BY <1>8
<1> HIDE DEF after
<1>10. after[0] = x0 /\ \A i \in 1 .. n : after[i] = Crc16Bit(after[i - 1])
  <2>1. 0 \in 0 .. n /\ \A i \in 1 .. n : i \in 0 .. n /\ i # 0
    BY <1>1
  <2>2. \A i \in 0 .. n : Body(after)[i] = IF i = 0 THEN x0 ELSE Crc16Bit(after[i - 1])
    OBVIOUS
  <2> HIDE DEF Body
  <2> QED
    BY <1>9, <2>1, <2>2
<1>11. f[n] = after[n]
  <2>1. StartsLike(f, after, n)
    BY <1>6, <1>7, <1>10 DEF StartsLike
  <2>2. Like(f, after, n)
    BY <1>1, <2>1, LoopUnique
  <2> QED
    BY <1>1, <2>2 DEF Like
<1> QED
  BY <1>5, <1>6, <1>7, <1>11 DEF BitRun, n, x0

LEMMA Crc16ByteIsWord ==
  ASSUME NEW crc \in Word(16), NEW byte \in CrcByte
  PROVE  Crc16Byte(crc, byte) \in Word(16)
BY Crc16ByteUnfolds DEF BitRun

Crc16Run(f, bytes) ==
  /\ f \in [0 .. Len(bytes) -> Word(16)]
  /\ f[0] = Ones(16)
  /\ \A i \in 1 .. Len(bytes) : f[i] = Crc16Byte(f[i - 1], bytes[i])

LEMMA Crc16Unfolds ==
  ASSUME NEW bytes \in Seq(CrcByte)
  PROVE  \E f : Crc16Run(f, bytes) /\ crc16_ccitt(bytes) = f[Len(bytes)]
<1> DEFINE n == Len(bytes)
           x0 == Ones(16)
           G == [p \in Word(16) \X (1 .. n) |-> Crc16Byte(p[1], bytes[p[2]])]
           Body(f) == [i \in 0 .. n |-> IF i = 0 THEN x0 ELSE Crc16Byte(f[i - 1], bytes[i])]
           after == CHOOSE f : f = Body(f)
<1>1. n \in Nat /\ x0 \in Word(16)
  BY DEF Word
<1>2. \A c \in Word(16), i \in 1 .. n : Crc16Byte(c, bytes[i]) \in Word(16)
  BY Crc16ByteIsWord
<1>3. \A c \in Word(16), i \in 1 .. n : G[<<c, i>>] = Crc16Byte(c, bytes[i])
  OBVIOUS
<1>4. G \in Turns(Word(16), n)
  BY <1>2 DEF Turns
<1>5. crc16_ccitt(bytes) = after[n]
  BY DEF crc16_ccitt
<1> HIDE DEF G, n, x0
<1>6. PICK f : f \in [0 .. n -> Word(16)] /\ f[0] = x0 /\ \A i \in 1 .. n : f[i] = G[<<f[i - 1], i>>]
  <2>1. \E f : History(f, Word(16), x0, n, G)
    BY <1>1, <1>4, LoopExists
  <2> QED
    BY <2>1 DEF History
<1>7. \A i \in 1 .. n : f[i] = Crc16Byte(f[i - 1], bytes[i])
  <2>1. TAKE i \in 1 .. n
  <2>2. i - 1 \in 0 .. n
    BY <1>1
  <2> QED
    BY <2>2, <1>3, <1>6
<1>8. f = Body(f)
  <2>1. \A i \in 0 .. n : f[i] = IF i = 0 THEN x0 ELSE Crc16Byte(f[i - 1], bytes[i])
    <3>1. \A i \in 0 .. n : i = 0 \/ i \in 1 .. n
      BY <1>1
    <3> QED
      BY <1>6, <1>7, <3>1
  <2> QED
    BY <1>6, <2>1
<1>9. after = Body(after)
  BY <1>8
<1> HIDE DEF after
<1>10. after[0] = x0 /\ \A i \in 1 .. n : after[i] = Crc16Byte(after[i - 1], bytes[i])
  <2>1. 0 \in 0 .. n /\ \A i \in 1 .. n : i \in 0 .. n /\ i # 0
    BY <1>1
  <2>2. \A i \in 0 .. n : Body(after)[i] = IF i = 0 THEN x0 ELSE Crc16Byte(after[i - 1], bytes[i])
    OBVIOUS
  <2> HIDE DEF Body
  <2> QED
    BY <1>9, <2>1, <2>2
<1>11. f[n] = after[n]
  <2>1. StartsLike(f, after, n)
    BY <1>6, <1>7, <1>10 DEF StartsLike
  <2>2. Like(f, after, n)
    BY <1>1, <2>1, LoopUnique
  <2> QED
    BY <1>1, <2>2 DEF Like
<1> QED
  BY <1>5, <1>6, <1>7, <1>11 DEF Crc16Run, n, x0

LEMMA EnteredInjective ==
  ASSUME NEW c \in Word(16), NEW d \in Word(16), NEW x \in CrcByte, NEW y \in CrcByte,
         c = d \/ x = y, Entered(c, x) = Entered(d, y)
  PROVE  c = d /\ x = y
<1>1. \A b \in CrcByte : b \in Word(16)
  BY DEF CrcByte, Word, Ones
<1>2. \A b \in 0 .. 15 : /\ b \in ShiftLeft(x, 8, 16) <=> b - 8 \in x
                         /\ b \in ShiftLeft(y, 8, 16) <=> b - 8 \in y
  BY <1>1, ShiftedLeft
<1>3. \A v, w, z : /\ SymDiff(v, z) = SymDiff(w, z) => v = w
                   /\ SymDiff(z, v) = SymDiff(z, w) => v = w
  BY DEF SymDiff
<1>4. CASE x = y
  BY <1>3, <1>4 DEF Entered
<1>5. CASE c = d
  <2>1. ShiftLeft(x, 8, 16) = ShiftLeft(y, 8, 16)
    BY <1>3, <1>5 DEF Entered
  <2>2. \A a \in 0 .. 7 : a \in x <=> a \in y
    <3>1. TAKE a \in 0 .. 7
    <3>2. a + 8 \in 0 .. 15 /\ (a + 8) - 8 = a
      OBVIOUS
    <3> QED
      BY <1>2, <2>1, <3>2
  <2> QED
    BY <1>5, <2>2 DEF CrcByte
<1> QED
  BY <1>4, <1>5

LEMMA Crc16ByteInjective ==
  ASSUME NEW c \in Word(16), NEW d \in Word(16), NEW x \in CrcByte, NEW y \in CrcByte,
         c = d \/ x = y, Crc16Byte(c, x) = Crc16Byte(d, y)
  PROVE  c = d /\ x = y
<1>1. PICK f : BitRun(f, Entered(c, x)) /\ Crc16Byte(c, x) = f[8]
  BY Crc16ByteUnfolds
<1>2. PICK g : BitRun(g, Entered(d, y)) /\ Crc16Byte(d, y) = g[8]
  BY Crc16ByteUnfolds
<1> DEFINE S == {i \in 0 .. 8 : f[8 - i] = g[8 - i]}
<1>3. 0 \in S
  <2>1. f[8] = g[8]
    BY <1>1, <1>2
  <2>2. 8 - 0 = 8 /\ 0 \in 0 .. 8
    OBVIOUS
  <2> QED
    BY <2>1, <2>2
<1>4. \A i \in 0 .. 8 - 1 : i \in S => i + 1 \in S
  <2>1. SUFFICES ASSUME NEW i \in 0 .. 7, f[8 - i] = g[8 - i]
                 PROVE  f[8 - (i + 1)] = g[8 - (i + 1)]
    OBVIOUS
  <2>2. 8 - i \in 1 .. 8 /\ (8 - i) - 1 = 8 - (i + 1) /\ 8 - (i + 1) \in 0 .. 8
    OBVIOUS
  <2>3. Crc16Bit(f[8 - (i + 1)]) = Crc16Bit(g[8 - (i + 1)])
    BY <1>1, <1>2, <2>1, <2>2 DEF BitRun
  <2> QED
    BY <1>1, <1>2, <2>2, <2>3, Crc16BitInjective DEF BitRun
<1> HIDE DEF S
<1>5. \A i \in 0 .. 8 : i \in S
  BY <1>3, <1>4, SetInduction
<1>6. f[0] = g[0]
  <2>1. 8 \in 0 .. 8 /\ 8 - 8 = 0
    OBVIOUS
  <2> QED
    BY <1>5, <2>1 DEF S
<1>7. Entered(c, x) = Entered(d, y)
  BY <1>1, <1>2, <1>6 DEF BitRun
<1> QED
  BY <1>7, EnteredInjective

\* A change of one byte of a message, whatever its length, changes its CRC-16:
\* a chunk with such a change is refused by OtaService::handleData.
THEOREM ChangeShowsInCrc16 ==
  \A m \in Seq(CrcByte) : \A k \in 1 .. Len(m) : \A b \in CrcByte \ {m[k]} :
    crc16_ccitt([m EXCEPT ![k] = b]) # crc16_ccitt(m)
<1> SUFFICES ASSUME NEW m \in Seq(CrcByte), NEW k \in 1 .. Len(m), NEW b \in CrcByte \ {m[k]}
             PROVE  crc16_ccitt([m EXCEPT ![k] = b]) # crc16_ccitt(m)
  OBVIOUS
<1> DEFINE c == [m EXCEPT ![k] = b]  n == Len(m)
<1>1. /\ n \in Nat /\ c \in Seq(CrcByte) /\ Len(c) = n /\ c[k] = b
      /\ \A i \in 1 .. n : i # k => c[i] = m[i]
      /\ \A i \in 1 .. n : c[i] \in CrcByte /\ m[i] \in CrcByte
  OBVIOUS
<1> HIDE DEF c, n
<1>2. PICK f : Crc16Run(f, m) /\ crc16_ccitt(m) = f[n]
  BY Crc16Unfolds DEF n
<1>3. PICK g : Crc16Run(g, c) /\ crc16_ccitt(c) = g[n]
  BY <1>1, Crc16Unfolds
<1>4. /\ \A i \in 0 .. n : f[i] \in Word(16) /\ g[i] \in Word(16)
      /\ f[0] = g[0]
      /\ \A i \in 1 .. n : f[i] = Crc16Byte(f[i - 1], m[i]) /\ g[i] = Crc16Byte(g[i - 1], c[i])
  BY <1>1, <1>2, <1>3 DEF Crc16Run, n
<1> DEFINE S == {i \in 0 .. n : f[i] = g[i] <=> i < k}
<1>5. 0 \in S
  BY <1>1, <1>4
<1>6. \A i \in 0 .. n - 1 : i \in S => i + 1 \in S
  <2>1. SUFFICES ASSUME NEW i \in 0 .. n - 1, f[i] = g[i] <=> i < k
                 PROVE  f[i + 1] = g[i + 1] <=> i + 1 < k
    BY <1>1
  <2>2. i + 1 \in 1 .. n /\ (i + 1) - 1 = i /\ i \in 0 .. n
    BY <1>1
  <2>3. f[i + 1] = Crc16Byte(f[i], m[i + 1]) /\ g[i + 1] = Crc16Byte(g[i], c[i + 1])
    BY <1>4, <2>2
  <2>4. CASE i + 1 < k
    BY <1>1, <2>1, <2>2, <2>3, <2>4
  <2>5. CASE i + 1 = k
    <3>1. f[i] = g[i] /\ m[i + 1] # c[i + 1]
      BY <1>1, <2>1, <2>5
    <3> QED
      BY <1>1, <1>4, <2>2, <2>3, <2>5, <3>1, Crc16ByteInjective
  <2>6. CASE i + 1 > k
    <3>1. f[i] # g[i] /\ m[i + 1] = c[i + 1]
      BY <1>1, <2>1, <2>2, <2>6
    <3> QED
      BY <1>1, <1>4, <2>2, <2>3, <2>6, <3>1, Crc16ByteInjective
  <2> QED
    BY <1>1, <2>4, <2>5, <2>6 DEF n
<1> HIDE DEF S
<1>7. \A i \in 0 .. n : i \in S
  BY <1>1, <1>5, <1>6, SetInduction
<1>8. f[n] # g[n]
  BY <1>1, <1>4, <1>7 DEF S, n
<1> QED
  BY <1>2, <1>3, <1>8 DEF c

\* The host's step on a register of 16 bits is the node's.
LEMMA HostBitIsNodeBit ==
  ASSUME NEW c \in Word(16) PROVE HostCrc16Bit(c) = Crc16Bit(c)
<1>1. \A b \in 0 .. 15 : b \in ShiftLeft(c, 1, 17) <=> b - 1 \in c
  <2>1. \A b \in 0 .. 16 : b \in ShiftLeft(c, 1, 17) <=> b - 1 \in c
    BY ShiftedLeft
  <2> QED
    BY <2>1
<1>2. \A b \in 0 .. 15 : b \in ShiftLeft(c, 1, 16) <=> b - 1 \in c
  BY ShiftedLeft
<1>3. ShiftLeft(c, 1, 16) \in Word(16) /\ CCITT \in Word(16)
  <2>1. ShiftLeft(c, 1, 16) \in Word(16)
    BY ShiftedLeft
  <2> QED
    BY <2>1, CcittIs DEF Word, Ones
<1>4. ShiftLeft(c, 1, 17) \cap Ones(16) = ShiftLeft(c, 1, 16)
  BY <1>1, <1>2, <1>3 DEF Word, Ones
<1>5. SymDiff(ShiftLeft(c, 1, 17), CCITT) \cap Ones(16) = SymDiff(ShiftLeft(c, 1, 17) \cap Ones(16), CCITT)
  BY <1>3 DEF SymDiff, Word
<1> QED
  BY <1>4, <1>5 DEF HostCrc16Bit, Crc16Bit

\* The host's turn: the byte is brought in before the first of its bits.
HostTurn(c, i, bytes) ==
  HostCrc16Bit(IF i % 8 = 1 THEN Entered(c, bytes[((i - 1) \div 8) + 1]) ELSE c)

HostRun(f, bytes) ==
  /\ f \in [0 .. 8 * Len(bytes) -> Word(16)]
  /\ f[0] = Ones(16)
  /\ \A i \in 1 .. 8 * Len(bytes) : f[i] = HostTurn(f[i - 1], i, bytes)

LEMMA HostTurnIsWord ==
  ASSUME NEW bytes \in Seq(CrcByte), NEW c \in Word(16), NEW i \in 1 .. 8 * Len(bytes)
  PROVE  HostTurn(c, i, bytes) \in Word(16)
<1>1. ((i - 1) \div 8) + 1 \in 1 .. Len(bytes)
  OBVIOUS
<1>2. bytes[((i - 1) \div 8) + 1] \in CrcByte
  BY <1>1
<1> DEFINE x == IF i % 8 = 1 THEN Entered(c, bytes[((i - 1) \div 8) + 1]) ELSE c
<1>3. x \in Word(16)
  BY <1>2, EnteredIsWord
<1> HIDE DEF x
<1>4. HostCrc16Bit(x) \in Word(16)
  BY <1>3, HostBitIsNodeBit, Crc16BitIsWord
<1> QED
  BY <1>4 DEF HostTurn, x

LEMMA HostCrc16Unfolds ==
  ASSUME NEW bytes \in Seq(CrcByte)
  PROVE  \E f : HostRun(f, bytes) /\ HostCrc16(bytes) = f[8 * Len(bytes)]
<1> DEFINE n == 8 * Len(bytes)
           x0 == Ones(16)
           G == [p \in Word(16) \X (1 .. n) |-> HostTurn(p[1], p[2], bytes)]
           Body(f) == [i \in 0 .. n |-> IF i = 0 THEN x0 ELSE HostTurn(f[i - 1], i, bytes)]
           after == CHOOSE f : f = Body(f)
<1>1. n \in Nat /\ x0 \in Word(16)
  BY DEF Word
<1>2. \A c \in Word(16), i \in 1 .. n : HostTurn(c, i, bytes) \in Word(16)
  BY HostTurnIsWord
<1>3. \A c \in Word(16), i \in 1 .. n : G[<<c, i>>] = HostTurn(c, i, bytes)
  OBVIOUS
<1>4. G \in Turns(Word(16), n)
  BY <1>2 DEF Turns
<1>5. HostCrc16(bytes) = after[n]
  BY DEF HostCrc16, HostTurn, Entered
<1> HIDE DEF G, n, x0
<1>6. PICK f : f \in [0 .. n -> Word(16)] /\ f[0] = x0 /\ \A i \in 1 .. n : f[i] = G[<<f[i - 1], i>>]
  <2>1. \E f : History(f, Word(16), x0, n, G)
    BY <1>1, <1>4, LoopExists
  <2> QED
    BY <2>1 DEF History
<1>7. \A i \in 1 .. n : f[i] = HostTurn(f[i - 1], i, bytes)
  <2>1. TAKE i \in 1 .. n
  <2>2. i - 1 \in 0 .. n
    BY <1>1
  <2> QED
    BY <2>2, <1>3, <1>6
<1>8. f = Body(f)
  <2>1. \A i \in 0 .. n : f[i] = IF i = 0 THEN x0 ELSE HostTurn(f[i - 1], i, bytes)
    <3>1. \A i \in 0 .. n : i = 0 \/ i \in 1 .. n
      BY <1>1
    <3> QED
      BY <1>6, <1>7, <3>1
  <2> QED
    BY <1>6, <2>1
<1>9. after = Body(after)
  BY <1>8
<1> HIDE DEF after
<1>10. after[0] = x0 /\ \A i \in 1 .. n : after[i] = HostTurn(after[i - 1], i, bytes)
  <2>1. 0 \in 0 .. n /\ \A i \in 1 .. n : i \in 0 .. n /\ i # 0
    BY <1>1
  <2>2. \A i \in 0 .. n : Body(after)[i] = IF i = 0 THEN x0 ELSE HostTurn(after[i - 1], i, bytes)
    OBVIOUS
  <2> HIDE DEF Body
  <2> QED
    BY <1>9, <2>1, <2>2
<1>11. f[n] = after[n]
  <2>1. StartsLike(f, after, n)
    BY <1>6, <1>7, <1>10 DEF StartsLike
  <2>2. Like(f, after, n)
    BY <1>1, <2>1, LoopUnique
  <2> QED
    BY <1>1, <2>2 DEF Like
<1> QED
  BY <1>5, <1>6, <1>7, <1>11 DEF HostRun, n, x0

\* The host's CRC-16 of a message, bit by bit on integers that do not wrap, is
\* the node's, for every message: no chunk is refused that came as it was sent.
THEOREM HostCrcIsNodes == \A m \in Seq(CrcByte) : HostCrc16(m) = crc16_ccitt(m)
<1> SUFFICES ASSUME NEW m \in Seq(CrcByte) PROVE HostCrc16(m) = crc16_ccitt(m)
  OBVIOUS
<1> DEFINE n == Len(m)
<1>1. n \in Nat /\ \A i \in 1 .. n : m[i] \in CrcByte
  OBVIOUS
<1>2. PICK f : Crc16Run(f, m) /\ crc16_ccitt(m) = f[n]
  BY Crc16Unfolds
<1>3. PICK h : HostRun(h, m) /\ HostCrc16(m) = h[8 * n]
  BY HostCrc16Unfolds
<1>4. /\ f[0] = Ones(16)
      /\ \A i \in 0 .. n : f[i] \in Word(16)
      /\ \A i \in 1 .. n : f[i] = Crc16Byte(f[i - 1], m[i])
  BY <1>2 DEF Crc16Run
<1>5. /\ h[0] = Ones(16)
      /\ \A i \in 0 .. 8 * n : h[i] \in Word(16)
      /\ \A i \in 1 .. 8 * n : h[i] = HostTurn(h[i - 1], i, m)
  BY <1>3 DEF HostRun
<1> HIDE DEF n
<1> DEFINE S == {i \in 0 .. n : h[8 * i] = f[i]}
<1>6. 0 \in S
  BY <1>1, <1>4, <1>5
<1>7. \A i \in 0 .. n - 1 : i \in S => i + 1 \in S
  <2>1. SUFFICES ASSUME NEW i \in 0 .. n - 1, h[8 * i] = f[i]
                 PROVE  h[8 * (i + 1)] = f[i + 1]
    <3>1. \A i \in 0 .. n - 1 : i + 1 \in 0 .. n
      BY <1>1
    <3> QED
      BY <3>1, Zenon
  <2>2. i + 1 \in 1 .. n /\ (i + 1) - 1 = i /\ i \in 0 .. n /\ 8 * (i + 1) = 8 * i + 8
    BY <1>1
  <2>3. PICK q : BitRun(q, Entered(f[i], m[i + 1])) /\ Crc16Byte(f[i], m[i + 1]) = q[8]
    BY <1>1, <1>4, <2>2, Crc16ByteUnfolds
  <2>4. /\ q[0] = Entered(f[i], m[i + 1])
        /\ \A j \in 0 .. 8 : q[j] \in Word(16)
        /\ \A j \in 1 .. 8 : q[j] = Crc16Bit(q[j - 1])
    BY <2>3 DEF BitRun
  <2> DEFINE T == {j \in 0 .. 7 : h[8 * i + (j + 1)] = q[j + 1]}
  <2>5. 0 \in T
    <3>1. /\ 8 * i + 1 \in 1 .. 8 * n /\ (8 * i + 1) - 1 = 8 * i /\ (8 * i + 1) % 8 = 1
          /\ ((8 * i) \div 8) + 1 = i + 1
      BY <1>1
    <3>2. h[8 * i + 1] = HostCrc16Bit(Entered(h[8 * i], m[i + 1]))
      BY <1>5, <3>1 DEF HostTurn
    <3>3. h[8 * i + 1] = Crc16Bit(q[0])
      BY <2>1, <2>4, <3>2, HostBitIsNodeBit
    <3>4. q[1] = Crc16Bit(q[0])
      BY <2>4
    <3> QED
      BY <3>3, <3>4
  <2>6. \A j \in 0 .. 7 - 1 : j \in T => j + 1 \in T
    <3>1. SUFFICES ASSUME NEW j \in 0 .. 6, h[8 * i + (j + 1)] = q[j + 1]
                   PROVE  h[8 * i + ((j + 1) + 1)] = q[(j + 1) + 1]
      <4>1. \A j \in 0 .. 7 - 1 : j \in 0 .. 6 /\ j + 1 \in 0 .. 7
        OBVIOUS
      <4> QED
        BY <4>1, Zenon
    <3> DEFINE p == 8 * i + ((j + 1) + 1)
    <3>2. p \in 1 .. 8 * n /\ p - 1 = 8 * i + (j + 1) /\ p % 8 # 1
      BY <1>1
    <3>3. (j + 1) + 1 \in 1 .. 8 /\ ((j + 1) + 1) - 1 = j + 1 /\ j + 1 \in 0 .. 8
      OBVIOUS
    <3> HIDE DEF p
    <3>4. h[p] = HostCrc16Bit(h[p - 1])
      BY <1>5, <3>2 DEF HostTurn
    <3>5. h[p - 1] = q[j + 1] /\ q[j + 1] \in Word(16)
      BY <2>4, <3>1, <3>2, <3>3
    <3>6. h[p] = Crc16Bit(q[j + 1])
      BY <3>4, <3>5, HostBitIsNodeBit
    <3>7. q[(j + 1) + 1] = Crc16Bit(q[j + 1])
      BY <2>4, <3>3
    <3> QED
      BY <3>6, <3>7 DEF p
  <2> HIDE DEF T
  <2>7. \A j \in 0 .. 7 : j \in T
    BY <2>5, <2>6, SetInduction
  <2>8. h[8 * i + 8] = q[8]
    <3>1. 7 \in T /\ 7 + 1 = 8
      BY <2>7
    <3> QED
      BY <3>1 DEF T
  <2> QED
    BY <1>4, <2>2, <2>3, <2>8
<1> HIDE DEF S
<1>8. \A i \in 0 .. n : i \in S
  BY <1>1, <1>6, <1>7, SetInduction
<1> QED
  BY <1>1, <1>2, <1>3, <1>8 DEF S

-----------------------------------------------------------------------------
(* What a CRC is defined to be: the remainder of a polynomial division.     *)

\* One step of the division.
Divided(p, generator, degree, e) ==
  IF e + degree \in p THEN SymDiff(p, {e + g : g \in generator}) ELSE p

Division(p, message, generator, degree, m) ==
  /\ p \in [0 .. m -> SUBSET Nat]
  /\ p[0] = message
  /\ \A t \in 1 .. m : p[t] = Divided(p[t - 1], generator, degree, m - t)

LEMMA RemainderUnfolds ==
  ASSUME NEW message \in SUBSET Nat, NEW generator \in SUBSET Nat, NEW degree \in Nat, NEW n \in Nat
  PROVE  \E p : /\ Division(p, message, generator, degree, 8 * n)
                /\ Remainder(message, generator, degree, n) = p[8 * n]
<1> DEFINE m == 8 * n
           X == SUBSET Nat
           G == [x \in X \X (1 .. m) |-> Divided(x[1], generator, degree, m - x[2])]
           Body(f) == [e \in 0 .. m |-> IF e = m THEN message ELSE Divided(f[e + 1], generator, degree, e)]
           left == CHOOSE f : f = Body(f)
<1>1. m \in Nat
  OBVIOUS
<1>2. ASSUME NEW x \in X, NEW e \in Nat PROVE Divided(x, generator, degree, e) \in X
  <2>1. {e + g : g \in generator} \in X
    OBVIOUS
  <2> QED
    BY <2>1 DEF Divided, SymDiff
<1>3. \A x \in X, t \in 1 .. m : G[<<x, t>>] = Divided(x, generator, degree, m - t)
  OBVIOUS
<1>4. G \in Turns(X, m)
  <2>1. \A x \in X, t \in 1 .. m : Divided(x, generator, degree, m - t) \in X
    <3>1. \A t \in 1 .. m : m - t \in Nat
      BY <1>1
    <3> QED
      BY <1>2, <3>1
  <2> QED
    BY <2>1 DEF Turns
<1>5. Remainder(message, generator, degree, n) = left[0]
  BY DEF Remainder, Divided
<1> HIDE DEF G, m
<1>6. PICK p : p \in [0 .. m -> X] /\ p[0] = message /\ \A t \in 1 .. m : p[t] = G[<<p[t - 1], t>>]
  <2>1. \E p : History(p, X, message, m, G)
    BY <1>1, <1>4, LoopExists
  <2> QED
    BY <2>1 DEF History
<1>7. \A t \in 1 .. m : p[t] = Divided(p[t - 1], generator, degree, m - t)
  <2>1. TAKE t \in 1 .. m
  <2>2. t - 1 \in 0 .. m
    BY <1>1
  <2> QED
    BY <2>2, <1>3, <1>6
<1> DEFINE f == [e \in 0 .. m |-> p[m - e]]
<1>8. f = Body(f)
  <2>1. ASSUME NEW e \in 0 .. m
        PROVE  f[e] = IF e = m THEN message ELSE Divided(f[e + 1], generator, degree, e)
    <3>1. CASE e = m
      BY <1>1, <1>6, <3>1
    <3>2. CASE e # m
      <4>1. e + 1 \in 0 .. m /\ m - e \in 1 .. m /\ (m - e) - 1 = m - (e + 1) /\ m - (m - e) = e
        BY <1>1, <3>2
      <4> QED
        BY <1>7, <3>2, <4>1
    <3> QED
      BY <3>1, <3>2
  <2> HIDE DEF f
  <2>2. f \in [0 .. m -> X]
    <3>1. \A e \in 0 .. m : m - e \in 0 .. m
      BY <1>1
    <3> QED
      BY <1>6, <3>1 DEF f
  <2> QED
    BY <2>1, <2>2
<1>9. left = Body(left)
  <2> HIDE DEF f
  <2> QED
    BY <1>8
<1> HIDE DEF left
<1>10. /\ left[m] = message
       /\ \A e \in 0 .. m - 1 : left[e] = Divided(left[e + 1], generator, degree, e)
  <2>1. m \in 0 .. m /\ \A e \in 0 .. m - 1 : e \in 0 .. m /\ e # m
    BY <1>1
  <2>2. \A e \in 0 .. m : Body(left)[e] = IF e = m THEN message ELSE Divided(left[e + 1], generator, degree, e)
    OBVIOUS
  <2> HIDE DEF Body
  <2> QED
    BY <1>9, <2>1, <2>2
<1> DEFINE g == [t \in 0 .. m |-> left[m - t]]
<1>11. StartsLike(p, g, m)
  <2>1. p[0] = g[0]
    BY <1>1, <1>6, <1>10
  <2>2. ASSUME NEW t \in 1 .. m, p[t - 1] = g[t - 1] PROVE p[t] = g[t]
    <3>1. t - 1 \in 0 .. m /\ t \in 0 .. m /\ m - t \in 0 .. m - 1 /\ (m - t) + 1 = m - (t - 1)
      BY <1>1
    <3>2. g[t - 1] = left[(m - t) + 1] /\ g[t] = left[m - t]
      BY <3>1
    <3> HIDE DEF g
    <3> QED
      BY <1>7, <1>10, <2>2, <3>1, <3>2
  <2> HIDE DEF g
  <2> QED
    BY <2>1, <2>2 DEF StartsLike
<1>12. p[m] = left[0]
  <2>1. Like(p, g, m)
    <3> HIDE DEF g
    <3> QED
      BY <1>1, <1>11, LoopUnique
  <2>2. m \in 0 .. m /\ m - m = 0
    BY <1>1
  <2> QED
    BY <2>1, <2>2 DEF Like
<1>13. Division(p, message, generator, degree, m)
  BY <1>6, <1>7 DEF Division
<1> QED
  BY <1>5, <1>12, <1>13 DEF m

\* The bits of a message, each byte's most significant first.
BitOf(bytes, t) == 7 - (t % 8) \in bytes[(t \div 8) + 1]

\* One step of a shift register of the given degree that a bit is brought to.
Shifted(a, x, generator, degree) ==
  {b \in 0 .. degree - 1 : ~ (b - 1 \in a <=> (~ (degree - 1 \in a <=> x)) /\ b \in generator)}

\* The register while a message goes by.
Register(a, bytes, generator, degree) ==
  /\ a[0] = 0 .. degree - 1
  /\ \A t \in 0 .. 8 * Len(bytes) - 1 : a[t + 1] = Shifted(a[t], BitOf(bytes, t), generator, degree)

\* The bits as exponents, and where they are.
Exponents(bytes, degree) ==
  UNION {{8 * (Len(bytes) - i) + b + degree : b \in bytes[i]} : i \in 1 .. Len(bytes)}

LEMMA ExponentsAre ==
  ASSUME NEW bytes \in Seq(CrcByte), NEW degree \in Nat
  PROVE  /\ \A x \in Exponents(bytes, degree) : x \in degree .. 8 * Len(bytes) + degree - 1
         /\ \A t \in 0 .. 8 * Len(bytes) - 1 :
              8 * Len(bytes) - 1 - t + degree \in Exponents(bytes, degree) <=> BitOf(bytes, t)
<1> DEFINE n == Len(bytes)  U == Exponents(bytes, degree)
<1>1. n \in Nat /\ \A i \in 1 .. n : bytes[i] \in CrcByte /\ \A b \in bytes[i] : b \in 0 .. 7
  BY DEF CrcByte
<1>2. \A x : x \in U <=> \E i \in 1 .. n : \E b \in bytes[i] : x = 8 * (n - i) + b + degree
  BY DEF Exponents
<1> HIDE DEF U, n
<1>3. ASSUME NEW x \in U PROVE x \in degree .. 8 * n + degree - 1
  <2>1. PICK i \in 1 .. n : \E b \in bytes[i] : x = 8 * (n - i) + b + degree
    BY <1>2
  <2>2. PICK b \in bytes[i] : x = 8 * (n - i) + b + degree
    BY <2>1
  <2>3. b \in 0 .. 7
    BY <1>1
  <2> QED
    BY <1>1, <2>2, <2>3
<1>4. ASSUME NEW t \in 0 .. 8 * n - 1
      PROVE  8 * n - 1 - t + degree \in U <=> BitOf(bytes, t)
  <2> DEFINE q == t \div 8  r == t % 8
  <2>1. /\ q \in Nat /\ r \in 0 .. 7 /\ t = 8 * q + r
        /\ q + 1 \in 1 .. n /\ 7 - r \in 0 .. 7
    BY <1>1
  <2>2. BitOf(bytes, t) <=> 7 - r \in bytes[q + 1]
    BY DEF BitOf
  <2> HIDE DEF q, r
  <2>3. ASSUME NEW i \in 1 .. n, NEW b \in 0 .. 7
        PROVE  8 * n - 1 - t + degree = 8 * (n - i) + b + degree <=> i = q + 1 /\ b = 7 - r
    <3>1. 8 * n - 1 - t + degree = 8 * (n - i) + b + degree <=> 8 * i - 1 = 8 * q + r + b
      BY <1>1, <2>1
    <3>2. 8 * i - 1 = 8 * q + r + b <=> i = q + 1 /\ b = 7 - r
      BY <1>1, <2>1
    <3> QED
      BY <3>1, <3>2
  <2> DEFINE x == 8 * n - 1 - t + degree
  <2>4. ASSUME x \in U PROVE 7 - r \in bytes[q + 1]
    <3>1. PICK i \in 1 .. n : \E b \in bytes[i] : x = 8 * (n - i) + b + degree
      BY <1>2, <2>4
    <3>2. PICK b \in bytes[i] : x = 8 * (n - i) + b + degree
      BY <3>1
    <3>3. b \in 0 .. 7
      BY <1>1
    <3>4. i = q + 1 /\ b = 7 - r
      BY <2>3, <3>2, <3>3
    <3> QED
      BY <3>2, <3>4
  <2>5. ASSUME 7 - r \in bytes[q + 1] PROVE x \in U
    <3>1. x = 8 * (n - (q + 1)) + (7 - r) + degree
      BY <2>1, <2>3
    <3> HIDE DEF x
    <3> QED
      BY <1>2, <2>1, <2>5, <3>1
  <2> QED
    BY <2>2, <2>4, <2>5
<1> QED
  BY <1>3, <1>4 DEF U, n

LEMMA StraightIs ==
  ASSUME NEW bytes, NEW degree
  PROVE  Straight(bytes, degree) =
           SymDiff(Exponents(bytes, degree), (8 * Len(bytes)) .. (8 * Len(bytes) + degree - 1))
BY DEF Straight, Exponents

\* Dividing leaves what the register is left with: the window of the division's
\* state is the register, with the bits yet to come added.
LEMMA RegisterIsRemainder ==
  ASSUME NEW bytes \in Seq(CrcByte), NEW degree \in Nat \ {0}, NEW generator \in SUBSET (0 .. degree - 1),
         NEW a, Register(a, bytes, generator, degree)
  PROVE  Remainder(Straight(bytes, degree), generator \cup {degree}, degree, Len(bytes)) = a[8 * Len(bytes)]
<1> DEFINE n == Len(bytes)  m == 8 * n
           U == Exponents(bytes, degree)
           M == Straight(bytes, degree)
           G == generator \cup {degree}
<1>1. n \in Nat /\ m \in Nat
  OBVIOUS
<1>2. \A x \in U : x \in degree .. m + degree - 1
  BY ExponentsAre
<1>3. \A t \in 0 .. m - 1 : m - 1 - t + degree \in U <=> BitOf(bytes, t)
  BY ExponentsAre
<1>4. M = SymDiff(U, m .. m + degree - 1)
  BY StraightIs
<1>5. a[0] = 0 .. degree - 1
  BY DEF Register
<1>6. \A t \in 0 .. m - 1 : a[t + 1] = Shifted(a[t], BitOf(bytes, t), generator, degree)
  BY DEF Register
<1> HIDE DEF U, M, m
<1>7. M \in SUBSET Nat
  BY <1>1, <1>2, <1>4 DEF SymDiff
<1>8. G \in SUBSET Nat /\ \A g \in G : g <= degree
  OBVIOUS
<1> HIDE DEF G
<1>9. PICK p : Division(p, M, G, degree, m) /\ Remainder(M, G, degree, n) = p[m]
  BY <1>1, <1>7, <1>8, RemainderUnfolds DEF m
<1> DEFINE Inside(t) == \A x \in p[t] : x \in 0 .. m - t + degree - 1
           Window(t) == \A b \in 0 .. degree - 1 : m - t + b \in p[t] <=> ~ (b \in a[t] <=> m - t + b \in U)
           Below(t) == \A x \in 0 .. m - t - 1 : x \in p[t] <=> x \in U
           Within(t) == \A b \in a[t] : b \in 0 .. degree - 1
           S == {t \in 0 .. m : Inside(t) /\ Window(t) /\ Below(t) /\ Within(t)}
<1>10. 0 \in S
  <2>1. p[0] = M
    BY <1>9 DEF Division
  <2>2. \A x : x \in M <=> ~ (x \in U <=> x \in m .. m + degree - 1)
    BY <1>4 DEF SymDiff
  <2>3. Inside(0)
    BY <1>1, <1>2, <2>1, <2>2
  <2>4. Window(0)
    BY <1>1, <1>5, <2>1, <2>2
  <2>5. Below(0)
    BY <1>1, <2>1, <2>2
  <2>6. Within(0)
    BY <1>5
  <2> QED
    BY <1>1, <2>3, <2>4, <2>5, <2>6
<1>11. ASSUME NEW t \in 0 .. m - 1, Inside(t), Window(t), Below(t), Within(t)
       PROVE  Inside(t + 1) /\ Window(t + 1) /\ Below(t + 1) /\ Within(t + 1)
  <2> DEFINE e == m - (t + 1)
             Flag == e + degree \in p[t]
  <2>1. e \in Nat /\ t + 1 \in 1 .. m /\ (t + 1) - 1 = t /\ e = m - t - 1 /\ e + degree = m - 1 - t + degree
    BY <1>1
  <2>2. p[t + 1] = Divided(p[t], G, degree, e)
    BY <1>9, <2>1 DEF Division
  <2>3. a[t + 1] = Shifted(a[t], BitOf(bytes, t), generator, degree)
    BY <1>6
  <2>4. Flag <=> ~ (degree - 1 \in a[t] <=> BitOf(bytes, t))
    <3>1. degree - 1 \in 0 .. degree - 1 /\ m - t + (degree - 1) = e + degree
      BY <1>1, <2>1
    <3>2. e + degree \in p[t] <=> ~ (degree - 1 \in a[t] <=> e + degree \in U)
      BY <1>11, <3>1
    <3> QED
      BY <1>3, <2>1, <3>2
  <2>5. \A b \in 0 .. degree - 1 : b \in a[t + 1] <=> ~ (b - 1 \in a[t] <=> Flag /\ b \in generator)
    BY <2>3, <2>4 DEF Shifted
  <2>6. \A x \in Nat : x \in p[t + 1] <=> ~ (x \in p[t] <=> Flag /\ x - e \in G)
    <3>1. TAKE x \in Nat
    <3>2. x \in {e + g : g \in G} <=> x - e \in G
      <4>1. \A g \in G : e + g = x <=> g = x - e
        BY <1>8, <2>1
      <4> QED
        BY <4>1
    <3> QED
      BY <2>2, <3>2 DEF Divided, SymDiff
  <2>7. \A x \in p[t + 1] : x \in Nat
    BY <1>9, <2>1 DEF Division
  <2> HIDE DEF e, Flag
  <2>8. \A b \in 0 .. degree : b \in G <=> b \in generator \/ b = degree
    BY DEF G
  <2>9. Inside(t + 1)
    <3>1. SUFFICES ASSUME NEW x \in p[t + 1] PROVE x \in 0 .. e + degree - 1
      BY <1>1 DEF e
    <3>2. x \in Nat /\ ~ (x \in p[t] <=> Flag /\ x - e \in G)
      BY <2>6, <2>7
    <3>3. x <= e + degree
      <4>1. x \in p[t] => x <= e + degree
        BY <1>1, <1>11, <2>1
      <4>2. x - e \in G => x <= e + degree
        BY <1>8, <2>1, <3>2
      <4> QED
        BY <3>2, <4>1, <4>2
    <3>4. x # e + degree
      <4>1. (e + degree) - e = degree /\ degree \in G
        BY <2>1 DEF G
      <4> QED
        BY <3>2, <4>1 DEF Flag
    <3> QED
      BY <2>1, <3>2, <3>3, <3>4
  <2>10. Window(t + 1)
    <3>1. SUFFICES ASSUME NEW b \in 0 .. degree - 1
                   PROVE  e + b \in p[t + 1] <=> ~ (b \in a[t + 1] <=> e + b \in U)
      BY <1>1 DEF e
    <3>2. e + b \in Nat /\ (e + b) - e = b /\ b # degree
      BY <2>1
    <3>3. e + b \in p[t + 1] <=> ~ (e + b \in p[t] <=> Flag /\ b \in generator)
      BY <2>6, <2>8, <3>2
    <3>4. e + b \in p[t] <=> ~ (b - 1 \in a[t] <=> e + b \in U)
      <4>1. CASE b = 0
        <5>1. e + b \in 0 .. m - t - 1 /\ b - 1 \notin a[t]
          BY <1>1, <1>11, <2>1, <4>1
        <5> QED
          BY <1>11, <5>1
      <4>2. CASE b # 0
        <5>1. b - 1 \in 0 .. degree - 1 /\ m - t + (b - 1) = e + b
          BY <1>1, <2>1, <4>2
        <5> QED
          BY <1>11, <5>1
      <4> QED
        BY <4>1, <4>2
    <3> QED
      BY <2>5, <3>3, <3>4
  <2>11. Below(t + 1)
    <3>1. SUFFICES ASSUME NEW x \in 0 .. e - 1 PROVE x \in p[t + 1] <=> x \in U
      BY <1>1 DEF e
    <3>2. x \in Nat /\ x \in 0 .. m - t - 1 /\ x - e < 0
      BY <1>1, <2>1
    <3>3. x - e \notin G
      <4>1. \A g \in G : ~ (g < 0)
        BY <1>8
      <4> QED
        BY <3>2, <4>1
    <3> QED
      BY <1>11, <2>6, <3>2, <3>3
  <2>12. Within(t + 1)
    BY <2>3 DEF Shifted
  <2> QED
    BY <2>9, <2>10, <2>11, <2>12
<1>12. \A t \in 0 .. m : t \in S
  <2>1. \A t \in 0 .. m - 1 : t \in S => t + 1 \in S
    <3>1. \A t \in 0 .. m - 1 : t + 1 \in 0 .. m
      BY <1>1
    <3> QED
      BY <1>11, <3>1
  <2> HIDE DEF S
  <2> QED
    BY <1>1, <1>10, <2>1, SetInduction
<1>13. p[m] = a[m]
  <2>1. Inside(m) /\ Window(m) /\ Within(m)
    BY <1>1, <1>12
  <2>2. \A b \in 0 .. degree - 1 : m - m + b = b /\ b \notin U
    BY <1>1, <1>2
  <2>3. \A b \in 0 .. degree - 1 : b \in p[m] <=> b \in a[m]
    BY <2>1, <2>2
  <2>4. m - m + degree - 1 = degree - 1
    BY <1>1
  <2> QED
    BY <2>1, <2>3, <2>4
<1> QED
  BY <1>9, <1>13 DEF G, M, m, n

-----------------------------------------------------------------------------
(* CRC-16 is a register that a byte's bits are brought to all at once.      *)

LEMMA RegisterExists ==
  ASSUME NEW bytes \in Seq(CrcByte), NEW generator, NEW degree \in Nat
  PROVE  \E a : Register(a, bytes, generator, degree)
<1> DEFINE m == 8 * Len(bytes)
           X == SUBSET (0 .. degree - 1)
           G == [x \in X \X (1 .. m) |-> Shifted(x[1], BitOf(bytes, x[2] - 1), generator, degree)]
<1>1. m \in Nat /\ 0 .. degree - 1 \in X
  OBVIOUS
<1>2. G \in Turns(X, m)
  BY DEF Turns, Shifted
<1>3. \A x \in X, t \in 1 .. m : G[<<x, t>>] = Shifted(x, BitOf(bytes, t - 1), generator, degree)
  OBVIOUS
<1> HIDE DEF G, m, X
<1>4. PICK a : a \in [0 .. m -> X] /\ a[0] = 0 .. degree - 1 /\ \A t \in 1 .. m : a[t] = G[<<a[t - 1], t>>]
  <2>1. \E a : History(a, X, 0 .. degree - 1, m, G)
    BY <1>1, <1>2, LoopExists
  <2> QED
    BY <2>1 DEF History
<1>5. ASSUME NEW t \in 0 .. m - 1 PROVE a[t + 1] = Shifted(a[t], BitOf(bytes, t), generator, degree)
  <2>1. t + 1 \in 1 .. m /\ (t + 1) - 1 = t /\ t \in 0 .. m
    BY <1>1
  <2>2. a[t + 1] = G[<<a[t], t + 1>>] /\ a[t] \in X
    BY <1>4, <2>1
  <2>3. G[<<a[t], t + 1>>] = Shifted(a[t], BitOf(bytes, (t + 1) - 1), generator, degree)
    BY <1>3, <2>1, <2>2
  <2> QED
    BY <2>1, <2>2, <2>3
<1> QED
  BY <1>4, <1>5 DEF Register, m

LEMMA ShiftedIn16 ==
  ASSUME NEW w \in Word(16), NEW k \in Nat
  PROVE  \A b \in 0 .. 15 : b \in ShiftLeft(w, k, 16) <=> b - k \in w
<1>1. \A b \in 0 .. 16 - 1 : b \in ShiftLeft(w, k, 16) <=> b - k \in w
  BY ShiftedLeft
<1>2. 16 - 1 = 15
  OBVIOUS
<1> QED
  BY <1>1, <1>2

LEMMA Crc16ByteIsEight ==
  ASSUME NEW c \in Word(16), NEW byte \in CrcByte,
         NEW a, a[0] = c, \A r \in 0 .. 7 : a[r + 1] = Shifted(a[r], 7 - r \in byte, CCITT, 16)
  PROVE  Crc16Byte(c, byte) = a[8]
<1>1. PICK g : BitRun(g, Entered(c, byte)) /\ Crc16Byte(c, byte) = g[8]
  BY Crc16ByteUnfolds
<1> DEFINE Mixed(r) == /\ \A b \in 0 .. 15 : b \in g[r] <=> ~ (b \in a[r] <=> b - 8 - r \in byte)
                       /\ a[r] \subseteq 0 .. 15
           S == {r \in 0 .. 8 : Mixed(r)}
<1>2. \A b \in byte : b \in 0 .. 7
  BY DEF CrcByte
<1>3. c \subseteq 0 .. 15
  BY DEF Word, Ones
<1>4. Mixed(0)
  <2>1. g[0] = SymDiff(c, ShiftLeft(byte, 8, 16))
    BY <1>1 DEF BitRun, Entered
  <2>2. byte \in Word(16)
    BY DEF CrcByte, Word, Ones
  <2>3. \A b \in 0 .. 15 : b \in ShiftLeft(byte, 8, 16) <=> b - 8 \in byte
    BY <2>2, ShiftedIn16
  <2>4. \A b \in 0 .. 15 : b - 8 - 0 = b - 8
    OBVIOUS
  <2> QED
    BY <1>3, <2>1, <2>3, <2>4 DEF SymDiff
<1>5. ASSUME NEW r \in 0 .. 7, Mixed(r) PROVE Mixed(r + 1)
  <2>1. g[r] \in Word(16) /\ g[r + 1] = Crc16Bit(g[r])
    <3>1. r \in 0 .. 8 /\ r + 1 \in 1 .. 8 /\ (r + 1) - 1 = r
      OBVIOUS
    <3> QED
      BY <1>1, <3>1 DEF BitRun
  <2>2. a[r + 1] = Shifted(a[r], 7 - r \in byte, CCITT, 16)
    OBVIOUS
  <2>3. \A b \in 0 .. 15 : b \in ShiftLeft(g[r], 1, 16) <=> b - 1 \in g[r]
    BY <2>1, ShiftedIn16
  <2>4. \A b \in 0 .. 15 : b \in g[r + 1] <=> ~ (b - 1 \in g[r] <=> 15 \in g[r] /\ b \in CCITT)
    BY <2>1, <2>3 DEF Crc16Bit, SymDiff
  <2>5. \A b \in 0 .. 15 : b \in a[r + 1] <=> ~ (b - 1 \in a[r] <=> (~ (15 \in a[r] <=> 7 - r \in byte)) /\ b \in CCITT)
    BY <2>2 DEF Shifted
  <2>6. 15 \in g[r] <=> ~ (15 \in a[r] <=> 7 - r \in byte)
    <3>1. 15 - 8 - r = 7 - r /\ 15 \in 0 .. 15
      OBVIOUS
    <3> QED
      BY <1>5, <3>1
  <2>7. ASSUME NEW b \in 0 .. 15
        PROVE  b - 1 \in g[r] <=> ~ (b - 1 \in a[r] <=> b - 8 - (r + 1) \in byte)
    <3>1. CASE b = 0
      <4>1. b - 1 \notin g[r]
        BY <2>1, <3>1 DEF Word, Ones
      <4>2. b - 1 \notin a[r]
        BY <1>5, <3>1
      <4>3. b - 8 - (r + 1) \notin byte
        BY <1>2, <3>1
      <4> QED
        BY <4>1, <4>2, <4>3
    <3>2. CASE b # 0
      <4>1. b - 1 \in 0 .. 15 /\ (b - 1) - 8 - r = b - 8 - (r + 1)
        BY <3>2
      <4> QED
        BY <1>5, <4>1
    <3> QED
      BY <3>1, <3>2
  <2>8. a[r + 1] \subseteq 0 .. 15
    BY <2>2 DEF Shifted
  <2> QED
    BY <2>4, <2>5, <2>6, <2>7, <2>8
<1>6. Mixed(8)
  <2>1. 0 \in S
    BY <1>4
  <2>2. \A r \in 0 .. 8 - 1 : r \in S => r + 1 \in S
    BY <1>5
  <2> HIDE DEF S
  <2>3. \A r \in 0 .. 8 : r \in S
    BY <2>1, <2>2, SetInduction
  <2> QED
    BY <2>3 DEF S
<1>7. \A b \in 0 .. 15 : b - 8 - 8 \notin byte
  BY <1>2
<1>8. g[8] \subseteq 0 .. 15
  BY <1>1 DEF BitRun, Word, Ones
<1> QED
  BY <1>1, <1>6, <1>7, <1>8

\* A byte's bits in a message.
LEMMA BitsOfByte ==
  ASSUME NEW bytes, NEW q \in Nat, NEW r \in 0 .. 7
  PROVE  BitOf(bytes, 8 * q + r) <=> 7 - r \in bytes[q + 1]
<1>1. (8 * q + r) \div 8 = q /\ (8 * q + r) % 8 = r
  OBVIOUS
<1> QED
  BY <1>1 DEF BitOf

\* Both CRC-16 (ProtocolTypes.h, ota_updater.py) are what CCITT-FALSE is defined
\* to be, for every message: the remainder of the message, with its first 16
\* bits complemented and 16 zeros behind, on division by x^16 + x^12 + x^5 + 1.
THEOREM Crc16IsRemainder == \A m \in Seq(CrcByte) : crc16_ccitt(m) = Crc16Defined(m)
<1> SUFFICES ASSUME NEW m \in Seq(CrcByte) PROVE crc16_ccitt(m) = Crc16Defined(m)
  OBVIOUS
<1> DEFINE n == Len(m)
<1>1. n \in Nat /\ \A i \in 1 .. n : m[i] \in CrcByte
  OBVIOUS
<1>2. PICK f : Crc16Run(f, m) /\ crc16_ccitt(m) = f[n]
  BY Crc16Unfolds
<1>3. PICK a : Register(a, m, CCITT, 16)
  BY RegisterExists
<1>4. Crc16Defined(m) = a[8 * n]
  <2>1. CCITT \in SUBSET (0 .. 16 - 1) /\ 16 \in Nat \ {0}
    BY CcittIs
  <2> QED
    BY <1>3, <2>1, RegisterIsRemainder DEF Crc16Defined, G16
<1>5. /\ f[0] = Ones(16)
      /\ \A i \in 0 .. n : f[i] \in Word(16)
      /\ \A i \in 1 .. n : f[i] = Crc16Byte(f[i - 1], m[i])
  BY <1>2 DEF Crc16Run
<1>6. a[0] = Ones(16) /\ \A t \in 0 .. 8 * n - 1 : a[t + 1] = Shifted(a[t], BitOf(m, t), CCITT, 16)
  BY <1>3 DEF Register, Ones
<1> HIDE DEF n
<1> DEFINE S == {q \in 0 .. n : f[q] = a[8 * q]}
<1>7. 0 \in S
  <2>1. 8 * 0 = 0 /\ 0 \in 0 .. n
    BY <1>1
  <2> QED
    BY <1>5, <1>6, <2>1
<1>8. ASSUME NEW q \in 0 .. n - 1, f[q] = a[8 * q] PROVE f[q + 1] = a[8 * (q + 1)]
  <2> DEFINE g == [r \in 0 .. 8 |-> a[8 * q + r]]
  <2>1. q \in 0 .. n /\ q + 1 \in 1 .. n /\ (q + 1) - 1 = q /\ q \in Nat
    BY <1>1
  <2>2. f[q] \in Word(16) /\ f[q + 1] = Crc16Byte(f[q], m[q + 1]) /\ m[q + 1] \in CrcByte
    BY <1>1, <1>5, <2>1
  <2>3. g[0] = f[q]
    <3>1. 8 * q + 0 = 8 * q
      BY <2>1
    <3> QED
      BY <1>8, <3>1
  <2>4. ASSUME NEW r \in 0 .. 7 PROVE g[r + 1] = Shifted(g[r], 7 - r \in m[q + 1], CCITT, 16)
    <3>1. 8 * q + r \in 0 .. 8 * n - 1 /\ (8 * q + r) + 1 = 8 * q + (r + 1) /\ r \in 0 .. 8 /\ r + 1 \in 0 .. 8
      BY <1>1, <2>1
    <3>2. a[8 * q + (r + 1)] = Shifted(a[8 * q + r], BitOf(m, 8 * q + r), CCITT, 16)
      BY <1>6, <3>1
    <3>3. BitOf(m, 8 * q + r) <=> 7 - r \in m[q + 1]
      BY <2>1, BitsOfByte
    <3> QED
      BY <3>1, <3>2, <3>3 DEF Shifted
  <2>5. g[8] = a[8 * (q + 1)]
    <3>1. 8 * q + 8 = 8 * (q + 1)
      BY <2>1
    <3> QED
      BY <3>1
  <2> HIDE DEF g
  <2>6. Crc16Byte(f[q], m[q + 1]) = g[8]
    BY <2>2, <2>3, <2>4, Crc16ByteIsEight
  <2> QED
    BY <2>2, <2>5, <2>6
<1>9. \A q \in 0 .. n : q \in S
  <2>1. \A q \in 0 .. n - 1 : q \in S => q + 1 \in S
    <3>1. \A q \in 0 .. n - 1 : q + 1 \in 0 .. n
      BY <1>1
    <3> QED
      BY <1>8, <3>1
  <2> HIDE DEF S
  <2> QED
    BY <1>1, <1>7, <2>1, SetInduction
<1> QED
  BY <1>1, <1>2, <1>4, <1>9 DEF n

-----------------------------------------------------------------------------
(* The table of CRC-32: each word is the next one, shifted by one bit.      *)

Half(h) == {b \in 0 .. 15 : (h \div 2 ^ b) % 2 = 1}

LEMMA HexIs ==
  ASSUME NEW high, NEW low
  PROVE  HexWord(high, low) = Half(low) \cup {b + 16 : b \in Half(high)}
BY DEF HexWord, Half

LEMMA HalfIs ==
  ASSUME NEW h \in Nat
  PROVE  /\ Half(h) \subseteq 0 .. 15
         /\ 0 \in Half(h) <=> h % 2 = 1
         /\ 1 \in Half(h) <=> (h \div 2) % 2 = 1
         /\ 2 \in Half(h) <=> (h \div 4) % 2 = 1
         /\ 3 \in Half(h) <=> (h \div 8) % 2 = 1
         /\ 4 \in Half(h) <=> (h \div 16) % 2 = 1
         /\ 5 \in Half(h) <=> (h \div 32) % 2 = 1
         /\ 6 \in Half(h) <=> (h \div 64) % 2 = 1
         /\ 7 \in Half(h) <=> (h \div 128) % 2 = 1
         /\ 8 \in Half(h) <=> (h \div 256) % 2 = 1
         /\ 9 \in Half(h) <=> (h \div 512) % 2 = 1
         /\ 10 \in Half(h) <=> (h \div 1024) % 2 = 1
         /\ 11 \in Half(h) <=> (h \div 2048) % 2 = 1
         /\ 12 \in Half(h) <=> (h \div 4096) % 2 = 1
         /\ 13 \in Half(h) <=> (h \div 8192) % 2 = 1
         /\ 14 \in Half(h) <=> (h \div 16384) % 2 = 1
         /\ 15 \in Half(h) <=> (h \div 32768) % 2 = 1
<1>1. /\ 2 ^ 0 = 1 /\ 2 ^ 1 = 2 /\ 2 ^ 2 = 4 /\ 2 ^ 3 = 8 /\ 2 ^ 4 = 16 /\ 2 ^ 5 = 32 /\ 2 ^ 6 = 64 /\ 2 ^ 7 = 128
      /\ 2 ^ 8 = 256 /\ 2 ^ 9 = 512 /\ 2 ^ 10 = 1024 /\ 2 ^ 11 = 2048
      /\ 2 ^ 12 = 4096 /\ 2 ^ 13 = 8192 /\ 2 ^ 14 = 16384 /\ 2 ^ 15 = 32768
  BY SMT
<1>2. h \div 1 = h
  BY SMT
<1>3. Half(h) \subseteq 0 .. 15
  BY DEF Half
<1>4. /\ 0 \in Half(h) <=> (h \div 2 ^ 0) % 2 = 1
      /\ 1 \in Half(h) <=> (h \div 2 ^ 1) % 2 = 1
      /\ 2 \in Half(h) <=> (h \div 2 ^ 2) % 2 = 1
      /\ 3 \in Half(h) <=> (h \div 2 ^ 3) % 2 = 1
      /\ 4 \in Half(h) <=> (h \div 2 ^ 4) % 2 = 1
      /\ 5 \in Half(h) <=> (h \div 2 ^ 5) % 2 = 1
      /\ 6 \in Half(h) <=> (h \div 2 ^ 6) % 2 = 1
      /\ 7 \in Half(h) <=> (h \div 2 ^ 7) % 2 = 1
      /\ 8 \in Half(h) <=> (h \div 2 ^ 8) % 2 = 1
      /\ 9 \in Half(h) <=> (h \div 2 ^ 9) % 2 = 1
      /\ 10 \in Half(h) <=> (h \div 2 ^ 10) % 2 = 1
      /\ 11 \in Half(h) <=> (h \div 2 ^ 11) % 2 = 1
      /\ 12 \in Half(h) <=> (h \div 2 ^ 12) % 2 = 1
      /\ 13 \in Half(h) <=> (h \div 2 ^ 13) % 2 = 1
      /\ 14 \in Half(h) <=> (h \div 2 ^ 14) % 2 = 1
      /\ 15 \in Half(h) <=> (h \div 2 ^ 15) % 2 = 1
  BY SMT DEF Half
<1> QED
  BY <1>1, <1>2, <1>3, <1>4, SMT

LEMMA Halves ==
  /\ Half(\h7707) = {0, 1, 2, 8, 9, 10, 12, 13, 14}
  /\ Half(\h3096) = {1, 2, 4, 7, 12, 13}
  /\ Half(\hEE0E) = {1, 2, 3, 9, 10, 11, 13, 14, 15}
  /\ Half(\h612C) = {2, 3, 5, 8, 13, 14}
  /\ Half(\h076D) = {0, 2, 3, 5, 6, 8, 9, 10}
  /\ Half(\hC419) = {0, 3, 4, 10, 14, 15}
  /\ Half(\h0EDB) = {0, 1, 3, 4, 6, 7, 9, 10, 11}
  /\ Half(\h8832) = {1, 4, 5, 11, 15}
  /\ Half(\h1DB7) = {0, 1, 2, 4, 5, 7, 8, 10, 11, 12}
  /\ Half(\h1064) = {2, 5, 6, 12}
  /\ Half(\h3B6E) = {1, 2, 3, 5, 6, 8, 9, 11, 12, 13}
  /\ Half(\h20C8) = {3, 6, 7, 13}
  /\ Half(\h76DC) = {2, 3, 4, 6, 7, 9, 10, 12, 13, 14}
  /\ Half(\h4190) = {4, 7, 8, 14}
  /\ Half(\hEDB8) = {3, 4, 5, 7, 8, 10, 11, 13, 14, 15}
  /\ Half(\h8320) = {5, 8, 9, 15}
  /\ Half(\h04C1) = {0, 6, 7, 10}
  /\ Half(\h1DB7) = {0, 1, 2, 4, 5, 7, 8, 10, 11, 12}
<1>1. Half(\h7707) = {0, 1, 2, 8, 9, 10, 12, 13, 14}
  BY HalfIs, SMT
<1>2. Half(\h3096) = {1, 2, 4, 7, 12, 13}
  BY HalfIs, SMT
<1>3. Half(\hEE0E) = {1, 2, 3, 9, 10, 11, 13, 14, 15}
  BY HalfIs, SMT
<1>4. Half(\h612C) = {2, 3, 5, 8, 13, 14}
  BY HalfIs, SMT
<1>5. Half(\h076D) = {0, 2, 3, 5, 6, 8, 9, 10}
  BY HalfIs, SMT
<1>6. Half(\hC419) = {0, 3, 4, 10, 14, 15}
  BY HalfIs, SMT
<1>7. Half(\h0EDB) = {0, 1, 3, 4, 6, 7, 9, 10, 11}
  BY HalfIs, SMT
<1>8. Half(\h8832) = {1, 4, 5, 11, 15}
  BY HalfIs, SMT
<1>9. Half(\h1DB7) = {0, 1, 2, 4, 5, 7, 8, 10, 11, 12}
  BY HalfIs, SMT
<1>10. Half(\h1064) = {2, 5, 6, 12}
  BY HalfIs, SMT
<1>11. Half(\h3B6E) = {1, 2, 3, 5, 6, 8, 9, 11, 12, 13}
  BY HalfIs, SMT
<1>12. Half(\h20C8) = {3, 6, 7, 13}
  BY HalfIs, SMT
<1>13. Half(\h76DC) = {2, 3, 4, 6, 7, 9, 10, 12, 13, 14}
  BY HalfIs, SMT
<1>14. Half(\h4190) = {4, 7, 8, 14}
  BY HalfIs, SMT
<1>15. Half(\hEDB8) = {3, 4, 5, 7, 8, 10, 11, 13, 14, 15}
  BY HalfIs, SMT
<1>16. Half(\h8320) = {5, 8, 9, 15}
  BY HalfIs, SMT
<1>17. Half(\h04C1) = {0, 6, 7, 10}
  BY HalfIs, SMT
<1>18. Half(\h1DB7) = {0, 1, 2, 4, 5, 7, 8, 10, 11, 12}
  BY HalfIs, SMT
<1> QED
  BY <1>1, <1>2, <1>3, <1>4, <1>5, <1>6, <1>7, <1>8, <1>9, <1>10, <1>11, <1>12, <1>13, <1>14, <1>15, <1>16, <1>17, <1>18

Words ==
  << {1, 2, 4, 7, 12, 13, 16, 17, 18, 24, 25, 26, 28, 29, 30},
     {2, 3, 5, 8, 13, 14, 17, 18, 19, 25, 26, 27, 29, 30, 31},
     {0, 3, 4, 10, 14, 15, 16, 18, 19, 21, 22, 24, 25, 26},
     {1, 4, 5, 11, 15, 16, 17, 19, 20, 22, 23, 25, 26, 27},
     {2, 5, 6, 12, 16, 17, 18, 20, 21, 23, 24, 26, 27, 28},
     {3, 6, 7, 13, 17, 18, 19, 21, 22, 24, 25, 27, 28, 29},
     {4, 7, 8, 14, 18, 19, 20, 22, 23, 25, 26, 28, 29, 30},
     {5, 8, 9, 15, 19, 20, 21, 23, 24, 26, 27, 29, 30, 31} >>
Poly32 == {0, 1, 2, 4, 5, 7, 8, 10, 11, 12, 16, 22, 23, 26}

LEMMA WordsAre ==
  /\ \A k \in 1 .. 8 : TableWords[k] = Words[k]
  /\ G32 = Poly32 \cup {32}
<1>1. HexWord(\h7707, \h3096) = {1, 2, 4, 7, 12, 13, 16, 17, 18, 24, 25, 26, 28, 29, 30}
  <2>1. {b + 16 : b \in {0, 1, 2, 8, 9, 10, 12, 13, 14}} = {16, 17, 18, 24, 25, 26, 28, 29, 30}
    OBVIOUS
  <2> QED
    BY <2>1, HexIs, Halves, SMTT(40)
<1>2. HexWord(\hEE0E, \h612C) = {2, 3, 5, 8, 13, 14, 17, 18, 19, 25, 26, 27, 29, 30, 31}
  <2>1. {b + 16 : b \in {1, 2, 3, 9, 10, 11, 13, 14, 15}} = {17, 18, 19, 25, 26, 27, 29, 30, 31}
    OBVIOUS
  <2> QED
    BY <2>1, HexIs, Halves, SMTT(40)
<1>3. HexWord(\h076D, \hC419) = {0, 3, 4, 10, 14, 15, 16, 18, 19, 21, 22, 24, 25, 26}
  <2>1. {b + 16 : b \in {0, 2, 3, 5, 6, 8, 9, 10}} = {16, 18, 19, 21, 22, 24, 25, 26}
    OBVIOUS
  <2> QED
    BY <2>1, HexIs, Halves, SMTT(40)
<1>4. HexWord(\h0EDB, \h8832) = {1, 4, 5, 11, 15, 16, 17, 19, 20, 22, 23, 25, 26, 27}
  <2>1. {b + 16 : b \in {0, 1, 3, 4, 6, 7, 9, 10, 11}} = {16, 17, 19, 20, 22, 23, 25, 26, 27}
    OBVIOUS
  <2> QED
    BY <2>1, HexIs, Halves, SMTT(40)
<1>5. HexWord(\h1DB7, \h1064) = {2, 5, 6, 12, 16, 17, 18, 20, 21, 23, 24, 26, 27, 28}
  <2>1. {b + 16 : b \in {0, 1, 2, 4, 5, 7, 8, 10, 11, 12}} = {16, 17, 18, 20, 21, 23, 24, 26, 27, 28}
    OBVIOUS
  <2> QED
    BY <2>1, HexIs, Halves, SMTT(40)
<1>6. HexWord(\h3B6E, \h20C8) = {3, 6, 7, 13, 17, 18, 19, 21, 22, 24, 25, 27, 28, 29}
  <2>1. {b + 16 : b \in {1, 2, 3, 5, 6, 8, 9, 11, 12, 13}} = {17, 18, 19, 21, 22, 24, 25, 27, 28, 29}
    OBVIOUS
  <2> QED
    BY <2>1, HexIs, Halves, SMTT(40)
<1>7. HexWord(\h76DC, \h4190) = {4, 7, 8, 14, 18, 19, 20, 22, 23, 25, 26, 28, 29, 30}
  <2>1. {b + 16 : b \in {2, 3, 4, 6, 7, 9, 10, 12, 13, 14}} = {18, 19, 20, 22, 23, 25, 26, 28, 29, 30}
    OBVIOUS
  <2> QED
    BY <2>1, HexIs, Halves, SMTT(40)
<1>8. HexWord(\hEDB8, \h8320) = {5, 8, 9, 15, 19, 20, 21, 23, 24, 26, 27, 29, 30, 31}
  <2>1. {b + 16 : b \in {3, 4, 5, 7, 8, 10, 11, 13, 14, 15}} = {19, 20, 21, 23, 24, 26, 27, 29, 30, 31}
    OBVIOUS
  <2> QED
    BY <2>1, HexIs, Halves, SMTT(40)
<1>9. HexWord(\h04C1, \h1DB7) = {0, 1, 2, 4, 5, 7, 8, 10, 11, 12, 16, 22, 23, 26}
  <2>1. {b + 16 : b \in {0, 6, 7, 10}} = {16, 22, 23, 26}
    OBVIOUS
  <2> QED
    BY <2>1, HexIs, Halves, SMTT(40)
<1>10. \A k \in 1 .. 8 : k \in {1, 2, 3, 4, 5, 6, 7, 8}
  OBVIOUS
<1> QED
  BY <1>1, <1>2, <1>3, <1>4, <1>5, <1>6, <1>7, <1>8, <1>9, <1>10 DEF TableWords, Words, G32, Poly32

LEMMA WordsShift ==
  /\ \A k \in 1 .. 8 : Words[k] \subseteq 0 .. 31
  /\ \A k \in 1 .. 7, b \in 0 .. 31 :
       b \in Words[k] <=> ~ (b + 1 \in Words[k + 1] <=> 0 \in Words[k + 1] /\ b \in Words[8])
  /\ \A b \in 0 .. 31 : b \in Words[8] <=> 31 - b \in Poly32
<1>1. \A b \in 0 .. 31 : b \in Words[1] <=> ~ (b + 1 \in Words[2] <=> 0 \in Words[2] /\ b \in Words[8])
  BY SMT DEF Words
<1>2. \A b \in 0 .. 31 : b \in Words[2] <=> ~ (b + 1 \in Words[3] <=> 0 \in Words[3] /\ b \in Words[8])
  BY SMT DEF Words
<1>3. \A b \in 0 .. 31 : b \in Words[3] <=> ~ (b + 1 \in Words[4] <=> 0 \in Words[4] /\ b \in Words[8])
  BY SMT DEF Words
<1>4. \A b \in 0 .. 31 : b \in Words[4] <=> ~ (b + 1 \in Words[5] <=> 0 \in Words[5] /\ b \in Words[8])
  BY SMT DEF Words
<1>5. \A b \in 0 .. 31 : b \in Words[5] <=> ~ (b + 1 \in Words[6] <=> 0 \in Words[6] /\ b \in Words[8])
  BY SMT DEF Words
<1>6. \A b \in 0 .. 31 : b \in Words[6] <=> ~ (b + 1 \in Words[7] <=> 0 \in Words[7] /\ b \in Words[8])
  BY SMT DEF Words
<1>7. \A b \in 0 .. 31 : b \in Words[7] <=> ~ (b + 1 \in Words[8] <=> 0 \in Words[8] /\ b \in Words[8])
  BY SMT DEF Words
<1>8. \A b \in 0 .. 31 : b \in Words[8] <=> 31 - b \in Poly32
  BY SMT DEF Words, Poly32
<1>9. \A k \in 1 .. 8 : k \in {1, 2, 3, 4, 5, 6, 7, 8}
  OBVIOUS
<1>10. \A k \in 1 .. 8 : Words[k] \subseteq 0 .. 31
  BY <1>9, SMT DEF Words
<1>11. ASSUME NEW k \in 1 .. 7, NEW b \in 0 .. 31
       PROVE  b \in Words[k] <=> ~ (b + 1 \in Words[k + 1] <=> 0 \in Words[k + 1] /\ b \in Words[8])
  <2>1. k \in {1, 2, 3, 4, 5, 6, 7} /\ 1 + 1 = 2 /\ 2 + 1 = 3 /\ 3 + 1 = 4 /\ 4 + 1 = 5 /\ 5 + 1 = 6 /\ 6 + 1 = 7 /\ 7 + 1 = 8
    OBVIOUS
  <2> QED
    BY <1>1, <1>2, <1>3, <1>4, <1>5, <1>6, <1>7, <2>1
<1> QED
  BY <1>8, <1>10, <1>11

LEMMA OddDifference ==
  ASSUME NEW A, NEW B, IsFiniteSet(A), IsFiniteSet(B)
  PROVE  Odd(SymDiff(A, B)) <=> ~ (Odd(A) <=> Odd(B))
<1> DEFINE D == A \ B  E == B \ A  I == A \cap B
<1>0. Cardinality({}) = 0
  BY FS_EmptySet
<1>1. IsFiniteSet(D) /\ IsFiniteSet(E) /\ IsFiniteSet(I)
  BY FS_Subset, Zenon
<1>2. Cardinality(D) \in Nat /\ Cardinality(E) \in Nat /\ Cardinality(I) \in Nat
  BY <1>1, FS_CardinalityType
<1>3. Cardinality(A) = Cardinality(D) + Cardinality(I)
  <2>1. A = D \cup I /\ D \cap I = {}
    OBVIOUS
  <2> HIDE DEF D, I
  <2>2. Cardinality(D \cup I) = Cardinality(D) + Cardinality(I) - Cardinality(D \cap I)
    BY <1>1, FS_Union
  <2>3. Cardinality(D \cap I) = 0 /\ Cardinality(A) = Cardinality(D \cup I)
    BY <1>0, <2>1
  <2> QED
    BY <1>2, <2>2, <2>3
<1>4. Cardinality(B) = Cardinality(E) + Cardinality(I)
  <2>1. B = E \cup I /\ E \cap I = {}
    OBVIOUS
  <2> HIDE DEF E, I
  <2>2. Cardinality(E \cup I) = Cardinality(E) + Cardinality(I) - Cardinality(E \cap I)
    BY <1>1, FS_Union
  <2>3. Cardinality(E \cap I) = 0 /\ Cardinality(B) = Cardinality(E \cup I)
    BY <1>0, <2>1
  <2> QED
    BY <1>2, <2>2, <2>3
<1>5. Cardinality(SymDiff(A, B)) = Cardinality(D) + Cardinality(E)
  <2>1. SymDiff(A, B) = D \cup E /\ D \cap E = {}
    BY DEF SymDiff
  <2> HIDE DEF D, E
  <2>2. Cardinality(D \cup E) = Cardinality(D) + Cardinality(E) - Cardinality(D \cap E)
    BY <1>1, FS_Union
  <2>3. Cardinality(D \cap E) = 0 /\ Cardinality(SymDiff(A, B)) = Cardinality(D \cup E)
    BY <1>0, <2>1
  <2> QED
    BY <1>2, <2>2, <2>3
<1> HIDE DEF D, E, I
<1> QED
  BY <1>2, <1>3, <1>4, <1>5 DEF Odd

\* A byte's turn, bit by bit.
LEMMA Crc32ByteBits ==
  ASSUME NEW c \in Word(32), NEW byte \in CrcByte, NEW b \in 0 .. 31
  PROVE  b \in Crc32Byte(c, byte) <=>
           ~ (b \in CRC32_TABLE[SymDiff(c, byte) \cap Ones(8)] <=> b + 8 \in c)
<1> DEFINE i == SymDiff(c, byte) \cap Ones(8)
<1>1. b \in ShiftRight(c, 8) <=> b + 8 \in c
  <2>1. \A a \in c : a \in 0 .. 31
    BY DEF Word, Ones
  <2>2. \A a \in c : b = a - 8 <=> a = b + 8
    BY <2>1
  <2> QED
    BY <2>2 DEF ShiftRight
<1>2. Crc32Byte(c, byte) = SymDiff(CRC32_TABLE[i], ShiftRight(c, 8))
  BY DEF Crc32Byte
<1> HIDE DEF i
<1>3. b \in Crc32Byte(c, byte) <=> ~ (b \in CRC32_TABLE[i] <=> b + 8 \in c)
  BY <1>1, <1>2 DEF SymDiff
<1> QED
  BY <1>3 DEF i

\* The bits of x that have left the register after r steps, and whose word, so
\* far shifted, has the bit b.
Late(x, r, b) == {k \in 0 .. r - 1 : k \in x /\ b \in Words[(k + 9) - r]}

LEMMA LateIsFinite == ASSUME NEW x, NEW r \in Nat, NEW b PROVE IsFiniteSet(Late(x, r, b))
<1>1. IsFiniteSet(0 .. r - 1)
  <2>1. \A i, j \in Int : IsFiniteSet(i .. j)
    BY FS_Interval
  <2>2. 0 \in Int /\ r - 1 \in Int
    OBVIOUS
  <2> QED
    BY <2>1, <2>2, Zenon
<1>2. Late(x, r, b) \subseteq 0 .. r - 1
  BY DEF Late
<1> QED
  BY <1>1, <1>2, FS_Subset

LEMMA LateNext ==
  ASSUME NEW x, NEW r \in 0 .. 7, NEW b \in 0 .. 31
  PROVE  Odd(Late(x, r + 1, b)) <=>
           ~ (Odd(Late(x, r, b + 1)) <=> ~ (r \in x <=> Odd(Late(x, r, 0))) /\ b \in Words[8])
<1> DEFINE A == Late(x, r, b + 1)
           B == Late(x, r, 0)
           C == {k \in 0 .. r - 1 : k \in x /\ b \in Words[(k + 8) - r]}
<1>1. IsFiniteSet(A) /\ IsFiniteSet(B)
  BY LateIsFinite
<1>2. Late(x, r + 1, b) = C \cup (IF r \in x /\ b \in Words[8] THEN {r} ELSE {})
  <2>1. \A k \in 0 .. r : (k + 9) - (r + 1) = (k + 8) - r
    OBVIOUS
  <2>2. (r + 8) - r = 8 /\ (r + 1) - 1 = r /\ \A k : k \in 0 .. r <=> k \in 0 .. r - 1 \/ k = r
    OBVIOUS
  <2>3. Late(x, r + 1, b) = {k \in 0 .. r : k \in x /\ b \in Words[(k + 8) - r]}
    BY <2>1, <2>2 DEF Late
  <2> QED
    BY <2>2, <2>3
<1>3. \A k \in 0 .. r - 1 :
        b \in Words[(k + 8) - r] <=>
          ~ (b + 1 \in Words[(k + 9) - r] <=> 0 \in Words[(k + 9) - r] /\ b \in Words[8])
  <2>1. TAKE k \in 0 .. r - 1
  <2>2. (k + 8) - r \in 1 .. 7 /\ ((k + 8) - r) + 1 = (k + 9) - r
    OBVIOUS
  <2> QED
    BY <2>2, WordsShift
<1>4. r \notin C
  <2>1. r \notin 0 .. r - 1
    OBVIOUS
  <2> QED
    BY <2>1
<1>5. CASE b \in Words[8]
  <2>1. C = SymDiff(A, B)
    BY <1>3, <1>5 DEF Late, SymDiff
  <2>2. Odd(C) <=> ~ (Odd(A) <=> Odd(B))
    BY <1>1, <2>1, OddDifference
  <2>3. IsFiniteSet(C)
    <3>1. C \subseteq A \cup B
      BY <2>1 DEF SymDiff
    <3> HIDE DEF A, B, C
    <3>2. IsFiniteSet(A \cup B)
      BY <1>1, FS_Union
    <3> QED
      BY <3>1, <3>2, FS_Subset
  <2> HIDE DEF A, B, C
  <2>4. CASE r \in x
    <3>1. Late(x, r + 1, b) = C \cup {r}
      BY <1>2, <1>5, <2>4
    <3>2. Odd(C \cup {r}) <=> ~ Odd(C)
      BY <1>4, <2>3, OddOneMore
    <3> QED
      BY <1>5, <2>2, <2>4, <3>1, <3>2 DEF A, B
  <2>5. CASE r \notin x
    <3>1. Late(x, r + 1, b) = C
      BY <1>2, <2>5
    <3> QED
      BY <1>5, <2>2, <2>5, <3>1 DEF A, B
  <2> QED
    BY <2>4, <2>5
<1>6. CASE b \notin Words[8]
  <2>1. C = A
    BY <1>3, <1>6 DEF Late
  <2>2. Late(x, r + 1, b) = C
    BY <1>2, <1>6
  <2> QED
    BY <1>6, <2>1, <2>2
<1> QED
  BY <1>5, <1>6

\* The word whose bits are in the opposite order.
Reversed(w) == {31 - b : b \in w}

LEMMA ReversedIs ==
  ASSUME NEW w, NEW b \in Int, \A a \in w : a \in Int
  PROVE  b \in Reversed(w) <=> 31 - b \in w
<1>1. \A a \in w : b = 31 - a <=> a = 31 - b
  OBVIOUS
<1> QED
  BY <1>1 DEF Reversed

LEMMA TableIsLate ==
  ASSUME NEW x, NEW b \in 0 .. 31
  PROVE  b \in CRC32_TABLE[x \cap Ones(8)] <=> Odd(Late(x, 8, b))
<1> DEFINE i == x \cap Ones(8)
<1>1. i \in CrcByte /\ b \in Ones(32)
  BY WidthOfByte DEF Word, Ones
<1>2. b \in CRC32_TABLE[i] <=> Odd({k \in i : b \in TableWords[k + 1]})
  BY <1>1 DEF CRC32_TABLE, Odd
<1>3. \A k : k \in i <=> k \in 0 .. 8 - 1 /\ k \in x
  BY WidthOfByte
<1>4. \A k \in 0 .. 8 - 1 : k + 1 \in 1 .. 8 /\ (k + 9) - 8 = k + 1
  OBVIOUS
<1>5. \A k \in 0 .. 8 - 1 : b \in TableWords[k + 1] <=> b \in Words[(k + 9) - 8]
  BY <1>4, WordsAre
<1> HIDE DEF i
<1>6. {k \in i : b \in TableWords[k + 1]} = Late(x, 8, b)
  BY <1>3, <1>5 DEF Late
<1> QED
  BY <1>2, <1>6 DEF i

LEMMA Crc32ByteIsEight ==
  ASSUME NEW c \in Word(32), NEW byte \in CrcByte,
         NEW a, a[0] = Reversed(c), \A r \in 0 .. 7 : a[r + 1] = Shifted(a[r], r \in byte, Poly32, 32)
  PROVE  Reversed(Crc32Byte(c, byte)) = a[8]
<1> DEFINE x == SymDiff(c, byte)
           Mixed(r) == /\ \A b \in 0 .. 31 : 31 - b \in a[r] <=> ~ (b + r \in c <=> Odd(Late(x, r, b)))
                       /\ a[r] \subseteq 0 .. 31
           S == {r \in 0 .. 8 : Mixed(r)}
<1>1. \A b \in c : b \in 0 .. 31
  BY DEF Word, Ones
<1>2. Mixed(0)
  <2>1. \A b : Late(x, 0, b) = {}
    BY DEF Late
  <2>2. ~ Odd({})
    BY FS_EmptySet DEF Odd
  <2>3. \A b \in 0 .. 31 : 31 - b \in Reversed(c) <=> b \in c
    <3>1. TAKE b \in 0 .. 31
    <3>2. 31 - b \in Int /\ 31 - (31 - b) = b /\ \A k \in c : k \in Int
      BY <1>1
    <3> QED
      BY <3>2, ReversedIs
  <2>4. Reversed(c) \subseteq 0 .. 31
    BY <1>1 DEF Reversed
  <2>5. \A b \in 0 .. 31 : b + 0 = b
    OBVIOUS
  <2> QED
    BY <2>1, <2>2, <2>3, <2>4, <2>5
<1>3. ASSUME NEW r \in 0 .. 7, Mixed(r) PROVE Mixed(r + 1)
  <2> DEFINE Flag == ~ (31 \in a[r] <=> r \in byte)
  <2>1. \A b \in 0 .. 31 : b \in a[r + 1] <=> ~ (b - 1 \in a[r] <=> Flag /\ b \in Poly32)
    <3>1. a[r + 1] = Shifted(a[r], r \in byte, Poly32, 32) /\ 32 - 1 = 31
      OBVIOUS
    <3> QED
      BY <3>1 DEF Shifted
  <2>2. Flag <=> ~ (r \in x <=> Odd(Late(x, r, 0)))
    <3>1. 31 - 0 = 31 /\ 0 + r = r /\ 0 \in 0 .. 31
      OBVIOUS
    <3>2. 31 \in a[r] <=> ~ (r \in c <=> Odd(Late(x, r, 0)))
      BY <1>3, <3>1
    <3>3. r \in x <=> ~ (r \in c <=> r \in byte)
      BY DEF SymDiff
    <3> QED
      BY <3>2, <3>3
  <2> HIDE DEF x, Flag
  <2>3. ASSUME NEW b \in 0 .. 31
        PROVE  (31 - b) - 1 \in a[r] <=> ~ (b + (r + 1) \in c <=> Odd(Late(x, r, b + 1)))
    <3>1. CASE b = 31
      <4>1. (31 - b) - 1 \notin a[r]
        BY <1>3, <3>1
      <4>2. b + (r + 1) \notin c
        BY <1>1, <3>1
      <4>3. Late(x, r, b + 1) = {}
        <5>1. \A k \in 0 .. r - 1 : (k + 9) - r \in 1 .. 8
          OBVIOUS
        <5>2. \A k \in 1 .. 8 : b + 1 \notin Words[k]
          BY <3>1, WordsShift
        <5> QED
          BY <5>1, <5>2 DEF Late
      <4>4. ~ Odd({})
        BY FS_EmptySet DEF Odd
      <4> QED
        BY <4>1, <4>2, <4>3, <4>4
    <3>2. CASE b # 31
      <4>1. b + 1 \in 0 .. 31 /\ 31 - (b + 1) = (31 - b) - 1 /\ (b + 1) + r = b + (r + 1)
        BY <3>2
      <4> QED
        BY <1>3, <4>1
    <3> QED
      BY <3>1, <3>2
  <2>4. ASSUME NEW b \in 0 .. 31
        PROVE  31 - b \in a[r + 1] <=> ~ (b + (r + 1) \in c <=> Odd(Late(x, r + 1, b)))
    <3>1. 31 - b \in 0 .. 31
      OBVIOUS
    <3>2. 31 - b \in a[r + 1] <=> ~ ((31 - b) - 1 \in a[r] <=> Flag /\ 31 - b \in Poly32)
      BY <2>1, <3>1
    <3>3. 31 - b \in Poly32 <=> b \in Words[8]
      BY WordsShift
    <3>4. Odd(Late(x, r + 1, b)) <=> ~ (Odd(Late(x, r, b + 1)) <=> Flag /\ b \in Words[8])
      BY <2>2, LateNext
    <3> QED
      BY <2>3, <3>2, <3>3, <3>4
  <2>5. a[r + 1] \subseteq 0 .. 31
    <3>1. a[r + 1] = Shifted(a[r], r \in byte, Poly32, 32) /\ 32 - 1 = 31
      OBVIOUS
    <3> QED
      BY <3>1 DEF Shifted
  <2> QED
    BY <2>4, <2>5
<1>4. Mixed(8)
  <2>1. 0 \in S
    BY <1>2
  <2>2. \A r \in 0 .. 8 - 1 : r \in S => r + 1 \in S
    BY <1>3
  <2> HIDE DEF S
  <2>3. \A r \in 0 .. 8 : r \in S
    BY <2>1, <2>2, SetInduction
  <2> QED
    BY <2>3 DEF S
<1> HIDE DEF x
<1>5. \A b \in 0 .. 31 : b \in Crc32Byte(c, byte) <=> 31 - b \in a[8]
  <2>1. TAKE b \in 0 .. 31
  <2>2. b \in Crc32Byte(c, byte) <=> ~ (b \in CRC32_TABLE[x \cap Ones(8)] <=> b + 8 \in c)
    BY Crc32ByteBits DEF x
  <2>3. b \in CRC32_TABLE[x \cap Ones(8)] <=> Odd(Late(x, 8, b))
    BY TableIsLate
  <2> QED
    BY <1>4, <2>2, <2>3
<1>6. \A b \in Crc32Byte(c, byte) : b \in 0 .. 31
  BY Crc32ByteIsWord DEF Word, Ones
<1>7. \A b \in 0 .. 31 : b \in Reversed(Crc32Byte(c, byte)) <=> b \in a[8]
  <2>1. TAKE b \in 0 .. 31
  <2>2. b \in Reversed(Crc32Byte(c, byte)) <=> 31 - b \in Crc32Byte(c, byte)
    <3>1. b \in Int /\ \A k \in Crc32Byte(c, byte) : k \in Int
      BY <1>6
    <3> QED
      BY <3>1, ReversedIs
  <2>3. 31 - b \in 0 .. 31 /\ 31 - (31 - b) = b
    OBVIOUS
  <2> QED
    BY <1>5, <2>2, <2>3
<1>8. Reversed(Crc32Byte(c, byte)) \subseteq 0 .. 31
  BY <1>6 DEF Reversed
<1> QED
  BY <1>4, <1>7, <1>8

LEMMA Complemented ==
  ASSUME NEW v \in Word(32)
  PROVE  {31 - b : b \in SymDiff(Reversed(v), Ones(32))} = SymDiff(v, Ones(32))
<1>2. v \subseteq 0 .. 31 /\ Ones(32) = 0 .. 31
  BY DEF Word, Ones
<1>3. \A b \in 0 .. 31 : b \in Reversed(v) <=> 31 - b \in v
  <2>1. \A b \in v : b \in Int
    BY <1>2
  <2> QED
    BY <2>1, ReversedIs
<1>4. Reversed(v) \subseteq 0 .. 31
  BY <1>2 DEF Reversed
<1> DEFINE d == SymDiff(Reversed(v), Ones(32))
<1>5. \A b \in d : b \in 0 .. 31
  BY <1>2, <1>4 DEF SymDiff
<1>6. \A b \in 0 .. 31 : b \in d <=> 31 - b \notin v
  BY <1>2, <1>3 DEF SymDiff
<1> HIDE DEF d
<1>7. ASSUME NEW e \in 0 .. 31 PROVE e \in {31 - b : b \in d} <=> e \notin v
  <2>1. \A b \in d : e = 31 - b <=> b = 31 - e
    BY <1>5
  <2>2. 31 - e \in 0 .. 31 /\ 31 - (31 - e) = e
    OBVIOUS
  <2> QED
    BY <1>6, <2>1, <2>2
<1>8. {31 - b : b \in d} \subseteq 0 .. 31
  BY <1>5
<1>9. SymDiff(v, Ones(32)) = {e \in 0 .. 31 : e \notin v}
  BY <1>2 DEF SymDiff
<1> QED
  BY <1>7, <1>8, <1>9 DEF d

\* CRC-32 by table (Crc32.cpp) is what IEEE 802.3 defines, for every message: the
\* remainder of the message, each byte's least significant bit first, its first
\* 32 bits complemented and 32 zeros behind, on division by the generator; with
\* its bits in the opposite order, and complemented.
THEOREM Crc32IsRemainder == \A m \in Seq(CrcByte) : Crc32Calculate(m) = Crc32Defined(m)
<1> SUFFICES ASSUME NEW m \in Seq(CrcByte) PROVE Crc32Calculate(m) = Crc32Defined(m)
  OBVIOUS
<1> DEFINE n == Len(m)  w == [i \in DOMAIN m |-> {7 - b : b \in m[i]}]
<1>1. n \in Nat /\ \A i \in 1 .. n : m[i] \in CrcByte
  OBVIOUS
<1>2. w \in Seq(CrcByte) /\ Len(w) = n
  <2>1. \A i \in 1 .. n : {7 - b : b \in m[i]} \in CrcByte
    <3>1. TAKE i \in 1 .. n
    <3>2. \A b \in m[i] : b \in 0 .. 7
      BY <1>1 DEF CrcByte
    <3>3. \A b \in 0 .. 7 : 7 - b \in 0 .. 7
      OBVIOUS
    <3> QED
      BY <3>2, <3>3 DEF CrcByte
  <2> QED
    BY <1>1, <2>1
<1>3. ASSUME NEW q \in 0 .. n - 1, NEW r \in 0 .. 7
      PROVE  BitOf(w, 8 * q + r) <=> r \in m[q + 1]
  <2>1. q + 1 \in 1 .. n /\ q + 1 \in DOMAIN m /\ q \in Nat
    BY <1>1
  <2>2. w[q + 1] = {7 - b : b \in m[q + 1]} /\ m[q + 1] \in CrcByte
    BY <1>1, <2>1
  <2> HIDE DEF w
  <2>3. 7 - r \in w[q + 1] <=> r \in m[q + 1]
    <3>1. \A b \in m[q + 1] : b \in 0 .. 7
      BY <2>2 DEF CrcByte
    <3>2. \A b \in 0 .. 7 : 7 - r = 7 - b <=> b = r
      OBVIOUS
    <3> QED
      BY <2>2, <3>1, <3>2
  <2> QED
    BY <2>1, <2>3, BitsOfByte
<1>4. Crc32Defined(m) = {31 - b : b \in SymDiff(Remainder(Straight(w, 32), G32, 32, n), Ones(32))}
  BY DEF Crc32Defined, Mirrored
<1> HIDE DEF w
<1>5. PICK f : Crc32Run(f, Ones(32), m) /\ Crc32Update(Ones(32), m) = f[n]
  <2>1. Ones(32) \in Word(32)
    BY DEF Word
  <2> QED
    BY <2>1, Crc32Unfolds
<1>6. PICK a : Register(a, w, Poly32, 32)
  BY <1>2, RegisterExists
<1>7. Remainder(Straight(w, 32), G32, 32, n) = a[8 * n]
  <2>1. Poly32 \in SUBSET (0 .. 32 - 1) /\ 32 \in Nat \ {0}
    BY DEF Poly32
  <2>2. Remainder(Straight(w, 32), Poly32 \cup {32}, 32, Len(w)) = a[8 * Len(w)]
    BY <1>2, <1>6, <2>1, RegisterIsRemainder
  <2>3. G32 = Poly32 \cup {32}
    BY WordsAre
  <2> QED
    BY <1>2, <2>2, <2>3
<1>8. /\ f[0] = Ones(32)
      /\ \A i \in 0 .. n : f[i] \in Word(32)
      /\ \A i \in 1 .. n : f[i] = Crc32Byte(f[i - 1], m[i])
  BY <1>5 DEF Crc32Run
<1>9. a[0] = Ones(32) /\ \A t \in 0 .. 8 * n - 1 : a[t + 1] = Shifted(a[t], BitOf(w, t), Poly32, 32)
  BY <1>2, <1>6 DEF Register, Ones
<1> HIDE DEF n
<1> DEFINE S == {q \in 0 .. n : Reversed(f[q]) = a[8 * q]}
<1>10. 0 \in S
  <2>1. 8 * 0 = 0 /\ 0 \in 0 .. n
    BY <1>1
  <2>2. Reversed(Ones(32)) = Ones(32)
    <3>1. \A b \in 0 .. 31 : 31 - b \in 0 .. 31 /\ 31 - (31 - b) = b
      OBVIOUS
    <3>2. Ones(32) = 0 .. 31
      BY DEF Ones
    <3> QED
      BY <3>1, <3>2 DEF Reversed
  <2> QED
    BY <1>8, <1>9, <2>1, <2>2
<1>11. ASSUME NEW q \in 0 .. n - 1, Reversed(f[q]) = a[8 * q] PROVE Reversed(f[q + 1]) = a[8 * (q + 1)]
  <2> DEFINE g == [r \in 0 .. 8 |-> a[8 * q + r]]
  <2>1. q \in 0 .. n /\ q + 1 \in 1 .. n /\ (q + 1) - 1 = q /\ q \in Nat
    BY <1>1
  <2>2. f[q] \in Word(32) /\ f[q + 1] = Crc32Byte(f[q], m[q + 1]) /\ m[q + 1] \in CrcByte
    BY <1>1, <1>8, <2>1
  <2>3. g[0] = Reversed(f[q])
    <3>1. 8 * q + 0 = 8 * q
      BY <2>1
    <3> QED
      BY <1>11, <3>1
  <2>4. ASSUME NEW r \in 0 .. 7 PROVE g[r + 1] = Shifted(g[r], r \in m[q + 1], Poly32, 32)
    <3>1. 8 * q + r \in 0 .. 8 * n - 1 /\ (8 * q + r) + 1 = 8 * q + (r + 1) /\ r \in 0 .. 8 /\ r + 1 \in 0 .. 8
      BY <1>1, <2>1
    <3>2. a[8 * q + (r + 1)] = Shifted(a[8 * q + r], BitOf(w, 8 * q + r), Poly32, 32)
      BY <1>9, <3>1
    <3>3. BitOf(w, 8 * q + r) <=> r \in m[q + 1]
      BY <1>3
    <3> QED
      BY <3>1, <3>2, <3>3 DEF Shifted
  <2>5. g[8] = a[8 * (q + 1)]
    <3>1. 8 * q + 8 = 8 * (q + 1)
      BY <2>1
    <3> QED
      BY <3>1
  <2> HIDE DEF g
  <2>6. Reversed(Crc32Byte(f[q], m[q + 1])) = g[8]
    BY <2>2, <2>3, <2>4, Crc32ByteIsEight
  <2> QED
    BY <2>2, <2>5, <2>6
<1>12. \A q \in 0 .. n : q \in S
  <2>1. \A q \in 0 .. n - 1 : q \in S => q + 1 \in S
    <3>1. \A q \in 0 .. n - 1 : q + 1 \in 0 .. n
      BY <1>1
    <3> QED
      BY <1>11, <3>1
  <2> HIDE DEF S
  <2> QED
    BY <1>1, <1>10, <2>1, SetInduction
<1>13. Reversed(f[n]) = a[8 * n] /\ f[n] \in Word(32)
  BY <1>1, <1>8, <1>12
<1>14. {31 - b : b \in SymDiff(Reversed(f[n]), Ones(32))} = SymDiff(f[n], Ones(32))
  BY <1>13, Complemented
<1>15. Crc32Defined(m) = SymDiff(f[n], Ones(32))
  BY <1>4, <1>7, <1>13, <1>14
<1> QED
  BY <1>5, <1>15 DEF Crc32Calculate, Crc32Finalize, INITIAL_REMAINDER, FINAL_XOR_VALUE, n

-----------------------------------------------------------------------------
(* The flash driver.                                                        *)

Cells == [Addresses -> SUBSET AllOnes]
Sources == [given : Seq(SUBSET AllOnes), old : Seq(SUBSET AllOnes), flash : BOOLEAN]
DriverNodes == [cells : Cells, wel : BOOLEAN, busy : BOOLEAN, mapped : BOOLEAN, irq : BOOLEAN,
          stale : SUBSET Addresses, held : SUBSET Nat, lost : SUBSET Nat, stopped : BOOLEAN]
PlainOps == {"disable_irq", "enable_irq", "unmap", "map", "invalidate", "wren", "delay"}
Commands == {"erase", "program"}
DriverSteps == [op : PlainOps \cup Commands, at : Nat, first : Nat, count : Nat]

\* The node when the chip has gone on for a step, which it may take longer than.
Rested(node, i, slow) == [node EXCEPT !.busy = @ /\ i \in slow]

\* What a page program has of the data.
DataOf(source, node, step) == [i \in 1 .. step.count |-> Byte(source, node, step.first + i)]

\* The cells after a command that the chip follows.
CellsAfter(source, node, step) ==
  IF step.op = "erase" THEN ErasedCells(node.cells, step.at)
  ELSE ProgrammedCells(node.cells, step.at, DataOf(source, node, step))

NodeRun(f, source, node, steps, missed, slow) ==
  /\ f \in [0 .. Len(steps) -> DriverNodes]
  /\ f[0] = node
  /\ \A i \in 1 .. Len(steps) : f[i] = Turn(source, f[i - 1], steps[i], i, missed, slow)

LEMMA RestedIs ==
  ASSUME NEW node \in DriverNodes, NEW i, NEW slow
  PROVE  LET rested == Rested(node, i, slow)
         IN  /\ rested \in DriverNodes
             /\ rested.busy <=> node.busy /\ i \in slow
             /\ rested.cells = node.cells /\ rested.wel = node.wel /\ rested.mapped = node.mapped
             /\ rested.irq = node.irq /\ rested.stale = node.stale
             /\ rested.held = node.held /\ rested.lost = node.lost /\ rested.stopped = node.stopped
<1> DEFINE busy == node.busy /\ i \in slow
           rested == [node EXCEPT !.busy = busy]
<1>1. Rested(node, i, slow) = rested
  BY DEF Rested
<1>2. busy \in BOOLEAN
  OBVIOUS
<1> HIDE DEF busy
<1>3. /\ rested \in DriverNodes /\ rested.busy = busy
      /\ rested.cells = node.cells /\ rested.wel = node.wel /\ rested.mapped = node.mapped
      /\ rested.irq = node.irq /\ rested.stale = node.stale
      /\ rested.held = node.held /\ rested.lost = node.lost /\ rested.stopped = node.stopped
  BY <1>2 DEF DriverNodes
<1> HIDE DEF rested
<1> QED
  BY <1>1, <1>3 DEF busy

LEMMA CommandedIs ==
  ASSUME NEW node \in DriverNodes, NEW cells \in Cells
  PROVE  LET after == Commanded(node, cells)
         IN  /\ after \in DriverNodes
             /\ after.irq = node.irq /\ after.mapped = node.mapped
             /\ after.held = node.held /\ after.lost = node.lost /\ after.stopped = node.stopped
             /\ after = node \/ after.cells = cells
             /\ node.wel /\ ~ node.mapped /\ ~ node.busy => after.cells = cells
<1> DEFINE stale == node.stale \cup {a \in Addresses : cells[a] # node.cells[a]}
           given == [node EXCEPT !.cells = cells, !.wel = FALSE, !.busy = TRUE, !.stale = stale]
<1>1. Commanded(node, cells) = IF node.wel /\ ~ node.mapped /\ ~ node.busy THEN given ELSE node
  BY DEF Commanded
<1>2. stale \in SUBSET Addresses
  BY DEF DriverNodes
<1> HIDE DEF stale
<1>3. /\ given \in DriverNodes /\ given.cells = cells /\ given.irq = node.irq /\ given.mapped = node.mapped
      /\ given.held = node.held /\ given.lost = node.lost /\ given.stopped = node.stopped
  BY <1>2 DEF DriverNodes
<1> HIDE DEF given
<1> QED
  BY <1>1, <1>3

LEMMA CellsAfterAreCells ==
  ASSUME NEW source, NEW node \in DriverNodes, NEW step \in DriverSteps
  PROVE  CellsAfter(source, node, step) \in Cells
<1>1. node.cells \in Cells
  BY DEF DriverNodes
<1>2. ErasedCells(node.cells, step.at) \in Cells
  BY <1>1 DEF ErasedCells, Cells
<1>3. ASSUME NEW data PROVE ProgrammedCells(node.cells, step.at, data) \in Cells
  BY <1>1 DEF ProgrammedCells, Cells
<1> QED
  BY <1>2, <1>3 DEF CellsAfter

\* What a command does to a node that has not stopped.
CommandDone(source, node, step, heard) ==
  LET faults == step.op = "program" /\ Faults(source, node, step)
      after == Perform(source, node, step, heard)
  IN  IF faults THEN after = [node EXCEPT !.stopped = TRUE]
      ELSE IF ~ heard THEN after = node
      ELSE after = Commanded(node, CellsAfter(source, node, step))

LEMMA CommandDoes ==
  ASSUME NEW source, NEW node \in DriverNodes, NEW step \in DriverSteps, step.op \in Commands, NEW heard
  PROVE  CommandDone(source, node, step, heard)
<1>1. CASE step.op = "erase"
  <2>1. Perform(source, node, step, heard) =
          IF heard THEN Commanded(node, ErasedCells(node.cells, step.at)) ELSE node
    BY <1>1 DEF Perform
  <2>2. CellsAfter(source, node, step) = ErasedCells(node.cells, step.at)
    BY <1>1 DEF CellsAfter
  <2> QED
    BY <1>1, <2>1, <2>2 DEF CommandDone
<1>2. CASE step.op = "program"
  <2>1. Perform(source, node, step, heard) =
          IF Faults(source, node, step) THEN [node EXCEPT !.stopped = TRUE]
          ELSE IF ~ heard THEN node
          ELSE Commanded(node, ProgrammedCells(node.cells, step.at, DataOf(source, node, step)))
    BY <1>2 DEF Perform, DataOf
  <2>2. CellsAfter(source, node, step) = ProgrammedCells(node.cells, step.at, DataOf(source, node, step))
    BY <1>2 DEF CellsAfter
  <2> QED
    BY <1>2, <2>1, <2>2 DEF CommandDone
<1> QED
  BY <1>1, <1>2 DEF Commands

\* What the other steps do.
PlainDone(source, node, step, heard) ==
  LET after == Perform(source, node, step, heard)
  IN  /\ step.op = "disable_irq" => after = [node EXCEPT !.irq = FALSE]
      /\ step.op = "enable_irq" => after = [node EXCEPT !.irq = TRUE]
      /\ step.op = "unmap" => after = [node EXCEPT !.mapped = FALSE]
      /\ step.op = "map" => after = [node EXCEPT !.mapped = TRUE]
      /\ step.op = "delay" => after = node
      /\ step.op = "invalidate" =>
           after = [node EXCEPT !.stale = {}, !.lost = node.lost \cup node.held, !.held = {}]
      /\ step.op = "wren" =>
           after = IF node.mapped \/ node.busy \/ ~ heard THEN node ELSE [node EXCEPT !.wel = TRUE]

LEMMA PlainDoes ==
  ASSUME NEW source, NEW node \in DriverNodes, NEW step, NEW heard
  PROVE  PlainDone(source, node, step, heard)
BY DEF Perform, PlainDone

LEMMA PerformIsNode ==
  ASSUME NEW source, NEW node \in DriverNodes, NEW step \in DriverSteps, NEW heard
  PROVE  Perform(source, node, step, heard) \in DriverNodes
<1>1. CASE step.op \in Commands
  <2>1. CellsAfter(source, node, step) \in Cells
    BY CellsAfterAreCells
  <2>2. Commanded(node, CellsAfter(source, node, step)) \in DriverNodes
    BY <2>1, CommandedIs
  <2>3. [node EXCEPT !.stopped = TRUE] \in DriverNodes
    BY DEF DriverNodes
  <2>4. \/ Perform(source, node, step, heard) = [node EXCEPT !.stopped = TRUE]
        \/ Perform(source, node, step, heard) = node
        \/ Perform(source, node, step, heard) = Commanded(node, CellsAfter(source, node, step))
    BY <1>1, CommandDoes DEF CommandDone
  <2> QED
    BY <2>2, <2>3, <2>4
<1>2. CASE step.op \in PlainOps
  <2>1. /\ [node EXCEPT !.irq = FALSE] \in DriverNodes /\ [node EXCEPT !.irq = TRUE] \in DriverNodes
        /\ [node EXCEPT !.mapped = FALSE] \in DriverNodes /\ [node EXCEPT !.mapped = TRUE] \in DriverNodes
        /\ [node EXCEPT !.wel = TRUE] \in DriverNodes
    BY DEF DriverNodes
  <2>2. [node EXCEPT !.stale = {}, !.lost = node.lost \cup node.held, !.held = {}] \in DriverNodes
    BY DEF DriverNodes
  <2>3. \/ Perform(source, node, step, heard) \in {node, [node EXCEPT !.irq = FALSE], [node EXCEPT !.irq = TRUE],
              [node EXCEPT !.mapped = FALSE], [node EXCEPT !.mapped = TRUE], [node EXCEPT !.wel = TRUE]}
        \/ Perform(source, node, step, heard) =
             [node EXCEPT !.stale = {}, !.lost = node.lost \cup node.held, !.held = {}]
    <3> DEFINE after == Perform(source, node, step, heard)
    <3>1. step.op = "disable_irq" \/ step.op = "enable_irq" \/ step.op = "unmap" \/ step.op = "map"
            \/ step.op = "delay" \/ step.op = "invalidate" \/ step.op = "wren"
      BY <1>2 DEF PlainOps
    <3>2. PlainDone(source, node, step, heard)
      BY PlainDoes
    <3> HIDE DEF after
    <3> QED
      BY <3>1, <3>2, ZenonT(40) DEF PlainDone, after
  <2> QED
    BY <2>1, <2>2, <2>3
<1> QED
  BY <1>1, <1>2 DEF DriverSteps

LEMMA TurnIs ==
  ASSUME NEW source, NEW node \in DriverNodes, NEW step \in DriverSteps, NEW i, NEW missed, NEW slow
  PROVE  /\ Turn(source, node, step, i, missed, slow) \in DriverNodes
         /\ node.stopped => Turn(source, node, step, i, missed, slow) = node
         /\ ~ node.stopped =>
              Turn(source, node, step, i, missed, slow) =
                Perform(source, Rested(node, i, slow), step, i \notin missed)
<1>1. Turn(source, node, step, i, missed, slow) =
        IF node.stopped THEN node ELSE Perform(source, Rested(node, i, slow), step, i \notin missed)
  BY DEF Turn, Rested
<1>2. Rested(node, i, slow) \in DriverNodes
  BY RestedIs
<1>3. ASSUME NEW heard PROVE Perform(source, Rested(node, i, slow), step, heard) \in DriverNodes
  BY <1>2, PerformIsNode
<1> QED
  BY <1>1, <1>3

LEMMA ThroughRuns ==
  ASSUME NEW source, NEW node \in DriverNodes, NEW steps \in Seq(DriverSteps), NEW missed, NEW slow
  PROVE  NodeRun(Through(source, node, steps, missed, slow), source, node, steps, missed, slow)
<1> DEFINE n == Len(steps)
           x0 == node
           G == [p \in DriverNodes \X (1 .. n) |-> Turn(source, p[1], steps[p[2]], p[2], missed, slow)]
           Body(f) == [i \in 0 .. n |-> IF i = 0 THEN x0 ELSE Turn(source, f[i - 1], steps[i], i, missed, slow)]
           after == CHOOSE f : f = Body(f)
<1>1. n \in Nat /\ x0 \in DriverNodes
  OBVIOUS
<1>2. \A c \in DriverNodes, i \in 1 .. n : Turn(source, c, steps[i], i, missed, slow) \in DriverNodes
  BY TurnIs
<1>3. \A c \in DriverNodes, i \in 1 .. n : G[<<c, i>>] = Turn(source, c, steps[i], i, missed, slow)
  OBVIOUS
<1>4. G \in Turns(DriverNodes, n)
  BY <1>2 DEF Turns
<1>5. Through(source, node, steps, missed, slow) = after
  BY DEF Through
<1> HIDE DEF G, n, x0
<1>6. PICK f : f \in [0 .. n -> DriverNodes] /\ f[0] = x0 /\ \A i \in 1 .. n : f[i] = G[<<f[i - 1], i>>]
  <2>1. \E f : History(f, DriverNodes, x0, n, G)
    BY <1>1, <1>4, LoopExists
  <2> QED
    BY <2>1 DEF History
<1>7. \A i \in 1 .. n : f[i] = Turn(source, f[i - 1], steps[i], i, missed, slow)
  <2>1. TAKE i \in 1 .. n
  <2>2. i - 1 \in 0 .. n
    BY <1>1
  <2> QED
    BY <2>2, <1>3, <1>6
<1>8. f = Body(f)
  <2>1. \A i \in 0 .. n : f[i] = IF i = 0 THEN x0 ELSE Turn(source, f[i - 1], steps[i], i, missed, slow)
    <3>1. \A i \in 0 .. n : i = 0 \/ i \in 1 .. n
      BY <1>1
    <3> QED
      BY <1>6, <1>7, <3>1
  <2> QED
    BY <1>6, <2>1
<1>9. after = Body(after)
  BY <1>8
<1> HIDE DEF after
<1>10. after[0] = x0 /\ \A i \in 1 .. n : after[i] = Turn(source, after[i - 1], steps[i], i, missed, slow)
  <2>1. 0 \in 0 .. n /\ \A i \in 1 .. n : i \in 0 .. n /\ i # 0
    BY <1>1
  <2>2. \A i \in 0 .. n : Body(after)[i] = IF i = 0 THEN x0 ELSE Turn(source, after[i - 1], steps[i], i, missed, slow)
    OBVIOUS
  <2> HIDE DEF Body
  <2> QED
    BY <1>9, <2>1, <2>2
<1>11. after = f
  <2>1. StartsLike(f, after, n)
    BY <1>6, <1>7, <1>10 DEF StartsLike
  <2>2. Like(f, after, n)
    BY <1>1, <2>1, LoopUnique
  <2>3. after = [i \in 0 .. n |-> after[i]]
    BY <1>9
  <2> QED
    BY <1>6, <2>2, <2>3 DEF Like
<1> QED
  BY <1>5, <1>6, <1>7, <1>11 DEF NodeRun, n, x0

\* Steps after steps: a run of both is a run of the first and then, from where
\* that has ended, of the second, which misses what is left to be missed.
Later(missed, n) == {i \in Nat : n + i \in missed}

RunJoins(source, node, a, b, missed, slow) ==
  LET f == Through(source, node, a, missed, slow)
      g == Through(source, f[Len(a)], b, Later(missed, Len(a)), Later(slow, Len(a)))
      h == Through(source, node, a \o b, missed, slow)
  IN  /\ \A i \in 0 .. Len(a) : h[i] = f[i]
      /\ \A i \in 0 .. Len(b) : h[Len(a) + i] = g[i]

LEMMA ThroughJoins ==
  ASSUME NEW source, NEW node \in DriverNodes, NEW a \in Seq(DriverSteps), NEW b \in Seq(DriverSteps),
         NEW missed, NEW slow
  PROVE  RunJoins(source, node, a, b, missed, slow)
<1> DEFINE m == Len(a)  n == Len(b)
           f == Through(source, node, a, missed, slow)
           g == Through(source, f[m], b, Later(missed, m), Later(slow, m))
           h == Through(source, node, a \o b, missed, slow)
<1>1. m \in Nat /\ n \in Nat /\ a \o b \in Seq(DriverSteps) /\ Len(a \o b) = m + n
  OBVIOUS
<1>2. NodeRun(f, source, node, a, missed, slow)
  BY ThroughRuns
<1>3. f[m] \in DriverNodes
  BY <1>1, <1>2 DEF NodeRun
<1>4. NodeRun(g, source, f[m], b, Later(missed, m), Later(slow, m))
  BY <1>3, ThroughRuns
<1>5. NodeRun(h, source, node, a \o b, missed, slow)
  BY <1>1, ThroughRuns
<1> HIDE DEF f, g, h
<1>6. Like(h, f, m)
  <2>1. \A i \in 1 .. m : i \in 1 .. m + n /\ (a \o b)[i] = a[i]
    BY <1>1
  <2>2. StartsLike(h, f, m)
    BY <1>1, <1>2, <1>5, <2>1 DEF StartsLike, NodeRun
  <2> QED
    BY <1>1, <2>2, LoopUnique
<1> DEFINE k == [i \in 0 .. n |-> h[m + i]]
<1>7. \A i \in 0 .. n : k[i] = h[m + i]
  OBVIOUS
<1> HIDE DEF k
<1>8. StartsLike(k, g, n)
  <2>1. k[0] = g[0]
    BY <1>1, <1>4, <1>6, <1>7 DEF NodeRun, Like
  <2>2. ASSUME NEW i \in 1 .. n PROVE k[i] = Turn(source, k[i - 1], b[i], i, Later(missed, m), Later(slow, m))
    <3>1. m + i \in 1 .. m + n /\ (m + i) - 1 = m + (i - 1) /\ i - 1 \in 0 .. n /\ i \in 0 .. n
      BY <1>1
    <3>2. (a \o b)[m + i] = b[i]
      BY <1>1
    <3>3. h[m + i] = Turn(source, h[m + (i - 1)], b[i], m + i, missed, slow)
      BY <1>1, <1>5, <3>1, <3>2 DEF NodeRun
    <3>4. (m + i \in missed <=> i \in Later(missed, m)) /\ (m + i \in slow <=> i \in Later(slow, m))
      BY DEF Later
    <3> QED
      BY <1>7, <3>1, <3>3, <3>4 DEF Turn
  <2> QED
    BY <1>4, <2>1, <2>2 DEF StartsLike, NodeRun
<1>9. Like(k, g, n)
  BY <1>1, <1>8, LoopUnique
<1> QED
  BY <1>6, <1>7, <1>9 DEF Like, RunJoins, f, g, h

\* A node between two brackets, and one that has stopped; and what steps owe to
\* the running program: its code is mapped and fresh whenever an interrupt may
\* run it, and its bytes outside an allowed part are as they were.
Ready == {node \in DriverNodes : node.irq /\ node.mapped /\ node.stale = {} /\ ~ node.stopped}
Halted == {node \in DriverNodes : ~ node.irq /\ node.stopped}

Spares(node, start, allowed) ==
  /\ node.irq => Runnable(node)
  /\ \A a \in Addresses \ allowed : node.cells[a] = start.cells[a]

\* Whatever the chip misses and however slow it is; and it is not busy when an
\* interrupt may run, if the delays suffice.
Quiet(node) == node.irq => ~ node.busy
Safe(source, steps, allowed) ==
  \A start \in Ready, missed \in SUBSET Nat, slow \in SUBSET Nat :
    LET f == Through(source, start, steps, missed, slow)
    IN  /\ f[Len(steps)] \in Ready \cup Halted
        /\ \A i \in 0 .. Len(steps) : Spares(f[i], start, allowed)
        /\ Quiet(start) /\ DelaysSuffice(steps, slow) => \A i \in 0 .. Len(steps) : Quiet(f[i])

Framed(command) ==
  << Plain("disable_irq"), Plain("unmap"), Plain("wren"), command, Plain("delay"),
     Plain("map"), Plain("invalidate"), Plain("enable_irq") >>

LEMMA PlainIsStep == \A op \in PlainOps : Plain(op) \in DriverSteps /\ Plain(op).op = op
BY DEF Plain, Step, DriverSteps

LEMMA FrameIsSteps ==
  ASSUME NEW command \in DriverSteps
  PROVE  Framed(command) \in Seq(DriverSteps) /\ Len(Framed(command)) = 8
BY PlainIsStep DEF Framed, PlainOps

IsJoined(c, s, t, S) ==
  /\ c \in Seq(S)
  /\ Len(c) = Len(s) + Len(t)
  /\ \A i \in 1 .. Len(s) : c[i] = s[i]
  /\ \A i \in 1 .. Len(t) : c[Len(s) + i] = t[i]

LEMMA Joined ==
  ASSUME NEW S, NEW s \in Seq(S), NEW t \in Seq(S)
  PROVE  IsJoined(s \o t, s, t, S)
BY DEF IsJoined

LEMMA BracketIs ==
  ASSUME NEW command \in DriverSteps
  PROVE  Bracketed(ram_xspi_write_enable \o <<command>> \o ram_delay_loops) = Framed(command)
<1> DEFINE a == <<Plain("disable_irq")>> \o <<Plain("unmap")>>
           b == <<Plain("wren")>> \o <<command>> \o <<Plain("delay")>>
           c == <<Plain("map")>>
           d == <<Plain("invalidate"), Plain("enable_irq")>>
<1> USE DEF PlainOps
<1>1. Bracketed(ram_xspi_write_enable \o <<command>> \o ram_delay_loops) = a \o b \o c \o d
  BY DEF Bracketed, ram_xspi_write_enable, ram_xspi_abort, ram_xspi_restore_mapped, ram_delay_loops
<1>2. a \in Seq(DriverSteps) /\ Len(a) = 2 /\ a[1] = Plain("disable_irq") /\ a[2] = Plain("unmap")
  BY PlainIsStep
<1>3. /\ b \in Seq(DriverSteps) /\ Len(b) = 3
      /\ b[1] = Plain("wren") /\ b[2] = command /\ b[3] = Plain("delay")
  BY PlainIsStep
<1>4. c \in Seq(DriverSteps) /\ Len(c) = 1 /\ c[1] = Plain("map")
  BY PlainIsStep
<1>5. d \in Seq(DriverSteps) /\ Len(d) = 2 /\ d[1] = Plain("invalidate") /\ d[2] = Plain("enable_irq")
  BY PlainIsStep
<1> HIDE DEF a, b, c, d
<1>6. /\ a \o b \in Seq(DriverSteps) /\ Len(a \o b) = 5
      /\ (a \o b)[1] = a[1] /\ (a \o b)[2] = a[2]
      /\ (a \o b)[2 + 1] = b[1] /\ (a \o b)[2 + 2] = b[2] /\ (a \o b)[2 + 3] = b[3]
  <2>1. IsJoined(a \o b, a, b, DriverSteps)
    BY <1>2, <1>3, Joined
  <2> QED
    BY <1>2, <1>3, <2>1 DEF IsJoined
<1> DEFINE ab == a \o b
<1>7. /\ ab \o c \in Seq(DriverSteps) /\ Len(ab \o c) = 6 /\ \A i \in 1 .. 5 : (ab \o c)[i] = ab[i]
      /\ (ab \o c)[5 + 1] = c[1]
  <2> HIDE DEF ab
  <2>1. ab \in Seq(DriverSteps) /\ Len(ab) = 5
    BY <1>6 DEF ab
  <2>2. IsJoined(ab \o c, ab, c, DriverSteps)
    BY <1>4, <2>1, Joined
  <2> QED
    BY <1>4, <2>1, <2>2 DEF IsJoined
<1> DEFINE abc == ab \o c
<1>8. /\ abc \o d \in Seq(DriverSteps) /\ Len(abc \o d) = 8
      /\ \A i \in 1 .. 6 : (abc \o d)[i] = abc[i]
      /\ (abc \o d)[6 + 1] = d[1] /\ (abc \o d)[6 + 2] = d[2]
  <2> HIDE DEF abc
  <2>1. abc \in Seq(DriverSteps) /\ Len(abc) = 6
    BY <1>7 DEF abc
  <2>2. IsJoined(abc \o d, abc, d, DriverSteps)
    BY <1>5, <2>1, Joined
  <2> QED
    BY <1>5, <2>1, <2>2 DEF IsJoined
<1> HIDE DEF ab, abc
<1> DEFINE e == abc \o d
<1>9. /\ e[1] = Plain("disable_irq") /\ e[2] = Plain("unmap") /\ e[3] = Plain("wren")
      /\ e[4] = command /\ e[5] = Plain("delay") /\ e[6] = Plain("map") /\ e[7] = Plain("invalidate")
      /\ e[8] = Plain("enable_irq")
  BY <1>2, <1>3, <1>4, <1>5, <1>6, <1>7, <1>8 DEF ab, abc
<1>10. e \in Seq(DriverSteps) /\ Len(e) = 8
  BY <1>8
<1> HIDE DEF e
<1>11. e = Framed(command)
  <2>1. \A i \in 1 .. 8 : e[i] = Framed(command)[i]
    BY <1>9 DEF Framed
  <2> QED
    BY <1>10, <2>1, FrameIsSteps, SeqEqual
<1> QED
  BY <1>1, <1>11 DEF e, ab, abc

\* What the data of a command has against it: it is in the flash, and the cache
\* has not all of it.
Starved(source, node, step) ==
  source.flash /\ \E i \in 1 .. step.count : step.first + i \in node.lost

LEMMA SameData ==
  ASSUME NEW source, NEW node, NEW start, NEW step,
         node.lost = start.lost, node.cells = start.cells
  PROVE  /\ CellsAfter(source, node, step) = CellsAfter(source, start, step)
         /\ ~ node.mapped => (Faults(source, node, step) <=> Starved(source, start, step))
<1>1. DataOf(source, node, step) = DataOf(source, start, step)
  BY DEF DataOf, Byte
<1>2. CellsAfter(source, node, step) = CellsAfter(source, start, step)
  BY <1>1 DEF CellsAfter
<1>3. ~ node.mapped => (Faults(source, node, step) <=> Starved(source, start, step))
  BY DEF Faults, Starved
<1> QED
  BY <1>2, <1>3

\* A plain step of a node that has not stopped.
PlainGoes(node, after, op, i, missed, slow) ==
  /\ ~ after.stopped /\ after.cells = node.cells
  /\ after.busy <=> node.busy /\ i \in slow
  /\ after.irq <=> (op = "enable_irq" \/ (node.irq /\ op # "disable_irq"))
  /\ after.mapped <=> (op = "map" \/ (node.mapped /\ op # "unmap"))
  /\ after.stale = IF op = "invalidate" THEN {} ELSE node.stale
  /\ after.lost = IF op = "invalidate" THEN node.lost \cup node.held ELSE node.lost
  /\ after.held = IF op = "invalidate" THEN {} ELSE node.held
  /\ op = "wren" /\ ~ node.mapped /\ i \notin missed /\ i \notin slow => after.wel

LEMMA PlainTurn ==
  ASSUME NEW source, NEW node \in DriverNodes, ~ node.stopped, NEW op \in PlainOps, NEW i, NEW missed, NEW slow
  PROVE  PlainGoes(node, Turn(source, node, Plain(op), i, missed, slow), op, i, missed, slow)
<1> DEFINE rested == Rested(node, i, slow)
           heard == i \notin missed
           after == Turn(source, node, Plain(op), i, missed, slow)
<1>1. Plain(op) \in DriverSteps /\ Plain(op).op = op
  BY PlainIsStep
<1>2. after = Perform(source, rested, Plain(op), heard) /\ after \in DriverNodes
  BY <1>1, TurnIs
<1>3. /\ rested \in DriverNodes /\ (rested.busy <=> node.busy /\ i \in slow)
      /\ rested.cells = node.cells /\ rested.wel = node.wel /\ rested.mapped = node.mapped
      /\ rested.irq = node.irq /\ rested.stale = node.stale
      /\ rested.held = node.held /\ rested.lost = node.lost /\ rested.stopped = node.stopped
  BY RestedIs
<1> HIDE DEF rested, after
<1>4. PlainDone(source, rested, Plain(op), heard)
  BY <1>3, PlainDoes
<1> HIDE DEF heard
<1>5. /\ op = "disable_irq" => after = [rested EXCEPT !.irq = FALSE]
      /\ op = "enable_irq" => after = [rested EXCEPT !.irq = TRUE]
      /\ op = "unmap" => after = [rested EXCEPT !.mapped = FALSE]
      /\ op = "map" => after = [rested EXCEPT !.mapped = TRUE]
      /\ op = "delay" => after = rested
      /\ op = "invalidate" =>
           after = [rested EXCEPT !.stale = {}, !.lost = rested.lost \cup rested.held, !.held = {}]
      /\ op = "wren" =>
           after = IF rested.mapped \/ rested.busy \/ ~ heard THEN rested ELSE [rested EXCEPT !.wel = TRUE]
  BY <1>1, <1>2, <1>4 DEF PlainDone
<1> DEFINE Same == /\ after \in DriverNodes /\ ~ after.stopped /\ after.cells = node.cells
                   /\ after.busy <=> node.busy /\ i \in slow
           Kept == after.stale = node.stale /\ after.lost = node.lost /\ after.held = node.held
<1>6. CASE op = "disable_irq"
  <2>1. Same /\ Kept /\ ~ after.irq /\ after.mapped = node.mapped
    BY <1>2, <1>3, <1>5, <1>6 DEF DriverNodes
  <2> QED
    BY <1>6, <2>1 DEF after, PlainGoes
<1>7. CASE op = "enable_irq"
  <2>1. Same /\ Kept /\ after.irq /\ after.mapped = node.mapped
    BY <1>2, <1>3, <1>5, <1>7 DEF DriverNodes
  <2> QED
    BY <1>7, <2>1 DEF after, PlainGoes
<1>8. CASE op = "unmap"
  <2>1. Same /\ Kept /\ ~ after.mapped /\ after.irq = node.irq
    BY <1>2, <1>3, <1>5, <1>8 DEF DriverNodes
  <2> QED
    BY <1>8, <2>1 DEF after, PlainGoes
<1>9. CASE op = "map"
  <2>1. Same /\ Kept /\ after.mapped /\ after.irq = node.irq
    BY <1>2, <1>3, <1>5, <1>9 DEF DriverNodes
  <2> QED
    BY <1>9, <2>1 DEF after, PlainGoes
<1>10. CASE op = "delay"
  <2>1. Same /\ Kept /\ after.mapped = node.mapped /\ after.irq = node.irq
    BY <1>2, <1>3, <1>5, <1>10
  <2> QED
    BY <1>10, <2>1 DEF after, PlainGoes
<1>11. CASE op = "invalidate"
  <2>1. /\ Same /\ after.mapped = node.mapped /\ after.irq = node.irq
        /\ after.stale = {} /\ after.lost = node.lost \cup node.held /\ after.held = {}
    <3> DEFINE lost == node.lost \cup node.held
    <3>1. after = [rested EXCEPT !.stale = {}, !.lost = lost, !.held = {}]
      BY <1>3, <1>5, <1>11
    <3> HIDE DEF lost
    <3>2. /\ after.mapped = rested.mapped /\ after.irq = rested.irq /\ after.cells = rested.cells
          /\ after.busy = rested.busy /\ after.stopped = rested.stopped
          /\ after.stale = {} /\ after.lost = lost /\ after.held = {}
      BY <1>3, <3>1 DEF DriverNodes
    <3> QED
      BY <1>2, <1>3, <3>2 DEF lost
  <2> QED
    BY <1>11, <2>1 DEF after, PlainGoes
<1>12. CASE op = "wren"
  <2>1. Same /\ Kept /\ after.mapped = node.mapped /\ after.irq = node.irq
    BY <1>2, <1>3, <1>5, <1>12 DEF DriverNodes
  <2>2. ~ node.mapped /\ i \notin missed /\ i \notin slow => after.wel
    BY <1>3, <1>5, <1>12 DEF DriverNodes, heard
  <2> QED
    BY <1>12, <2>1, <2>2 DEF after, PlainGoes
<1> QED
  BY <1>6, <1>7, <1>8, <1>9, <1>10, <1>11, <1>12 DEF PlainOps

\* A command, at a node whose flash is not mapped.
LEMMA CommandTurn ==
  ASSUME NEW source, NEW node \in DriverNodes, ~ node.stopped, ~ node.mapped,
         NEW step \in DriverSteps, step.op \in Commands, NEW i, NEW missed, NEW slow
  PROVE  LET after == Turn(source, node, step, i, missed, slow)
             cells == CellsAfter(source, node, step)
             starved == step.op = "program" /\ Starved(source, node, step)
         IN  /\ after \in DriverNodes /\ (after.stopped <=> starved)
             /\ after.irq = node.irq /\ after.mapped = node.mapped
             /\ after.held = node.held /\ after.lost = node.lost
             /\ after.cells \in {node.cells, cells}
             /\ starved => after.cells = node.cells
             /\ node.wel /\ i \notin missed /\ i \notin slow /\ ~ starved => after.cells = cells
<1> DEFINE rested == Rested(node, i, slow)
           heard == i \notin missed
           after == Turn(source, node, step, i, missed, slow)
           cells == CellsAfter(source, node, step)
           starved == step.op = "program" /\ Starved(source, node, step)
           given == Commanded(rested, cells)
<1>1. after = Perform(source, rested, step, heard) /\ after \in DriverNodes
  BY TurnIs
<1>2. /\ rested \in DriverNodes /\ (rested.busy <=> node.busy /\ i \in slow)
      /\ rested.cells = node.cells /\ rested.wel = node.wel /\ rested.mapped = node.mapped
      /\ rested.irq = node.irq /\ rested.stale = node.stale
      /\ rested.held = node.held /\ rested.lost = node.lost /\ rested.stopped = node.stopped
  BY RestedIs
<1>3. cells \in Cells
  BY CellsAfterAreCells
<1> HIDE DEF rested, after
<1>4. /\ CellsAfter(source, rested, step) = cells
      /\ Faults(source, rested, step) <=> Starved(source, node, step)
  BY <1>2, SameData
<1>5. CommandDone(source, rested, step, heard)
  BY <1>2, CommandDoes
<1>6. after = IF starved THEN [rested EXCEPT !.stopped = TRUE] ELSE IF ~ heard THEN rested ELSE given
  BY <1>1, <1>4, <1>5 DEF CommandDone
<1> HIDE DEF cells
<1>7. /\ given \in DriverNodes
      /\ given.irq = rested.irq /\ given.mapped = rested.mapped
      /\ given.held = rested.held /\ given.lost = rested.lost /\ given.stopped = rested.stopped
      /\ given = rested \/ given.cells = cells
      /\ rested.wel /\ ~ rested.mapped /\ ~ rested.busy => given.cells = cells
  BY <1>2, <1>3, CommandedIs
<1> HIDE DEF given, starved
<1>8. CASE starved
  <2>1. /\ after.stopped /\ after.irq = rested.irq /\ after.mapped = rested.mapped
        /\ after.held = rested.held /\ after.lost = rested.lost /\ after.cells = rested.cells
    BY <1>2, <1>6, <1>8 DEF DriverNodes
  <2> QED
    BY <1>1, <1>2, <1>8, <2>1 DEF after, cells, starved
<1>9. CASE ~ starved /\ ~ heard
  <2>1. after = rested
    BY <1>6, <1>9
  <2> QED
    BY <1>1, <1>2, <1>9, <2>1 DEF after, cells, starved
<1>10. CASE ~ starved /\ heard
  <2>1. after = given
    BY <1>6, <1>10
  <2> QED
    BY <1>1, <1>2, <1>7, <1>10, <2>1 DEF after, cells, starved
<1> QED
  BY <1>8, <1>9, <1>10

\* What the eight steps of a bracket make of a ready node.
Ended(node, start, cells) ==
  node \in Ready /\ node.cells = cells /\ node.held = {} /\ node.lost = start.lost \cup start.held

FrameDone(f, source, start, command, missed, slow) ==
  LET cells == CellsAfter(source, start, command)
      starved == command.op = "program" /\ Starved(source, start, command)
  IN  /\ f[0] = start
      /\ \A i \in 1 .. 3 : ~ f[i].irq /\ f[i].cells = start.cells
      /\ starved => \A i \in 4 .. 8 : f[i] \in Halted /\ f[i].cells = start.cells
      /\ ~ starved =>
           \E now \in {start.cells, cells} :
             /\ \A i \in 4 .. 7 : ~ f[i].irq /\ f[i].cells = now
             /\ Ended(f[8], start, now)
             /\ 5 \notin slow => ~ f[8].busy
             /\ missed = {} /\ slow = {} => now = cells

LEMMA FrameSteps ==
  ASSUME NEW source, NEW start \in Ready, NEW missed, NEW slow,
         NEW command \in DriverSteps, command.op \in Commands
  PROVE  FrameDone(Through(source, start, Framed(command), missed, slow),
                   source, start, command, missed, slow)
<1> DEFINE f == Through(source, start, Framed(command), missed, slow)
           cells == CellsAfter(source, start, command)
           starved == command.op = "program" /\ Starved(source, start, command)
<1>1. /\ start \in DriverNodes /\ start.irq /\ start.mapped /\ start.stale = {} /\ ~ start.stopped
  BY DEF Ready
<1>2. NodeRun(f, source, start, Framed(command), missed, slow) /\ Len(Framed(command)) = 8
  BY <1>1, ThroughRuns, FrameIsSteps
<1> HIDE DEF f
<1>3. /\ f[0] = start
      /\ \A i \in 0 .. 8 : f[i] \in DriverNodes
      /\ \A i \in 1 .. 8 : f[i] = Turn(source, f[i - 1], Framed(command)[i], i, missed, slow)
  BY <1>2 DEF NodeRun
<1>4. /\ f[1] = Turn(source, f[0], Plain("disable_irq"), 1, missed, slow)
      /\ f[2] = Turn(source, f[1], Plain("unmap"), 2, missed, slow)
      /\ f[3] = Turn(source, f[2], Plain("wren"), 3, missed, slow)
      /\ f[4] = Turn(source, f[3], command, 4, missed, slow)
      /\ f[5] = Turn(source, f[4], Plain("delay"), 5, missed, slow)
      /\ f[6] = Turn(source, f[5], Plain("map"), 6, missed, slow)
      /\ f[7] = Turn(source, f[6], Plain("invalidate"), 7, missed, slow)
      /\ f[8] = Turn(source, f[7], Plain("enable_irq"), 8, missed, slow)
  BY <1>3 DEF Framed
<1> DEFINE Kept(n) == n.cells = start.cells /\ n.held = start.held /\ n.lost = start.lost
<1>5. ~ f[1].stopped /\ ~ f[1].irq /\ Kept(f[1])
  <2>1. PlainGoes(start, f[1], "disable_irq", 1, missed, slow)
    BY <1>1, <1>3, <1>4, PlainTurn DEF PlainOps
  <2> QED
    BY <2>1 DEF PlainGoes
<1>6. ~ f[2].stopped /\ ~ f[2].irq /\ ~ f[2].mapped /\ Kept(f[2])
  <2>1. PlainGoes(f[1], f[2], "unmap", 2, missed, slow)
    BY <1>3, <1>4, <1>5, PlainTurn DEF PlainOps
  <2> QED
    BY <1>5, <2>1 DEF PlainGoes
<1>7. /\ ~ f[3].stopped /\ ~ f[3].irq /\ ~ f[3].mapped /\ Kept(f[3])
      /\ missed = {} /\ slow = {} => f[3].wel
  <2>1. PlainGoes(f[2], f[3], "wren", 3, missed, slow)
    BY <1>3, <1>4, <1>6, PlainTurn DEF PlainOps
  <2> QED
    BY <1>6, <2>1 DEF PlainGoes
<1>8. /\ CellsAfter(source, f[3], command) = cells
      /\ Starved(source, f[3], command) <=> Starved(source, start, command)
  <2>1. CellsAfter(source, f[3], command) = cells
    BY <1>7, SameData
  <2>2. Starved(source, f[3], command) <=> Starved(source, start, command)
    BY <1>7 DEF Starved
  <2> QED
    BY <2>1, <2>2
<1>9. /\ ~ f[4].irq /\ f[4].held = start.held /\ f[4].lost = start.lost
      /\ f[4].stopped <=> starved
      /\ f[4].cells \in {start.cells, cells}
      /\ starved => f[4].cells = start.cells
      /\ missed = {} /\ slow = {} /\ ~ starved => f[4].cells = cells
  <2> DEFINE after == Turn(source, f[3], command, 4, missed, slow)
  <2>1. f[3] \in DriverNodes /\ f[4] = after
    BY <1>3, <1>4
  <2>2. /\ after.stopped <=> (command.op = "program" /\ Starved(source, f[3], command))
        /\ after.irq = f[3].irq /\ after.held = f[3].held /\ after.lost = f[3].lost
        /\ after.cells \in {f[3].cells, CellsAfter(source, f[3], command)}
        /\ command.op = "program" /\ Starved(source, f[3], command) => after.cells = f[3].cells
        /\ f[3].wel /\ 4 \notin missed /\ 4 \notin slow
             /\ ~ (command.op = "program" /\ Starved(source, f[3], command)) =>
             after.cells = CellsAfter(source, f[3], command)
    BY <1>7, <2>1, CommandTurn
  <2> HIDE DEF after, cells
  <2> QED
    BY <1>7, <1>8, <2>1, <2>2
<1> HIDE DEF cells, starved
<1>10. CASE starved
  <2>1. f[4] \in DriverNodes /\ f[4].stopped
    BY <1>3, <1>9, <1>10
  <2>2. f[5] = f[4] /\ f[6] = f[4] /\ f[7] = f[4] /\ f[8] = f[4]
    <3>1. \A op \in PlainOps, i \in 5 .. 8 : Turn(source, f[4], Plain(op), i, missed, slow) = f[4]
      BY <2>1, TurnIs, PlainIsStep
    <3>2. f[5] = f[4]
      BY <1>4, <3>1 DEF PlainOps
    <3>3. f[6] = f[4]
      BY <1>4, <3>1, <3>2 DEF PlainOps
    <3>4. f[7] = f[4]
      BY <1>4, <3>1, <3>3 DEF PlainOps
    <3>5. f[8] = f[4]
      BY <1>4, <3>1, <3>4 DEF PlainOps
    <3> QED
      BY <3>2, <3>3, <3>4, <3>5
  <2>3. f[4] \in Halted /\ f[4].cells = start.cells
    BY <1>9, <1>10, <2>1 DEF Halted
  <2>4. \A i \in 4 .. 8 : f[i] \in Halted /\ f[i].cells = start.cells
    <3>1. \A i \in 4 .. 8 : i \in {4, 5, 6, 7, 8}
      OBVIOUS
    <3> QED
      BY <2>2, <2>3, <3>1
  <2>5. \A i \in 1 .. 3 : ~ f[i].irq /\ f[i].cells = start.cells
    <3>1. \A i \in 1 .. 3 : i \in {1, 2, 3}
      OBVIOUS
    <3> QED
      BY <1>5, <1>6, <1>7, <3>1
  <2> QED
    BY <1>3, <1>10, <2>4, <2>5 DEF FrameDone, f, cells, starved
<1>11. CASE ~ starved
  <2> DEFINE now == f[4].cells
  <2>1. ~ f[4].stopped
    BY <1>9, <1>11
  <2> HIDE DEF now
  <2>2. /\ ~ f[5].stopped /\ ~ f[5].irq /\ f[5].cells = now
        /\ f[5].held = start.held /\ f[5].lost = start.lost
        /\ 5 \notin slow => ~ f[5].busy
    <3>1. PlainGoes(f[4], f[5], "delay", 5, missed, slow)
      BY <1>3, <1>4, <1>9, <2>1, PlainTurn DEF PlainOps
    <3> QED
      BY <1>9, <2>1, <3>1 DEF PlainGoes, now
  <2>3. /\ ~ f[6].stopped /\ ~ f[6].irq /\ f[6].cells = now /\ f[6].mapped
        /\ f[6].held = start.held /\ f[6].lost = start.lost
        /\ 5 \notin slow => ~ f[6].busy
    <3>1. PlainGoes(f[5], f[6], "map", 6, missed, slow)
      BY <1>3, <1>4, <2>2, PlainTurn DEF PlainOps
    <3> QED
      BY <2>2, <3>1 DEF PlainGoes
  <2>4. /\ ~ f[7].stopped /\ ~ f[7].irq /\ f[7].cells = now /\ f[7].mapped /\ f[7].stale = {}
        /\ f[7].held = {} /\ f[7].lost = start.lost \cup start.held
        /\ 5 \notin slow => ~ f[7].busy
    <3>1. PlainGoes(f[6], f[7], "invalidate", 7, missed, slow)
      BY <1>3, <1>4, <2>3, PlainTurn DEF PlainOps
    <3> QED
      BY <2>3, <3>1 DEF PlainGoes
  <2>5. /\ ~ f[8].stopped /\ f[8].irq /\ f[8].cells = now /\ f[8].mapped /\ f[8].stale = {}
        /\ f[8].held = {} /\ f[8].lost = start.lost \cup start.held
        /\ 5 \notin slow => ~ f[8].busy
    <3>1. PlainGoes(f[7], f[8], "enable_irq", 8, missed, slow)
      BY <1>3, <1>4, <2>4, PlainTurn DEF PlainOps
    <3> QED
      BY <2>4, <3>1 DEF PlainGoes
  <2>6. Ended(f[8], start, now)
    <3>1. f[8] \in DriverNodes
      BY <1>3
    <3> QED
      BY <2>5, <3>1 DEF Ready, Ended
  <2>7. \A i \in 4 .. 7 : ~ f[i].irq /\ f[i].cells = now
    <3>1. \A i \in 4 .. 7 : i \in {4, 5, 6, 7}
      OBVIOUS
    <3> QED
      BY <1>9, <2>2, <2>3, <2>4, <3>1 DEF now
  <2>8. \A i \in 1 .. 3 : ~ f[i].irq /\ f[i].cells = start.cells
    <3>1. \A i \in 1 .. 3 : i \in {1, 2, 3}
      OBVIOUS
    <3> QED
      BY <1>5, <1>6, <1>7, <3>1
  <2>9. now \in {start.cells, cells} /\ (missed = {} /\ slow = {} => now = cells)
    BY <1>9, <1>11 DEF now
  <2>10. 5 \notin slow => ~ f[8].busy
    BY <2>5
  <2> QED
    BY <1>3, <1>11, <2>6, <2>7, <2>8, <2>9, <2>10 DEF FrameDone, f, cells, starved
<1> QED
  BY <1>10, <1>11

LEMMA FrameIsSafe ==
  ASSUME NEW source, NEW command \in DriverSteps, command.op \in Commands, NEW allowed,
         \A node \in DriverNodes : \A a \in Addresses \ allowed :
           CellsAfter(source, node, command)[a] = node.cells[a]
  PROVE  Safe(source, Framed(command), allowed)
<1> DEFINE steps == Framed(command)
<1>1. steps \in Seq(DriverSteps) /\ Len(steps) = 8 /\ steps[5].op = "delay"
  BY FrameIsSteps, PlainIsStep DEF Framed, PlainOps
<1> HIDE DEF steps
<1>2. SUFFICES ASSUME NEW start \in Ready, NEW missed \in SUBSET Nat, NEW slow \in SUBSET Nat
               PROVE  LET f == Through(source, start, steps, missed, slow)
                      IN  /\ f[8] \in Ready \cup Halted
                          /\ \A i \in 0 .. 8 : Spares(f[i], start, allowed)
                          /\ Quiet(start) /\ DelaysSuffice(steps, slow) => \A i \in 0 .. 8 : Quiet(f[i])
  BY <1>1 DEF Safe, steps
<1> DEFINE f == Through(source, start, steps, missed, slow)
           cells == CellsAfter(source, start, command)
           starved == command.op = "program" /\ Starved(source, start, command)
<1>3. FrameDone(f, source, start, command, missed, slow)
  BY FrameSteps DEF steps
<1> HIDE DEF f
<1>4. start \in DriverNodes /\ start.irq /\ start.mapped /\ start.stale = {}
  BY DEF Ready
<1>5. \A a \in Addresses \ allowed : cells[a] = start.cells[a]
  BY <1>4
<1> HIDE DEF cells, starved
<1>6. /\ f[0] = start
      /\ \A i \in 1 .. 3 : ~ f[i].irq /\ f[i].cells = start.cells
      /\ starved => \A i \in 4 .. 8 : f[i] \in Halted /\ f[i].cells = start.cells
      /\ ~ starved =>
           \E now \in {start.cells, cells} :
             /\ \A i \in 4 .. 7 : ~ f[i].irq /\ f[i].cells = now
             /\ Ended(f[8], start, now)
             /\ 5 \notin slow => ~ f[8].busy
  BY <1>3 DEF FrameDone, cells, starved
<1>7. Spares(f[0], start, allowed) /\ (Quiet(start) => Quiet(f[0]))
  BY <1>4, <1>6 DEF Spares, Runnable
<1>8. \A i \in 1 .. 3 : Spares(f[i], start, allowed) /\ Quiet(f[i])
  BY <1>6 DEF Spares, Quiet
<1>9. DelaysSuffice(steps, slow) => 5 \notin slow
  <2>1. 5 \in DOMAIN steps
    BY <1>1
  <2> QED
    BY <1>1, <2>1 DEF DelaysSuffice
<1>10. /\ \A i \in 4 .. 8 : Spares(f[i], start, allowed)
       /\ f[8] \in Ready \cup Halted
       /\ 5 \notin slow => \A i \in 4 .. 8 : Quiet(f[i])
  <2>1. CASE starved
    <3>1. \A i \in 4 .. 8 : f[i] \in Halted /\ f[i].cells = start.cells
      BY <1>6, <2>1
    <3>2. \A i \in 4 .. 8 : Spares(f[i], start, allowed) /\ Quiet(f[i])
      BY <3>1 DEF Halted, Spares, Quiet
    <3> QED
      BY <3>1, <3>2
  <2>2. CASE ~ starved
    <3>1. PICK now \in {start.cells, cells} :
            /\ \A i \in 4 .. 7 : ~ f[i].irq /\ f[i].cells = now
            /\ Ended(f[8], start, now)
            /\ 5 \notin slow => ~ f[8].busy
      BY <1>6, <2>2
    <3>2. \A a \in Addresses \ allowed : now[a] = start.cells[a]
      BY <1>5, <3>1
    <3>3. \A i \in 4 .. 7 : Spares(f[i], start, allowed) /\ Quiet(f[i])
      BY <3>1, <3>2 DEF Spares, Quiet
    <3>4. f[8] \in Ready /\ Spares(f[8], start, allowed) /\ (5 \notin slow => Quiet(f[8]))
      BY <3>1, <3>2 DEF Ended, Ready, Spares, Runnable, Quiet
    <3>5. \A i \in 4 .. 8 : i \in 4 .. 7 \/ i = 8
      OBVIOUS
    <3> QED
      BY <3>3, <3>4, <3>5
  <2> QED
    BY <2>1, <2>2
<1>11. \A i \in 0 .. 8 : i = 0 \/ i \in 1 .. 3 \/ i \in 4 .. 8
  OBVIOUS
<1> QED
  BY <1>7, <1>8, <1>9, <1>10, <1>11 DEF f

LEMMA NoStepsAreSafe == ASSUME NEW source, NEW allowed PROVE Safe(source, <<>>, allowed)
<1> SUFFICES ASSUME NEW start \in Ready, NEW missed \in SUBSET Nat, NEW slow \in SUBSET Nat
             PROVE  LET f == Through(source, start, <<>>, missed, slow)
                    IN  /\ f[0] \in Ready \cup Halted
                        /\ \A i \in 0 .. 0 : Spares(f[i], start, allowed)
                        /\ Quiet(start) => \A i \in 0 .. 0 : Quiet(f[i])
  BY DEF Safe
<1>1. NodeRun(Through(source, start, <<>>, missed, slow), source, start, <<>>, missed, slow)
  <2>1. <<>> \in Seq(DriverSteps) /\ start \in DriverNodes
    BY DEF Ready
  <2> QED
    BY <2>1, ThroughRuns
<1>2. Through(source, start, <<>>, missed, slow)[0] = start
  BY <1>1 DEF NodeRun
<1>3. Spares(start, start, allowed)
  BY DEF Ready, Spares, Runnable
<1> QED
  BY <1>2, <1>3

\* A stopped node takes no step.
LEMMA StoppedStays ==
  ASSUME NEW source, NEW node \in Halted, NEW steps \in Seq(DriverSteps), NEW missed, NEW slow
  PROVE  \A i \in 0 .. Len(steps) : Through(source, node, steps, missed, slow)[i] = node
<1> DEFINE f == Through(source, node, steps, missed, slow)
           n == Len(steps)
           S == {i \in 0 .. n : f[i] = node}
<1>1. node \in DriverNodes /\ node.stopped /\ n \in Nat
  BY DEF Halted
<1>2. NodeRun(f, source, node, steps, missed, slow)
  BY <1>1, ThroughRuns
<1> HIDE DEF f
<1>3. 0 \in S
  BY <1>1, <1>2 DEF NodeRun
<1>4. \A i \in 0 .. n - 1 : i \in S => i + 1 \in S
  <2>1. SUFFICES ASSUME NEW i \in 0 .. n - 1, f[i] = node PROVE f[i + 1] = node
    OBVIOUS
  <2>2. i + 1 \in 1 .. n /\ (i + 1) - 1 = i
    BY <1>1
  <2>3. f[i + 1] = Turn(source, node, steps[i + 1], i + 1, missed, slow)
    BY <1>2, <2>1, <2>2 DEF NodeRun
  <2>4. steps[i + 1] \in DriverSteps
    BY <2>2
  <2> QED
    BY <1>1, <2>3, <2>4, TurnIs
<1> HIDE DEF S
<1>5. \A i \in 0 .. n : i \in S
  BY <1>1, <1>3, <1>4, SetInduction
<1> QED
  BY <1>5 DEF S, f

LEMMA SafeJoins ==
  ASSUME NEW source, NEW allowed, NEW a \in Seq(DriverSteps), NEW b \in Seq(DriverSteps),
         Safe(source, a, allowed), Safe(source, b, allowed)
  PROVE  Safe(source, a \o b, allowed)
<1> DEFINE m == Len(a)  n == Len(b)
<1>1. m \in Nat /\ n \in Nat /\ Len(a \o b) = m + n
  OBVIOUS
<1> SUFFICES ASSUME NEW start \in Ready, NEW missed \in SUBSET Nat, NEW slow \in SUBSET Nat
             PROVE  LET f == Through(source, start, a \o b, missed, slow)
                    IN  /\ f[m + n] \in Ready \cup Halted
                        /\ \A i \in 0 .. m + n : Spares(f[i], start, allowed)
                        /\ Quiet(start) /\ DelaysSuffice(a \o b, slow) => \A i \in 0 .. m + n : Quiet(f[i])
  BY <1>1 DEF Safe
<1> DEFINE missedLater == Later(missed, m)
           slowLater == Later(slow, m)
           f == Through(source, start, a, missed, slow)
           g == Through(source, f[m], b, missedLater, slowLater)
           h == Through(source, start, a \o b, missed, slow)
           Timely == DelaysSuffice(a \o b, slow)
<1>2. missedLater \in SUBSET Nat /\ slowLater \in SUBSET Nat
  BY DEF Later
<1>3. Timely => DelaysSuffice(a, slow) /\ DelaysSuffice(b, slowLater)
  <2>1. \A i \in DOMAIN a : i \in DOMAIN (a \o b) /\ (a \o b)[i] = a[i]
    BY <1>1
  <2>2. \A i \in DOMAIN b : m + i \in DOMAIN (a \o b) /\ (a \o b)[m + i] = b[i]
    BY <1>1
  <2>3. \A i \in slowLater : m + i \in slow
    BY DEF Later
  <2>4. Timely => DelaysSuffice(a, slow)
    BY <2>1 DEF DelaysSuffice
  <2>5. Timely => DelaysSuffice(b, slowLater)
    BY <2>2, <2>3 DEF DelaysSuffice
  <2> QED
    BY <2>4, <2>5
<1> HIDE DEF Timely
<1>4. /\ f[m] \in Ready \cup Halted
      /\ \A i \in 0 .. m : Spares(f[i], start, allowed)
      /\ Quiet(start) /\ Timely => \A i \in 0 .. m : Quiet(f[i])
  BY <1>3 DEF Safe
<1>5. /\ \A i \in 0 .. m : h[i] = f[i]
      /\ \A i \in 0 .. n : h[m + i] = g[i]
  <2>1. start \in DriverNodes
    BY DEF Ready
  <2>2. RunJoins(source, start, a, b, missed, slow)
    BY <2>1, ThroughJoins
  <2> QED
    BY <2>2 DEF RunJoins
<1> HIDE DEF f, missedLater, slowLater
<1>6. /\ g[n] \in Ready \cup Halted
      /\ \A i \in 0 .. n : Spares(g[i], f[m], allowed)
      /\ Quiet(f[m]) /\ Timely => \A i \in 0 .. n : Quiet(g[i])
  <2>1. CASE f[m] \in Ready
    BY <1>2, <1>3, <2>1 DEF Safe
  <2>2. CASE f[m] \in Halted
    <3>1. \A i \in 0 .. n : g[i] = f[m]
      BY <2>2, StoppedStays
    <3>2. Spares(f[m], f[m], allowed)
      BY <2>2 DEF Halted, Spares
    <3> QED
      BY <1>1, <2>2, <3>1, <3>2
  <2> QED
    BY <1>4, <2>1, <2>2
<1> HIDE DEF g, h, m, n
<1>7. Spares(f[m], start, allowed) /\ (Quiet(start) /\ Timely => Quiet(f[m]))
  BY <1>1, <1>4
<1>8. \A i \in 0 .. n : Spares(g[i], start, allowed)
  BY <1>6, <1>7 DEF Spares
<1>9. h[m + n] \in Ready \cup Halted
  BY <1>1, <1>5, <1>6
<1>10. ASSUME NEW i \in 0 .. m + n
       PROVE  Spares(h[i], start, allowed) /\ (Quiet(start) /\ Timely => Quiet(h[i]))
  <2>1. CASE i <= m
    <3>1. i \in 0 .. m
      BY <1>1, <2>1
    <3> QED
      BY <1>4, <1>5, <3>1
  <2>2. CASE i > m
    <3>1. i - m \in 0 .. n /\ m + (i - m) = i
      BY <1>1, <2>2
    <3> QED
      BY <1>5, <1>6, <1>7, <1>8, <3>1
  <2> QED
    BY <1>1, <2>1, <2>2
<1> QED
  BY <1>9, <1>10 DEF h, Timely, m, n

\* Loops that the driver's functions and readers of them follow from any place
\* up to a bound n: what holds beyond the bound, and of a place when it does of
\* all that are further, holds everywhere.
LEMMA DownwardInduction ==
  ASSUME NEW S, NEW n \in Nat,
         \A c \in Nat : c >= n => c \in S,
         \A k \in 0 .. n - 1 : (\A c \in Nat : c > k => c \in S) => k \in S
  PROVE  \A c \in Nat : c \in S
<1> DEFINE T == {k \in 0 .. n : \A c \in Nat : c >= n - k => c \in S}
<1>1. 0 \in T
  OBVIOUS
<1>2. \A k \in 0 .. n - 1 : k \in T => k + 1 \in T
  <2>1. SUFFICES ASSUME NEW k \in 0 .. n - 1, \A c \in Nat : c >= n - k => c \in S,
                        NEW c \in Nat, c >= n - (k + 1)
                 PROVE  c \in S
    OBVIOUS
  <2>2. CASE c >= n - k
    BY <2>1, <2>2
  <2>3. CASE c < n - k
    <3>1. c = n - (k + 1) /\ c \in 0 .. n - 1
      BY <2>1, <2>3
    <3>2. \A d \in Nat : d > c => d \in S
      BY <2>1, <3>1
    <3> QED
      BY <3>1, <3>2
  <2> QED
    BY <2>2, <2>3
<1> HIDE DEF T
<1>3. \A k \in 0 .. n : k \in T
  BY <1>1, <1>2, SetInduction
<1> QED
  BY <1>3 DEF T

\* From c such a loop goes on at skip[c], and its turn at c makes G[<<x, c>>] of
\* what follows, x.
Skips(n) == {skip \in [0 .. n - 1 -> Nat] : \A c \in 0 .. n - 1 : skip[c] > c}
FoldTurns(X, n) == [X \X (0 .. n - 1) -> X]
Downward(f, X, x0, n, G, skip) ==
  /\ f \in [Nat -> X]
  /\ \A c \in Nat : f[c] = IF c >= n THEN x0 ELSE G[<<f[skip[c]], c>>]

LEMMA DownwardExists ==
  ASSUME NEW X, NEW x0 \in X, NEW n \in Nat, NEW G \in FoldTurns(X, n), NEW skip \in Skips(n)
  PROVE  \E f : Downward(f, X, x0, n, G, skip)
<1> DEFINE From(f, k) == \A c \in Nat : c >= k => f[c] = IF c >= n THEN x0 ELSE G[<<f[skip[c]], c>>]
           T == {k \in 0 .. n : \E f \in [Nat -> X] : From(f, n - k)}
<1>1. 0 \in T
  <2> DEFINE f == [c \in Nat |-> x0]
  <2>1. f \in [Nat -> X] /\ From(f, n - 0)
    OBVIOUS
  <2> HIDE DEF f, From
  <2> QED
    BY <2>1
<1>2. \A k \in 0 .. n - 1 : k \in T => k + 1 \in T
  <2>1. SUFFICES ASSUME NEW k \in 0 .. n - 1, NEW f \in [Nat -> X], From(f, n - k)
                 PROVE  \E g \in [Nat -> X] : From(g, n - (k + 1))
    <3>1. \A k \in 0 .. n - 1 : k \in 0 .. n /\ k + 1 \in 0 .. n
      OBVIOUS
    <3> HIDE DEF From
    <3> QED
      BY <3>1
  <2> DEFINE m == n - (k + 1)
             y == G[<<f[skip[m]], m>>]
             g == [f EXCEPT ![m] = y]
  <2>2. m \in 0 .. n - 1 /\ m \in Nat /\ skip[m] \in Nat /\ skip[m] > m
    BY DEF Skips
  <2>3. y \in X
    BY <2>2 DEF FoldTurns
  <2>4. g \in [Nat -> X]
    BY <2>2, <2>3
  <2>5. g[m] = y /\ \A c \in Nat : c # m => g[c] = f[c]
    BY <2>2
  <2> HIDE DEF g, y
  <2>6. ASSUME NEW c \in Nat, c >= m PROVE g[c] = IF c >= n THEN x0 ELSE G[<<g[skip[c]], c>>]
    <3>1. CASE c = m
      <4>1. g[skip[m]] = f[skip[m]] /\ ~ (m >= n)
        BY <2>2, <2>5
      <4> QED
        BY <2>5, <3>1, <4>1 DEF y
    <3>2. CASE c # m
      <4>1. c >= n - k
        BY <2>6, <3>2
      <4>2. g[c] = IF c >= n THEN x0 ELSE G[<<f[skip[c]], c>>]
        BY <2>1, <2>5, <3>2, <4>1
      <4>3. CASE c >= n
        BY <4>2, <4>3
      <4>4. CASE c < n
        <5>1. c \in 0 .. n - 1 /\ skip[c] \in Nat /\ skip[c] > c
          BY <4>4 DEF Skips
        <5>2. skip[c] # m
          BY <2>2, <2>6, <5>1
        <5>3. g[skip[c]] = f[skip[c]]
          BY <2>5, <5>1, <5>2
        <5> QED
          BY <4>2, <4>4, <5>3
      <4> QED
        BY <4>3, <4>4
    <3> QED
      BY <3>1, <3>2
  <2> QED
    BY <2>4, <2>6
<1> HIDE DEF T
<1>3. n \in T
  BY <1>1, <1>2, SetInduction
<1>4. PICK f \in [Nat -> X] : From(f, n - n)
  BY <1>3 DEF T
<1>5. \A c \in Nat : c >= n - n
  OBVIOUS
<1> QED
  BY <1>4, <1>5 DEF Downward

\* The loop of erase, unfolded.
EraseLoop(f, end) ==
  \A c \in Nat : f[c] = IF c >= end THEN <<>>
                        ELSE Bracketed(ram_xspi_erase_4k(c)) \o f[c + get_sector_size]

LEMMA EraseCommand ==
  ASSUME NEW c \in Nat
  PROVE  /\ Step("erase", c, 0, 0) \in DriverSteps
         /\ Bracketed(ram_xspi_erase_4k(c)) = Framed(Step("erase", c, 0, 0))
         /\ Framed(Step("erase", c, 0, 0)) \in Seq(DriverSteps)
<1>1. Step("erase", c, 0, 0) \in DriverSteps
  BY DEF Step, DriverSteps, Commands
<1>2. Bracketed(ram_xspi_erase_4k(c)) = Framed(Step("erase", c, 0, 0))
  BY <1>1, BracketIs DEF ram_xspi_erase_4k
<1> QED
  BY <1>1, <1>2, FrameIsSteps

LEMMA EraseUnfolds ==
  ASSUME NEW addr \in Nat, NEW size \in Nat
  PROVE  \E f : EraseLoop(f, (addr + size) % WordSize) /\ EraseSteps(addr, size) = f[addr]
<1> DEFINE end == (addr + size) % WordSize
           X == Seq(DriverSteps)
           skip == [c \in 0 .. end - 1 |-> c + get_sector_size]
           G == [p \in X \X (0 .. end - 1) |-> Bracketed(ram_xspi_erase_4k(p[2])) \o p[1]]
           Body(f) == [cur \in Nat |-> IF cur >= end THEN <<>>
                         ELSE Bracketed(ram_xspi_erase_4k(cur)) \o f[cur + get_sector_size]]
           from == CHOOSE f : f = Body(f)
<1>1. EraseSteps(addr, size) = from[addr]
  BY DEF EraseSteps
<1>2. end \in Nat
  BY DEF WordSize
<1> HIDE DEF end
<1>3. skip \in Skips(end) /\ \A c \in 0 .. end - 1 : skip[c] = c + get_sector_size
  BY <1>2 DEF Skips, get_sector_size
<1>4. ASSUME NEW x \in X, NEW c \in 0 .. end - 1
      PROVE  G[<<x, c>>] = Bracketed(ram_xspi_erase_4k(c)) \o x /\ G[<<x, c>>] \in X
  <2>1. c \in Nat
    BY <1>2
  <2>2. Bracketed(ram_xspi_erase_4k(c)) \in X
    BY <2>1, EraseCommand
  <2>3. Bracketed(ram_xspi_erase_4k(c)) \o x \in X
    <3> DEFINE b == Bracketed(ram_xspi_erase_4k(c))
    <3> HIDE DEF b
    <3>1. ASSUME b \in X PROVE b \o x \in X
      BY <3>1
    <3> QED
      BY <2>2, <3>1 DEF b
  <2>4. G[<<x, c>>] = Bracketed(ram_xspi_erase_4k(c)) \o x
    <3> HIDE DEF X
    <3> QED
      OBVIOUS
  <2> QED
    BY <2>3, <2>4
<1>5. G \in FoldTurns(X, end)
  BY <1>4 DEF FoldTurns
<1>6. <<>> \in X
  OBVIOUS
<1> HIDE DEF G, skip, X
<1>7. PICK f : Downward(f, X, <<>>, end, G, skip)
  BY <1>2, <1>3, <1>5, <1>6, DownwardExists
<1>8. \A c \in Nat : f[c] = IF c >= end THEN <<>> ELSE Bracketed(ram_xspi_erase_4k(c)) \o f[c + get_sector_size]
  <2>1. TAKE c \in Nat
  <2>2. CASE c >= end
    BY <1>7, <2>2 DEF Downward
  <2>3. CASE c < end
    <3>1. c \in 0 .. end - 1 /\ ~ (c >= end) /\ c + get_sector_size \in Nat
      BY <1>2, <2>3 DEF get_sector_size
    <3>2. skip[c] = c + get_sector_size
      BY <1>3, <3>1
    <3>3. f[c + get_sector_size] \in X /\ f[c] = G[<<f[c + get_sector_size], c>>]
      BY <1>7, <3>1, <3>2 DEF Downward
    <3> QED
      BY <1>4, <3>1, <3>3
  <2> QED
    BY <1>2, <2>2, <2>3
<1>9. f = Body(f)
  BY <1>7, <1>8 DEF Downward
<1>10. from = Body(from)
  BY <1>9
<1> HIDE DEF from
<1>11. EraseLoop(from, end)
  BY <1>10 DEF EraseLoop
<1> QED
  BY <1>1, <1>11 DEF end

\* An erase command leaves the bytes of the other sectors.
LEMMA EraseIsSafe ==
  ASSUME NEW source, NEW c \in Nat, NEW allowed, ErasedWith(c) \subseteq allowed
  PROVE  Safe(source, Framed(Step("erase", c, 0, 0)), allowed)
<1> DEFINE command == Step("erase", c, 0, 0)
<1>1. command \in DriverSteps /\ command.op = "erase" /\ command.op \in Commands /\ command.at = c
  BY DEF Step, DriverSteps, Commands
<1> HIDE DEF command
<1>2. \A node \in DriverNodes : \A a \in Addresses \ allowed :
        CellsAfter(source, node, command)[a] = node.cells[a]
  BY <1>1 DEF CellsAfter, ErasedCells
<1> QED
  BY <1>1, <1>2, FrameIsSafe DEF command

\* Whatever range of bytes is erased, the running program's code is mapped and
\* fresh whenever interrupts are on, and no byte changes outside the sectors of
\* the range, whichever commands the chip misses and however slow it is; and if
\* it is never slower than the delays, it is not busy either when an interrupt
\* may run (erase and ram_xspi_erase_4k of Stm32ExtMemFlash.cpp; the TLC run
\* looks at nine ranges and one command missed).
THEOREM EraseKeepsRunning ==
  \A source \in Sources, addr \in Nat, size \in Nat :
    addr + size < WordSize =>
      /\ EraseSteps(addr, size) \in Seq(DriverSteps)
      /\ Safe(source, EraseSteps(addr, size), UNION {ErasedWith(a) : a \in addr .. addr + size - 1})
<1> SUFFICES ASSUME NEW source \in Sources, NEW addr \in Nat, NEW size \in Nat, addr + size < WordSize
             PROVE  /\ EraseSteps(addr, size) \in Seq(DriverSteps)
                    /\ Safe(source, EraseSteps(addr, size), UNION {ErasedWith(a) : a \in addr .. addr + size - 1})
  OBVIOUS
<1> DEFINE allowed == UNION {ErasedWith(a) : a \in addr .. addr + size - 1}
           end == addr + size
<1>1. end \in Nat /\ (addr + size) % WordSize = end
  BY DEF WordSize
<1>2. PICK f : EraseLoop(f, end) /\ EraseSteps(addr, size) = f[addr]
  BY <1>1, EraseUnfolds
<1> DEFINE S == {c \in Nat : c >= addr => f[c] \in Seq(DriverSteps) /\ Safe(source, f[c], allowed)}
<1>3. \A c \in Nat : c >= end => c \in S
  <2>1. TAKE c \in Nat
  <2>2. HAVE c >= end
  <2>3. f[c] = <<>>
    BY <1>2, <2>2 DEF EraseLoop
  <2>4. <<>> \in Seq(DriverSteps) /\ Safe(source, <<>>, allowed)
    <3> HIDE DEF allowed
    <3> QED
      BY NoStepsAreSafe
  <2> HIDE DEF allowed
  <2> QED
    BY <2>3, <2>4
<1>4. \A k \in 0 .. end - 1 : (\A c \in Nat : c > k => c \in S) => k \in S
  <2>1. SUFFICES ASSUME NEW k \in 0 .. end - 1, \A c \in Nat : c > k => c \in S, k >= addr
                 PROVE  f[k] \in Seq(DriverSteps) /\ Safe(source, f[k], allowed)
    <3>1. 0 .. end - 1 \subseteq Nat
      OBVIOUS
    <3> HIDE DEF allowed
    <3> QED
      BY <3>1
  <2> DEFINE next == k + get_sector_size
             command == Framed(Step("erase", k, 0, 0))
  <2>2. k \in Nat /\ ~ (k >= end) /\ next \in Nat /\ next > k /\ next >= addr
    BY <1>1, <2>1 DEF get_sector_size
  <2>3. f[next] \in Seq(DriverSteps) /\ Safe(source, f[next], allowed)
    <3> HIDE DEF allowed, next
    <3> QED
      BY <2>1, <2>2
  <2>4. command \in Seq(DriverSteps) /\ f[k] = command \o f[next]
    BY <1>2, <2>2, EraseCommand DEF EraseLoop
  <2>5. ErasedWith(k) \subseteq allowed
    <3>1. k \in addr .. addr + size - 1
      BY <2>1
    <3> QED
      BY <3>1
  <2>6. Safe(source, command, allowed)
    <3> HIDE DEF allowed
    <3> QED
      BY <2>2, <2>5, EraseIsSafe
  <2> HIDE DEF allowed, command, next
  <2> QED
    BY <2>3, <2>4, <2>6, SafeJoins
<1> HIDE DEF S, end
<1>5. \A c \in Nat : c \in S
  BY <1>1, <1>3, <1>4, DownwardInduction
<1>6. addr \in S /\ addr >= addr
  BY <1>5
<1> HIDE DEF allowed
<1>7. f[addr] \in Seq(DriverSteps) /\ Safe(source, f[addr], allowed)
  BY <1>6 DEF S
<1> QED
  BY <1>2, <1>7 DEF allowed

\* The loop of write, unfolded: what it still does after done bytes.
ChunkAt(addr, size, done) == PageChunk(addr + done, size - done)
PageStep(addr, size, done) == Step("program", addr + done, done, ChunkAt(addr, size, done))
WriteLoop(f, addr, size) ==
  \A c \in Nat : f[c] = IF c >= size THEN <<>>
                        ELSE Framed(PageStep(addr, size, c)) \o f[c + ChunkAt(addr, size, c)]

\* A chunk stays in its page, so that its bytes go to successive cells.
LEMMA ChunkStaysInPage ==
  ASSUME NEW addr \in Nat, NEW size \in Nat, NEW c \in 0 .. size - 1
  PROVE  /\ ChunkAt(addr, size, c) \in 1 .. size - c
         /\ \A j \in 1 .. ChunkAt(addr, size, c) : ProgramCell(addr + c, j) = addr + c + j - 1
<1> DEFINE cur == addr + c
           remaining == size - c
           left == get_page_size - (cur % get_page_size)
<1>1. cur \in Nat /\ remaining \in Nat /\ remaining >= 1
  OBVIOUS
<1> HIDE DEF cur, remaining
<1>2. left \in 1 .. 4 /\ left = 4 - (cur % 4)
  BY <1>1 DEF get_page_size
<1> HIDE DEF left
<1>3. ChunkAt(addr, size, c) = IF left > remaining THEN remaining ELSE left
  BY DEF ChunkAt, PageChunk, left, cur, remaining
<1> DEFINE chunk == ChunkAt(addr, size, c)
<1> HIDE DEF chunk
<1>4. chunk \in 1 .. remaining /\ chunk <= left
  BY <1>1, <1>2, <1>3 DEF chunk
<1>5. \A j \in 1 .. chunk : (cur + j - 1) % 4 = (cur % 4) + j - 1
  BY <1>1, <1>2, <1>4
<1>6. \A j \in 1 .. chunk : ProgramCell(cur, j) = cur + j - 1
  BY <1>1, <1>4, <1>5 DEF ProgramCell, get_page_size
<1> QED
  BY <1>4, <1>6 DEF chunk, cur, remaining

LEMMA PageStepIs ==
  ASSUME NEW addr \in Nat, NEW size \in Nat, NEW c \in 0 .. size - 1
  PROVE  LET chunk == ChunkAt(addr, size, c)
             step == PageStep(addr, size, c)
         IN  /\ step \in DriverSteps /\ step.op = "program"
             /\ step.at = addr + c /\ step.first = c /\ step.count = chunk
             /\ Framed(step) \in Seq(DriverSteps)
             /\ Bracketed(ram_xspi_program_page(addr + c, c, chunk)) = Framed(step)
<1> DEFINE chunk == ChunkAt(addr, size, c)
           step == PageStep(addr, size, c)
<1>1. chunk \in 1 .. size - c
  BY ChunkStaysInPage
<1>2. step = Step("program", addr + c, c, chunk)
  BY DEF PageStep
<1> HIDE DEF chunk, step
<1>3. /\ step \in DriverSteps /\ step.op = "program"
      /\ step.at = addr + c /\ step.first = c /\ step.count = chunk
  BY <1>1, <1>2 DEF Step, DriverSteps, Commands
<1>4. Bracketed(ram_xspi_program_page(addr + c, c, chunk)) = Framed(step)
  BY <1>2, <1>3, BracketIs DEF ram_xspi_program_page
<1>5. Framed(step) \in Seq(DriverSteps)
  BY <1>3, FrameIsSteps
<1> QED
  BY <1>3, <1>4, <1>5 DEF chunk, step

LEMMA WriteUnfolds ==
  ASSUME NEW addr \in Nat, NEW size \in Nat
  PROVE  \E f : WriteLoop(f, addr, size) /\ WriteSteps(addr, size) = f[0]
<1> DEFINE end == size
           X == Seq(DriverSteps)
           skip == [c \in 0 .. end - 1 |-> c + ChunkAt(addr, size, c)]
           G == [p \in X \X (0 .. end - 1) |-> Framed(PageStep(addr, size, p[2])) \o p[1]]
           Body(f) == [c \in Nat |->
                         IF c >= size THEN <<>>
                         ELSE LET chunk == PageChunk(addr + c, size - c)
                              IN  Bracketed(ram_xspi_program_page(addr + c, c, chunk))
                                    \o f[c + chunk]]
           from == CHOOSE f : f = Body(f)
<1>1. WriteSteps(addr, size) = from[0]
  BY DEF WriteSteps
<1>2. end \in Nat
  OBVIOUS
<1>3. skip \in Skips(end) /\ \A c \in 0 .. end - 1 : skip[c] = c + ChunkAt(addr, size, c)
  <2>1. \A c \in 0 .. end - 1 : ChunkAt(addr, size, c) \in 1 .. size - c
    BY ChunkStaysInPage
  <2> QED
    BY <2>1, SMTT(40) DEF Skips
<1>4. ASSUME NEW x \in X, NEW c \in 0 .. end - 1
      PROVE  G[<<x, c>>] = Framed(PageStep(addr, size, c)) \o x /\ G[<<x, c>>] \in X
  <2>1. Framed(PageStep(addr, size, c)) \in X
    BY PageStepIs
  <2>2. Framed(PageStep(addr, size, c)) \o x \in X
    <3> DEFINE b == Framed(PageStep(addr, size, c))
    <3> HIDE DEF b
    <3>1. ASSUME b \in X PROVE b \o x \in X
      BY <3>1
    <3> QED
      BY <2>1, <3>1 DEF b
  <2>3. G[<<x, c>>] = Framed(PageStep(addr, size, c)) \o x
    <3> HIDE DEF X, end
    <3> QED
      OBVIOUS
  <2> QED
    BY <2>2, <2>3
<1>5. G \in FoldTurns(X, end)
  BY <1>4 DEF FoldTurns
<1>6. <<>> \in X
  OBVIOUS
<1> HIDE DEF G, skip, X
<1>7. PICK f : Downward(f, X, <<>>, end, G, skip)
  BY <1>2, <1>3, <1>5, <1>6, DownwardExists
<1> DEFINE Turned(c, g) == IF c >= end THEN <<>>
                           ELSE Framed(PageStep(addr, size, c)) \o g[c + ChunkAt(addr, size, c)]
<1>8. \A c \in Nat : f[c] = Turned(c, f)
  <2>1. TAKE c \in Nat
  <2>2. CASE c >= end
    BY <1>7, <2>2 DEF Downward
  <2>3. CASE c < end
    <3>1. c \in 0 .. end - 1 /\ ~ (c >= end)
      BY <1>2, <2>3
    <3>2. skip[c] = c + ChunkAt(addr, size, c) /\ skip[c] \in Nat
      BY <1>3, <3>1 DEF Skips
    <3>3. f[skip[c]] \in X /\ f[c] = G[<<f[skip[c]], c>>]
      BY <1>7, <3>1, <3>2 DEF Downward
    <3> QED
      BY <1>4, <3>1, <3>2, <3>3
  <2> QED
    BY <1>2, <2>2, <2>3
<1>9. \A g : \A c \in Nat : Body(g)[c] = Turned(c, g)
  <2>1. ASSUME NEW g, NEW c \in Nat PROVE Body(g)[c] = Turned(c, g)
    <3>1. CASE c >= end
      BY <3>1
    <3>2. CASE c < end
      <4>1. c \in 0 .. end - 1 /\ ~ (c >= end)
        BY <1>2, <3>2
      <4>2. Bracketed(ram_xspi_program_page(addr + c, c, ChunkAt(addr, size, c))) = Framed(PageStep(addr, size, c))
        BY <4>1, PageStepIs
      <4> QED
        BY <4>1, <4>2 DEF ChunkAt
    <3> QED
      BY <1>2, <3>1, <3>2
  <2> QED
    BY <2>1
<1>10. f = Body(f)
  <2>1. \A c \in Nat : f[c] = Body(f)[c]
    BY <1>8, <1>9
  <2>2. f = [c \in Nat |-> f[c]]
    BY <1>7 DEF Downward
  <2>3. Body(f) = [c \in Nat |-> Body(f)[c]]
    OBVIOUS
  <2> HIDE DEF Body
  <2> QED
    BY <2>1, <2>2, <2>3
<1>11. from = Body(from)
  BY <1>10
<1> HIDE DEF from
<1>12. \A c \in Nat : from[c] = Turned(c, from)
  <2> HIDE DEF Body, Turned
  <2> QED
    BY <1>9, <1>11
<1>13. WriteLoop(from, addr, size)
  BY <1>12 DEF WriteLoop
<1> QED
  BY <1>1, <1>13

\* Whatever is written wherever and from wherever, the running program's code is
\* mapped and fresh whenever interrupts are on, and no byte changes outside the
\* range, whichever commands the chip misses and however slow it is, and a node
\* that faults on its data included; and if the chip is never slower than the
\* delays, it is not busy either when an interrupt may run: no chunk leaves its
\* page (write and ram_xspi_program_page of Stm32ExtMemFlash.cpp).
THEOREM WriteKeepsRunning ==
  \A source \in Sources, addr \in Nat, size \in Nat :
    /\ WriteSteps(addr, size) \in Seq(DriverSteps)
    /\ Safe(source, WriteSteps(addr, size), addr .. addr + size - 1)
<1> SUFFICES ASSUME NEW source \in Sources, NEW addr \in Nat, NEW size \in Nat
             PROVE  /\ WriteSteps(addr, size) \in Seq(DriverSteps)
                    /\ Safe(source, WriteSteps(addr, size), addr .. addr + size - 1)
  OBVIOUS
<1> DEFINE allowed == addr .. addr + size - 1
           end == size
<1>1. end \in Nat
  OBVIOUS
<1>2. PICK f : WriteLoop(f, addr, size) /\ WriteSteps(addr, size) = f[0]
  BY WriteUnfolds
<1> DEFINE S == {c \in Nat : f[c] \in Seq(DriverSteps) /\ Safe(source, f[c], allowed)}
<1>3. \A c \in Nat : c >= end => c \in S
  <2>1. TAKE c \in Nat
  <2>2. HAVE c >= end
  <2>3. f[c] = <<>>
    BY <1>2, <2>2 DEF WriteLoop
  <2>4. <<>> \in Seq(DriverSteps) /\ Safe(source, <<>>, allowed)
    <3> HIDE DEF allowed
    <3> QED
      BY NoStepsAreSafe
  <2> HIDE DEF allowed
  <2> QED
    BY <2>3, <2>4
<1>4. \A k \in 0 .. end - 1 : (\A c \in Nat : c > k => c \in S) => k \in S
  <2>1. SUFFICES ASSUME NEW k \in 0 .. end - 1, \A c \in Nat : c > k => c \in S
                 PROVE  f[k] \in Seq(DriverSteps) /\ Safe(source, f[k], allowed)
    <3>1. 0 .. end - 1 \subseteq Nat
      BY <1>1
    <3> HIDE DEF allowed, end
    <3> QED
      BY <3>1
  <2> DEFINE chunk == ChunkAt(addr, size, k)
             next == k + chunk
             step == PageStep(addr, size, k)
             command == Framed(step)
  <2>2. /\ chunk \in 1 .. size - k
        /\ \A j \in 1 .. chunk : ProgramCell(addr + k, j) = addr + k + j - 1
    BY ChunkStaysInPage
  <2>3. k \in Nat /\ ~ (k >= end) /\ next \in Nat /\ next > k
    <3> HIDE DEF chunk
    <3> QED
      BY <1>1, <2>1, <2>2
  <2>4. f[next] \in Seq(DriverSteps) /\ Safe(source, f[next], allowed)
    <3> HIDE DEF allowed, next
    <3> QED
      BY <2>1, <2>3
  <2>5. command \in Seq(DriverSteps) /\ f[k] = command \o f[next]
    BY <1>2, <2>3, PageStepIs DEF WriteLoop
  <2>6. /\ step \in DriverSteps /\ step.op = "program" /\ step.op \in Commands
        /\ step.at = addr + k /\ step.count = chunk
    BY PageStepIs DEF Commands
  <2> HIDE DEF step, chunk
  <2>7. \A j \in 1 .. chunk : ProgramCell(step.at, j) \in allowed
    BY <2>2, <2>6
  <2> HIDE DEF allowed
  <2>8. ASSUME NEW node \in DriverNodes, NEW a \in Addresses \ allowed
        PROVE  CellsAfter(source, node, step)[a] = node.cells[a]
    <3> DEFINE data == DataOf(source, node, step)
    <3>1. DOMAIN data = 1 .. chunk
      BY <2>6 DEF DataOf
    <3> HIDE DEF data
    <3>2. \A j \in DOMAIN data : ProgramCell(step.at, j) # a
      BY <2>7, <3>1
    <3>3. CellsAfter(source, node, step)[a] =
            node.cells[a] \cap {b \in AllOnes : \A j \in DOMAIN data :
                                   ProgramCell(step.at, j) = a => b \in data[j]}
      BY <2>6 DEF CellsAfter, ProgrammedCells, data
    <3>4. node.cells[a] \subseteq AllOnes
      BY DEF DriverNodes, Cells
    <3> QED
      BY <3>2, <3>3, <3>4
  <2>9. Safe(source, command, allowed)
    BY <2>6, <2>8, FrameIsSafe
  <2> HIDE DEF command, next
  <2> QED
    BY <2>4, <2>5, <2>9, SafeJoins
<1> HIDE DEF S, end
<1>5. \A c \in Nat : c \in S
  BY <1>1, <1>3, <1>4, DownwardInduction
<1>6. 0 \in S
  BY <1>5
<1> HIDE DEF allowed
<1>7. f[0] \in Seq(DriverSteps) /\ Safe(source, f[0], allowed)
  BY <1>6 DEF S
<1> QED
  BY <1>2, <1>7 DEF allowed

\* What the driver's functions come to when the chip misses nothing and is done by
\* the next step.
LEMMA Eights ==
  ASSUME NEW a \in Nat
  PROVE  /\ a \div 8 \in Nat
         /\ a % 8 \in 0 .. 7
         /\ a = 8 * (a \div 8) + (a % 8)
<1>1. a \div 8 \in Nat
  OBVIOUS
<1>2. a % 8 \in 0 .. 7
  OBVIOUS
<1>3. a = 8 * (a \div 8) + (a % 8)
  OBVIOUS
<1> QED
  BY <1>1, <1>2, <1>3

LEMMA FinalJoins ==
  ASSUME NEW source, NEW start \in DriverNodes, NEW a \in Seq(DriverSteps), NEW b \in Seq(DriverSteps)
  PROVE  Final(source, start, a \o b) = Final(source, Final(source, start, a), b)
<1> DEFINE m == Len(a)  n == Len(b)
<1>1. m \in Nat /\ n \in Nat /\ Len(a \o b) = m + n /\ n \in 0 .. n
  OBVIOUS
<1>2. Later({}, m) = {}
  BY DEF Later
<1>3. RunJoins(source, start, a, b, {}, {})
  BY ThroughJoins
<1>4. Through(source, start, a \o b, {}, {})[m + n] =
        Through(source, Through(source, start, a, {}, {})[m], b, Later({}, m), Later({}, m))[n]
  BY <1>1, <1>3 DEF RunJoins
<1> QED
  BY <1>1, <1>2, <1>4 DEF Final

\* A command in its bracket: it is followed, or the node stops.
FrameEnds(final, source, start, command) ==
  IF command.op = "program" /\ Starved(source, start, command) THEN final \in Halted
  ELSE Ended(final, start, CellsAfter(source, start, command))

LEMMA FrameDoes ==
  ASSUME NEW source, NEW start \in Ready, NEW command \in DriverSteps, command.op \in Commands
  PROVE  FrameEnds(Final(source, start, Framed(command)), source, start, command)
<1> DEFINE f == Through(source, start, Framed(command), {}, {})
           starved == command.op = "program" /\ Starved(source, start, command)
<1>1. FrameDone(f, source, start, command, {}, {})
  BY FrameSteps
<1>2. Final(source, start, Framed(command)) = f[8]
  BY FrameIsSteps DEF Final
<1> HIDE DEF f
<1>3. CASE starved
  BY <1>1, <1>2, <1>3 DEF FrameDone, FrameEnds
<1>4. CASE ~ starved
  BY <1>1, <1>2, <1>4 DEF FrameDone, FrameEnds
<1> QED
  BY <1>3, <1>4

LEMMA NoStepsDo == ASSUME NEW source, NEW start \in DriverNodes PROVE Final(source, start, <<>>) = start
<1>1. <<>> \in Seq(DriverSteps)
  OBVIOUS
<1>2. NodeRun(Through(source, start, <<>>, {}, {}), source, start, <<>>, {}, {})
  BY <1>1, ThroughRuns
<1> QED
  BY <1>2 DEF NodeRun, Final

LEMMA StoppedEnds ==
  ASSUME NEW source, NEW start \in Halted, NEW steps \in Seq(DriverSteps)
  PROVE  Final(source, start, steps) = start
<1>1. Len(steps) \in 0 .. Len(steps)
  OBVIOUS
<1> QED
  BY <1>1, StoppedStays DEF Final

\* An erase from the start of a sector leaves erased every sector that a byte of
\* the range is in, and the others alone, whatever the range: the code's loop
\* goes by sectors, so that no other start has this (erase of
\* Stm32ExtMemFlash.cpp; the run asks for ranges within 30 bytes).
THEOREM EraseErases ==
  \A source \in Sources, addr \in Nat, size \in Nat, start \in Ready, a \in Addresses :
    addr + size < WordSize /\ addr % get_sector_size = 0 =>
      Final(source, start, EraseSteps(addr, size)).cells[a] =
        IF \E x \in addr .. addr + size - 1 : a \in ErasedWith(x) THEN AllOnes ELSE start.cells[a]
<1> SUFFICES ASSUME NEW source \in Sources, NEW addr \in Nat, NEW size \in Nat, NEW first \in Ready,
                    NEW at \in Addresses, addr + size < WordSize, addr % get_sector_size = 0
             PROVE  Final(source, first, EraseSteps(addr, size)).cells[at] =
                      IF \E x \in addr .. addr + size - 1 : at \in ErasedWith(x) THEN AllOnes ELSE first.cells[at]
  OBVIOUS
<1> DEFINE end == addr + size
           base(a) == a - (a % 8)
<1>1. end \in Nat /\ (addr + size) % WordSize = end /\ addr % 8 = 0
  BY DEF WordSize, get_sector_size
<1>2. PICK f : EraseLoop(f, end) /\ EraseSteps(addr, size) = f[addr]
  BY <1>1, EraseUnfolds
<1> DEFINE Done(c) == \A start \in Ready :
                        /\ Final(source, start, f[c]) \in Ready
                        /\ \A a \in Addresses :
                             Final(source, start, f[c]).cells[a] =
                               IF c <= base(a) /\ base(a) < end THEN AllOnes ELSE start.cells[a]
           S == {c \in Nat : c % 8 = 0 => f[c] \in Seq(DriverSteps) /\ Done(c)}
<1> HIDE DEF end
<1>3. \A c \in Nat : c >= end => c \in S
  <2>1. TAKE c \in Nat
  <2>2. HAVE c >= end
  <2>3. f[c] = <<>> /\ <<>> \in Seq(DriverSteps)
    BY <1>2, <2>2 DEF EraseLoop
  <2>4. \A a \in Addresses : ~ (c <= base(a) /\ base(a) < end)
    BY <1>1, <2>2 DEF Addresses, get_total_size
  <2>5. Done(c)
    <3>1. \A start \in Ready : Final(source, start, <<>>) = start
      BY NoStepsDo DEF Ready
    <3> HIDE DEF base
    <3> QED
      BY <2>3, <2>4, <3>1
  <2> HIDE DEF Done
  <2> QED
    BY <2>3, <2>5
<1>4. \A k \in 0 .. end - 1 : (\A c \in Nat : c > k => c \in S) => k \in S
  <2>1. SUFFICES ASSUME NEW k \in 0 .. end - 1, \A c \in Nat : c > k => c \in S, k % 8 = 0
                 PROVE  f[k] \in Seq(DriverSteps) /\ Done(k)
    <3>1. 0 .. end - 1 \subseteq Nat
      BY <1>1
    <3> HIDE DEF Done
    <3> QED
      BY <3>1
  <2> DEFINE next == k + get_sector_size
             step == Step("erase", k, 0, 0)
             command == Framed(step)
  <2>2. k \in Nat /\ ~ (k >= end) /\ k < end /\ next \in Nat /\ next > k /\ next % 8 = 0 /\ next = k + 8
    BY <1>1, <2>1 DEF get_sector_size
  <2>3. f[next] \in Seq(DriverSteps) /\ Done(next)
    <3> HIDE DEF Done, next
    <3> QED
      BY <2>1, <2>2
  <2>4. command \in Seq(DriverSteps) /\ f[k] = command \o f[next]
    BY <1>2, <2>2, EraseCommand DEF EraseLoop
  <2>5. step \in DriverSteps /\ step.op = "erase" /\ step.op \in Commands /\ step.at = k
    BY <2>2, EraseCommand DEF Step, Commands
  <2> HIDE DEF step
  <2>6. ASSUME NEW a \in Addresses
        PROVE  /\ a \in ErasedWith(k) <=> base(a) = k
               /\ k <= base(a) <=> (base(a) = k \/ next <= base(a))
    <3>1. a \in Nat /\ k \in Nat
      BY <2>2 DEF Addresses
    <3>2. a \in ErasedWith(k) <=> a \div 8 = k \div 8
      BY DEF ErasedWith, get_sector_size
    <3>3. a = 8 * (a \div 8) + (a % 8) /\ a % 8 \in 0 .. 7 /\ k = 8 * (k \div 8) /\ a \div 8 \in Nat /\ k \div 8 \in Nat
      BY <2>1, <3>1, Eights
    <3> QED
      BY <2>2, <3>1, <3>2, <3>3
  <2>7. ASSUME NEW start \in Ready
        PROVE  /\ Final(source, start, f[k]) \in Ready
               /\ \A a \in Addresses :
                    Final(source, start, f[k]).cells[a] =
                      IF k <= base(a) /\ base(a) < end THEN AllOnes ELSE start.cells[a]
    <3> DEFINE mid == Final(source, start, command)
    <3>1. mid \in Ready /\ mid.cells = CellsAfter(source, start, step)
      <4>1. FrameEnds(mid, source, start, step)
        BY <2>5, FrameDoes
      <4> HIDE DEF mid
      <4> QED
        BY <2>5, <4>1 DEF FrameEnds, Ended
    <3>2. Final(source, start, f[k]) = Final(source, mid, f[next])
      <4>1. start \in DriverNodes
        BY DEF Ready
      <4> HIDE DEF command, next
      <4> QED
        BY <2>3, <2>4, <4>1, FinalJoins
    <3> HIDE DEF mid, command, next
    <3>3. Final(source, start, f[k]) \in Ready
      BY <2>3, <3>1, <3>2
    <3>4. ASSUME NEW a \in Addresses
          PROVE  Final(source, start, f[k]).cells[a] =
                   IF k <= base(a) /\ base(a) < end THEN AllOnes ELSE start.cells[a]
      <4>1. mid.cells[a] = IF a \in ErasedWith(k) THEN AllOnes ELSE start.cells[a]
        BY <2>5, <3>1 DEF CellsAfter, ErasedCells
      <4>2. Final(source, mid, f[next]).cells[a] =
              IF next <= base(a) /\ base(a) < end THEN AllOnes ELSE mid.cells[a]
        BY <2>3, <3>1
      <4>3. /\ a \in ErasedWith(k) <=> base(a) = k
            /\ k <= base(a) <=> (base(a) = k \/ next <= base(a))
        BY <2>6
      <4> HIDE DEF base
      <4> QED
        BY <2>2, <3>2, <4>1, <4>2, <4>3
    <3> QED
      BY <3>3, <3>4
  <2>8. f[k] \in Seq(DriverSteps)
    <3> HIDE DEF command, next
    <3> QED
      BY <2>3, <2>4
  <2> QED
    BY <2>7, <2>8
<1> HIDE DEF S
<1>5. \A c \in Nat : c \in S
  BY <1>1, <1>3, <1>4, DownwardInduction
<1>6. Done(addr)
  <2> HIDE DEF Done
  <2> QED
    BY <1>1, <1>5 DEF S
<1>7. Final(source, first, f[addr]).cells[at] =
        IF addr <= base(at) /\ base(at) < end THEN AllOnes ELSE first.cells[at]
  BY <1>6
<1>8. (\E x \in addr .. addr + size - 1 : at \in ErasedWith(x)) <=> addr <= base(at) /\ base(at) < end
  <2>1. at \in Nat
    BY DEF Addresses
  <2>2. at = 8 * (at \div 8) + (at % 8) /\ at % 8 \in 0 .. 7 /\ at \div 8 \in Nat /\ base(at) = 8 * (at \div 8)
    BY <2>1, Eights
  <2>3. addr = 8 * (addr \div 8) /\ addr \div 8 \in Nat
    BY <1>1
  <2>4. ASSUME NEW x \in addr .. addr + size - 1, at \in ErasedWith(x)
        PROVE  addr <= base(at) /\ base(at) < end
    <3>1. at \div 8 = x \div 8
      BY <2>4 DEF ErasedWith, get_sector_size
    <3>2. x = 8 * (x \div 8) + (x % 8) /\ x % 8 \in 0 .. 7 /\ x \div 8 \in Nat /\ x \in Nat
      BY Eights
    <3> HIDE DEF base
    <3> QED
      BY <2>2, <2>3, <3>1, <3>2 DEF end
  <2>5. ASSUME addr <= base(at), base(at) < end
        PROVE  base(at) \in addr .. addr + size - 1 /\ at \in ErasedWith(base(at))
    <3>1. base(at) \div 8 = at \div 8
      BY <2>2
    <3>2. at \in ErasedWith(base(at))
      BY <3>1 DEF ErasedWith, get_sector_size
    <3> HIDE DEF base
    <3> QED
      BY <2>2, <2>5, <3>2 DEF end
  <2> QED
    BY <2>4, <2>5
<1> QED
  BY <1>2, <1>7, <1>8


\* What one page program of the loop leaves.
PageDone(source, node, addr, size, c, cells) ==
  \A a \in Addresses :
    cells[a] = IF addr + c <= a /\ a < addr + c + ChunkAt(addr, size, c)
               THEN node.cells[a] \cap Byte(source, node, (a - addr) + 1) ELSE node.cells[a]

LEMMA PageDoes ==
  ASSUME NEW source, NEW addr \in Nat, NEW size \in Nat, NEW c \in 0 .. size - 1, NEW node \in DriverNodes
  PROVE  PageDone(source, node, addr, size, c, CellsAfter(source, node, PageStep(addr, size, c)))
<1> SUFFICES ASSUME NEW a \in Addresses
             PROVE  CellsAfter(source, node, PageStep(addr, size, c))[a] =
                      IF addr + c <= a /\ a < addr + c + ChunkAt(addr, size, c)
                      THEN node.cells[a] \cap Byte(source, node, (a - addr) + 1) ELSE node.cells[a]
  BY DEF PageDone
<1> DEFINE chunk == ChunkAt(addr, size, c)
           step == PageStep(addr, size, c)
           data == DataOf(source, node, step)
           cells == node.cells
           after == CellsAfter(source, node, step)
<1>1. chunk \in 1 .. size - c /\ \A j \in 1 .. chunk : ProgramCell(addr + c, j) = addr + c + j - 1
  BY ChunkStaysInPage
<1>2. step.op = "program" /\ step.at = addr + c /\ step.first = c /\ step.count = chunk
  BY PageStepIs
<1> HIDE DEF chunk, step
<1>3. DOMAIN data = 1 .. chunk /\ \A j \in 1 .. chunk : data[j] = Byte(source, node, c + j)
  BY <1>2 DEF DataOf
<1>4. after[a] = cells[a] \cap {b \in AllOnes : \A j \in DOMAIN data :
                                  ProgramCell(addr + c, j) = a => b \in data[j]}
  BY <1>2 DEF CellsAfter, ProgrammedCells
<1> HIDE DEF data, after
<1>5. cells[a] \subseteq AllOnes /\ a \in Nat
  <2>1. cells \in Cells
    BY DEF DriverNodes
  <2> HIDE DEF cells
  <2>2. cells[a] \in SUBSET AllOnes
    BY <2>1 DEF Cells
  <2>3. a \in Nat
    BY DEF Addresses
  <2> QED
    BY <2>2, <2>3
<1> HIDE DEF cells
<1>6. CASE addr + c <= a /\ a < addr + c + chunk
  <2> DEFINE i == (a - (addr + c)) + 1
  <2>1. i \in 1 .. chunk /\ addr + c + i - 1 = a /\ c + i = (a - addr) + 1
    BY <1>1, <1>5, <1>6
  <2>2. \A j \in 1 .. chunk : ProgramCell(addr + c, j) = a <=> j = i
    BY <1>1, <1>5
  <2> HIDE DEF i
  <2>3. data[i] = Byte(source, node, (a - addr) + 1)
    BY <1>3, <2>1
  <2>4. \A b : (\A j \in DOMAIN data : ProgramCell(addr + c, j) = a => b \in data[j]) <=> b \in data[i]
    BY <1>3, <2>1, <2>2
  <2>5. after[a] = cells[a] \cap data[i]
    BY <1>4, <1>5, <2>4
  <2> QED
    BY <1>6, <2>3, <2>5 DEF chunk, step, after, cells
<1>7. CASE ~ (addr + c <= a /\ a < addr + c + chunk)
  <2>1. \A j \in DOMAIN data : ProgramCell(addr + c, j) # a
    BY <1>1, <1>3, <1>5, <1>7
  <2>2. after[a] = cells[a]
    BY <1>4, <1>5, <2>1
  <2> QED
    BY <1>7, <2>2 DEF chunk, step, after, cells
<1> QED
  BY <1>6, <1>7


\* Byte i of the data as a write has it that starts with byte first + 1 of a page
\* and whose first page program has the data up to byte last.
Got(source, start, last, i) ==
  IF i \in start.lost \/ (i \in start.held /\ i > last) THEN source.old[i] ELSE source.given[i]

\* What is left of a write after c bytes, done from start, ends in final.
WriteEnds(source, addr, size, c, start, final) ==
  /\ final \in Ready
  /\ \A a \in Addresses :
       final.cells[a] =
         IF addr + c <= a /\ a < addr + size
         THEN start.cells[a] \cap Got(source, start, c + ChunkAt(addr, size, c), (a - addr) + 1)
         ELSE start.cells[a]
  /\ final.lost = IF c >= size THEN start.lost ELSE start.lost \cup start.held

LEMMA WriteTurn ==
  ASSUME NEW source, NEW addr \in Nat, NEW size \in Nat, NEW k \in 0 .. size - 1,
         NEW start \in Ready, NEW mid, NEW final,
         Ended(mid, start, CellsAfter(source, start, PageStep(addr, size, k))),
         WriteEnds(source, addr, size, k + ChunkAt(addr, size, k), mid, final)
  PROVE  WriteEnds(source, addr, size, k, start, final)
<1> DEFINE chunk == ChunkAt(addr, size, k)
           next == k + chunk
           later == next + ChunkAt(addr, size, next)
           cells == CellsAfter(source, start, PageStep(addr, size, k))
<1>1. chunk \in 1 .. size - k
  BY ChunkStaysInPage
<1>2. \A a \in Addresses :
        cells[a] = IF addr + k <= a /\ a < addr + k + chunk
                   THEN start.cells[a] \cap Byte(source, start, (a - addr) + 1) ELSE start.cells[a]
  <2>1. start \in DriverNodes
    BY DEF Ready
  <2>2. PageDone(source, start, addr, size, k, CellsAfter(source, start, PageStep(addr, size, k)))
    BY <2>1, PageDoes
  <2> HIDE DEF cells, chunk
  <2>3. PageDone(source, start, addr, size, k, cells)
    BY <2>2 DEF cells
  <2> QED
    BY <2>3 DEF PageDone, chunk
<1>3. mid.cells = cells /\ mid.held = {} /\ mid.lost = start.lost \cup start.held
  BY DEF Ended
<1> HIDE DEF cells
<1>4. /\ final \in Ready
      /\ \A a \in Addresses :
           final.cells[a] = IF addr + next <= a /\ a < addr + size
                            THEN mid.cells[a] \cap Got(source, mid, later, (a - addr) + 1)
                            ELSE mid.cells[a]
      /\ final.lost = IF next >= size THEN mid.lost ELSE mid.lost \cup mid.held
  BY DEF WriteEnds
<1> HIDE DEF later
<1>5. final.lost = start.lost \cup start.held
  BY <1>3, <1>4
<1>6. next \in Nat /\ next > k /\ next <= size /\ addr + k + chunk = addr + next
  <2> HIDE DEF chunk
  <2> QED
    BY <1>1
<1>7. ASSUME NEW a \in Addresses
      PROVE  final.cells[a] = IF addr + k <= a /\ a < addr + size
                              THEN start.cells[a] \cap Got(source, start, next, (a - addr) + 1)
                              ELSE start.cells[a]
  <2>1. a \in Nat
    BY DEF Addresses
  <2>2. mid.cells[a] = IF addr + k <= a /\ a < addr + next
                       THEN start.cells[a] \cap Byte(source, start, (a - addr) + 1) ELSE start.cells[a]
    <3> HIDE DEF chunk, next
    <3> QED
      BY <1>2, <1>3, <1>6
  <2>3. final.cells[a] = IF addr + next <= a /\ a < addr + size
                         THEN mid.cells[a] \cap Got(source, mid, later, (a - addr) + 1) ELSE mid.cells[a]
    BY <1>4
  <2> HIDE DEF next
  <2> DEFINE i == (a - addr) + 1
  <2>4. CASE addr + next <= a
    <3>1. ~ (a < addr + next) /\ addr + k <= a /\ i > next
      BY <1>6, <2>1, <2>4
    <3> HIDE DEF i
    <3>2. Got(source, mid, later, i) = Got(source, start, next, i)
      BY <1>3, <3>1 DEF Got
    <3> QED
      BY <2>2, <2>3, <2>4, <3>1, <3>2 DEF i
  <2>5. CASE a < addr + next /\ addr + k <= a
    <3>1. ~ (addr + next <= a) /\ a < addr + size /\ ~ (i > next)
      BY <1>6, <2>1, <2>5
    <3> HIDE DEF i
    <3>2. Byte(source, start, i) = Got(source, start, next, i)
      BY <3>1 DEF Got, Byte
    <3> QED
      BY <2>2, <2>3, <2>5, <3>1, <3>2 DEF i
  <2>6. CASE ~ (addr + k <= a)
    <3>1. ~ (addr + next <= a)
      BY <1>6, <2>1, <2>6
    <3> QED
      BY <2>2, <2>3, <2>6, <3>1
  <2> QED
    BY <1>6, <2>1, <2>4, <2>5, <2>6
<1>8. ~ (k >= size)
  OBVIOUS
<1> HIDE DEF chunk
<1> QED
  BY <1>4, <1>5, <1>7, <1>8 DEF WriteEnds, chunk

\* The whole of a write from RAM, from its first page.
LEMMA WriteGoes ==
  ASSUME NEW source \in Sources, ~ source.flash, NEW addr \in Nat, NEW size \in Nat, NEW first \in Ready
  PROVE  WriteEnds(source, addr, size, 0, first, Final(source, first, WriteSteps(addr, size)))
<1> DEFINE Done(x, c) == \A start \in Ready :
                           WriteEnds(source, addr, size, c, start, Final(source, start, x))
<1>1. PICK f : WriteLoop(f, addr, size) /\ WriteSteps(addr, size) = f[0]
  BY WriteUnfolds
<1> DEFINE S == {c \in Nat : f[c] \in Seq(DriverSteps) /\ Done(f[c], c)}
<1>2. \A c \in Nat : c >= size => c \in S
  <2>1. TAKE c \in Nat
  <2>2. HAVE c >= size
  <2>3. f[c] = <<>> /\ <<>> \in Seq(DriverSteps)
    BY <1>1, <2>2 DEF WriteLoop
  <2>4. ASSUME NEW start \in Ready
        PROVE  WriteEnds(source, addr, size, c, start, Final(source, start, <<>>))
    <3>1. Final(source, start, <<>>) = start
      BY NoStepsDo DEF Ready
    <3>2. \A a \in Addresses : ~ (addr + c <= a /\ a < addr + size)
      BY <2>2 DEF Addresses
    <3> QED
      BY <2>2, <3>1, <3>2 DEF WriteEnds
  <2> QED
    BY <2>3, <2>4
<1>3. \A k \in 0 .. size - 1 : (\A c \in Nat : c > k => c \in S) => k \in S
  <2>1. SUFFICES ASSUME NEW k \in 0 .. size - 1, \A c \in Nat : c > k => c \in S
                 PROVE  f[k] \in Seq(DriverSteps) /\ Done(f[k], k)
    <3> HIDE DEF Done
    <3> QED
      OBVIOUS
  <2> DEFINE chunk == ChunkAt(addr, size, k)
             next == k + chunk
             step == PageStep(addr, size, k)
             command == Framed(step)
  <2>2. chunk \in 1 .. size - k
    BY ChunkStaysInPage
  <2>3. k \in Nat /\ ~ (k >= size) /\ next \in Nat /\ next > k
    <3> HIDE DEF chunk
    <3> QED
      BY <2>1, <2>2
  <2>4. f[next] \in Seq(DriverSteps) /\ Done(f[next], next)
    <3> HIDE DEF Done, next
    <3> QED
      BY <2>1, <2>3
  <2>5. command \in Seq(DriverSteps) /\ f[k] = command \o f[next]
    BY <1>1, <2>3, PageStepIs DEF WriteLoop
  <2>6. step \in DriverSteps /\ step.op \in Commands
    BY PageStepIs DEF Commands
  <2> HIDE DEF step
  <2>7. f[k] \in Seq(DriverSteps)
    <3> HIDE DEF command, next
    <3> QED
      BY <2>4, <2>5
  <2>8. ASSUME NEW start \in Ready
        PROVE  WriteEnds(source, addr, size, k, start, Final(source, start, f[k]))
    <3> DEFINE mid == Final(source, start, command)
    <3>1. Ended(mid, start, CellsAfter(source, start, step))
      <4>1. FrameEnds(mid, source, start, step)
        BY <2>6, FrameDoes
      <4> HIDE DEF mid
      <4> QED
        BY <4>1 DEF FrameEnds, Starved
    <3>2. Final(source, start, f[k]) = Final(source, mid, f[next])
      <4>1. start \in DriverNodes
        BY DEF Ready
      <4> HIDE DEF command, next
      <4> QED
        BY <2>4, <2>5, <4>1, FinalJoins
    <3> HIDE DEF mid, command
    <3>3. mid \in Ready
      BY <3>1 DEF Ended
    <3>4. WriteEnds(source, addr, size, next, mid, Final(source, mid, f[next]))
      BY <2>4, <3>3
    <3> QED
      BY <3>1, <3>2, <3>4, WriteTurn DEF step
  <2> HIDE DEF step, chunk, next, command
  <2> QED
    BY <2>7, <2>8
<1> HIDE DEF S
<1>4. \A c \in Nat : c \in S
  BY <1>2, <1>3, DownwardInduction
<1>5. Done(f[0], 0)
  <2>1. 0 \in S
    BY <1>4
  <2> HIDE DEF Done
  <2> QED
    BY <2>1 DEF S
<1> QED
  BY <1>1, <1>5

\* What it makes of a cell.
WriteCleared(source, addr, size, start, a) ==
  LET final == Final(source, start, WriteSteps(addr, size))
      written == start.cells[a] \cap Got(source, start, PageChunk(addr, size), (a - addr) + 1)
  IN  /\ a \in addr .. addr + size - 1 => final.cells[a] = written
      /\ a \notin addr .. addr + size - 1 => final.cells[a] = start.cells[a]

LEMMA CellWritten ==
  ASSUME NEW source \in Sources, ~ source.flash, NEW addr \in Nat, NEW size \in Nat,
         NEW start \in Ready, NEW a \in Addresses
  PROVE  WriteCleared(source, addr, size, start, a)
<1> DEFINE final == Final(source, start, WriteSteps(addr, size))
<1>1. WriteEnds(source, addr, size, 0, start, final)
  BY WriteGoes
<1> HIDE DEF final, WriteCleared
<1>2. final.cells[a] = IF addr + 0 <= a /\ a < addr + size
                       THEN start.cells[a] \cap Got(source, start, 0 + ChunkAt(addr, size, 0), (a - addr) + 1)
                       ELSE start.cells[a]
  BY <1>1 DEF WriteEnds
<1>3. ChunkAt(addr, size, 0) = PageChunk(addr, size)
  <2>1. addr + 0 = addr /\ size - 0 = size
    OBVIOUS
  <2> QED
    BY <2>1 DEF ChunkAt
<1>4. a \in addr .. addr + size - 1 => ChunkAt(addr, size, 0) \in Int
  <2>1. a \in addr .. addr + size - 1 => 0 \in 0 .. size - 1
    OBVIOUS
  <2> QED
    BY <2>1, ChunkStaysInPage
<1>5. (addr + 0 <= a /\ a < addr + size) <=> a \in addr .. addr + size - 1
  BY DEF Addresses
<1>6. a \in addr .. addr + size - 1 => 0 + ChunkAt(addr, size, 0) = PageChunk(addr, size)
  BY <1>3, <1>4
<1> QED
  BY <1>2, <1>5, <1>6 DEF final, WriteCleared

\* A write from RAM clears, in the bytes of the range, the bits that are clear in
\* the data, and no other; but only the first page has the data as the caller
\* sees it.  The end of that page drops what of the rest the cache has alone, and
\* the later pages have what memory has instead (write of Stm32ExtMemFlash.cpp).
THEOREM WriteClearsBits ==
  \A source \in Sources, addr \in Nat, size \in Nat, start \in Ready, a \in Addresses :
    LET final == Final(source, start, WriteSteps(addr, size))
        written == start.cells[a] \cap Got(source, start, PageChunk(addr, size), (a - addr) + 1)
    IN  ~ source.flash =>
          /\ a \in addr .. addr + size - 1 => final.cells[a] = written
          /\ a \notin addr .. addr + size - 1 => final.cells[a] = start.cells[a]
  BY CellWritten DEF WriteCleared

\* So that what is written to erased bytes is read back, if memory has the data
\* too or it is of one page (write and read of Stm32ExtMemFlash.cpp, whose caller
\* has to erase first).
THEOREM WrittenIsReadBack ==
  \A source \in Sources, addr \in Nat, start \in Ready :
    LET size == Len(source.given)
    IN  /\ ~ source.flash
        /\ addr + size <= get_total_size
        /\ \A a \in addr .. addr + size - 1 : start.cells[a] = AllOnes
        /\ \A i \in 1 .. size : i \notin start.lost /\ (i \in start.held => i <= PageChunk(addr, size))
        => read(Final(source, start, WriteSteps(addr, size)), addr, size) = source.given
<1> SUFFICES ASSUME NEW source \in Sources, NEW addr \in Nat, NEW start \in Ready, ~ source.flash,
                    addr + Len(source.given) <= get_total_size,
                    \A a \in addr .. addr + Len(source.given) - 1 : start.cells[a] = AllOnes,
                    \A i \in 1 .. Len(source.given) :
                      i \notin start.lost /\ (i \in start.held => i <= PageChunk(addr, Len(source.given)))
             PROVE  read(Final(source, start, WriteSteps(addr, Len(source.given))), addr, Len(source.given))
                      = source.given
  OBVIOUS
<1> DEFINE data == source.given
           size == Len(data)
           final == Final(source, start, WriteSteps(addr, size))
<1>1. data \in Seq(SUBSET AllOnes) /\ size \in Nat
  <2>1. data \in Seq(SUBSET AllOnes)
    BY DEF Sources
  <2> HIDE DEF data
  <2> QED
    BY <2>1
<1> HIDE DEF data
<1>2. \A a \in Addresses :
        final.cells[a] = IF a \in addr .. addr + size - 1
                         THEN start.cells[a] \cap Got(source, start, PageChunk(addr, size), (a - addr) + 1)
                         ELSE start.cells[a]
  <2>1. WriteEnds(source, addr, size, 0, start, final)
    <3> HIDE DEF size
    <3> QED
      BY <1>1, WriteGoes
  <2>2. \A a \in Addresses : addr + 0 <= a /\ a < addr + size <=> a \in addr .. addr + size - 1
    BY <1>1 DEF Addresses
  <2>3. size > 0 => 0 + ChunkAt(addr, size, 0) = PageChunk(addr, size)
    <3>1. addr + 0 = addr /\ size - 0 = size /\ (size > 0 => 0 \in 0 .. size - 1)
      BY <1>1
    <3>2. size > 0 => ChunkAt(addr, size, 0) \in 1 .. size - 0
      BY <1>1, <3>1, ChunkStaysInPage
    <3> QED
      BY <3>1, <3>2 DEF ChunkAt
  <2>4. \A a : a \in addr .. addr + size - 1 => size > 0
    BY <1>1
  <2> HIDE DEF size, final
  <2> QED
    BY <2>1, <2>2, <2>3, <2>4 DEF WriteEnds
<1> HIDE DEF final
<1>3. ASSUME NEW i \in 1 .. size PROVE final.cells[addr + i - 1] = data[i]
  <2> DEFINE a == addr + i - 1
  <2>1. a \in Addresses /\ a \in addr .. addr + size - 1 /\ (a - addr) + 1 = i
    <3>1. addr + size <= get_total_size
      BY DEF data
    <3> HIDE DEF size
    <3> QED
      BY <1>1, <3>1 DEF Addresses, get_total_size
  <2>2. data[i] \subseteq AllOnes
    BY <1>1
  <2>3. start.cells[a] = AllOnes
    BY <2>1 DEF data
  <2>4. i \notin start.lost /\ (i \in start.held => ~ (i > PageChunk(addr, size)))
    <3>1. 1 <= size
      BY <1>1
    <3>2. PageChunk(addr, size) \in Int
      BY <1>1, <3>1 DEF PageChunk, get_page_size
    <3> QED
      BY <3>2 DEF data
  <2>5. Got(source, start, PageChunk(addr, size), i) = data[i]
    BY <2>4 DEF Got, data
  <2> HIDE DEF a, size
  <2>6. final.cells[a] = AllOnes \cap data[i]
    BY <1>2, <2>1, <2>3, <2>5
  <2> QED
    BY <2>2, <2>6 DEF a
<1>4. read(final, addr, size) = [i \in 1 .. size |-> data[i]]
  BY <1>3 DEF read
<1>5. data = [i \in 1 .. size |-> data[i]]
  BY <1>1
<1> QED
  BY <1>4, <1>5 DEF final, data

\* An erase of anything ends with what the cache had alone lost.
EraseEnds(c, end, start, final) ==
  /\ final \in Ready
  /\ final.lost = IF c >= end THEN start.lost ELSE start.lost \cup start.held

LEMMA EraseDrops ==
  ASSUME NEW source, NEW addr \in Nat, NEW size \in Nat, addr + size < WordSize, NEW first \in Ready
  PROVE  EraseEnds(addr, addr + size, first, Final(source, first, EraseSteps(addr, size)))
<1> DEFINE end == addr + size
           Done(x, c) == \A start \in Ready : EraseEnds(c, end, start, Final(source, start, x))
<1>1. end \in Nat /\ (addr + size) % WordSize = end
  BY DEF WordSize
<1>2. PICK f : EraseLoop(f, end) /\ EraseSteps(addr, size) = f[addr]
  BY <1>1, EraseUnfolds
<1> DEFINE S == {c \in Nat : f[c] \in Seq(DriverSteps) /\ Done(f[c], c)}
<1> HIDE DEF end
<1>3. \A c \in Nat : c >= end => c \in S
  <2>1. TAKE c \in Nat
  <2>2. HAVE c >= end
  <2>3. f[c] = <<>> /\ <<>> \in Seq(DriverSteps)
    BY <1>2, <2>2 DEF EraseLoop
  <2>4. ASSUME NEW start \in Ready PROVE EraseEnds(c, end, start, Final(source, start, <<>>))
    <3>1. Final(source, start, <<>>) = start
      BY NoStepsDo DEF Ready
    <3> QED
      BY <2>2, <3>1 DEF EraseEnds
  <2> QED
    BY <2>3, <2>4
<1>4. \A k \in 0 .. end - 1 : (\A c \in Nat : c > k => c \in S) => k \in S
  <2>1. SUFFICES ASSUME NEW k \in 0 .. end - 1, \A c \in Nat : c > k => c \in S
                 PROVE  f[k] \in Seq(DriverSteps) /\ Done(f[k], k)
    <3>1. 0 .. end - 1 \subseteq Nat
      BY <1>1
    <3> HIDE DEF Done
    <3> QED
      BY <3>1
  <2> DEFINE next == k + get_sector_size
             step == Step("erase", k, 0, 0)
             command == Framed(step)
  <2>2. k \in Nat /\ ~ (k >= end) /\ next \in Nat /\ next > k
    BY <1>1, <2>1 DEF get_sector_size
  <2>3. f[next] \in Seq(DriverSteps) /\ Done(f[next], next)
    <3> HIDE DEF Done, next
    <3> QED
      BY <2>1, <2>2
  <2>4. command \in Seq(DriverSteps) /\ f[k] = command \o f[next]
    BY <1>2, <2>2, EraseCommand DEF EraseLoop
  <2>5. step \in DriverSteps /\ step.op = "erase" /\ step.op \in Commands
    BY <2>2, EraseCommand DEF Step, Commands
  <2> HIDE DEF step
  <2>6. f[k] \in Seq(DriverSteps)
    <3> HIDE DEF command, next
    <3> QED
      BY <2>3, <2>4
  <2>7. ASSUME NEW start \in Ready PROVE EraseEnds(k, end, start, Final(source, start, f[k]))
    <3> DEFINE mid == Final(source, start, command)
    <3>1. Ended(mid, start, CellsAfter(source, start, step))
      <4>1. FrameEnds(mid, source, start, step)
        BY <2>5, FrameDoes
      <4> HIDE DEF mid
      <4> QED
        BY <2>5, <4>1 DEF FrameEnds
    <3>2. Final(source, start, f[k]) = Final(source, mid, f[next])
      <4>1. start \in DriverNodes
        BY DEF Ready
      <4> HIDE DEF command, next
      <4> QED
        BY <2>3, <2>4, <4>1, FinalJoins
    <3> HIDE DEF mid, command, next
    <3>3. mid \in Ready /\ mid.held = {} /\ mid.lost = start.lost \cup start.held
      BY <3>1 DEF Ended
    <3>4. EraseEnds(next, end, mid, Final(source, mid, f[next]))
      BY <2>3, <3>3
    <3> QED
      BY <2>2, <3>2, <3>3, <3>4 DEF EraseEnds
  <2> HIDE DEF step, next, command
  <2> QED
    BY <2>6, <2>7
<1> HIDE DEF S
<1>5. \A c \in Nat : c \in S
  BY <1>1, <1>3, <1>4, DownwardInduction
<1>6. Done(f[addr], addr)
  <2>1. addr \in S
    BY <1>5
  <2> HIDE DEF Done
  <2> QED
    BY <2>1 DEF S
<1> QED
  BY <1>2, <1>6 DEF end

\* So does a read.
LEMMA ReadDrops ==
  ASSUME NEW source, NEW start \in Ready
  PROVE  Final(source, start, ReadSteps).lost = start.lost \cup start.held
<1> DEFINE f == Through(source, start, ReadSteps, {}, {})
<1>1. ReadSteps \in Seq(DriverSteps) /\ Len(ReadSteps) = 1 /\ ReadSteps[1] = Plain("invalidate")
  BY PlainIsStep DEF ReadSteps, PlainOps
<1>2. start \in DriverNodes /\ ~ start.stopped
  BY DEF Ready
<1>3. NodeRun(f, source, start, ReadSteps, {}, {})
  BY <1>1, <1>2, ThroughRuns
<1>4. Final(source, start, ReadSteps) = f[1]
  BY <1>1 DEF Final
<1> HIDE DEF f
<1>5. f[1] = Turn(source, start, Plain("invalidate"), 1, {}, {})
  BY <1>1, <1>3 DEF NodeRun
<1>6. PlainGoes(start, f[1], "invalidate", 1, {}, {})
  BY <1>2, <1>5, PlainTurn DEF PlainOps
<1> QED
  BY <1>4, <1>6 DEF PlainGoes

\* Data that is in the flash can be written only if it is in the cache and of one
\* page: the node stops on any other (write of Stm32ExtMemFlash.cpp).
FlashWriteEnds(source, addr, size, start, final) ==
  /\ final \in Ready \cup Halted
  /\ final.stopped <=> PageChunk(addr, size) < size \/ \E i \in 1 .. size : i \in start.lost
  /\ ~ final.stopped => final.cells = CellsAfter(source, start, PageStep(addr, size, 0))

LEMMA WriteFromFlash ==
  ASSUME NEW source \in Sources, source.flash, NEW addr \in Nat, NEW size \in Nat \ {0},
         NEW start \in Ready, \A i \in 1 .. size : i \in start.lost \cup start.held
  PROVE  FlashWriteEnds(source, addr, size, start, Final(source, start, WriteSteps(addr, size)))
<1> DEFINE chunk == ChunkAt(addr, size, 0)
           step == PageStep(addr, size, 0)
           rest == PageStep(addr, size, chunk)
           final == Final(source, start, WriteSteps(addr, size))
<1>1. PICK f : WriteLoop(f, addr, size) /\ WriteSteps(addr, size) = f[0]
  BY WriteUnfolds
<1>2. chunk \in 1 .. size /\ chunk = PageChunk(addr, size)
  <2>1. 0 \in 0 .. size - 1 /\ addr + 0 = addr /\ size - 0 = size
    OBVIOUS
  <2>2. chunk \in 1 .. size - 0
    BY <2>1, ChunkStaysInPage
  <2>3. chunk = PageChunk(addr, size)
    BY <2>1 DEF ChunkAt
  <2> QED
    BY <2>1, <2>2, <2>3
<1>3. /\ step \in DriverSteps /\ step.op = "program" /\ step.op \in Commands
      /\ step.first = 0 /\ step.count = chunk
      /\ Framed(step) \in Seq(DriverSteps)
  <2>1. 0 \in 0 .. size - 1
    OBVIOUS
  <2> QED
    BY <2>1, PageStepIs DEF Commands
<1>4. \A c \in Nat : f[c] \in Seq(DriverSteps)
  <2> DEFINE S == {c \in Nat : f[c] \in Seq(DriverSteps)}
  <2>1. \A c \in Nat : c >= size => c \in S
    <3>1. \A c \in Nat : c >= size => f[c] = <<>>
      BY <1>1 DEF WriteLoop
    <3>2. <<>> \in Seq(DriverSteps)
      OBVIOUS
    <3> QED
      BY <3>1, <3>2
  <2>2. ASSUME NEW k \in 0 .. size - 1, \A c \in Nat : c > k => c \in S PROVE k \in S
    <3>1. ChunkAt(addr, size, k) \in 1 .. size - k
      BY ChunkStaysInPage
    <3> DEFINE next == k + ChunkAt(addr, size, k)
               command == Framed(PageStep(addr, size, k))
    <3>2. k \in Nat /\ ~ (k >= size) /\ next \in Nat /\ next > k
      BY <3>1
    <3>3. f[next] \in Seq(DriverSteps)
      <4> HIDE DEF next
      <4> QED
        BY <2>2, <3>2
    <3>4. f[k] = command \o f[next] /\ command \in Seq(DriverSteps)
      BY <1>1, <3>2, PageStepIs DEF WriteLoop
    <3> HIDE DEF next, command
    <3>5. ASSUME NEW a \in Seq(DriverSteps), NEW b \in Seq(DriverSteps) PROVE a \o b \in Seq(DriverSteps)
      OBVIOUS
    <3>6. f[k] \in Seq(DriverSteps)
      BY <3>3, <3>4, <3>5
    <3> QED
      BY <3>2, <3>6
  <2> HIDE DEF S
  <2>3. \A c \in Nat : c \in S
    BY <2>1, <2>2, DownwardInduction
  <2> QED
    BY <2>3 DEF S
<1>5. f[0] = Framed(step) \o f[chunk]
  <2>1. f[0] = Framed(step) \o f[0 + chunk]
    <3>1. 0 \in Nat /\ ~ (0 >= size)
      OBVIOUS
    <3>2. f[0] = IF 0 >= size THEN <<>> ELSE Framed(step) \o f[0 + chunk]
      BY <1>1, <3>1 DEF WriteLoop
    <3> QED
      BY <3>1, <3>2
  <2>2. 0 + chunk = chunk
    BY <1>2
  <2> QED
    BY <2>1, <2>2
<1> DEFINE mid == Final(source, start, Framed(step))
<1>6. final = Final(source, mid, f[chunk])
  <2>1. start \in DriverNodes /\ chunk \in Nat
    BY <1>2 DEF Ready
  <2> HIDE DEF step, chunk
  <2> QED
    BY <1>1, <1>3, <1>4, <1>5, <2>1, FinalJoins
<1>7. FrameEnds(mid, source, start, step)
  BY <1>3, FrameDoes
<1> HIDE DEF mid, final, step, chunk
<1>8. CASE Starved(source, start, step)
  <2>1. mid \in Halted
    BY <1>3, <1>7, <1>8 DEF FrameEnds
  <2>2. final = mid
    BY <1>2, <1>4, <1>6, <2>1, StoppedEnds
  <2>3. \E i \in 1 .. size : i \in start.lost
    <3>1. PICK i \in 1 .. chunk : 0 + i \in start.lost
      BY <1>3, <1>8 DEF Starved
    <3>2. i \in 1 .. size /\ 0 + i = i
      BY <1>2
    <3> QED
      BY <3>1, <3>2
  <2> QED
    BY <2>1, <2>2, <2>3 DEF FlashWriteEnds, Halted, final
<1>9. CASE ~ Starved(source, start, step)
  <2>1. Ended(mid, start, CellsAfter(source, start, step))
    BY <1>7, <1>9 DEF FrameEnds
  <2>2. \A i \in 1 .. chunk : i \notin start.lost
    <3>1. ASSUME NEW i \in 1 .. chunk PROVE i \notin start.lost
      <4>1. 0 + i = i
        BY <1>2
      <4> QED
        BY <1>3, <1>9, <4>1 DEF Starved
    <3> QED
      BY <3>1
  <2>3. mid \in Ready /\ mid \in DriverNodes /\ ~ mid.stopped
        /\ mid.cells = CellsAfter(source, start, step) /\ mid.lost = start.lost \cup start.held
    BY <2>1 DEF Ended, Ready
  <2>4. CASE chunk = size
    <3>1. f[chunk] = <<>>
      BY <1>1, <2>4 DEF WriteLoop
    <3>2. final = mid
      BY <1>6, <2>3, <3>1, NoStepsDo
    <3>3. ~ (PageChunk(addr, size) < size) /\ ~ \E i \in 1 .. size : i \in start.lost
      BY <1>2, <2>2, <2>4
    <3> QED
      BY <2>3, <3>2, <3>3 DEF FlashWriteEnds, final, step
  <2>5. CASE chunk # size
    <3>1. chunk \in 0 .. size - 1 /\ chunk \in Nat /\ ~ (chunk >= size) /\ PageChunk(addr, size) < size
      BY <1>2, <2>5
    <3> DEFINE more == ChunkAt(addr, size, chunk)
    <3>2. more \in 1 .. size - chunk
      BY <3>1, ChunkStaysInPage
    <3>3. /\ rest \in DriverSteps /\ rest.op = "program" /\ rest.op \in Commands
          /\ rest.first = chunk /\ rest.count = more /\ Framed(rest) \in Seq(DriverSteps)
      BY <3>1, PageStepIs DEF Commands
    <3>4. f[chunk] = Framed(rest) \o f[chunk + more]
      BY <1>1, <3>1 DEF WriteLoop
    <3>5. Starved(source, mid, rest)
      <4>1. 1 \in 1 .. more /\ chunk + 1 \in 1 .. size
        BY <3>1, <3>2
      <4>2. chunk + 1 \in mid.lost
        BY <2>3, <4>1
      <4> QED
        BY <3>3, <4>1, <4>2 DEF Starved
    <3> HIDE DEF rest
    <3>6. chunk + more \in Nat
      BY <3>1, <3>2
    <3> HIDE DEF more
    <3> DEFINE stopped == Final(source, mid, Framed(rest))
    <3>7. Final(source, mid, f[chunk]) = Final(source, stopped, f[chunk + more])
      BY <1>4, <2>3, <3>3, <3>4, <3>6, FinalJoins
    <3>8. FrameEnds(stopped, source, mid, rest)
      BY <2>3, <3>3, FrameDoes
    <3> HIDE DEF stopped
    <3>9. stopped \in Halted
      BY <3>3, <3>5, <3>8 DEF FrameEnds
    <3>10. final = stopped
      BY <1>4, <1>6, <3>6, <3>7, <3>9, StoppedEnds
    <3> QED
      BY <3>1, <3>9, <3>10 DEF FlashWriteEnds, Halted, final
  <2> QED
    BY <2>4, <2>5
<1> QED
  BY <1>8, <1>9

\* The run's nodes and sources.
Started(start, node, size, held, flash) ==
  /\ start \in Ready /\ start.cells = node.cells /\ ~ start.busy
  /\ start.held = held /\ start.lost = IF flash THEN (1 .. size) \ held ELSE {}

Sourced(source, size, flash) ==
  /\ source \in Sources /\ (source.flash <=> flash)
  /\ source.given = Data(size) /\ source.old = Former(size) /\ Len(Data(size)) = size
  /\ \A i \in 1 .. size : Data(size)[i] \subseteq AllOnes /\ Former(size)[i] \subseteq AllOnes

\* The nodes the run starts from.
LEMMA UsedIsReady ==
  /\ Used \in Ready /\ ~ Used.busy
  /\ Blank \in Ready /\ ~ Blank.busy /\ \A a \in Addresses : Blank.cells[a] = AllOnes
<1> DEFINE some == [a \in Addresses |-> CASE a % 3 = 0 -> {} [] a % 3 = 1 -> {0} [] OTHER -> AllOnes]
           ones == [a \in Addresses |-> AllOnes]
<1>1. some \in Cells
  <2>1. \A a \in Addresses : (CASE a % 3 = 0 -> {} [] a % 3 = 1 -> {0} [] OTHER -> AllOnes) \in SUBSET AllOnes
    BY DEF AllOnes
  <2> QED
    BY <2>1 DEF Cells
<1>2. ones \in Cells /\ \A a \in Addresses : ones[a] = AllOnes
  BY DEF Cells
<1>3. Used = [cells |-> some, wel |-> FALSE, busy |-> FALSE, mapped |-> TRUE, irq |-> TRUE, stale |-> {},
              held |-> {}, lost |-> {}, stopped |-> FALSE]
  BY DEF Used
<1> HIDE DEF some, ones
<1>4. Used \in Ready /\ ~ Used.busy
  BY <1>1, <1>3 DEF Ready, DriverNodes
<1>5. Blank = [Used EXCEPT !.cells = ones]
  BY DEF Blank, ones
<1>6. Blank \in Ready /\ ~ Blank.busy /\ Blank.cells = ones
  BY <1>2, <1>4, <1>5 DEF Ready, DriverNodes
<1> QED
  BY <1>2, <1>4, <1>6

LEMMA StartIsReady ==
  ASSUME NEW node \in Ready, ~ node.busy, NEW size \in Nat, NEW held \in SUBSET Nat, NEW flash \in BOOLEAN
  PROVE  Started(Holding(node, size, held, flash), node, size, held, flash)
<1> DEFINE lost == IF flash THEN (1 .. size) \ held ELSE {}
           start == [node EXCEPT !.held = held, !.lost = lost]
<1>1. Holding(node, size, held, flash) = start
  BY DEF Holding
<1>2. lost \in SUBSET Nat
  OBVIOUS
<1> HIDE DEF lost
<1>3. start \in Ready /\ start.cells = node.cells /\ start.busy = node.busy /\ start.held = held /\ start.lost = lost
  BY <1>2 DEF Ready, DriverNodes
<1> HIDE DEF start
<1> QED
  BY <1>1, <1>3 DEF Started, lost

LEMMA HeldAreLines ==
  ASSUME NEW size \in Nat, NEW held \in HeldLines(size)
  PROVE  held \in SUBSET Nat /\ held \subseteq 0 .. size
BY DEF HeldLines

LEMMA GivenIsSource ==
  ASSUME NEW size \in Nat, NEW flash \in BOOLEAN
  PROVE  Sourced(Given(size, flash), size, flash)
<1> DEFINE byte(i) == CASE i % 4 = 0 -> {} [] i % 4 = 1 -> {0} [] i % 4 = 2 -> {1} [] OTHER -> AllOnes
<1>1. \A i \in 1 .. size : byte(i) \in SUBSET AllOnes
  BY DEF AllOnes
<1>2. Data(size) = [i \in 1 .. size |-> byte(i)]
  BY DEF Data
<1> HIDE DEF byte
<1>3. /\ Data(size) \in Seq(SUBSET AllOnes) /\ Len(Data(size)) = size
      /\ \A i \in 1 .. size : Data(size)[i] \subseteq AllOnes
  BY <1>1, <1>2
<1>4. Former(size) = [i \in 1 .. size |-> AllOnes \ Data(size)[i]]
  BY DEF Former
<1> DEFINE data == Data(size)  former == Former(size)
<1> HIDE DEF data, former
<1>5. former \in Seq(SUBSET AllOnes) /\ \A i \in 1 .. size : former[i] \subseteq AllOnes
  <2>1. former = [i \in 1 .. size |-> AllOnes \ data[i]]
    BY <1>4 DEF data, former
  <2> QED
    BY <2>1
<1>6. Given(size, flash) = [given |-> data, old |-> former, flash |-> flash]
  BY DEF Given, data, former
<1>7. data \in Seq(SUBSET AllOnes)
  BY <1>3 DEF data
<1>8. /\ Given(size, flash) \in Sources /\ (Given(size, flash).flash <=> flash)
      /\ Given(size, flash).given = data /\ Given(size, flash).old = former
  BY <1>5, <1>6, <1>7 DEF Sources
<1> QED
  BY <1>3, <1>5, <1>8 DEF Sourced, data, former

\* What a node ends as is in the course of a safe operation.
LEMMA EndsSpared ==
  ASSUME NEW source, NEW steps \in Seq(DriverSteps), NEW allowed, Safe(source, steps, allowed),
         NEW start \in Ready
  PROVE  Spares(Final(source, start, steps), start, allowed)
<1>1. Len(steps) \in 0 .. Len(steps) /\ {} \in SUBSET Nat
  OBVIOUS
<1>2. \A i \in 0 .. Len(steps) : Spares(Through(source, start, steps, {}, {})[i], start, allowed)
  BY <1>1 DEF Safe
<1> QED
  BY <1>1, <1>2 DEF Final

\* The ranges of the run that are in the flash.
LEMMA InFlash ==
  ASSUME NEW addr \in Nat, NEW size \in Nat, addr + size <= get_total_size
  PROVE  /\ addr + size < WordSize
         /\ BytesIn(addr, size) = addr .. addr + size - 1
         /\ Sectors(addr, size) = UNION {ErasedWith(a) : a \in addr .. addr + size - 1}
<1>1. BytesIn(addr, size) = addr .. addr + size - 1
  BY DEF BytesIn, Addresses, get_total_size
<1> QED
  BY <1>1 DEF Sectors, WordSize, get_total_size

LEMMA EraseDone ==
  ASSUME NEW addr \in Nat, NEW size \in Nat, addr + size <= get_total_size
  PROVE  EraseDoes(addr, size)
<1> DEFINE source == Given(size, FALSE)
           start == Holding(Used, size, {}, FALSE)
           steps == EraseSteps(addr, size)
           sectors == Sectors(addr, size)
           final == Final(source, start, steps)
<1>1. Started(start, Used, size, {}, FALSE) /\ Sourced(source, size, FALSE)
  BY UsedIsReady, StartIsReady, GivenIsSource
<1>2. source \in Sources /\ start \in Ready /\ start.cells = Used.cells
  BY <1>1 DEF Started, Sourced
<1> HIDE DEF source, start
<1>3. addr + size < WordSize /\ sectors = UNION {ErasedWith(a) : a \in addr .. addr + size - 1}
  BY InFlash
<1>4. steps \in Seq(DriverSteps) /\ Safe(source, steps, sectors)
  BY <1>2, <1>3, EraseKeepsRunning
<1>5. ASSUME NEW a \in Addresses
      PROVE  /\ a \notin sectors => final.cells[a] = Used.cells[a]
             /\ a \in sectors /\ addr % get_sector_size = 0 => final.cells[a] = AllOnes
  <2>1. a \notin sectors => final.cells[a] = Used.cells[a]
    <3>1. Spares(final, start, sectors)
      <4> HIDE DEF sectors, steps
      <4> QED
        BY <1>2, <1>4, EndsSpared
    <3> HIDE DEF final, sectors
    <3> QED
      BY <1>2, <3>1 DEF Spares
  <2>2. ASSUME a \in sectors, addr % get_sector_size = 0 PROVE final.cells[a] = AllOnes
    <3>1. \E x \in addr .. addr + size - 1 : a \in ErasedWith(x)
      BY <1>3, <2>2
    <3> QED
      BY <1>2, <1>3, <2>2, <3>1, EraseErases
  <2> HIDE DEF final, sectors
  <2> QED
    BY <2>1, <2>2
<1>6. Outcome(Used, EraseSteps(addr, size), size, {}, FALSE) = final
  BY DEF Outcome, source, start
<1> HIDE DEF final, sectors
<1> QED
  BY <1>5, <1>6 DEF EraseDoes, sectors

LEMMA WriteDone ==
  ASSUME NEW addr \in Nat, NEW size \in Nat, addr + size <= get_total_size
  PROVE  WriteDoes(addr, size)
<1> SUFFICES ASSUME NEW held \in HeldLines(size)
             PROVE  Outcome(Blank, WriteSteps(addr, size), size, held, FALSE).cells =
                      [a \in Addresses |->
                         LET i == (a - addr) + 1
                         IN  IF a \notin BytesIn(addr, size) THEN AllOnes
                             ELSE IF i > PageChunk(addr, size) /\ i \in held THEN Former(size)[i]
                             ELSE Data(size)[i]]
  BY DEF WriteDoes
<1> DEFINE source == Given(size, FALSE)
           start == Holding(Blank, size, held, FALSE)
           final == Final(source, start, WriteSteps(addr, size))
           chunk == PageChunk(addr, size)
           data == Data(size)
           former == Former(size)
           Kept(a) == IF a \notin BytesIn(addr, size) THEN AllOnes
                      ELSE IF (a - addr) + 1 > chunk /\ (a - addr) + 1 \in held THEN former[(a - addr) + 1]
                      ELSE data[(a - addr) + 1]
<1>1. Started(start, Blank, size, held, FALSE) /\ Sourced(source, size, FALSE)
  BY UsedIsReady, StartIsReady, GivenIsSource, HeldAreLines
<1>2. /\ source \in Sources /\ ~ source.flash /\ source.given = data /\ source.old = former
      /\ \A i \in 1 .. size : data[i] \subseteq AllOnes /\ former[i] \subseteq AllOnes
      /\ start \in Ready /\ start.held = held /\ start.lost = {}
      /\ \A a \in Addresses : start.cells[a] = AllOnes
  BY <1>1, UsedIsReady DEF Started, Sourced
<1> HIDE DEF source, start, data, former
<1>3. BytesIn(addr, size) = addr .. addr + size - 1
  BY InFlash
<1>4. ASSUME NEW a \in Addresses PROVE final.cells[a] = Kept(a)
  <2>1. /\ a \in addr .. addr + size - 1 =>
             final.cells[a] = start.cells[a] \cap Got(source, start, chunk, (a - addr) + 1)
        /\ a \notin addr .. addr + size - 1 => final.cells[a] = start.cells[a]
    <3>1. WriteCleared(source, addr, size, start, a)
      BY <1>2, CellWritten
    <3> HIDE DEF chunk
    <3> QED
      BY <3>1 DEF WriteCleared, chunk
  <2>2. a \in addr .. addr + size - 1 => (a - addr) + 1 \in 1 .. size
    OBVIOUS
  <2> DEFINE i == (a - addr) + 1
  <2> HIDE DEF i, final, chunk
  <2>3. Got(source, start, chunk, i) = IF i \in held /\ i > chunk THEN former[i] ELSE data[i]
    BY <1>2 DEF Got
  <2>4. a \in addr .. addr + size - 1 => data[i] \subseteq AllOnes /\ former[i] \subseteq AllOnes
    BY <1>2, <2>2 DEF i
  <2>5. CASE a \in addr .. addr + size - 1
    <3>1. final.cells[a] = Got(source, start, chunk, i)
      <4>1. final.cells[a] = AllOnes \cap Got(source, start, chunk, i)
        BY <1>2, <2>1, <2>5 DEF i
      <4> QED
        BY <2>3, <2>4, <2>5, <4>1
    <3> QED
      BY <1>3, <2>3, <2>5, <3>1 DEF i
  <2>6. CASE a \notin addr .. addr + size - 1
    BY <1>2, <1>3, <2>1, <2>6
  <2> QED
    BY <2>5, <2>6
<1>5. final.cells = [a \in Addresses |-> final.cells[a]]
  <2>1. WriteEnds(source, addr, size, 0, start, final)
    BY <1>2, WriteGoes
  <2> HIDE DEF final
  <2> QED
    BY <2>1 DEF WriteEnds, Ready, DriverNodes, Cells
<1>6. Outcome(Blank, WriteSteps(addr, size), size, held, FALSE) = final
  BY DEF Outcome, source, start
<1> HIDE DEF final
<1>7. final.cells = [a \in Addresses |-> Kept(a)]
  <2> HIDE DEF Kept
  <2> QED
    BY <1>4, <1>5
<1> QED
  BY <1>6, <1>7 DEF data, former

LEMMA WriteFromFlashDone ==
  ASSUME NEW addr \in Nat, NEW size \in Nat \ {0}, addr + size <= get_total_size
  PROVE  WriteFromFlashDoes(addr, size)
<1> SUFFICES ASSUME NEW held \in HeldLines(size)
             PROVE  LET written == Outcome(Blank, WriteSteps(addr, size), size, held, TRUE)
                    IN  /\ written.stopped <=> PageChunk(addr, size) < size \/ ~ (1 .. size \subseteq held)
                        /\ ~ written.stopped => read(written, addr, size) = Data(size)
  BY DEF WriteFromFlashDoes
<1> DEFINE source == Given(size, TRUE)
           start == Holding(Blank, size, held, TRUE)
           final == Final(source, start, WriteSteps(addr, size))
           step == PageStep(addr, size, 0)
           data == Data(size)
<1>1. Started(start, Blank, size, held, TRUE) /\ Sourced(source, size, TRUE)
  BY UsedIsReady, StartIsReady, GivenIsSource, HeldAreLines
<1>2. /\ source \in Sources /\ source.flash /\ source.given = data
      /\ \A i \in 1 .. size : data[i] \subseteq AllOnes
      /\ data = [i \in 1 .. size |-> data[i]]
      /\ start \in Ready /\ start.held = held /\ start.lost = (1 .. size) \ held
      /\ \A a \in Addresses : start.cells[a] = AllOnes
  <2>1. data = [i \in 1 .. size |-> data[i]]
    BY DEF Data
  <2> QED
    BY <1>1, <2>1, UsedIsReady DEF Started, Sourced
<1> HIDE DEF source, start, data
<1>3. \A i \in 1 .. size : i \in start.lost \cup start.held
  BY <1>2
<1>4. FlashWriteEnds(source, addr, size, start, final)
  BY <1>2, <1>3, WriteFromFlash
<1>5. (\E i \in 1 .. size : i \in start.lost) <=> ~ (1 .. size \subseteq held)
  BY <1>2
<1> HIDE DEF final
<1>6. final.stopped <=> PageChunk(addr, size) < size \/ ~ (1 .. size \subseteq held)
  BY <1>4, <1>5 DEF FlashWriteEnds
<1>7. ASSUME ~ final.stopped PROVE read(final, addr, size) = data
  <2>1. final.cells = CellsAfter(source, start, step)
    BY <1>4, <1>7 DEF FlashWriteEnds
  <2>2. 0 \in 0 .. size - 1 /\ start \in DriverNodes
    BY <1>2 DEF Ready
  <2>3. PageDone(source, start, addr, size, 0, CellsAfter(source, start, step))
    BY <2>2, PageDoes
  <2> HIDE DEF step
  <2>4. PageDone(source, start, addr, size, 0, final.cells)
    BY <2>1, <2>3
  <2>5. ChunkAt(addr, size, 0) = size
    <3>1. ChunkAt(addr, size, 0) \in 1 .. size - 0
      BY <2>2, ChunkStaysInPage
    <3>2. ChunkAt(addr, size, 0) = PageChunk(addr, size)
      <4>1. addr + 0 = addr /\ size - 0 = size
        OBVIOUS
      <4> QED
        BY <4>1 DEF ChunkAt
    <3>3. ~ (PageChunk(addr, size) < size)
      BY <1>6, <1>7
    <3> QED
      BY <3>1, <3>2, <3>3
  <2>6. ASSUME NEW i \in 1 .. size PROVE final.cells[addr + i - 1] = data[i]
    <3> DEFINE a == addr + i - 1
    <3>1. a \in Addresses /\ addr + 0 <= a /\ a < addr + 0 + size /\ (a - addr) + 1 = i
      BY DEF Addresses, get_total_size
    <3> HIDE DEF a
    <3>2. final.cells[a] = start.cells[a] \cap Byte(source, start, i)
      BY <2>4, <2>5, <3>1 DEF PageDone
    <3>3. i \notin start.lost
      BY <1>5, <1>6, <1>7
    <3>4. Byte(source, start, i) = data[i]
      BY <1>2, <3>3 DEF Byte
    <3> QED
      BY <1>2, <3>1, <3>2, <3>4 DEF a
  <2> QED
    BY <1>2, <2>6 DEF read
<1>8. Outcome(Blank, WriteSteps(addr, size), size, held, TRUE) = final
  BY DEF Outcome, source, start, final
<1> QED
  BY <1>6, <1>7, <1>8 DEF data

LEMMA HeldDropped ==
  ASSUME NEW addr \in Nat, NEW size \in Nat \ {0}, addr + size <= get_total_size
  PROVE  DropsWhatIsHeld(addr, size)
<1> SUFFICES ASSUME NEW held \in HeldLines(size)
             PROVE  /\ Outcome(Used, EraseSteps(addr, size), size, held, FALSE).lost = held
                    /\ Outcome(Used, WriteSteps(addr, size), size, held, FALSE).lost = held
                    /\ Outcome(Used, ReadSteps, size, held, FALSE).lost = held
  BY DEF DropsWhatIsHeld
<1> DEFINE source == Given(size, FALSE)
           start == Holding(Used, size, held, FALSE)
<1>1. Started(start, Used, size, held, FALSE) /\ Sourced(source, size, FALSE)
  BY UsedIsReady, StartIsReady, GivenIsSource, HeldAreLines
<1>2. source \in Sources /\ ~ source.flash /\ start \in Ready /\ start.held = held /\ start.lost = {}
  BY <1>1 DEF Started, Sourced
<1>3. \A steps : Outcome(Used, steps, size, held, FALSE) = Final(source, start, steps)
  BY DEF Outcome
<1> HIDE DEF source, start
<1>4. Final(source, start, EraseSteps(addr, size)).lost = held
  <2>1. addr + size < WordSize /\ ~ (addr >= addr + size)
    <3>1. addr + size < WordSize
      BY DEF WordSize, get_total_size
    <3> QED
      BY <3>1
  <2>2. EraseEnds(addr, addr + size, start, Final(source, start, EraseSteps(addr, size)))
    BY <1>2, <2>1, EraseDrops
  <2> QED
    BY <1>2, <2>1, <2>2 DEF EraseEnds
<1>5. Final(source, start, WriteSteps(addr, size)).lost = held
  <2>1. WriteEnds(source, addr, size, 0, start, Final(source, start, WriteSteps(addr, size)))
    BY <1>2, WriteGoes
  <2>2. ~ (0 >= size)
    OBVIOUS
  <2> QED
    BY <1>2, <2>1, <2>2 DEF WriteEnds
<1>6. Final(source, start, ReadSteps).lost = held
  BY <1>2, ReadDrops
<1> QED
  BY <1>3, <1>4, <1>5, <1>6

\* What the run asks of every course of an operation.
RunsOn(states, steps, slow, allowed) ==
  \A node \in {states[i] : i \in DOMAIN states} :
    /\ node.irq => Runnable(node) /\ (DelaysSuffice(steps, slow) => ~ node.busy)
    /\ \A a \in Addresses \ allowed : node.cells[a] = Used.cells[a]

LEMMA OneCourse ==
  ASSUME NEW size \in Nat, NEW flash \in BOOLEAN, NEW held \in SUBSET Nat,
         NEW steps \in Seq(DriverSteps), NEW allowed, Safe(Given(size, flash), steps, allowed),
         NEW missed \in SUBSET Nat, NEW slow \in SUBSET Nat
  PROVE  RunsOn(Through(Given(size, flash), Holding(Used, size, held, flash), steps, missed, slow),
                steps, slow, allowed)
<1> DEFINE source == Given(size, flash)
           start == Holding(Used, size, held, flash)
           states == Through(source, start, steps, missed, slow)
<1>1. Started(start, Used, size, held, flash)
  BY UsedIsReady, StartIsReady
<1>2. start \in Ready /\ start.cells = Used.cells /\ ~ start.busy /\ start \in DriverNodes
  BY <1>1 DEF Started, Ready
<1> HIDE DEF source, start
<1>3. DOMAIN states = 0 .. Len(steps)
  <2>1. NodeRun(states, source, start, steps, missed, slow)
    BY <1>2, ThroughRuns
  <2> QED
    BY <2>1 DEF NodeRun
<1>4. /\ \A i \in 0 .. Len(steps) : Spares(states[i], start, allowed)
      /\ DelaysSuffice(steps, slow) => \A i \in 0 .. Len(steps) : Quiet(states[i])
  BY <1>2 DEF Safe, Quiet, source
<1> HIDE DEF states
<1> QED
  BY <1>2, <1>3, <1>4 DEF Spares, Quiet, RunsOn, states, source, start

Courses(size, flash, steps, allowed) ==
  \A missed \in 0 .. Len(steps), slow \in {{}, DOMAIN steps}, held \in {{}, 0 .. size} :
    RunsOn(Through(Given(size, flash), Holding(Used, size, held, flash), steps, {missed}, slow),
           steps, slow, allowed)

LEMMA AllCourses ==
  ASSUME NEW size \in Nat, NEW flash \in BOOLEAN, NEW steps \in Seq(DriverSteps), NEW allowed,
         Safe(Given(size, flash), steps, allowed)
  PROVE  Courses(size, flash, steps, allowed)
<1> SUFFICES ASSUME NEW missed \in 0 .. Len(steps), NEW slow \in {{}, DOMAIN steps},
                    NEW held \in {{}, 0 .. size}
             PROVE  RunsOn(Through(Given(size, flash), Holding(Used, size, held, flash), steps, {missed}, slow),
                           steps, slow, allowed)
  BY DEF Courses
<1>1. {missed} \in SUBSET Nat /\ slow \in SUBSET Nat /\ held \in SUBSET Nat
  OBVIOUS
<1> QED
  BY <1>1, OneCourse

LEMMA AllRunnable == AlwaysRunnable
<1>1. ASSUME NEW addr \in {0, 3, 8}, NEW size \in {1, 7, 9}, NEW flash \in BOOLEAN
      PROVE  /\ Courses(size, flash, EraseSteps(addr, size), Sectors(addr, size))
             /\ Courses(size, flash, WriteSteps(addr, size), BytesIn(addr, size))
  <2>1. addr \in Nat /\ size \in Nat /\ addr + size <= get_total_size
    BY DEF get_total_size
  <2>2. Given(size, flash) \in Sources
    BY <2>1, GivenIsSource DEF Sourced
  <2>3. /\ addr + size < WordSize
        /\ Sectors(addr, size) = UNION {ErasedWith(a) : a \in addr .. addr + size - 1}
        /\ BytesIn(addr, size) = addr .. addr + size - 1
    BY <2>1, InFlash
  <2>4. Courses(size, flash, EraseSteps(addr, size), Sectors(addr, size))
    BY <2>1, <2>2, <2>3, EraseKeepsRunning, AllCourses
  <2>5. Courses(size, flash, WriteSteps(addr, size), BytesIn(addr, size))
    BY <2>1, <2>2, <2>3, WriteKeepsRunning, AllCourses
  <2> QED
    BY <2>4, <2>5
<1> QED
  BY <1>1 DEF AlwaysRunnable, Courses, RunsOn

\* So the driver's functions do what a caller takes from them, for the ranges
\* and the nodes of the run and whichever command a chip misses.
LEMMA DriverStores == FlashDriverStores
<1>1. ASSUME NEW addr \in Nat, NEW size \in Nat, addr + size < WordSize
      PROVE  /\ Accepts("erase", addr, size) <=> addr + size <= get_total_size
             /\ Accepts("erase", addr, size) => EraseDoes(addr, size)
             /\ Accepts("write", addr, size) =>
                  WriteDoes(addr, size) /\ WriteFromFlashDoes(addr, size) /\ DropsWhatIsHeld(addr, size)
  <2>1. (addr + size) % WordSize = addr + size
    BY <1>1 DEF WordSize
  <2>2. Accepts("erase", addr, size) <=> addr + size <= get_total_size
    BY <2>1 DEF Accepts, InRange
  <2>3. Accepts("write", addr, size) => addr + size <= get_total_size /\ size \in Nat \ {0}
    BY <2>1 DEF Accepts, InRange
  <2> QED
    BY <2>2, <2>3, EraseDone, WriteDone, WriteFromFlashDone, HeldDropped
<1>2. ASSUME NEW r \in Ranges PROVE r[1] \in Nat /\ r[2] \in Nat /\ r[1] + r[2] < WordSize
  BY DEF Ranges
<1>3. OperationsDo
  BY <1>1, <1>2 DEF OperationsDo
<1> QED
  BY <1>3, AllRunnable DEF FlashDriverStores

\* In every state in which the application runs, and may call the driver, the
\* driver's functions do what their callers may take from them.
THEOREM FlashStores == FlashHolds
  BY DriverStores DEF FlashHolds

-----------------------------------------------------------------------------
(* The stream reader: however TCP cuts a stream, it is read exactly.        *)

\* The bytes of s after the first d, up to the e-th.
Part(s, d, e) == SubSeq(s, d + 1, e)

LEMMA PartIs ==
  ASSUME NEW B, NEW s \in Seq(B), NEW d \in 0 .. Len(s), NEW e \in d .. Len(s)
  PROVE  /\ Part(s, d, e) \in Seq(B)
         /\ Len(Part(s, d, e)) = e - d
         /\ \A i \in 1 .. e - d : Part(s, d, e)[i] = s[d + i]
<1> DEFINE m == d + 1
<1>1. m \in Int /\ e \in Int /\ m >= 1 /\ e <= Len(s)
  OBVIOUS
<1>2. e - m + 1 = e - d /\ (m > e => e = d) /\ \A i \in 1 .. e - d : m + i - 1 = d + i
  OBVIOUS
<1>3. Part(s, d, e) = SubSeq(s, m, e)
  BY DEF Part
<1> HIDE DEF m
<1>4. \A i \in m .. e : s[i] \in B
  BY <1>1
<1>5. /\ SubSeq(s, m, e) \in Seq(B)
      /\ Len(SubSeq(s, m, e)) = IF m <= e THEN e - m + 1 ELSE 0
      /\ \A i \in 1 .. e - m + 1 : SubSeq(s, m, e)[i] = s[m + i - 1]
  BY <1>1, <1>4, SubSeqProperties
<1> QED
  BY <1>1, <1>2, <1>3, <1>5

LEMMA SameSeq ==
  ASSUME NEW B, NEW s \in Seq(B), NEW t \in Seq(B), Len(s) = Len(t),
         \A i \in 1 .. Len(s) : s[i] = t[i]
  PROVE  s = t
OBVIOUS

LEMMA PartOfPart ==
  ASSUME NEW B, NEW s \in Seq(B), NEW d \in 0 .. Len(s), NEW e \in d .. Len(s),
         NEW a \in 0 .. e - d, NEW b \in a .. e - d
  PROVE  Part(Part(s, d, e), a, b) = Part(s, d + a, d + b)
<1> DEFINE p == Part(s, d, e)
           q == Part(p, a, b)
           r == Part(s, d + a, d + b)
<1>1. p \in Seq(B) /\ Len(p) = e - d /\ \A i \in 1 .. e - d : p[i] = s[d + i]
  BY PartIs
<1> HIDE DEF p
<1>2. q \in Seq(B) /\ Len(q) = b - a /\ \A i \in 1 .. b - a : q[i] = p[a + i]
  <2>1. a \in 0 .. Len(p) /\ b \in a .. Len(p)
    BY <1>1
  <2> QED
    BY <1>1, <2>1, PartIs, ZenonT(40)
<1>3. r \in Seq(B) /\ Len(r) = b - a /\ \A i \in 1 .. b - a : r[i] = s[d + a + i]
  <2> DEFINE x == d + a
             y == d + b
  <2>1. x \in 0 .. Len(s) /\ y \in x .. Len(s) /\ y - x = b - a /\ \A i \in 1 .. b - a : x + i = d + a + i
    OBVIOUS
  <2> HIDE DEF x, y
  <2>2. Part(s, x, y) \in Seq(B) /\ Len(Part(s, x, y)) = y - x /\ \A i \in 1 .. y - x : Part(s, x, y)[i] = s[x + i]
    BY <2>1, PartIs
  <2> QED
    BY <2>1, <2>2 DEF x, y
<1> HIDE DEF q, r
<1>4. \A i \in 1 .. b - a : q[i] = r[i]
  <2>1. TAKE i \in 1 .. b - a
  <2>2. a + i \in 1 .. e - d /\ d + (a + i) = d + a + i
    OBVIOUS
  <2> QED
    BY <1>1, <1>2, <1>3, <2>2
<1>5. q = r
  BY <1>2, <1>3, <1>4, SameSeq
<1> QED
  BY <1>5 DEF p, q, r

LEMMA PartsJoin ==
  ASSUME NEW B, NEW s \in Seq(B), NEW d \in 0 .. Len(s), NEW e \in d .. Len(s), NEW g \in e .. Len(s)
  PROVE  Part(s, d, e) \o Part(s, e, g) = Part(s, d, g)
<1> DEFINE m == d + 1
<1>1. m \in 1 .. Len(s) + 1 /\ e \in m - 1 .. Len(s) /\ g \in e .. Len(s)
  OBVIOUS
<1> HIDE DEF m
<1>2. SubSeq(s, m, e) \o SubSeq(s, e + 1, g) = SubSeq(s, m, g)
  BY <1>1, ConcatAdjacentSubSeq
<1> QED
  BY <1>2 DEF Part, m

\* The buffers still to come hold s after its first e bytes, none of them empty.
Cut(coming, s, e) ==
  \E p \in [0 .. Len(coming) -> 0 .. Len(s)] :
    /\ p[0] = e
    /\ p[Len(coming)] = Len(s)
    /\ \A i \in 1 .. Len(coming) : p[i - 1] < p[i] /\ coming[i] = Part(s, p[i - 1], p[i])

\* A reader that has given the first d bytes of the stream s.
At(left, coming, s, d) == \E e \in d .. Len(s) : left = Part(s, d, e) /\ Cut(coming, s, e)

LEMMA CutEnds ==
  ASSUME NEW B, NEW s \in Seq(B), NEW e \in 0 .. Len(s), Cut(<<>>, s, e)
  PROVE  e = Len(s)
<1>1. Len(<<>>) = 0
  OBVIOUS
<1> QED
  BY <1>1 DEF Cut

LEMMA CutGoesOn ==
  ASSUME NEW B, NEW s \in Seq(B), NEW e \in 0 .. Len(s), NEW coming \in Seq(Seq(B)),
         coming # <<>>, Cut(coming, s, e)
  PROVE  \E g \in e .. Len(s) : g > e /\ Head(coming) = Part(s, e, g) /\ Cut(Tail(coming), s, g)
<1>1. PICK p \in [0 .. Len(coming) -> 0 .. Len(s)] :
        /\ p[0] = e
        /\ p[Len(coming)] = Len(s)
        /\ \A i \in 1 .. Len(coming) : p[i - 1] < p[i] /\ coming[i] = Part(s, p[i - 1], p[i])
  BY DEF Cut
<1> DEFINE n == Len(coming)
           t == Tail(coming)
           g == p[1]
           q == [i \in 0 .. n - 1 |-> p[i + 1]]
<1>2. n \in Nat /\ n >= 1 /\ t \in Seq(Seq(B)) /\ Len(t) = n - 1 /\ \A i \in 1 .. n - 1 : t[i] = coming[i + 1]
  OBVIOUS
<1>3. Head(coming) = coming[1]
  OBVIOUS
<1>4. 1 \in 1 .. n /\ 1 \in 0 .. n /\ 1 - 1 = 0
  BY <1>2
<1>5. g \in 0 .. Len(s) /\ e < g /\ Head(coming) = Part(s, e, g)
  BY <1>1, <1>3, <1>4
<1> HIDE DEF t, n, g
<1>6. \A i \in 0 .. n - 1 : i + 1 \in 0 .. n /\ q[i] = p[i + 1]
  BY <1>2
<1>7. q \in [0 .. Len(t) -> 0 .. Len(s)]
  BY <1>1, <1>2, <1>6 DEF n
<1>8. q[0] = g /\ q[Len(t)] = Len(s)
  <2>1. 0 \in 0 .. n - 1 /\ n - 1 \in 0 .. n - 1 /\ (n - 1) + 1 = n /\ 0 + 1 = 1
    BY <1>2
  <2> HIDE DEF q
  <2>2. q[0] = p[0 + 1] /\ q[n - 1] = p[(n - 1) + 1]
    BY <1>6, <2>1
  <2> QED
    BY <1>1, <1>2, <2>1, <2>2 DEF g, n
<1>9. ASSUME NEW i \in 1 .. Len(t) PROVE q[i - 1] < q[i] /\ t[i] = Part(s, q[i - 1], q[i])
  <2>1. /\ i \in 1 .. n - 1 /\ i \in 0 .. n - 1 /\ i - 1 \in 0 .. n - 1
        /\ i + 1 \in 1 .. n
        /\ (i - 1) + 1 = i /\ (i + 1) - 1 = i
    BY <1>2
  <2> HIDE DEF q
  <2>2. q[i - 1] = p[i] /\ q[i] = p[i + 1]
    BY <1>6, <2>1
  <2>3. p[i] < p[i + 1] /\ coming[i + 1] = Part(s, p[i], p[i + 1])
    <3> DEFINE j == i + 1
    <3>1. j \in 1 .. n /\ j - 1 = i
      BY <2>1
    <3> HIDE DEF j
    <3>2. p[j - 1] < p[j] /\ coming[j] = Part(s, p[j - 1], p[j])
      BY <1>1, <3>1 DEF n
    <3> QED
      BY <3>1, <3>2 DEF j
  <2> QED
    BY <1>2, <2>1, <2>2, <2>3
<1> HIDE DEF q
<1>10. Cut(t, s, g)
  BY <1>7, <1>8, <1>9 DEF Cut
<1> QED
  BY <1>5, <1>10 DEF t

\* One turn of readExact's loop.
Reading(B) == [dest : Seq(B), left : Seq(B), coming : Seq(Seq(B))]
ReaderTurn(r, needed) ==
  IF Len(r.dest) = needed \/ (r.left = <<>> /\ r.coming = <<>>) THEN r
  ELSE LET fresh == r.left = <<>>
           available == IF fresh THEN Head(r.coming) ELSE r.left
           to_copy == IF needed - Len(r.dest) < Len(available) THEN needed - Len(r.dest)
                      ELSE Len(available)
       IN  [dest |-> r.dest \o SubSeq(available, 1, to_copy),
            left |-> SubSeq(available, to_copy + 1, Len(available)),
            coming |-> IF fresh THEN Tail(r.coming) ELSE r.coming]

\* Where such a turn takes its bytes.
LEMMA Available ==
  ASSUME NEW B, NEW s \in Seq(B), NEW r \in Reading(B), NEW d \in 0 .. Len(s),
         At(r.left, r.coming, s, d), ~ (r.left = <<>> /\ r.coming = <<>>)
  PROVE  \E g \in d .. Len(s) :
           /\ g > d
           /\ (IF r.left = <<>> THEN Head(r.coming) ELSE r.left) = Part(s, d, g)
           /\ Cut(IF r.left = <<>> THEN Tail(r.coming) ELSE r.coming, s, g)
<1>1. PICK e \in d .. Len(s) : r.left = Part(s, d, e) /\ Cut(r.coming, s, e)
  BY DEF At
<1>2. Len(r.left) = e - d /\ r.coming \in Seq(Seq(B)) /\ r.left \in Seq(B) /\ e \in 0 .. Len(s)
  <2>1. Len(Part(s, d, e)) = e - d
    BY PartIs
  <2> QED
    BY <1>1, <2>1 DEF Reading
<1>3. CASE r.left = <<>>
  <2>1. e = d /\ r.coming # <<>>
    BY <1>2, <1>3
  <2> QED
    BY <1>1, <1>2, <1>3, <2>1, CutGoesOn
<1>4. CASE r.left # <<>>
  <2>1. e > d
    BY <1>2, <1>4
  <2> QED
    BY <1>1, <1>4, <2>1
<1> QED
  BY <1>3, <1>4

\* A turn reads on from where the reader is, unless the bytes needed are read or
\* the stream has ended.
LEMMA TurnReads ==
  ASSUME NEW B, NEW s \in Seq(B), NEW needed \in Nat, NEW r \in Reading(B),
         NEW from \in 0 .. Len(s), NEW d \in from .. Len(s),
         r.dest = Part(s, from, d), At(r.left, r.coming, s, d), d - from <= needed
  PROVE  LET t == ReaderTurn(r, needed)
         IN  /\ t \in Reading(B)
             /\ IF d - from = needed \/ d = Len(s) THEN t = r
                ELSE \E x \in d .. Len(s) :
                       /\ x > d /\ x - from <= needed
                       /\ t.dest = Part(s, from, x)
                       /\ At(t.left, t.coming, s, x)
<1> DEFINE t == ReaderTurn(r, needed)
<1>1. Len(r.dest) = d - from /\ d \in 0 .. Len(s)
  <2>1. Len(Part(s, from, d)) = d - from
    BY PartIs
  <2> QED
    BY <2>1
<1>2. (r.left = <<>> /\ r.coming = <<>>) <=> d = Len(s)
  <2>1. ASSUME r.left = <<>>, r.coming = <<>> PROVE d = Len(s)
    <3>1. PICK e \in d .. Len(s) : r.left = Part(s, d, e) /\ Cut(r.coming, s, e)
      BY DEF At
    <3>2. Len(r.left) = e - d /\ e \in 0 .. Len(s)
      <4>1. e \in 0 .. Len(s)
        BY <1>1
      <4>2. Len(Part(s, d, e)) = e - d
        BY <1>1, <4>1, PartIs
      <4> QED
        BY <3>1, <4>1, <4>2
    <3>3. e = Len(s)
      BY <2>1, <3>1, <3>2, CutEnds
    <3> QED
      BY <2>1, <3>2, <3>3
  <2>2. ASSUME d = Len(s), ~ (r.left = <<>> /\ r.coming = <<>>) PROVE FALSE
    <3>1. \E g \in d .. Len(s) : g > d
      BY <1>1, <2>2, Available
    <3> QED
      BY <2>2, <3>1
  <2> QED
    BY <2>1, <2>2
<1>3. CASE d - from = needed \/ d = Len(s)
  <2>1. t = r
    BY <1>1, <1>2, <1>3 DEF ReaderTurn
  <2> QED
    BY <1>3, <2>1
<1>4. CASE ~ (d - from = needed \/ d = Len(s))
  <2> DEFINE available == IF r.left = <<>> THEN Head(r.coming) ELSE r.left
             coming == IF r.left = <<>> THEN Tail(r.coming) ELSE r.coming
             to_copy == IF needed - Len(r.dest) < Len(available) THEN needed - Len(r.dest)
                        ELSE Len(available)
  <2>1. PICK g \in d .. Len(s) : g > d /\ available = Part(s, d, g) /\ Cut(coming, s, g)
    BY <1>1, <1>2, <1>4, Available
  <2>2. coming \in Seq(Seq(B))
    BY <1>2, <1>4 DEF Reading
  <2>3. /\ t.dest = r.dest \o SubSeq(available, 1, to_copy)
        /\ t.left = SubSeq(available, to_copy + 1, Len(available))
        /\ t.coming = coming
        /\ t = [dest |-> t.dest, left |-> t.left, coming |-> t.coming]
    BY <1>1, <1>2, <1>4 DEF ReaderTurn
  <2> HIDE DEF available, coming, t
  <2>4. available \in Seq(B) /\ Len(available) = g - d
    BY <1>1, <2>1, PartIs
  <2>5. to_copy \in 1 .. g - d /\ to_copy <= needed - (d - from)
    BY <1>1, <1>4, <2>1, <2>4
  <2> DEFINE x == d + to_copy
  <2> HIDE DEF to_copy
  <2>6. x \in d .. Len(s) /\ x > d /\ x <= g /\ x - from <= needed /\ x \in 0 .. Len(s)
    BY <1>1, <2>1, <2>5
  <2>7. SubSeq(available, 1, to_copy) = Part(s, d, x)
    <3>1. 0 \in 0 .. g - d /\ to_copy \in 0 .. g - d /\ d + 0 = d /\ 0 + 1 = 1
      BY <1>1, <2>5
    <3>2. Part(Part(s, d, g), 0, to_copy) = Part(s, d + 0, d + to_copy)
      BY <1>1, <2>1, <3>1, PartOfPart
    <3> QED
      BY <2>1, <3>1, <3>2 DEF Part
  <2>8. SubSeq(available, to_copy + 1, Len(available)) = Part(s, x, g)
    <3>1. to_copy \in 0 .. g - d /\ g - d \in to_copy .. g - d /\ d + (g - d) = g
      BY <1>1, <2>1, <2>5
    <3> DEFINE l == g - d
    <3> HIDE DEF l
    <3>2. to_copy \in 0 .. l /\ l \in to_copy .. l /\ l = g - d
      BY <3>1 DEF l
    <3>3. Part(Part(s, d, g), to_copy, l) = Part(s, d + to_copy, d + l)
      <4>1. to_copy \in 0 .. g - d /\ l \in to_copy .. g - d
        BY <3>2
      <4> QED
        BY <1>1, <2>1, <4>1, PartOfPart
    <3> QED
      BY <2>1, <2>4, <3>1, <3>3 DEF Part, l
  <2> HIDE DEF x
  <2>9. Part(s, from, d) \o Part(s, d, x) = Part(s, from, x)
    BY <1>1, <2>6, PartsJoin
  <2>10. t.dest = Part(s, from, x) /\ t.left = Part(s, x, g) /\ t.coming = coming
    BY <2>3, <2>7, <2>8, <2>9
  <2>11. x \in from .. Len(s) /\ g \in x .. Len(s)
    BY <2>1, <2>6
  <2>12. t.dest \in Seq(B) /\ t.left \in Seq(B)
    BY <2>6, <2>10, <2>11, PartIs
  <2>13. t \in Reading(B)
    BY <2>2, <2>3, <2>10, <2>12 DEF Reading
  <2>14. At(t.left, t.coming, s, x)
    BY <2>1, <2>10, <2>11 DEF At
  <2> QED
    BY <1>4, <2>6, <2>10, <2>13, <2>14 DEF t
<1> QED
  BY <1>3, <1>4

LEMMA TurnIsReading ==
  ASSUME NEW B, NEW needed \in Nat, NEW r \in Reading(B), Len(r.dest) <= needed
  PROVE  ReaderTurn(r, needed) \in Reading(B) /\ Len(ReaderTurn(r, needed).dest) <= needed
<1> DEFINE t == ReaderTurn(r, needed)
<1>1. CASE Len(r.dest) = needed \/ (r.left = <<>> /\ r.coming = <<>>)
  BY <1>1 DEF ReaderTurn
<1>2. CASE ~ (Len(r.dest) = needed \/ (r.left = <<>> /\ r.coming = <<>>))
  <2> DEFINE available == IF r.left = <<>> THEN Head(r.coming) ELSE r.left
             coming == IF r.left = <<>> THEN Tail(r.coming) ELSE r.coming
             to_copy == IF needed - Len(r.dest) < Len(available) THEN needed - Len(r.dest)
                        ELSE Len(available)
             n == Len(available)
  <2>1. r.dest \in Seq(B) /\ available \in Seq(B) /\ coming \in Seq(Seq(B))
    BY <1>2 DEF Reading
  <2>2. /\ t = [dest |-> r.dest \o SubSeq(available, 1, to_copy),
                left |-> SubSeq(available, to_copy + 1, Len(available)),
                coming |-> coming]
    BY <1>2 DEF ReaderTurn
  <2> HIDE DEF available, coming, t
  <2>3. to_copy \in 0 .. n /\ to_copy <= needed - Len(r.dest) /\ n \in Nat /\ 0 \in 0 .. n /\ n \in to_copy .. n
    <3>1. n \in Nat /\ Len(r.dest) \in Nat
      BY <2>1
    <3> DEFINE l == Len(r.dest)
    <3> HIDE DEF n, l
    <3>2. to_copy = IF needed - l < n THEN needed - l ELSE n
      BY DEF n, l
    <3>3. l <= needed /\ l \in Nat
      BY <3>1 DEF l
    <3> HIDE DEF to_copy
    <3>4. to_copy \in 0 .. n /\ to_copy <= needed - l /\ n \in to_copy .. n
      BY <3>1, <3>2, <3>3
    <3> QED
      BY <3>1, <3>4 DEF l
  <2> HIDE DEF to_copy
  <2>4. Part(available, 0, to_copy) \in Seq(B) /\ Len(Part(available, 0, to_copy)) = to_copy - 0
    BY <2>1, <2>3, PartIs
  <2>5. Part(available, to_copy, n) \in Seq(B)
    BY <2>1, <2>3, PartIs
  <2>6. /\ SubSeq(available, 1, to_copy) = Part(available, 0, to_copy)
        /\ SubSeq(available, to_copy + 1, Len(available)) = Part(available, to_copy, n)
    BY DEF Part
  <2> DEFINE more == Part(available, 0, to_copy)
             rest == Part(available, to_copy, n)
  <2> HIDE DEF more, rest, n
  <2>7. more \in Seq(B) /\ Len(more) = to_copy /\ rest \in Seq(B)
    BY <2>3, <2>4, <2>5 DEF more, rest
  <2>8. t = [dest |-> r.dest \o more, left |-> rest, coming |-> coming]
    BY <2>2, <2>6 DEF more, rest
  <2>9. r.dest \o more \in Seq(B) /\ Len(r.dest \o more) = Len(r.dest) + to_copy
    <3>1. IsJoined(r.dest \o more, r.dest, more, B)
      BY <2>1, <2>7, Joined
    <3> QED
      BY <2>7, <3>1 DEF IsJoined
  <2> QED
    BY <2>1, <2>3, <2>7, <2>8, <2>9 DEF Reading, t
<1> QED
  BY <1>1, <1>2

Short(B, needed) == {r \in Reading(B) : Len(r.dest) <= needed}
ReaderStart(reader) == [dest |-> <<>>, left |-> reader.left, coming |-> reader.coming]
ReaderEnd(last, needed) ==
  [ok |-> Len(last.dest) = needed, dest |-> last.dest,
   reader |-> [left |-> last.left, coming |-> last.coming]]
ReaderRun(f, B, reader, needed) ==
  /\ f \in [0 .. needed -> Short(B, needed)]
  /\ f[0] = ReaderStart(reader)
  /\ \A i \in 1 .. needed : f[i] = ReaderTurn(f[i - 1], needed)

LEMMA StartIsShort ==
  ASSUME NEW B, NEW reader \in [left : Seq(B), coming : Seq(Seq(B))], NEW needed \in Nat
  PROVE  needed \in Nat /\ ReaderStart(reader) \in Short(B, needed)
BY DEF ReaderStart, Short, Reading

LEMMA TurnIsShort ==
  ASSUME NEW B, NEW needed \in Nat, NEW r \in Short(B, needed)
  PROVE  ReaderTurn(r, needed) \in Short(B, needed)
BY TurnIsReading DEF Short

LEMMA ReadExactUnfolds ==
  ASSUME NEW B, NEW reader \in [left : Seq(B), coming : Seq(Seq(B))], NEW needed \in Nat
  PROVE  \E f : ReaderRun(f, B, reader, needed) /\ readExact(reader, needed) = ReaderEnd(f[needed], needed)
<1> DEFINE n == needed
           x0 == ReaderStart(reader)
           G == [p \in Short(B, needed) \X (1 .. n) |-> ReaderTurn(p[1], needed)]
           Body(f) == [i \in 0 .. n |-> IF i = 0 THEN x0 ELSE ReaderTurn(f[i - 1], needed)]
           after == CHOOSE f : f = Body(f)
<1>1. n \in Nat /\ x0 \in Short(B, needed)
  BY StartIsShort
<1>2. \A c \in Short(B, needed), i \in 1 .. n : ReaderTurn(c, needed) \in Short(B, needed)
  BY TurnIsShort
<1>3. \A c \in Short(B, needed), i \in 1 .. n : G[<<c, i>>] = ReaderTurn(c, needed)
  OBVIOUS
<1>4. G \in Turns(Short(B, needed), n)
  BY <1>2 DEF Turns
<1>5. readExact(reader, needed) = ReaderEnd(after[n], needed)
  BY DEF readExact, ReaderStart, ReaderTurn, ReaderEnd
<1> HIDE DEF G, n, x0
<1>6. PICK f : f \in [0 .. n -> Short(B, needed)] /\ f[0] = x0 /\ \A i \in 1 .. n : f[i] = G[<<f[i - 1], i>>]
  <2>1. \E f : History(f, Short(B, needed), x0, n, G)
    BY <1>1, <1>4, LoopExists
  <2> QED
    BY <2>1 DEF History
<1>7. \A i \in 1 .. n : f[i] = ReaderTurn(f[i - 1], needed)
  <2>1. TAKE i \in 1 .. n
  <2>2. i - 1 \in 0 .. n
    BY <1>1
  <2> QED
    BY <2>2, <1>3, <1>6
<1>8. f = Body(f)
  <2>1. \A i \in 0 .. n : f[i] = IF i = 0 THEN x0 ELSE ReaderTurn(f[i - 1], needed)
    <3>1. \A i \in 0 .. n : i = 0 \/ i \in 1 .. n
      BY <1>1
    <3> QED
      BY <1>6, <1>7, <3>1
  <2> QED
    BY <1>6, <2>1
<1>9. after = Body(after)
  BY <1>8
<1> HIDE DEF after
<1>10. after[0] = x0 /\ \A i \in 1 .. n : after[i] = ReaderTurn(after[i - 1], needed)
  <2>1. 0 \in 0 .. n /\ \A i \in 1 .. n : i \in 0 .. n /\ i # 0
    BY <1>1
  <2>2. \A i \in 0 .. n : Body(after)[i] = IF i = 0 THEN x0 ELSE ReaderTurn(after[i - 1], needed)
    OBVIOUS
  <2> HIDE DEF Body
  <2> QED
    BY <1>9, <2>1, <2>2
<1>11. f[n] = after[n]
  <2>1. StartsLike(f, after, n)
    BY <1>6, <1>7, <1>10 DEF StartsLike
  <2>2. Like(f, after, n)
    BY <1>1, <2>1, LoopUnique
  <2>3. n \in 0 .. n
    BY <1>1
  <2> QED
    BY <2>2, <2>3 DEF Like
<1> QED
  BY <1>5, <1>6, <1>7, <1>11 DEF ReaderRun, n, x0

\* However TCP cuts a stream s into buffers, a read of needed bytes by a reader
\* that has given the first d of them gives the next needed, and leaves a reader
\* that has given these too; it fails only if the stream ends before
\* (NetconnStreamReader::readExact of CommandService.cpp; the run cuts streams of
\* six bytes).
THEOREM ReadIsExact ==
  ASSUME NEW B, NEW s \in Seq(B), NEW d \in 0 .. Len(s), NEW needed \in Nat,
         NEW reader \in [left : Seq(B), coming : Seq(Seq(B))],
         At(reader.left, reader.coming, s, d)
  PROVE  LET r == readExact(reader, needed)
         IN  /\ r.ok <=> d + needed <= Len(s)
             /\ r.reader \in [left : Seq(B), coming : Seq(Seq(B))]
             /\ r.ok => /\ r.dest = Part(s, d, d + needed)
                        /\ At(r.reader.left, r.reader.coming, s, d + needed)
             /\ ~ r.ok => At(r.reader.left, r.reader.coming, s, Len(s))
<1>1. PICK f : ReaderRun(f, B, reader, needed) /\ readExact(reader, needed) = ReaderEnd(f[needed], needed)
  BY ReadExactUnfolds
<1> DEFINE Good(r, i) == \E x \in d .. Len(s) :
                           /\ r.dest = Part(s, d, x)
                           /\ At(r.left, r.coming, s, x)
                           /\ x - d <= needed
                           /\ x - d >= i \/ x = Len(s)
           S == {i \in 0 .. needed : Good(f[i], i)}
<1>2. \A i \in 0 .. needed : f[i] \in Reading(B)
  BY <1>1 DEF ReaderRun, Short
<1>3. 0 \in S
  <2>1. f[0].dest = <<>> /\ f[0].left = reader.left /\ f[0].coming = reader.coming
    BY <1>1 DEF ReaderRun, ReaderStart
  <2>2. d \in d .. Len(s) /\ 0 \in 0 .. needed
    OBVIOUS
  <2>3. Part(s, d, d) = <<>>
    <3>1. Part(s, d, d) \in Seq(B) /\ Len(Part(s, d, d)) = d - d
      BY <2>2, PartIs
    <3> DEFINE p == Part(s, d, d)
    <3> HIDE DEF p
    <3>2. p \in Seq(B) /\ Len(p) = 0
      BY <3>1 DEF p
    <3>3. p = <<>>
      BY <3>2
    <3> QED
      BY <3>3 DEF p
  <2>4. Good(f[0], 0)
    <3>1. d - d <= needed /\ d - d >= 0
      OBVIOUS
    <3> QED
      BY <2>1, <2>2, <2>3, <3>1
  <2> HIDE DEF Good
  <2> QED
    BY <2>2, <2>4
<1>4. \A i \in 0 .. needed - 1 : i \in S => i + 1 \in S
  <2>1. SUFFICES ASSUME NEW i \in 0 .. needed - 1, Good(f[i], i) PROVE Good(f[i + 1], i + 1)
    <3>1. \A i \in 0 .. needed - 1 : i + 1 \in 0 .. needed
      OBVIOUS
    <3> HIDE DEF Good
    <3> QED
      BY <3>1
  <2>2. i \in 0 .. needed /\ i + 1 \in 1 .. needed /\ (i + 1) - 1 = i
    OBVIOUS
  <2> DEFINE r == f[i]
             t == f[i + 1]
  <2>3. t = ReaderTurn(r, needed) /\ r \in Reading(B)
    <3> DEFINE j == i + 1
    <3>1. j \in 1 .. needed /\ j - 1 = i
      BY <2>2
    <3> HIDE DEF j
    <3>2. f[j] = ReaderTurn(f[j - 1], needed)
      BY <1>1, <3>1 DEF ReaderRun
    <3> QED
      BY <1>2, <2>2, <3>1, <3>2 DEF j
  <2> HIDE DEF r, t
  <2>4. PICK x \in d .. Len(s) :
          /\ r.dest = Part(s, d, x)
          /\ At(r.left, r.coming, s, x)
          /\ x - d <= needed
          /\ x - d >= i \/ x = Len(s)
    BY <2>1 DEF r
  <2>5. IF x - d = needed \/ x = Len(s) THEN t = r
        ELSE \E y \in x .. Len(s) :
               /\ y > x /\ y - d <= needed
               /\ t.dest = Part(s, d, y)
               /\ At(t.left, t.coming, s, y)
    BY <2>3, <2>4, TurnReads
  <2>6. CASE x - d = needed \/ x = Len(s)
    <3>1. x - d >= i + 1 \/ x = Len(s)
      BY <2>2, <2>6
    <3> QED
      BY <2>4, <2>5, <2>6, <3>1 DEF t
  <2>7. CASE ~ (x - d = needed \/ x = Len(s))
    <3>1. PICK y \in x .. Len(s) :
            /\ y > x /\ y - d <= needed
            /\ t.dest = Part(s, d, y)
            /\ At(t.left, t.coming, s, y)
      BY <2>5, <2>7
    <3>2. y \in d .. Len(s) /\ y - d >= i + 1
      BY <2>2, <2>4, <2>7, <3>1
    <3> QED
      BY <3>1, <3>2 DEF t
  <2> QED
    BY <2>6, <2>7
<1> HIDE DEF S
<1>5. needed \in S
  <2>1. needed \in 0 .. needed
    OBVIOUS
  <2> QED
    BY <1>3, <1>4, <2>1, SetInduction
<1> DEFINE last == f[needed]
<1> HIDE DEF last
<1>6. PICK x \in d .. Len(s) :
        /\ last.dest = Part(s, d, x)
        /\ At(last.left, last.coming, s, x)
        /\ x - d <= needed
        /\ x - d >= needed \/ x = Len(s)
  BY <1>5 DEF S, last
<1>7. Len(last.dest) = x - d
  BY <1>6, PartIs
<1>8. last \in Reading(B)
  <2>1. needed \in 0 .. needed
    OBVIOUS
  <2> QED
    BY <1>2, <2>1 DEF last
<1>9. /\ readExact(reader, needed).ok = (Len(last.dest) = needed)
      /\ readExact(reader, needed).dest = last.dest
      /\ readExact(reader, needed).reader = [left |-> last.left, coming |-> last.coming]
  BY <1>1 DEF ReaderEnd, last
<1>10. Len(last.dest) = needed <=> d + needed <= Len(s)
  BY <1>6, <1>7
<1>11. Len(last.dest) = needed => x = d + needed
  BY <1>6, <1>7
<1>12. readExact(reader, needed).reader \in [left : Seq(B), coming : Seq(Seq(B))]
  BY <1>8, <1>9 DEF Reading
<1> DEFINE read_ == readExact(reader, needed)
<1> HIDE DEF read_
<1>13. read_.ok <=> d + needed <= Len(s)
  BY <1>9, <1>10 DEF read_
<1>14. ASSUME read_.ok
       PROVE  /\ read_.dest = Part(s, d, d + needed)
              /\ At(read_.reader.left, read_.reader.coming, s, d + needed)
  <2>1. x = d + needed
    BY <1>9, <1>11, <1>14 DEF read_
  <2>2. read_.reader.left = last.left /\ read_.reader.coming = last.coming
    BY <1>9 DEF read_
  <2> QED
    BY <1>6, <1>9, <2>1, <2>2 DEF read_
<1>15. ASSUME ~ read_.ok PROVE At(read_.reader.left, read_.reader.coming, s, Len(s))
  <2>0. Len(last.dest) # needed
    BY <1>9, <1>15 DEF read_
  <2>1. x = Len(s)
    BY <1>6, <1>7, <2>0
  <2>2. read_.reader.left = last.left /\ read_.reader.coming = last.coming
    BY <1>9 DEF read_
  <2> QED
    BY <1>6, <2>1, <2>2
<1> QED
  BY <1>12, <1>13, <1>14, <1>15 DEF read_

\* So a request is read whole and in order, its header and then its payload,
\* wherever TCP cuts it, or not at all: handleClient of CommandService.cpp.
THEOREM RequestIsReadWhole ==
  ASSUME NEW B, NEW s \in Seq(B), NEW buffers \in Seq(Seq(B)), Cut(buffers, s, 0),
         NEW header \in Nat, NEW payload \in Nat
  PROVE  LET first == readExact(StreamReader(buffers), header)
             second == readExact(first.reader, payload)
         IN  /\ first.ok <=> header <= Len(s)
             /\ first.ok => /\ first.dest = Part(s, 0, header)
                            /\ second.ok <=> header + payload <= Len(s)
                            /\ second.ok => second.dest = Part(s, header, header + payload)
             /\ ~ first.ok => (second.ok <=> payload = 0)
<1> DEFINE reader == StreamReader(buffers)
           first == readExact(reader, header)
           second == readExact(first.reader, payload)
<1>1. reader \in [left : Seq(B), coming : Seq(Seq(B))]
  BY DEF StreamReader
<1>2. 0 \in 0 .. Len(s) /\ 0 + header = header
  OBVIOUS
<1>3. At(reader.left, reader.coming, s, 0)
  <2>1. Part(s, 0, 0) = <<>>
    <3> DEFINE p == Part(s, 0, 0)
    <3>1. p \in Seq(B) /\ Len(p) = 0 - 0
      BY <1>2, PartIs
    <3> HIDE DEF p
    <3>2. p = <<>>
      BY <3>1
    <3> QED
      BY <3>2 DEF p
  <2>2. reader.left = <<>> /\ reader.coming = buffers
    BY DEF StreamReader
  <2> HIDE DEF reader
  <2> QED
    BY <1>2, <2>1, <2>2 DEF At
<1> HIDE DEF reader
<1>4. /\ first.ok <=> 0 + header <= Len(s)
      /\ first.reader \in [left : Seq(B), coming : Seq(Seq(B))]
      /\ first.ok => /\ first.dest = Part(s, 0, 0 + header)
                     /\ At(first.reader.left, first.reader.coming, s, 0 + header)
      /\ ~ first.ok => At(first.reader.left, first.reader.coming, s, Len(s))
  BY <1>1, <1>2, <1>3, ReadIsExact
<1> HIDE DEF first
<1>5. ASSUME first.ok
      PROVE  /\ second.ok <=> header + payload <= Len(s)
             /\ second.ok => second.dest = Part(s, header, header + payload)
  <2>1. header \in 0 .. Len(s) /\ first.reader \in [left : Seq(B), coming : Seq(Seq(B))]
    BY <1>2, <1>4, <1>5
  <2>2. At(first.reader.left, first.reader.coming, s, header)
    BY <1>2, <1>4, <1>5
  <2> QED
    BY <2>1, <2>2, ReadIsExact, SMTT(40)
<1>7. ASSUME ~ first.ok PROVE second.ok <=> payload = 0
  <2>1. Len(s) \in 0 .. Len(s) /\ (Len(s) + payload <= Len(s) <=> payload = 0)
    OBVIOUS
  <2>2. second.ok <=> Len(s) + payload <= Len(s)
    BY <1>4, <1>7, <2>1, ReadIsExact
  <2> QED
    BY <2>1, <2>2
<1> HIDE DEF second
<1>6. /\ first.ok <=> header <= Len(s)
      /\ first.ok => first.dest = Part(s, 0, header)
  BY <1>2, <1>4
<1> QED
  BY <1>5, <1>6, <1>7 DEF reader, first, second
-----------------------------------------------------------------------------
(* Versions.                                                                *)

IsAppended(t, s, x, S) ==
  /\ t \in Seq(S)
  /\ Len(t) = Len(s) + 1
  /\ \A i \in 1 .. Len(s) : t[i] = s[i]
  /\ t[Len(s) + 1] = x

LEMMA Appended ==
  ASSUME NEW S, NEW s \in Seq(S), NEW x \in S
  PROVE  IsAppended(Append(s, x), s, x, S)
BY DEF IsAppended

VersionNumbers == [1 .. 4 -> 0 .. 255]

LEMMA VersionWord ==
  ASSUME NEW v \in VersionNumbers
  PROVE  /\ MAKE_VERSION(v) = 16777216 * v[1] + 65536 * v[2] + 256 * v[3] + v[4]
         /\ v[1] \in 0 .. 255 /\ v[2] \in 0 .. 255 /\ v[3] \in 0 .. 255 /\ v[4] \in 0 .. 255
<1>1. v[1] \in 0 .. 255 /\ v[2] \in 0 .. 255 /\ v[3] \in 0 .. 255 /\ v[4] \in 0 .. 255
  BY SMT DEF VersionNumbers
<1>2. 2 ^ 24 = 16777216 /\ 2 ^ 16 = 65536 /\ 2 ^ 8 = 256
  BY SMT
<1>3. MAKE_VERSION(v) = 16777216 * v[1] + 65536 * v[2] + 256 * v[3] + v[4]
  BY <1>1, <1>2, SMT DEF MAKE_VERSION
<1> QED
  BY <1>1, <1>3, SMT

\* The bootloader and the OTA service compare version words as integers: that is
\* the order of versions, for all of them (MAKE_VERSION of Version.h; the run
\* compares 54 versions).
THEOREM WordsAreOrdered ==
  \A v, w \in VersionNumbers : MAKE_VERSION(v) < MAKE_VERSION(w) <=> Older(v, w)
<1> SUFFICES ASSUME NEW v \in VersionNumbers, NEW w \in VersionNumbers
             PROVE  MAKE_VERSION(v) < MAKE_VERSION(w) <=> Older(v, w)
  BY SMT
<1>1. Older(v, w) <=>
        \/ v[1] < w[1]
        \/ v[1] = w[1] /\ v[2] < w[2]
        \/ v[1] = w[1] /\ v[2] = w[2] /\ v[3] < w[3]
        \/ v[1] = w[1] /\ v[2] = w[2] /\ v[3] = w[3] /\ v[4] < w[4]
  <2>1. \A i \in 1 .. 4 : i \in {1, 2, 3, 4}
    BY SMT
  <2>2. 1 .. 0 = {} /\ 1 .. 1 = {1} /\ 1 .. 2 = {1, 2} /\ 1 .. 3 = {1, 2, 3}
    BY SMT
  <2>3. 1 - 1 = 0 /\ 2 - 1 = 1 /\ 3 - 1 = 2 /\ 4 - 1 = 3 /\ {1, 2, 3, 4} = 1 .. 4
    BY SMT
  <2> QED
    BY <2>2, <2>3, SMT DEF Older
<1> DEFINE a == v[1]  b == v[2]  c == v[3]  d == v[4]
           e == w[1]  f == w[2]  g == w[3]  h == w[4]
<1>2. /\ MAKE_VERSION(v) = 16777216 * a + 65536 * b + 256 * c + d
      /\ a \in 0 .. 255 /\ b \in 0 .. 255 /\ c \in 0 .. 255 /\ d \in 0 .. 255
  BY VersionWord, SMT
<1>3. /\ MAKE_VERSION(w) = 16777216 * e + 65536 * f + 256 * g + h
      /\ e \in 0 .. 255 /\ f \in 0 .. 255 /\ g \in 0 .. 255 /\ h \in 0 .. 255
  BY VersionWord, SMT
<1> HIDE DEF a, b, c, d, e, f, g, h
<1>4. MAKE_VERSION(v) < MAKE_VERSION(w) <=>
        \/ a < e
        \/ a = e /\ b < f
        \/ a = e /\ b = f /\ c < g
        \/ a = e /\ b = f /\ c = g /\ d < h
  BY <1>2, <1>3, SMT
<1> QED
  BY <1>1, <1>4, SMT DEF a, b, c, d, e, f, g, h

\* A word's parts are the version it was made of (VERSION_MAJOR to VERSION_BUILD
\* of Version.h), and the host shows the same numbers for it as the node
\* (format_version of Version.h and of ota_updater.py).
THEOREM WordsAreShown ==
  \A v \in VersionNumbers :
    /\ VersionParts(MAKE_VERSION(v)) = v
    /\ format_version(MAKE_VERSION(v)) = HostFormatVersion(MAKE_VERSION(v))
<1> SUFFICES ASSUME NEW v \in VersionNumbers
             PROVE  /\ VersionParts(MAKE_VERSION(v)) = v
                    /\ format_version(MAKE_VERSION(v)) = HostFormatVersion(MAKE_VERSION(v))
  BY SMT
<1> DEFINE a == v[1]  b == v[2]  c == v[3]  d == v[4]
           word == MAKE_VERSION(v)
<1>1. /\ word = 16777216 * a + 65536 * b + 256 * c + d
      /\ a \in 0 .. 255 /\ b \in 0 .. 255 /\ c \in 0 .. 255 /\ d \in 0 .. 255
  BY VersionWord, SMT
<1> HIDE DEF a, b, c, d, word
<1>2. /\ word \in Nat
      /\ (word \div 16777216) % 256 = a
      /\ (word \div 65536) % 256 = b
      /\ (word \div 256) % 256 = c
      /\ word % 256 = d
  <2>1. word \in Nat
    BY <1>1, SMT
  <2>2. word \div 16777216 = a
    BY <1>1, SMT
  <2>3. word \div 65536 = 256 * a + b
    BY <1>1, SMT
  <2>4. word \div 256 = 256 * (256 * a + b) + c
    BY <1>1, SMT
  <2>5. word % 256 = d
    BY <1>1, SMT
  <2>6. (256 * a + b) % 256 = b /\ (256 * (256 * a + b) + c) % 256 = c /\ a % 256 = a
    BY <1>1, SMT
  <2> QED
    BY <2>1, <2>2, <2>3, <2>4, <2>5, <2>6, SMT
<1>3. /\ 2 ^ (8 * (4 - 1)) = 16777216 /\ 2 ^ (8 * (4 - 2)) = 65536
      /\ 2 ^ (8 * (4 - 3)) = 256 /\ 2 ^ (8 * (4 - 4)) = 1
      /\ 2 ^ 24 = 16777216 /\ 2 ^ 16 = 65536 /\ 2 ^ 8 = 256
  <2>1. 8 * (4 - 1) = 24 /\ 8 * (4 - 2) = 16 /\ 8 * (4 - 3) = 8 /\ 8 * (4 - 4) = 0
    BY SMT
  <2>2. 2 ^ 24 = 16777216 /\ 2 ^ 16 = 65536 /\ 2 ^ 8 = 256 /\ 2 ^ 0 = 1
    BY SMT
  <2> QED
    BY <2>1, <2>2, SMT
<1> DEFINE parts == VersionParts(word)
<1>4. parts = [i \in 1 .. 4 |-> (word \div 2 ^ (8 * (4 - i))) % 256]
  BY SMT DEF VersionParts, SMT
<1>5. word \div 1 = word
  BY <1>2, SMT
<1>6. parts[1] = a /\ parts[2] = b /\ parts[3] = c /\ parts[4] = d
  <2>1. 1 \in 1 .. 4 /\ 2 \in 1 .. 4 /\ 3 \in 1 .. 4 /\ 4 \in 1 .. 4
    BY SMT
  <2> HIDE DEF parts
  <2>2. /\ parts[1] = (word \div 2 ^ (8 * (4 - 1))) % 256
        /\ parts[2] = (word \div 2 ^ (8 * (4 - 2))) % 256
        /\ parts[3] = (word \div 2 ^ (8 * (4 - 3))) % 256
        /\ parts[4] = (word \div 2 ^ (8 * (4 - 4))) % 256
    BY <1>4, <2>1, SMT
  <2>3. /\ parts[1] = (word \div 16777216) % 256 /\ parts[2] = (word \div 65536) % 256
        /\ parts[3] = (word \div 256) % 256 /\ parts[4] = (word \div 1) % 256
    BY <1>3, <2>2, SMT
  <2> QED
    BY <1>2, <1>5, <2>3, SMT
<1>7. DOMAIN parts = 1 .. 4 /\ parts = [i \in 1 .. 4 |-> parts[i]]
  BY <1>4, SMT
<1> HIDE DEF parts
<1>8. \A i \in 1 .. 4 : i = 1 \/ i = 2 \/ i = 3 \/ i = 4
  BY SMT
<1>9. parts = v
  <2>1. v = [i \in 1 .. 4 |-> v[i]]
    BY SMT DEF VersionNumbers
  <2>2. \A i \in 1 .. 4 : parts[i] = v[i]
    BY <1>6, <1>8, SMT DEF a, b, c, d
  <2> QED
    BY <1>7, <2>1, <2>2, SMT
<1>10. format_version(word) = IF d > 0 THEN parts ELSE SubSeq(parts, 1, 3)
  BY <1>6, SMT DEF format_version, parts
<1> DEFINE short == <<a, b, c>>
<1>11. HostFormatVersion(word) = IF d # 0 THEN Append(short, d) ELSE short
  BY <1>2, <1>3, SMT DEF HostFormatVersion
<1>12. /\ short \in Seq(Nat) /\ Len(short) = 3
       /\ short[1] = a /\ short[2] = b /\ short[3] = c
  BY <1>1, SMT
<1>13. parts \in Seq(Nat) /\ Len(parts) = 4
  <2>1. \A i \in 1 .. 4 : parts[i] \in Nat
    BY <1>1, <1>6, <1>8, SMT
  <2> QED
    BY <1>7, <2>1, SMT
<1> HIDE DEF short
<1>14. SubSeq(parts, 1, 3) = short
  <2> DEFINE p == Part(parts, 0, 3)
  <2>1. 0 \in 0 .. Len(parts) /\ 3 \in 0 .. Len(parts) /\ 0 + 1 = 1 /\ 3 - 0 = 3
    BY <1>13, SMT
  <2>2. p \in Seq(Nat) /\ Len(p) = 3 /\ \A i \in 1 .. 3 : p[i] = parts[0 + i]
    <3> DEFINE z == 0  t == 3
    <3>1. z \in 0 .. Len(parts) /\ t \in z .. Len(parts) /\ t - z = 3 /\ \A i \in 1 .. 3 : z + i = 0 + i
      BY <1>13, SMT
    <3> HIDE DEF z, t
    <3>2. /\ Part(parts, z, t) \in Seq(Nat)
          /\ Len(Part(parts, z, t)) = t - z
          /\ \A i \in 1 .. t - z : Part(parts, z, t)[i] = parts[z + i]
      BY <1>13, <3>1, PartIs, ZenonT(40)
    <3>3. p = Part(parts, z, t)
      BY DEF z, t
    <3>4. Part(parts, z, t) \in Seq(Nat) /\ Len(Part(parts, z, t)) = 3
      BY <3>1, <3>2, ZenonT(40)
    <3>5. ASSUME NEW i \in 1 .. 3 PROVE Part(parts, z, t)[i] = parts[0 + i]
      BY <3>1, <3>2, ZenonT(40)
    <3> HIDE DEF p
    <3> QED
      BY <3>3, <3>4, <3>5, ZenonT(40)
  <2>3. p = SubSeq(parts, 1, 3)
    BY <2>1 DEF Part
  <2> HIDE DEF p
  <2>4. p[1] = parts[1] /\ p[2] = parts[2] /\ p[3] = parts[3]
    BY <2>2, SMT
  <2>5. \A i \in 1 .. Len(p) : p[i] = short[i]
    <3>1. \A i \in 1 .. 3 : i = 1 \/ i = 2 \/ i = 3
      BY SMT
    <3> QED
      BY <1>6, <1>12, <2>2, <2>4, <3>1, SMT
  <2> QED
    BY <1>12, <2>2, <2>3, <2>5, SameSeq, SMT
<1>15. Append(short, d) = parts
  <2> DEFINE q == Append(short, d)
  <2>1. /\ q \in Seq(Nat) /\ Len(q) = 4
        /\ q[1] = short[1] /\ q[2] = short[2] /\ q[3] = short[3] /\ q[4] = d
    <3>1. d \in Nat
      BY <1>1, SMT
    <3>2. /\ q \in Seq(Nat)
          /\ Len(q) = Len(short) + 1
          /\ \A i \in 1 .. Len(short) : q[i] = short[i]
          /\ q[Len(short) + 1] = d
      <4>1. IsAppended(Append(short, d), short, d, Nat)
        BY <1>12, <3>1, Appended
      <4> QED
        BY <4>1 DEF IsAppended
    <3>3. 1 \in 1 .. 3 /\ 2 \in 1 .. 3 /\ 3 \in 1 .. 3 /\ 3 + 1 = 4
      BY SMT
    <3> HIDE DEF q
    <3> QED
      BY <1>12, <3>2, <3>3, SMT
  <2> HIDE DEF q
  <2>2. \A i \in 1 .. Len(q) : q[i] = parts[i]
    BY <1>6, <1>8, <1>12, <2>1, SMT
  <2>3. q = parts
    BY <1>13, <2>1, <2>2, SameSeq, ZenonT(40)
  <2> QED
    BY <2>3 DEF q
<1>16. d > 0 <=> d # 0
  BY <1>1, SMT
<1>17. format_version(word) = HostFormatVersion(word)
  <2> DEFINE node == format_version(word)
             host == HostFormatVersion(word)
             tail == SubSeq(parts, 1, 3)
             all == Append(short, d)
  <2>1. node = IF d > 0 THEN parts ELSE tail
    BY <1>10
  <2>2. host = IF d # 0 THEN all ELSE short
    BY <1>11
  <2>3. tail = short /\ all = parts
    BY <1>14, <1>15
  <2> HIDE DEF node, host, tail, all
  <2> QED
    BY <1>16, <2>1, <2>2, <2>3 DEF node, host
<1> QED
  BY <1>9, <1>17 DEF parts, word

-----------------------------------------------------------------------------
(* Streams.                                                                 *)

Channels == [class : {"Counter", "Temperature", "Stress"}, tag : Nat, rate : Nat, batch : Nat,
             bytes : Nat \ {0}, enabled : BOOLEAN]

LEMMA Quotient ==
  ASSUME NEW a \in Nat, NEW b \in Nat \ {0}
  PROVE  /\ a \div b \in Nat
         /\ b * (a \div b) <= a
         /\ a < b * (a \div b) + b
<1>1. a \div b \in Nat
  BY SMT
<1>2. a = b * (a \div b) + (a % b) /\ a % b \in 0 .. b - 1
  BY SMT
<1> QED
  BY <1>1, <1>2, SMT

LEMMA Distributes ==
  ASSUME NEW a \in Nat, NEW b \in Nat
  PROVE  a * (b + 1) = a * b + a
OBVIOUS

LEMMA SamplesFit ==
  ASSUME NEW batch \in Nat, NEW bytes \in Nat \ {0}
  PROVE  LET n == Samples(batch, bytes)
         IN  /\ n \in Nat
             /\ Headers + n * bytes <= MaxTxBuffer
             /\ n = 0 <=> Headers + bytes > MaxTxBuffer
<1> DEFINE wanted == IF batch \in 1 .. 100 THEN batch ELSE 1
           most == (MaxTxBuffer - Headers) \div bytes
           n == IF wanted > most THEN most ELSE wanted
<1>1. Samples(batch, bytes) = n
  BY DEF Samples
<1>2. MaxTxBuffer - Headers = 1436 /\ 1436 \in Nat /\ Headers = 36 /\ MaxTxBuffer = 1472
  BY SMT DEF MaxTxBuffer, Headers
<1>3. most = 1436 \div bytes
  BY <1>2
<1> HIDE DEF most
<1>4. most \in Nat /\ bytes * most <= 1436 /\ 1436 < bytes * most + bytes
  BY <1>2, <1>3, Quotient
<1>5. wanted \in Nat /\ wanted >= 1
  BY SMT
<1> HIDE DEF wanted
<1>6. n \in Nat /\ n <= most /\ (n = 0 <=> most = 0)
  BY <1>4, <1>5, SMT
<1> HIDE DEF n
<1>7. n * bytes <= bytes * most
  BY <1>4, <1>6, SMT
<1>8. most = 0 <=> bytes > 1436
  <2>1. CASE most = 0
    BY <1>4, <2>1, SMT
  <2>2. CASE most >= 1
    <3>1. bytes * most >= bytes
      BY <1>4, <2>2, SMT
    <3> QED
      BY <1>4, <2>2, <3>1, SMT
  <2> QED
    BY <1>4, <2>1, <2>2, SMT
<1>9. n * bytes \in Nat /\ bytes * most \in Nat
  BY <1>4, <1>6, SMT
<1>10. Headers + n * bytes <= MaxTxBuffer
  BY <1>2, <1>4, <1>7, <1>9, SMT
<1>11. n = 0 <=> Headers + bytes > MaxTxBuffer
  BY <1>2, <1>6, <1>8, SMT
<1> QED
  BY <1>1, <1>6, <1>10, <1>11

\* No frame is ever longer than a datagram, and none is empty but of a channel
\* whose one sample is too long for it, whatever batch was asked for
\* (sendChannelFrame of TelemetryService.cpp).
THEOREM EveryFrameFits ==
  \A batch \in Nat, bytes \in Nat \ {0} : FrameFits(batch, bytes)
BY SamplesFit DEF FrameFits

\* A stream whose batch is sent whole at intervals of a tick or more never falls
\* behind its rate, and waiting a tick more it would; and no interval is 0, which
\* would send without end (interval_ticks of TelemetryService.cpp).
THEOREM StreamKeepsUp ==
  \A ch \in Channels :
    /\ Interval(ch) \in Nat \ {0}
    /\ Samples(ch.batch, ch.bytes) = ch.batch /\ ch.rate > 0 /\ ch.batch * 1000 >= ch.rate =>
         KeepsUp(ch) /\ ch.batch * 1000 < ch.rate * (Interval(ch) + 1)
<1> SUFFICES ASSUME NEW ch \in Channels
             PROVE  /\ Interval(ch) \in Nat \ {0}
                    /\ Samples(ch.batch, ch.bytes) = ch.batch /\ ch.rate > 0 /\ ch.batch * 1000 >= ch.rate =>
                         KeepsUp(ch) /\ ch.batch * 1000 < ch.rate * (Interval(ch) + 1)
  OBVIOUS
<1> DEFINE rate == IF ch.rate = 0 THEN 1 ELSE ch.rate
           batch == IF ch.batch = 0 THEN 1 ELSE ch.batch
           ms == (batch * 1000) \div rate
<1>1. Interval(ch) = IF ms < 1 THEN 1 ELSE ms
  BY DEF Interval
<1>2. rate \in Nat \ {0} /\ batch \in Nat \ {0} /\ batch * 1000 \in Nat
  BY SMT DEF Channels
<1>3. ms \in Nat /\ rate * ms <= batch * 1000 /\ batch * 1000 < rate * ms + rate
  <2> DEFINE a == batch * 1000
  <2> HIDE DEF rate, a
  <2>1. a \in Nat
    BY <1>2 DEF a
  <2>2. a \div rate \in Nat /\ rate * (a \div rate) <= a /\ a < rate * (a \div rate) + rate
    BY <1>2, <2>1, Quotient
  <2> QED
    BY <2>2 DEF a
<1>4. Interval(ch) \in Nat \ {0}
  <2> HIDE DEF ms
  <2> QED
    BY <1>1, <1>3, SMT
<1>5. ASSUME Samples(ch.batch, ch.bytes) = ch.batch, ch.rate > 0, ch.batch * 1000 >= ch.rate
      PROVE  KeepsUp(ch) /\ ch.batch * 1000 < ch.rate * (Interval(ch) + 1)
  <2>1. ch.rate \in Nat /\ ch.batch \in Nat /\ rate = ch.rate /\ batch = ch.batch
    BY <1>5, SMT DEF Channels
  <2> HIDE DEF ms, rate, batch
  <2>2. ms >= 1
    <3>1. ASSUME ms = 0 PROVE FALSE
      BY <1>2, <1>3, <1>5, <2>1, <3>1, SMT
    <3> QED
      BY <1>3, <3>1, SMT
  <2>3. Interval(ch) = ms
    BY <1>1, <1>3, <2>2, SMT
  <2>4. ch.rate * (ms + 1) = ch.rate * ms + ch.rate
    <3>1. ch.rate \in Nat /\ ms \in Nat
      BY <1>3, <2>1
    <3> QED
      BY <3>1, Distributes, Zenon
  <2> QED
    BY <1>3, <1>5, <2>1, <2>3, <2>4 DEF KeepsUp
<1> QED
  BY <1>4, <1>5

\* A node's slots: every channel has a tag of its own, and a tag is four
\* characters, no 16-bit number.
Slots == {slots \in Seq(Channels) : /\ \A i, j \in DOMAIN slots : slots[i].tag = slots[j].tag => i = j
                                    /\ \A i \in DOMAIN slots : slots[i].tag > 65535}

Words16 == {w \in Nat : w <= 65535}

LEMMA WordIs ==
  ASSUME NEW w \in Words16
  PROVE  w \in Nat /\ w <= 65535
BY DEF Words16

LEMMA RequestIs ==
  ASSUME NEW cmd
  PROVE  /\ StartRequest(cmd).tag = IF cmd.param2 > 100 THEN cmd.param2 ELSE cmd.cmd_id
         /\ StartRequest(cmd).rate = IF cmd.param1 = 10000 THEN 0 ELSE cmd.param1
         /\ StartRequest(cmd).batch =
              IF StartRequest(cmd).tag # 0 /\ cmd.param2 \in 1 .. 100 THEN cmd.param2 ELSE 0
BY SMT DEF StartRequest

LEMMA StartedAre ==
  ASSUME NEW slots, NEW req, NEW i \in DOMAIN slots
  PROVE  start_streaming(slots, req)[i] =
           IF i \in (IF req.tag # 0 THEN find_channel(slots, req.tag) ELSE DOMAIN slots)
           THEN Configured(slots[i], req) ELSE slots[i]
BY DEF start_streaming

LEMMA RateSet ==
  ASSUME NEW ch \in Channels, NEW rate \in Nat
  PROVE  /\ SetRate(ch, rate) \in Channels
         /\ SetRate(ch, rate).rate = IF rate = 0 THEN ch.rate ELSE rate
         /\ SetRate(ch, rate).enabled = ch.enabled
         /\ ch.class = "Stress" => SetRate(ch, rate).batch = ch.batch
<1>1. CASE rate = 0
  BY <1>1 DEF SetRate
<1>2. CASE rate # 0 /\ ch.class = "Stress"
  <2> DEFINE after == [ch EXCEPT !.rate = rate]
  <2>1. SetRate(ch, rate) = after
    BY <1>2 DEF SetRate
  <2>2. after \in Channels /\ after.rate = rate /\ after.enabled = ch.enabled /\ after.batch = ch.batch
    BY DEF Channels
  <2> QED
    BY <1>2, <2>1, <2>2
<1>3. CASE rate # 0 /\ ch.class # "Stress"
  <2> DEFINE after == [ch EXCEPT !.rate = rate, !.batch = 1]
  <2>1. SetRate(ch, rate) = after
    BY <1>3 DEF SetRate
  <2>2. after \in Channels /\ after.rate = rate /\ after.enabled = ch.enabled
    BY DEF Channels
  <2> QED
    BY <1>3, <2>1, <2>2
<1> QED
  BY <1>1, <1>2, <1>3

LEMMA Enabled ==
  ASSUME NEW ch \in Channels
  PROVE  LET on == [ch EXCEPT !.enabled = TRUE]
         IN  on \in Channels /\ on.enabled /\ on.rate = ch.rate /\ on.batch = ch.batch /\ on.class = ch.class
BY DEF Channels

LEMMA WithoutBatch ==
  ASSUME NEW ch \in Channels, NEW req, req.batch = 0, req.rate \in Nat
  PROVE  /\ Configured(ch, req).rate = IF req.rate = 0 THEN ch.rate ELSE req.rate
         /\ Configured(ch, req).enabled
         /\ ch.class = "Stress" => Configured(ch, req).batch = ch.batch
<1> DEFINE on == [ch EXCEPT !.enabled = TRUE]
<1>1. Configured(ch, req) = SetRate(on, req.rate)
  BY SMT DEF Configured
<1>2. on \in Channels /\ on.enabled /\ on.rate = ch.rate /\ on.batch = ch.batch /\ on.class = ch.class
  BY Enabled
<1> HIDE DEF on
<1> QED
  BY <1>1, <1>2, RateSet

LEMMA FoundAlone ==
  ASSUME NEW slots \in Slots, NEW i \in DOMAIN slots
  PROVE  find_channel(slots, slots[i].tag) = {i}
<1>1. DOMAIN slots = 1 .. Len(slots) /\ Len(slots) \in Nat
  BY DEF Slots
<1>2. \A j \in DOMAIN slots : slots[j].tag = slots[i].tag <=> j = i
  BY DEF Slots
<1>3. \A j \in 1 .. i - 1 : j \in DOMAIN slots /\ j # i
  BY <1>1, SMT
<1> QED
  BY <1>2, <1>3 DEF find_channel

\* A start that names a channel by its tag sets it, and no other; one that gives
\* a batch names no channel, for then what it takes for a tag is 16 bits wide: so
\* that no request of the network changes a stress channel's batch
\* (start_streaming of TelemetryService.cpp, CMD_START_STREAM of
\* CommandService.cpp; the run makes two requests of each kind).
THEOREM RequestsTake ==
  ASSUME NEW slots \in Slots, NEW cmd_id \in Words16, NEW param1 \in Words16, NEW param2 \in Nat
  PROVE  LET cmd == [cmd_id |-> cmd_id, param1 |-> param1, param2 |-> param2]
             after == start_streaming(slots, StartRequest(cmd))
         IN  /\ \A i \in DOMAIN slots :
                  param2 = slots[i].tag =>
                    /\ after[i].enabled
                    /\ after[i].rate = IF param1 \in {0, 10000} THEN slots[i].rate ELSE param1
                    /\ \A j \in DOMAIN slots \ {i} : after[j] = slots[j]
             /\ \A i \in DOMAIN slots : slots[i].class = "Stress" => after[i].batch = slots[i].batch
<1> DEFINE cmd == [cmd_id |-> cmd_id, param1 |-> param1, param2 |-> param2]
           req == StartRequest(cmd)
           after == start_streaming(slots, req)
<1>1. cmd.param2 = param2 /\ cmd.param1 = param1 /\ cmd.cmd_id = cmd_id
  OBVIOUS
<1> HIDE DEF cmd
<1>2. /\ req.tag = IF param2 > 100 THEN param2 ELSE cmd_id
      /\ req.rate = IF param1 = 10000 THEN 0 ELSE param1
      /\ req.batch = IF req.tag # 0 /\ param2 \in 1 .. 100 THEN param2 ELSE 0
      /\ req.rate \in Nat
  <2>1. /\ req.tag = IF cmd.param2 > 100 THEN cmd.param2 ELSE cmd.cmd_id
        /\ req.rate = IF cmd.param1 = 10000 THEN 0 ELSE cmd.param1
        /\ req.batch = IF req.tag # 0 /\ cmd.param2 \in 1 .. 100 THEN cmd.param2 ELSE 0
    BY RequestIs, SMT
  <2>2. /\ req.tag = IF param2 > 100 THEN param2 ELSE cmd_id
        /\ req.rate = IF param1 = 10000 THEN 0 ELSE param1
        /\ req.batch = IF req.tag # 0 /\ param2 \in 1 .. 100 THEN param2 ELSE 0
    BY <1>1, <2>1, SMT
  <2>3. param1 \in Nat
    BY WordIs
  <2> QED
    BY <2>2, <2>3, SMT
<1> HIDE DEF req
<1>3. \A i \in DOMAIN slots :
        after[i] = IF i \in (IF req.tag # 0 THEN find_channel(slots, req.tag) ELSE DOMAIN slots)
                   THEN Configured(slots[i], req) ELSE slots[i]
  BY StartedAre, SMT
<1> HIDE DEF after
<1>4. \A i \in DOMAIN slots : slots[i] \in Channels /\ slots[i].tag > 65535 /\ slots[i].tag \in Nat
  <2>1. \A i \in DOMAIN slots : slots[i] \in Channels
    BY SMT DEF Slots
  <2>2. \A i \in DOMAIN slots : slots[i].tag > 65535
    BY SMT DEF Slots
  <2> QED
    BY <2>1, <2>2, SMT DEF Channels
<1>5. ASSUME NEW i \in DOMAIN slots, param2 = slots[i].tag
      PROVE  /\ after[i].enabled
             /\ after[i].rate = IF param1 \in {0, 10000} THEN slots[i].rate ELSE param1
             /\ \A j \in DOMAIN slots \ {i} : after[j] = slots[j]
  <2>1. param2 > 65535
    BY <1>4, <1>5, SMT
  <2>2. req.tag = slots[i].tag /\ req.tag # 0 /\ req.batch = 0
    BY <1>2, <1>5, <2>1, SMT
  <2>3. find_channel(slots, req.tag) = {i}
    BY <2>2, FoundAlone
  <2>4. after[i] = Configured(slots[i], req)
    BY <1>3, <2>2, <2>3
  <2>5. \A j \in DOMAIN slots \ {i} : after[j] = slots[j]
    BY <1>3, <2>2, <2>3
  <2>6. after[i].enabled /\ after[i].rate = IF req.rate = 0 THEN slots[i].rate ELSE req.rate
    BY <1>2, <1>4, <2>2, <2>4, WithoutBatch
  <2>7. after[i].rate = IF param1 \in {0, 10000} THEN slots[i].rate ELSE param1
    BY <1>2, <2>6, SMT
  <2> QED
    BY <2>5, <2>6, <2>7
<1>6. ASSUME NEW i \in DOMAIN slots, slots[i].class = "Stress"
      PROVE  after[i].batch = slots[i].batch
  <2>1. CASE after[i] = slots[i]
    BY <2>1
  <2>2. CASE after[i] # slots[i]
    <3>1. i \in (IF req.tag # 0 THEN find_channel(slots, req.tag) ELSE DOMAIN slots)
      BY <1>3, <2>2
    <3>2. after[i] = Configured(slots[i], req)
      BY <1>3, <3>1
    <3>3. req.tag # 0 => slots[i].tag = req.tag
      BY <3>1 DEF find_channel
    <3>4. req.batch = 0
      <4>1. slots[i].tag > 65535 /\ slots[i].tag \in Nat
        BY <1>4
      <4>2. cmd_id <= 65535 /\ cmd_id \in Nat
        BY WordIs
      <4>3. CASE param2 \in 1 .. 100
        BY <1>2, <3>3, <4>1, <4>2, <4>3, SMT
      <4>4. CASE param2 \notin 1 .. 100
        BY <1>2, <4>4
      <4> QED
        BY <4>3, <4>4
    <3> QED
      BY <1>2, <1>4, <1>6, <3>2, <3>4, WithoutBatch
  <2> QED
    BY <2>1, <2>2
<1> QED
  BY <1>5, <1>6 DEF after, req, cmd

LEMMA Batched ==
  ASSUME NEW ch \in Channels, NEW batch \in Nat
  PROVE  [ch EXCEPT !.batch = batch] \in Channels /\ [ch EXCEPT !.batch = batch].tag = ch.tag
BY DEF Channels

LEMMA Configures ==
  ASSUME NEW ch \in Channels, NEW req, req.rate \in Nat, req.batch \in Nat
  PROVE  Configured(ch, req) \in Channels /\ Configured(ch, req).tag = ch.tag
<1> DEFINE enabled == [ch EXCEPT !.enabled = TRUE]
           on == SetRate(enabled, req.rate)
<1>1. enabled \in Channels /\ enabled.tag = ch.tag
  BY DEF Channels
<1>2. \A c \in Channels : \A r \in Nat :
        LET fast == [c EXCEPT !.rate = r]
            alone == [c EXCEPT !.rate = r, !.batch = 1]
        IN  /\ fast \in Channels /\ fast.tag = c.tag
            /\ alone \in Channels /\ alone.tag = c.tag
  BY DEF Channels
<1> HIDE DEF enabled
<1>3. on \in Channels /\ on.tag = ch.tag
  BY <1>1, <1>2 DEF SetRate
<1>4. on = SetRate([ch EXCEPT !.enabled = TRUE], req.rate)
  BY DEF enabled
<1> HIDE DEF on
<1>5. CASE ~ (req.batch > 0 /\ req.rate > 100)
  <2>1. Configured(ch, req) = on
    BY <1>4, <1>5 DEF Configured
  <2> QED
    BY <1>3, <2>1
<1>6. CASE req.batch > 0 /\ req.rate > 100
  <2>1. Configured(ch, req) = SetBatch(on, req.batch)
    BY <1>4, <1>6 DEF Configured
  <2>2. PICK b \in Nat : SetBatch(on, req.batch) = [on EXCEPT !.batch = b]
    <3>1. CASE on.class = "Stress"
      <4>1. SetBatch(on, req.batch) = [on EXCEPT !.batch = req.batch]
        BY <1>6, <3>1, SMT DEF SetBatch
      <4> QED
        BY <4>1
    <3>2. CASE on.class # "Stress"
      <4>1. SetBatch(on, req.batch) = [on EXCEPT !.batch = IF req.batch \in 1 .. 100 THEN req.batch ELSE 1]
        BY <3>2, SMT DEF SetBatch
      <4>2. (IF req.batch \in 1 .. 100 THEN req.batch ELSE 1) \in Nat
        BY SMT
      <4> QED
        BY <4>1, <4>2
    <3> QED
      BY <3>1, <3>2
  <2> QED
    BY <1>3, <2>1, <2>2, Batched
<1> QED
  BY <1>5, <1>6

\* A start leaves every channel its tag, and every setting one it can have: what
\* RequestsTake says of a request holds after any number of others
\* (start_streaming of TelemetryService.cpp).
\* No channel loses its slot or its tag.
TagsKept(after, slots) ==
  DOMAIN after = DOMAIN slots /\ \A i \in DOMAIN slots : after[i].tag = slots[i].tag

LEMMA SlotsStay ==
  ASSUME NEW slots \in Slots, NEW req, req.rate \in Nat, req.batch \in Nat
  PROVE  start_streaming(slots, req) \in Slots /\ TagsKept(start_streaming(slots, req), slots)
<1> DEFINE after == start_streaming(slots, req)
<1>1. DOMAIN slots = 1 .. Len(slots) /\ Len(slots) \in Nat /\ \A i \in DOMAIN slots : slots[i] \in Channels
  BY SMT DEF Slots
<1>2. /\ \A i, j \in DOMAIN slots : slots[i].tag = slots[j].tag => i = j
      /\ \A i \in DOMAIN slots : slots[i].tag > 65535
  BY SMT DEF Slots
<1>3. \A i \in DOMAIN slots : after[i] \in Channels /\ after[i].tag = slots[i].tag
  <2>1. SUFFICES ASSUME NEW i \in DOMAIN slots PROVE after[i] \in Channels /\ after[i].tag = slots[i].tag
    OBVIOUS
  <2> HIDE DEF after
  <2>2. after[i] = Configured(slots[i], req) \/ after[i] = slots[i]
    BY StartedAre DEF after
  <2> QED
    BY <1>1, <2>2, Configures
<1>4. after = [i \in 1 .. Len(slots) |-> after[i]]
  BY <1>1, SMT DEF start_streaming
<1> HIDE DEF after
<1>5. after \in Seq(Channels) /\ DOMAIN after = DOMAIN slots
  BY <1>1, <1>3, <1>4, SMT
<1>6. TagsKept(after, slots)
  BY <1>3, <1>5 DEF TagsKept
<1> QED
  BY <1>2, <1>3, <1>5, <1>6, SMT DEF Slots, after

Few == {slots \in Slots : Len(slots) <= MaxChannels}
Tagged == {ch \in Channels : ch.tag > 65535}

LEMMA Registers ==
  ASSUME NEW slots \in Few, NEW ch \in Tagged
  PROVE  register_channel(slots, ch) \in Few
<1> DEFINE after == register_channel(slots, ch)
           full == Len(slots) >= MaxChannels \/ \E i \in DOMAIN slots : slots[i].tag = ch.tag
<1>6. slots \in Slots /\ Len(slots) <= MaxChannels /\ ch \in Channels
  BY SMT DEF Few, Tagged
<1>7. ch.tag > 65535
  BY SMT DEF Tagged
<1>1. slots \in Seq(Channels) /\ DOMAIN slots = 1 .. Len(slots) /\ Len(slots) \in Nat
  BY <1>6, SMT DEF Slots
<1>2. \A i, j \in DOMAIN slots : slots[i].tag = slots[j].tag => i = j
  BY <1>6, SMT DEF Slots
<1>5. \A i \in DOMAIN slots : slots[i].tag > 65535
  BY <1>6, SMT DEF Slots
<1>3. CASE full
  <2>1. after = slots
    BY <1>3, SMT DEF register_channel
  <2> QED
    BY <2>1
<1>4. CASE ~ full
  <2> DEFINE m == Len(slots)
  <2>1. after = Append(slots, ch)
    BY <1>4, SMT DEF register_channel
  <2>2. m < 8
    BY <1>1, <1>4, SMT DEF MaxChannels
  <2> HIDE DEF after
  <2>3. /\ after \in Seq(Channels) /\ Len(after) = m + 1 /\ DOMAIN after = 1 .. m + 1
        /\ after[m + 1] = ch
        /\ \A i \in 1 .. m : after[i] = slots[i]
    BY <1>1, <1>6, <2>1, SMT
  <2>4. \A i \in DOMAIN slots : slots[i].tag # ch.tag
    BY <1>4
  <2>5. \A i \in 1 .. m + 1 : i \in 1 .. m \/ i = m + 1
    BY <1>1, SMT
  <2>6. ASSUME NEW i \in 1 .. m + 1, NEW j \in 1 .. m + 1, after[i].tag = after[j].tag PROVE i = j
    <3>1. CASE i \in 1 .. m /\ j \in 1 .. m
      <4>1. slots[i].tag = slots[j].tag
        BY <2>3, <2>6, <3>1
      <4> QED
        BY <1>1, <1>2, <3>1, <4>1, Zenon
    <3>2. CASE i \in 1 .. m /\ j = m + 1
      BY <1>1, <2>3, <2>4, <2>6, <3>2
    <3>3. CASE i = m + 1 /\ j \in 1 .. m
      BY <1>1, <2>3, <2>4, <2>6, <3>3
    <3> QED
      BY <2>5, <3>1, <3>2, <3>3
  <2>7. ASSUME NEW i \in 1 .. m + 1 PROVE after[i].tag > 65535
    <3>1. CASE i \in 1 .. m
      BY <1>1, <1>5, <2>3, <3>1, SMT
    <3>2. CASE i = m + 1
      BY <1>7, <2>3, <3>2, SMT
    <3> QED
      BY <2>5, <3>1, <3>2
  <2>8. after \in Slots
    BY <2>3, <2>6, <2>7, SMT DEF Slots
  <2> QED
    BY <1>1, <2>2, <2>3, <2>8, SMT DEF MaxChannels, Few, after
<1> QED
  BY <1>3, <1>4

RegisterRun(f, channels) ==
  /\ f \in [0 .. Len(channels) -> Few]
  /\ f[0] = <<>>
  /\ \A i \in 1 .. Len(channels) : f[i] = register_channel(f[i - 1], channels[i])

LEMMA RegisteredUnfolds ==
  ASSUME NEW channels \in Seq(Tagged)
  PROVE  \E f : RegisterRun(f, channels) /\ Registered(channels) = f[Len(channels)]
<1> DEFINE n == Len(channels)
           x0 == <<>>
           G == [p \in Few \X (1 .. n) |-> register_channel(p[1], channels[p[2]])]
           Body(f) == [i \in 0 .. n |-> IF i = 0 THEN x0 ELSE register_channel(f[i - 1], channels[i])]
           after == CHOOSE f : f = Body(f)
<1>1. n \in Nat /\ x0 \in Few
  BY SMT DEF Few, Slots, MaxChannels
<1>2. \A c \in Few, i \in 1 .. n : register_channel(c, channels[i]) \in Few
  BY Registers
<1>3. \A c \in Few, i \in 1 .. n : G[<<c, i>>] = register_channel(c, channels[i])
  OBVIOUS
<1>4. G \in Turns(Few, n)
  BY <1>2 DEF Turns
<1>5. Registered(channels) = after[n]
  BY DEF Registered
<1> HIDE DEF G, n, x0
<1>6. PICK f : f \in [0 .. n -> Few] /\ f[0] = x0 /\ \A i \in 1 .. n : f[i] = G[<<f[i - 1], i>>]
  <2>1. \E f : History(f, Few, x0, n, G)
    BY <1>1, <1>4, LoopExists
  <2> QED
    BY <2>1 DEF History
<1>7. \A i \in 1 .. n : f[i] = register_channel(f[i - 1], channels[i])
  <2>1. TAKE i \in 1 .. n
  <2>2. i - 1 \in 0 .. n
    BY <1>1
  <2> QED
    BY <2>2, <1>3, <1>6
<1>8. f = Body(f)
  <2>1. \A i \in 0 .. n : f[i] = IF i = 0 THEN x0 ELSE register_channel(f[i - 1], channels[i])
    <3>1. \A i \in 0 .. n : i = 0 \/ i \in 1 .. n
      BY <1>1
    <3> QED
      BY <1>6, <1>7, <3>1
  <2> QED
    BY <1>6, <2>1
<1>9. after = Body(after)
  BY <1>8
<1> HIDE DEF after
<1>10. after[0] = x0 /\ \A i \in 1 .. n : after[i] = register_channel(after[i - 1], channels[i])
  <2>1. 0 \in 0 .. n /\ \A i \in 1 .. n : i \in 0 .. n /\ i # 0
    BY <1>1
  <2>2. \A i \in 0 .. n : Body(after)[i] = IF i = 0 THEN x0 ELSE register_channel(after[i - 1], channels[i])
    OBVIOUS
  <2> HIDE DEF Body
  <2> QED
    BY <1>9, <2>1, <2>2
<1>11. f[n] = after[n]
  <2>1. StartsLike(f, after, n)
    BY <1>6, <1>7, <1>10 DEF StartsLike
  <2>2. Like(f, after, n)
    BY <1>1, <2>1, LoopUnique
  <2> QED
    BY <1>1, <2>2 DEF Like
<1> QED
  BY <1>5, <1>6, <1>7, <1>11 DEF RegisterRun, n, x0

LEMMA RegistersGiven ==
  ASSUME NEW slots \in Few, NEW ch \in Tagged, NEW C, ch \in C,
         \A k \in DOMAIN slots : slots[k] \in C
  PROVE  \A k \in DOMAIN register_channel(slots, ch) : register_channel(slots, ch)[k] \in C
<1> DEFINE after == register_channel(slots, ch)
<1>1. slots \in Seq(Channels) /\ ch \in Channels /\ Len(slots) \in Nat /\ DOMAIN slots = 1 .. Len(slots)
  BY SMT DEF Few, Tagged, Slots
<1>2. after = slots \/ after = Append(slots, ch)
  BY DEF register_channel
<1> HIDE DEF after
<1>3. CASE after = slots
  BY <1>3 DEF after
<1>4. CASE after = Append(slots, ch)
  <2>1. IsAppended(after, slots, ch, Channels)
    BY <1>1, <1>4, Appended
  <2>2. DOMAIN after = 1 .. Len(slots) + 1
    BY <1>1, <2>1 DEF IsAppended
  <2>3. \A k \in DOMAIN after : k \in 1 .. Len(slots) \/ k = Len(slots) + 1
    BY <1>1, <2>2
  <2>4. \A k \in DOMAIN after : after[k] \in C
    BY <1>1, <2>1, <2>3 DEF IsAppended
  <2> QED
    BY <2>4 DEF after
<1> QED
  BY <1>2, <1>3, <1>4

LEMMA RegisteredAreGiven ==
  ASSUME NEW channels \in Seq(Tagged), NEW C, \A j \in DOMAIN channels : channels[j] \in C
  PROVE  /\ Registered(channels) \in Few
         /\ \A k \in DOMAIN Registered(channels) : Registered(channels)[k] \in C
<1> DEFINE n == Len(channels)
<1>1. PICK f : RegisterRun(f, channels) /\ Registered(channels) = f[n]
  BY RegisteredUnfolds
<1>2. n \in Nat /\ DOMAIN channels = 1 .. n /\ \A i \in 1 .. n : channels[i] \in Tagged
  OBVIOUS
<1> HIDE DEF n
<1>3. /\ \A i \in 0 .. n : f[i] \in Few
      /\ f[0] = <<>>
      /\ \A i \in 1 .. n : f[i] = register_channel(f[i - 1], channels[i])
  BY <1>1 DEF RegisterRun, n
<1> DEFINE S == {i \in 0 .. n : \A k \in DOMAIN f[i] : f[i][k] \in C}
<1>4. 0 \in S
  BY <1>2, <1>3
<1>5. \A i \in 0 .. n - 1 : i \in S => i + 1 \in S
  <2>1. SUFFICES ASSUME NEW i \in 0 .. n - 1, i \in S PROVE i + 1 \in S
    OBVIOUS
  <2> DEFINE l == i + 1
  <2>2. l \in 1 .. n /\ l \in 0 .. n /\ l - 1 = i /\ i \in 0 .. n
    BY <1>2
  <2> HIDE DEF l
  <2>3. f[l] = register_channel(f[i], channels[l])
    BY <1>3, <2>2
  <2>4. f[i] \in Few /\ channels[l] \in Tagged /\ channels[l] \in C
    BY <1>2, <1>3, <2>2
  <2>5. \A k \in DOMAIN f[i] : f[i][k] \in C
    BY <2>1
  <2>6. \A k \in DOMAIN f[l] : f[l][k] \in C
    <3> HIDE DEF S
    <3> QED
      BY <2>3, <2>4, <2>5, RegistersGiven
  <2> QED
    BY <2>2, <2>6 DEF l
<1> HIDE DEF S
<1>6. n \in 0 .. n
  BY <1>2
<1>7. n \in S
  BY <1>2, <1>4, <1>5, <1>6, SetInduction
<1> QED
  BY <1>1, <1>3, <1>6, <1>7 DEF S

\* Whatever channels the application registers, in whatever order and however
\* often: at most eight get a slot, no two with the same tag, so that a tag names
\* one channel at most; and each slot holds one of them (register_channel of
\* TelemetryService.cpp).
THEOREM RegisteredAlone ==
  \A channels \in Seq(Tagged) :
    LET slots == Registered(channels)
    IN  /\ slots \in Slots
        /\ Len(slots) <= MaxChannels
        /\ \A k \in DOMAIN slots : \E j \in DOMAIN channels : slots[k] = channels[j]
<1> SUFFICES ASSUME NEW channels \in Seq(Tagged)
             PROVE  LET slots == Registered(channels)
                    IN  /\ slots \in Slots
                        /\ Len(slots) <= MaxChannels
                        /\ \A k \in DOMAIN slots : \E j \in DOMAIN channels : slots[k] = channels[j]
  OBVIOUS
<1> DEFINE C == {channels[j] : j \in DOMAIN channels}
           slots == Registered(channels)
<1>1. \A j \in DOMAIN channels : channels[j] \in C
  OBVIOUS
<1> HIDE DEF C
<1>2. slots \in Few /\ \A k \in DOMAIN slots : slots[k] \in C
  BY <1>1, RegisteredAreGiven
<1> HIDE DEF slots
<1>3. \A k \in DOMAIN slots : \E j \in DOMAIN channels : slots[k] = channels[j]
  BY <1>2 DEF C
<1> QED
  BY <1>2, <1>3 DEF Few, slots

\* The sending loop: frames of slot turns[k][1] with or without a netbuf.
Numbered(slots) == [seq : Nat, slot : DOMAIN slots, first : Int, last : Int]
Sending(s, slots) ==
  /\ s \in [seq_num : Nat, counter : [DOMAIN slots -> Nat], sent : Seq(Numbered(slots))]
  /\ \A j \in DOMAIN s.sent : s.seq_num - s.sent[j].seq >= Len(s.sent) - j

\* Packet k follows packet j of its stream, every number between them being that
\* of a packet sent of another stream.
Follows(sent, j, k) ==
  /\ j < k
  /\ sent[k].seq - sent[j].seq = k - j
  /\ \A l \in j .. k : sent[l].slot = sent[j].slot <=> l \in {j, k}

\* Since packet j nothing is missing and nothing of its stream was made.
Latest(s, j) ==
  /\ s.seq_num - s.sent[j].seq = Len(s.sent) - j
  /\ \A l \in j + 1 .. Len(s.sent) : s.sent[l].slot # s.sent[j].slot

Lossless(s, slots) ==
  /\ \A j, k \in DOMAIN s.sent :
       Follows(s.sent, j, k) =>
         s.sent[k].first = Produce(slots[s.sent[j].slot], s.sent[j].last, 1).first
  /\ \A j \in DOMAIN s.sent : Latest(s, j) => s.counter[s.sent[j].slot] = s.sent[j].last

LEMMA Counts ==
  ASSUME NEW ch, NEW counter \in Nat, NEW n \in Nat
  PROVE  Produce(ch, counter, n).first \in Int /\ Produce(ch, counter, n).next \in Nat
<1>1. 2 ^ 16 = 65536
  BY SMT
<1>2. (counter + 1) % 65536 \in Nat /\ (counter + n) % 65536 \in Nat /\ counter + n \in Nat
  BY SMT
<1>3. CASE ch.class = "Stress"
  BY <1>1, <1>2, <1>3, SMT DEF Produce
<1>4. CASE ch.class # "Stress"
  BY <1>2, <1>4, SMT DEF Produce
<1> QED
  BY <1>3, <1>4

LEMMA FrameKeepsLossless ==
  ASSUME NEW slots \in Seq(Channels), NEW s, Sending(s, slots), Lossless(s, slots),
         NEW i \in DOMAIN slots, NEW netbuf \in BOOLEAN
  PROVE  LET t == sendChannelFrame(s, slots, i, netbuf)
         IN  Sending(t, slots) /\ Lossless(t, slots)
<1> DEFINE n == Samples(slots[i].batch, slots[i].bytes)
           made == Produce(slots[i], s.counter[i], n)
           packet == [seq |-> s.seq_num + 1, slot |-> i, first |-> made.first, last |-> made.next]
           t == sendChannelFrame(s, slots, i, netbuf)
           m == Len(s.sent)
<1>1. /\ s.seq_num \in Nat /\ s.counter \in [DOMAIN slots -> Nat] /\ s.sent \in Seq(Numbered(slots))
      /\ m \in Nat /\ DOMAIN s.sent = 1 .. m
  BY DEF Sending
<1>10. \A j \in 1 .. m : /\ s.sent[j] \in Numbered(slots)
                         /\ s.seq_num - s.sent[j].seq >= m - j
  <2>1. \A j \in DOMAIN s.sent : s.seq_num - s.sent[j].seq >= Len(s.sent) - j
    BY DEF Sending
  <2>2. \A j \in 1 .. m : s.sent[j] \in Numbered(slots)
    BY <1>1
  <2>3. \A j \in 1 .. m : s.seq_num - s.sent[j].seq >= m - j
    BY <1>1, <2>1
  <2> QED
    BY <2>2, <2>3
<1>11. \A j \in 1 .. m : /\ s.sent[j].seq \in Nat
                         /\ s.sent[j].slot \in DOMAIN slots
                         /\ s.seq_num - s.sent[j].seq >= m - j
  BY <1>10 DEF Numbered
<1>2. slots[i] \in Channels
  OBVIOUS
<1>3. n \in Nat
  BY <1>2, SamplesFit DEF Channels
<1>4. CASE n = 0
  <2>1. t = s
    BY <1>4 DEF sendChannelFrame
  <2> QED
    BY <2>1
<1>5. CASE n # 0
  <2>1. t = [seq_num |-> s.seq_num + 1, counter |-> [s.counter EXCEPT ![i] = made.next],
             sent |-> IF netbuf THEN Append(s.sent, packet) ELSE s.sent]
    BY <1>5 DEF sendChannelFrame
  <2> HIDE DEF t, n
  <2>2. made.first \in Int /\ made.next \in Nat
    <3>1. s.counter[i] \in Nat
      BY <1>1
    <3> QED
      BY <1>3, <3>1, Counts
  <2>3. made.first = Produce(slots[i], s.counter[i], 1).first
    BY DEF Produce
  <2> HIDE DEF made
  <2>4. /\ t.seq_num = s.seq_num + 1
        /\ t.counter \in [DOMAIN slots -> Nat]
        /\ t.counter[i] = made.next
        /\ \A o \in DOMAIN slots : o # i => t.counter[o] = s.counter[o]
    BY <1>1, <2>1, <2>2
  <2>5. packet \in Numbered(slots)
    BY <1>1, <2>2 DEF Numbered
  <2>6. CASE ~ netbuf
    <3>1. t.sent = s.sent
      BY <2>1, <2>6
    <3>2. t \in [seq_num : Nat, counter : [DOMAIN slots -> Nat], sent : Seq(Numbered(slots))]
      BY <1>1, <2>1, <2>4, <2>6
    <3>3. ASSUME NEW j \in 1 .. m
          PROVE  /\ t.seq_num - t.sent[j].seq >= m - j
                 /\ t.seq_num - t.sent[j].seq # m - j
      <4>1. t.sent[j].seq \in Nat /\ s.seq_num - t.sent[j].seq >= m - j
        BY <1>11, <3>1
      <4> QED
        BY <1>1, <2>4, <4>1, SMTT(40)
    <3>4. Sending(t, slots)
      BY <1>1, <3>1, <3>2, <3>3 DEF Sending
    <3>5. \A j \in DOMAIN t.sent : ~ Latest(t, j)
      BY <1>1, <3>1, <3>3 DEF Latest
    <3>6. Lossless(t, slots)
      BY <3>1, <3>5, <1>5 DEF Lossless
    <3> QED
      BY <3>4, <3>6 DEF t
  <2>7. CASE netbuf
    <3>1. t.sent = Append(s.sent, packet)
      BY <2>1, <2>7
    <3>2. /\ t.sent \in Seq(Numbered(slots)) /\ Len(t.sent) = m + 1
          /\ \A j \in 1 .. m : t.sent[j] = s.sent[j]
          /\ t.sent[m + 1] = packet
      BY <1>1, <2>5, <3>1, Appended DEF IsAppended
    <3>3. packet.seq = s.seq_num + 1 /\ packet.slot = i /\ packet.first = made.first /\ packet.last = made.next
      OBVIOUS
    <3> HIDE DEF packet
    <3>4. DOMAIN t.sent = 1 .. m + 1 /\ \A j \in 1 .. m + 1 : j \in 1 .. m \/ j = m + 1
      BY <1>1, <3>2, SMT
    <3>5. ASSUME NEW j \in 1 .. m
          PROVE  /\ t.sent[j] = s.sent[j]
                 /\ s.sent[j].seq \in Nat
                 /\ s.sent[j].slot \in DOMAIN slots
                 /\ s.seq_num - s.sent[j].seq >= m - j
      BY <1>11, <3>2
    <3>6. t \in [seq_num : Nat, counter : [DOMAIN slots -> Nat], sent : Seq(Numbered(slots))]
      BY <1>1, <2>1, <2>4, <3>2
    <3>7. Sending(t, slots)
      <4>1. ASSUME NEW j \in 1 .. m + 1 PROVE t.seq_num - t.sent[j].seq >= (m + 1) - j
        <5>1. CASE j \in 1 .. m
          <6>1. t.sent[j].seq \in Nat /\ s.seq_num - t.sent[j].seq >= m - j
            BY <3>5, <5>1
          <6> QED
            BY <1>1, <2>4, <5>1, <6>1, SMTT(40)
        <5>2. CASE j = m + 1
          BY <1>1, <2>4, <3>2, <3>3, <5>2, SMT
        <5> QED
          BY <3>4, <5>1, <5>2
      <4> QED
        BY <3>2, <3>4, <3>6, <4>1 DEF Sending
    <3>8. ASSUME NEW j \in 1 .. m, t.seq_num - t.sent[j].seq = (m + 1) - j,
                 \A l \in j + 1 .. m : t.sent[l].slot # t.sent[j].slot
          PROVE  s.counter[s.sent[j].slot] = s.sent[j].last
      <4>1. s.seq_num - s.sent[j].seq = m - j
        <5>1. t.sent[j] = s.sent[j] /\ s.sent[j].seq \in Nat
          BY <3>5
        <5>2. t.seq_num - s.sent[j].seq = (m + 1) - j
          BY <3>8, <5>1
        <5>3. s.seq_num \in Nat /\ m \in Nat /\ t.seq_num = s.seq_num + 1
          BY <1>1, <2>4
        <5> HIDE DEF m, t
        <5> QED
          BY <5>1, <5>2, <5>3, SMTT(40)
      <4>2. \A l \in j + 1 .. m : l \in 1 .. m
        BY <1>1, SMT
      <4>3. \A l \in j + 1 .. m : s.sent[l].slot # s.sent[j].slot
        BY <3>2, <3>8, <4>2
      <4>4. Latest(s, j)
        BY <4>1, <4>3 DEF Latest
      <4> QED
        BY <1>1, <4>4 DEF Lossless
    <3>9. ASSUME NEW j \in 1 .. m + 1, Latest(t, j)
          PROVE  t.counter[t.sent[j].slot] = t.sent[j].last
      <4>1. CASE j \in 1 .. m
        <5>1. t.seq_num - t.sent[j].seq = (m + 1) - j /\ \A l \in j + 1 .. m + 1 : t.sent[l].slot # t.sent[j].slot
          BY <3>2, <3>9 DEF Latest
        <5>2. m + 1 \in j + 1 .. m + 1 /\ \A l \in j + 1 .. m : l \in j + 1 .. m + 1
          BY <1>1, <4>1, SMT
        <5>3. s.counter[s.sent[j].slot] = s.sent[j].last
          BY <3>8, <4>1, <5>1, <5>2
        <5>4. s.sent[j].slot # i
          BY <3>2, <3>3, <4>1, <5>1, <5>2
        <5> QED
          BY <2>4, <3>2, <3>5, <4>1, <5>3, <5>4
      <4>2. CASE j = m + 1
        BY <2>4, <3>2, <3>3, <4>2
      <4> QED
        BY <3>4, <4>1, <4>2
    <3>10. ASSUME NEW j \in 1 .. m + 1, NEW k \in 1 .. m + 1, Follows(t.sent, j, k)
           PROVE  t.sent[k].first = Produce(slots[t.sent[j].slot], t.sent[j].last, 1).first
      <4>1. /\ j < k
            /\ t.sent[k].seq - t.sent[j].seq = k - j
            /\ \A l \in j .. k : t.sent[l].slot = t.sent[j].slot <=> l \in {j, k}
        BY <3>10 DEF Follows
      <4>2. j \in 1 .. m /\ t.sent[j] = s.sent[j]
        BY <1>1, <3>2, <4>1, SMT
      <4>3. CASE k \in 1 .. m
        <5>1. t.sent[k] = s.sent[k] /\ \A l \in j .. k : l \in 1 .. m
          BY <1>1, <3>2, <4>2, <4>3, SMT
        <5>2. Follows(s.sent, j, k)
          BY <3>2, <4>1, <4>2, <5>1 DEF Follows
        <5> QED
          BY <1>1, <4>2, <4>3, <5>1, <5>2 DEF Lossless
      <4>4. CASE k = m + 1
        <5>1. k \in j .. k /\ \A l \in j + 1 .. m : l \in j .. k /\ l # j /\ l # k
          BY <1>1, <4>1, <4>4, SMT
        <5>2. t.sent[k].slot = t.sent[j].slot /\ \A l \in j + 1 .. m : t.sent[l].slot # t.sent[j].slot
          BY <4>1, <5>1
        <5>3. t.seq_num - t.sent[j].seq = (m + 1) - j
          BY <2>4, <3>2, <3>3, <4>1, <4>4
        <5>4. s.counter[s.sent[j].slot] = s.sent[j].last
          BY <3>8, <4>2, <5>2, <5>3
        <5>5. s.sent[j].slot = i
          BY <3>2, <3>3, <4>2, <4>4, <5>2
        <5> QED
          BY <2>3, <3>2, <3>3, <4>2, <4>4, <5>4, <5>5
      <4> QED
        BY <3>4, <4>3, <4>4
    <3>11. Lossless(t, slots)
      BY <3>4, <3>9, <3>10 DEF Lossless
    <3> QED
      BY <3>7, <3>11 DEF t
  <2> QED
    BY <2>6, <2>7
<1> QED
  BY <1>4, <1>5

\* No sample is missing between packets that follow one another.
NoneMissing(sent, slots) ==
  \A j, k \in DOMAIN sent :
    Follows(sent, j, k) => sent[k].first = Produce(slots[sent[j].slot], sent[j].last, 1).first

\* f[k] is the loop's state after k frames, turn k making one of channel
\* turns[k][1], with a netbuf or without.
SendsAll(f, slots, n, turns, counter) ==
  /\ f[0] = [seq_num |-> 0, counter |-> counter, sent |-> <<>>]
  /\ \A k \in 1 .. n : f[k] = sendChannelFrame(f[k - 1], slots, turns[k][1], turns[k][2])

\* However many frames of whichever channels are made, with or without a netbuf
\* to be had: two packets of a stream between which no number is missing and no
\* packet of that stream lies have no sample missing between them
\* (sendChannelFrame of TelemetryService.cpp, produce_samples of
\* ITelemetryChannel.h; the run sends four frames).
THEOREM NoGapIsNoLoss ==
  ASSUME NEW slots \in Seq(Channels), NEW n \in Nat, NEW turns \in [1 .. n -> (DOMAIN slots) \X BOOLEAN],
         NEW counter \in [DOMAIN slots -> Nat], NEW f, SendsAll(f, slots, n, turns, counter)
  PROVE  NoneMissing(f[n].sent, slots)
<1> USE DEF SendsAll
<1> DEFINE S == {k \in 0 .. n : Sending(f[k], slots) /\ Lossless(f[k], slots)}
<1>1. 0 \in S
  <2>1. f[0].seq_num = 0 /\ f[0].counter = counter /\ f[0].sent = <<>> /\ DOMAIN f[0].sent = {}
    OBVIOUS
  <2>2. f[0] \in [seq_num : Nat, counter : [DOMAIN slots -> Nat], sent : Seq(Numbered(slots))]
    OBVIOUS
  <2>3. Sending(f[0], slots)
    BY <2>1, <2>2 DEF Sending
  <2>4. Lossless(f[0], slots)
    BY <2>1 DEF Lossless
  <2>5. 0 \in 0 .. n
    OBVIOUS
  <2> QED
    BY <2>3, <2>4, <2>5
<1>2. \A k \in 0 .. n - 1 : k \in S => k + 1 \in S
  <2>1. SUFFICES ASSUME NEW k \in 0 .. n - 1, k \in S PROVE k + 1 \in S
    OBVIOUS
  <2> DEFINE l == k + 1
  <2>2. l \in 1 .. n /\ l \in 0 .. n /\ l - 1 = k
    OBVIOUS
  <2> HIDE DEF l
  <2>3. f[l] = sendChannelFrame(f[k], slots, turns[l][1], turns[l][2])
    BY <2>2
  <2>4. turns[l][1] \in DOMAIN slots /\ turns[l][2] \in BOOLEAN
    BY <2>2
  <2>5. Sending(f[l], slots) /\ Lossless(f[l], slots)
    BY <2>1, <2>3, <2>4, FrameKeepsLossless
  <2> QED
    BY <2>2, <2>5 DEF l
<1> HIDE DEF S
<1>3. n \in S
  <2>1. n \in 0 .. n
    OBVIOUS
  <2> QED
    BY <1>1, <1>2, <2>1, SetInduction
<1> QED
  BY <1>3 DEF S, Lossless, NoneMissing

-----------------------------------------------------------------------------
(* The command line.                                                        *)

LEMMA Extremes ==
  ASSUME NEW n \in Nat, NEW S \in SUBSET (1 .. n), S # {}
  PROVE  /\ \E x \in S : \A y \in S : x <= y
         /\ \E x \in S : \A y \in S : x >= y
<1>1. \E x \in S : \A y \in S : x <= y
  <2>1. S \in SUBSET Nat
    OBVIOUS
  <2>2. PICK x \in S : \A y \in S : ~ (y < x)
    BY <2>1, LeastElement
  <2>3. \A y \in S : x <= y
    BY <2>1, <2>2
  <2> QED
    BY <2>3
<1>2. \E x \in S : \A y \in S : x >= y
  <2> DEFINE T == {n - i : i \in S}
  <2>1. T \in SUBSET Nat /\ T # {}
    <3>1. \A i \in S : n - i \in Nat
      OBVIOUS
    <3> QED
      BY <3>1, Zenon
  <2> HIDE DEF T
  <2>2. PICK t \in T : \A u \in T : ~ (u < t)
    BY <2>1, LeastElement
  <2>3. PICK x \in S : t = n - x
    BY <2>2 DEF T
  <2>4. ASSUME NEW y \in S PROVE x >= y
    <3>1. n - y \in T
      BY DEF T
    <3>2. ~ (n - y < n - x)
      BY <2>2, <2>3, <3>1
    <3> QED
      BY <3>2
  <2> QED
    BY <2>4
<1> QED
  BY <1>1, <1>2

Ends(line) == {i \in DOMAIN line : line[i] \notin {CR, LF, Space}}
Begins(line) == {i \in DOMAIN line : line[i] \notin {Space, TAB}}
Reaches(line, b, e) ==
  /\ b \in Begins(line)
  /\ e \in Ends(line)
  /\ \A j \in Begins(line) : b <= j
  /\ \A j \in Ends(line) : e >= j

LEMMA StrippedIs ==
  ASSUME NEW B, NEW line \in Seq(B), NEW b, NEW e, Reaches(line, b, e)
  PROVE  Stripped(line) = SubSeq(line, b, e)
<1>1. Ends(line) \in SUBSET Nat /\ Begins(line) \in SUBSET Nat
  BY DEF Ends, Begins
<1>2. b = CHOOSE i \in Begins(line) : \A j \in Begins(line) : i <= j
  <2>1. \A i \in Begins(line) : (\A j \in Begins(line) : i <= j) => i = b
    BY <1>1 DEF Reaches
  <2> QED
    BY <2>1 DEF Reaches
<1>3. e = CHOOSE i \in Ends(line) : \A j \in Ends(line) : i >= j
  <2>1. \A i \in Ends(line) : (\A j \in Ends(line) : i >= j) => i = e
    BY <1>1 DEF Reaches
  <2> QED
    BY <2>1 DEF Reaches
<1>4. Stripped(line) = IF Ends(line) = {} \/ Begins(line) = {} THEN <<>>
                       ELSE SubSeq(line, CHOOSE i \in Begins(line) : \A j \in Begins(line) : i <= j,
                                         CHOOSE i \in Ends(line) : \A j \in Ends(line) : i >= j)
  BY Zenon DEF Stripped, Ends, Begins
<1>5. Ends(line) # {} /\ Begins(line) # {}
  BY DEF Reaches
<1> QED
  BY <1>2, <1>3, <1>4, <1>5

LEMMA LineReaches ==
  ASSUME NEW B, NEW line \in Seq(B), Ends(line) # {}, Begins(line) # {}
  PROVE  \E b, e : Reaches(line, b, e)
<1>1. Len(line) \in Nat /\ Ends(line) \in SUBSET (1 .. Len(line)) /\ Begins(line) \in SUBSET (1 .. Len(line))
  BY DEF Ends, Begins
<1>2. PICK b \in Begins(line) : \A j \in Begins(line) : b <= j
  BY <1>1, Extremes
<1>3. PICK e \in Ends(line) : \A j \in Ends(line) : e >= j
  BY <1>1, Extremes
<1> QED
  BY <1>2, <1>3 DEF Reaches

LEMMA NothingLeft ==
  ASSUME NEW line, Ends(line) = {} \/ Begins(line) = {}
  PROVE  Stripped(line) = <<>>
BY DEF Stripped, Ends, Begins

LEMMA SubSeqIs ==
  ASSUME NEW B, NEW s \in Seq(B), NEW b \in 1 .. Len(s), NEW e \in 1 .. Len(s)
  PROVE  /\ SubSeq(s, b, e) \in Seq(B)
         /\ Len(SubSeq(s, b, e)) = IF b <= e THEN e - b + 1 ELSE 0
         /\ \A i \in 1 .. e - b + 1 : SubSeq(s, b, e)[i] = s[b + i - 1]
<1>1. \A i \in b .. e : s[i] \in B
  OBVIOUS
<1> QED
  BY <1>1, SubSeqProperties

LEMMA StrippedAround ==
  ASSUME NEW B, NEW line \in Seq(B), NEW before \in Seq(B), NEW behind \in Seq(B),
         \A i \in DOMAIN before : before[i] \in {Space, TAB},
         \A i \in DOMAIN behind : behind[i] \in {CR, LF, Space}
  PROVE  Stripped((before \o line) \o behind) = Stripped(line)
<1> DEFINE front == before \o line
           whole == front \o behind
           p == Len(before)
           n == Len(line)
           q == Len(behind)
<1>1. p \in Nat /\ n \in Nat /\ q \in Nat
  OBVIOUS
<1>2. IsJoined(front, before, line, B)
  BY Joined
<1>3. front \in Seq(B)
  BY <1>2 DEF IsJoined
<1> HIDE DEF front
<1>4. IsJoined(whole, front, behind, B)
  BY <1>3, Joined
<1> HIDE DEF whole
<1>5. /\ whole \in Seq(B) /\ Len(whole) = p + n + q
      /\ \A i \in 1 .. p : whole[i] = before[i]
      /\ \A i \in 1 .. n : whole[p + i] = line[i]
      /\ \A i \in 1 .. q : whole[p + n + i] = behind[i]
  <2>1. whole \in Seq(B) /\ Len(front) = p + n /\ Len(whole) = p + n + q
    BY <1>1, <1>2, <1>4 DEF IsJoined
  <2>2. \A i \in 1 .. p : whole[i] = before[i]
    BY <1>1, <1>2, <1>4, <2>1 DEF IsJoined
  <2>3. \A i \in 1 .. n : p + i \in 1 .. Len(front) /\ front[p + i] = line[i]
    BY <1>1, <1>2, <2>1 DEF IsJoined
  <2>4. \A i \in 1 .. n : whole[p + i] = line[i]
    BY <1>4, <2>3 DEF IsJoined
  <2>5. \A i \in 1 .. q : whole[p + n + i] = behind[i]
    BY <1>4, <2>1 DEF IsJoined
  <2> QED
    BY <2>1, <2>2, <2>4, <2>5
<1> HIDE DEF p, n, q
<1>6. /\ DOMAIN whole = 1 .. p + n + q /\ DOMAIN line = 1 .. n
      /\ DOMAIN before = 1 .. p /\ DOMAIN behind = 1 .. q
  BY <1>1, <1>5 DEF p, n, q
<1>7. ASSUME NEW j \in Begins(whole)
      PROVE  /\ j \in Int /\ j > p
             /\ j <= p + n => j - p \in Begins(line)
  <2>1. j \in 1 .. p + n + q /\ whole[j] \notin {Space, TAB}
    BY <1>6 DEF Begins
  <2>2. j \notin 1 .. p
    BY <1>5, <1>6, <2>1
  <2>3. CASE j <= p + n
    <3>1. j - p \in 1 .. n /\ p + (j - p) = j
      BY <1>1, <2>1, <2>2, <2>3
    <3>2. line[j - p] = whole[j]
      BY <1>5, <3>1
    <3> QED
      BY <1>1, <1>6, <2>1, <2>2, <3>1, <3>2 DEF Begins
  <2> QED
    BY <1>1, <2>1, <2>2, <2>3
<1>8. ASSUME NEW j \in Ends(whole)
      PROVE  /\ j \in Int /\ j >= 1 /\ j <= p + n
             /\ j > p => j - p \in Ends(line)
  <2>1. j \in 1 .. p + n + q /\ whole[j] \notin {CR, LF, Space}
    BY <1>6 DEF Ends
  <2>2. j <= p + n
    <3>1. ASSUME j > p + n PROVE FALSE
      <4>1. j - (p + n) \in 1 .. q /\ p + n + (j - (p + n)) = j
        BY <1>1, <2>1, <3>1
      <4>2. whole[j] = behind[j - (p + n)]
        BY <1>5, <4>1
      <4> QED
        BY <1>6, <2>1, <4>1, <4>2
    <3> QED
      BY <1>1, <2>1, <3>1
  <2>3. CASE j > p
    <3>1. j - p \in 1 .. n /\ p + (j - p) = j
      BY <1>1, <2>1, <2>2, <2>3
    <3>2. line[j - p] = whole[j]
      BY <1>5, <3>1
    <3> QED
      BY <1>1, <1>6, <2>1, <2>2, <3>1, <3>2 DEF Ends
  <2> QED
    BY <1>1, <2>1, <2>2, <2>3
<1>9. /\ \A i \in Begins(line) : i \in 1 .. n /\ p + i \in Begins(whole)
      /\ \A i \in Ends(line) : i \in 1 .. n /\ p + i \in Ends(whole)
  <2>1. \A i \in 1 .. n : p + i \in 1 .. p + n + q /\ whole[p + i] = line[i]
    BY <1>1, <1>5
  <2> QED
    BY <1>6, <2>1 DEF Begins, Ends
<1>10. CASE Begins(line) # {} /\ Ends(line) # {}
  <2>1. PICK b, e : Reaches(line, b, e)
    BY <1>10, LineReaches
  <2>2. b \in 1 .. n /\ e \in 1 .. n /\ p + b \in Begins(whole) /\ p + e \in Ends(whole)
    BY <1>9, <2>1 DEF Reaches
  <2>3. ASSUME NEW j \in Begins(whole) PROVE p + b <= j
    <3>1. CASE j <= p + n
      <4>1. j - p \in Begins(line) /\ j \in Int
        BY <1>7, <3>1
      <4>2. b <= j - p
        BY <2>1, <4>1 DEF Reaches
      <4> QED
        BY <1>1, <2>2, <4>1, <4>2
    <3>2. CASE j > p + n
      BY <1>1, <1>7, <2>2, <3>2
    <3> QED
      BY <1>1, <1>7, <3>1, <3>2
  <2>4. ASSUME NEW j \in Ends(whole) PROVE p + e >= j
    <3>1. CASE j > p
      <4>1. j - p \in Ends(line) /\ j \in Int
        BY <1>8, <3>1
      <4>2. e >= j - p
        BY <2>1, <4>1 DEF Reaches
      <4> QED
        BY <1>1, <2>2, <4>1, <4>2
    <3>2. CASE j <= p
      BY <1>1, <1>8, <2>2, <3>2
    <3> QED
      BY <1>1, <1>8, <3>1, <3>2
  <2>5. Reaches(whole, p + b, p + e)
    BY <2>2, <2>3, <2>4 DEF Reaches
  <2>6. Stripped(whole) = SubSeq(whole, p + b, p + e) /\ Stripped(line) = SubSeq(line, b, e)
    BY <1>5, <2>1, <2>5, StrippedIs
  <2>7. /\ SubSeq(line, b, e) \in Seq(B)
        /\ Len(SubSeq(line, b, e)) = IF b <= e THEN e - b + 1 ELSE 0
        /\ \A i \in 1 .. e - b + 1 : SubSeq(line, b, e)[i] = line[b + i - 1]
    <3>1. b \in 1 .. Len(line) /\ e \in 1 .. Len(line)
      BY <2>2 DEF n
    <3> QED
      BY <3>1, SubSeqIs
  <2> DEFINE c == p + b
             d == p + e
  <2>8. /\ SubSeq(whole, c, d) \in Seq(B)
        /\ Len(SubSeq(whole, c, d)) = IF c <= d THEN d - c + 1 ELSE 0
        /\ \A i \in 1 .. d - c + 1 : SubSeq(whole, c, d)[i] = whole[c + i - 1]
    <3>1. c \in 1 .. Len(whole) /\ d \in 1 .. Len(whole)
      BY <1>1, <1>5, <2>2
    <3> HIDE DEF c, d
    <3> QED
      BY <1>5, <3>1, SubSeqIs
  <2>9. d - c + 1 = e - b + 1 /\ (c <= d <=> b <= e) /\ \A i \in 1 .. e - b + 1 : c + i - 1 = p + (b + i - 1)
    BY <1>1, <2>2
  <2>10. \A i \in 1 .. e - b + 1 : b + i - 1 \in 1 .. n
    BY <1>1, <2>2
  <2> HIDE DEF c, d
  <2>11. Len(SubSeq(whole, c, d)) = Len(SubSeq(line, b, e))
    BY <2>7, <2>8, <2>9
  <2>12. \A i \in 1 .. Len(SubSeq(whole, c, d)) : i \in 1 .. e - b + 1
    BY <1>1, <2>2, <2>8, <2>9
  <2>13. \A i \in 1 .. Len(SubSeq(whole, c, d)) : SubSeq(whole, c, d)[i] = SubSeq(line, b, e)[i]
    <3>1. TAKE i \in 1 .. Len(SubSeq(whole, c, d))
    <3>2. i \in 1 .. e - b + 1
      BY <2>12
    <3>3. SubSeq(whole, c, d)[i] = whole[p + (b + i - 1)]
      BY <2>8, <2>9, <3>2
    <3>4. whole[p + (b + i - 1)] = line[b + i - 1]
      BY <1>5, <2>10, <3>2
    <3> QED
      BY <2>7, <3>2, <3>3, <3>4
  <2>14. SubSeq(whole, c, d) = SubSeq(line, b, e)
    BY <2>7, <2>8, <2>11, <2>13, SameSeq
  <2> QED
    BY <2>6, <2>14 DEF whole, front, c, d
<1>11. CASE Begins(line) = {} \/ Ends(line) = {}
  <2>1. Stripped(line) = <<>>
    BY <1>11, NothingLeft
  <2>2. Stripped(whole) = <<>>
    <3>1. CASE Begins(whole) = {} \/ Ends(whole) = {}
      BY <3>1, NothingLeft
    <3>2. CASE Begins(whole) # {} /\ Ends(whole) # {}
      <4>1. PICK b, e : Reaches(whole, b, e)
        BY <1>5, <3>2, LineReaches
      <4>2. b \in Begins(whole) /\ e \in Ends(whole)
        BY <4>1 DEF Reaches
      <4>3. b \in Int /\ e \in Int /\ b > p /\ e <= p + n /\ e >= 1
        BY <1>7, <1>8, <4>2
      <4>4. e < b
        <5>1. CASE Begins(line) = {}
          <6>1. ~ (b <= p + n)
            BY <1>7, <4>2, <5>1
          <6> QED
            BY <1>1, <4>3, <6>1
        <5>2. CASE Ends(line) = {}
          <6>1. ~ (e > p)
            BY <1>8, <4>2, <5>2
          <6> QED
            BY <1>1, <4>3, <6>1
        <5> QED
          BY <1>11, <5>1, <5>2
      <4>5. Stripped(whole) = SubSeq(whole, b, e)
        BY <1>5, <4>1, StrippedIs
      <4>6. b \in 1 .. Len(whole) /\ e \in 1 .. Len(whole)
        BY <1>5, <1>6, <4>2 DEF Begins, Ends
      <4>7. SubSeq(whole, b, e) \in Seq(B) /\ Len(SubSeq(whole, b, e)) = IF b <= e THEN e - b + 1 ELSE 0
        BY <1>5, <4>6, SubSeqIs
      <4>8. Len(SubSeq(whole, b, e)) = 0
        BY <4>3, <4>4, <4>7
      <4> QED
        BY <4>5, <4>7, <4>8
    <3> QED
      BY <3>1, <3>2
  <2> QED
    BY <2>1, <2>2 DEF whole, front
<1> QED
  BY <1>10, <1>11

\* Whatever the line: spaces and tabs before it, and spaces, CR and LF behind it
\* mean nothing (CliEngine::execute of CliEngine.cpp), so that it is the same
\* command from a terminal, from a script and from CMD_CLI_EXEC.
THEOREM BlanksMeanNothing ==
  ASSUME NEW B, NEW line \in Seq(B), NEW before \in Seq(B), NEW behind \in Seq(B), NEW node,
         \A i \in DOMAIN before : before[i] \in {Space, TAB},
         \A i \in DOMAIN behind : behind[i] \in {CR, LF, Space}
  PROVE  execute(node, before \o line \o behind) = execute(node, line)
<1>1. Stripped((before \o line) \o behind) = Stripped(line)
  BY StrippedAround
<1> QED
  BY <1>1, SMT DEF execute

\* The nodes the commands find: what heartbeats report is what the engine does,
\* and no channel is enabled while it is off.
CliNodes == [features : SUBSET Flags, slots : Slots, engine : BOOLEAN, state : {"IDLE", "STREAMING"},
             aborted : BOOLEAN, led : LedPeriods, resetting : BOOLEAN]
Consistent(node) ==
  /\ node \in CliNodes
  /\ node.engine <=> node.state = "STREAMING"
  /\ \A i \in DOMAIN node.slots : node.slots[i].enabled => node.engine

\* after is node but for some of its fields.
SameBut(after, node, fields) ==
  /\ DOMAIN after = DOMAIN node
  /\ \A f \in DOMAIN node : f \notin fields => after[f] = node[f]

\* What a command that may change these fields makes of a node, and what it says.
Answers(r, node, fields) ==
  /\ Consistent(r.node)
  /\ SameBut(r.node, node, fields)
  /\ r.answer # "OK" => SameBut(r.node, node, {"resetting"})
  /\ r.answer = "ERR" => r.node = node

LEMMA Untouched ==
  ASSUME NEW node, Consistent(node), NEW answer, NEW fields
  PROVE  Answers(Result(node, answer), node, fields)
BY DEF Answers, Result, SameBut

LEMMA Changed ==
  ASSUME NEW node, NEW after, Consistent(after), NEW fields, SameBut(after, node, fields)
  PROVE  Answers(Result(after, "OK"), node, fields)
BY DEF Answers, Result

LEMMA FlagNamed ==
  ASSUME NEW name, parse_feature_name(name) # "NONE"
  PROVE  parse_feature_name(name) \in Flags
<1>1. name \in DOMAIN FeatureNames /\ parse_feature_name(name) = FeatureNames[name]
  BY DEF parse_feature_name
<1>2. \A f \in DOMAIN FeatureNames : FeatureNames[f] \in Flags
  BY DEF FeatureNames, Flags, FeatureBit
<1> QED
  BY <1>1, <1>2

LEMMA FeatureIsSet ==
  ASSUME NEW node, Consistent(node), NEW flag \in Flags, NEW enable \in BOOLEAN
  PROVE  /\ Consistent(set_feature(node, flag, enable))
         /\ SameBut(set_feature(node, flag, enable), node, {"features"})
<1> DEFINE features == IF enable THEN node.features \cup {flag} ELSE node.features \ {flag}
           after == [node EXCEPT !.features = features]
<1>1. set_feature(node, flag, enable) = after
  BY DEF set_feature
<1>2. node \in CliNodes /\ features \in SUBSET Flags
  BY DEF Consistent, CliNodes
<1> HIDE DEF features
<1>3. after \in CliNodes /\ SameBut(after, node, {"features"})
  BY <1>2 DEF CliNodes, SameBut
<1>4. after.engine = node.engine /\ after.state = node.state /\ after.slots = node.slots
  BY <1>2 DEF CliNodes
<1> HIDE DEF after
<1> QED
  BY <1>1, <1>3, <1>4 DEF Consistent

LEMMA StreamsStart ==
  ASSUME NEW node, Consistent(node), NEW req, req.rate \in Nat, req.batch \in Nat
  PROVE  /\ Consistent(start_telemetry(node, req))
         /\ SameBut(start_telemetry(node, req), node, {"slots", "engine", "state"})
<1> DEFINE slots == start_streaming(node.slots, req)
           after == [node EXCEPT !.slots = slots, !.engine = TRUE, !.state = "STREAMING"]
<1>1. start_telemetry(node, req) = after
  BY DEF start_telemetry
<1>2. node \in CliNodes /\ node.slots \in Slots
  BY DEF Consistent, CliNodes
<1>3. slots \in Slots
  BY <1>2, SlotsStay
<1> HIDE DEF slots
<1>4. after \in CliNodes /\ SameBut(after, node, {"slots", "engine", "state"})
  BY <1>2, <1>3 DEF CliNodes, SameBut
<1>5. after.engine = TRUE /\ after.state = "STREAMING"
  BY <1>2 DEF CliNodes
<1> HIDE DEF after
<1> QED
  BY <1>1, <1>4, <1>5 DEF Consistent

LEMMA Disabled ==
  ASSUME NEW ch \in Channels
  PROVE  LET off == [ch EXCEPT !.enabled = FALSE]
         IN  off \in Channels /\ off.tag = ch.tag /\ ~ off.enabled
BY DEF Channels

LEMMA StoppedSlots ==
  ASSUME NEW slots \in Slots, NEW tag
  PROVE  /\ stop_streaming(slots, tag) \in Slots
         /\ DOMAIN stop_streaming(slots, tag) = DOMAIN slots
         /\ TagsKept(stop_streaming(slots, tag), slots)
<1> DEFINE after == stop_streaming(slots, tag)
<1>1. DOMAIN slots = 1 .. Len(slots) /\ Len(slots) \in Nat /\ \A i \in DOMAIN slots : slots[i] \in Channels
  BY SMT DEF Slots
<1>2. \A i, j \in DOMAIN slots : slots[i].tag = slots[j].tag => i = j
  BY SMT DEF Slots
<1>3. \A i \in DOMAIN slots : slots[i].tag > 65535
  BY SMT DEF Slots
<1>4. \A i \in DOMAIN slots : after[i] \in Channels /\ after[i].tag = slots[i].tag
  <2>1. SUFFICES ASSUME NEW i \in DOMAIN slots PROVE after[i] \in Channels /\ after[i].tag = slots[i].tag
    OBVIOUS
  <2> DEFINE off == [slots[i] EXCEPT !.enabled = FALSE]
  <2>2. after[i] = off \/ after[i] = slots[i]
    BY DEF stop_streaming
  <2>3. off \in Channels /\ off.tag = slots[i].tag
    BY <1>1, Disabled
  <2> HIDE DEF after, off
  <2> QED
    BY <1>1, <2>2, <2>3
<1>5. after = [i \in 1 .. Len(slots) |-> after[i]]
  BY <1>1, SMT DEF stop_streaming
<1> HIDE DEF after
<1>6. after \in Seq(Channels) /\ DOMAIN after = DOMAIN slots
  BY <1>1, <1>4, <1>5, SMT
<1>7. TagsKept(after, slots)
  BY <1>4, <1>6 DEF TagsKept
<1> QED
  BY <1>2, <1>3, <1>4, <1>6, <1>7, SMT DEF Slots, after

LEMMA StreamsStop ==
  ASSUME NEW node, Consistent(node), NEW tag
  PROVE  /\ Consistent(stop_telemetry(node, tag))
         /\ SameBut(stop_telemetry(node, tag), node, {"slots", "engine", "state"})
         /\ stop_telemetry(node, tag).slots = stop_streaming(node.slots, tag)
         /\ stop_telemetry(node, tag).engine <=>
              \E i \in DOMAIN node.slots : stop_streaming(node.slots, tag)[i].enabled
<1> DEFINE slots == stop_streaming(node.slots, tag)
           any == \E i \in DOMAIN slots : slots[i].enabled
           state == IF any THEN node.state ELSE "IDLE"
           after == [node EXCEPT !.slots = slots, !.engine = any, !.state = state]
<1>1. stop_telemetry(node, tag) = after
  BY DEF stop_telemetry
<1>2. node \in CliNodes /\ node.slots \in Slots
  BY DEF Consistent, CliNodes
<1>3. slots \in Slots /\ DOMAIN slots = DOMAIN node.slots
  BY <1>2, StoppedSlots
<1>4. ASSUME any PROVE node.engine /\ node.state = "STREAMING"
  <2>1. PICK i \in DOMAIN slots : slots[i].enabled
    BY <1>4
  <2>2. node.slots[i] \in Channels
    BY <1>2, <1>3, SMT DEF Slots
  <2>3. node.slots[i].enabled
    <3>1. CASE slots[i] = node.slots[i]
      BY <2>1, <3>1
    <3>2. CASE slots[i] = [node.slots[i] EXCEPT !.enabled = FALSE]
      BY <2>1, <2>2, <3>2, Disabled
    <3> QED
      BY <1>3, <3>1, <3>2 DEF stop_streaming
  <2> QED
    BY <1>3, <2>3 DEF Consistent
<1>5. state \in {"IDLE", "STREAMING"} /\ (any <=> state = "STREAMING")
  BY <1>2, <1>4 DEF CliNodes
<1>6. any \in BOOLEAN
  OBVIOUS
<1>7. \A i \in DOMAIN slots : slots[i].enabled => any
  OBVIOUS
<1> HIDE DEF slots, any, state
<1>8. after \in CliNodes /\ SameBut(after, node, {"slots", "engine", "state"})
  BY <1>2, <1>3, <1>5, <1>6 DEF CliNodes, SameBut
<1>9. after.engine = any /\ after.state = state /\ after.slots = slots
  BY <1>2 DEF CliNodes
<1> HIDE DEF after
<1>10. Consistent(after)
  BY <1>5, <1>6, <1>7, <1>8, <1>9 DEF Consistent
<1>11. after.engine <=> \E i \in DOMAIN node.slots : stop_streaming(node.slots, tag)[i].enabled
  BY <1>3, <1>9 DEF any, slots
<1> QED
  BY <1>1, <1>8, <1>9, <1>10, <1>11 DEF slots

LEMMA AbortedIs ==
  ASSUME NEW node, Consistent(node)
  PROVE  LET after == [node EXCEPT !.aborted = TRUE]
         IN  Consistent(after) /\ SameBut(after, node, {"aborted"})
<1> DEFINE after == [node EXCEPT !.aborted = TRUE]
<1>1. node \in CliNodes
  BY DEF Consistent
<1>2. after \in CliNodes /\ SameBut(after, node, {"aborted"})
  BY <1>1 DEF CliNodes, SameBut
<1>3. after.engine = node.engine /\ after.state = node.state /\ after.slots = node.slots
  BY <1>1 DEF CliNodes
<1> HIDE DEF after
<1>4. Consistent(after)
  BY <1>2, <1>3 DEF Consistent
<1> QED
  BY <1>2, <1>4 DEF after

LEMMA BlinkRateIs ==
  ASSUME NEW node, Consistent(node), NEW ms \in LedPeriods
  PROVE  Consistent(set_blink_rate(node, ms)) /\ SameBut(set_blink_rate(node, ms), node, {"led"})
<1> DEFINE after == [node EXCEPT !.led = ms]
<1>1. node \in CliNodes /\ set_blink_rate(node, ms) = after
  BY DEF Consistent, set_blink_rate
<1>2. after \in CliNodes /\ SameBut(after, node, {"led"})
  BY <1>1 DEF CliNodes, SameBut
<1>3. after.engine = node.engine /\ after.state = node.state /\ after.slots = node.slots
  BY <1>1 DEF CliNodes
<1> HIDE DEF after
<1> QED
  BY <1>1, <1>2, <1>3 DEF Consistent

LEMMA RebootIs ==
  ASSUME NEW node, Consistent(node)
  PROVE  Answers(cmd_reboot(node), node, {"resetting"})
<1> DEFINE after == [node EXCEPT !.resetting = TRUE]
<1>1. node \in CliNodes /\ cmd_reboot(node) = Result(after, "shown")
  BY DEF Consistent, cmd_reboot, reboot
<1>2. after \in CliNodes /\ SameBut(after, node, {"resetting"})
  BY <1>1 DEF CliNodes, SameBut
<1>3. after.engine = node.engine /\ after.state = node.state /\ after.slots = node.slots
  BY <1>1 DEF CliNodes
<1> HIDE DEF after
<1>4. Consistent(after)
  BY <1>1, <1>2, <1>3 DEF Consistent
<1> QED
  BY <1>1, <1>2, <1>4 DEF Answers, Result

LEMMA FeatureAnswers ==
  ASSUME NEW node, Consistent(node), NEW args
  PROVE  Answers(cmd_feature(node, args), node, {"features"})
<1> DEFINE named == Len(args) > 1 /\ Len(args[2]) = 1
           flag == IF named THEN parse_feature_name(args[2][1]) ELSE "NONE"
           enable == args[1] = <<"enable">>
<1>1. CASE \E answer : cmd_feature(node, args) = Result(node, answer)
  BY <1>1, Untouched
<1>2. CASE flag # "NONE" /\ cmd_feature(node, args) = Result(set_feature(node, flag, enable), "OK")
  <2>1. flag \in Flags
    BY <1>2, FlagNamed
  <2>2. enable \in BOOLEAN
    OBVIOUS
  <2> HIDE DEF flag, enable
  <2>3. Consistent(set_feature(node, flag, enable)) /\ SameBut(set_feature(node, flag, enable), node, {"features"})
    BY <2>1, <2>2, FeatureIsSet
  <2> QED
    BY <1>2, <2>3, Changed
<1> QED
  BY <1>1, <1>2 DEF cmd_feature

\* What a command takes a word for is a number where it asks for one.
LEMMA NumbersMeant == \A token : Meaning(token).number \in Nat
<1>1. SUFFICES ASSUME NEW token PROVE Meaning(token).number \in Nat
  OBVIOUS
<1>2. \A t : TagWord(t).number = 0
  BY DEF TagWord
<1>3. \A n \in Nat : NumberWord(n).number \in Nat
  <2>1. 2 ^ 16 = 65536
    BY SMT
  <2>2. \A n \in Nat : n % 65536 \in Nat
    BY SMT
  <2>3. \A n : NumberWord(n).number = n % 2 ^ 16
    BY SMT DEF NumberWord
  <2> QED
    BY <2>1, <2>2, <2>3, SMT
<1>4. 9 \in Nat /\ 10 \in Nat /\ 1000 \in Nat /\ 10000 \in Nat /\ 10001 \in Nat
  BY SMT
<1>5. \/ \E t : Meaning(token) = TagWord(t)
      \/ \E n \in Nat : Meaning(token) = NumberWord(n)
      \/ Meaning(token).number = 0
  BY <1>4, SMT DEF Meaning
<1> QED
  BY <1>2, <1>3, <1>5

\* The request a stream command makes.
LEMMA CliRequestIs ==
  ASSUME NEW k \in Nat, NEW words, DOMAIN words = 1 .. k, Len(words) = k,
         \A i \in 1 .. k : words[i].number \in Nat
  PROVE  CliStart(words).rate \in Nat /\ CliStart(words).batch = 0
<1>1. CliStart(words).rate \in {words[2].number, words[1].number, 0} /\ CliStart(words).batch = 0
  BY DEF CliStart
<1>2. CASE k = 2
  <2>1. 1 \in 1 .. k /\ 2 \in 1 .. k
    BY <1>2
  <2> QED
    BY <1>1, <2>1
<1>3. CASE k = 1
  <2>1. 1 \in 1 .. k /\ CliStart(words).rate \in {words[1].number, 0}
    BY <1>3 DEF CliStart
  <2> QED
    BY <1>1, <2>1
<1>4. CASE k # 1 /\ k # 2
  <2>1. CliStart(words).rate = 0
    BY <1>4 DEF CliStart
  <2> QED
    BY <1>1, <2>1
<1> QED
  BY <1>2, <1>3, <1>4

LEMMA StreamAnswers ==
  ASSUME NEW node, Consistent(node), NEW T, NEW args \in Seq(T)
  PROVE  Answers(cmd_stream(node, args), node, {"slots", "engine", "state"})
<1> DEFINE k == IF Len(args) > 3 THEN 2 ELSE Len(args) - 1
           words == [i \in 1 .. k |-> Meaning(args[i + 1])]
<1>1. CASE \E answer : cmd_stream(node, args) = Result(node, answer)
  BY <1>1, Untouched
<1>2. CASE args # <<>> /\ cmd_stream(node, args) = Result(start_telemetry(node, CliStart(words)), "OK")
  <2>1. k \in Nat
    BY <1>2
  <2> HIDE DEF k
  <2>2. DOMAIN words = 1 .. k /\ Len(words) = k /\ \A i \in 1 .. k : words[i].number \in Nat
    BY <2>1, NumbersMeant
  <2> HIDE DEF words
  <2>3. CliStart(words).rate \in Nat /\ CliStart(words).batch \in Nat
    BY <2>1, <2>2, CliRequestIs
  <2>4. /\ Consistent(start_telemetry(node, CliStart(words)))
        /\ SameBut(start_telemetry(node, CliStart(words)), node, {"slots", "engine", "state"})
    BY <2>3, StreamsStart
  <2> QED
    BY <1>2, <2>4, Changed
<1>3. CASE cmd_stream(node, args) = Result(stop_telemetry(node, CliStopTag(words)), "OK")
  <2> HIDE DEF words
  <2>1. /\ Consistent(stop_telemetry(node, CliStopTag(words)))
        /\ SameBut(stop_telemetry(node, CliStopTag(words)), node, {"slots", "engine", "state"})
    BY StreamsStop
  <2> QED
    BY <1>3, <2>1, Changed
<1>4. \/ \E answer : cmd_stream(node, args) = Result(node, answer)
      \/ args # <<>> /\ cmd_stream(node, args) = Result(start_telemetry(node, CliStart(words)), "OK")
      \/ cmd_stream(node, args) = Result(stop_telemetry(node, CliStopTag(words)), "OK")
  <2>1. cmd_stream(node, args) =
          IF args = <<>> \/ args[1] = <<"status">> THEN Result(node, "shown")
          ELSE IF args[1] = <<"start">>
               THEN IF "FEAT_TELEMETRY_STREAM" \in node.features
                    THEN Result(start_telemetry(node, CliStart(words)), "OK")
                    ELSE Result(node, "ERR")
          ELSE IF args[1] = <<"stop">> THEN Result(stop_telemetry(node, CliStopTag(words)), "OK")
          ELSE Result(node, "ERR")
    BY DEF cmd_stream
  <2> HIDE DEF words
  <2> QED
    BY <2>1
<1> QED
  BY <1>1, <1>2, <1>3, <1>4

LEMMA OtaAnswers ==
  ASSUME NEW node, Consistent(node), NEW args
  PROVE  Answers(cmd_ota(node, args), node, {"aborted"})
<1> DEFINE after == [node EXCEPT !.aborted = TRUE]
<1>1. CASE \E answer : cmd_ota(node, args) = Result(node, answer)
  BY <1>1, Untouched
<1>2. CASE cmd_ota(node, args) = Result(after, "OK")
  <2>1. Consistent(after) /\ SameBut(after, node, {"aborted"})
    BY AbortedIs
  <2> HIDE DEF after
  <2> QED
    BY <1>2, <2>1, Changed
<1> QED
  BY <1>1, <1>2 DEF cmd_ota

LEMMA LedAnswers ==
  ASSUME NEW node, Consistent(node), NEW args
  PROVE  Answers(cmd_led(node, args), node, {"led"})
<1> DEFINE ms == Meaning(args[1]).number
<1>1. CASE \E answer : cmd_led(node, args) = Result(node, answer)
  BY <1>1, Untouched
<1>2. CASE ms \in LedPeriods /\ cmd_led(node, args) = Result(set_blink_rate(node, ms), "OK")
  <2> HIDE DEF ms
  <2>1. Consistent(set_blink_rate(node, ms)) /\ SameBut(set_blink_rate(node, ms), node, {"led"})
    BY <1>2, BlinkRateIs
  <2> QED
    BY <1>2, <2>1, Changed
<1>3. cmd_led(node, args) = IF args = <<>> THEN Result(node, "shown")
                            ELSE IF ms \in LedPeriods THEN Result(set_blink_rate(node, ms), "OK")
                            ELSE Result(node, "ERR")
  BY SMT DEF cmd_led
<1> HIDE DEF ms
<1> QED
  BY <1>1, <1>2, <1>3

LEMMA TokensAreSeq ==
  ASSUME NEW B, NEW line \in Seq(B)
  PROVE  \E T : Tokens(line) \in Seq(T)
<1> DEFINE first == FirstOf(line)
           last(i) == LastOf(line, i)
           at(n) == Nth(first, n)
           c == Cardinality(first)
           word(n) == SubSeq(line, at(n), last(at(n)))
<1>1. Tokens(line) = [n \in 1 .. c |-> word(n)]
  BY DEF Tokens
<1>2. c \in Nat
  <2>1. IsFiniteSet(DOMAIN line)
    <3>1. IsFiniteSet(1 .. Len(line))
      BY FS_Interval
    <3> QED
      BY <3>1
  <2>2. first \subseteq DOMAIN line
    BY DEF FirstOf
  <2>3. IsFiniteSet(first)
    BY <2>1, <2>2, FS_Subset
  <2> QED
    BY <2>3, FS_CardinalityType
<1> HIDE DEF first, c, word
<1>3. \E T : Tokens(line) \in Seq(T)
  <2> DEFINE W == {word(n) : n \in 1 .. c}
  <2>1. \A n \in 1 .. c : word(n) \in W
    OBVIOUS
  <2> HIDE DEF W
  <2>2. Tokens(line) \in [1 .. c -> W]
    BY <1>1, <2>1
  <2> HIDE DEF c
  <2>3. Tokens(line) \in Seq(W)
    BY <1>2, <2>2
  <2> QED
    BY <2>3
<1> QED
  BY <1>3

LEMMA StrippedIsSeq ==
  ASSUME NEW B, NEW line \in Seq(B)
  PROVE  Stripped(line) \in Seq(B)
<1>1. CASE Ends(line) = {} \/ Begins(line) = {}
  <2>1. Stripped(line) = <<>>
    BY <1>1, NothingLeft
  <2>2. <<>> \in Seq(B)
    OBVIOUS
  <2> QED
    BY <2>1, <2>2
<1>2. CASE Ends(line) # {} /\ Begins(line) # {}
  <2>1. PICK b, e : Reaches(line, b, e)
    BY <1>2, LineReaches
  <2>2. b \in 1 .. Len(line) /\ e \in 1 .. Len(line)
    BY <2>1 DEF Reaches, Begins, Ends
  <2>3. SubSeq(line, b, e) \in Seq(B)
    BY <2>2, SubSeqIs
  <2> QED
    BY <2>1, <2>3, StrippedIs
<1> QED
  BY <1>1, <1>2

\* What a command makes of a node is true of its answer and of its first word.
True(r, node, first) ==
  /\ Consistent(r.node)
  /\ r.answer # "OK" => SameBut(r.node, node, {"resetting"})
  /\ r.answer = "ERR" => r.node = node
  /\ \A w : first = <<w>> => SameBut(r.node, node, OwnPart(w))

LEMMA UntouchedIsTrue ==
  ASSUME NEW node, Consistent(node), NEW answer, NEW first
  PROVE  True(Result(node, answer), node, first)
BY DEF True, Result, SameBut

LEMMA AnswersIsTrue ==
  ASSUME NEW node, NEW r, NEW w, Answers(r, node, OwnPart(w))
  PROVE  True(r, node, <<w>>)
<1>1. \A v : <<w>> = <<v>> => v = w
  OBVIOUS
<1> QED
  BY <1>1 DEF True, Answers

LEMMA OwnPartsAre ==
  /\ OwnPart("feature") = {"features"}
  /\ OwnPart("stream") = {"slots", "engine", "state"}
  /\ OwnPart("ota") = {"aborted"}
  /\ OwnPart("led") = {"led"}
  /\ OwnPart("reboot") = {"resetting"}
  /\ OwnPart("reset") = {"resetting"}
BY DEF OwnPart

\* The answers of CliEngine.cpp are true and a line leaves a node consistent,
\* whatever the line and the node: an answer that is no OK leaves the node as it
\* was, but for a reboot; an OK changes what the line's first word names and
\* nothing else; the engine runs as heartbeats report it, and no channel is
\* enabled while it does not (SystemController.cpp).  The run takes lines of four
\* words, at the nodes that two commands make.
THEOREM EveryAnswerIsTrue ==
  ASSUME NEW B, NEW line \in Seq(B), NEW node, Consistent(node)
  PROVE  LET r == execute(node, line)
         IN  /\ Consistent(r.node)
             /\ r.answer # "OK" => SameBut(r.node, node, {"resetting"})
             /\ r.answer = "ERR" => r.node = node
             /\ \A w : Tokens(Stripped(line))[1] = <<w>> => SameBut(r.node, node, OwnPart(w))
<1> DEFINE tokens == Tokens(Stripped(line))
           args == Tail(tokens)
           r == execute(node, line)
<1>1. PICK T : tokens \in Seq(T)
  BY StrippedIsSeq, TokensAreSeq
<1>2. r = IF tokens = <<>> THEN Result(node, "none")
          ELSE CASE tokens[1] \in {<<w>> : w \in Shows} -> Result(node, "shown")
                 [] tokens[1] = <<"feature">> -> cmd_feature(node, args)
                 [] tokens[1] = <<"stream">> -> cmd_stream(node, args)
                 [] tokens[1] = <<"ota">> -> cmd_ota(node, args)
                 [] tokens[1] = <<"led">> -> cmd_led(node, args)
                 [] tokens[1] \in {<<"reboot">>, <<"reset">>} -> cmd_reboot(node)
                 [] OTHER -> Result(node, "ERR")
  BY Zenon DEF execute
<1>3. tokens # <<>> => args \in Seq(T)
  BY <1>1
<1> HIDE DEF tokens, args, r
<1>4. True(r, node, tokens[1])
  <2>1. CASE \E answer : r = Result(node, answer)
    BY <2>1, UntouchedIsTrue
  <2>2. CASE tokens[1] = <<"feature">> /\ r = cmd_feature(node, args)
    <3>1. Answers(r, node, {"features"})
      BY <2>2, FeatureAnswers
    <3>2. Answers(r, node, OwnPart("feature"))
      BY <3>1, OwnPartsAre
    <3> QED
      BY <2>2, <3>2, AnswersIsTrue
  <2>3. CASE tokens # <<>> /\ tokens[1] = <<"stream">> /\ r = cmd_stream(node, args)
    <3>1. Answers(r, node, {"slots", "engine", "state"})
      BY <1>3, <2>3, StreamAnswers
    <3>2. Answers(r, node, OwnPart("stream"))
      BY <3>1, OwnPartsAre
    <3> QED
      BY <2>3, <3>2, AnswersIsTrue
  <2>4. CASE tokens[1] = <<"ota">> /\ r = cmd_ota(node, args)
    <3>1. Answers(r, node, {"aborted"})
      BY <2>4, OtaAnswers
    <3>2. Answers(r, node, OwnPart("ota"))
      BY <3>1, OwnPartsAre
    <3> QED
      BY <2>4, <3>2, AnswersIsTrue
  <2>5. CASE tokens[1] = <<"led">> /\ r = cmd_led(node, args)
    <3>1. Answers(r, node, {"led"})
      BY <2>5, LedAnswers
    <3>2. Answers(r, node, OwnPart("led"))
      BY <3>1, OwnPartsAre
    <3> QED
      BY <2>5, <3>2, AnswersIsTrue
  <2>6. CASE tokens[1] \in {<<"reboot">>, <<"reset">>} /\ r = cmd_reboot(node)
    <3>1. Answers(r, node, OwnPart("reboot")) /\ Answers(r, node, OwnPart("reset"))
      BY <2>6, RebootIs, OwnPartsAre
    <3>2. CASE tokens[1] = <<"reboot">>
      BY <3>1, <3>2, AnswersIsTrue
    <3>3. CASE tokens[1] = <<"reset">>
      BY <3>1, <3>3, AnswersIsTrue
    <3> QED
      BY <2>6, <3>2, <3>3
  <2> QED
    BY <1>2, <2>1, <2>2, <2>3, <2>4, <2>5, <2>6
<1> QED
  BY <1>4 DEF True, r, tokens

LEMMA TagIsLarge ==
  ASSUME NEW a \in Nat, NEW b \in Nat, NEW c \in Nat \ {0}, NEW d \in Nat
  PROVE  MAKE_FOURCC(a, b, c, d) \in Nat /\ MAKE_FOURCC(a, b, c, d) > 65535
<1>1. 2 ^ 8 = 256 /\ 2 ^ 16 = 65536 /\ 2 ^ 24 = 16777216
  BY SMT
<1> QED
  BY <1>1, SMT DEF MAKE_FOURCC

LEMMA TagsAre ==
  \A tag \in {"CNTR", "TEMP", "STR1", "STR6", "RAW0"} :
    StreamTags[tag] \in Nat /\ StreamTags[tag] > 65535
<1>1. \A tag \in {"CNTR", "TEMP", "STR1", "STR6", "RAW0"} :
        \E a \in Nat, b \in Nat, c \in Nat \ {0}, d \in Nat : StreamTags[tag] = MAKE_FOURCC(a, b, c, d)
  <2>1. StreamTags["CNTR"] = MAKE_FOURCC(\h43, \h4E, \h54, \h52)
    BY SMT DEF StreamTags
  <2>2. StreamTags["TEMP"] = MAKE_FOURCC(\h54, \h45, \h4D, \h50)
    BY SMT DEF StreamTags
  <2>3. StreamTags["STR1"] = MAKE_FOURCC(\h53, \h54, \h52, \h31)
    BY SMT DEF StreamTags
  <2>4. StreamTags["STR6"] = MAKE_FOURCC(\h53, \h54, \h52, \h36)
    BY SMT DEF StreamTags
  <2>5. StreamTags["RAW0"] = MAKE_FOURCC(\h52, \h41, \h57, \h30)
    BY SMT DEF StreamTags
  <2> QED
    BY <2>1, <2>2, <2>3, <2>4, <2>5, SMT
<1>2. SUFFICES ASSUME NEW tag \in {"CNTR", "TEMP", "STR1", "STR6", "RAW0"}
               PROVE  StreamTags[tag] \in Nat /\ StreamTags[tag] > 65535
  OBVIOUS
<1>3. PICK a \in Nat, b \in Nat, c \in Nat \ {0}, d \in Nat : StreamTags[tag] = MAKE_FOURCC(a, b, c, d)
  BY <1>1
<1>4. MAKE_FOURCC(a, b, c, d) \in Nat /\ MAKE_FOURCC(a, b, c, d) > 65535
  BY TagIsLarge
<1> QED
  BY <1>3, <1>4, SMT

LEMMA NodeChannelsAre ==
  /\ NodeChannels \in Seq(Tagged)
  /\ \A i \in DOMAIN NodeChannels : ~ NodeChannels[i].enabled
<1> DEFINE C == {ch \in Tagged : ~ ch.enabled}
<1>1. CounterChannel(10) \in C
  <2>1. CounterChannel(10) = Channel("Counter", "CNTR", 10, 1, 1, 4)
    BY DEF CounterChannel
  <2>2. StreamTags["CNTR"] \in Nat /\ StreamTags["CNTR"] > 65535
    BY TagsAre, SMT
  <2>3. Channel("Counter", "CNTR", 10, 1, 1, 4) \in Tagged /\ ~ Channel("Counter", "CNTR", 10, 1, 1, 4).enabled
    BY <2>2, SMT DEF Channel, Tagged, Channels
  <2> QED
    BY <2>1, <2>3, SMT
<1>2. TemperatureChannel(1) \in C
  <2>1. TemperatureChannel(1) = Channel("Temperature", "TEMP", 1, 1, 1, 4)
    BY DEF TemperatureChannel
  <2>2. StreamTags["TEMP"] \in Nat /\ StreamTags["TEMP"] > 65535
    BY TagsAre, SMT
  <2>3. Channel("Temperature", "TEMP", 1, 1, 1, 4) \in Tagged /\ ~ Channel("Temperature", "TEMP", 1, 1, 1, 4).enabled
    BY <2>2, SMT DEF Channel, Tagged, Channels
  <2> QED
    BY <2>1, <2>3, SMT
<1>3. StressTestChannel(16, "STR1", 1000, 45) \in C
  <2>1. StressTestChannel(16, "STR1", 1000, 45) = Channel("Stress", "STR1", 1000, 45, 16, 2)
    BY DEF StressTestChannel
  <2>2. StreamTags["STR1"] \in Nat /\ StreamTags["STR1"] > 65535
    BY TagsAre, SMT
  <2>3. Channel("Stress", "STR1", 1000, 45, 16, 2) \in Tagged /\ ~ Channel("Stress", "STR1", 1000, 45, 16, 2).enabled
    BY <2>2, SMT DEF Channel, Tagged, Channels
  <2> QED
    BY <2>1, <2>3, SMT
<1>4. StressTestChannel(64, "STR6", 5000, 11) \in C
  <2>1. StressTestChannel(64, "STR6", 5000, 11) = Channel("Stress", "STR6", 5000, 11, 64, 2)
    BY DEF StressTestChannel
  <2>2. StreamTags["STR6"] \in Nat /\ StreamTags["STR6"] > 65535
    BY TagsAre, SMT
  <2>3. Channel("Stress", "STR6", 5000, 11, 64, 2) \in Tagged /\ ~ Channel("Stress", "STR6", 5000, 11, 64, 2).enabled
    BY <2>2, SMT DEF Channel, Tagged, Channels
  <2> QED
    BY <2>1, <2>3, SMT
<1>5. StressTestChannel(64, "RAW0", 50000, 11) \in C
  <2>1. StressTestChannel(64, "RAW0", 50000, 11) = Channel("Stress", "RAW0", 50000, 11, 64, 2)
    BY DEF StressTestChannel
  <2>2. StreamTags["RAW0"] \in Nat /\ StreamTags["RAW0"] > 65535
    BY TagsAre, SMT
  <2>3. Channel("Stress", "RAW0", 50000, 11, 64, 2) \in Tagged /\ ~ Channel("Stress", "RAW0", 50000, 11, 64, 2).enabled
    BY <2>2, SMT DEF Channel, Tagged, Channels
  <2> QED
    BY <2>1, <2>3, SMT
<1> HIDE DEF C
<1>6. NodeChannels \in Seq(C)
  BY <1>1, <1>2, <1>3, <1>4, <1>5, SMT DEF NodeChannels
<1>7. \A i \in DOMAIN NodeChannels : NodeChannels[i] \in C
  BY <1>6, SMT
<1> QED
  BY <1>6, <1>7, SMT DEF C

LEMMA NodeIs ==
  /\ Node \in Slots
  /\ \A i \in DOMAIN Node : ~ Node[i].enabled
<1> DEFINE C == {ch \in Tagged : ~ ch.enabled}
<1>1. \A j \in DOMAIN NodeChannels : NodeChannels[j] \in C
  BY NodeChannelsAre
<1> HIDE DEF C
<1>2. Node \in Few /\ \A i \in DOMAIN Node : Node[i] \in C
  BY <1>1, NodeChannelsAre, RegisteredAreGiven DEF Node
<1> QED
  BY <1>2 DEF Few, C

\* A node is consistent when it comes up, with the channels the application has
\* registered (ethernetdev/main.cpp): by EveryAnswerIsTrue it stays so whatever
\* lines follow.
THEOREM PoweredUpConsistent ==
  \A features \in SUBSET Flags : Consistent(PoweredUp(features))
<1> SUFFICES ASSUME NEW features \in SUBSET Flags PROVE Consistent(PoweredUp(features))
  OBVIOUS
<1> DEFINE node == PoweredUp(features)
<1>1. node = [features |-> features, slots |-> Node, engine |-> FALSE, state |-> "IDLE",
              aborted |-> FALSE, led |-> 500, resetting |-> FALSE]
  BY DEF PoweredUp
<1>2. 500 \in LedPeriods
  BY SMT DEF LedPeriods
<1> HIDE DEF node
<1>3. node \in CliNodes
  BY <1>1, <1>2, NodeIs DEF CliNodes
<1>4. node.engine = FALSE /\ node.state = "IDLE" /\ node.slots = Node
  BY <1>1
<1>5. Consistent(node)
  BY <1>3, <1>4, NodeIs DEF Consistent
<1> QED
  BY <1>5 DEF node

\* A stop of all channels stops all and the engine with them, and a stop of the
\* channel that a start has started, with no other running, leaves the node as it
\* was (stop_telemetry of SystemController.cpp), for every node.
THEOREM StopUndoesStart ==
  ASSUME NEW node, Consistent(node)
  PROVE  /\ LET all == stop_telemetry(node, 0)
            IN  ~ all.engine /\ all.state = "IDLE" /\ \A i \in DOMAIN all.slots : ~ all.slots[i].enabled
         /\ \A i \in DOMAIN node.slots :
              LET tag == node.slots[i].tag
                  on == start_telemetry(node, [tag |-> tag, rate |-> 0, batch |-> 0])
              IN  ~ node.engine =>
                    /\ on.engine
                    /\ stop_telemetry(on, tag) = node
<1>1. node \in CliNodes /\ node.slots \in Slots
  BY DEF Consistent, CliNodes
<1>2. /\ DOMAIN node.slots = 1 .. Len(node.slots)
      /\ node.slots = [i \in DOMAIN node.slots |-> node.slots[i]]
      /\ \A i \in DOMAIN node.slots : node.slots[i] \in Channels
  BY <1>1, SMT DEF Slots
<1>3. \A i \in DOMAIN node.slots : node.slots[i].tag # 0
  BY <1>1, SMT DEF Slots
<1>4. LET all == stop_telemetry(node, 0)
      IN  ~ all.engine /\ all.state = "IDLE" /\ \A i \in DOMAIN all.slots : ~ all.slots[i].enabled
  <2> DEFINE all == stop_telemetry(node, 0)
             slots == stop_streaming(node.slots, 0)
  <2>1. \A i \in DOMAIN node.slots : slots[i] = [node.slots[i] EXCEPT !.enabled = FALSE]
    BY DEF stop_streaming
  <2>2. \A i \in DOMAIN node.slots : ~ slots[i].enabled
    <3>1. SUFFICES ASSUME NEW i \in DOMAIN node.slots PROVE ~ slots[i].enabled
      OBVIOUS
    <3> DEFINE off == [node.slots[i] EXCEPT !.enabled = FALSE]
    <3>2. slots[i] = off
      BY <2>1
    <3>3. ~ off.enabled
      BY <1>2, Disabled
    <3> HIDE DEF slots, off
    <3> QED
      BY <3>2, <3>3
  <2>3. /\ Consistent(all)
        /\ all.slots = slots
        /\ all.engine <=> \E i \in DOMAIN node.slots : slots[i].enabled
    BY StreamsStop
  <2>4. DOMAIN slots = DOMAIN node.slots
    BY <1>1, StoppedSlots
  <2> HIDE DEF all, slots
  <2>5. ~ all.engine /\ all.state = "IDLE"
    BY <2>2, <2>3 DEF Consistent, CliNodes
  <2> QED
    BY <2>2, <2>3, <2>4, <2>5 DEF all
<1>5. ASSUME NEW i \in DOMAIN node.slots, ~ node.engine
      PROVE  LET tag == node.slots[i].tag
                 on == start_telemetry(node, [tag |-> tag, rate |-> 0, batch |-> 0])
             IN  on.engine /\ stop_telemetry(on, tag) = node
  <2> DEFINE tag == node.slots[i].tag
             req == [tag |-> tag, rate |-> 0, batch |-> 0]
             slots == start_streaming(node.slots, req)
             on == start_telemetry(node, req)
             off == stop_telemetry(on, tag)
  <2>1. req.tag = tag /\ req.rate = 0 /\ req.batch = 0
    OBVIOUS
  <2>2. on = [node EXCEPT !.slots = slots, !.engine = TRUE, !.state = "STREAMING"]
    BY DEF start_telemetry
  <2>3. off = [on EXCEPT !.slots = stop_streaming(on.slots, tag),
                         !.engine = \E j \in DOMAIN stop_streaming(on.slots, tag) : stop_streaming(on.slots, tag)[j].enabled,
                         !.state = IF \E j \in DOMAIN stop_streaming(on.slots, tag) : stop_streaming(on.slots, tag)[j].enabled
                                   THEN @ ELSE "IDLE"]
    BY DEF stop_telemetry
  <2> HIDE DEF req
  <2>4. \A j \in DOMAIN node.slots :
          slots[j] = IF j = i THEN [node.slots[i] EXCEPT !.enabled = TRUE] ELSE node.slots[j]
    <3>1. find_channel(node.slots, tag) = {i}
      BY <1>1, FoundAlone
    <3>2. ASSUME NEW j \in DOMAIN node.slots
          PROVE  slots[j] = IF j = i THEN Configured(node.slots[j], req) ELSE node.slots[j]
      BY <1>3, <2>1, <3>1, StartedAre
    <3>3. Configured(node.slots[i], req) = [node.slots[i] EXCEPT !.enabled = TRUE]
      BY <2>1, SMT DEF Configured, SetRate
    <3> QED
      BY <3>2, <3>3
  <2>5. slots \in Slots /\ DOMAIN slots = DOMAIN node.slots
    <3>1. DOMAIN slots = DOMAIN node.slots
      BY DEF start_streaming
    <3> QED
      BY <1>1, <2>1, <3>1, SlotsStay
  <2> HIDE DEF slots
  <2>6. on.slots = slots /\ on.engine /\ on.state = "STREAMING"
    BY <1>1, <2>2 DEF CliNodes
  <2> DEFINE stopped == stop_streaming(slots, tag)
  <2>7. stopped = node.slots
    <3>1. slots[i].tag = tag
      BY <1>2, <2>4 DEF Channels
    <3>2. find_channel(slots, tag) = {i}
      BY <2>5, <3>1, FoundAlone
    <3>3. \A j \in DOMAIN node.slots :
            stopped[j] = IF j = i THEN [slots[j] EXCEPT !.enabled = FALSE] ELSE slots[j]
      BY <1>3, <2>5, <3>2 DEF stop_streaming
    <3>4. \A j \in DOMAIN node.slots : stopped[j] = node.slots[j]
      <4>1. ~ node.slots[i].enabled
        BY <1>5 DEF Consistent
      <4>2. [[node.slots[i] EXCEPT !.enabled = TRUE] EXCEPT !.enabled = FALSE] = node.slots[i]
        BY <1>2, <4>1 DEF Channels
      <4> QED
        BY <2>4, <3>3, <4>2
    <3>5. stopped = [j \in DOMAIN node.slots |-> stopped[j]]
      BY <2>5 DEF stop_streaming
    <3> HIDE DEF stopped
    <3> QED
      BY <1>2, <3>4, <3>5
  <2>8. ~ \E j \in DOMAIN stopped : stopped[j].enabled
    BY <1>5, <2>7 DEF Consistent
  <2> HIDE DEF stopped
  <2>9. off = [on EXCEPT !.slots = stopped, !.engine = FALSE, !.state = "IDLE"]
    BY <2>3, <2>6, <2>8 DEF stopped
  <2> HIDE DEF off, on
  <2>10. off = [node EXCEPT !.slots = node.slots, !.engine = FALSE, !.state = "IDLE"]
    BY <1>1, <2>2, <2>7, <2>9 DEF CliNodes
  <2>11. node.engine = FALSE /\ node.state = "IDLE"
    BY <1>1, <1>5 DEF Consistent, CliNodes
  <2>12. off = node
    BY <1>1, <2>10, <2>11 DEF CliNodes
  <2> QED
    BY <2>6, <2>12 DEF off, on, req, tag
<1> QED
  BY <1>4, <1>5

\* The line editor.
Letters == {"a", "b"}
Entries == {line \in Seq(Letters) : Len(line) <= LineSize}
Consoles == [line : Entries, executed : Seq(Entries \ {<<>>})]

LEMMA TakenBack ==
  ASSUME NEW line \in Seq(Letters), NEW key \in Letters
  PROVE  SubSeq(Append(line, key), 1, Len(Append(line, key)) - 1) = line
<1> DEFINE m == Len(line)
           more == Append(line, key)
<1>1. IsAppended(more, line, key, Letters)
  BY Appended
<1>2. m \in Nat
  OBVIOUS
<1> HIDE DEF more
<1>3. more \in Seq(Letters) /\ Len(more) = m + 1 /\ \A i \in 1 .. m : more[i] = line[i]
  BY <1>1 DEF IsAppended
<1>4. CASE m = 0
  <2>1. Len(more) - 1 = 0 /\ line = <<>>
    BY <1>3, <1>4
  <2>2. SubSeq(more, 1, 0) = <<>>
    BY <1>3
  <2> QED
    BY <2>1, <2>2 DEF more
<1>5. CASE m > 0
  <2>1. m \in 1 .. Len(more) /\ 1 \in 1 .. Len(more) /\ Len(more) - 1 = m /\ m - 1 + 1 = m /\ 1 <= m
    BY <1>2, <1>3, <1>5
  <2>2. SubSeq(more, 1, m) \in Seq(Letters)
    BY <1>3, <2>1, SubSeqIs
  <2>3. Len(SubSeq(more, 1, m)) = m
    BY <1>3, <2>1, SubSeqIs
  <2>4. \A i \in 1 .. m : SubSeq(more, 1, m)[i] = more[i]
    <3>1. \A i \in 1 .. m - 1 + 1 : SubSeq(more, 1, m)[i] = more[1 + i - 1]
      BY <1>3, <2>1, SubSeqIs
    <3>2. \A i \in 1 .. m : i \in 1 .. m - 1 + 1 /\ 1 + i - 1 = i
      BY <1>2
    <3> QED
      BY <3>1, <3>2
  <2>5. SubSeq(more, 1, m) = line
    BY <1>3, <2>2, <2>3, <2>4, SameSeq
  <2> QED
    BY <2>1, <2>5 DEF more
<1> QED
  BY <1>2, <1>4, <1>5

LEMMA ShorterIsEntry ==
  ASSUME NEW line \in Entries, line # <<>>
  PROVE  SubSeq(line, 1, Len(line) - 1) \in Entries
<1> DEFINE m == Len(line)
<1>1. line \in Seq(Letters) /\ m \in Nat /\ m <= LineSize /\ LineSize = 3
  BY DEF Entries, LineSize
<1>2. m > 0
  BY <1>1
<1>3. CASE m = 1
  <2>1. SubSeq(line, 1, 0) = <<>>
    BY <1>1
  <2>2. <<>> \in Entries
    BY <1>1 DEF Entries
  <2>3. Len(line) - 1 = 0
    BY <1>3
  <2> QED
    BY <2>1, <2>2, <2>3
<1>4. CASE m > 1
  <2> DEFINE e == m - 1
  <2>1. e \in 1 .. Len(line) /\ 1 \in 1 .. Len(line) /\ 1 <= e /\ e - 1 + 1 = e
    BY <1>1, <1>4
  <2> HIDE DEF e
  <2>2. SubSeq(line, 1, e) \in Seq(Letters) /\ Len(SubSeq(line, 1, e)) = e
    BY <1>1, <2>1, SubSeqIs
  <2>3. e <= LineSize
    BY <1>1, <1>4 DEF e
  <2> QED
    BY <2>2, <2>3 DEF Entries, e
<1> HIDE DEF m
<1>5. m = 1 \/ m > 1
  BY <1>1, <1>2
<1> QED
  BY <1>3, <1>4, <1>5

LEMMA KeyIsTaken ==
  ASSUME NEW console \in Consoles, NEW key
  PROVE  KeyPressed(console, key) \in Consoles
<1>1. /\ console.line \in Entries /\ console.executed \in Seq(Entries \ {<<>>})
      /\ console = [line |-> console.line, executed |-> console.executed]
  BY DEF Consoles
<1>2. <<>> \in Entries /\ LineSize = 3
  BY DEF Entries, LineSize
<1>3. CASE KeyPressed(console, key) = console
  BY <1>3
<1>4. CASE console.line # <<>> /\ KeyPressed(console, key) = [line |-> <<>>, executed |-> Append(console.executed, console.line)]
  <2>1. console.line \in Entries \ {<<>>}
    BY <1>1, <1>4
  <2>2. IsAppended(Append(console.executed, console.line), console.executed, console.line, Entries \ {<<>>})
    BY <1>1, <2>1, Appended
  <2> QED
    BY <1>2, <1>4, <2>2 DEF Consoles, IsAppended
<1>5. CASE console.line # <<>> /\ KeyPressed(console, key) = [console EXCEPT !.line = SubSeq(@, 1, Len(@) - 1)]
  <2> DEFINE shorter == SubSeq(console.line, 1, Len(console.line) - 1)
  <2>1. shorter \in Entries
    BY <1>1, <1>5, ShorterIsEntry
  <2>2. KeyPressed(console, key) = [console EXCEPT !.line = shorter]
    BY <1>5
  <2> HIDE DEF shorter
  <2> QED
    BY <1>1, <2>1, <2>2 DEF Consoles
<1>6. CASE /\ key \in Letters /\ Len(console.line) < LineSize
           /\ KeyPressed(console, key) = [console EXCEPT !.line = Append(@, key)]
  <2> DEFINE longer == Append(console.line, key)
  <2>1. console.line \in Seq(Letters) /\ Len(console.line) \in Nat
    BY <1>1 DEF Entries
  <2>2. IsAppended(longer, console.line, key, Letters)
    BY <1>6, <2>1, Appended
  <2>3. KeyPressed(console, key) = [console EXCEPT !.line = longer]
    BY <1>6
  <2> HIDE DEF longer
  <2>4. longer \in Entries
    BY <1>2, <1>6, <2>1, <2>2 DEF IsAppended, Entries
  <2> QED
    BY <1>1, <2>3, <2>4 DEF Consoles
<1> QED
  BY <1>3, <1>4, <1>5, <1>6 DEF KeyPressed, Letters

EmptyConsole == [line |-> <<>>, executed |-> <<>>]

\* f is the console after each of n keys.
Typing(f, keys, n) ==
  /\ f[0] = EmptyConsole
  /\ \A i \in 1 .. n : f[i] = KeyPressed(f[i - 1], keys[i])

LEMMA EmptyIsConsole == EmptyConsole \in Consoles
<1>1. <<>> \in Entries /\ <<>> \in Seq(Entries \ {<<>>})
  BY DEF Entries, LineSize
<1> QED
  BY <1>1 DEF Consoles, EmptyConsole

LEMMA TypingStays ==
  ASSUME NEW n \in Nat, NEW keys, NEW f, Typing(f, keys, n)
  PROVE  \A i \in 0 .. n : f[i] \in Consoles
<1> DEFINE S == {i \in 0 .. n : f[i] \in Consoles}
<1>1. 0 \in S
  BY EmptyIsConsole DEF Typing
<1>2. \A i \in 0 .. n - 1 : i \in S => i + 1 \in S
  <2>1. SUFFICES ASSUME NEW i \in 0 .. n - 1, f[i] \in Consoles PROVE i + 1 \in S
    OBVIOUS
  <2>2. i + 1 \in 1 .. n /\ i + 1 \in 0 .. n /\ (i + 1) - 1 = i
    OBVIOUS
  <2>3. f[i + 1] = KeyPressed(f[i], keys[i + 1])
    BY <2>2 DEF Typing
  <2>4. f[i + 1] \in Consoles
    BY <2>1, <2>3, KeyIsTaken
  <2> QED
    BY <2>2, <2>4
<1> HIDE DEF S
<1>3. \A i \in 0 .. n : i \in S
  BY <1>1, <1>2, SetInduction
<1> QED
  BY <1>3 DEF S

LEMMA AppendedIsMore ==
  ASSUME NEW line \in Seq(Letters), NEW key \in Letters
  PROVE  Append(line, key) # <<>>
<1> DEFINE more == Append(line, key)
<1>1. IsAppended(more, line, key, Letters)
  BY Appended
<1> HIDE DEF more
<1>2. Len(more) = Len(line) + 1 /\ Len(line) \in Nat
  BY <1>1 DEF IsAppended
<1>3. more # <<>>
  BY <1>2
<1> QED
  BY <1>3 DEF more

LEMMA DelTakesBack ==
  ASSUME NEW console \in Consoles, NEW key \in Letters, Len(console.line) < LineSize
  PROVE  KeyPressed(KeyPressed(console, key), "DEL") = console
<1>0. /\ console.line \in Seq(Letters)
      /\ console = [line |-> console.line, executed |-> console.executed]
  BY DEF Consoles, Entries
<1> DEFINE longer == Append(console.line, key)
           back == SubSeq(longer, 1, Len(longer) - 1)
           typed == [console EXCEPT !.line = longer]
<1>1. key \notin {CR, LF} /\ key # "DEL"
  BY DEF Letters, CR, LF
<1>2. KeyPressed(console, key) = typed
  BY <1>1 DEF KeyPressed, Letters
<1>3. longer # <<>>
  BY <1>0, AppendedIsMore
<1>4. back = console.line
  BY <1>0, TakenBack
<1>5. typed.line = longer /\ [typed EXCEPT !.line = back] = [console EXCEPT !.line = back]
  BY <1>0
<1>6. KeyPressed(typed, "DEL") = [typed EXCEPT !.line = SubSeq(@, 1, Len(@) - 1)]
  <2>1. "DEL" \notin {CR, LF}
    BY DEF CR, LF
  <2>2. typed.line # <<>>
    BY <1>3, <1>5
  <2> HIDE DEF typed
  <2> QED
    BY <2>1, <2>2 DEF KeyPressed
<1>7. KeyPressed(typed, "DEL") = [typed EXCEPT !.line = back]
  BY <1>5, <1>6
<1>8. [console EXCEPT !.line = back] = console
  BY <1>0, <1>4
<1> QED
  BY <1>2, <1>5, <1>7, <1>8

LEMMA LineEnds ==
  \A c : \A key \in {CR, LF} :
    KeyPressed(c, key) = IF c.line = <<>> THEN c
                         ELSE [line |-> <<>>, executed |-> Append(c.executed, c.line)]
BY DEF KeyPressed, CR, LF

\* However many keys are pressed: the line never outgrows its buffer and no empty
\* line is executed; then a DEL takes back the key before it, if that found room,
\* and the second half of CR LF does nothing (ConsoleTask.cpp).  The run takes
\* every five keys.
THEOREM EditorIsSafe ==
  ASSUME NEW n \in Nat, NEW keys, NEW f, f[0] = [line |-> <<>>, executed |-> <<>>],
         \A i \in 1 .. n : f[i] = KeyPressed(f[i - 1], keys[i])
  PROVE  LET console == f[n]
         IN  /\ Len(console.line) <= LineSize
             /\ \A i \in DOMAIN console.executed : console.executed[i] # <<>>
             /\ KeyPressed(KeyPressed(console, CR), LF) = KeyPressed(console, CR)
             /\ \A key \in {"a", "b"} :
                  Len(console.line) < LineSize => KeyPressed(KeyPressed(console, key), "DEL") = console
<1>3. f[n] \in Consoles
  <2>1. Typing(f, keys, n) /\ n \in 0 .. n
    BY DEF Typing, EmptyConsole
  <2> QED
    BY <2>1, TypingStays
<1> DEFINE console == f[n]
<1> HIDE DEF console
<1>4. /\ console \in Consoles /\ console.line \in Entries /\ console.executed \in Seq(Entries \ {<<>>})
      /\ console.line \in Seq(Letters)
      /\ console = [line |-> console.line, executed |-> console.executed]
  BY <1>3 DEF console, Consoles, Entries
<1>5. Len(console.line) <= LineSize /\ \A i \in DOMAIN console.executed : console.executed[i] # <<>>
  BY <1>4 DEF Entries
<1>6. KeyPressed(KeyPressed(console, CR), LF) = KeyPressed(console, CR)
  <2>1. KeyPressed(console, CR) = IF console.line = <<>> THEN console
                                  ELSE [line |-> <<>>, executed |-> Append(console.executed, console.line)]
    BY LineEnds
  <2>2. KeyPressed(console, CR).line = <<>>
    BY <2>1
  <2>3. \A c : c.line = <<>> => KeyPressed(c, LF) = c
    BY LineEnds
  <2> QED
    BY <2>2, <2>3
<1>7. ASSUME NEW key \in Letters, Len(console.line) < LineSize
      PROVE  KeyPressed(KeyPressed(console, key), "DEL") = console
  BY <1>4, <1>7, DelTakesBack
<1> QED
  BY <1>5, <1>6, <1>7 DEF console, Letters
=============================================================================
