-------------------------- MODULE TimeManagerProofs --------------------------
(***************************************************************************)
(* The clock of a node, for any width of the cycle counter, any rate, any  *)
(* slope limit, delay and threshold: its types, that local time runs true  *)
(* across the counter's turns, that UTC turns back by steps alone for who  *)
(* reads it between the handlers, and how far from the master's clock a    *)
(* beacon may leave it, whatever time passes while it is handled.          *)
(***************************************************************************)
EXTENDS TimeManager, TLAPS

USE WrapAssumption, SlewAssumption DEF WrapAssumption, SlewAssumption

-----------------------------------------------------------------------------
(* Division.                                                                *)

LEMMA DivMod ==
  ASSUME NEW x \in Int, NEW w \in Int, w > 0
  PROVE  /\ x \div w \in Int /\ x % w \in Int /\ 0 <= x % w /\ x % w < w
         /\ x = w * (x \div w) + (x % w)
BY SMT

LEMMA ModUnique ==
  ASSUME NEW x \in Int, NEW w \in Int, w > 0, NEW q \in Int, NEW r \in Int,
         0 <= r, r < w, x = w * q + r
  PROVE  x % w = r /\ x \div w = q
BY SMT

LEMMA ModSmall ==
  ASSUME NEW x \in Int, NEW w \in Int, 0 <= x, x < w
  PROVE  x % w = x
BY SMT

LEMMA DivMonotone ==
  ASSUME NEW x \in Int, NEW y \in Int, NEW w \in Int, w > 0, x <= y
  PROVE  x \div w <= y \div w
BY SMT

LEMMA DivNat ==
  ASSUME NEW x \in Nat, NEW w \in Int, w > 0
  PROVE  x \div w \in Nat /\ x \div w <= x
BY SMT

LEMMA DivExact ==
  ASSUME NEW x \in Int, NEW w \in Int, w > 0
  PROVE  (x * w) \div w = x
BY SMT

LEMMA ModDifference ==
  ASSUME NEW a \in Int, NEW b \in Int, NEW w \in Int, w > 0
  PROVE  ((a % w) - (b % w)) % w = (a - b) % w
<1>1. PICK qa \in Int, ra \in Int : a % w = ra /\ a = w * qa + ra
  BY DivMod
<1>2. PICK qb \in Int, rb \in Int : b % w = rb /\ b = w * qb + rb
  BY DivMod
<1>3. PICK c \in Int : c = a - b
  OBVIOUS
<1>4. PICK q \in Int, r \in Int : c % w = r /\ c = w * q + r /\ 0 <= r /\ r < w
  BY DivMod
<1>5. w * (q - qa + qb) = w * q - w * qa + w * qb
  OBVIOUS
<1>6. ra - rb = w * (q - qa + qb) + r
  BY <1>1, <1>2, <1>3, <1>4, <1>5
<1>7. (ra - rb) % w = r
  BY <1>4, <1>6, ModUnique
<1> QED
  BY <1>1, <1>2, <1>3, <1>4, <1>7

LEMMA DivDifference ==
  ASSUME NEW a \in Int, NEW b \in Int, NEW c \in Int, NEW d \in Int, NEW w \in Int, w > 0,
         a - b = c - d
  PROVE  /\ (a \div w) - (b \div w) <= (c \div w) - (d \div w) + 1
         /\ (c \div w) - (d \div w) <= (a \div w) - (b \div w) + 1
<1>1. PICK qa \in Int, ra \in Int : a \div w = qa /\ a = w * qa + ra /\ 0 <= ra /\ ra < w
  BY DivMod
<1>2. PICK qb \in Int, rb \in Int : b \div w = qb /\ b = w * qb + rb /\ 0 <= rb /\ rb < w
  BY DivMod
<1>3. PICK qc \in Int, rc \in Int : c \div w = qc /\ c = w * qc + rc /\ 0 <= rc /\ rc < w
  BY DivMod
<1>4. PICK qd \in Int, rd \in Int : d \div w = qd /\ d = w * qd + rd /\ 0 <= rd /\ rd < w
  BY DivMod
<1>5. PICK n \in Int : n = qa - qb - qc + qd
  OBVIOUS
<1>6. w * n = w * qa - w * qb - w * qc + w * qd
  BY <1>5
<1>7. w * n = rc - rd - ra + rb
  BY <1>1, <1>2, <1>3, <1>4, <1>6
<1>8. w * n < w * 2 /\ w * (-2) < w * n
  BY <1>1, <1>2, <1>3, <1>4, <1>7
<1>9. n < 2 /\ -2 < n
  BY <1>8
<1> QED
  BY <1>1, <1>2, <1>3, <1>4, <1>5, <1>9

-----------------------------------------------------------------------------
(* The operators of the clock.                                              *)

LEMMA TruncatedType ==
  ASSUME NEW n \in Int
  PROVE  Truncated(n, SlewUnit) \in Int /\ (n >= 0 => Truncated(n, SlewUnit) \in Nat)
<1>1. CASE n < 0
  BY <1>1, DivMod DEF Truncated
<1>2. CASE n >= 0
  BY <1>2, DivNat DEF Truncated
<1> QED
  BY <1>1, <1>2

LEMMA TruncatedMonotone ==
  ASSUME NEW m \in Int, NEW n \in Int, m <= n
  PROVE  Truncated(m, SlewUnit) <= Truncated(n, SlewUnit)
<1>1. CASE n < 0
  BY <1>1, DivMonotone DEF Truncated
<1>2. CASE m >= 0
  BY <1>2, DivMonotone DEF Truncated
<1>3. CASE m < 0 /\ n >= 0
  BY <1>3, DivNat DEF Truncated
<1> QED
  BY <1>1, <1>2, <1>3

\* Whole units more are whole units more, but for the rounding at zero.
LEMMA TruncatedShift ==
  ASSUME NEW x \in Int, NEW m \in Nat
  PROVE  Truncated(x + SlewUnit * m, SlewUnit) <= Truncated(x, SlewUnit) + m
<1>1. PICK q \in Int, r \in Int : x \div SlewUnit = q /\ x = SlewUnit * q + r
                                /\ 0 <= r /\ r < SlewUnit
  BY DivMod
<1>2. PICK p \in Int, t \in Int : (-x) \div SlewUnit = p /\ -x = SlewUnit * p + t
                                /\ 0 <= t /\ t < SlewUnit
  <2>1. PICK y \in Int : y = -x
    OBVIOUS
  <2>2. /\ y \div SlewUnit \in Int /\ y % SlewUnit \in Int
        /\ 0 <= y % SlewUnit /\ y % SlewUnit < SlewUnit
        /\ y = SlewUnit * (y \div SlewUnit) + (y % SlewUnit)
    BY DivMod
  <2> QED
    BY <2>1, <2>2
<1>3. SlewUnit * (q + m) = SlewUnit * q + SlewUnit * m
  OBVIOUS
<1>4. SlewUnit * (p - m) = SlewUnit * p - SlewUnit * m
  OBVIOUS
<1>5. PICK y \in Int : y = x + SlewUnit * m
  OBVIOUS
<1>6. y \div SlewUnit = q + m
  BY <1>1, <1>3, <1>5, ModUnique
<1>7. (-y) \div SlewUnit = p - m
  BY <1>2, <1>4, <1>5, ModUnique
<1>8. q <= -p
  <2>1. SlewUnit * (q + p) = SlewUnit * q + SlewUnit * p
    OBVIOUS
  <2>2. SlewUnit * (q + p) <= 0
    BY <1>1, <1>2, <2>1
  <2>3. ~(q + p >= 1)
    BY <2>2
  <2> QED
    BY <2>3
<1>9. SlewUnit * m >= 0
  OBVIOUS
<1> QED
  BY <1>1, <1>2, <1>5, <1>6, <1>7, <1>8, <1>9 DEF Truncated

LEMMA ProductMonotone ==
  ASSUME NEW a \in Int, NEW b \in Int, NEW k \in Int, k > 0, a <= b
  PROVE  a * k <= b * k
BY SMT

LEMMA Subtraction ==
  ASSUME NEW x \in Int, NEW y \in Int, NEW z \in Int, x <= y
  PROVE  x - z \in Int /\ y - z \in Int /\ x - z <= y - z
OBVIOUS

LEMMA ClampType == ASSUME NEW n \in Int PROVE Clamp(n) \in -MaxSlew .. MaxSlew
BY DEF Clamp

-----------------------------------------------------------------------------
(* The source.                                                              *)

SourceTypes ==
  /\ cycles \in 0 .. MaxCycles /\ zeroedAt \in 0 .. cycles /\ readAt \in zeroedAt .. cycles
  /\ lastCyccnt \in 0 .. Wrap - 1 /\ accumulated \in Nat
  /\ initialized \in BOOLEAN /\ asking \in [Tasks -> {"no", "counter", "total"}]
  /\ lapsed \in BOOLEAN

\* m_last_cyccnt is what the counter showed when it was last read.
LastIsRead == lastCyccnt = (readAt - zeroedAt) % Wrap

SourceInv == SourceTypes /\ LastIsRead

LEMMA DeltaIs == SourceInv => Delta = (cycles - readAt) % Wrap
<1>1. SUFFICES ASSUME SourceInv PROVE Delta = (cycles - readAt) % Wrap
  OBVIOUS
<1>2. PICK a \in Int, b \in Int : a = cycles - zeroedAt /\ b = readAt - zeroedAt
  BY <1>1 DEF SourceInv, SourceTypes
<1>3. ((a % Wrap) - (b % Wrap)) % Wrap = (a - b) % Wrap
  <2>1. Wrap \in Int /\ Wrap > 0
    OBVIOUS
  <2> QED
    BY <2>1, ModDifference
<1>4. a - b = cycles - readAt
  BY <1>1, <1>2 DEF SourceInv, SourceTypes
<1> QED
  BY <1>1, <1>2, <1>3, <1>4 DEF SourceInv, LastIsRead, Delta, Cyccnt

LEMMA DeltaIsNext == (SourceInv => Delta = (cycles - readAt) % Wrap)'
BY DeltaIs, PTL

LEMMA ReadingTypes ==
  SourceInv => Cyccnt \in 0 .. Wrap - 1 /\ Elapsed \in Nat /\ Local \in Nat
<1>1. SUFFICES ASSUME SourceInv PROVE Cyccnt \in 0 .. Wrap - 1 /\ Elapsed \in Nat /\ Local \in Nat
  OBVIOUS
<1>2. PICK a \in Int, b \in Int : a = cycles - zeroedAt /\ b = cycles - readAt
  BY <1>1 DEF SourceInv, SourceTypes
<1>3. a % Wrap \in 0 .. Wrap - 1 /\ b % Wrap \in 0 .. Wrap - 1
  BY DivMod
<1>4. Delta \in Nat
  BY <1>1, <1>2, <1>3, DeltaIs
<1>5. Elapsed \in Nat
  BY <1>1, <1>4 DEF Elapsed, SourceInv, SourceTypes
<1> QED
  BY <1>2, <1>3, <1>5, DivNat DEF Local, Cyccnt

LEMMA ReadingTypesNext ==
  (SourceInv => Cyccnt \in 0 .. Wrap - 1 /\ Elapsed \in Nat /\ Local \in Nat)'
BY ReadingTypes, PTL

\* A critical section takes in what has passed since the last one.
Reading == Extends /\ UNCHANGED <<cycles, asking, lapsed>>

LEMMA ReadingStep ==
  ASSUME SourceInv, Reading
  PROVE  SourceInv' /\ Delta' = 0 /\ Elapsed' = Elapsed /\ Local' = Local
<1>1. /\ UNCHANGED <<cycles, asking, lapsed, zeroedAt, initialized>>
      /\ accumulated' = Elapsed /\ lastCyccnt' = Cyccnt /\ readAt' = cycles
  BY DEF Reading, Extends
<1>2. SourceTypes'
  BY <1>1, ReadingTypes DEF SourceInv, SourceTypes
<1>3. LastIsRead'
  BY <1>1 DEF LastIsRead, Cyccnt
<1>4. Delta' = 0
  <2>1. Cyccnt' = Cyccnt /\ Cyccnt \in Int
    BY <1>1, ReadingTypes DEF Cyccnt
  <2>2. 0 % Wrap = 0
    BY ModSmall
  <2> QED
    BY <1>1, <2>1, <2>2 DEF Delta
<1>5. Elapsed' = Elapsed
  BY <1>1, <1>4, ReadingTypes DEF Elapsed
<1> QED
  BY <1>2, <1>3, <1>4, <1>5 DEF SourceInv, Local

LEMMA RunsStep ==
  ASSUME SourceInv, Runs
  PROVE  /\ SourceInv' /\ (~Overdue' => Elapsed' - Elapsed = cycles' - cycles)
         /\ (~lapsed' => ~lapsed /\ (Settled => ~Overdue'))
<1>1. cycles' = cycles + 1 /\ cycles < MaxCycles
      /\ UNCHANGED <<zeroedAt, lastCyccnt, accumulated, initialized, readAt, asking>>
  BY DEF Runs, counterVars
<1>2. SourceInv'
  <2>1. lapsed' \in BOOLEAN
    BY DEF Runs
  <2> QED
    BY <1>1, <2>1 DEF SourceInv, SourceTypes, LastIsRead
<1>3. Delta' = (cycles + 1 - readAt) % Wrap
  <2>1. Delta' = (cycles' - readAt') % Wrap
    BY <1>2, DeltaIsNext
  <2>2. cycles' - readAt' = cycles + 1 - readAt
    BY <1>1 DEF SourceInv, SourceTypes
  <2> QED
    BY <2>1, <2>2
<1>4. ASSUME ~Overdue'
      PROVE  Elapsed' - Elapsed = cycles' - cycles
  <2>1. PICK d \in Nat : d = cycles - readAt /\ d + 1 < Wrap
    BY <1>1, <1>4 DEF Overdue, SourceInv, SourceTypes
  <2>2. d % Wrap = d /\ (d + 1) % Wrap = d + 1
    BY <2>1, ModSmall
  <2>3. Delta = d /\ Delta' = d + 1
    <3>1. cycles + 1 - readAt = d + 1
      BY <2>1 DEF SourceInv, SourceTypes
    <3> QED
      BY <1>3, <2>1, <2>2, <3>1, DeltaIs
  <2> QED
    BY <1>1, <2>3 DEF Elapsed, SourceInv, SourceTypes
<1>5. ~lapsed' => ~lapsed /\ (Settled => ~Overdue')
  BY DEF Runs
<1> QED
  BY <1>2, <1>4, <1>5

\* While one task starts the source it is not settled; it starts from zero.
LEMMA StartingStep ==
  ASSUME SourceInv, NEW t \in Tasks, Asks(t) \/ StartsCounter(t) \/ StartsTotal(t)
  PROVE  SourceInv' /\ ~Settled
<1>1. CASE Asks(t)
  BY <1>1 DEF Asks, counterVars, SourceInv, SourceTypes, LastIsRead, Settled
<1>2. CASE StartsCounter(t)
  <2>1. SourceTypes'
    BY <1>2 DEF StartsCounter, SourceInv, SourceTypes
  <2>2. LastIsRead'
    <3>1. 0 % Wrap = 0
      BY ModSmall
    <3>2. readAt' - zeroedAt' = 0 /\ lastCyccnt' = 0
      BY <1>2 DEF StartsCounter, SourceInv, SourceTypes
    <3> QED
      BY <3>1, <3>2 DEF LastIsRead
  <2>3. ~Settled
    BY <1>2 DEF StartsCounter, Settled
  <2> QED
    BY <2>1, <2>2, <2>3 DEF SourceInv
<1>3. CASE StartsTotal(t)
  BY <1>3 DEF StartsTotal, SourceInv, SourceTypes, LastIsRead, Settled
<1> QED
  BY <1>1, <1>2, <1>3

\* What a step does to the source.
LEMMA NextOfSource ==
  ASSUME [Next]_vars
  PROVE  \/ Runs \/ Reading \/ UNCHANGED sourceVars
         \/ \E t \in Tasks : Asks(t) \/ StartsCounter(t) \/ StartsTotal(t)
<1>1. CASE SourceStep
  BY <1>1 DEF SourceStep, Reads, Reading
<1>2. CASE \E d1 \in 0 .. MaxRtt : \E d2 \in 0 .. MaxRtt - d1 : RttSample(d1, d2)
  BY <1>2 DEF RttSample
<1>3. CASE \E late \in 0 .. MaxDelay : \E queued \in 0 .. late : Beacon(late - queued, queued)
  BY <1>3 DEF Beacon, Asking, Reading
<1>4. CASE Update \/ Observe \/ UNCHANGED vars
  BY <1>4 DEF Update, Observe, Reading, vars
<1>5. CASE \E by \in Forced : ForceStep(by)
  BY <1>5 DEF ForceStep, Asking, Reading
<1>6. CASE Continues
  BY <1>6 DEF Continues, ReadUtc, ReadLocal, StoreBase, StoreRef, StoreDrift, StoreState,
              Storing, Returns, Asking, Reading
<1> QED
  BY <1>1, <1>2, <1>3, <1>4, <1>5, <1>6 DEF Next

\* Once started by one task alone, the source stays so.
LEMMA SettledStays ==
  ASSUME Settled, Runs \/ Reading \/ UNCHANGED sourceVars
  PROVE  Settled'
BY DEF Runs, Reading, Extends, Settled, sourceVars, counterVars

LEMMA SourceKept ==
  ASSUME SourceInv, [Next]_vars
  PROVE  /\ SourceInv'
         /\ Settled /\ ~Overdue' => Elapsed' - Elapsed = cycles' - cycles
         /\ Settled /\ ~lapsed' => Elapsed' - Elapsed = cycles' - cycles
         /\ Settled => Settled'
         /\ ~lapsed' => ~lapsed
         /\ cycles' >= cycles
<1>1. CASE Runs
  BY <1>1, RunsStep, SettledStays DEF Runs, SourceInv, SourceTypes
<1>2. CASE Reading
  BY <1>2, ReadingStep, ReadingTypes, SettledStays DEF Reading, SourceInv, SourceTypes
<1>3. CASE UNCHANGED sourceVars
  <2>1. UNCHANGED <<cycles, zeroedAt, lastCyccnt, accumulated, initialized, readAt, asking, lapsed>>
    BY <1>3 DEF sourceVars, counterVars
  <2> QED
    BY <1>3, <2>1, ReadingTypes, SettledStays
       DEF SourceInv, SourceTypes, LastIsRead, Elapsed, Delta, Cyccnt
<1>4. CASE \E t \in Tasks : Asks(t) \/ StartsCounter(t) \/ StartsTotal(t)
  <2>1. SourceInv' /\ ~Settled
    BY <1>4, StartingStep
  <2>2. cycles' = cycles /\ lapsed' = lapsed
    BY <1>4 DEF Asks, StartsCounter, StartsTotal
  <2> QED
    BY <2>1, <2>2 DEF SourceInv, SourceTypes
<1> QED
  BY <1>1, <1>2, <1>3, <1>4, NextOfSource

LEMMA SourceInvInit == Init => SourceInv
<1>1. SUFFICES ASSUME Init PROVE SourceInv
  OBVIOUS
<1>2. 0 % Wrap = 0
  BY ModSmall
<1>3. SourceTypes
  <2>1. cycles = 0 /\ zeroedAt = 0 /\ readAt = 0 /\ lastCyccnt = 0 /\ accumulated = 0
        /\ initialized = FALSE /\ asking = [t \in Tasks |-> "no"] /\ lapsed = FALSE
    BY <1>1 DEF Init, SourceInit
  <2>2. asking \in [Tasks -> {"no", "counter", "total"}]
    BY <2>1
  <2>3. initialized \in BOOLEAN /\ lapsed \in BOOLEAN
    BY <2>1
  <2> QED
    BY <2>1, <2>2, <2>3 DEF SourceTypes
<1>4. LastIsRead
  BY <1>1, <1>2 DEF Init, SourceInit, LastIsRead
<1> QED
  BY <1>3, <1>4 DEF SourceInv

\* The source's types and the meaning of m_last_cyccnt, whoever asks and
\* whoever starts the counter.
THEOREM SourceInvariant == Spec => []SourceInv
BY SourceInvInit, SourceKept, PTL DEF Spec

\* Local time passes as true time does, for any width of the counter, as
\* long as somebody asks once in every turn of it.
THEOREM LocalTimeTrue == Spec => TimeRunsTrue
<1>1. SourceInv /\ [Next]_vars
        => [Settled /\ ~Overdue' => Elapsed' - Elapsed = cycles' - cycles]_vars
  BY SourceKept
<1> QED
  BY <1>1, SourceInvariant, PTL DEF Spec, TimeRunsTrue

-----------------------------------------------------------------------------
(* The line.                                                                *)

\* The line through (r, b) with the slope of d, at l.
Line(b, r, d, l) == b + Truncated((l - r) * (SlewUnit + d), SlewUnit)
NotNegative(n) == IF n > 0 THEN n ELSE 0

LEMMA UtcIs == Utc = IF state = "UNSYNCHRONIZED" THEN Local
                     ELSE NotNegative(Line(base, ref, drift, Local))
BY DEF Utc, Line, NotNegative

LEMMA UtcIsNext == (Utc = IF state = "UNSYNCHRONIZED" THEN Local
                          ELSE NotNegative(Line(base, ref, drift, Local)))'
BY UtcIs, PTL

\* The slope is positive and less than two.
LEMMA SlopeTypes ==
  ASSUME NEW d \in -MaxSlew .. MaxSlew
  PROVE  SlewUnit + d \in Int /\ SlewUnit + d > 0 /\ SlewUnit + d <= SlewUnit * 2
OBVIOUS

LEMMA LineType ==
  ASSUME NEW b \in Int, NEW r \in Int, NEW d \in -MaxSlew .. MaxSlew, NEW l \in Int
  PROVE  Line(b, r, d, l) \in Int
<1>1. PICK k \in Int : k = SlewUnit + d
  BY SlopeTypes
<1>2. PICK n \in Int : n = (l - r) * k
  OBVIOUS
<1> QED
  BY <1>1, <1>2, TruncatedType DEF Line

LEMMA ProductBound ==
  ASSUME NEW n \in Nat, NEW k \in Int, NEW j \in Int, k <= j
  PROVE  n * k <= j * n
BY SMT

\* The line rises, at most twice as fast as local time.
LEMMA LineRises ==
  ASSUME NEW b \in Int, NEW r \in Int, NEW d \in -MaxSlew .. MaxSlew,
         NEW l \in Int, NEW m \in Int, l <= m
  PROVE  /\ Line(b, r, d, l) <= Line(b, r, d, m)
         /\ Line(b, r, d, m) <= Line(b, r, d, l) + 2 * (m - l)
<1>1. PICK k \in Int : k = SlewUnit + d /\ k > 0 /\ k <= SlewUnit * 2
  BY SlopeTypes
<1>2. PICK x \in Int, y \in Int : x = (l - r) * k /\ y = (m - r) * k
  OBVIOUS
<1>3. PICK n \in Nat : n = m - l
  OBVIOUS
<1>4. l - r <= m - r
  OBVIOUS
<1>5. x <= y
  BY <1>1, <1>2, <1>4, ProductMonotone
<1>6. y = x + n * k
  <2>1. (m - r) * k = (l - r) * k + (m - l) * k
    OBVIOUS
  <2> QED
    BY <1>2, <1>3, <2>1
<1>7. n * k <= SlewUnit * 2 * n
  BY <1>1, ProductBound
<1>8. SlewUnit * 2 * n = SlewUnit * (2 * n)
  OBVIOUS
<1>9. PICK z \in Int : z = x + SlewUnit * (2 * n)
  OBVIOUS
<1>10. y <= z
  <2>1. PICK g \in Int, h \in Int : g = n * k /\ h = SlewUnit * (2 * n)
    BY <1>1
  <2> QED
    BY <1>6, <1>7, <1>8, <1>9, <2>1
<1>11. /\ Truncated(x, SlewUnit) \in Int /\ Truncated(y, SlewUnit) \in Int
       /\ Truncated(z, SlewUnit) \in Int
  BY TruncatedType
<1>12. Truncated(x, SlewUnit) <= Truncated(y, SlewUnit)
  BY <1>5, TruncatedMonotone
<1>13. Truncated(y, SlewUnit) <= Truncated(z, SlewUnit)
  BY <1>10, TruncatedMonotone
<1>14. Truncated(z, SlewUnit) <= Truncated(x, SlewUnit) + 2 * n
  <2>1. 2 * n \in Nat
    OBVIOUS
  <2> QED
    BY <1>9, <2>1, TruncatedShift
<1>15. /\ Line(b, r, d, l) = b + Truncated(x, SlewUnit)
       /\ Line(b, r, d, m) = b + Truncated(y, SlewUnit)
  BY <1>1, <1>2 DEF Line
<1> QED
  BY <1>3, <1>11, <1>12, <1>13, <1>14, <1>15

\* At its point of reference the line is at its base.
LEMMA LineStarts ==
  ASSUME NEW b \in Int, NEW r \in Int, NEW d \in -MaxSlew .. MaxSlew
  PROVE  Line(b, r, d, r) = b
<1>1. (r - r) * (SlewUnit + d) = 0
  <2>1. PICK k \in Int : k = SlewUnit + d
    BY SlopeTypes
  <2>2. 0 * k = 0
    OBVIOUS
  <2> QED
    BY <2>1, <2>2
<1>2. Truncated(0, SlewUnit) = 0
  BY DivNat DEF Truncated
<1> QED
  BY <1>1, <1>2 DEF Line

LEMMA LineAfterBase ==
  ASSUME NEW b \in Int, NEW r \in Int, NEW d \in -MaxSlew .. MaxSlew, NEW m \in Int, r <= m
  PROVE  b <= Line(b, r, d, m) /\ Line(b, r, d, m) <= b + 2 * (m - r)
<1>1. Line(b, r, d, r) = b
  BY LineStarts
<1> QED
  BY <1>1, LineRises

\* A line that runs as local time does.
LEMMA LineLevel ==
  ASSUME NEW b \in Int, NEW r \in Int, NEW m \in Int, r <= m
  PROVE  Line(b, r, 0, m) = b + (m - r)
<1>1. PICK n \in Nat : n = m - r
  OBVIOUS
<1>2. (n * SlewUnit) \div SlewUnit = n /\ n * SlewUnit >= 0 /\ n * SlewUnit \in Int
  BY DivExact
<1>3. SlewUnit + 0 = SlewUnit
  OBVIOUS
<1>4. Truncated(n * SlewUnit, SlewUnit) = n
  BY <1>2 DEF Truncated
<1> QED
  BY <1>1, <1>3, <1>4 DEF Line

-----------------------------------------------------------------------------
(* The manager.                                                             *)

ClockTypesOK ==
  /\ state \in {"UNSYNCHRONIZED", "CALIBRATING", "LOCKED", "HOLDOVER"}
  /\ offset \in Nat /\ base \in Nat /\ ref \in Nat
  /\ drift \in -MaxSlew .. MaxSlew /\ integral \in Int
  /\ lastRtt \in 0 .. MaxRtt /\ silent \in 0 .. Holdover /\ steps \in Nat
  /\ samples \in Nat /\ beacons \in Nat /\ samples + beacons <= MaxSyncs
HandlerTypes ==
  /\ handler \in {"none", "sample", "beacon", "force"}
  /\ at \in {"idle", "utc", "local", "base", "ref", "drift", "state"}
  /\ stepping \in BOOLEAN
  /\ goal \in Nat /\ point \in Nat /\ rate \in -MaxSlew .. MaxSlew
  /\ began \in Nat \X Nat /\ seen \in Nat

\* A handler runs on a source that was started; what it is about to do.
HandlerInv ==
  /\ at # "idle" => Settled /\ handler # "none"
  /\ at = "idle" => handler = "none" /\ ~stepping /\ rate = 0
  /\ at = "utc" => ~stepping
  /\ stepping => rate = 0
  /\ at # "idle" /\ ~stepping => state # "UNSYNCHRONIZED"
  /\ handler = "force" => stepping
  /\ at = "local" /\ stepping => handler = "force"
  /\ seen # 0 => Settled

\* What it has stored so far.
StoredInv ==
  /\ at \in {"ref", "drift", "state"} => base = goal
  /\ at \in {"drift", "state"} => ref = point
  /\ at = "state" => drift = rate

ClockInv == SourceInv /\ ClockTypesOK /\ HandlerTypes /\ HandlerInv /\ StoredInv

LEMMA PartsOfTypeOK == TypeOK <=> SourceTypes /\ ClockTypesOK /\ HandlerTypes
BY DEF TypeOK, SourceTypes, ClockTypesOK, HandlerTypes

LEMMA ClockTypes ==
  ASSUME ClockInv
  PROVE  Local \in Nat /\ Master \in Nat /\ Utc \in Nat /\ Elapsed \in Nat
         /\ Line(base, ref, drift, Local) \in Int
<1>1. Local \in Nat /\ Elapsed \in Nat
  BY ReadingTypes DEF ClockInv
<1>2. Master \in Nat
  BY DivNat DEF ClockInv, ClockTypesOK, SourceInv, SourceTypes, Master
<1>3. Line(base, ref, drift, Local) \in Int
  BY <1>1, LineType DEF ClockInv, ClockTypesOK
<1> QED
  BY <1>1, <1>2, <1>3, UtcIs DEF NotNegative

LEMMA ClockTypesNext ==
  (ClockInv => Local \in Nat /\ Master \in Nat /\ Utc \in Nat /\ Elapsed \in Nat
               /\ Line(base, ref, drift, Local) \in Int)'
<1>1. ClockInv => Local \in Nat /\ Master \in Nat /\ Utc \in Nat /\ Elapsed \in Nat
                  /\ Line(base, ref, drift, Local) \in Int
  BY ClockTypes
<1> QED
  BY <1>1, PTL

\* What a handler's reading of the time leaves as it is.
LEMMA AskingStep ==
  ASSUME SourceInv, Asking
  PROVE  /\ UNCHANGED <<cycles, lapsed, offset, seen>> /\ SourceInv'
         /\ Elapsed' = Elapsed /\ Local' = Local /\ Master' = Master
BY ReadingStep DEF Asking, Reading, Master

\* The kinds of steps, for the manager.
Quiet == [SourceStep]_sourceVars /\ UNCHANGED <<offset, managerVars>>

LEMMA NextOfManager ==
  ASSUME [Next]_vars
  PROVE  \/ Quiet
         \/ \E d1 \in 0 .. MaxRtt : \E d2 \in 0 .. MaxRtt - d1 : RttSample(d1, d2)
         \/ \E total \in 0 .. MaxDelay : \E queued \in 0 .. total : Beacon(total - queued, queued)
         \/ \E by \in Forced : ForceStep(by)
         \/ ReadUtc \/ ReadLocal \/ StoreBase \/ StoreRef \/ StoreDrift \/ StoreState
         \/ Update \/ Observe
BY DEF Next, vars, Quiet, Continues

-----------------------------------------------------------------------------
(* The types, and what a handler keeps.                                     *)

\* A handler starts: of what it is called with, what becomes of it.
LEMMA StepsToTypes ==
  ASSUME ClockInv, at = "idle", NEW target \in Nat, NEW local \in Nat, StepsTo(target, local)
  PROVE  /\ stepping' = TRUE /\ at' = "base" /\ goal' = target /\ point' = local
         /\ rate' = 0 /\ integral' \in Int
BY DEF StepsTo, ClockInv, ClockTypesOK, HandlerInv

LEMMA SlewsTypes ==
  ASSUME ClockInv, at = "idle", NEW error \in Int, Slews(error)
  PROVE  /\ stepping' = FALSE /\ at' = "utc" /\ goal' \in Nat /\ point' \in Nat
         /\ rate' \in -MaxSlew .. MaxSlew /\ integral' \in Int
<1>1. integral' \in Int
  BY DEF Slews, ClockInv, ClockTypesOK
<1>2. rate' \in -MaxSlew .. MaxSlew
  BY <1>1, ClampType DEF Slews
<1> QED
  BY <1>1, <1>2 DEF Slews, ClockInv, HandlerTypes, HandlerInv

\* The parameters of a sample, and what is done with it.
LEMMA SampleParts ==
  ASSUME ClockInv, NEW d1 \in 0 .. MaxRtt, NEW d2 \in 0 .. MaxRtt - d1, RttSample(d1, d2)
  PROVE  /\ Synchronizes("sample") /\ UNCHANGED <<sourceVars, offset, seen, state, base, ref, drift,
                                                 steps, beacons>>
         /\ lastRtt' \in 0 .. MaxRtt /\ samples' = samples + 1
         /\ \/ \E target \in Nat : \E local \in Nat : StepsTo(target, local) /\ local <= Local
            \/ state # "UNSYNCHRONIZED" /\ \E error \in Int : Slews(error)
<1> DEFINE t2 == Local - d2
           t1 == Master - d2 - d1
           raw == Truncated(2 * t2 - t1 - Master, 2)
<1>1. /\ t2 >= 0 /\ t1 >= 0 /\ lastRtt' = d1 + d2 /\ samples' = samples + 1
      /\ Synchronizes("sample") /\ UNCHANGED <<sourceVars, offset, seen, state, base, ref, drift,
                                              steps, beacons>>
  BY DEF RttSample
<1>2. \/ StepsTo(t1 + (d1 + d2) \div 2, t2)
      \/ state # "UNSYNCHRONIZED" /\ Slews(-raw)
  BY DEF RttSample
<1>3. t1 \in Nat /\ t2 \in Nat /\ t2 <= Local
  BY <1>1, ClockTypes
<1>4. t1 + (d1 + d2) \div 2 \in Nat
  BY <1>3, DivNat
<1>5. -raw \in Int
  <2>1. PICK x \in Int : x = 2 * t2 - t1 - Master
    BY <1>3, ClockTypes
  <2>2. Truncated(x, 2) \in Int
    BY DivMod DEF Truncated
  <2> QED
    BY <2>1, <2>2
<1> HIDE DEF t1, t2, raw
<1> QED
  BY <1>1, <1>2, <1>3, <1>4, <1>5

\* Those of a beacon: where the line is to be, taken at the present, is near
\* the master's clock; a clock that is not stepped is near it already.
Apart == MaxDelay + MaxRtt + StepThreshold

LEMMA BeaconParts ==
  ASSUME ClockInv, NEW total \in 0 .. MaxDelay, NEW queued \in 0 .. total,
         Beacon(total - queued, queued)
  PROVE  /\ Synchronizes("beacon") /\ Asking
         /\ UNCHANGED <<state, base, ref, drift, steps, lastRtt, samples>>
         /\ beacons' = beacons + 1
         /\ \/ \E target \in Nat : \E local \in Nat :
                 /\ StepsTo(target, local) /\ local <= Local
                 /\ Master - Apart <= target + (Local - local)
                 /\ target + (Local - local) <= Master + Apart
            \/ /\ state # "UNSYNCHRONIZED" /\ \E error \in Int : Slews(error)
               /\ Master - Apart <= Utc /\ Utc <= Master + Apart
<1> DEFINE received == Local - queued
           half == lastRtt \div 2
           target == Master - queued - (total - queued) + half
           error == target - Utc
<1>1. /\ received >= 0 /\ Master >= queued + (total - queued)
      /\ Synchronizes("beacon") /\ Asking
      /\ UNCHANGED <<state, base, ref, drift, steps, lastRtt, samples>> /\ beacons' = beacons + 1
  BY DEF Beacon
<1>2. \/ StepsTo(target, received)
      \/ state # "UNSYNCHRONIZED" /\ ~Far(error) /\ Slews(error)
  BY DEF Beacon
<1>3. Local \in Nat /\ Master \in Nat /\ Utc \in Nat /\ received \in Nat
  BY <1>1, ClockTypes
<1>4. half \in Nat /\ half <= MaxRtt
  BY DivNat DEF ClockInv, ClockTypesOK
<1>5. target = Master - total + half /\ target \in Nat /\ error \in Int
  BY <1>1, <1>3, <1>4
<1>6. received <= Local /\ Local - received = queued
  BY <1>3
<1>7. error = target - Utc
  OBVIOUS
<1> HIDE DEF received, half, target, error
<1>8. CASE StepsTo(target, received)
  <2>1. Master - Apart <= target + (Local - received) /\ target + (Local - received) <= Master + Apart
    BY <1>3, <1>4, <1>5, <1>6 DEF Apart
  <2> QED
    BY <1>1, <1>3, <1>5, <1>6, <1>8, <2>1
<1>9. CASE state # "UNSYNCHRONIZED" /\ ~Far(error) /\ Slews(error)
  <2>1. -StepThreshold <= error /\ error <= StepThreshold
    BY <1>5, <1>9 DEF Far, Abs
  <2>2. Master - Apart <= Utc /\ Utc <= Master + Apart
    BY <1>3, <1>4, <1>5, <1>7, <2>1 DEF Apart
  <2> QED
    BY <1>1, <1>5, <1>9, <2>2
<1> QED
  BY <1>2, <1>8, <1>9

ManagerInv == ClockTypesOK /\ HandlerTypes /\ HandlerInv /\ StoredInv

\* A settled source stays settled, and time passes on it.
LEMMA TimePasses ==
  ASSUME ClockInv, [Next]_vars
  PROVE  /\ SourceInv' /\ (~lapsed' => ~lapsed) /\ (Settled => Settled')
         /\ Local \in Nat /\ Local' \in Nat /\ Elapsed \in Nat /\ Elapsed' \in Nat
         /\ Settled /\ ~lapsed' => /\ Elapsed' - Elapsed = cycles' - cycles
                                   /\ Elapsed <= Elapsed' /\ Local <= Local'
<1>1. /\ SourceInv' /\ (~lapsed' => ~lapsed) /\ (Settled => Settled') /\ cycles' >= cycles
      /\ Settled /\ ~lapsed' => Elapsed' - Elapsed = cycles' - cycles
  BY SourceKept DEF ClockInv
<1>2. Local \in Nat /\ Local' \in Nat /\ Elapsed \in Nat /\ Elapsed' \in Nat
  BY <1>1, ReadingTypes, ReadingTypesNext DEF ClockInv
<1>3. ASSUME Settled, ~lapsed'
      PROVE  Elapsed <= Elapsed' /\ Local <= Local'
  <2>1. cycles \in Int /\ cycles' \in Int
    BY <1>1 DEF ClockInv, SourceInv, SourceTypes
  <2>2. Elapsed <= Elapsed'
    BY <1>1, <1>2, <1>3, <2>1
  <2>3. CyclesPerUs \in Int /\ CyclesPerUs > 0
    OBVIOUS
  <2>4. PICK x \in Int, y \in Int : x = Elapsed /\ y = Elapsed' /\ x <= y
    BY <1>2, <2>2
  <2>5. x \div CyclesPerUs <= y \div CyclesPerUs
    BY <2>3, <2>4, DivMonotone
  <2> QED
    BY <2>2, <2>4, <2>5 DEF Local
<1> QED
  BY <1>1, <1>2, <1>3

LEMMA QuietKeeps ==
  ASSUME ClockInv, [Next]_vars, UNCHANGED <<offset, managerVars>>
  PROVE  ManagerInv'
<1>1. Settled => Settled'
  BY TimePasses
<1>2. UNCHANGED <<offset, state, base, ref, drift, integral, steps, lastRtt, samples, beacons,
                  silent, handler, stepping, at, goal, point, rate, began, seen>>
  BY DEF managerVars, lineVars, counts, locals
<1>3. ClockTypesOK' /\ HandlerTypes'
  BY <1>2 DEF ClockInv, ClockTypesOK, HandlerTypes
<1>4. HandlerInv' /\ StoredInv'
  BY <1>1, <1>2 DEF ClockInv, HandlerInv, StoredInv
<1> QED
  BY <1>3, <1>4 DEF ManagerInv

LEMMA StartKeeps ==
  ASSUME ClockInv, [Next]_vars, Starts(handler'), handler' \in {"sample", "beacon"},
         UNCHANGED <<offset, seen, state, base, ref, drift, steps>>,
         \/ \E target \in Nat : \E local \in Nat : StepsTo(target, local)
         \/ state # "UNSYNCHRONIZED" /\ \E error \in Int : Slews(error)
  PROVE  HandlerTypes' /\ HandlerInv' /\ StoredInv' /\ integral' \in Int
<1>1. at = "idle" /\ Settled /\ began' = <<cycles, Elapsed>>
  BY DEF Starts
<1>2. Settled' /\ Elapsed \in Nat /\ cycles \in Nat
  BY <1>1, TimePasses DEF ClockInv, SourceInv, SourceTypes
<1>3. began' \in Nat \X Nat /\ seen' \in Nat
  BY <1>1, <1>2 DEF ClockInv, HandlerTypes
<1>4. CASE \E target \in Nat : \E local \in Nat : StepsTo(target, local)
  <2>1. PICK target \in Nat, local \in Nat : StepsTo(target, local)
    BY <1>4
  <2>2. /\ stepping' = TRUE /\ at' = "base" /\ goal' = target /\ point' = local
        /\ rate' = 0 /\ integral' \in Int
    BY <1>1, <2>1, StepsToTypes
  <2>3. HandlerTypes'
    BY <1>3, <2>2 DEF HandlerTypes
  <2>4. HandlerInv' /\ StoredInv'
    BY <1>2, <2>2 DEF HandlerInv, StoredInv
  <2> QED
    BY <2>2, <2>3, <2>4
<1>5. CASE state # "UNSYNCHRONIZED" /\ \E error \in Int : Slews(error)
  <2>1. /\ stepping' = FALSE /\ at' = "utc" /\ goal' \in Nat /\ point' \in Nat
        /\ rate' \in -MaxSlew .. MaxSlew /\ integral' \in Int
    BY <1>1, <1>5, SlewsTypes
  <2>2. HandlerTypes'
    BY <1>3, <2>1 DEF HandlerTypes
  <2>3. HandlerInv' /\ StoredInv'
    BY <1>2, <1>5, <2>1 DEF HandlerInv, StoredInv
  <2> QED
    BY <2>1, <2>2, <2>3
<1> QED
  BY <1>4, <1>5

LEMMA SampleKeeps ==
  ASSUME ClockInv, [Next]_vars, NEW d1 \in 0 .. MaxRtt, NEW d2 \in 0 .. MaxRtt - d1,
         RttSample(d1, d2)
  PROVE  ManagerInv'
<1>1. /\ Synchronizes("sample") /\ UNCHANGED <<sourceVars, offset, seen, state, base, ref, drift,
                                              steps, beacons>>
      /\ lastRtt' \in 0 .. MaxRtt /\ samples' = samples + 1
      /\ \/ \E target \in Nat : \E local \in Nat : StepsTo(target, local) /\ local <= Local
         \/ state # "UNSYNCHRONIZED" /\ \E error \in Int : Slews(error)
  BY SampleParts
<1>2. Starts(handler') /\ handler' = "sample" /\ silent' = 0 /\ samples + beacons < MaxSyncs
  BY <1>1 DEF Synchronizes, Starts
<1>3. HandlerTypes' /\ HandlerInv' /\ StoredInv' /\ integral' \in Int
  BY <1>1, <1>2, StartKeeps
<1>4. ClockTypesOK'
  BY <1>1, <1>2, <1>3 DEF ClockInv, ClockTypesOK
<1> QED
  BY <1>3, <1>4 DEF ManagerInv

LEMMA BeaconKeeps ==
  ASSUME ClockInv, [Next]_vars, NEW total \in 0 .. MaxDelay, NEW queued \in 0 .. total,
         Beacon(total - queued, queued)
  PROVE  ManagerInv'
<1>1. /\ Synchronizes("beacon") /\ Asking
      /\ UNCHANGED <<state, base, ref, drift, steps, lastRtt, samples>> /\ beacons' = beacons + 1
      /\ \/ \E target \in Nat : \E local \in Nat : StepsTo(target, local)
         \/ state # "UNSYNCHRONIZED" /\ \E error \in Int : Slews(error)
  BY BeaconParts
<1>2. Starts(handler') /\ handler' = "beacon" /\ silent' = 0 /\ samples + beacons < MaxSyncs
  BY <1>1 DEF Synchronizes, Starts
<1>3. UNCHANGED <<offset, seen>>
  BY <1>1 DEF Asking
<1>4. HandlerTypes' /\ HandlerInv' /\ StoredInv' /\ integral' \in Int
  BY <1>1, <1>2, <1>3, StartKeeps
<1>5. ClockTypesOK'
  BY <1>1, <1>2, <1>3, <1>4 DEF ClockInv, ClockTypesOK
<1> QED
  BY <1>4, <1>5 DEF ManagerInv

LEMMA ForceKeeps ==
  ASSUME ClockInv, [Next]_vars, NEW by \in Forced, ForceStep(by)
  PROVE  ManagerInv'
<1>1. /\ at = "idle" /\ Settled /\ handler' = "force" /\ began' = <<cycles, Elapsed>>
      /\ goal' = Utc + by /\ Utc + by >= 0 /\ stepping' = TRUE /\ at' = "local"
      /\ UNCHANGED <<state, base, ref, drift, integral, steps, lastRtt, samples, beacons, silent,
                     point, rate, seen, offset>>
  BY DEF ForceStep, Starts, Asking, lineVars, counts
<1>2. Settled' /\ Elapsed \in Nat /\ cycles \in Nat
  BY <1>1, TimePasses DEF ClockInv, SourceInv, SourceTypes
<1>3. goal' \in Nat
  BY <1>1, ClockTypes
<1>4. ClockTypesOK' /\ HandlerTypes'
  BY <1>1, <1>2, <1>3 DEF ClockInv, ClockTypesOK, HandlerTypes
<1>5. HandlerInv' /\ StoredInv'
  BY <1>1, <1>2 DEF ClockInv, HandlerInv, StoredInv
<1> QED
  BY <1>4, <1>5 DEF ManagerInv

LEMMA ReadUtcKeeps ==
  ASSUME ClockInv, [Next]_vars, ReadUtc
  PROVE  ManagerInv'
<1>1. /\ at = "utc" /\ at' = "local" /\ goal' = Utc
      /\ UNCHANGED <<state, base, ref, drift, integral, steps, lastRtt, samples, beacons, silent,
                     handler, stepping, point, rate, began, seen, offset>>
  BY DEF ReadUtc, Asking, lineVars, counts
<1>2. goal' \in Nat /\ (Settled => Settled')
  BY <1>1, ClockTypes, TimePasses
<1>3. ClockTypesOK' /\ HandlerTypes'
  BY <1>1, <1>2 DEF ClockInv, ClockTypesOK, HandlerTypes
<1>4. HandlerInv' /\ StoredInv'
  BY <1>1, <1>2 DEF ClockInv, HandlerInv, StoredInv
<1> QED
  BY <1>3, <1>4 DEF ManagerInv

LEMMA ReadLocalKeeps ==
  ASSUME ClockInv, [Next]_vars, ReadLocal
  PROVE  ManagerInv'
<1>1. /\ at = "local" /\ at' = "base" /\ point' = Local
      /\ UNCHANGED <<state, base, ref, drift, integral, steps, lastRtt, samples, beacons, silent,
                     handler, stepping, goal, rate, began, seen, offset>>
  BY DEF ReadLocal, Asking, lineVars, counts
<1>2. point' \in Nat /\ (Settled => Settled')
  BY <1>1, TimePasses
<1>3. ClockTypesOK' /\ HandlerTypes'
  BY <1>1, <1>2 DEF ClockInv, ClockTypesOK, HandlerTypes
<1>4. HandlerInv' /\ StoredInv'
  BY <1>1, <1>2 DEF ClockInv, HandlerInv, StoredInv
<1> QED
  BY <1>3, <1>4 DEF ManagerInv

\* What the stores leave alone.
LEMMA StoringStep ==
  ASSUME ClockInv, [Next]_vars, Storing
  PROVE  /\ UNCHANGED <<cycles, lapsed, Elapsed, Local, Master>> /\ (Settled => Settled')
         /\ UNCHANGED <<offset, lastRtt, samples, beacons, silent, handler, stepping, goal, point,
                        rate, began, seen>>
<1>1. UNCHANGED <<cycles, zeroedAt, lastCyccnt, accumulated, initialized, readAt, asking, lapsed>>
  BY DEF Storing, sourceVars, counterVars
<1> QED
  BY <1>1, TimePasses DEF Storing, counts, Elapsed, Local, Delta, Cyccnt, Master

LEMMA ReturnsStep ==
  ASSUME ClockInv, [Next]_vars, Returns
  PROVE  /\ UNCHANGED <<cycles, lapsed, Elapsed, Local, Master>> /\ (Settled => Settled')
         /\ UNCHANGED <<offset, lastRtt, samples, beacons, silent>>
<1>1. UNCHANGED <<cycles, zeroedAt, lastCyccnt, accumulated, initialized, readAt, asking, lapsed>>
  BY DEF Returns, sourceVars, counterVars
<1> QED
  BY <1>1, TimePasses DEF Returns, counts, Elapsed, Local, Delta, Cyccnt, Master

LEMMA StoreBaseKeeps ==
  ASSUME ClockInv, [Next]_vars, StoreBase
  PROVE  ManagerInv'
<1>1. Storing /\ at = "base" /\ at' = "ref" /\ base' = goal
      /\ UNCHANGED <<state, ref, drift, integral, steps>>
  BY DEF StoreBase
<1>2. /\ Settled => Settled'
      /\ UNCHANGED <<offset, lastRtt, samples, beacons, silent, handler, stepping, goal, point,
                     rate, began, seen>>
  BY <1>1, StoringStep
<1>3. ClockTypesOK' /\ HandlerTypes'
  BY <1>1, <1>2 DEF ClockInv, ClockTypesOK, HandlerTypes
<1>4. HandlerInv' /\ StoredInv'
  BY <1>1, <1>2 DEF ClockInv, HandlerInv, StoredInv
<1> QED
  BY <1>3, <1>4 DEF ManagerInv

LEMMA StoreRefKeeps ==
  ASSUME ClockInv, [Next]_vars, StoreRef
  PROVE  ManagerInv'
<1>1. Storing /\ at = "ref" /\ at' = "drift" /\ ref' = point
      /\ UNCHANGED <<state, base, drift, integral, steps>>
  BY DEF StoreRef
<1>2. /\ Settled => Settled'
      /\ UNCHANGED <<offset, lastRtt, samples, beacons, silent, handler, stepping, goal, point,
                     rate, began, seen>>
  BY <1>1, StoringStep
<1>3. ClockTypesOK' /\ HandlerTypes'
  BY <1>1, <1>2 DEF ClockInv, ClockTypesOK, HandlerTypes
<1>4. HandlerInv' /\ StoredInv'
  BY <1>1, <1>2 DEF ClockInv, HandlerInv, StoredInv
<1> QED
  BY <1>3, <1>4 DEF ManagerInv

\* A handler that has returned.
LEMMA ReturnsKeeps ==
  ASSUME ClockInv, [Next]_vars, Returns
  PROVE  HandlerTypes' /\ HandlerInv' /\ StoredInv'
<1>1. /\ handler' = "none" /\ stepping' = FALSE /\ at' = "idle"
      /\ goal' = 0 /\ point' = 0 /\ rate' = 0 /\ began' = <<0, 0>>
      /\ seen' = IF stepping THEN 0 ELSE seen
  BY DEF Returns
<1>2. Settled => Settled'
  BY TimePasses
<1>3. HandlerTypes'
  <2>1. seen' \in Nat
    BY <1>1 DEF ClockInv, HandlerTypes
  <2>2. <<0, 0>> \in Nat \X Nat
    OBVIOUS
  <2>3. rate' \in -MaxSlew .. MaxSlew
    BY <1>1
  <2> QED
    BY <1>1, <2>1, <2>2, <2>3 DEF HandlerTypes
<1>4. HandlerInv' /\ StoredInv'
  BY <1>1, <1>2 DEF ClockInv, HandlerInv, StoredInv
<1> QED
  BY <1>3, <1>4

LEMMA StoreDriftKeeps ==
  ASSUME ClockInv, [Next]_vars, StoreDrift
  PROVE  ManagerInv'
<1>1. /\ at = "drift" /\ drift' = rate /\ UNCHANGED <<state, base, ref>>
      /\ integral' \in Int /\ steps' \in Nat
      /\ \/ handler = "force" /\ Returns
         \/ handler # "force" /\ at' = "state" /\ Storing
  BY DEF StoreDrift, ClockInv, ClockTypesOK
<1>2. CASE handler = "force" /\ Returns
  <2>1. HandlerTypes' /\ HandlerInv' /\ StoredInv'
    BY <1>2, ReturnsKeeps
  <2>2. UNCHANGED <<offset, lastRtt, samples, beacons, silent>>
    BY <1>2, ReturnsStep
  <2>3. ClockTypesOK'
    BY <1>1, <2>2 DEF ClockInv, ClockTypesOK, HandlerTypes
  <2> QED
    BY <2>1, <2>3 DEF ManagerInv
<1>3. CASE handler # "force" /\ at' = "state" /\ Storing
  <2>1. /\ Settled => Settled'
        /\ UNCHANGED <<offset, lastRtt, samples, beacons, silent, handler, stepping, goal, point,
                       rate, began, seen>>
    BY <1>3, StoringStep
  <2>2. ClockTypesOK' /\ HandlerTypes'
    BY <1>1, <1>3, <2>1 DEF ClockInv, ClockTypesOK, HandlerTypes
  <2>3. HandlerInv' /\ StoredInv'
    BY <1>1, <1>3, <2>1 DEF ClockInv, HandlerInv, StoredInv
  <2> QED
    BY <2>2, <2>3 DEF ManagerInv
<1> QED
  BY <1>1, <1>2, <1>3

LEMMA StoreStateKeeps ==
  ASSUME ClockInv, [Next]_vars, StoreState
  PROVE  ManagerInv'
<1>1. /\ at = "state" /\ state' \in {"CALIBRATING", "LOCKED"} /\ Returns
      /\ UNCHANGED <<base, ref, drift, integral, steps>>
  BY DEF StoreState, lineVars
<1>2. HandlerTypes' /\ HandlerInv' /\ StoredInv'
  BY <1>1, ReturnsKeeps
<1>3. UNCHANGED <<offset, lastRtt, samples, beacons, silent>>
  BY <1>1, ReturnsStep
<1>4. ClockTypesOK'
  BY <1>1, <1>3 DEF ClockInv, ClockTypesOK
<1> QED
  BY <1>2, <1>4 DEF ManagerInv

LEMMA UpdateKeeps ==
  ASSUME ClockInv, [Next]_vars, Update
  PROVE  ManagerInv' /\ state # "UNSYNCHRONIZED" /\ state' # "UNSYNCHRONIZED"
         /\ at = "idle" /\ UNCHANGED <<sourceVars, base, ref, drift, seen, at>>
<1>1. /\ at = "idle" /\ state \in {"LOCKED", "HOLDOVER"} /\ silent < Holdover
      /\ silent' = silent + 1 /\ state' \in {"LOCKED", "HOLDOVER"}
      /\ UNCHANGED <<offset, base, ref, drift, integral, steps, lastRtt, samples, beacons,
                     handler, stepping, at, goal, point, rate, began, seen>>
      /\ UNCHANGED sourceVars
  BY DEF Update, lineVars, counts, locals
<1>2. Settled => Settled'
  BY TimePasses
<1>3. ClockTypesOK' /\ HandlerTypes'
  BY <1>1 DEF ClockInv, ClockTypesOK, HandlerTypes
<1>4. HandlerInv' /\ StoredInv'
  BY <1>1, <1>2 DEF ClockInv, HandlerInv, StoredInv
<1> QED
  BY <1>1, <1>3, <1>4 DEF ManagerInv

LEMMA ObserveKeeps ==
  ASSUME ClockInv, [Next]_vars, Observe
  PROVE  /\ ManagerInv' /\ at = "idle" /\ at' = "idle" /\ seen' = Utc /\ Settled
         /\ Local' = Local /\ lapsed' = lapsed /\ UNCHANGED <<state, base, ref, drift>>
<1>1. /\ at = "idle" /\ seen' = Utc /\ Settled
      /\ UNCHANGED <<offset, state, base, ref, drift, integral, steps, lastRtt, samples, beacons,
                     silent, handler, stepping, at, goal, point, rate, began, lapsed>>
  BY DEF Observe, lineVars, counts, locals
<1>2. Reading
  BY DEF Observe, Reading
<1>3. Local' = Local
  BY <1>2, ReadingStep DEF ClockInv
<1>4. seen' \in Nat /\ Settled'
  BY <1>1, ClockTypes, TimePasses
<1>5. ClockTypesOK' /\ HandlerTypes'
  BY <1>1, <1>4 DEF ClockInv, ClockTypesOK, HandlerTypes
<1>6. HandlerInv' /\ StoredInv'
  BY <1>1, <1>4 DEF ClockInv, HandlerInv, StoredInv
<1> QED
  BY <1>1, <1>3, <1>5, <1>6 DEF ManagerInv

LEMMA ClockInvInit == Init => ClockInv
<1>1. SUFFICES ASSUME Init PROVE ClockInv
  OBVIOUS
<1>2. ClockTypesOK /\ HandlerTypes
  <2>1. <<0, 0>> \in Nat \X Nat
    OBVIOUS
  <2>2. 0 \in -MaxSlew .. MaxSlew /\ 0 \in 0 .. MaxRtt /\ 0 \in 0 .. Holdover
    OBVIOUS
  <2>3. offset \in Nat
    BY <1>1 DEF Init
  <2>4. ClockTypesOK
    BY <1>1, <2>2, <2>3 DEF Init, ClockTypesOK
  <2>5. HandlerTypes
    BY <1>1, <2>1, <2>2 DEF Init, HandlerTypes
  <2> QED
    BY <2>4, <2>5
<1>3. HandlerInv /\ StoredInv
  BY <1>1 DEF Init, HandlerInv, StoredInv
<1> QED
  BY <1>1, <1>2, <1>3, SourceInvInit DEF ClockInv

LEMMA ClockInvStep == ClockInv /\ [Next]_vars => ClockInv'
<1>1. SUFFICES ASSUME ClockInv, [Next]_vars PROVE ManagerInv'
  BY SourceKept DEF ClockInv, ManagerInv
<1>2. CASE Quiet
  BY <1>1, <1>2, QuietKeeps DEF Quiet
<1> QED
  BY <1>1, <1>2, NextOfManager, SampleKeeps, BeaconKeeps, ForceKeeps, ReadUtcKeeps, ReadLocalKeeps,
     StoreBaseKeeps, StoreRefKeeps, StoreDriftKeeps, StoreStateKeeps, UpdateKeeps, ObserveKeeps

\* The types of the clock and of its source, and what a handler keeps.
THEOREM ClockInvariant == Spec => []ClockInv
BY ClockInvInit, ClockInvStep, PTL DEF Spec

\* Every variable keeps its type, and the slope stays positive, whatever the
\* network delivers.
THEOREM ClockTypesHold == Spec => []TypeOK
<1>1. ClockInv => TypeOK
  BY PartsOfTypeOK DEF ClockInv, SourceInv
<1> QED
  BY <1>1, ClockInvariant, PTL

-----------------------------------------------------------------------------
(* UTC as it is read while no handler runs.                                 *)

\* What a handler is to store is not below an earlier reading, unless it
\* steps the clock; where its line begins, local time has been.
SeenInv ==
  ~lapsed =>
    /\ at \in {"idle", "utc"} => seen <= Utc
    /\ at \notin {"idle", "utc"} /\ ~stepping => seen <= goal
    /\ at \in {"base", "ref", "drift", "state"} => point <= Local

LEMMA TwiceLater ==
  ASSUME NEW l \in Int, NEW m \in Int, l <= m
  PROVE  2 * (m - l) \in Nat /\ m <= l + 2 * (m - l)
OBVIOUS

LEMMA NotNegativeRises ==
  ASSUME NEW x \in Int, NEW y \in Int, NEW n \in Nat, x <= y, y <= x + n
  PROVE  /\ NotNegative(x) \in Nat /\ NotNegative(y) \in Nat /\ NotNegative(x) <= NotNegative(y)
         /\ NotNegative(y) <= NotNegative(x) + n
BY DEF NotNegative

\* While nothing of the line changes, UTC rises, at most twice as fast as
\* local time.
LEMMA UtcRises ==
  ASSUME ClockInv, [Next]_vars, Settled, ~lapsed', UNCHANGED <<base, ref, drift>>,
         (state = "UNSYNCHRONIZED") <=> (state' = "UNSYNCHRONIZED")
  PROVE  Utc \in Nat /\ Utc' \in Nat /\ Utc <= Utc' /\ Utc' <= Utc + 2 * (Local' - Local)
<1>1. PICK l \in Int, m \in Int : l = Local /\ m = Local' /\ l <= m /\ 0 <= l
  BY TimePasses
<1>2. PICK b \in Int, r \in Int, d \in -MaxSlew .. MaxSlew : b = base /\ r = ref /\ d = drift
  BY DEF ClockInv, ClockTypesOK
<1>3. Line(b, r, d, l) \in Int /\ Line(b, r, d, m) \in Int
  BY LineType
<1>4. Line(b, r, d, l) <= Line(b, r, d, m) /\ Line(b, r, d, m) <= Line(b, r, d, l) + 2 * (m - l)
  BY <1>1, LineRises
<1>5. Utc = IF state = "UNSYNCHRONIZED" THEN l ELSE NotNegative(Line(b, r, d, l))
  BY <1>1, <1>2, UtcIs
<1>6. Utc' = IF state' = "UNSYNCHRONIZED" THEN m ELSE NotNegative(Line(b, r, d, m))
  BY <1>1, <1>2, UtcIsNext
<1>7. PICK x \in Int, y \in Int : x = Line(b, r, d, l) /\ y = Line(b, r, d, m)
  BY <1>3
<1>8. x <= y /\ y <= x + 2 * (m - l)
  BY <1>4, <1>7
<1>9. NotNegative(x) \in Nat /\ NotNegative(y) \in Nat /\ NotNegative(x) <= NotNegative(y)
      /\ NotNegative(y) <= NotNegative(x) + 2 * (m - l)
  <2>1. PICK n \in Nat : n = 2 * (m - l)
    BY <1>1, TwiceLater
  <2>2. x <= y /\ y <= x + n
    BY <1>8, <2>1
  <2> QED
    BY <2>1, <2>2, NotNegativeRises
<1>10. CASE state = "UNSYNCHRONIZED"
  <2>1. Utc = l /\ Utc' = m
    BY <1>5, <1>6, <1>10
  <2>2. m <= l + 2 * (m - l)
    BY <1>1, TwiceLater
  <2>3. Utc \in Nat /\ Utc' \in Nat
    BY ClockTypes, ClockInvStep, ClockTypesNext
  <2> QED
    BY <1>1, <2>1, <2>2, <2>3
<1>11. CASE state # "UNSYNCHRONIZED"
  BY <1>1, <1>5, <1>6, <1>7, <1>9, <1>11
<1> QED
  BY <1>10, <1>11

\* A reading changes nothing.
LEMMA UtcStays ==
  ASSUME UNCHANGED <<Local, state, base, ref, drift>>
  PROVE  Utc' = Utc
BY DEF Utc

\* Where a handler has left the line.
LEMMA UtcOnReturn ==
  ASSUME ClockInv, at = "state", StoreState, [Next]_vars, point <= Local
  PROVE  /\ Utc' \in Nat /\ goal <= Utc' /\ Utc' <= goal + 2 * (Local - point)
         /\ stepping => Utc' = goal + (Local - point)
<1>1. /\ state' # "UNSYNCHRONIZED" /\ Returns /\ UNCHANGED <<base, ref, drift>>
      /\ base = goal /\ ref = point /\ drift = rate
  BY DEF StoreState, lineVars, ClockInv, StoredInv
<1>2. Local' = Local /\ Local \in Nat
  BY <1>1, ReturnsStep, TimePasses
<1>3. goal \in Nat /\ point \in Nat /\ rate \in -MaxSlew .. MaxSlew /\ (stepping => rate = 0)
  BY DEF ClockInv, HandlerTypes, HandlerInv
<1>4. Utc' = NotNegative(Line(base', ref', drift', Local'))
  BY <1>1, UtcIsNext
<1>5. PICK b \in Int, r \in Int, d \in -MaxSlew .. MaxSlew, l \in Int :
           b = goal /\ r = point /\ d = rate /\ l = Local /\ 0 <= b
  BY <1>2, <1>3
<1>6. Utc' = NotNegative(Line(b, r, d, l))
  BY <1>1, <1>2, <1>4, <1>5
<1>7. PICK x \in Int : x = Line(b, r, d, l)
  BY LineType
<1>8. b <= x /\ x <= b + 2 * (l - r)
  BY <1>5, <1>7, LineAfterBase
<1>9. stepping => x = b + (l - r)
  BY <1>3, <1>5, <1>7, LineLevel
<1>10. Utc' = x
  <2>1. 0 <= x
    BY <1>5, <1>8
  <2> QED
    BY <1>6, <1>7, <2>1 DEF NotNegative
<1> QED
  BY <1>5, <1>8, <1>9, <1>10

LEMMA SeenInit == Init => SeenInv
BY ClockInvInit, ClockTypes DEF Init, SeenInv

LEMMA SeenQuiet ==
  ASSUME ClockInv, SeenInv, [Next]_vars, UNCHANGED <<offset, managerVars>>
  PROVE  SeenInv'
<1>1. UNCHANGED <<offset, state, base, ref, drift, integral, steps, lastRtt, samples, beacons,
                  silent, handler, stepping, at, goal, point, rate, began, seen>>
  BY DEF managerVars, lineVars, counts, locals
<1>2. SUFFICES ASSUME ~lapsed' PROVE SeenInv'
  BY DEF SeenInv
<1>3. ~lapsed /\ Local \in Nat /\ Local' \in Nat
  BY <1>2, TimePasses
<1>4. Utc \in Nat /\ Utc' \in Nat
  BY ClockTypes, ClockInvStep, ClockTypesNext
<1>5. goal \in Nat /\ point \in Nat /\ seen \in Nat
  BY DEF ClockInv, HandlerTypes
<1>6. CASE Settled
  <2>1. Local <= Local'
    BY <1>2, <1>6, TimePasses
  <2>2. Utc <= Utc'
    BY <1>1, <1>2, <1>6, UtcRises
  <2> QED
    BY <1>1, <1>3, <1>4, <1>5, <2>1, <2>2 DEF SeenInv
<1>7. CASE ~Settled
  <2>1. at = "idle" /\ seen = 0
    BY <1>7 DEF ClockInv, HandlerInv
  <2> QED
    BY <1>1, <1>4, <2>1 DEF SeenInv
<1> QED
  BY <1>6, <1>7

LEMMA SeenStep == ClockInv /\ SeenInv /\ [Next]_vars => SeenInv'
<1>1. SUFFICES ASSUME ClockInv, SeenInv, [Next]_vars, ~lapsed' PROVE SeenInv'
  BY DEF SeenInv
<1>2. ~lapsed /\ Local \in Nat /\ Utc \in Nat
  BY <1>1, TimePasses, ClockTypes
<1>3. goal \in Nat /\ point \in Nat /\ seen \in Nat
  BY <1>1 DEF ClockInv, HandlerTypes
<1>4. CASE Quiet
  BY <1>1, <1>4, SeenQuiet DEF Quiet
<1>5. ASSUME NEW d1 \in 0 .. MaxRtt, NEW d2 \in 0 .. MaxRtt - d1, RttSample(d1, d2)
      PROVE  SeenInv'
  <2>1. /\ Synchronizes("sample") /\ UNCHANGED <<sourceVars, seen, state, base, ref, drift>>
        /\ \/ \E target \in Nat : \E local \in Nat : StepsTo(target, local) /\ local <= Local
           \/ \E error \in Int : Slews(error)
    BY <1>1, <1>5, SampleParts
  <2>2. at = "idle"
    BY <2>1 DEF Synchronizes, Starts
  <2>3. UNCHANGED <<Local, Utc>>
    BY <2>1 DEF sourceVars, counterVars, Local, Elapsed, Delta, Cyccnt, Utc
  <2>4. \/ stepping' = TRUE /\ at' = "base" /\ point' <= Local
        \/ at' = "utc"
    BY <2>1 DEF StepsTo, Slews
  <2> QED
    BY <1>1, <1>2, <2>1, <2>2, <2>3, <2>4 DEF SeenInv
<1>6. ASSUME NEW total \in 0 .. MaxDelay, NEW queued \in 0 .. total, Beacon(total - queued, queued)
      PROVE  SeenInv'
  <2>1. /\ Synchronizes("beacon") /\ Asking /\ UNCHANGED <<state, base, ref, drift>>
        /\ \/ \E target \in Nat : \E local \in Nat : StepsTo(target, local) /\ local <= Local
           \/ \E error \in Int : Slews(error)
    BY <1>1, <1>6, BeaconParts
  <2>2. at = "idle"
    BY <2>1 DEF Synchronizes, Starts
  <2>3. Local' = Local /\ seen' = seen
    BY <1>1, <2>1, AskingStep DEF ClockInv
  <2>4. Utc' = Utc
    BY <2>1, <2>3, UtcStays
  <2>5. \/ stepping' = TRUE /\ at' = "base" /\ point' <= Local
        \/ at' = "utc"
    BY <2>1 DEF StepsTo, Slews
  <2> QED
    BY <1>1, <1>2, <2>2, <2>3, <2>4, <2>5 DEF SeenInv
<1>7. ASSUME NEW by \in Forced, ForceStep(by)
      PROVE  SeenInv'
  <2>1. stepping' = TRUE /\ at' = "local"
    BY <1>7 DEF ForceStep
  <2> QED
    BY <2>1 DEF SeenInv
<1>8. CASE ReadUtc
  <2>1. at = "utc" /\ at' = "local" /\ goal' = Utc /\ seen' = seen
    BY <1>8 DEF ReadUtc, Asking
  <2> QED
    BY <1>1, <1>2, <2>1 DEF SeenInv
<1>9. CASE ReadLocal
  <2>1. at = "local" /\ at' = "base" /\ point' = Local /\ UNCHANGED <<seen, goal, stepping>>
    BY <1>9 DEF ReadLocal, Asking
  <2>2. Local' = Local
    BY <1>1, <1>9, AskingStep DEF ReadLocal, ClockInv
  <2> QED
    BY <1>1, <1>2, <2>1, <2>2 DEF SeenInv
<1>10. CASE StoreBase \/ StoreRef
  <2>1. Storing /\ at \in {"base", "ref"} /\ at' \in {"ref", "drift"}
    BY <1>10 DEF StoreBase, StoreRef
  <2>2. UNCHANGED <<Local, seen, goal, point, stepping>>
    BY <1>1, <2>1, StoringStep
  <2> QED
    BY <1>1, <1>2, <2>1, <2>2 DEF SeenInv
<1>11. CASE StoreDrift
  <2>1. at = "drift" /\ \/ handler = "force" /\ Returns
                        \/ at' = "state" /\ Storing
    BY <1>11 DEF StoreDrift
  <2>2. CASE handler = "force" /\ Returns
    <3>1. stepping /\ at' = "idle" /\ seen' = 0
      BY <1>1, <2>2 DEF Returns, ClockInv, HandlerInv
    <3>2. Utc' \in Nat
      BY <1>1, ClockInvStep, ClockTypesNext
    <3> QED
      BY <3>1, <3>2 DEF SeenInv
  <2>3. CASE at' = "state" /\ Storing
    <3>1. UNCHANGED <<Local, seen, goal, point, stepping>>
      BY <1>1, <2>3, StoringStep
    <3> QED
      BY <1>1, <1>2, <2>1, <2>3, <3>1 DEF SeenInv
  <2> QED
    BY <2>1, <2>2, <2>3
<1>12. CASE StoreState
  <2>1. at = "state" /\ at' = "idle" /\ seen' = IF stepping THEN 0 ELSE seen
    BY <1>12 DEF StoreState, Returns
  <2>2. point <= Local /\ (~stepping => seen <= goal)
    BY <1>1, <1>2, <2>1 DEF SeenInv
  <2>3. Utc' \in Nat /\ goal <= Utc'
    BY <1>1, <1>12, <2>1, <2>2, UtcOnReturn
  <2>4. stepping \in BOOLEAN
    BY <1>1 DEF ClockInv, HandlerTypes
  <2>5. seen' <= Utc'
    BY <1>3, <2>1, <2>2, <2>3, <2>4
  <2> QED
    BY <2>1, <2>5 DEF SeenInv
<1>13. CASE Update
  <2>1. /\ state # "UNSYNCHRONIZED" /\ state' # "UNSYNCHRONIZED"
        /\ at = "idle" /\ UNCHANGED <<sourceVars, base, ref, drift, seen, at>>
    BY <1>1, <1>13, UpdateKeeps
  <2>2. Local' = Local
    BY <2>1 DEF sourceVars, counterVars, Local, Elapsed, Delta, Cyccnt
  <2>3. Utc' = Utc
    BY <2>1, <2>2 DEF Utc
  <2> QED
    BY <1>1, <1>2, <2>1, <2>3 DEF SeenInv
<1>14. CASE Observe
  <2>1. at' = "idle" /\ seen' = Utc /\ Local' = Local /\ UNCHANGED <<state, base, ref, drift>>
    BY <1>1, <1>14, ObserveKeeps
  <2>2. Utc' = Utc
    BY <2>1, UtcStays
  <2> QED
    BY <1>2, <2>1, <2>2 DEF SeenInv
<1> QED
  BY <1>1, <1>4, <1>5, <1>6, <1>7, <1>8, <1>9, <1>10, <1>11, <1>12, <1>13, <1>14, NextOfManager

\* Whoever reads UTC while no handler runs never reads less than before,
\* unless the clock was stepped between: for any slope limit, any error, and
\* whatever time passes between the readings and the stores of a correction.
THEOREM UtcTurnsBackByStepsOnly == Spec => []OnlyStepsTurnBack
<1>1. Init => ClockInv /\ SeenInv
  BY ClockInvInit, SeenInit
<1>2. ClockInv /\ SeenInv /\ [Next]_vars => (ClockInv /\ SeenInv)'
  BY ClockInvStep, SeenStep
<1>3. SeenInv => OnlyStepsTurnBack
  BY DEF SeenInv, OnlyStepsTurnBack
<1> QED
  BY <1>1, <1>2, <1>3, PTL DEF Spec

-----------------------------------------------------------------------------
(* The clock after a beacon.                                                *)

\* The readings of both clocks when the handler took its first.
Local0 == began[2] \div CyclesPerUs
Master0 == began[1] \div CyclesPerUs + offset

\* Both clocks have gone on alike since, and what the handler is about to
\* store is near what the master's clock was then: a line that rises at most
\* twice as fast as local time.
BeaconInv ==
  ~lapsed /\ handler = "beacon" =>
    /\ Elapsed - began[2] = cycles - began[1] /\ began[2] <= Elapsed
    /\ at = "utc" => /\ Master0 - Apart <= Utc
                     /\ Utc <= Master0 + Apart + 2 * (Local - Local0)
    /\ at = "local" => /\ Master0 - Apart <= goal
                       /\ goal <= Master0 + Apart + 2 * (Local - Local0)
    /\ at \in {"base", "ref", "drift", "state"} =>
         IF stepping
         THEN /\ Master0 - Apart <= goal + (Local0 - point)
              /\ goal + (Local0 - point) <= Master0 + Apart
         ELSE /\ Master0 - Apart <= goal /\ Local0 <= point
              /\ goal <= Master0 + Apart + 2 * (point - Local0)

LEMMA StartTypes ==
  ASSUME ClockInv
  PROVE  /\ began \in Nat \X Nat /\ began[1] \in Nat /\ began[2] \in Nat
         /\ Local0 \in Nat /\ Master0 \in Nat /\ Apart \in Nat
<1>1. began \in Nat \X Nat /\ offset \in Nat
  BY DEF ClockInv, HandlerTypes, ClockTypesOK
<1>2. began[1] \in Nat /\ began[2] \in Nat
  BY <1>1
<1> QED
  BY <1>1, <1>2, DivNat DEF Local0, Master0, Apart

\* Since the handler began the two clocks are apart by a rounding.
LEMMA ClocksAlike ==
  ASSUME ClockInv, Elapsed - began[2] = cycles - began[1], began[2] <= Elapsed
  PROVE  /\ Local0 <= Local
         /\ Master - Master0 <= Local - Local0 + 1 /\ Local - Local0 <= Master - Master0 + 1
<1>1. PICK e \in Nat, c \in Nat, e0 \in Nat, c0 \in Nat :
           e = Elapsed /\ c = cycles /\ e0 = began[2] /\ c0 = began[1]
  BY StartTypes, ClockTypes DEF ClockInv, SourceInv, SourceTypes
<1>2. PICK w \in Int : w = CyclesPerUs /\ w > 0
  OBVIOUS
<1>3. e - e0 = c - c0 /\ e0 <= e
  BY <1>1
<1>4. PICK l \in Int, l0 \in Int, m \in Int, m0 \in Int :
           l = e \div w /\ l0 = e0 \div w /\ m = c \div w /\ m0 = c0 \div w
  BY <1>2, DivMod
<1>5. l - l0 <= m - m0 + 1 /\ m - m0 <= l - l0 + 1
  BY <1>2, <1>3, <1>4, DivDifference
<1>6. l0 <= l
  BY <1>2, <1>3, <1>4, DivMonotone
<1>7. Local = l /\ Local0 = l0 /\ Master = m + offset /\ Master0 = m0 + offset
  BY <1>1, <1>2, <1>4 DEF Local, Local0, Master, Master0
<1>8. offset \in Nat
  BY DEF ClockInv, ClockTypesOK
<1> QED
  BY <1>5, <1>6, <1>7, <1>8

LEMMA BeaconInit == Init => BeaconInv
BY DEF Init, BeaconInv

\* The handler begins.
LEMMA BeaconBegins ==
  ASSUME ClockInv, [Next]_vars, NEW total \in 0 .. MaxDelay, NEW queued \in 0 .. total,
         Beacon(total - queued, queued)
  PROVE  BeaconInv'
<1>1. /\ Synchronizes("beacon") /\ Asking
      /\ UNCHANGED <<state, base, ref, drift>>
      /\ \/ \E target \in Nat : \E local \in Nat :
              /\ StepsTo(target, local) /\ local <= Local
              /\ Master - Apart <= target + (Local - local)
              /\ target + (Local - local) <= Master + Apart
         \/ /\ \E error \in Int : Slews(error)
            /\ Master - Apart <= Utc /\ Utc <= Master + Apart
  BY BeaconParts
<1>2. at = "idle" /\ began' = <<cycles, Elapsed>>
  BY <1>1 DEF Synchronizes, Starts
<1>3. /\ Local' = Local /\ Master' = Master /\ Elapsed' = Elapsed /\ cycles' = cycles
      /\ offset' = offset
  BY <1>1, AskingStep DEF ClockInv
<1>4. Utc' = Utc
  BY <1>1, <1>3, UtcStays
<1>5. began'[1] = cycles /\ began'[2] = Elapsed
  BY <1>2
<1>6. Local0' = Local /\ Master0' = Master
  BY <1>3, <1>5 DEF Local0, Master0, Local, Master
<1>7. Local \in Nat /\ Elapsed \in Nat /\ Utc \in Nat /\ Master \in Nat /\ cycles \in Nat /\ Apart \in Nat
  BY ClockTypes, StartTypes DEF ClockInv, SourceInv, SourceTypes
<1>8. Elapsed' - began'[2] = cycles' - began'[1] /\ began'[2] <= Elapsed'
  BY <1>3, <1>5, <1>7
<1>9. CASE \E target \in Nat : \E local \in Nat :
              /\ StepsTo(target, local) /\ local <= Local
              /\ Master - Apart <= target + (Local - local)
              /\ target + (Local - local) <= Master + Apart
  <2>1. /\ stepping' = TRUE /\ at' = "base"
        /\ Master - Apart <= goal' + (Local - point') /\ goal' + (Local - point') <= Master + Apart
    BY <1>9 DEF StepsTo
  <2> QED
    BY <1>6, <1>8, <2>1 DEF BeaconInv, Apart
<1>10. CASE (\E error \in Int : Slews(error)) /\ Master - Apart <= Utc /\ Utc <= Master + Apart
  <2>1. at' = "utc"
    BY <1>10 DEF Slews
  <2>2. Master0' - Apart <= Utc' /\ Utc' <= Master0' + Apart + 2 * (Local' - Local0')
    BY <1>3, <1>4, <1>6, <1>7, <1>10
  <2> QED
    BY <1>8, <2>1, <2>2 DEF BeaconInv, Apart
<1> QED
  BY <1>1, <1>9, <1>10

LEMMA BoundMoves ==
  ASSUME NEW m \in Nat, NEW a \in Nat, NEW l \in Nat, NEW k \in Nat, NEW l0 \in Nat,
         NEW u \in Nat, NEW v \in Nat,
         m - a <= u, u <= m + a + 2 * (l - l0), u <= v, v <= u + 2 * (k - l)
  PROVE  m - a <= v /\ v <= m + a + 2 * (k - l0)
OBVIOUS

\* Time passes, or others ask for it.
LEMMA BeaconQuiet ==
  ASSUME ClockInv, BeaconInv, [Next]_vars, UNCHANGED <<offset, managerVars>>
  PROVE  BeaconInv'
<1>1. UNCHANGED <<offset, state, base, ref, drift, integral, steps, lastRtt, samples, beacons,
                  silent, handler, stepping, at, goal, point, rate, began, seen>>
  BY DEF managerVars, lineVars, counts, locals
<1>2. SUFFICES ASSUME ~lapsed', handler = "beacon" PROVE BeaconInv'
  BY <1>1 DEF BeaconInv
<1>3. Settled
  BY <1>2 DEF ClockInv, HandlerInv
<1>4. /\ ~lapsed /\ Local \in Nat /\ Local' \in Nat /\ Elapsed \in Nat /\ Elapsed' \in Nat
      /\ Elapsed' - Elapsed = cycles' - cycles /\ Elapsed <= Elapsed' /\ Local <= Local'
  BY <1>2, <1>3, TimePasses
<1>5. Utc \in Nat /\ Utc' \in Nat /\ Utc' <= Utc + 2 * (Local' - Local) /\ Utc <= Utc'
  BY <1>1, <1>2, <1>3, UtcRises
<1>6. /\ began[1] \in Nat /\ began[2] \in Nat /\ Local0 \in Nat /\ Master0 \in Nat /\ Apart \in Nat
      /\ goal \in Nat /\ point \in Nat /\ cycles \in Nat /\ cycles' \in Nat
  BY StartTypes, TimePasses DEF ClockInv, HandlerTypes, SourceInv, SourceTypes
<1>7. Local0' = Local0 /\ Master0' = Master0
  BY <1>1 DEF Local0, Master0
<1>8. Elapsed' - began[2] = cycles' - began[1] /\ began[2] <= Elapsed'
  BY <1>2, <1>4, <1>6 DEF BeaconInv
<1>9. at = "utc" => Master0 - Apart <= Utc' /\ Utc' <= Master0 + Apart + 2 * (Local' - Local0)
  <2>1. SUFFICES ASSUME at = "utc"
                 PROVE  Master0 - Apart <= Utc' /\ Utc' <= Master0 + Apart + 2 * (Local' - Local0)
    OBVIOUS
  <2>2. Master0 - Apart <= Utc /\ Utc <= Master0 + Apart + 2 * (Local - Local0)
    BY <1>2, <1>4, <2>1 DEF BeaconInv
  <2> QED
    BY <1>4, <1>5, <1>6, <2>2, BoundMoves
<1>10. at = "local" => Master0 - Apart <= goal /\ goal <= Master0 + Apart + 2 * (Local' - Local0)
  <2>1. SUFFICES ASSUME at = "local"
                 PROVE  Master0 - Apart <= goal /\ goal <= Master0 + Apart + 2 * (Local' - Local0)
    OBVIOUS
  <2>2. Master0 - Apart <= goal /\ goal <= Master0 + Apart + 2 * (Local - Local0)
    BY <1>2, <1>4, <2>1 DEF BeaconInv
  <2>3. PICK l \in Nat, k \in Nat, l0 \in Nat, m \in Nat, a \in Nat, g \in Nat :
             l = Local /\ k = Local' /\ l0 = Local0 /\ m = Master0 /\ a = Apart /\ g = goal
    BY <1>4, <1>6
  <2>4. l <= k /\ m - a <= g /\ g <= m + a + 2 * (l - l0)
    BY <1>4, <2>2, <2>3
  <2>5. g <= g + 2 * (k - l)
    BY <2>4
  <2>6. m - a <= g /\ g <= m + a + 2 * (k - l0)
    BY <2>4, <2>5, BoundMoves
  <2> QED
    BY <2>3, <2>6
<1> QED
  BY <1>1, <1>2, <1>4, <1>7, <1>8, <1>9, <1>10 DEF BeaconInv, Apart

\* The handler's own steps until it returns.
LEMMA BeaconReads ==
  ASSUME ClockInv, BeaconInv, [Next]_vars, ReadUtc \/ ReadLocal
  PROVE  BeaconInv'
<1>1. Asking /\ UNCHANGED <<handler, stepping, began, state, base, ref, drift>>
  BY DEF ReadUtc, ReadLocal, lineVars
<1>2. UNCHANGED <<cycles, lapsed, offset, Elapsed, Local>>
  BY <1>1, AskingStep DEF ClockInv
<1>3. Local0' = Local0 /\ Master0' = Master0
  BY <1>1, <1>2 DEF Local0, Master0
<1>4. \/ at = "utc" /\ at' = "local" /\ goal' = Utc
      \/ at = "local" /\ at' = "base" /\ goal' = goal /\ point' = Local
  BY DEF ReadUtc, ReadLocal
<1>5. SUFFICES ASSUME ~lapsed, handler = "beacon" PROVE BeaconInv'
  BY <1>1, <1>2 DEF BeaconInv
<1>6. Elapsed - began[2] = cycles - began[1] /\ began[2] <= Elapsed
  BY <1>5 DEF BeaconInv
<1>7. Local0 <= Local /\ Local0 \in Nat /\ Master0 \in Nat /\ Apart \in Nat /\ Local \in Nat /\ goal \in Nat
  BY <1>6, ClocksAlike, StartTypes, ClockTypes DEF ClockInv, HandlerTypes
<1>8. CASE at = "utc" /\ at' = "local" /\ goal' = Utc
  BY <1>1, <1>2, <1>3, <1>5, <1>6, <1>8 DEF BeaconInv, Apart
<1>9. CASE at = "local" /\ at' = "base" /\ goal' = goal /\ point' = Local
  <2>1. Master0 - Apart <= goal /\ goal <= Master0 + Apart + 2 * (Local - Local0)
    BY <1>5, <1>9 DEF BeaconInv
  <2>2. CASE ~stepping
    BY <1>1, <1>2, <1>3, <1>5, <1>6, <1>7, <1>9, <2>1, <2>2 DEF BeaconInv, Apart
  <2>3. CASE stepping
    BY <1>5, <1>9, <2>3 DEF ClockInv, HandlerInv
  <2> QED
    BY <2>2, <2>3
<1> QED
  BY <1>4, <1>8, <1>9

LEMMA BeaconStores ==
  ASSUME ClockInv, BeaconInv, [Next]_vars, StoreBase \/ StoreRef \/ StoreDrift, at' # "idle"
  PROVE  BeaconInv'
<1>1. Storing /\ at \in {"base", "ref", "drift"} /\ at' \in {"ref", "drift", "state"}
  BY DEF StoreBase, StoreRef, StoreDrift, Returns
<1>2. UNCHANGED <<cycles, lapsed, Elapsed, Local, offset, handler, stepping, goal, point, began>>
  BY <1>1, StoringStep
<1>3. Local0' = Local0 /\ Master0' = Master0
  BY <1>2 DEF Local0, Master0
<1> QED
  BY <1>1, <1>2, <1>3 DEF BeaconInv, Apart

LEMMA BeaconStep == ClockInv /\ BeaconInv /\ [Next]_vars => BeaconInv'
<1>1. SUFFICES ASSUME ClockInv, BeaconInv, [Next]_vars, handler' = "beacon" PROVE BeaconInv'
  BY DEF BeaconInv
<1>2. CASE Quiet
  BY <1>1, <1>2, BeaconQuiet DEF Quiet
<1>3. ASSUME NEW total \in 0 .. MaxDelay, NEW queued \in 0 .. total, Beacon(total - queued, queued)
      PROVE  BeaconInv'
  BY <1>1, <1>3, BeaconBegins
<1>4. ASSUME \/ \E d1 \in 0 .. MaxRtt : \E d2 \in 0 .. MaxRtt - d1 : RttSample(d1, d2)
             \/ \E by \in Forced : ForceStep(by)
      PROVE  FALSE
  BY <1>1, <1>4 DEF RttSample, ForceStep, Synchronizes, Starts
<1>5. ASSUME Update \/ Observe
      PROVE  FALSE
  <2>1. at = "idle" /\ handler' = handler
    BY <1>5 DEF Update, Observe, locals
  <2> QED
    BY <1>1, <2>1 DEF ClockInv, HandlerInv
<1>6. CASE ReadUtc \/ ReadLocal
  BY <1>1, <1>6, BeaconReads
<1>7. ASSUME StoreState \/ (StoreDrift /\ at' = "idle")
      PROVE  FALSE
  BY <1>1, <1>7 DEF StoreState, StoreDrift, Returns, Storing
<1>8. CASE (StoreBase \/ StoreRef \/ StoreDrift) /\ at' # "idle"
  BY <1>1, <1>8, BeaconStores
<1>9. StoreBase \/ StoreRef => at' # "idle"
  BY DEF StoreBase, StoreRef
<1> QED
  BY <1>1, <1>2, <1>3, <1>4, <1>5, <1>6, <1>7, <1>8, <1>9, NextOfManager

\* The handler returns: with the last store, of m_state.
LEMMA SlewedNear ==
  ASSUME NEW u \in Nat, NEW g \in Nat, NEW p \in Nat, NEW l \in Nat, NEW l0 \in Nat,
         NEW m \in Nat, NEW m0 \in Nat, NEW a \in Nat,
         m0 - a <= g, g <= m0 + a + 2 * (p - l0), g <= u, u <= g + 2 * (l - p),
         m - m0 <= l - l0 + 1, l - l0 <= m - m0 + 1
  PROVE  u - m <= a + (l - l0) + 1 /\ m - u <= a + (l - l0) + 1
OBVIOUS

LEMMA AbsBound ==
  ASSUME NEW u \in Int, NEW m \in Int, NEW a \in Int, u - m <= a, m - u <= a
  PROVE  Abs(u - m) <= a
BY DEF Abs

LEMMA BeaconReturns ==
  ASSUME ClockInv, SeenInv, BeaconInv, [Next]_vars, handler = "beacon", at' = "idle", ~lapsed'
  PROVE  Abs(Utc' - Master) <= MaxDelay + MaxRtt + StepThreshold
                               + (Local - began[2] \div CyclesPerUs) + 1
<1>1. StoreState /\ at = "state"
  <2>1. at # "idle" /\ handler # "force"
    BY DEF ClockInv, HandlerInv
  <2>2. ~Quiet /\ ~Update /\ ~Observe
    BY <2>1 DEF Quiet, managerVars, locals, Update, Observe
  <2>3. ~\E d1 \in 0 .. MaxRtt : \E d2 \in 0 .. MaxRtt - d1 : RttSample(d1, d2)
    BY <2>1 DEF RttSample, Synchronizes, Starts
  <2>4. ~\E total \in 0 .. MaxDelay : \E queued \in 0 .. total : Beacon(total - queued, queued)
    BY <2>1 DEF Beacon, Synchronizes, Starts
  <2>5. ~\E by \in Forced : ForceStep(by)
    BY <2>1 DEF ForceStep, Starts
  <2>6. ~ReadUtc /\ ~ReadLocal /\ ~StoreBase /\ ~StoreRef /\ ~StoreDrift
    BY <2>1 DEF ReadUtc, ReadLocal, StoreBase, StoreRef, StoreDrift
  <2>7. StoreState => at = "state"
    BY DEF StoreState
  <2> QED
    BY <2>2, <2>3, <2>4, <2>5, <2>6, <2>7, NextOfManager
<1>2. ~lapsed
  BY TimePasses
<1>3. point <= Local
  BY <1>1, <1>2 DEF SeenInv
<1>4. /\ Elapsed - began[2] = cycles - began[1] /\ began[2] <= Elapsed
      /\ IF stepping
         THEN /\ Master0 - Apart <= goal + (Local0 - point)
              /\ goal + (Local0 - point) <= Master0 + Apart
         ELSE /\ Master0 - Apart <= goal /\ Local0 <= point
              /\ goal <= Master0 + Apart + 2 * (point - Local0)
  BY <1>1, <1>2 DEF BeaconInv
<1>5. /\ Local0 <= Local
      /\ Master - Master0 <= Local - Local0 + 1 /\ Local - Local0 <= Master - Master0 + 1
  BY <1>4, ClocksAlike
<1>6. /\ Utc' \in Nat /\ goal <= Utc' /\ Utc' <= goal + 2 * (Local - point)
      /\ stepping => Utc' = goal + (Local - point)
  BY <1>1, <1>3, UtcOnReturn
<1>7. /\ Local0 \in Nat /\ Master0 \in Nat /\ Apart \in Nat /\ Local \in Nat /\ Master \in Nat
      /\ goal \in Nat /\ point \in Nat
  BY StartTypes, ClockTypes DEF ClockInv, HandlerTypes
<1>8. Utc' - Master <= Apart + (Local - Local0) + 1 /\ Master - Utc' <= Apart + (Local - Local0) + 1
  <2>1. CASE stepping
    BY <1>4, <1>5, <1>6, <1>7, <2>1
  <2>2. CASE ~stepping
    BY <1>4, <1>5, <1>6, <1>7, <2>2, SlewedNear
  <2> QED
    BY <2>1, <2>2
<1>9. Abs(Utc' - Master) <= Apart + (Local - Local0) + 1
  <2>1. PICK u \in Int, m \in Int, a \in Int :
             u = Utc' /\ m = Master /\ a = Apart + (Local - Local0) + 1
    BY <1>6, <1>7
  <2>2. Abs(u - m) <= a
    BY <1>8, <2>1, AbsBound
  <2> QED
    BY <2>1, <2>2
<1> QED
  BY <1>9 DEF Apart, Local0

\* However late beacons are, in whatever order they come and whatever time
\* passes while one is handled, the clock is left within the delay, the round
\* trip, the threshold and that time of the master's.
THEOREM BeaconErrorBounded == Spec => BeaconBoundsError
<1>1. Init => ClockInv /\ SeenInv /\ BeaconInv
  BY ClockInvInit, SeenInit, BeaconInit
<1>2. ClockInv /\ SeenInv /\ BeaconInv /\ [Next]_vars => (ClockInv /\ SeenInv /\ BeaconInv)'
  BY ClockInvStep, SeenStep, BeaconStep
<1>3. ClockInv /\ SeenInv /\ BeaconInv /\ [Next]_vars
        => [handler = "beacon" /\ at' = "idle" /\ ~lapsed'
              => Abs(Utc' - Master) <= MaxDelay + MaxRtt + StepThreshold
                                       + (Local - began[2] \div CyclesPerUs) + 1]_vars
  BY BeaconReturns
<1> QED
  BY <1>1, <1>2, <1>3, PTL DEF Spec, BeaconBoundsError
=============================================================================
