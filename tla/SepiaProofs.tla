----------------------------- MODULE SepiaProofs -----------------------------
(***************************************************************************)
(* What holds in every run of the sepia filter, for pictures of any size,  *)
(* any numbers of measurements and any contents of uninitialised memory:   *)
(* both filters compute the sepia value of every channel, they agree, the  *)
(* file written is the filtered picture, and images are freed.             *)
(***************************************************************************)
EXTENDS Sepia, SequenceTheorems, WellFoundedInduction, TLAPS

-----------------------------------------------------------------------------
(* Induction.                                                              *)

\* Every set of numbers has a least one,
LEMMA Least ==
  ASSUME NEW T, T \subseteq Nat, T # {}
  PROVE  \E x \in T : \A y \in T : x <= y
<1> DEFINE R == OpToRel(<, Nat)
<1>1. IsWellFoundedOn(R, Nat)
  BY NatLessThanWellFounded, Zenon
<1>2. \A x, y \in Nat : y < x => <<y, x>> \in R
  BY DEF OpToRel
<1> HIDE DEF R
<1>3. \E x \in T : \A y \in T : ~ (<<y, x>> \in R)
  BY <1>1, WFMin, Zenon
<1>4. PICK x \in T : \A y \in T : ~ (<<y, x>> \in R)
  BY <1>3
<1>5. \A y \in T : ~ (y < x)
  BY <1>2, <1>4, Zenon
<1>6. \A y \in T : x <= y
  BY <1>5
<1> QED BY <1>6

\* so a set with zero and the successor of each of its numbers has them all.
LEMMA Induction ==
  ASSUME NEW T, 0 \in T, \A n \in Nat : n \in T => n + 1 \in T
  PROVE  Nat \subseteq T
<1> DEFINE U == Nat \ T
<1> SUFFICES ASSUME U # {} PROVE FALSE
  OBVIOUS
<1>1. PICK x \in U : \A y \in U : x <= y
  BY Least
<1>2. x # 0 /\ x \in Nat /\ x - 1 \in Nat /\ x - 1 \in T
  BY <1>1
<1> QED BY <1>2, <1>1

-----------------------------------------------------------------------------
(* Arithmetic of rows, and sequences.                                      *)

\* bmp.c:99: the padding is between one byte and four, and fills up a row to a
\* multiple of four.
LEMMA PaddingBounds ==
  ASSUME NEW w \in Nat
  PROVE  /\ GetPadding(w) \in 1 .. PADDING
         /\ Stride(w) % PADDING = 0
<1>1. w * PixelSize \in Nat
  BY DEF PixelSize
<1> QED BY <1>1 DEF GetPadding, Stride, PADDING

\* Division with remainder has one result.
LEMMA QuotientUnique ==
  ASSUME NEW w \in Nat \ {0}, NEW i \in Int, NEW k \in Int,
         NEW j \in 0 .. w - 1, NEW l \in 0 .. w - 1, i * w + j = k * w + l
  PROVE  i = k /\ j = l
<1>1. ASSUME NEW a \in Int, NEW b \in Int, a < b
      PROVE  a * w + w <= b * w
  <2>1. (b - a - 1) * w >= 0
    BY <1>1
  <2>2. (b - a - 1) * w = b * w - a * w - w
    OBVIOUS
  <2>3. a * w \in Int /\ b * w \in Int
    OBVIOUS
  <2> QED BY <2>1, <2>2, <2>3
<1>2. i * w \in Int /\ k * w \in Int
  OBVIOUS
<1>3. ~(i < k)
  BY <1>1, <1>2
<1>4. ~(k < i)
  BY <1>1, <1>2
<1>5. i = k
  BY <1>3, <1>4
<1> QED BY <1>2, <1>5

\* Quotient and remainder, as the provers need them.
LEMMA Division ==
  ASSUME NEW w \in Nat \ {0}, NEW k \in Nat
  PROVE  /\ k \div w \in Int /\ k % w \in 0 .. w - 1
         /\ k = (k \div w) * w + (k % w)
<1>1. k \div w \in Int /\ k % w \in 0 .. w - 1 /\ k = w * (k \div w) + (k % w)
  OBVIOUS
<1>2. w * (k \div w) = (k \div w) * w
  BY <1>1
<1> QED BY <1>1, <1>2

\* An index of an array with rows of w elements is a row and a column.
LEMMA IndexSplits ==
  ASSUME NEW w \in Nat \ {0}, NEW i \in Nat, NEW j \in 0 .. w - 1
  PROVE  (i * w + j) \div w = i /\ (i * w + j) % w = j
<1> DEFINE k == i * w + j
           q == k \div w
           r == k % w
<1>1. k \in Nat
  <2>1. i * w \in Nat
    OBVIOUS
  <2> QED BY <2>1
<1>2. q \in Int /\ r \in 0 .. w - 1 /\ k = q * w + r
  <2> HIDE DEF k
  <2> QED BY <1>1, Division
<1>3. i * w + j = q * w + r
  BY <1>2
<1> HIDE DEF k, q, r
<1>4. i = q /\ j = r
  BY <1>2, <1>3, QuotientUnique
<1> QED BY <1>4 DEF k, q, r

\* The last element of a row lies before the next row.
LEMMA RowEnds ==
  ASSUME NEW s \in Nat, NEW n \in Nat, NEW i \in 0 .. n - 1
  PROVE  i * s \in Nat /\ i * s + s <= n * s
<1>1. (n - i - 1) * s >= 0
  OBVIOUS
<1>2. (n - i - 1) * s = n * s - i * s - s
  OBVIOUS
<1>3. i * s \in Nat /\ n * s \in Nat
  OBVIOUS
<1> QED BY <1>1, <1>2, <1>3

\* More rows take more room.
LEMMA ProductGrows ==
  ASSUME NEW s \in Nat, NEW a \in Nat, NEW b \in Nat, a <= b
  PROVE  a * s \in Nat /\ b * s \in Nat /\ a * s <= b * s
<1>1. (b - a) * s >= 0
  OBVIOUS
<1>2. (b - a) * s = b * s - a * s
  OBVIOUS
<1>3. a * s \in Nat /\ b * s \in Nat
  OBVIOUS
<1> QED BY <1>1, <1>2, <1>3

\* A remainder does not change when a summand is replaced by its remainder.
LEMMA RemainderOfSum ==
  ASSUME NEW m \in Nat \ {0}, NEW x \in Nat, NEW y \in Nat
  PROVE  (x + (y % m)) % m = (x + y) % m
<1>1. PICK q \in Int, r \in 0 .. m - 1 : r = y % m /\ y = q * m + r
  BY Division
<1>2. x + r \in Nat /\ x + y \in Nat
  BY <1>1
<1>3. PICK k \in Int, l \in 0 .. m - 1 : l = (x + r) % m /\ x + r = k * m + l
  BY <1>2, Division
<1>4. PICK p \in Int, n \in 0 .. m - 1 : n = (x + y) % m /\ x + y = p * m + n
  BY <1>2, Division
<1>5. (q + k) * m + l = p * m + n
  <2>1. (q + k) * m = q * m + k * m /\ q * m \in Int /\ k * m \in Int /\ p * m \in Int
    OBVIOUS
  <2>2. q * m + k * m + l = p * m + n
    <3>1. r \in Int /\ l \in Int /\ n \in Int
      OBVIOUS
    <3>2. y = q * m + r /\ x + r = k * m + l /\ x + y = p * m + n
      BY <1>1, <1>3, <1>4
    <3> QED BY <2>1, <3>1, <3>2
  <2> QED BY <2>1, <2>2
<1>6. q + k \in Int
  OBVIOUS
<1>7. l = n
  BY <1>5, <1>6, QuotientUnique
<1> QED BY <1>1, <1>3, <1>4, <1>7

\* What two sequences make, one after the other.
LEMMA Concatenation ==
  ASSUME NEW S, NEW p \in Seq(S), NEW q \in Seq(S)
  PROVE  /\ p \o q \in Seq(S)
         /\ Len(p \o q) = Len(p) + Len(q)
         /\ \A k \in 1 .. Len(p) : (p \o q)[k] = p[k]
         /\ \A k \in 1 .. Len(q) : (p \o q)[Len(p) + k] = q[k]
<1>1. /\ p \o q \in Seq(S)
      /\ Len(p \o q) = Len(p) + Len(q)
      /\ \A i \in 1 .. Len(p) + Len(q) :
           (p \o q)[i] = IF i <= Len(p) THEN p[i] ELSE q[i - Len(p)]
  BY ConcatProperties
<1>2. Len(p) \in Nat /\ Len(q) \in Nat
  OBVIOUS
<1>3. ASSUME NEW k \in 1 .. Len(p) PROVE (p \o q)[k] = p[k]
  BY <1>1, <1>2
<1>4. ASSUME NEW k \in 1 .. Len(q) PROVE (p \o q)[Len(p) + k] = q[k]
  <2>1. Len(p) + k \in 1 .. Len(p) + Len(q) /\ ~(Len(p) + k <= Len(p))
    BY <1>2
  <2>2. (Len(p) + k) - Len(p) = k
    BY <1>2
  <2> QED BY <1>1, <2>1, <2>2
<1> QED BY <1>1, <1>3, <1>4

\* A row as it is stored is at least as long as its pixels.
LEMMA StrideNat ==
  ASSUME NEW w \in Nat
  PROVE  /\ w * PixelSize \in Nat /\ GetPadding(w) \in Nat
         /\ Stride(w) \in Nat /\ Stride(w) >= w * PixelSize
         /\ \A i \in Nat : i * Stride(w) \in Nat
<1>1. GetPadding(w) \in Nat
  <2>1. GetPadding(w) \in 1 .. PADDING
    BY PaddingBounds
  <2> QED BY <2>1 DEF PADDING
<1>2. w * PixelSize \in Nat
  BY DEF PixelSize
<1>3. Stride(w) \in Nat /\ Stride(w) >= w * PixelSize
  BY <1>1, <1>2 DEF Stride
<1> QED BY <1>1, <1>2, <1>3

-----------------------------------------------------------------------------
(* One channel of one pixel.                                               *)

Byte == 0 .. 255

\* The coefficients of channel n of <<b, g, r>>.
Row(n) == <<Coefficients.b, Coefficients.g, Coefficients.r>>[n]

\* The sum of floats both filters start from.
LaneSum(p, n, e) == FloatSum(p[3], p[2], p[1], Row(n), e)

\* What the C filter makes of it, and what the SSE filter does.
CutValue(p, n, e) == Sat(LaneSum(p, n, e) \div One)
RoundValue(p, n, e) ==
  Nearest(IF LaneSum(p, n, e) < 255 * One THEN LaneSum(p, n, e) ELSE 255 * One)

\* The exact sum, of which LaneSum is at most one away, and not below zero.
LEMMA SumClose ==
  ASSUME NEW p, p[1] \in Byte, p[2] \in Byte, p[3] \in Byte,
         NEW n \in 1 .. 3, NEW e \in Errors
  PROVE  \E w \in Nat :
           /\ Exact(p, n) = IF w < 255 * One THEN w ELSE 255 * One
           /\ LaneSum(p, n, e) \in Nat
           /\ LaneSum(p, n, e) \in w - 1 .. w + 1
<1> DEFINE x == p[3]
           y == p[2]
           z == p[1]
<1>1. x \in Byte /\ y \in Byte /\ z \in Byte
  OBVIOUS
<1>2. ASSUME NEW c, c[1] \in 100 .. 800, c[2] \in 100 .. 800, c[3] \in 100 .. 800,
             c[1] \in Nat, c[2] \in Nat, c[3] \in Nat,
             NEW w, w = 10 * (x * c[1] + y * c[2] + z * c[3])
      PROVE  w \in Nat /\ FloatSum(x, y, z, c, e) \in Nat
             /\ FloatSum(x, y, z, c, e) \in w - 1 .. w + 1
  <2> DEFINE u == x * c[1]
             v == y * c[2]
             t == z * c[3]
  <2>1. u \in Nat /\ v \in Nat /\ t \in Nat
    <3>1. x \in Nat /\ y \in Nat /\ z \in Nat
      <4> HIDE DEF x, y, z
      <4> QED BY <1>1 DEF Byte
    <3>2. \A a, b \in Nat : a * b \in Nat
      OBVIOUS
    <3> HIDE DEF x, y, z
    <3> QED BY <1>2, <3>1, <3>2
  <2> HIDE DEF x, y, z, u, v, t
  <2>2. w = 10 * (u + v + t)
    BY <1>2 DEF u, v, t
  <2>3. FloatSum(x, y, z, c, e) = IF w = 0 THEN 0 ELSE w + e
    BY <1>2 DEF FloatSum
  <2>4. w \in Nat /\ (w = 0 \/ w >= 10)
    BY <2>1, <2>2
  <2>5. e \in {-1, 0, 1}
    BY DEF Errors
  <2> QED BY <2>3, <2>4, <2>5
<1>3. /\ Row(1) = <<272, 543, 131>> /\ Row(2) = <<349, 686, 168>>
      /\ Row(3) = <<393, 769, 189>>
  BY DEF Row, Coefficients
<1>4. PICK c : c = Row(n)
  OBVIOUS
<1>5. /\ c[1] \in 100 .. 800 /\ c[2] \in 100 .. 800 /\ c[3] \in 100 .. 800
      /\ c[1] \in Nat /\ c[2] \in Nat /\ c[3] \in Nat
  <2>1. n = 1 \/ n = 2 \/ n = 3
    OBVIOUS
  <2> QED BY <1>3, <1>4, <2>1
<1> DEFINE w == 10 * (x * c[1] + y * c[2] + z * c[3])
<1>6. /\ w \in Nat /\ FloatSum(x, y, z, c, e) \in Nat
      /\ FloatSum(x, y, z, c, e) \in w - 1 .. w + 1
  <2> HIDE DEF x, y, z
  <2> QED BY <1>2, <1>5
<1>7. LaneSum(p, n, e) = FloatSum(x, y, z, c, e)
  BY <1>4 DEF LaneSum
<1>8. Exact(p, n) = IF w < 255 * One THEN w ELSE 255 * One
  BY <1>4 DEF Exact, Row
<1> HIDE DEF w
<1> QED BY <1>6, <1>7, <1>8

\* A sum cut to an integer and saturated, as an integer and as a value.
LEMMA CutClose ==
  ASSUME NEW s \in Nat, NEW w \in Nat, s \in w - 1 .. w + 1,
         NEW x, x = IF w < 255 * One THEN w ELSE 255 * One
  PROVE  Sat(s \div One) \in Byte /\ Distance(One * Sat(s \div One), x) <= One
<1> DEFINE q == s \div One
<1>1. q \in Nat /\ One * q <= s /\ s < One * q + One
  BY DEF One
<1> HIDE DEF q
<1>2. CASE q < 256
  BY <1>1, <1>2 DEF One, Sat, Distance, Byte
<1>3. CASE ~(q < 256)
  BY <1>1, <1>3 DEF One, Sat, Distance, Byte
<1> QED BY <1>2, <1>3 DEF q

\* A sum bounded and rounded, and how far the filters can be from each other.
LEMMA RoundClose ==
  ASSUME NEW s \in Nat, NEW w \in Nat, s \in w - 1 .. w + 1,
         NEW x, x = IF w < 255 * One THEN w ELSE 255 * One,
         NEW m, m = IF s < 255 * One THEN s ELSE 255 * One
  PROVE  /\ Nearest(m) \in Byte /\ Distance(One * Nearest(m), x) <= One
         /\ Distance(Sat(s \div One), Nearest(m)) <= 1
         /\ Distance(Nearest(m), Sat(s \div One)) <= 1
<1> DEFINE q == s \div One
           k == m \div One
           over == m % One
<1>1. q \in Nat /\ One * q <= s /\ s < One * q + One
  BY DEF One
<1>2. m \in Nat /\ m <= 255 * One
  BY DEF One
<1>3. k \in Nat /\ over \in 0 .. One - 1 /\ m = One * k + over
  BY <1>2 DEF One
<1>4. \/ Nearest(m) = k /\ over <= 5000
      \/ Nearest(m) = k + 1 /\ over >= 5000
  <2>1. Nearest(m) = IF over < One \div 2 \/ (over = One \div 2 /\ k % 2 = 0)
                     THEN k ELSE k + 1
    BY DEF Nearest
  <2>2. One \div 2 = 5000
    BY DEF One
  <2> HIDE DEF over, k
  <2> QED BY <1>3, <2>1, <2>2
<1> HIDE DEF q, k, over
<1> DEFINE r == Nearest(m)
<1>5. r \in Nat /\ One * r - m <= 5000 /\ m - One * r <= 5000 /\ r <= 255
  <2> HIDE DEF r
  <2>1. \/ r = k /\ over <= 5000
        \/ r = k + 1 /\ over >= 5000
    BY <1>4 DEF r
  <2> QED BY <1>2, <1>3, <2>1 DEF One
<1> HIDE DEF r
<1>6. x \in Nat /\ m - x <= 1 /\ x - m <= 1
  BY DEF One
<1>7. r \in Byte /\ Distance(One * r, x) <= One
  <2>1. One * r - x <= One /\ x - One * r <= One /\ One * r \in Nat
    BY <1>2, <1>5, <1>6 DEF One
  <2> QED BY <1>5, <1>6, <2>1 DEF Distance, One, Byte
<1>8. /\ Distance(Sat(q), r) <= 1 /\ Distance(r, Sat(q)) <= 1
  <2>1. Sat(q) = IF q < 256 THEN q ELSE 255
    BY DEF Sat
  <2>2. Sat(q) \in Nat /\ Sat(q) - r <= 1 /\ r - Sat(q) <= 1
    <3>1. CASE q < 255
      BY <1>1, <1>5, <2>1, <3>1 DEF One
    <3>2. CASE ~(q < 255)
      BY <1>1, <1>5, <2>1, <3>2 DEF One
    <3> QED BY <3>1, <3>2
  <2> QED BY <1>5, <2>2 DEF Distance
<1> QED BY <1>7, <1>8 DEF q, r

-----------------------------------------------------------------------------
(* The lanes of the SSE filter.                                            *)

Bounded(sum) == Nearest(IF sum < 255 * One THEN sum ELSE 255 * One)

Column(C, k) == <<C[1][k], C[2][k], C[3][k]>>

\* The coefficients of the twelve bytes: b, g, r again and again.
LEMMA Columns ==
  LET C1 == NextCoefficients(C0)
      C2 == NextCoefficients(C1)
  IN /\ Column(C0, 1) = Row(1) /\ Column(C0, 2) = Row(2)
     /\ Column(C0, 3) = Row(3) /\ Column(C0, 4) = Row(1)
     /\ Column(C1, 1) = Row(2) /\ Column(C1, 2) = Row(3)
     /\ Column(C1, 3) = Row(1) /\ Column(C1, 4) = Row(2)
     /\ Column(C2, 1) = Row(3) /\ Column(C2, 2) = Row(1)
     /\ Column(C2, 3) = Row(2) /\ Column(C2, 4) = Row(3)
<1> DEFINE C1 == NextCoefficients(C0)
           C2 == NextCoefficients(C1)
<1>1. /\ Row(1) = <<272, 543, 131>> /\ Row(2) = <<349, 686, 168>>
      /\ Row(3) = <<393, 769, 189>>
  BY DEF Row, Coefficients
<1>2. /\ Column(C0, 1) = Row(1) /\ Column(C0, 2) = Row(2)
      /\ Column(C0, 3) = Row(3) /\ Column(C0, 4) = Row(1)
  BY <1>1 DEF Column, C0
<1>3. ASSUME NEW C
      PROVE  /\ Column(NextCoefficients(C), 1) = Column(C, 2)
             /\ Column(NextCoefficients(C), 2) = Column(C, 3)
             /\ Column(NextCoefficients(C), 3) = Column(C, 1)
             /\ Column(NextCoefficients(C), 4) = Column(C, 2)
  BY DEF Column, NextCoefficients, Shufps
<1>4. /\ Column(C1, 1) = Row(2) /\ Column(C1, 2) = Row(3)
      /\ Column(C1, 3) = Row(1) /\ Column(C1, 4) = Row(2)
  BY <1>2, <1>3
<1>5. /\ Column(C2, 1) = Row(3) /\ Column(C2, 2) = Row(1)
      /\ Column(C2, 3) = Row(2) /\ Column(C2, 4) = Row(3)
  <2> HIDE DEF C1
  <2> QED BY <1>3, <1>4
<1> QED BY <1>2, <1>4, <1>5

\* One lane of one pass.
LEMMA Lane ==
  ASSUME NEW r, NEW g, NEW b, NEW e, NEW at \in Int, NEW mask, NEW C, NEW k \in 1 .. 4,
         NEW j \in 0 .. 1, mask[k] = j
  PROVE  CalcFourValues(r, g, b, at, mask, C, e)[k]
           = Bounded(FloatSum(r[at + j + 1], g[at + j + 1], b[at + j + 1],
                              Column(C, k), e))
<1>1. ASSUME NEW a PROVE Shufps(Movq(a, at), mask)[k] = a[at + j + 1]
  <2>1. Shufps(Movq(a, at), mask)[k] = Movq(a, at)[j + 1]
    BY DEF Shufps
  <2>2. j = 0 \/ j = 1
    OBVIOUS
  <2>3. Movq(a, at)[1] = a[at + 1] /\ Movq(a, at)[2] = a[at + 2]
    BY DEF Movq
  <2>4. CASE j = 0
    BY <2>1, <2>3, <2>4
  <2>5. CASE j = 1
    BY <2>1, <2>3, <2>5
  <2> QED BY <2>2, <2>4, <2>5
<1> DEFINE lane == FloatSum(Shufps(Movq(r, at), mask)[k], Shufps(Movq(g, at), mask)[k],
                            Shufps(Movq(b, at), mask)[k], Column(C, k), e)
<1>2. CalcFourValues(r, g, b, at, mask, C, e)[k] = Bounded(lane)
  BY DEF CalcFourValues, Bounded, Column
<1> QED BY <1>1, <1>2

\* An element of a sequence.
LEMMA Element ==
  ASSUME NEW S, NEW q \in Seq(S), NEW i \in 1 .. Len(q)
  PROVE  q[i] \in S
OBVIOUS

\* A function on the first n numbers is a sequence.
LEMMA AsSequence ==
  ASSUME NEW S, NEW n \in Nat, NEW q \in [1 .. n -> S]
  PROVE  q \in Seq(S) /\ Len(q) = n
OBVIOUS

\* Four bytes.
LEMMA FourBytes ==
  ASSUME NEW f \in [1 .. 4 -> Byte]
  PROVE  f \in Seq(Byte) /\ Len(f) = 4
<1>1. 4 \in Nat
  OBVIOUS
<1> QED BY ONLY <1>1, f \in [1 .. 4 -> Byte], AsSequence, ZenonT(60)

\* Channel n of pixel k is at place 3 (k - 1) + n of the twelve bytes, made of
\* the channels of pixel k and of the coefficients of n.
LEMMA TwelveBytes ==
  ASSUME NEW r, NEW g, NEW b, NEW e,
         \A k \in 1 .. 4, n \in 1 .. 3 :
           Bounded(FloatSum(r[k], g[k], b[k], Row(n), e)) \in Byte
  PROVE  /\ SepiaFilterSse(r, g, b, e) \in Seq(Byte)
         /\ Len(SepiaFilterSse(r, g, b, e)) = 12
         /\ \A k \in 1 .. 4, n \in 1 .. 3 :
              SepiaFilterSse(r, g, b, e)[3 * (k - 1) + n]
                = Bounded(FloatSum(r[k], g[k], b[k], Row(n), e))
<1> DEFINE V(k, n) == Bounded(FloatSum(r[k], g[k], b[k], Row(n), e))
           C1 == NextCoefficients(C0)
           C2 == NextCoefficients(C1)
           p0 == CalcFourValues(r, g, b, 0, <<0, 0, 0, 1>>, C0, e)
           p1 == CalcFourValues(r, g, b, 1, <<0, 0, 1, 1>>, C1, e)
           p2 == CalcFourValues(r, g, b, 2, <<0, 1, 1, 1>>, C2, e)
<1>1. p0[1] = V(1, 1) /\ p0[2] = V(1, 2) /\ p0[3] = V(1, 3) /\ p0[4] = V(2, 1)
  BY Columns, Lane
<1>2. p1[1] = V(2, 2) /\ p1[2] = V(2, 3) /\ p1[3] = V(3, 1) /\ p1[4] = V(3, 2)
  BY Columns, Lane
<1>3. p2[1] = V(3, 3) /\ p2[2] = V(4, 1) /\ p2[3] = V(4, 2) /\ p2[4] = V(4, 3)
  BY Columns, Lane
<1>4. \A k \in 1 .. 4, n \in 1 .. 3 : V(k, n) \in Byte
  OBVIOUS
<1> HIDE DEF V
<1>5. ASSUME NEW f, DOMAIN f = 1 .. 4, f = [k \in 1 .. 4 |-> f[k]],
             f[1] \in Byte, f[2] \in Byte, f[3] \in Byte, f[4] \in Byte
      PROVE  f \in Seq(Byte) /\ Len(f) = 4
  <2>1. f \in [1 .. 4 -> Byte]
    <3>1. ASSUME NEW k \in 1 .. 4 PROVE f[k] \in Byte
      <4>1. k = 1 \/ k = 2 \/ k = 3 \/ k = 4
        OBVIOUS
      <4> QED BY <1>5, <4>1
    <3>2. f = [k \in 1 .. 4 |-> f[k]]
      BY <1>5
    <3> QED BY <3>1, <3>2
  <2> QED BY <2>1, FourBytes
<1>6. /\ DOMAIN p0 = 1 .. 4 /\ p0 = [k \in 1 .. 4 |-> p0[k]]
      /\ DOMAIN p1 = 1 .. 4 /\ p1 = [k \in 1 .. 4 |-> p1[k]]
      /\ DOMAIN p2 = 1 .. 4 /\ p2 = [k \in 1 .. 4 |-> p2[k]]
  BY DEF CalcFourValues
<1> HIDE DEF p0, p1, p2
<1>8. /\ p0 \in Seq(Byte) /\ Len(p0) = 4
      /\ p1 \in Seq(Byte) /\ Len(p1) = 4
      /\ p2 \in Seq(Byte) /\ Len(p2) = 4
  BY <1>1, <1>2, <1>3, <1>4, <1>5, <1>6
<1>7. SepiaFilterSse(r, g, b, e) = (p0 \o p1) \o p2
  BY DEF SepiaFilterSse, p0, p1, p2
<1> DEFINE p01 == p0 \o p1
           all == p01 \o p2
<1>9. /\ p01 \in Seq(Byte) /\ Len(p01) = 8
      /\ \A k \in 1 .. 4 : p01[k] = p0[k] /\ p01[4 + k] = p1[k]
  <2>1. p0 \in Seq(Byte) /\ p1 \in Seq(Byte)
    BY <1>8
  <2>2. /\ p01 \in Seq(Byte) /\ Len(p01) = Len(p0) + Len(p1)
        /\ \A k \in 1 .. Len(p0) : p01[k] = p0[k]
        /\ \A k \in 1 .. Len(p1) : p01[Len(p0) + k] = p1[k]
    BY ONLY <2>1, Concatenation DEF p01
  <2> HIDE DEF p01
  <2> QED BY <1>8, <2>2
<1> HIDE DEF p01
<1>10. /\ all \in Seq(Byte) /\ Len(all) = 12
       /\ \A k \in 1 .. 8 : all[k] = p01[k]
       /\ \A k \in 1 .. 4 : all[8 + k] = p2[k]
  <2>1. p01 \in Seq(Byte) /\ p2 \in Seq(Byte)
    BY <1>8, <1>9
  <2>2. /\ all \in Seq(Byte) /\ Len(all) = Len(p01) + Len(p2)
        /\ \A k \in 1 .. Len(p01) : all[k] = p01[k]
        /\ \A k \in 1 .. Len(p2) : all[Len(p01) + k] = p2[k]
    BY ONLY <2>1, Concatenation DEF all
  <2> HIDE DEF all
  <2> QED BY <1>8, <1>9, <2>2
<1> HIDE DEF all
<1>11. /\ all[1] = V(1, 1) /\ all[2] = V(1, 2) /\ all[3] = V(1, 3)
       /\ all[4] = V(2, 1) /\ all[5] = V(2, 2) /\ all[6] = V(2, 3)
       /\ all[7] = V(3, 1) /\ all[8] = V(3, 2) /\ all[9] = V(3, 3)
       /\ all[10] = V(4, 1) /\ all[11] = V(4, 2) /\ all[12] = V(4, 3)
  <2>1. all[1] = p0[1] /\ all[2] = p0[2] /\ all[3] = p0[3] /\ all[4] = p0[4]
    BY <1>9, <1>10
  <2>2. all[5] = p1[1] /\ all[6] = p1[2] /\ all[7] = p1[3] /\ all[8] = p1[4]
    BY <1>9, <1>10
  <2>3. all[9] = p2[1] /\ all[10] = p2[2] /\ all[11] = p2[3] /\ all[12] = p2[4]
    BY <1>10
  <2> QED BY <1>1, <1>2, <1>3, <2>1, <2>2, <2>3
<1>12. ASSUME NEW k \in 1 .. 4, NEW n \in 1 .. 3
       PROVE  all[3 * (k - 1) + n] = V(k, n)
  <2>1. (k = 1 \/ k = 2 \/ k = 3 \/ k = 4) /\ (n = 1 \/ n = 2 \/ n = 3)
    OBVIOUS
  <2> QED BY <1>11, <2>1
<1>13. SepiaFilterSse(r, g, b, e) = all
  BY <1>7 DEF all, p01
<1> QED BY <1>10, <1>12, <1>13, Zenon DEF V

-----------------------------------------------------------------------------
(* Filtered pixels in an array.                                            *)

\* What a filter may make of channel n of a pixel: the SSE filter leaves the
\* last pixels to sepia_one.
ChannelValues(k, p, n, e) ==
  IF k = "c" THEN {CutValue(p, n, e)} ELSE {CutValue(p, n, e), RoundValue(p, n, e)}

\* The first m of all the pixels of px have been filtered by filter k.  What
\* lies behind the last 32 bit index is never written.
Slots(k, array, px, e, all, m) ==
  /\ array \in Seq(Unset .. 255)
  /\ Len(array) = all * PixelSize
  /\ \A t \in 0 .. all - 1, n \in 1 .. 3 :
       IF t < FieldMod
       THEN t < m => array[t * PixelSize + n] \in ChannelValues(k, PixelOf(px, t), n, e)
       ELSE array[t * PixelSize + n] = Unset

\* A remainder is not above what is divided.
LEMMA RemainderBelow ==
  ASSUME NEW w \in Nat \ {0}, NEW k \in Nat
  PROVE  /\ k \div w \in Nat /\ k % w \in 0 .. w - 1 /\ k % w <= k
         /\ k = (k \div w) * w + (k % w)
<1>1. PICK q \in Int, s \in 0 .. w - 1 : q = k \div w /\ s = k % w /\ k = q * w + s
  BY Division
<1>2. q \in Nat
  <2>1. ASSUME q < 0 PROVE FALSE
    <3>1. (0 - q - 1) * w >= 0
      BY <2>1
    <3>2. (0 - q - 1) * w = 0 - q * w - w
      OBVIOUS
    <3>3. q * w \in Int
      OBVIOUS
    <3> QED BY <1>1, <3>1, <3>2, <3>3
  <2> QED BY <2>1
<1>3. q * w \in Nat
  BY <1>2
<1>4. s <= k
  BY <1>1, <1>3
<1> QED BY <1>1, <1>2, <1>4

\* An index of 32 bits, and the indices that follow it in its group.
LEMMA IndexCut ==
  ASSUME NEW m \in Nat, NEW d \in Nat, (m % FieldMod) + d < FieldMod
  PROVE  (m + d) % FieldMod = (m % FieldMod) + d
<1>1. FieldMod \in Nat \ {0}
  BY WordsAssumption
<1>2. PICK q \in Nat, s \in 0 .. FieldMod - 1 : s = m % FieldMod /\ m = q * FieldMod + s
  BY <1>1, RemainderBelow
<1>4. s + d \in 0 .. FieldMod - 1
  BY <1>1, <1>2
<1>5. (q * FieldMod + (s + d)) % FieldMod = s + d
  BY <1>1, <1>4, IndexSplits
<1>6. m + d = q * FieldMod + (s + d)
  <2>1. q * FieldMod \in Nat
    BY <1>1
  <2> QED BY <1>2, <2>1
<1> QED BY <1>2, <1>5, <1>6

\* Small indices are themselves.
LEMMA IndexSmall ==
  ASSUME NEW t \in Nat, t < FieldMod
  PROVE  t % FieldMod = t
BY WordsAssumption

\* A pixel and its index of 32 bits are one pixel.
LEMMA SamePixel ==
  ASSUME NEW px, NEW m \in Nat, NEW d \in Nat, (m % FieldMod) + d < FieldMod
  PROVE  PixelOf(px, m + d) = PixelOf(px, (m % FieldMod) + d)
<1>1. m % FieldMod \in Nat
  BY WordsAssumption
<1>2. (m + d) % FieldMod = (m % FieldMod) + d
  BY IndexCut
<1>3. ((m % FieldMod) + d) % FieldMod = (m % FieldMod) + d
  BY <1>1, IndexSmall
<1> QED BY <1>2, <1>3 DEF PixelOf

\* A group of four indices stays in 32 bits.
LEMMA GroupFits ==
  ASSUME NEW m \in Nat, m % 4 = 0
  PROVE  (m % FieldMod) + 4 <= FieldMod
<1>1. FieldMod \in Nat \ {0} /\ FieldMod % 4 = 0
  BY WordsAssumption, PowersOfTwo
<1>2. PICK f \in Nat : FieldMod = 4 * f
  BY <1>1
<1>3. PICK a \in Nat : m = 4 * a
  OBVIOUS
<1>4. PICK q \in Int, s \in 0 .. FieldMod - 1 : s = m % FieldMod /\ m = q * FieldMod + s
  BY <1>1, Division
<1>5. s = 4 * (a - q * f)
  <2>1. q * FieldMod = 4 * (q * f) /\ q * f \in Int
    BY <1>2
  <2> QED BY <1>3, <1>4, <2>1
<1>6. a - q * f \in Int
  BY <1>2
<1> DEFINE b == a - q * f
<1>7. s = 4 * b /\ b \in Int
  BY <1>5, <1>6
<1> HIDE DEF b
<1> QED BY <1>2, <1>4, <1>7

\* A pixel of an array of bytes has bytes for channels.
LEMMA PixelBytes ==
  ASSUME NEW px \in Seq(Byte), NEW all \in Nat, Len(px) = all * PixelSize, NEW t \in 0 .. all - 1
  PROVE  /\ PixelOf(px, t)[1] \in Byte /\ PixelOf(px, t)[2] \in Byte
         /\ PixelOf(px, t)[3] \in Byte
<1> DEFINE s == t % FieldMod
<1>1. s \in Nat /\ s <= t
  BY WordsAssumption
<1> HIDE DEF s
<1>2. ASSUME NEW n \in 1 .. 3 PROVE px[s * PixelSize + n] \in Byte
  <2> DEFINE k == s * PixelSize + n
  <2>1. k \in 1 .. Len(px)
    BY <1>1 DEF PixelSize
  <2> HIDE DEF k
  <2>2. px[k] \in Byte
    BY <2>1
  <2> QED BY <2>2 DEF k
<1> QED BY <1>2 DEF PixelOf, s

\* The bytes of g pixels have been stored from pixel s on.
Stores(new, array, s, g, bytes, all) ==
  /\ new \in Seq(Unset .. 255) /\ Len(new) = all * PixelSize
  /\ \A t \in 0 .. all - 1, n \in 1 .. 3 :
       new[t * PixelSize + n] = IF t \in s .. s + g - 1
                                THEN bytes[(t - s) * PixelSize + n]
                                ELSE array[t * PixelSize + n]

\* What Stored does when the bytes are inside the array.
LEMMA StoredBytes ==
  ASSUME NEW array \in Seq(Unset .. 255), NEW all \in Nat, Len(array) = all * PixelSize,
         NEW m \in Nat, NEW g \in Nat, (m % FieldMod) + g <= all,
         NEW bytes \in Seq(Byte), Len(bytes) = g * PixelSize
  PROVE  Stores(Stored(array, m, bytes), array, m % FieldMod, g, bytes, all)
<1> DEFINE s == m % FieldMod
           new == Stored(array, m, bytes)
<1>1. s \in Nat /\ s + g <= all
  BY WordsAssumption
<1>2. new = [k \in DOMAIN array |->
               IF k \in s * PixelSize + 1 .. s * PixelSize + Len(bytes)
               THEN bytes[k - s * PixelSize] ELSE array[k]]
  BY DEF Stored
<1>3. DOMAIN array = 1 .. all * PixelSize /\ all * PixelSize \in Nat
  BY DEF PixelSize
<1> HIDE DEF s, new
<1>4. ASSUME NEW k \in 1 .. all * PixelSize PROVE new[k] \in Unset .. 255
  <2>1. array[k] \in Unset .. 255
    <3>1. k \in 1 .. Len(array)
      OBVIOUS
    <3> QED BY ONLY <3>1, array \in Seq(Unset .. 255), Element
  <2>2. ASSUME NEW i \in 1 .. Len(bytes) PROVE bytes[i] \in Unset .. 255
    <3>1. bytes[i] \in Byte
      BY ONLY bytes \in Seq(Byte), i \in 1 .. Len(bytes), Element
    <3> QED BY <3>1 DEF Byte, Unset
  <2>3. CASE k \in s * PixelSize + 1 .. s * PixelSize + Len(bytes)
    <3>1. k - s * PixelSize \in 1 .. Len(bytes)
      BY <1>1, <2>3 DEF PixelSize
    <3> QED BY <1>2, <1>3, <2>2, <2>3, <3>1
  <2>4. CASE k \notin s * PixelSize + 1 .. s * PixelSize + Len(bytes)
    BY <1>2, <1>3, <2>1, <2>4
  <2> QED BY <2>3, <2>4
<1>5. new \in Seq(Unset .. 255) /\ Len(new) = all * PixelSize
  <2> DEFINE length == all * PixelSize
  <2>1. new \in [1 .. length -> Unset .. 255] /\ length \in Nat
    BY <1>2, <1>3, <1>4
  <2> HIDE DEF length
  <2>2. new \in Seq(Unset .. 255) /\ Len(new) = length
    BY ONLY <2>1, AsSequence, ZenonT(60)
  <2> QED BY <2>2 DEF length
<1>6. ASSUME NEW t \in 0 .. all - 1, NEW n \in 1 .. 3
      PROVE  new[t * PixelSize + n] =
               IF t \in s .. s + g - 1 THEN bytes[(t - s) * PixelSize + n]
               ELSE array[t * PixelSize + n]
  <2>1. t * PixelSize + n \in DOMAIN array
    BY <1>3 DEF PixelSize
  <2>2. CASE t \in s .. s + g - 1
    <3> DEFINE at == t * PixelSize + n
               from == s * PixelSize
    <3>2. /\ at \in DOMAIN array /\ at \in from + 1 .. from + Len(bytes)
          /\ at - from = (t - s) * PixelSize + n
      BY <1>1, <2>1, <2>2 DEF PixelSize
    <3>3. new[at] = bytes[at - from]
      <4>1. new = [k \in DOMAIN array |->
               IF k \in from + 1 .. from + Len(bytes) THEN bytes[k - from] ELSE array[k]]
        BY <1>2
      <4> HIDE DEF at, from
      <4> QED BY <3>2, <4>1
    <3> QED BY <2>2, <3>2, <3>3
  <2>3. CASE t \notin s .. s + g - 1
    <3>1. t * PixelSize + n \notin s * PixelSize + 1 .. s * PixelSize + Len(bytes)
      BY <1>1, <2>3 DEF PixelSize
    <3> QED BY <1>2, <2>1, <2>3, <3>1
  <2> QED BY <2>2, <2>3
<1>7. Stores(new, array, s, g, bytes, all)
  BY <1>5, <1>6 DEF Stores
<1> QED BY <1>7 DEF s, new

\* These are the bytes of the g pixels from index m on.
Group(bytes, k, px, e, m, g) ==
  /\ bytes \in Seq(Byte) /\ Len(bytes) = g * PixelSize
  /\ \A d \in 0 .. g - 1, n \in 1 .. 3 :
       bytes[d * PixelSize + n] \in ChannelValues(k, PixelOf(px, m + d), n, e)

\* A round of a filter loop filters its pixels, and leaves the others alone.
LEMMA StoreGroup ==
  ASSUME NEW k, NEW array, NEW px, NEW e, NEW all \in Nat, NEW m \in Nat, NEW g \in Nat,
         Slots(k, array, px, e, all, m), m + g <= all, (m % FieldMod) + g <= FieldMod,
         NEW bytes, Group(bytes, k, px, e, m, g)
  PROVE  Slots(k, Stored(array, m, bytes), px, e, all, m + g)
<1> DEFINE s == m % FieldMod
           new == Stored(array, m, bytes)
<1>1. s \in Nat /\ s <= m /\ (m < FieldMod => s = m) /\ FieldMod \in Nat
  <2>1. FieldMod \in Nat \ {0}
    BY WordsAssumption
  <2>2. m % FieldMod \in 0 .. FieldMod - 1 /\ m % FieldMod <= m
    BY <2>1, RemainderBelow, Zenon
  <2> QED BY <2>1, <2>2, IndexSmall
<1>2. /\ array \in Seq(Unset .. 255) /\ Len(array) = all * PixelSize
      /\ bytes \in Seq(Byte) /\ Len(bytes) = g * PixelSize
  BY DEF Slots, Group
<1>3. s + g <= all
  <2> HIDE DEF s
  <2> QED BY <1>1
<1>4. Stores(new, array, s, g, bytes, all)
  <2>1. (m % FieldMod) + g <= all
    BY <1>3
  <2>2. Stores(Stored(array, m, bytes), array, m % FieldMod, g, bytes, all)
    BY ONLY <1>2, <2>1, all \in Nat, m \in Nat, g \in Nat, StoredBytes, Zenon
  <2> QED BY <2>2
<1>5. \A d \in 0 .. g - 1 : PixelOf(px, m + d) = PixelOf(px, s + d)
  <2> TAKE d \in 0 .. g - 1
  <2>1. s + d < FieldMod /\ d \in Nat
    <3>1. s + g <= FieldMod
      OBVIOUS
    <3> HIDE DEF s
    <3> QED BY <1>1, <3>1
  <2> QED BY <2>1, SamePixel
<1>6. s + g <= FieldMod
  OBVIOUS
<1> HIDE DEF s, new
<1>7. ASSUME NEW t \in 0 .. all - 1, NEW n \in 1 .. 3
      PROVE  IF t < FieldMod
             THEN t < m + g => new[t * PixelSize + n] \in ChannelValues(k, PixelOf(px, t), n, e)
             ELSE new[t * PixelSize + n] = Unset
  <2>1. IF t < FieldMod
        THEN t < m => array[t * PixelSize + n] \in ChannelValues(k, PixelOf(px, t), n, e)
        ELSE array[t * PixelSize + n] = Unset
    BY DEF Slots
  <2>2. CASE t \in s .. s + g - 1
    <3>1. PICK d \in 0 .. g - 1 : d = t - s /\ t = s + d
      BY <1>1, <2>2
    <3>2. bytes[d * PixelSize + n] \in ChannelValues(k, PixelOf(px, t), n, e)
      BY <1>5, <3>1 DEF Group
    <3>3. new[t * PixelSize + n] = bytes[d * PixelSize + n]
      BY <1>4, <2>2, <3>1 DEF Stores
    <3>4. t < FieldMod
      BY <1>1, <1>6, <2>2
    <3> QED BY <3>2, <3>3, <3>4
  <2>3. CASE t \notin s .. s + g - 1
    <3>1. new[t * PixelSize + n] = array[t * PixelSize + n]
      BY <1>4, <2>3 DEF Stores
    <3>2. t < FieldMod /\ t < m + g => t < m
      BY <1>1, <2>3
    <3> QED BY <2>1, <3>1, <3>2
  <2> QED BY <2>2, <2>3
<1>8. Slots(k, new, px, e, all, m + g)
  BY <1>4, <1>7 DEF Slots, Stores
<1> QED BY <1>8 DEF new

\* Whichever filter made it: a byte, at most one from the exact value, and at
\* most one from what the C filter makes.
LEMMA ChannelValue ==
  ASSUME NEW p, p[1] \in Byte, p[2] \in Byte, p[3] \in Byte,
         NEW n \in 1 .. 3, NEW e \in Errors, NEW k, NEW v \in ChannelValues(k, p, n, e)
  PROVE  /\ v \in Byte
         /\ Distance(One * v, Exact(p, n)) <= One
         /\ \A c \in ChannelValues("c", p, n, e) : Distance(c, v) <= 1
<1> DEFINE s == LaneSum(p, n, e)
           x == Exact(p, n)
           m == IF s < 255 * One THEN s ELSE 255 * One
<1>1. PICK w \in Nat : x = (IF w < 255 * One THEN w ELSE 255 * One)
                        /\ s \in Nat /\ s \in w - 1 .. w + 1
  BY SumClose, Zenon
<1>2. /\ CutValue(p, n, e) = Sat(s \div One) /\ RoundValue(p, n, e) = Nearest(m)
  BY DEF CutValue, RoundValue
<1>3. m = IF s < 255 * One THEN s ELSE 255 * One
  OBVIOUS
<1> HIDE DEF s, x, m
<1>4. Sat(s \div One) \in Byte /\ Distance(One * Sat(s \div One), x) <= One
  BY <1>1, CutClose
<1>5. /\ Nearest(m) \in Byte /\ Distance(One * Nearest(m), x) <= One
      /\ Distance(Sat(s \div One), Nearest(m)) <= 1
  BY <1>1, <1>3, RoundClose
<1>6. Distance(Sat(s \div One), Sat(s \div One)) <= 1
  <2> DEFINE c == Sat(s \div One)
  <2>1. c \in Nat
    BY <1>4 DEF Byte
  <2> HIDE DEF c
  <2>2. Distance(c, c) <= 1
    BY <2>1 DEF Distance
  <2> QED BY <2>2 DEF c
<1>7. ChannelValues("c", p, n, e) = {Sat(s \div One)}
  BY <1>2 DEF ChannelValues
<1>8. v = Sat(s \div One) \/ v = Nearest(m)
  BY <1>2 DEF ChannelValues
<1> QED BY <1>4, <1>5, <1>6, <1>7, <1>8 DEF x

\* sepia_one.
LEMMA OnePixel ==
  ASSUME NEW p, p[1] \in Byte, p[2] \in Byte, p[3] \in Byte, NEW e \in Errors
  PROVE  /\ SepiaOne(p, e) \in Seq(Byte) /\ Len(SepiaOne(p, e)) = PixelSize
         /\ \A n \in 1 .. 3, k \in {"c", "sse"} :
              SepiaOne(p, e)[n] \in ChannelValues(k, p, n, e)
<1>1. SepiaOne(p, e) = <<CutValue(p, 1, e), CutValue(p, 2, e), CutValue(p, 3, e)>>
  <2>1. Row(1) = Coefficients.b /\ Row(2) = Coefficients.g /\ Row(3) = Coefficients.r
    BY DEF Row
  <2> QED BY <2>1 DEF SepiaOne, CutValue, LaneSum
<1>2. ASSUME NEW n \in 1 .. 3
      PROVE  /\ \A k \in {"c", "sse"} : CutValue(p, n, e) \in ChannelValues(k, p, n, e)
             /\ CutValue(p, n, e) \in Byte
  <2>1. \A k \in {"c", "sse"} : CutValue(p, n, e) \in ChannelValues(k, p, n, e)
    BY DEF ChannelValues
  <2> QED BY <2>1, ChannelValue
<1>3. ASSUME NEW a \in Byte, NEW b \in Byte, NEW c \in Byte
      PROVE  <<a, b, c>> \in Seq(Byte) /\ Len(<<a, b, c>>) = PixelSize
  BY SMTT(30) DEF PixelSize
<1>4. ASSUME NEW n \in 1 .. 3 PROVE SepiaOne(p, e)[n] = CutValue(p, n, e)
  BY <1>1
<1> QED BY <1>1, <1>2, <1>3, <1>4

\* sepia_filter_sse for the pixels from index m on.
LEMMA FourPixels ==
  ASSUME NEW px \in Seq(Byte), NEW all \in Nat, Len(px) = all * PixelSize,
         NEW m \in Nat, m + 4 <= all, NEW e \in Errors,
         NEW ch, ch = [n \in 1 .. 3 |-> [k \in 1 .. 4 |-> PixelOf(px, m + k - 1)[n]]],
         NEW bytes, bytes = SepiaFilterSse(ch[3], ch[2], ch[1], e)
  PROVE  Group(bytes, "sse", px, e, m, 4)
<1> DEFINE P(k) == PixelOf(px, m + k - 1)
           r == ch[3]
           g == ch[2]
           b == ch[1]
<1>1. ASSUME NEW k \in 1 .. 4 PROVE P(k)[1] \in Byte /\ P(k)[2] \in Byte /\ P(k)[3] \in Byte
  <2>1. m + k - 1 \in 0 .. all - 1
    OBVIOUS
  <2> QED BY <2>1, PixelBytes
<1> HIDE DEF P
<1>2. ASSUME NEW k \in 1 .. 4, NEW n \in 1 .. 3
      PROVE  Bounded(FloatSum(r[k], g[k], b[k], Row(n), e)) = RoundValue(P(k), n, e)
  <2>1. r[k] = P(k)[3] /\ g[k] = P(k)[2] /\ b[k] = P(k)[1]
    BY DEF P
  <2> HIDE DEF r, g, b
  <2> QED BY <2>1 DEF Bounded, RoundValue, LaneSum
<1>3. ASSUME NEW k \in 1 .. 4, NEW n \in 1 .. 3
      PROVE  /\ RoundValue(P(k), n, e) \in ChannelValues("sse", P(k), n, e)
             /\ RoundValue(P(k), n, e) \in Byte
  <2>1. RoundValue(P(k), n, e) \in ChannelValues("sse", P(k), n, e)
    BY DEF ChannelValues
  <2> QED BY <1>1, <2>1, ChannelValue
<1> HIDE DEF r, g, b
<1>4. \A k \in 1 .. 4, n \in 1 .. 3 :
        Bounded(FloatSum(r[k], g[k], b[k], Row(n), e)) \in Byte
  BY <1>2, <1>3
<1>5. /\ SepiaFilterSse(r, g, b, e) \in Seq(Byte)
      /\ Len(SepiaFilterSse(r, g, b, e)) = 12
      /\ \A k \in 1 .. 4, n \in 1 .. 3 :
           SepiaFilterSse(r, g, b, e)[3 * (k - 1) + n]
             = Bounded(FloatSum(r[k], g[k], b[k], Row(n), e))
  BY <1>4, TwelveBytes
<1>6. bytes = SepiaFilterSse(r, g, b, e)
  BY DEF r, g, b
<1>7. ASSUME NEW d \in 0 .. 3, NEW n \in 1 .. 3
      PROVE  bytes[d * PixelSize + n] \in ChannelValues("sse", PixelOf(px, m + d), n, e)
  <2>1. PICK k \in 1 .. 4 : k = d + 1
    OBVIOUS
  <2>2. d * PixelSize + n = 3 * (k - 1) + n /\ m + k - 1 = m + d
    BY <2>1 DEF PixelSize
  <2>3. bytes[3 * (k - 1) + n] = RoundValue(P(k), n, e)
    BY <1>2, <1>5, <1>6
  <2>4. P(k) = PixelOf(px, m + d)
    BY <2>2 DEF P
  <2> QED BY <1>3, <2>2, <2>3, <2>4
<1>8. \A d \in 0 .. 4 - 1 : d \in 0 .. 3
  OBVIOUS
<1> QED BY <1>5, <1>6, <1>7, <1>8 DEF PixelSize, Group

-----------------------------------------------------------------------------
(* The invariant.                                                          *)

Early == {"main", "open_in", "header", "alloc"}
Filled == {"open_out", "filter", "pixels", "measure", "to_bmp", "free", "done"}

\* Types, and what has not happened yet.
Typed ==
  /\ TypeOK
  /\ argv \in Argvs /\ input \in Inputs /\ err \in Errors /\ kind \in {"c", "sse"}
  /\ pc \in Early => row = 0 /\ index = 0
  /\ pc \in {"filter", "pixels", "measure", "to_bmp"} => test < TestsNum
  /\ pc \in Early \union {"usage", "read_row", "open_out"} => test = 0

\* The sizes are those of the header, if there was one.
SizesRead ==
  (pc \in {"alloc", "read_row"} \union Filled /\ failed = {}) =>
    size = [width |-> input.width, height |-> input.height]

\* The rows that have been read are inside the array.
Room ==
  /\ pc \in {"read_row"} \union Filled =>
       /\ row * RowSize <= AllocSize(size.width, size.height)
       /\ pixels # NullArray =>
            pixels \in Seq(Byte) /\ Len(pixels) = AllocSize(size.width, size.height)
       /\ pixels = NullArray => row * RowSize = 0
  /\ pc \in Filled => row = size.height

\* What has been filtered.
Filtering ==
  /\ pc = "pixels" =>
       /\ kind = "sse" => index % 4 = 0 \/ index >= Grouped
       /\ IF results[kind] = NullArray THEN index = 0
          ELSE Slots(kind, results[kind], pixels, err, Count, index)
  /\ (pc \in {"measure", "to_bmp"} /\ Count > 0) =>
       Slots(kind, results[kind], pixels, err, Count, Count)
  /\ (pc \in {"filter", "pixels", "measure"} /\ Perf /\ kind = "sse" /\ Count > 0) =>
       Slots("c", results["c"], pixels, err, Count, Count)

\* Only perf_counter measures, and starts with the C filter.
PerfOnly ==
  /\ pc = "measure" => Perf
  /\ pc \in {"open_out", "to_bmp"} => ~Perf
  /\ (pc \in {"open_in", "header", "alloc", "read_row"} /\ Perf) => kind = "c"

\* What has been written.
OutputWritten ==
  (pc \in {"free", "done"} /\ ~Perf /\ failed = {}) =>
    out = [headers |-> <<SepiaHeader(size.width, size.height)>>, body |-> Raster(results[kind])]

\* Which images there are.
Images ==
  /\ pc \in {"main", "usage"} => live = {}
  /\ (pc \notin {"main", "usage"} /\ ~Perf) => test = 0 /\ live \subseteq {Original, <<kind, 0>>}
  /\ ImagesFreed

IInv == Typed /\ SizesRead /\ Room /\ Filtering /\ PerfOnly /\ OutputWritten /\ Images

\* A run begins in the invariant.
LEMMA InitInv == Init => IInv
<1> SUFFICES ASSUME Init PROVE IInv
  OBVIOUS
<1>1. FieldMod \in Nat \ {0} /\ TestsNum \in Nat \ {0}
  BY WordsAssumption, SepiaAssumption
<1>2. size.width = 0 /\ size.height = 0
  BY DEF Init
<1>3. Count = 0
  BY <1>2 DEF Count
<1>4. TypeOK
  <2>1. size \in [width : 0 .. FieldMod - 1, height : 0 .. FieldMod - 1]
    BY <1>1 DEF Init
  <2>2. results \in [{"c", "sse"} -> Seq(Unset .. 255)]
    BY DEF Init
  <2>3. pixels \in Seq(0 .. 255) \union {NullArray}
    BY DEF Init
  <2> QED BY <1>1, <1>2, <1>3, <2>1, <2>2, <2>3 DEF Init, TypeOK
<1>5. Typed
  BY <1>1, <1>4 DEF Init, Typed
<1> QED BY <1>5 DEF Init, IInv, SizesRead, Room, Filtering, PerfOnly, OutputWritten, Images,
                    Filled, ImagesFreed

\* The sizes are numbers, and malloc is asked for no more than the pixels need.
LEMMA SizesNat ==
  ASSUME Typed
  PROVE  /\ size.width \in Nat /\ size.height \in Nat
         /\ Count \in Nat /\ RowSize \in Nat
         /\ AllocSize(size.width, size.height) \in Nat
         /\ AllocSize(size.width, size.height) < WordMod
         /\ AllocSize(size.width, size.height) <= Count * PixelSize
<1>1. size.width \in Nat /\ size.height \in Nat
  BY WordsAssumption DEF Typed, TypeOK
<1>2. Count \in Nat /\ RowSize \in Nat
  BY <1>1 DEF Count, RowSize, PixelSize
<1>3. AllocSize(size.width, size.height) = (Count * PixelSize) % WordMod
  BY DEF AllocSize, Count
<1>4. Count * PixelSize \in Nat /\ WordMod \in Nat \ {0}
  BY <1>2, WordsAssumption DEF PixelSize
<1> DEFINE k == Count * PixelSize
<1>5. k % WordMod \in 0 .. WordMod - 1 /\ k % WordMod <= k
  <2> HIDE DEF k
  <2>1. k \in Nat
    BY <1>4 DEF k
  <2> QED BY <1>4, <2>1, RemainderBelow, Zenon
<1>6. k % WordMod \in Nat /\ k % WordMod < WordMod
  <2> HIDE DEF k
  <2> QED BY <1>4, <1>5
<1> QED BY <1>1, <1>2, <1>3, <1>5, <1>6

\* Once all rows have been read the array has room for all pixels: the number
\* of bytes has not wrapped around.
LEMMA FilledArray ==
  ASSUME Typed, Room, pc \in Filled
  PROVE  /\ AllocSize(size.width, size.height) = Count * PixelSize
         /\ Count > 0 => pixels \in Seq(Byte) /\ Len(pixels) = Count * PixelSize
<1> DEFINE bytes == AllocSize(size.width, size.height)
           area == Count * PixelSize
<1>1. bytes \in Nat /\ bytes <= area /\ Count \in Nat /\ area \in Nat
  BY SizesNat DEF PixelSize
<1>2. row * RowSize = area
  <2>1. row = size.height
    BY DEF Room
  <2>2. size.height * (size.width * PixelSize) = (size.width * size.height) * PixelSize
    <3>1. size.width \in Nat /\ size.height \in Nat
      BY SizesNat
    <3> QED BY <3>1 DEF PixelSize
  <2> QED BY <2>1, <2>2 DEF RowSize, Count
<1>3. area <= bytes
  BY <1>2 DEF Room
<1>4. bytes = area
  <2> HIDE DEF bytes, area
  <2> QED BY <1>1, <1>3
<1>5. ASSUME Count > 0 PROVE pixels \in Seq(Byte) /\ Len(pixels) = bytes
  <2>1. area # 0
    BY <1>1, <1>5 DEF PixelSize
  <2>2. pixels # NullArray
    BY <1>2, <2>1 DEF Room
  <2> QED BY <2>2 DEF Room
<1> QED BY <1>4, <1>5

\* A round of a filter loop filters one pixel or four, all of them inside.
LEMMA FilterRound ==
  ASSUME IInv, FilterStep, results[kind] # NullArray
  PROVE  /\ index' \in 0 .. Count
         /\ kind = "sse" => index' % 4 = 0 \/ index' >= Grouped
         /\ results' = [results EXCEPT ![kind] = results'[kind]]
         /\ Slots(kind, results'[kind], pixels, err, Count, index')
<1>1. Typed /\ TypeOK /\ Room /\ pc = "pixels" /\ index < Count
  BY DEF IInv, Typed, FilterStep
<1>2. /\ Count \in Nat /\ index \in Nat /\ kind \in {"c", "sse"} /\ err \in Errors
      /\ results \in [{"c", "sse"} -> Seq(Unset .. 255)]
  BY <1>1, SizesNat DEF Typed, TypeOK
<1>3. pixels \in Seq(Byte) /\ Len(pixels) = Count * PixelSize
  <2>1. pc \in Filled /\ Count > 0
    BY <1>1, <1>2 DEF Filled
  <2> QED BY <1>1, <2>1, FilledArray
<1>4. /\ Slots(kind, results[kind], pixels, err, Count, index)
      /\ kind = "sse" => index % 4 = 0 \/ index >= Grouped
  BY <1>1 DEF IInv, Filtering
<1>5. CASE ByPixel
  <2> DEFINE p == PixelOf(pixels, index)
             bytes == SepiaOne(p, err)
  <2>1. index' = index + 1 /\ results' = [results EXCEPT ![kind] = Stored(@, index, bytes)]
    BY <1>1, <1>5 DEF FilterStep
  <2>2. p[1] \in Byte /\ p[2] \in Byte /\ p[3] \in Byte
    <3>1. index \in 0 .. Count - 1
      BY <1>1, <1>2
    <3> HIDE DEF p
    <3> QED BY ONLY <1>2, <1>3, <3>1, PixelBytes DEF p
  <2>3. /\ bytes \in Seq(Byte) /\ Len(bytes) = PixelSize
        /\ \A n \in 1 .. 3, k \in {"c", "sse"} : bytes[n] \in ChannelValues(k, p, n, err)
    <3> HIDE DEF p
    <3> QED BY ONLY <1>2, <2>2, OnePixel, Zenon DEF bytes
  <2> HIDE DEF bytes
  <2>4. Group(bytes, kind, pixels, err, index, 1)
    <3>1. ASSUME NEW d \in 0 .. 1 - 1, NEW n \in 1 .. 3
          PROVE  bytes[d * PixelSize + n]
                   \in ChannelValues(kind, PixelOf(pixels, index + d), n, err)
      <4>1. d = 0 /\ d * PixelSize + n = n /\ index + d = index
        BY <1>2 DEF PixelSize
      <4> QED BY <1>2, <2>3, <4>1
    <3>2. Len(bytes) = 1 * PixelSize
      BY <2>3 DEF PixelSize
    <3> QED BY <2>3, <3>1, <3>2 DEF Group
  <2>5. index + 1 <= Count /\ (index % FieldMod) + 1 <= FieldMod
    <3>1. index % FieldMod \in 0 .. FieldMod - 1 /\ FieldMod \in Nat
      BY <1>2, WordsAssumption
    <3> QED BY <1>1, <1>2, <3>1
  <2>6. 1 \in Nat
    OBVIOUS
  <2>7. Slots(kind, Stored(results[kind], index, bytes), pixels, err, Count, index + 1)
    BY ONLY <1>2, <1>4, <2>4, <2>5, <2>6, StoreGroup, Zenon
  <2>8. /\ results'[kind] = Stored(results[kind], index, bytes)
        /\ results' = [results EXCEPT ![kind] = results'[kind]]
    BY <1>2, <2>1
  <2>9. index + 1 >= Grouped \/ kind # "sse"
    <3>1. index >= Grouped \/ kind = "c"
      BY <1>5 DEF ByPixel
    <3>2. Grouped \in Int
      BY <1>2 DEF Grouped
    <3> QED BY <1>2, <3>1, <3>2
  <2> QED BY <1>1, <1>2, <2>1, <2>5, <2>7, <2>8, <2>9
<1>6. CASE ~ByPixel
  <2> DEFINE ch == [n \in 1 .. 3 |-> [k \in 1 .. 4 |-> PixelOf(pixels, index + k - 1)[n]]]
             bytes == SepiaFilterSse(ch[3], ch[2], ch[1], err)
  <2>1. index' = index + 4 /\ results' = [results EXCEPT ![kind] = Stored(@, index, bytes)]
    BY <1>1, <1>6 DEF FilterStep
  <2>2. kind = "sse" /\ index % 4 = 0 /\ index < Grouped
    <3>1. Grouped \in Int
      BY <1>2 DEF Grouped
    <3> QED BY <1>2, <1>4, <1>6, <3>1 DEF ByPixel
  <2>3. index + 4 <= Count /\ (index + 4) % 4 = 0
    BY <1>2, <2>2 DEF Grouped
  <2>4. Group(bytes, "sse", pixels, err, index, 4)
    BY ONLY <1>2, <1>3, <2>3, FourPixels, Zenon
  <2> HIDE DEF bytes
  <2>5. (index % FieldMod) + 4 <= FieldMod
    BY <1>2, <2>2, GroupFits
  <2>6. 4 \in Nat
    OBVIOUS
  <2>7. Slots(kind, Stored(results[kind], index, bytes), pixels, err, Count, index + 4)
    BY ONLY <1>2, <1>4, <2>2, <2>3, <2>4, <2>5, <2>6, StoreGroup, Zenon
  <2>8. /\ results'[kind] = Stored(results[kind], index, bytes)
        /\ results' = [results EXCEPT ![kind] = results'[kind]]
    BY <1>2, <2>1
  <2> QED BY <1>1, <1>2, <2>1, <2>3, <2>7, <2>8
<1> QED BY <1>5, <1>6

\* Every step keeps the types: the array read is made of bytes, what a filter
\* stores are bytes, and images are numbered below TestsNum.
LEMMA TypedKept ==
  ASSUME IInv, [Next]_vars
  PROVE  Typed'
<1>1. Typed /\ TypeOK
  BY DEF IInv, Typed
<1>2. /\ FieldMod \in Nat \ {0} /\ TestsNum \in Nat \ {0} /\ WordMod \in Nat \ {0}
      /\ Count \in Nat /\ AllocSize(size.width, size.height) \in Nat
  BY <1>1, WordsAssumption, SepiaAssumption, SizesNat
<1>3. ASSUME size' = size PROVE Count' = Count
  BY <1>3 DEF Count
<1>4. CASE Main
  BY <1>1, <1>2, <1>3, <1>4 DEF Main, Typed, TypeOK, file, image, perf, Early
<1>5. CASE OpenIn
  BY <1>1, <1>2, <1>3, <1>5 DEF OpenIn, Typed, TypeOK, file, image, filter, perf, Early
<1>6. CASE ReadHeader
  <2>1. row = 0 /\ index = 0
    BY <1>1, <1>6 DEF ReadHeader, Typed, Early
  <2>2. size' \in [width : 0 .. FieldMod - 1, height : 0 .. FieldMod - 1]
    <3>1. input.width \in Nat /\ input.height \in Nat
          /\ input.width < FieldMod /\ input.height < FieldMod
      BY <1>1, SepiaAssumption DEF Typed, InputType
    <3>2. input.width \in 0 .. FieldMod - 1 /\ input.height \in 0 .. FieldMod - 1
      BY <1>2, <3>1
    <3> QED BY <1>1, <1>6, <3>2 DEF ReadHeader, TypeOK
  <2>3. Count' \in Nat /\ size'.height \in Nat
    <3>1. size'.width \in Nat /\ size'.height \in Nat
      BY <1>2, <2>2
    <3> QED BY <3>1 DEF Count
  <2>4. 0 \in 0 .. Count' /\ 0 \in 0 .. size'.height
    BY <2>3
  <2> QED BY <1>1, <1>6, <2>1, <2>2, <2>4
          DEF ReadHeader, Typed, TypeOK, file, filter, perf, Early
<1>7. CASE AllocPixelArray
  <2>1. pixels' \in Seq(0 .. 255) \union {NullArray}
    <3>1. CASE pixels' = NullArray
      BY <3>1
    <3>2. ASSUME NEW j \in Junk,
                 pixels' = [k \in 1 .. AllocSize(size.width, size.height) |-> j]
          PROVE  pixels' \in Seq(0 .. 255)
      <4>1. j \in 0 .. 255
        BY SepiaAssumption
      <4>2. pixels' \in [1 .. AllocSize(size.width, size.height) -> 0 .. 255]
        BY <3>2, <4>1
      <4> QED BY ONLY <1>2, <4>2, AsSequence, ZenonT(60)
    <3> QED BY <1>7, <3>1, <3>2 DEF AllocPixelArray
  <2> QED BY <1>1, <1>2, <1>3, <1>7, <2>1
          DEF AllocPixelArray, Typed, TypeOK, file, filter, perf, Early
<1>8. CASE ReadRow
  <2>1. /\ pixels' \in Seq(0 .. 255) \union {NullArray} /\ pos' \in Nat
        /\ row' \in 0 .. size.height
    <3>1. CASE pc' # "read_row"
      BY <1>1, <1>8, <3>1 DEF ReadRow, TypeOK
    <3>2. CASE pc' = "read_row"
      <4> DEFINE first == row * RowSize
                 new(got) == [k \in DOMAIN pixels |->
                                IF k \in first + 1 .. first + got
                                THEN input.body[pos + k - first] ELSE pixels[k]]
      <4>0. input.body \in Seq(0 .. 255)
        BY <1>1, SepiaAssumption DEF Typed, InputType
      <4>1. PICK got \in 0 .. RowSize :
              /\ got = 0 \/ got <= Len(input.body) - pos
              /\ pixels' = IF RowSize = 0 THEN pixels ELSE new(got)
              /\ pos' = pos + got + GetPadding(size.width)
              /\ row' = row + 1
              /\ row < size.height
              /\ RowSize > 0 => pixels # NullArray
        <5> DEFINE there == IF Len(input.body) > pos THEN Len(input.body) - pos ELSE 0
        <5>1. /\ row < size.height
              /\ ~(RowSize > 0 /\ pixels = NullArray)
              /\ \E got \in 0 .. RowSize :
                   /\ \/ got = IF there < RowSize THEN there ELSE RowSize
                      \/ got = 0
                   /\ pixels' = IF RowSize = 0 THEN pixels ELSE new(got)
                   /\ pos' = pos + got + GetPadding(size.width)
                   /\ row' = row + 1
          BY <1>8, <3>2 DEF ReadRow
        <5>2. Len(input.body) \in Nat /\ pos \in Nat /\ RowSize \in Nat
          BY <1>1, <4>0, SizesNat DEF TypeOK
        <5> HIDE DEF new, first
        <5>3. ASSUME NEW got \in 0 .. RowSize, got = IF there < RowSize THEN there ELSE RowSize
              PROVE  got = 0 \/ got <= Len(input.body) - pos
          BY <5>2, <5>3
        <5> HIDE DEF there
        <5> QED BY <5>1, <5>3
      <4>2. pos' \in Nat /\ row' \in 0 .. size.height
        <5>1. GetPadding(size.width) \in Nat /\ RowSize \in Nat
          BY <1>1, SizesNat, StrideNat
        <5>2. pos \in Nat /\ row \in 0 .. size.height /\ size.height \in Nat
          BY <1>1, SizesNat DEF TypeOK
        <5>3. /\ pos' = pos + got + GetPadding(size.width) /\ row' = row + 1
              /\ row < size.height
          BY <4>1
        <5>4. got \in Nat
          BY <5>1
        <5> QED BY ONLY <5>1, <5>2, <5>3, <5>4
      <4>3. ASSUME RowSize # 0 PROVE new(got) \in Seq(0 .. 255)
        <5>1. pixels \in Seq(0 .. 255)
          BY <1>1, <4>1, <4>3, SizesNat DEF TypeOK
        <5>2. first \in Nat
          BY <1>1, SizesNat DEF TypeOK
        <5>3. ASSUME NEW k \in 1 .. Len(pixels)
              PROVE  new(got)[k] \in 0 .. 255
          <6>1. CASE k \in first + 1 .. first + got
            <7>1. pos + k - first \in 1 .. Len(input.body)
              <8> HIDE DEF first, new
              <8> QED BY <1>1, <4>0, <4>1, <5>2, <6>1, SMTT(30) DEF TypeOK
            <7>2. input.body[pos + k - first] \in 0 .. 255
              <8> DEFINE at == pos + k - first
              <8>1. at \in 1 .. Len(input.body)
                BY <7>1
              <8> HIDE DEF at
              <8>2. input.body[at] \in 0 .. 255
                BY ONLY <4>0, <8>1, Element
              <8> QED BY <8>2 DEF at
            <7>3. new(got)[k] = input.body[pos + k - first]
              <8> HIDE DEF first
              <8> QED BY <5>1, <6>1
            <7> QED BY <7>2, <7>3
          <6>2. CASE k \notin first + 1 .. first + got
            <7>1. new(got)[k] = pixels[k]
              <8> HIDE DEF first
              <8> QED BY <5>1, <6>2
            <7>2. pixels[k] \in 0 .. 255
              BY ONLY <5>1, k \in 1 .. Len(pixels), Element
            <7> QED BY <7>1, <7>2
          <6> QED BY <6>1, <6>2
        <5>4. new(got) \in [1 .. Len(pixels) -> 0 .. 255] /\ Len(pixels) \in Nat
          <6>1. new(got) = [k \in 1 .. Len(pixels) |-> new(got)[k]] /\ Len(pixels) \in Nat
            BY <5>1
          <6> HIDE DEF new
          <6> QED BY <5>3, <6>1
        <5> HIDE DEF new
        <5> QED BY ONLY <5>4, AsSequence, ZenonT(60)
      <4> HIDE DEF new
      <4> QED BY <1>1, <4>1, <4>2, <4>3 DEF TypeOK
    <3> QED BY <3>1, <3>2
  <2> QED BY <1>1, <1>2, <1>3, <1>8, <2>1
          DEF ReadRow, Typed, TypeOK, file, filter, perf, Early
<1>9. CASE ReadDone
  BY <1>1, <1>2, <1>3, <1>9 DEF ReadDone, Typed, TypeOK, file, image, filter, perf, Early
<1>10. CASE OpenOut
  <2>1. failed' \subseteq {"read", "open", "write"} /\ pc' = "filter" /\ test = 0
        /\ UNCHANGED <<file, image, filter, live, perf, out>>
    <3>1. failed' = failed \/ failed' = failed \union {"open"}
      BY <1>10 DEF OpenOut
    <3>2. pc = "open_out" /\ pc' = "filter" /\ UNCHANGED <<file, image, filter, live, perf, out>>
      BY <1>10 DEF OpenOut
    <3> QED BY <1>1, <3>1, <3>2 DEF Typed, TypeOK
  <2> QED BY <1>1, <1>2, <1>3, <2>1 DEF Typed, TypeOK, file, image, filter, perf, Early
<1>11. CASE AllocOutput
  <2>1. results' \in [{"c", "sse"} -> Seq(Unset .. 255)]
    <3> DEFINE bytes == AllocSize(size.width, size.height)
               fresh == [k \in 1 .. bytes |-> Unset]
    <3>1. fresh \in Seq(Unset .. 255)
      <4>1. fresh \in [1 .. bytes -> Unset .. 255] /\ bytes \in Nat
        BY <1>2 DEF Unset
      <4> HIDE DEF fresh, bytes
      <4> QED BY ONLY <4>1, AsSequence, ZenonT(60)
    <3>2. NullArray \in Seq(Unset .. 255)
      BY DEF NullArray, Unset
    <3>3. \E array \in Seq(Unset .. 255) : results' = [results EXCEPT ![kind] = array]
      BY <1>11, <3>1, <3>2 DEF AllocOutput
    <3> QED BY <1>1, <3>3 DEF Typed, TypeOK
  <2>2. live' \subseteq {Original} \union ({"c", "sse"} \X (0 .. TestsNum - 1))
    <3>1. test \in 0 .. TestsNum - 1
      BY <1>1, <1>2, <1>11 DEF AllocOutput, Typed, TypeOK
    <3>2. live' = live \union {<<kind, test>>}
      BY <1>11 DEF AllocOutput
    <3>3. <<kind, test>> \in {"c", "sse"} \X (0 .. TestsNum - 1)
      BY <1>1, <3>1 DEF Typed
    <3> QED BY <1>1, <3>2, <3>3 DEF TypeOK
  <2>3. /\ pc = "filter" /\ pc' = "pixels" /\ index' = 0
        /\ UNCHANGED <<file, image, kind, perf, out, failed>>
    BY <1>11 DEF AllocOutput
  <2> QED BY <1>1, <1>2, <1>3, <2>1, <2>2, <2>3
          DEF Typed, TypeOK, file, image, perf, Early
<1>12. CASE FilterStep
  <2>1. results' \in [{"c", "sse"} -> Seq(Unset .. 255)] /\ index' \in 0 .. Count
    <3>1. CASE results[kind] = NullArray
      BY <1>1, <1>12, <3>1 DEF FilterStep, TypeOK
    <3>2. CASE results[kind] # NullArray
      <4>1. /\ results' = [results EXCEPT ![kind] = results'[kind]]
            /\ results'[kind] \in Seq(Unset .. 255) /\ index' \in 0 .. Count
        <5>1. /\ results' = [results EXCEPT ![kind] = results'[kind]] /\ index' \in 0 .. Count
              /\ Slots(kind, results'[kind], pixels, err, Count, index')
          BY <1>12, <3>2, FilterRound
        <5> QED BY <5>1 DEF Slots
      <4>2. /\ results \in [{"c", "sse"} -> Seq(Unset .. 255)] /\ kind \in {"c", "sse"}
        BY <1>1 DEF Typed, TypeOK
      <4>3. PICK array \in Seq(Unset .. 255) : results' = [results EXCEPT ![kind] = array]
        BY <4>1, Zenon
      <4>4. results' \in [{"c", "sse"} -> Seq(Unset .. 255)]
        BY ONLY <4>2, <4>3, array \in Seq(Unset .. 255)
      <4> QED BY <4>1, <4>4
    <3> QED BY <3>1, <3>2
  <2>2. /\ pc = "pixels" /\ pc' \in {"pixels", "crashed"}
        /\ UNCHANGED <<file, image, kind, live, perf, out, failed>>
    BY <1>12 DEF FilterStep
  <2> QED BY <1>1, <1>2, <1>3, <2>1, <2>2
          DEF Typed, TypeOK, file, image, perf, Early
<1>13. CASE FilterDone
  BY <1>1, <1>2, <1>3, <1>13, SMTT(30)
     DEF FilterDone, Typed, TypeOK, file, image, filter, perf, Early
<1>14. CASE Measure
  BY <1>1, <1>2, <1>3, <1>14, SMTT(30) DEF Measure, Typed, TypeOK, file, image, Early
<1>15. CASE ToBmp
  BY <1>1, <1>2, <1>3, <1>15 DEF ToBmp, Typed, TypeOK, file, image, filter, perf, Early
<1>16. CASE Exit
  BY <1>1, <1>2, <1>3, <1>16 DEF Exit, Typed, TypeOK, file, image, filter, perf, Early
<1>17. CASE UNCHANGED vars
  BY <1>1, <1>3, <1>17 DEF vars, Typed, TypeOK, file, image, filter, perf
<1> QED BY <1>4, <1>5, <1>6, <1>7, <1>8, <1>9, <1>10, <1>11, <1>12, <1>13, <1>14, <1>15,
           <1>16, <1>17 DEF Next

\* Nothing but ReadHeader sets the sizes, and a header not read is remembered.
LEMMA SizesReadKept ==
  ASSUME IInv, [Next]_vars
  PROVE  SizesRead'
<1>1. Typed /\ SizesRead
  BY DEF IInv
<1>2. CASE Main
  BY <1>1, <1>2 DEF Main, SizesRead, file, image, perf, Filled
<1>3. CASE OpenIn
  BY <1>1, <1>3 DEF OpenIn, SizesRead, file, image, filter, perf, Filled
<1>4. CASE ReadHeader
  <2>1. failed' = {} => size' = [width |-> input.width, height |-> input.height]
    BY <1>4 DEF ReadHeader
  <2> QED BY <1>4, <2>1 DEF ReadHeader, SizesRead, file
<1>5. CASE AllocPixelArray
  BY <1>1, <1>5 DEF AllocPixelArray, SizesRead, file, filter, perf, Filled
<1>6. CASE ReadRow
  <2>1. /\ pc = "read_row" /\ pc' \in {"read_row", "crashed", "out_of_bounds"}
        /\ failed' = failed \/ failed' = failed \union {"read"}
        /\ size' = size /\ input' = input
    BY <1>6 DEF ReadRow, file
  <2> QED BY <1>1, <2>1 DEF SizesRead, Filled
<1>7. CASE ReadDone
  BY <1>1, <1>7 DEF ReadDone, SizesRead, file, image, filter, perf, Filled
<1>8. CASE OpenOut
  <2>1. failed' = {} => failed = {}
    BY <1>8 DEF OpenOut
  <2>2. pc = "open_out" /\ size' = size /\ input' = input
    BY <1>8 DEF OpenOut, file, image
  <2> QED BY <1>1, <2>1, <2>2 DEF SizesRead, Filled
<1>9. CASE AllocOutput
  BY <1>1, <1>9 DEF AllocOutput, SizesRead, file, image, perf, Filled
<1>10. CASE FilterStep
  <2>1. pc = "pixels" /\ failed' = failed /\ size' = size /\ input' = input
    BY <1>10 DEF FilterStep, file, image
  <2> QED BY <1>1, <2>1 DEF SizesRead, Filled
<1>11. CASE FilterDone
  BY <1>1, <1>11 DEF FilterDone, SizesRead, file, image, filter, perf, Filled
<1>12. CASE Measure
  BY <1>1, <1>12 DEF Measure, SizesRead, file, image, Filled
<1>13. CASE ToBmp
  <2>1. failed' = failed \/ failed' = failed \union {"write"}
    BY <1>13 DEF ToBmp
  <2>2. pc = "to_bmp" /\ size' = size /\ input' = input
    BY <1>13 DEF ToBmp, file, image
  <2> QED BY <1>1, <2>1, <2>2 DEF SizesRead, Filled
<1>14. CASE Exit
  BY <1>1, <1>14 DEF Exit, SizesRead, file, image, filter, perf, Filled
<1>15. CASE UNCHANGED vars
  BY <1>1, <1>15 DEF vars, SizesRead, file, image
<1> QED BY <1>2, <1>3, <1>4, <1>5, <1>6, <1>7, <1>8, <1>9, <1>10, <1>11, <1>12, <1>13, <1>14,
           <1>15 DEF Next

\* From the header on only ReadRow changes what Room speaks of.
LEMMA RoomKept ==
  ASSUME IInv, [Next]_vars
  PROVE  Room'
<1> DEFINE bytes == AllocSize(size.width, size.height)
<1>1. Typed /\ TypeOK /\ Room
  BY DEF IInv, Typed
<1>2. ASSUME UNCHANGED <<size, pixels, row>>,
             pc' \in {"read_row"} \union Filled => pc \in {"read_row"} \union Filled,
             pc' \in Filled /\ pc \notin Filled => row = size.height
      PROVE  Room'
  <2>1. RowSize' = RowSize /\ bytes' = bytes
    BY <1>2 DEF RowSize
  <2> QED BY <1>1, <1>2, <2>1 DEF Room
<1>3. ASSUME pc' \notin {"read_row"} \union Filled PROVE Room'
  BY <1>3 DEF Room
<1>4. CASE Main
  BY <1>3, <1>4 DEF Main, Filled
<1>5. CASE OpenIn
  BY <1>3, <1>5 DEF OpenIn, Filled
<1>6. CASE ReadHeader
  BY <1>3, <1>6 DEF ReadHeader, Filled
<1>7. CASE AllocPixelArray
  <2>1. /\ pc = "alloc" /\ pc' = "read_row" /\ size' = size /\ row' = row
        /\ \/ \E j \in Junk : pixels' = [k \in 1 .. bytes |-> j]
           \/ pixels' = NullArray
    BY <1>7 DEF AllocPixelArray
  <2>2. row = 0 /\ bytes \in Nat /\ RowSize \in Nat
    BY <1>1, <2>1, SizesNat DEF Typed, Early
  <2>3. RowSize' = RowSize /\ bytes' = bytes
    BY <2>1 DEF RowSize
  <2>4. row' * RowSize' = 0 /\ 0 <= bytes'
    BY <2>1, <2>2, <2>3
  <2>5. ASSUME pixels' # NullArray
        PROVE  pixels' \in Seq(Byte) /\ Len(pixels') = bytes
    <3>1. PICK j \in Junk : pixels' = [k \in 1 .. bytes |-> j]
      BY <2>1, <2>5
    <3>2. j \in Byte
      BY SepiaAssumption DEF Byte
    <3>3. pixels' \in [1 .. bytes -> Byte]
      BY <3>1, <3>2
    <3> HIDE DEF bytes
    <3> QED BY ONLY <2>2, <3>3, AsSequence, ZenonT(60)
  <2> HIDE DEF bytes
  <2>6. pc' \notin Filled
    BY <2>1 DEF Filled
  <2>7. /\ row' * RowSize' <= bytes'
        /\ pixels' # NullArray => pixels' \in Seq(Byte) /\ Len(pixels') = bytes'
        /\ pixels' = NullArray => row' * RowSize' = 0
    BY <2>3, <2>4, <2>5
  <2> QED BY <2>6, <2>7 DEF Room, bytes
<1>8. CASE ReadRow
  <2>1. CASE pc' # "read_row"
    <3>1. pc' \in {"crashed", "out_of_bounds"}
      BY <1>8, <2>1 DEF ReadRow
    <3> QED BY <1>3, <3>1 DEF Filled
  <2>2. CASE pc' = "read_row"
    <3> DEFINE first == row * RowSize
    <3>1. /\ pc = "read_row" /\ size' = size /\ row' = row + 1
          /\ ~(RowSize > 0 /\ pixels = NullArray)
          /\ ~(first + RowSize > bytes)
          /\ RowSize = 0 => pixels' = pixels
          /\ RowSize # 0 => DOMAIN pixels' = DOMAIN pixels
      BY <1>8, <2>2 DEF ReadRow
    <3>2. bytes \in Nat /\ RowSize \in Nat /\ row \in Nat
      BY <1>1, SizesNat DEF TypeOK
    <3>3. RowSize' = RowSize /\ bytes' = bytes
      BY <3>1 DEF RowSize
    <3>4. row' * RowSize' = first + RowSize /\ first \in Nat
      BY <3>1, <3>2, <3>3
    <3> HIDE DEF first, bytes
    <3>5. row' * RowSize' <= bytes'
      BY <3>1, <3>2, <3>3, <3>4
    <3>6. CASE RowSize = 0
      <4>1. first = 0
        BY <3>2, <3>6 DEF first
      <4>2. pixels # NullArray => pixels \in Seq(Byte) /\ Len(pixels) = bytes
        BY <1>1, <3>1 DEF Room, bytes
      <4> QED BY <2>2, <3>1, <3>3, <3>4, <3>5, <3>6, <4>1, <4>2 DEF Room, Filled, bytes
    <3>7. CASE RowSize # 0
      <4>1. pixels # NullArray
        BY <3>1, <3>2, <3>7
      <4>2. pixels \in Seq(Byte) /\ Len(pixels) = bytes
        BY <1>1, <3>1, <4>1 DEF Room, bytes
      <4>3. pixels' \in Seq(0 .. 255) \union {NullArray}
        BY TypedKept DEF Typed, TypeOK
      <4>4. pixels' # NullArray => pixels' \in Seq(Byte) /\ Len(pixels') = bytes
        BY <3>1, <3>7, <4>2, <4>3 DEF Byte
      <4>5. pixels' # NullArray
        <5>1. RowSize >= 3
          <6>1. size.width \in Nat
            BY <1>1, SizesNat
          <6> QED BY <3>7, <6>1 DEF RowSize, PixelSize
        <5>2. bytes >= 3
          BY <3>1, <3>2, <3>4, <5>1
        <5>3. DOMAIN pixels = 1 .. bytes
          BY <4>2
        <5>4. DOMAIN NullArray = 1 .. 1
          BY DEF NullArray
        <5>5. 2 \in 1 .. bytes /\ 2 \notin 1 .. 1
          BY <3>2, <5>2
        <5> QED BY <3>1, <3>7, <5>3, <5>4, <5>5
      <4> QED BY <2>2, <3>3, <3>5, <4>4, <4>5 DEF Room, Filled, bytes
    <3> QED BY <3>6, <3>7
  <2> QED BY <2>1, <2>2
<1>9. CASE ReadDone
  BY <1>2, <1>9 DEF ReadDone, image
<1>10. CASE OpenOut
  BY <1>2, <1>10 DEF OpenOut, image, Filled
<1>11. CASE AllocOutput
  BY <1>2, <1>11 DEF AllocOutput, image, Filled
<1>12. CASE FilterStep
  BY <1>2, <1>12 DEF FilterStep, image, Filled
<1>13. CASE FilterDone
  BY <1>2, <1>13 DEF FilterDone, image, Filled
<1>14. CASE Measure
  BY <1>2, <1>14 DEF Measure, image, Filled
<1>15. CASE ToBmp
  BY <1>2, <1>15 DEF ToBmp, image, Filled
<1>16. CASE Exit
  BY <1>2, <1>16 DEF Exit, image, Filled
<1>17. CASE UNCHANGED vars
  BY <1>2, <1>17 DEF vars, image
<1> QED BY <1>4, <1>5, <1>6, <1>7, <1>8, <1>9, <1>10, <1>11, <1>12, <1>13, <1>14, <1>15,
           <1>16, <1>17 DEF Next

\* Each round filters the next pixels and the other filter's result stays as it
\* is, until both have been measured.
LEMMA FilteringKept ==
  ASSUME IInv, [Next]_vars
  PROVE  Filtering'
<1>1. Typed /\ TypeOK /\ Room /\ Filtering /\ PerfOnly
  BY DEF IInv, Typed
<1>2. ASSUME size' = size PROVE Count' = Count /\ Grouped' = Grouped
  BY <1>2 DEF Count, Grouped
<1>3. ASSUME argv' = argv PROVE Perf' = Perf
  BY <1>3 DEF Perf
<1>4. ASSUME pc' \notin {"filter", "pixels", "measure", "to_bmp"} PROVE Filtering'
  BY <1>4 DEF Filtering
<1>5. CASE Main
  BY <1>4, <1>5 DEF Main
<1>6. CASE OpenIn
  BY <1>4, <1>6 DEF OpenIn
<1>7. CASE ReadHeader
  BY <1>4, <1>7 DEF ReadHeader
<1>8. CASE AllocPixelArray
  BY <1>4, <1>8 DEF AllocPixelArray
<1>9. CASE ReadRow
  BY <1>4, <1>9 DEF ReadRow
<1>10. CASE ReadDone
  <2>1. pc = "read_row" /\ argv' = argv /\ kind' = kind /\ pc' \in {"filter", "open_out"}
    BY <1>10 DEF ReadDone, file, filter
  <2>2. Perf => kind = "c"
    BY <1>1, <2>1 DEF PerfOnly
  <2> QED BY <1>3, <2>1, <2>2 DEF Filtering
<1>11. CASE OpenOut
  <2>1. pc = "open_out" /\ argv' = argv /\ pc' = "filter"
    BY <1>11 DEF OpenOut, file
  <2>2. ~Perf
    BY <1>1, <2>1 DEF PerfOnly
  <2> QED BY <1>3, <2>1, <2>2 DEF Filtering
<1>12. CASE AllocOutput
  <2> DEFINE bytes == AllocSize(size.width, size.height)
             fresh == [k \in 1 .. bytes |-> Unset]
  <2>1. /\ pc = "filter" /\ pc' = "pixels" /\ index' = 0
        /\ \/ results' = [results EXCEPT ![kind] = fresh]
           \/ results' = [results EXCEPT ![kind] = NullArray]
        /\ UNCHANGED <<size, pixels, argv, err, kind>>
    BY <1>12 DEF AllocOutput, file, image
  <2>2. /\ Count \in Nat /\ results \in [{"c", "sse"} -> Seq(Unset .. 255)]
        /\ kind \in {"c", "sse"} /\ bytes = Count * PixelSize /\ FieldMod \in Nat
    <3>1. pc \in Filled
      BY <2>1 DEF Filled
    <3> QED BY <1>1, <3>1, SizesNat, FilledArray, WordsAssumption DEF Typed, TypeOK
  <2>3. Slots(kind, fresh, pixels, err, Count, 0)
    <3>1. fresh \in [1 .. bytes -> Unset .. 255] /\ bytes \in Nat
      BY <2>2 DEF Unset, PixelSize
    <3>2. fresh \in Seq(Unset .. 255) /\ Len(fresh) = bytes
      <4> HIDE DEF fresh, bytes
      <4> QED BY ONLY <3>1, AsSequence, ZenonT(60)
    <3>3. ASSUME NEW t \in 0 .. Count - 1, NEW n \in 1 .. 3
          PROVE  fresh[t * PixelSize + n] = Unset
      <4>1. t * PixelSize + n \in 1 .. bytes
        BY <2>2 DEF PixelSize
      <4> HIDE DEF bytes
      <4> QED BY <4>1
    <3>4. \A t \in 0 .. Count - 1 : ~(t < 0)
      BY <2>2
    <3> HIDE DEF fresh, bytes
    <3> QED BY <2>2, <3>2, <3>3, <3>4 DEF Slots
  <2>4. results'[kind] = fresh \/ results'[kind] = NullArray
    <3> HIDE DEF fresh
    <3> QED BY <2>1, <2>2
  <2>5. kind = "sse" => results'["c"] = results["c"]
    <3> HIDE DEF fresh
    <3> QED BY <2>1, <2>2
  <2> HIDE DEF fresh
  <2>6. IF results'[kind] = NullArray THEN index' = 0
        ELSE Slots(kind, results'[kind], pixels, err, Count, index')
    BY <2>1, <2>3, <2>4
  <2>7. (Perf /\ kind = "sse" /\ Count > 0) =>
          Slots("c", results'["c"], pixels, err, Count, Count)
    BY <1>1, <2>1, <2>5 DEF Filtering
  <2>8. index' % 4 = 0
    BY <2>1
  <2> QED BY <1>2, <1>3, <2>1, <2>6, <2>7, <2>8 DEF Filtering
<1>13. CASE FilterStep
  <2>1. CASE results[kind] = NullArray
    BY <1>4, <1>13, <2>1 DEF FilterStep
  <2>2. CASE results[kind] # NullArray
    <3>1. /\ pc = "pixels" /\ pc' = "pixels" /\ UNCHANGED <<size, pixels, argv, err, kind>>
      BY <1>13, <2>2 DEF FilterStep, file, image
    <3>2. /\ kind = "sse" => index' % 4 = 0 \/ index' >= Grouped
          /\ results' = [results EXCEPT ![kind] = results'[kind]]
          /\ Slots(kind, results'[kind], pixels, err, Count, index')
      BY <1>13, <2>2, FilterRound
    <3>3. kind = "sse" => results'["c"] = results["c"]
      BY <1>1, <3>2 DEF TypeOK
    <3>4. (Perf /\ kind = "sse" /\ Count > 0) =>
            Slots("c", results'["c"], pixels, err, Count, Count)
      BY <1>1, <3>1, <3>3 DEF Filtering
    <3>5. results'[kind] # NullArray
      <4>1. Len(results'[kind]) = Count * PixelSize /\ Count \in Nat
        BY <1>1, <3>2, SizesNat DEF Slots
      <4>2. Len(NullArray) = 1
        BY DEF NullArray
      <4>3. \A n \in Nat : n * PixelSize # 1
        BY DEF PixelSize
      <4>4. Count * PixelSize # 1
        BY <4>1, <4>3
      <4> QED BY ONLY <4>1, <4>2, <4>4, Zenon
    <3> QED BY <1>2, <1>3, <3>1, <3>2, <3>4, <3>5 DEF Filtering
  <2> QED BY <2>1, <2>2
<1>14. CASE FilterDone
  <2>1. /\ pc = "pixels" /\ index >= Count /\ pc' \in {"measure", "to_bmp"}
        /\ UNCHANGED <<size, pixels, argv, err, kind, index, results>>
    BY <1>14 DEF FilterDone, file, image, filter
  <2>2. Count \in Nat /\ index = Count
    BY <1>1, <2>1, SizesNat DEF TypeOK
  <2>3. Count > 0 => Slots(kind, results[kind], pixels, err, Count, Count)
    BY <1>1, <2>1, <2>2 DEF Filtering
  <2>4. (Perf /\ kind = "sse" /\ Count > 0) => Slots("c", results["c"], pixels, err, Count, Count)
    BY <1>1, <2>1 DEF Filtering
  <2> QED BY <1>2, <1>3, <2>1, <2>3, <2>4 DEF Filtering
<1>15. CASE Measure
  <2>1. /\ pc = "measure" /\ pc' \in {"filter", "free"}
        /\ UNCHANGED <<size, pixels, argv, err, results>>
        /\ kind' = "sse" => kind = "c"
    <3>1. kind = "c" \/ (kind # "c" /\ kind' = "c")
      BY <1>15 DEF Measure
    <3> QED BY <1>15, <3>1 DEF Measure, file, image
  <2>2. kind' = "sse" /\ Count > 0 => Slots("c", results["c"], pixels, err, Count, Count)
    BY <1>1, <2>1 DEF Filtering
  <2> QED BY <1>2, <1>3, <2>1, <2>2 DEF Filtering
<1>16. CASE ToBmp
  BY <1>4, <1>16 DEF ToBmp
<1>17. CASE Exit
  BY <1>4, <1>17 DEF Exit
<1>18. CASE UNCHANGED vars
  <2>1. UNCHANGED <<pc, size, pixels, argv, err, kind, index, results>>
    BY <1>18 DEF vars, file, image, filter
  <2> QED BY <1>1, <1>2, <1>3, <2>1 DEF Filtering
<1> QED BY <1>5, <1>6, <1>7, <1>8, <1>9, <1>10, <1>11, <1>12, <1>13, <1>14, <1>15,
           <1>16, <1>17, <1>18 DEF Next

\* The argument vector decides which way a run takes, and never changes.
LEMMA PerfOnlyKept ==
  ASSUME IInv, [Next]_vars
  PROVE  PerfOnly'
<1>1. PerfOnly /\ Typed
  BY DEF IInv
<1>2. ASSUME argv' = argv PROVE Perf' = Perf /\ Sse' = Sse
  BY <1>2 DEF Perf, Sse
<1>3. argv' = argv
  BY DEF Next, Main, OpenIn, ReadHeader, AllocPixelArray, ReadRow, ReadDone, OpenOut, AllocOutput,
         FilterStep, FilterDone, Measure, ToBmp, Exit, file, vars
<1>4. CASE Main
  <2>1. Perf => ~Sse
    BY DEF Perf, Sse
  <2> QED BY <1>2, <1>3, <1>4, <2>1 DEF Main, PerfOnly
<1>5. CASE OpenIn
  BY <1>1, <1>2, <1>3, <1>5 DEF OpenIn, PerfOnly, filter
<1>6. CASE ReadHeader
  BY <1>1, <1>2, <1>3, <1>6 DEF ReadHeader, PerfOnly, filter
<1>7. CASE AllocPixelArray
  BY <1>1, <1>2, <1>3, <1>7 DEF AllocPixelArray, PerfOnly, filter
<1>8. CASE ReadRow
  <2>1. pc = "read_row" /\ pc' \in {"read_row", "crashed", "out_of_bounds"} /\ kind' = kind
    BY <1>8 DEF ReadRow, filter
  <2> QED BY <1>1, <1>2, <1>3, <2>1 DEF PerfOnly
<1>9. CASE ReadDone
  BY <1>1, <1>2, <1>3, <1>9 DEF ReadDone, PerfOnly, filter
<1>10. CASE OpenOut
  BY <1>1, <1>2, <1>3, <1>10 DEF OpenOut, PerfOnly, filter
<1>11. CASE AllocOutput
  BY <1>1, <1>2, <1>3, <1>11 DEF AllocOutput, PerfOnly, filter
<1>12. CASE FilterStep
  <2>1. pc' \in {"pixels", "crashed"}
    BY <1>12 DEF FilterStep
  <2> QED BY <2>1 DEF PerfOnly
<1>13. CASE FilterDone
  BY <1>1, <1>2, <1>3, <1>13 DEF FilterDone, PerfOnly, filter
<1>14. CASE Measure
  <2>1. pc' \in {"filter", "free"}
    BY <1>14 DEF Measure
  <2> QED BY <2>1 DEF PerfOnly
<1>15. CASE ToBmp
  <2>1. pc' \in {"free", "crashed"}
    BY <1>15 DEF ToBmp
  <2> QED BY <2>1 DEF PerfOnly
<1>16. CASE Exit
  BY <1>16 DEF Exit, PerfOnly
<1>17. CASE UNCHANGED vars
  BY <1>1, <1>2, <1>3, <1>17 DEF vars, PerfOnly, filter
<1> QED BY <1>4, <1>5, <1>6, <1>7, <1>8, <1>9, <1>10, <1>11, <1>12, <1>13, <1>14, <1>15,
           <1>16, <1>17 DEF Next

\* What has been written is not changed by what follows.
LEMMA OutputWrittenKept ==
  ASSUME IInv, [Next]_vars
  PROVE  OutputWritten'
<1>1. Typed /\ OutputWritten /\ PerfOnly
  BY DEF IInv
<1>2. ASSUME pc' \notin {"free", "done"} PROVE OutputWritten'
  BY <1>2 DEF OutputWritten
<1>3. ASSUME argv' = argv PROVE Perf' = Perf
  BY <1>3 DEF Perf
<1>4. ASSUME UNCHANGED <<size, kind, results>>
      PROVE  /\ SepiaHeader(size.width, size.height)' = SepiaHeader(size.width, size.height)
             /\ Raster(results[kind])' = Raster(results[kind])
  BY <1>4 DEF Raster, RowSize
<1>5. CASE Main \/ OpenIn \/ ReadHeader \/ AllocPixelArray \/ ReadRow \/ ReadDone \/ OpenOut
           \/ AllocOutput \/ FilterStep \/ FilterDone
  <2>1. pc' \notin {"free", "done"}
    <3>1. CASE ReadRow
      BY <3>1 DEF ReadRow
    <3>2. CASE FilterStep
      BY <3>2 DEF FilterStep
    <3>3. CASE ~ReadRow /\ ~FilterStep
      BY <1>5, <3>3 DEF Main, OpenIn, ReadHeader, AllocPixelArray, ReadDone, OpenOut,
                        AllocOutput, FilterDone
    <3> QED BY <3>1, <3>2, <3>3
  <2> QED BY <1>2, <2>1
<1>6. CASE Measure
  <2>1. Perf /\ argv' = argv
    BY <1>1, <1>6 DEF PerfOnly, Measure, file
  <2> QED BY <1>3, <2>1 DEF OutputWritten
<1>7. CASE ToBmp
  <2>1. UNCHANGED <<size, kind, results>>
    BY <1>7 DEF ToBmp, image, filter
  <2>2. \/ pc' = "crashed"
        \/ out' = [headers |-> <<SepiaHeader(size.width, size.height)>>,
                    body |-> Raster(results[kind])]
        \/ failed' = failed \union {"write"}
    BY <1>7 DEF ToBmp
  <2> QED BY <1>2, <1>4, <2>1, <2>2 DEF OutputWritten
<1>8. CASE Exit
  <2>1. pc = "free" /\ UNCHANGED <<size, kind, results, argv, out, failed>>
    BY <1>8 DEF Exit, file, image, filter
  <2> QED BY <1>1, <1>3, <1>4, <2>1 DEF OutputWritten
<1>9. CASE UNCHANGED vars
  <2>1. UNCHANGED <<pc, size, kind, results, argv, out, failed>>
    BY <1>9 DEF vars, file, image, filter
  <2> QED BY <1>1, <1>3, <1>4, <2>1 DEF OutputWritten
<1> QED BY <1>5, <1>6, <1>7, <1>8, <1>9 DEF Next

\* Outside perf_counter there are only the two images of make_sepia.
LEMMA ImagesKept ==
  ASSUME IInv, [Next]_vars
  PROVE  Images'
<1>1. Typed /\ Images /\ PerfOnly
  BY DEF IInv
<1>2. argv' = argv
  BY DEF Next, Main, OpenIn, ReadHeader, AllocPixelArray, ReadRow, ReadDone, OpenOut, AllocOutput,
         FilterStep, FilterDone, Measure, ToBmp, Exit, file, vars
<1>3. Perf' = Perf
  BY <1>2 DEF Perf
<1>4. ASSUME UNCHANGED <<kind, test, live>>, pc' # "done" \/ pc' = pc,
             pc' \in {"main", "usage"} => pc' = pc \/ pc = "main",
             pc \in {"main", "usage"} => pc' = pc \/ pc' = "usage"
      PROVE  Images'
  BY <1>1, <1>3, <1>4 DEF Images, ImagesFreed
<1>5. CASE Main
  <2>1. pc = "main" /\ live' = live /\ test' = test /\ pc' \in {"usage", "open_in"}
    BY <1>5 DEF Main, perf
  <2>2. live = {} /\ test = 0
    BY <1>1, <2>1 DEF Images, Typed, Early
  <2> QED BY <2>1, <2>2 DEF Images, ImagesFreed
<1>6. CASE OpenIn
  <2>1. /\ pc = "open_in" /\ pc' \in {"header", "crashed"} /\ test' = test
        /\ kind' = kind /\ (live' = {Original} \/ live' = live)
    BY <1>6 DEF OpenIn, perf, filter
  <2> QED BY <1>1, <1>3, <2>1 DEF Images, ImagesFreed
<1>7. CASE ReadHeader
  BY <1>4, <1>7 DEF ReadHeader, filter, perf
<1>8. CASE AllocPixelArray
  BY <1>4, <1>8 DEF AllocPixelArray, filter, perf
<1>9. CASE ReadRow
  <2>1. /\ pc = "read_row" /\ pc' \in {"read_row", "crashed", "out_of_bounds"}
        /\ UNCHANGED <<kind, test, live>>
    BY <1>9 DEF ReadRow, filter, perf
  <2> QED BY <1>4, <2>1
<1>10. CASE ReadDone
  BY <1>4, <1>10 DEF ReadDone, filter, perf
<1>11. CASE OpenOut
  BY <1>4, <1>11 DEF OpenOut, filter, perf
<1>12. CASE AllocOutput
  <2>1. /\ pc = "filter" /\ pc' = "pixels" /\ kind' = kind /\ test' = test
        /\ live' = live \union {<<kind, test>>}
    BY <1>12 DEF AllocOutput, perf
  <2> QED BY <1>1, <1>3, <2>1 DEF Images, ImagesFreed
<1>13. CASE FilterStep
  <2>1. /\ pc = "pixels" /\ pc' \in {"pixels", "crashed"} /\ UNCHANGED <<kind, test, live>>
    BY <1>13 DEF FilterStep, perf
  <2> QED BY <1>4, <2>1
<1>14. CASE FilterDone
  BY <1>4, <1>14 DEF FilterDone, filter, perf
<1>15. CASE Measure
  <2>1. Perf /\ pc' \in {"filter", "free"}
    BY <1>1, <1>15 DEF Measure, PerfOnly
  <2> QED BY <1>3, <2>1 DEF Images, ImagesFreed
<1>16. CASE ToBmp
  <2>1. pc = "to_bmp" /\ pc' \in {"free", "crashed"} /\ UNCHANGED <<kind, test, live>>
    BY <1>16 DEF ToBmp, filter, perf
  <2> QED BY <1>4, <2>1
<1>17. CASE Exit
  <2>1. pc = "free" /\ pc' = "done" /\ live' = live \ Freed /\ kind' = kind /\ test' = test
    BY <1>17 DEF Exit, filter, perf
  <2>2. ~Perf => test = 0 /\ live \subseteq {Original, <<kind, 0>>}
    BY <1>1, <2>1 DEF Images
  <2>3. IF Perf THEN Freed = {Original} ELSE Freed = {Original, <<kind, test>>}
    BY DEF Freed
  <2> QED BY <1>3, <2>1, <2>2, <2>3 DEF Images, ImagesFreed
<1>18. CASE UNCHANGED vars
  BY <1>4, <1>18 DEF vars, filter, perf
<1> QED BY <1>5, <1>6, <1>7, <1>8, <1>9, <1>10, <1>11, <1>12, <1>13, <1>14, <1>15,
           <1>16, <1>17, <1>18 DEF Next

\* The invariant holds in every run.
THEOREM Invariance == Spec => []IInv
<1>1. IInv /\ [Next]_vars => IInv'
  <2> SUFFICES ASSUME IInv, [Next]_vars PROVE IInv'
    OBVIOUS
  <2> QED BY TypedKept, SizesReadKept, RoomKept, FilteringKept, PerfOnlyKept, OutputWrittenKept,
             ImagesKept DEF IInv
<1> QED BY InitInv, <1>1, PTL DEF Spec

-----------------------------------------------------------------------------
(* The file that is written.                                               *)

\* A number cut to a machine word and then to 32 bits.
LEMMA RemainderTwice ==
  ASSUME NEW x \in Nat
  PROVE  (x % WordMod) % FieldMod = x % FieldMod
<1>1. FieldMod \in Nat \ {0} /\ WordMod \in Nat \ {0} /\ WordMod % FieldMod = 0
  BY WordsAssumption, PowersOfTwo
<1>2. PICK c \in Nat : WordMod = c * FieldMod
  <2>1. /\ WordMod \div FieldMod \in Nat
        /\ WordMod = (WordMod \div FieldMod) * FieldMod + (WordMod % FieldMod)
    BY <1>1, RemainderBelow, Zenon
  <2>2. PICK q \in Nat : q = WordMod \div FieldMod
    BY <2>1
  <2>3. q * FieldMod \in Nat
    BY <1>1
  <2>4. WordMod = q * FieldMod
    BY <1>1, <2>1, <2>2, <2>3
  <2> QED BY <2>4
<1>3. PICK q \in Nat, r \in 0 .. WordMod - 1 : r = x % WordMod /\ x = q * WordMod + r
  <2>1. /\ x \div WordMod \in Nat /\ x % WordMod \in 0 .. WordMod - 1
        /\ x = (x \div WordMod) * WordMod + (x % WordMod)
    BY <1>1, RemainderBelow, Zenon
  <2> QED BY <2>1
<1>4. PICK k \in Nat, l \in 0 .. FieldMod - 1 : l = r % FieldMod /\ r = k * FieldMod + l
  <2>1. r \in Nat
    OBVIOUS
  <2>2. /\ r \div FieldMod \in Nat /\ r % FieldMod \in 0 .. FieldMod - 1
        /\ r = (r \div FieldMod) * FieldMod + (r % FieldMod)
    BY <1>1, <2>1, RemainderBelow, Zenon
  <2> QED BY <2>2
<1>5. x = (q * c + k) * FieldMod + l
  <2>1. q * WordMod = (q * c) * FieldMod /\ q * c \in Nat
    BY <1>1, <1>2
  <2>2. (q * c + k) * FieldMod = (q * c) * FieldMod + k * FieldMod
    BY <1>1, <2>1
  <2>3. (q * c) * FieldMod \in Nat /\ k * FieldMod \in Nat /\ l \in Nat
    BY <1>1, <2>1
  <2> QED BY <1>3, <1>4, <2>1, <2>2, <2>3
<1>6. q * c + k \in Nat
  BY <1>2
<1>7. ((q * c + k) * FieldMod + l) % FieldMod = l
  BY <1>1, <1>6, IndexSplits, Zenon
<1> QED BY <1>3, <1>4, <1>5, <1>7

\* The header of the sepia filter says what it is about, and the length of the
\* raster.
LEMMA SepiaHeaderAgrees ==
  ASSUME NEW w \in Nat, NEW h \in Nat,
         NEW bytes \in Nat, bytes = (PixelSize * w + GetPadding(w)) * h
  PROVE  /\ SizesAgree(SepiaHeader(w, h))
         /\ SepiaHeader(w, h).biSizeImage = bytes % FieldMod
<1> DEFINE cut == bytes % WordMod
           header == SepiaHeader(w, h)
<1>1. /\ header.bfileSize = (cut + HeaderBytes) % FieldMod
      /\ header.bOffBits = HeaderBytes
      /\ header.biSizeImage = cut % FieldMod
  BY DEF SepiaHeader
<1>2. cut % FieldMod = bytes % FieldMod
  BY RemainderTwice
<1>3. cut \in Nat /\ FieldMod \in Nat \ {0}
  BY WordsAssumption
<1> HIDE DEF cut, header
<1>4. (HeaderBytes + (cut % FieldMod)) % FieldMod = (HeaderBytes + cut) % FieldMod
  BY <1>3, RemainderOfSum DEF HeaderBytes
<1>5. HeaderBytes + cut = cut + HeaderBytes
  BY <1>3 DEF HeaderBytes
<1> QED BY <1>1, <1>2, <1>4, <1>5 DEF SizesAgree, header

\* The bytes of pixel i of an array.
PixelIn(array, i) ==
  <<array[i * PixelSize + 1], array[i * PixelSize + 2], array[i * PixelSize + 3]>>

\* Pixel i of an image is that of an array.
SamePixels(picture, array, i) == picture.pixels[i] = PixelIn(array, i)

\* Raster as an operator of its values.
RasterOf(array, w, h, stride) ==
  [k \in 1 .. stride * h |->
     LET r == (k - 1) \div stride
         at == (k - 1) % stride
     IN IF at < w * PixelSize THEN array[r * (w * PixelSize) + at + 1] ELSE 0]

\* The pixels that are read from a raster are those of the array.
LEMMA RasterPixel ==
  ASSUME NEW array, NEW w \in Nat, NEW h \in Nat, NEW stride \in Nat \ {0},
         w * PixelSize <= stride, NEW body, body = RasterOf(array, w, h, stride),
         NEW i \in 0 .. w * h - 1
  PROVE  SamePixels(ImageAt(body, w, h, stride), array, i)
<1>1. w > 0
  <2>1. CASE w = 0
    <3>1. w * h = 0
      BY <2>1
    <3> QED BY <3>1
  <2> QED BY <2>1
<1>2. PICK r \in Nat, j \in 0 .. w - 1 :
        r = i \div w /\ j = i % w /\ i = r * w + j
  <2>1. w \in Nat \ {0} /\ i \in Nat
    BY <1>1
  <2>2. /\ i \div w \in Nat /\ i % w \in 0 .. w - 1
        /\ i = (i \div w) * w + (i % w)
    BY <2>1, RemainderBelow, Zenon
  <2> QED BY <2>2
<1>3. r \in 0 .. h - 1
  <2>1. CASE r >= h
    <3> DEFINE before == r * w
               all == h * w
    <3>1. all <= before /\ all \in Nat /\ before \in Nat
      BY <2>1, ProductGrows
    <3>2. i < all
      OBVIOUS
    <3>3. i = before + j
      BY <1>2
    <3> HIDE DEF before, all
    <3> QED BY <3>1, <3>2, <3>3
  <2> QED BY <2>1
<1> DEFINE at == r * stride + j * PixelSize
<1>4. ImageAt(body, w, h, stride).pixels[i] = [c \in 1 .. PixelSize |-> body[at + c]]
  <2> DEFINE place(k) == (k \div w) * stride + (k % w) * PixelSize
             pixel(k) == [c \in 1 .. PixelSize |-> body[place(k) + c]]
  <2>1. ImageAt(body, w, h, stride).pixels = [k \in 0 .. w * h - 1 |-> pixel(k)]
    BY DEF ImageAt
  <2>2. place(i) = at
    BY <1>2
  <2> HIDE DEF pixel
  <2>3. ImageAt(body, w, h, stride).pixels[i] = pixel(i)
    BY <2>1
  <2> HIDE DEF place, at
  <2> QED BY <2>2, <2>3 DEF pixel
<1>5. ASSUME NEW c \in 1 .. 3 PROVE body[at + c] = array[i * PixelSize + c]
  <2> DEFINE l == j * PixelSize + c - 1
             start == r * stride
             k == start + l
  <2>1. l \in 0 .. w * PixelSize - 1 /\ l \in 0 .. stride - 1
    BY DEF PixelSize
  <2>2. start \in Nat /\ start + stride <= h * stride
    BY <1>3, RowEnds
  <2>3. stride * h = h * stride /\ h * stride \in Nat
    OBVIOUS
  <2>4. at + c = k + 1
    <3>1. at = start + j * PixelSize
      OBVIOUS
    <3> HIDE DEF start, at
    <3> QED BY <2>2, <3>1 DEF PixelSize
  <2>5. k + 1 \in 1 .. stride * h
    <3> DEFINE end == h * stride
    <3> HIDE DEF start, l, end
    <3>1. k + 1 \in 1 .. end
      BY <2>1, <2>2, <2>3 DEF end
    <3> QED BY <2>3, <3>1 DEF end
  <2>6. k \div stride = r /\ k % stride = l
    <3> HIDE DEF l
    <3> QED BY <2>1, IndexSplits, Zenon DEF k, start
  <2>7. k \in Nat /\ k + 1 - 1 = k
    <3> HIDE DEF start, l
    <3> QED BY <2>1, <2>2
  <2> HIDE DEF k
  <2>8. body[k + 1] = array[r * (w * PixelSize) + l + 1]
    <3> DEFINE cell(n) == LET q == (n - 1) \div stride
                              m == (n - 1) % stride
                          IN IF m < w * PixelSize THEN array[q * (w * PixelSize) + m + 1] ELSE 0
    <3>1. body = [n \in 1 .. stride * h |-> cell(n)]
      BY DEF RasterOf
    <3>2. l < w * PixelSize
      BY <2>1 DEF PixelSize
    <3>3. cell(k + 1) = array[r * (w * PixelSize) + l + 1]
      <4> HIDE DEF l
      <4> QED BY ONLY <2>6, <2>7, <3>2 DEF cell
    <3> HIDE DEF cell, l
    <3>4. body[k + 1] = cell(k + 1)
      BY ONLY <2>5, <3>1
    <3> QED BY <3>3, <3>4
  <2>9. r * (w * PixelSize) + l + 1 = i * PixelSize + c
    <3> DEFINE before == r * w
    <3>1. r * (w * PixelSize) = before * PixelSize /\ before \in Nat
      BY DEF PixelSize
    <3>2. i = before + j
      BY <1>2
    <3> HIDE DEF before
    <3> QED BY <3>1, <3>2 DEF PixelSize
  <2> QED BY <2>4, <2>8, <2>9
<1>6. PixelSize = 3
  BY DEF PixelSize
<1> HIDE DEF at
<1>7. [c \in 1 .. 3 |-> body[at + c]] = <<body[at + 1], body[at + 2], body[at + 3]>>
  <2>1. ASSUME NEW f, DOMAIN f = 1 .. 3, f = [c \in DOMAIN f |-> f[c]]
        PROVE  f = <<f[1], f[2], f[3]>>
    BY ONLY <2>1
  <2> DEFINE f == [c \in 1 .. 3 |-> body[at + c]]
  <2>2. DOMAIN f = 1 .. 3 /\ f = [c \in DOMAIN f |-> f[c]]
    OBVIOUS
  <2>3. f[1] = body[at + 1] /\ f[2] = body[at + 2] /\ f[3] = body[at + 3]
    OBVIOUS
  <2> HIDE DEF f
  <2>4. f = <<f[1], f[2], f[3]>>
    BY <2>1, <2>2
  <2> QED BY <2>3, <2>4 DEF f
<1>8. /\ body[at + 1] = array[i * PixelSize + 1] /\ body[at + 2] = array[i * PixelSize + 2]
      /\ body[at + 3] = array[i * PixelSize + 3]
  BY <1>5
<1>9. ImageAt(body, w, h, stride).pixels[i] =
        <<array[i * PixelSize + 1], array[i * PixelSize + 2], array[i * PixelSize + 3]>>
  BY ONLY <1>4, <1>6, <1>7, <1>8
<1> QED BY <1>9 DEF SamePixels, PixelIn

-----------------------------------------------------------------------------
(* The properties.                                                         *)

\* The variables of the program keep their types; in particular no value is
\* stored that is not a byte, and no round writes behind the last pixel.
THEOREM TypeCorrectness == Spec => []TypeOK
<1>1. IInv => TypeOK
  BY DEF IInv, Typed
<1> QED BY Invariance, <1>1, PTL

\* Both filters, for every size of picture whose pixels a 32 bit index reaches:
\* each channel is the product of the sepia matrix and its own pixel, to within
\* one, whether it was made alone or in a group of four.
THEOREM PixelsFiltered == Spec => []EveryPixelFiltered
<1>1. IInv => EveryPixelFiltered
  <2> SUFFICES ASSUME IInv, pc \in {"measure", "to_bmp"}, Indexable,
                      NEW i \in 0 .. Count - 1, NEW n \in 1 .. 3
               PROVE  Distance(One * results[kind][PixelSize * i + n],
                               Exact(PixelOf(pixels, i), n)) <= One
    BY DEF EveryPixelFiltered
  <2> DEFINE p == PixelOf(pixels, i)
             v == results[kind][i * PixelSize + n]
  <2>1. Typed /\ Room /\ Count \in Nat /\ Count > 0 /\ err \in Errors
    BY SizesNat DEF IInv, Typed
  <2>2. pixels \in Seq(Byte) /\ Len(pixels) = Count * PixelSize
    BY <2>1, FilledArray DEF Filled
  <2>3. p[1] \in Byte /\ p[2] \in Byte /\ p[3] \in Byte
    <3> HIDE DEF p
    <3> QED BY ONLY <2>1, <2>2, i \in 0 .. Count - 1, PixelBytes DEF p
  <2>4. i < Count /\ i < FieldMod
    BY <2>1, WordsAssumption DEF Indexable
  <2>5. v \in ChannelValues(kind, p, n, err)
    <3>1. Slots(kind, results[kind], pixels, err, Count, Count)
      BY <2>1 DEF IInv, Filtering
    <3> QED BY <2>4, <3>1 DEF Slots
  <2>6. PixelSize * i + n = i * PixelSize + n
    BY <2>1 DEF PixelSize
  <2> HIDE DEF p, v
  <2>7. Distance(One * v, Exact(p, n)) <= One
    BY ONLY <2>1, <2>3, <2>5, n \in 1 .. 3, ChannelValue, Zenon
  <2> QED BY <2>6, <2>7 DEF p, v
<1> QED BY Invariance, <1>1, PTL

\* README.md's claim on the two filters: on the same picture their results
\* differ by one in a channel at most, the bytes nobody writes included.
THEOREM FiltersAgree == Spec => []SseLikeC
<1>1. IInv => SseLikeC
  <2> SUFFICES ASSUME IInv, pc = "measure", kind = "sse", NEW k \in 1 .. PixelSize * Count
               PROVE  Distance(results["c"][k], results["sse"][k]) <= 1
    BY DEF SseLikeC
  <2>1. Typed /\ Room /\ Count \in Nat /\ err \in Errors /\ FieldMod \in Nat
    BY SizesNat, WordsAssumption DEF IInv, Typed
  <2>2. PICK t \in 0 .. Count - 1, n \in 1 .. 3 : k = t * PixelSize + n
    <3>1. /\ (k - 1) \div 3 \in 0 .. Count - 1 /\ ((k - 1) % 3) + 1 \in 1 .. 3
          /\ k = ((k - 1) \div 3) * 3 + (((k - 1) % 3) + 1)
      BY <2>1 DEF PixelSize
    <3> QED BY <3>1 DEF PixelSize
  <2>3. Count > 0
    BY <2>1
  <2> DEFINE p == PixelOf(pixels, t)
             c == results["c"][t * PixelSize + n]
             v == results["sse"][t * PixelSize + n]
  <2>4. p[1] \in Byte /\ p[2] \in Byte /\ p[3] \in Byte
    <3>1. pixels \in Seq(Byte) /\ Len(pixels) = Count * PixelSize
      BY <2>1, <2>3, FilledArray DEF Filled
    <3> HIDE DEF p
    <3> QED BY ONLY <2>1, <3>1, t \in 0 .. Count - 1, PixelBytes DEF p
  <2>5. /\ Slots("c", results["c"], pixels, err, Count, Count)
        /\ Slots("sse", results["sse"], pixels, err, Count, Count)
    BY <2>3 DEF IInv, Filtering, PerfOnly
  <2>6. CASE t < FieldMod
    <3>1. c \in ChannelValues("c", p, n, err) /\ v \in ChannelValues("sse", p, n, err)
      <4>1. t < Count
        BY <2>1
      <4>2. c \in ChannelValues("c", p, n, err)
        BY <2>5, <2>6, <4>1 DEF Slots
      <4>3. v \in ChannelValues("sse", p, n, err)
        BY <2>5, <2>6, <4>1 DEF Slots
      <4> QED BY <4>2, <4>3
    <3> HIDE DEF p, c, v
    <3>2. Distance(c, v) <= 1
      BY ONLY <2>1, <2>4, <3>1, n \in 1 .. 3, ChannelValue, Zenon
    <3> QED BY <2>2, <3>2 DEF c, v
  <2>7. CASE ~(t < FieldMod)
    <3>1. c = Unset /\ v = Unset
      BY <2>5, <2>7 DEF Slots
    <3> QED BY <2>2, <3>1 DEF Distance, Unset
  <2> QED BY <2>6, <2>7
<1> QED BY Invariance, <1>1, PTL

\* When every call of a run succeeds, the file written is a BMP of the size of
\* the source, its raster as long as its header says, that holds the filtered
\* pixels.
THEOREM OutputCorrect == Spec => []OutputIsPicture
<1>1. IInv => OutputIsPicture
  <2> SUFFICES ASSUME IInv, pc = "done", ~Perf, failed = {}
               PROVE  OutputIsPicture
    BY DEF OutputIsPicture
  <2> DEFINE w == size.width
             h == size.height
             array == results[kind]
             stride == Stride(w)
             bytes == (PixelSize * w + GetPadding(w)) * h
  <2>1. Typed /\ size = [width |-> input.width, height |-> input.height]
        /\ out = [headers |-> <<SepiaHeader(w, h)>>, body |-> Raster(array)]
    BY DEF IInv, SizesRead, OutputWritten, Filled
  <2>2. input.width = w /\ input.height = h
    BY <2>1
  <2>3. w \in Nat /\ h \in Nat /\ Count = w * h /\ RowSize = w * PixelSize
    BY <2>1, SizesNat DEF Count, RowSize
  <2>4. stride \in Nat \ {0} /\ stride * h = bytes /\ bytes \in Nat /\ RowSize <= stride
    <3>1. GetPadding(w) \in 1 .. PADDING /\ RowSize \in Nat /\ stride = RowSize + GetPadding(w)
      <4>1. GetPadding(w) \in 1 .. PADDING
        BY <2>3, PaddingBounds
      <4>2. RowSize \in Nat
        BY <2>1, SizesNat
      <4> QED BY <2>3, <4>1, <4>2 DEF Stride
    <3>2. bytes = stride * h
      BY <2>3 DEF Stride, PixelSize
    <3>3. stride \in Nat \ {0} /\ RowSize <= stride
      <4> HIDE DEF stride
      <4> QED BY <3>1 DEF PADDING
    <3> HIDE DEF stride, bytes
    <3>4. stride * h \in Nat
      BY <2>3, <3>3
    <3> QED BY <3>2, <3>3, <3>4
  <2>5. Raster(array) = [k \in 1 .. bytes |->
                           LET r == (k - 1) \div stride
                               at == (k - 1) % stride
                           IN IF at < RowSize THEN array[r * RowSize + at + 1] ELSE 0]
    <3>1. Stride(size.width) * size.height = bytes
      BY <2>4
    <3> HIDE DEF bytes
    <3> QED BY <3>1 DEF Raster
  <2>6. Len(Raster(array)) = bytes
    <3> HIDE DEF bytes, stride, array
    <3> QED BY <2>4, <2>5
  <2>7. /\ SizesAgree(SepiaHeader(w, h))
        /\ SepiaHeader(w, h).biSizeImage = bytes % FieldMod
    BY <2>3, <2>4, SepiaHeaderAgrees
  <2>8. ASSUME NEW i \in 0 .. Count - 1
        PROVE  \/ ImageAt(Raster(array), w, h, stride).pixels[i] = PixelOf(array, i)
               \/ ~Indexable
    <3> SUFFICES ASSUME Indexable
                 PROVE  ImageAt(Raster(array), w, h, stride).pixels[i] = PixelOf(array, i)
      OBVIOUS
    <3>1. Count <= FieldMod /\ Count \in Nat /\ FieldMod \in Nat \ {0}
      BY <2>1, SizesNat, WordsAssumption DEF Indexable
    <3>2. Raster(array) = RasterOf(array, w, h, stride)
      BY <2>3, <2>4, <2>5 DEF RasterOf
    <3>3. i \in 0 .. w * h - 1
      BY <2>3
    <3>4. w * PixelSize <= stride
      BY <2>3, <2>4
    <3> DEFINE body == Raster(array)
    <3> HIDE DEF body, stride, array
    <3>5. SamePixels(ImageAt(body, w, h, stride), array, i)
      <4>1. body = RasterOf(array, w, h, stride)
        BY <3>2 DEF body
      <4> QED BY ONLY <2>3, <2>4, <3>3, <3>4, <4>1, RasterPixel, Zenon
    <3>6. i % FieldMod = i
      BY <3>1, IndexSmall
    <3> QED BY <3>5, <3>6 DEF PixelOf, SamePixels, PixelIn, body
  <2>9. /\ Len(out.headers) = 1 /\ out.headers[1] = SepiaHeader(w, h) /\ out.body = Raster(array)
    BY <2>1
  <2> HIDE DEF w, h, array, stride, bytes
  <2> QED BY <2>2, <2>6, <2>7, <2>8, <2>9 DEF OutputIsPicture, stride, array
<1> QED BY Invariance, <1>1, PTL

\* At the end of a run no image is left, but for those perf_counter made.
THEOREM ImagesAreFreed == Spec => []ImagesFreed
<1>1. IInv => ImagesFreed
  BY DEF IInv, Images
<1> QED BY Invariance, <1>1, PTL

-----------------------------------------------------------------------------
(* The statistics of perf_counter.  Sum is recursive: what it computes for *)
(* every sequence is shown by induction.                                   *)

\* f adds up the first n elements of s.
Adds(f, s, n) == f = [i \in 0 .. n |-> IF i = 0 THEN 0 ELSE f[i - 1] + s[i]]

\* There is such a function.
LEMMA SumExists ==
  ASSUME NEW s \in Seq(Nat)
  PROVE  \A n \in Nat : n <= Len(s) => \E f : Adds(f, s, n) /\ f \in [0 .. n -> Nat]
<1> DEFINE T == {n \in Nat : n <= Len(s) => \E f : Adds(f, s, n) /\ f \in [0 .. n -> Nat]}
<1>1. 0 \in T
  <2>1. Adds([i \in 0 .. 0 |-> 0], s, 0)
    BY DEF Adds
  <2>2. [i \in 0 .. 0 |-> 0] \in [0 .. 0 -> Nat]
    OBVIOUS
  <2> QED BY <2>1, <2>2
<1>2. ASSUME NEW n \in Nat, n \in T
      PROVE  n + 1 \in T
  <2> SUFFICES ASSUME n + 1 <= Len(s)
               PROVE  \E f : Adds(f, s, n + 1) /\ f \in [0 .. n + 1 -> Nat]
    OBVIOUS
  <2>1. PICK f : Adds(f, s, n) /\ f \in [0 .. n -> Nat]
    BY <1>2
  <2> DEFINE g == [i \in 0 .. n + 1 |-> IF i = n + 1 THEN f[n] + s[n + 1] ELSE f[i]]
  <2>2. g \in [0 .. n + 1 -> Nat]
    BY <2>1
  <2>3. ASSUME NEW i \in 0 .. n + 1
        PROVE  g[i] = IF i = 0 THEN 0 ELSE g[i - 1] + s[i]
    BY <2>1 DEF Adds
  <2>4. Adds(g, s, n + 1)
    BY <2>3 DEF Adds
  <2> QED BY <2>2, <2>4
<1> HIDE DEF T
<1>3. Nat \subseteq T
  BY <1>1, <1>2, Induction
<1> QED BY <1>3 DEF T

\* And only one, which depends on the elements added only.
LEMMA AddsUnique ==
  ASSUME NEW s, NEW t, NEW n \in Nat, NEW f, NEW g, NEW m \in Nat, n <= m,
         Adds(f, s, n), Adds(g, t, m), \A i \in 1 .. n : s[i] = t[i]
  PROVE  f[n] = g[n]
<1> DEFINE T == {k \in Nat : k <= n => f[k] = g[k]}
<1>1. 0 \in T
  BY DEF Adds
<1>2. ASSUME NEW k \in Nat, k \in T
      PROVE  k + 1 \in T
  BY <1>2 DEF Adds
<1> HIDE DEF T
<1>3. Nat \subseteq T
  BY <1>1, <1>2, Induction
<1> QED BY <1>3 DEF T

\* So Sum is what it is defined to be.
LEMMA SumAdds ==
  ASSUME NEW s \in Seq(Nat)
  PROVE  \E f : Adds(f, s, Len(s)) /\ Sum(s) = f[Len(s)] /\ f[Len(s)] \in Nat
<1> DEFINE f == CHOOSE f : Adds(f, s, Len(s))
<1>1. Sum(s) = f[Len(s)]
  BY DEF Sum, Adds
<1>2. PICK g : Adds(g, s, Len(s)) /\ g \in [0 .. Len(s) -> Nat]
  BY SumExists
<1>3. Adds(f, s, Len(s))
  BY <1>2
<1> HIDE DEF f
<1>4. f[Len(s)] = g[Len(s)]
  BY <1>2, <1>3, AddsUnique
<1> QED BY <1>1, <1>2, <1>3, <1>4

\* No time, no sum;
LEMMA SumEmpty == Sum(<<>>) = 0
<1>1. <<>> \in Seq(Nat)
  OBVIOUS
<1>2. PICK f : Adds(f, <<>>, Len(<<>>)) /\ Sum(<<>>) = f[Len(<<>>)]
  BY ONLY <1>1, SumAdds, Zenon
<1> QED BY <1>2 DEF Adds

\* one more time is added.
LEMMA SumAppend ==
  ASSUME NEW s \in Seq(Nat), NEW x \in Nat
  PROVE  Sum(s) \in Nat /\ Sum(Append(s, x)) = Sum(s) + x
<1> DEFINE t == Append(s, x)
           n == Len(s)
<1>1. PICK f : Adds(f, s, n) /\ Sum(s) = f[n] /\ f[n] \in Nat
  BY SumAdds
<1>2. /\ t \in Seq(Nat) /\ Len(t) = n + 1 /\ t[n + 1] = x /\ \A i \in 1 .. n : s[i] = t[i]
      /\ n \in Nat
  OBVIOUS
<1> HIDE DEF t, n
<1>3. PICK g : Adds(g, t, n + 1) /\ Sum(t) = g[n + 1]
  BY <1>2, SumAdds
<1>4. n + 1 \in Nat /\ n <= n + 1
  BY <1>2
<1>5. f[n] = g[n]
  BY <1>1, <1>2, <1>3, <1>4, AddsUnique
<1>6. g[n + 1] = g[n] + x
  BY <1>2, <1>3 DEF Adds
<1> QED BY <1>1, <1>3, <1>5, <1>6 DEF t

\* What is known of the times of one filter.
Account(k) ==
  /\ times[k] \in Seq(Nat)
  /\ stats[k].sum = Sum(times[k])
  /\ stats[k].max = 0 \/ \E i \in DOMAIN times[k] : stats[k].max = times[k][i]
  /\ stats[k].min = MinStart \/ \E i \in DOMAIN times[k] : stats[k].min = times[k][i]
  /\ \A i \in DOMAIN times[k] : stats[k].min <= times[k][i] /\ times[k][i] <= stats[k].max

\* Both accounts are right, and as long as the rounds that are over.
Accounts ==
  /\ DOMAIN times = {"c", "sse"} /\ DOMAIN stats = {"c", "sse"}
  /\ \A k \in {"c", "sse"} : Account(k)
  /\ pc = "main" => kind = "c"
  /\ Perf => Len(times["c"]) = (IF kind = "sse" THEN test + 1 ELSE test)
             /\ Len(times["sse"]) = test
  /\ (pc = "free" /\ Perf) => test = TestsNum /\ kind = "c"

\* One more time on the account of its filter.
LEMMA AccountGrows ==
  ASSUME NEW k \in {"c", "sse"}, NEW d \in Nat, Account(k), MinStart \in Nat,
         times'[k] = Append(times[k], d),
         stats'[k] = [min |-> IF d < stats[k].min THEN d ELSE stats[k].min,
                      max |-> IF d > stats[k].max THEN d ELSE stats[k].max,
                      sum |-> stats[k].sum + d]
  PROVE  Account(k)' /\ Len(times'[k]) = Len(times[k]) + 1
<1> DEFINE s == times[k]
           t == times'[k]
           m == stats[k]
           m2 == stats'[k]
<1>1. /\ s \in Seq(Nat) /\ t \in Seq(Nat) /\ Len(t) = Len(s) + 1 /\ Len(s) \in Nat
      /\ t[Len(t)] = d /\ \A i \in 1 .. Len(s) : t[i] = s[i] /\ s[i] \in Nat
      /\ DOMAIN s = 1 .. Len(s) /\ DOMAIN t = 1 .. Len(t)
  <2>1. s \in Seq(Nat)
    BY Zenon DEF Account
  <2>2. t = Append(s, d)
    BY Zenon
  <2> HIDE DEF s, t
  <2>3. /\ Append(s, d) \in Seq(Nat) /\ Len(Append(s, d)) = Len(s) + 1 /\ Len(s) \in Nat
        /\ Append(s, d)[Len(s) + 1] = d
        /\ \A i \in 1 .. Len(s) : Append(s, d)[i] = s[i] /\ s[i] \in Nat
    BY ONLY <2>1, d \in Nat
  <2>4. DOMAIN s = 1 .. Len(s) /\ DOMAIN Append(s, d) = 1 .. Len(Append(s, d))
    BY ONLY <2>1, <2>3
  <2> QED BY ONLY <2>1, <2>2, <2>3, <2>4
<1>2. Sum(t) = Sum(s) + d
  BY <1>1, SumAppend
<1>3. /\ m.sum = Sum(s)
      /\ m.max = 0 \/ \E i \in DOMAIN s : m.max = s[i]
      /\ m.min = MinStart \/ \E i \in DOMAIN s : m.min = s[i]
      /\ \A i \in DOMAIN s : m.min <= s[i] /\ s[i] <= m.max
  BY Zenon DEF Account
<1>4. /\ m2.min = IF d < m.min THEN d ELSE m.min
      /\ m2.max = IF d > m.max THEN d ELSE m.max
      /\ m2.sum = m.sum + d
  OBVIOUS
<1> HIDE DEF s, t, m, m2
<1>5. m.max \in Nat /\ m.min \in Nat
  BY <1>1, <1>3
<1>6. m2.max = 0 \/ \E i \in DOMAIN t : m2.max = t[i]
  <2>1. \A i \in DOMAIN s : i \in DOMAIN t /\ t[i] = s[i]
    BY <1>1
  <2>2. (m2.max = t[Len(t)] /\ Len(t) \in DOMAIN t) \/ m2.max = m.max
    BY <1>1, <1>4
  <2> QED BY ONLY <1>3, <2>1, <2>2, Zenon
<1>7. m2.min = MinStart \/ \E i \in DOMAIN t : m2.min = t[i]
  <2>1. \A i \in DOMAIN s : i \in DOMAIN t /\ t[i] = s[i]
    BY <1>1
  <2>2. (m2.min = t[Len(t)] /\ Len(t) \in DOMAIN t) \/ m2.min = m.min
    BY <1>1, <1>4
  <2> QED BY ONLY <1>3, <2>1, <2>2, Zenon
<1>8. ASSUME NEW i \in DOMAIN t
      PROVE  m2.min <= t[i] /\ t[i] <= m2.max
  <2>1. CASE i = Len(t)
    BY <2>1, <1>1, <1>4, <1>5
  <2>2. CASE i # Len(t)
    <3>1. i \in 1 .. Len(s)
      BY <2>2, <1>1
    <3> QED BY <3>1, <1>1, <1>3, <1>4, <1>5
  <2> QED BY <2>1, <2>2
<1> QED BY <1>1, <1>2, <1>3, <1>4, <1>6, <1>7, <1>8 DEF Account, s, t, m, m2

\* No other step touches the accounts.
LEMMA AccountsKept ==
  ASSUME IInv, Accounts, [Next]_vars
  PROVE  Accounts'
<1>1. Typed /\ PerfOnly
  BY DEF IInv
<1>2. Perf' = Perf
  <2>1. argv' = argv
    BY DEF Next, Main, OpenIn, ReadHeader, AllocPixelArray, ReadRow, ReadDone, OpenOut,
           AllocOutput, FilterStep, FilterDone, Measure, ToBmp, Exit, file, vars
  <2> QED BY <2>1 DEF Perf
<1>3. ASSUME UNCHANGED perf, kind' = kind \/ (pc = "main" /\ (Perf => kind' = "c")),
             pc' = "main" => pc = "main" /\ kind' = kind,
             pc' = "free" => (pc = "free" /\ kind' = kind) \/ ~Perf
      PROVE  Accounts'
  <2>1. times' = times /\ stats' = stats /\ test' = test
    BY <1>3 DEF perf
  <2>2. \A k \in {"c", "sse"} : Account(k)'
    BY <2>1 DEF Accounts, Account
  <2> QED BY <1>2, <1>3, <2>1, <2>2 DEF Accounts
<1>4. CASE Main
  <2>1. Perf => ~Sse
    BY DEF Perf, Sse
  <2>2. /\ pc = "main" /\ pc' \in {"usage", "open_in"} /\ UNCHANGED perf
        /\ kind' = kind \/ kind' = IF Sse THEN "sse" ELSE "c"
    BY <1>4 DEF Main
  <2> QED BY <1>3, <2>1, <2>2
<1>5. CASE OpenIn
  BY <1>3, <1>5 DEF OpenIn, filter
<1>6. CASE ReadHeader
  BY <1>3, <1>6 DEF ReadHeader, filter
<1>7. CASE AllocPixelArray
  BY <1>3, <1>7 DEF AllocPixelArray, filter
<1>8. CASE ReadRow
  <2>1. pc' \in {"read_row", "crashed", "out_of_bounds"} /\ UNCHANGED <<kind, perf>>
    BY <1>8 DEF ReadRow, filter
  <2> QED BY <1>3, <2>1
<1>9. CASE ReadDone
  BY <1>3, <1>9 DEF ReadDone, filter
<1>10. CASE OpenOut
  BY <1>3, <1>10 DEF OpenOut, filter
<1>11. CASE AllocOutput
  BY <1>3, <1>11 DEF AllocOutput
<1>12. CASE FilterStep
  <2>1. pc' \in {"pixels", "crashed"} /\ UNCHANGED <<kind, perf>>
    BY <1>12 DEF FilterStep
  <2> QED BY <1>3, <2>1
<1>13. CASE FilterDone
  BY <1>3, <1>13 DEF FilterDone, filter
<1>14. CASE Measure
  <2>1. Perf /\ kind \in {"c", "sse"} /\ test \in Nat /\ TestsNum \in Nat /\ MinStart \in Nat
    BY <1>1, <1>14, SepiaAssumption DEF PerfOnly, Typed, TypeOK, Measure
  <2>2. PICK d \in Durations :
          /\ times' = [times EXCEPT ![kind] = Append(@, d)]
          /\ stats' = [stats EXCEPT ![kind] =
                         [min |-> IF d < @.min THEN d ELSE @.min,
                          max |-> IF d > @.max THEN d ELSE @.max,
                          sum |-> @.sum + d]]
    BY <1>14 DEF Measure
  <2>3. d \in Nat
    BY SepiaAssumption
  <2>4. /\ DOMAIN times' = {"c", "sse"} /\ DOMAIN stats' = {"c", "sse"}
        /\ times'[kind] = Append(times[kind], d)
        /\ stats'[kind] = [min |-> IF d < stats[kind].min THEN d ELSE stats[kind].min,
                           max |-> IF d > stats[kind].max THEN d ELSE stats[kind].max,
                           sum |-> stats[kind].sum + d]
        /\ \A k \in {"c", "sse"} \ {kind} : times'[k] = times[k] /\ stats'[k] = stats[k]
    BY <2>1, <2>2 DEF Accounts
  <2>5. ASSUME NEW k \in {"c", "sse"}
        PROVE  Account(k)' /\ (k = kind => Len(times'[k]) = Len(times[k]) + 1)
    <3>1. Account(k)
      BY DEF Accounts
    <3>2. CASE k = kind
      <4>1. /\ times'[k] = Append(times[k], d)
            /\ stats'[k] = [min |-> IF d < stats[k].min THEN d ELSE stats[k].min,
                            max |-> IF d > stats[k].max THEN d ELSE stats[k].max,
                            sum |-> stats[k].sum + d]
        BY <3>2, <2>4
      <4> QED BY ONLY <2>1, <2>3, <3>1, <4>1, AccountGrows, Zenon
    <3>3. CASE k # kind
      BY <3>1, <3>3, <2>4 DEF Account
    <3> QED BY <3>2, <3>3
  <2>6. \A k \in {"c", "sse"} : Account(k)'
    BY <2>5
  <2>7. /\ kind = "c" => kind' = "sse" /\ pc' = "filter" /\ test' = test
        /\ kind # "c" => /\ kind' = "c" /\ test' = test + 1
                         /\ pc' = IF test + 1 = TestsNum THEN "free" ELSE "filter"
    BY <1>14 DEF Measure
  <2> QED BY <1>2, <2>1, <2>4, <2>5, <2>6, <2>7 DEF Accounts
<1>15. CASE ToBmp
  <2>1. pc = "to_bmp" /\ pc' \in {"free", "crashed"} /\ UNCHANGED <<kind, perf>>
    BY <1>15 DEF ToBmp, filter
  <2>2. ~Perf
    BY <1>1, <2>1 DEF PerfOnly
  <2> QED BY <1>3, <2>1, <2>2
<1>16. CASE Exit
  BY <1>3, <1>16 DEF Exit, filter
<1>17. CASE UNCHANGED vars
  BY <1>3, <1>17 DEF vars, filter
<1> QED BY <1>4, <1>5, <1>6, <1>7, <1>8, <1>9, <1>10, <1>11, <1>12, <1>13, <1>14, <1>15,
           <1>16, <1>17 DEF Next

\* The table perf_counter prints is that of the measured times: none is left
\* out, counted twice or put to the other filter's account.
THEOREM StatisticsRight == Spec => []StatsOfRuns
<1>1. Init => Accounts
  <2> SUFFICES ASSUME Init PROVE Accounts
    OBVIOUS
  <2>1. <<>> \in Seq(Nat) /\ Len(<<>>) = 0 /\ DOMAIN <<>> = {}
    OBVIOUS
  <2>2. ASSUME NEW k \in {"c", "sse"}
        PROVE  Account(k)
    <3>1. times[k] = <<>> /\ stats[k] = NoStats
      BY DEF Init
    <3>2. stats[k].sum = 0 /\ stats[k].max = 0 /\ stats[k].min = MinStart
      BY <3>1 DEF NoStats
    <3> QED BY <2>1, <3>1, <3>2, SumEmpty DEF Account
  <2> QED BY <2>1, <2>2 DEF Init, Accounts
<1>2. Accounts => StatsOfRuns
  <2> SUFFICES ASSUME Accounts, NEW k \in {"c", "sse"}
               PROVE  LET measured == {times[k][i] : i \in DOMAIN times[k]} IN
                      /\ stats[k].sum = Sum(times[k])
                      /\ stats[k].max \in measured \union {0}
                      /\ \A t \in measured : t <= stats[k].max
                      /\ stats[k].min \in measured \union {MinStart}
                      /\ \A t \in measured : stats[k].min <= t
                      /\ (pc = "free" /\ Perf) => Len(times[k]) = TestsNum
    BY DEF StatsOfRuns
  <2>1. Account(k)
    BY DEF Accounts
  <2>2. (pc = "free" /\ Perf) => Len(times[k]) = TestsNum
    BY DEF Accounts
  <2> QED BY <2>1, <2>2 DEF Account
<1> QED BY Invariance, <1>1, <1>2, AccountsKept, PTL DEF Spec
=============================================================================
